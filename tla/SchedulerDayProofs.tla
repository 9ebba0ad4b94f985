-------------------------- MODULE SchedulerDayProofs --------------------------
(***************************************************************************)
(* Proofs about SchedulerDay for every day: any hours of ticks, any limits *)
(* of the tasks, any number of workflow runs and of disturbances.          *)
(***************************************************************************)
EXTENDS SchedulerDay, TLAPS

(***************************************************************************)
(* The inductive invariant.                                                *)
(***************************************************************************)

\* A tick that has selected a task may count it once more, and is within the day.
WithinLimit ==
  /\ step \in Tasks => runCount[step] < DailyLimit[step]
  /\ step # "waiting" => now < DayEnd

\* A marker means that an alert was tried, and so does a tick after 1 pm of a day
\* without a briefing.
AlertsTried ==
  /\ markers # {} => alerted \/ muted
  /\ lateTick => sentToday \/ alerted \/ muted

IInv == TypeOK /\ WithinLimit /\ AlertsTried

-----------------------------------------------------------------------------
(* The choice of the task.                                                 *)

LEMMA Chosen ==
  ASSUME NEW wishes, Len(wishes) = 7, NEW due, due = {i \in 1 .. Len(wishes) : wishes[i].due},
         due # {}
  PROVE  LET chosen == CHOOSE i \in due : \A j \in due : i <= j
         IN  chosen \in due /\ \A j \in due : chosen <= j
<1>1. \E i \in due : \A j \in due : i <= j
  <2>1. due \subseteq 1 .. 7
    OBVIOUS
  <2>2. CASE 1 \in due
    BY <2>1, <2>2
  <2>3. CASE 1 \notin due /\ 2 \in due
    BY <2>1, <2>3
  <2>4. CASE 1 \notin due /\ 2 \notin due /\ 3 \in due
    BY <2>1, <2>4
  <2>5. CASE 1 \notin due /\ 2 \notin due /\ 3 \notin due /\ 4 \in due
    BY <2>1, <2>5
  <2>6. CASE 1 \notin due /\ 2 \notin due /\ 3 \notin due /\ 4 \notin due /\ 5 \in due
    BY <2>1, <2>6
  <2>7. CASE due \subseteq {6, 7}
    BY <2>1, <2>7
  <2>8. due \subseteq {6, 7} \/ 1 \in due \/ 2 \in due \/ 3 \in due \/ 4 \in due \/ 5 \in due
    BY <2>1
  <2> QED
    BY <2>2, <2>3, <2>4, <2>5, <2>6, <2>7, <2>8
<1> QED
  BY <1>1

\* The selected task, if any, is one that may still run.
LEMMA SelectedCanRun ==
  ASSUME NEW contextOld, NEW sendOld
  PROVE  \/ selectDueTask(contextOld, sendOld) = "idle"
         \/ /\ selectDueTask(contextOld, sendOld) \in Tasks
            /\ canRun(selectDueTask(contextOld, sendOld))
<1> DEFINE wishes == Wishes(contextOld, sendOld)
           due    == {i \in 1 .. Len(wishes) : wishes[i].due}
           chosen == CHOOSE i \in due : \A j \in due : i <= j
<1>1. Len(wishes) = 7
  BY DEF Wishes
<1>2. \A task, isDue :
        Wish(task, isDue).task = task /\ (Wish(task, isDue).due => canRun(task))
  BY Zenon DEF Wish
<1>3. \A i \in 1 .. 7 : \E task \in Tasks : \E isDue : wishes[i] = Wish(task, isDue)
  <2>1. /\ \E isDue : wishes[1] = Wish("refresh-projections", isDue)
        /\ \E isDue : wishes[2] = Wish("refresh-context", isDue)
        /\ \E isDue : wishes[3] = Wish("precompute", isDue)
        /\ \E isDue : wishes[4] = Wish("apply-lineup", isDue)
        /\ \E isDue : wishes[5] = Wish("send-briefing", isDue)
        /\ \E isDue : wishes[6] = Wish("send-briefing", isDue)
        /\ \E isDue : wishes[7] = Wish("refresh-context", isDue)
    BY DEF Wishes
  <2> HIDE DEF wishes
  <2>2. \A i \in 1 .. 7 : i \in {1, 2, 3, 4, 5, 6, 7}
    OBVIOUS
  <2> QED
    BY <2>1, <2>2 DEF Tasks
<1>4. ASSUME due # {} PROVE chosen \in due
  <2> HIDE DEF wishes
  <2> QED
    BY <1>1, <1>4, Chosen
<1>5. ASSUME due # {} PROVE wishes[chosen].task \in Tasks /\ canRun(wishes[chosen].task)
  <2> HIDE DEF wishes, chosen
  <2> QED
    BY <1>1, <1>2, <1>3, <1>4, <1>5
<1> QED
  BY <1>5 DEF selectDueTask

-----------------------------------------------------------------------------
(* The steps.                                                              *)

LEMMA Moment ==
  ASSUME TypeOK
  PROVE  /\ now \in Stamps /\ now # None /\ now # Yesterday
         /\ now < DayEnd => now + 1 \in Moments
         /\ now % 2 = 1 => now < DayEnd
BY ParametersAssumption DEF TypeOK, DayEnd, Moments, Stamps, Yesterday

LEMMA Limits == DailyLimit \in [Tasks -> Nat] /\ MaxRuns \in Nat /\ MaxDisturbed \in Nat
BY ParametersAssumption

LEMMA SelectTyped ==
  ASSUME IInv, Select \/ SelectFails
  PROVE  TypeOK' /\ WithinLimit'
<1>1. CASE SelectFails
  BY <1>1, Limits DEF SelectFails, IInv, TypeOK, WithinLimit, Disturb, IsTick, Tasks, rows, alerts
<1>2. CASE Select
  <2>0. \E contextOld, sendOld : step' = selectDueTask(contextOld, sendOld)
    BY <1>2 DEF Select
  <2>1. disturbed' \in 0 .. MaxDisturbed
    <3>1. Disturb \/ UNCHANGED disturbed
      BY <1>2 DEF Select
    <3> QED
      BY <3>1, Limits DEF Disturb, IInv, TypeOK
  <2>2. \/ step' = "idle"
        \/ step' \in Tasks /\ canRun(step')
    BY <2>0, SelectedCanRun
  <2>3. /\ now < DayEnd
        /\ UNCHANGED <<now, rows, pregameFrom, runsLeft, alerts>>
    BY <1>2 DEF Select, IsTick
  <2>4. step' \in Tasks \cup {"waiting", "idle", "watchdog", "failed"}
    BY <2>2
  <2>5. TypeOK'
    BY <2>1, <2>3, <2>4 DEF IInv, TypeOK, rows, alerts
  <2>6. WithinLimit'
    BY <2>2, <2>3 DEF WithinLimit, rows, canRun, canRunToday, Tasks
  <2> QED
    BY <2>5, <2>6
<1> QED
  BY <1>1, <1>2

\* The counts stay within the limits when the task of the tick is counted.
LEMMA Counted ==
  ASSUME IInv, step \in Tasks, Count(step) \/ UNCHANGED runCount, UNCHANGED runsLeft
  PROVE  /\ runCount' \in [Tasks -> Nat]
         /\ \A t \in Tasks : runCount'[t] <= DailyLimit[t] +
              (IF t = "send-briefing" THEN MaxRuns - runsLeft' ELSE 0)
<1>1. CASE UNCHANGED runCount
  BY <1>1 DEF IInv, TypeOK
<1>2. CASE Count(step)
  <2>1. runCount' \in [Tasks -> Nat]
    BY <1>2 DEF Count, IInv, TypeOK
  <2>2. runCount[step] < DailyLimit[step] /\ MaxRuns - runsLeft \in Nat
    BY Limits DEF IInv, WithinLimit, TypeOK
  <2>3. runCount'[step] = runCount[step] + 1
        /\ \A t \in Tasks \ {step} : runCount'[t] = runCount[t]
    BY <1>2 DEF Count, IInv, TypeOK
  <2>4. runCount'[step] <= DailyLimit[step]
    BY <2>2, <2>3, Limits DEF IInv, TypeOK
  <2> QED
    BY <2>1, <2>2, <2>3, <2>4, Limits DEF IInv, TypeOK
<1> QED
  BY <1>1, <1>2

LEMMA RunTyped ==
  ASSUME IInv, \/ Succeed \/ BuildSpec \/ ReduceSpec \/ LeavePending \/ IdleTick
               \/ RunFails \/ Killed
  PROVE  TypeOK' /\ WithinLimit'
<1> USE DEF IInv
<1>1. now \in Moments /\ now \in Stamps /\ step # "waiting" /\ now < DayEnd /\ now + 1 \in Moments
  <2>1. step # "waiting"
    BY DEF Succeed, BuildSpec, ReduceSpec, LeavePending, IdleTick, RunFails, Killed, Tasks
  <2> QED
    BY <2>1, Moment DEF TypeOK, WithinLimit
<1>2. CASE Succeed
  <2>1. step \in Tasks /\ Count(step) /\ UNCHANGED runsLeft /\ step' = "watchdog"
    BY <1>2 DEF Succeed, Tasks
  <2>2. doneAt' \in [Tasks \ {"precompute"} -> Stamps] /\ authorized' \in BOOLEAN
    BY <1>1, <1>2 DEF Succeed, MarkAt, TypeOK
  <2> QED
    BY <1>1, <1>2, <2>1, <2>2, Counted DEF Succeed, TypeOK, WithinLimit, alerts, Tasks
<1>3. CASE BuildSpec \/ LeavePending \/ IdleTick
  <2>1. CASE BuildSpec \/ IdleTick
    BY <1>1, <2>1 DEF BuildSpec, IdleTick, TypeOK, WithinLimit, rows, alerts, Tasks
  <2>2. CASE LeavePending
    <3>1. disturbed' \in 0 .. MaxDisturbed
      BY <2>2, Limits DEF LeavePending, Disturb, TypeOK
    <3> QED
      BY <1>1, <2>2, <3>1 DEF LeavePending, TypeOK, WithinLimit, rows, alerts, Tasks
  <2> QED
    BY <1>3, <2>1, <2>2
<1>4. CASE ReduceSpec
  <2>1. step \in Tasks /\ Count(step) /\ UNCHANGED runsLeft /\ step' = "watchdog"
    BY <1>4 DEF ReduceSpec, Tasks
  <2> QED
    BY <1>1, <1>4, <2>1, Counted DEF ReduceSpec, TypeOK, WithinLimit, alerts, Tasks
<1>5. CASE RunFails \/ Killed
  <2>1. /\ step' \in {"failed", "waiting"} /\ now' \in {now, now + 1}
        /\ step' = "failed" => now' = now
        /\ UNCHANGED <<doneAt, pregameFrom, runsLeft, alerts>> /\ disturbed' \in 0 .. MaxDisturbed
        /\ PartlyDone
    BY <1>5, Limits DEF RunFails, Killed, Disturb, TypeOK
  <2>2. prep' \in {"none", "spec", "ready"} /\ authorized' \in BOOLEAN
    BY <2>1 DEF PartlyDone, TypeOK
  <2>3. /\ runCount' \in [Tasks -> Nat]
        /\ \A t \in Tasks : runCount'[t] <= DailyLimit[t] +
             (IF t = "send-briefing" THEN MaxRuns - runsLeft' ELSE 0)
    <3>1. CASE step \in Tasks
      BY <2>1, <3>1, Counted DEF PartlyDone
    <3>2. CASE step \notin Tasks
      BY <2>1, <3>2 DEF PartlyDone, Tasks, TypeOK
    <3> QED
      BY <3>1, <3>2
  <2> QED
    BY <1>1, <2>1, <2>2, <2>3 DEF TypeOK, WithinLimit, alerts, Tasks
<1> QED
  BY <1>2, <1>3, <1>4, <1>5

LEMMA EndTyped ==
  ASSUME IInv, Watchdog \/ FailedTick
  PROVE  TypeOK' /\ WithinLimit'
<1>1. now + 1 \in Moments
  BY Moment DEF Watchdog, FailedTick, IInv, WithinLimit
<1>2. markers' \subseteq {"tick-error", "deadman"} /\ alerted' \in BOOLEAN /\ muted' \in BOOLEAN
  BY DEF Watchdog, FailedTick, alertOncePerDay, IInv, TypeOK
<1>3. lateTick' \in BOOLEAN
  BY DEF Watchdog, FailedTick, EndTick, IInv, TypeOK
<1> QED
  BY <1>1, <1>2, <1>3 DEF Watchdog, FailedTick, EndTick, IInv, TypeOK, WithinLimit, rows, Tasks

LEMMA BetweenTyped ==
  ASSUME IInv, NoRun \/ RunSends \/ RunBreaks
  PROVE  TypeOK' /\ WithinLimit'
<1> USE DEF IInv
<1>1. now \in Moments /\ now \in Stamps /\ now + 1 \in Moments /\ step' = "waiting" /\ now' = now + 1
  BY Moment DEF NoRun, RunSends, RunBreaks, Between, TypeOK
<1>2. CASE NoRun
  BY <1>1, <1>2 DEF NoRun, TypeOK, WithinLimit, rows, alerts, Tasks
<1>3. CASE RunSends \/ RunBreaks
  <2>1. /\ runsLeft > 0 /\ runsLeft' = runsLeft - 1
        /\ Count("send-briefing") \/ UNCHANGED runCount
    BY <1>3 DEF RunSends, RunBreaks
  <2>2. /\ runCount' \in [Tasks -> Nat]
        /\ runCount'["send-briefing"] <= runCount["send-briefing"] + 1
        /\ \A t \in Tasks \ {"send-briefing"} : runCount'[t] = runCount[t]
    BY <2>1 DEF Count, TypeOK, Tasks
  <2>3. runsLeft' \in 0 .. MaxRuns
    BY <2>1, Limits DEF TypeOK
  <2>4. \A t \in Tasks : runCount'[t] <= DailyLimit[t] +
          (IF t = "send-briefing" THEN MaxRuns - runsLeft' ELSE 0)
    <3>1. "send-briefing" \in Tasks
      BY DEF Tasks
    <3>2. runCount'["send-briefing"] <= DailyLimit["send-briefing"] + (MaxRuns - runsLeft')
      BY <2>1, <2>2, <3>1, Limits DEF TypeOK
    <3> QED
      BY <2>2, <3>2, Limits DEF TypeOK
  <2>5. doneAt' \in [Tasks \ {"precompute"} -> Stamps] /\ prep' \in {"none", "spec", "ready"}
    BY <1>1, <1>3 DEF RunSends, RunBreaks, MarkAt, TypeOK
  <2>6. alerted' \in BOOLEAN /\ UNCHANGED <<authorized, pregameFrom, markers, muted, lateTick, disturbed>>
    BY <1>3 DEF RunSends, RunBreaks, TypeOK, alerts
  <2> QED
    BY <1>1, <2>2, <2>3, <2>4, <2>5, <2>6 DEF TypeOK, WithinLimit, Tasks
<1> QED
  BY <1>2, <1>3

\* Sent stays sent: a success replaces an older one.
LEMMA SentStays ==
  ASSUME IInv, [Next]_vars, sentToday
  PROVE  sentToday'
<1>1. \/ UNCHANGED doneAt
      \/ \E t \in Tasks \ {"precompute"} : MarkAt(t, now)
  BY DEF Next, vars, rows, Select, SelectFails, Succeed, BuildSpec, ReduceSpec, LeavePending,
     IdleTick, RunFails, Killed, Watchdog, FailedTick, EndTick, NoRun, RunSends, RunBreaks, DayOver,
     Tasks
<1>2. now # None /\ now # Yesterday
  BY Moment DEF IInv
<1>3. doneAt \in [Tasks \ {"precompute"} -> Stamps] /\ "send-briefing" \in Tasks \ {"precompute"}
  BY DEF IInv, TypeOK, Tasks
<1> QED
  BY <1>1, <1>2, <1>3 DEF sentToday, Stale, MarkAt

LEMMA StepAlertsTried ==
  ASSUME IInv, [Next]_vars
  PROVE  AlertsTried'
<1>1. CASE UNCHANGED <<markers, lateTick>> /\ (alerted => alerted') /\ (muted => muted')
  BY <1>1, SentStays DEF IInv, AlertsTried
<1>2. CASE Watchdog \/ FailedTick
  <2>1. sentToday' = sentToday
    BY <1>2 DEF Watchdog, FailedTick, EndTick, rows, sentToday, Stale
  <2> QED
    BY <1>2, <2>1 DEF Watchdog, FailedTick, EndTick, alertOncePerDay, IInv, AlertsTried
<1> QED
  BY <1>1, <1>2
  DEF Next, vars, alerts, Select, SelectFails, Succeed, BuildSpec, ReduceSpec, LeavePending,
      IdleTick, RunFails, Killed, NoRun, RunSends, RunBreaks, DayOver, IInv, TypeOK

LEMMA InitIInv == Init => IInv
<1> SUFFICES ASSUME Init PROVE IInv
  OBVIOUS
<1>1. now \in Moments /\ {Yesterday, None} \subseteq Stamps
  BY ParametersAssumption DEF Init, Moments, DayEnd, Stamps
<1>2. doneAt \in [Tasks \ {"precompute"} -> Stamps]
  BY <1>1 DEF Init
<1>3. runCount \in [Tasks -> Nat] /\ runsLeft \in 0 .. MaxRuns /\ disturbed \in 0 .. MaxDisturbed
      /\ \A t \in Tasks : runCount[t] = 0
  BY Limits DEF Init
<1>4. \A t \in Tasks : runCount[t] <= DailyLimit[t] +
        (IF t = "send-briefing" THEN MaxRuns - runsLeft ELSE 0)
  BY <1>3, Limits DEF Init
<1>5. TypeOK
  BY <1>1, <1>2, <1>3, <1>4 DEF Init, TypeOK
<1> QED
  BY <1>5 DEF Init, IInv, WithinLimit, AlertsTried, Tasks

LEMMA Invariance == Spec => []IInv
<1>1. IInv /\ [Next]_vars => IInv'
  <2> SUFFICES ASSUME IInv, [Next]_vars PROVE IInv'
    OBVIOUS
  <2>1. CASE UNCHANGED vars \/ DayOver
    <3> USE DEF vars, rows, alerts, DayOver
    <3>1. TypeOK'
      BY <2>1 DEF IInv, TypeOK
    <3>2. WithinLimit' /\ AlertsTried'
      BY <2>1 DEF IInv, WithinLimit, AlertsTried, sentToday, Stale
    <3> QED
      BY <3>1, <3>2 DEF IInv
  <2>2. CASE Next /\ ~DayOver
    BY <2>2, SelectTyped, RunTyped, EndTyped, BetweenTyped, StepAlertsTried DEF Next, IInv
  <2> QED
    BY <2>1, <2>2
<1> QED
  BY <1>1, InitIInv, PTL DEF Spec

-----------------------------------------------------------------------------
(* Why the briefing is sent in time: the ticks that are left are enough    *)
(* for the work that is left, whatever the tick at hand does.              *)

\* The ticks from m to room are enough for the work (projections, spec, reduction)
\* and then the rest (lineup, send): one tick for each part before the briefing is
\* due, and two from then on, but for the tick that a fresh context saves.
Suffices(m, due, room, work, rest, fresh) ==
  IF m < due
  THEN room - due >= 4 * rest + (IF 2 * work > due - m THEN 4 * work - 2 * (due - m) ELSE 0)
  ELSE room - m >= 4 * (work + rest) - 2 * fresh

LEMMA TickLost ==
  ASSUME NEW m \in Int, NEW due \in Int, NEW room \in Int, m % 2 = 0, due % 2 = 0,
         NEW work \in Nat, NEW rest \in Nat, NEW fresh \in 0 .. 1,
         NEW work2 \in Nat, NEW rest2 \in Nat, NEW fresh2 \in 0 .. 1,
         work2 <= work, rest2 <= rest, Suffices(m, due, room, work, rest, fresh)
  PROVE  Suffices(m + 2, due, room + 4, work2, rest2, fresh2)
BY DEF Suffices

LEMMA TickUsed ==
  ASSUME NEW m \in Int, NEW due \in Int, NEW room \in Int, m % 2 = 0, due % 2 = 0,
         NEW work \in Nat, NEW rest \in Nat, NEW fresh \in 0 .. 1,
         NEW work2 \in Nat, NEW rest2 \in Nat, NEW fresh2 \in 0 .. 1,
         work2 <= work, rest2 <= rest, work2 + rest2 < work + rest,
         Suffices(m, due, room, work, rest, fresh)
  PROVE  Suffices(m + 2, due, room, work2, rest2, fresh2)
BY DEF Suffices

LEMMA TickSpared ==
  ASSUME NEW m \in Int, NEW due \in Int, NEW room \in Int, m % 2 = 0, due % 2 = 0,
         NEW rest \in Nat, NEW fresh \in 0 .. 1, NEW rest2 \in Nat, NEW fresh2 \in 0 .. 1,
         rest2 <= rest, m < due, Suffices(m, due, room, 0, rest, fresh)
  PROVE  Suffices(m + 2, due, room, 0, rest2, fresh2)
BY DEF Suffices

LEMMA TickForContext ==
  ASSUME NEW m \in Int, NEW due \in Int, NEW room \in Int,
         NEW work \in Nat, NEW rest \in Nat, NEW work2 \in Nat, NEW rest2 \in Nat,
         work2 <= work, rest2 <= rest, m >= due, room - m - 2 >= 4 * (work + rest) - 2
  PROVE  Suffices(m + 2, due, room, work2, rest2, 1)
BY DEF Suffices

LEMMA NoTickTaken ==
  ASSUME NEW m \in Int, NEW due \in Int, NEW room \in Int, NEW room2 \in Int,
         NEW work \in Nat, NEW rest \in Nat, NEW fresh \in 0 .. 1,
         NEW work2 \in Nat, NEW rest2 \in Nat, NEW fresh2 \in 0 .. 1,
         room2 >= room, work2 <= work, rest2 <= rest, fresh2 >= fresh,
         Suffices(m, due, room, work, rest, fresh)
  PROVE  Suffices(m, due, room2, work2, rest2, fresh2)
BY DEF Suffices

\* The first tick that is not yet spent.
Ahead == IF now % 2 = 1 THEN now + 1
         ELSE IF step \in {"watchdog", "failed"} THEN now + 2 ELSE now

Due         == 2 * DueHour(pregameFrom)
Room        == DayEnd + 4 * disturbed - 4 * Tolerated
Projections == IF Stale("refresh-projections") /\ canRun("refresh-projections") THEN 1 ELSE 0
Stages      == IF prep = "none" THEN 2 ELSE IF prep = "spec" THEN 1 ELSE 0
Work        == Projections + Stages
Lineup      == IF Stale("apply-lineup") /\ canRun("apply-lineup") THEN 1 ELSE 0

\* At m there is no need to refresh the context first.
Fresh(m) ==
  IF \/ ~canRun("refresh-context")
     \/ doneAt["refresh-context"] # None /\ m - doneAt["refresh-context"] <= 2
  THEN 1 ELSE 0

Enough == Suffices(Ahead, Due, Room, Work, Lineup + 1, Fresh(Ahead))

\* What the tick does has to be done, or there is time for it.
Useful ==
  /\ step = "refresh-projections" => Projections = 1
  /\ step = "precompute" => prep # "ready"
  /\ step = "apply-lineup" => Lineup = 1
  /\ step = "refresh-context" =>
       IF now < Due THEN Work = 0
       ELSE Room - now - 2 >= 4 * (Work + (Lineup + 1)) - 2
  /\ step = "idle" => now < Due /\ Work = 0

\* Only a reduction counts precompute, and a send that did not succeed was disturbed.
Counts ==
  /\ prep # "ready" => runCount["precompute"] = 0
  /\ runCount["send-briefing"] <= disturbed + MaxRuns - runsLeft

EvenStep == step # "waiting" => now % 2 = 0

SentInv ==
  /\ EvenStep
  /\ ~sentToday => Counts /\ (disturbed <= Tolerated => Enough /\ Useful)

LEMMA Facts ==
  ASSUME TypeOK
  PROVE  /\ now \in Int /\ DayEnd \in Int /\ DayEnd % 2 = 0
         /\ Due \in Int /\ Due % 2 = 0
         /\ Room \in Int
         /\ Projections \in 0 .. 1
         /\ Work \in Nat /\ Lineup \in Nat /\ Lineup + 1 \in Nat
         /\ \A m \in Int : Fresh(m) \in 0 .. 1
         /\ Ahead \in Int /\ Ahead % 2 = 0
<1>1. now \in Int /\ DayEnd \in Int /\ DayEnd % 2 = 0
  BY ParametersAssumption DEF TypeOK, Moments, DayEnd
<1>2. Due \in Int /\ Due % 2 = 0
  <2>1. DueHour(pregameFrom) \in Int
    BY ParametersAssumption DEF TypeOK, DueHour, MorningHour, MorningHourEastern, EasternOffset
  <2> QED
    BY <2>1 DEF Due
<1>3. Room \in Int
  BY <1>1, ParametersAssumption DEF Room, TypeOK
<1>4. Projections \in 0 .. 1 /\ Stages \in 0 .. 2 /\ Lineup \in 0 .. 1
  BY DEF Projections, Stages, Lineup
<1>5. Work \in Nat /\ Lineup \in Nat /\ Lineup + 1 \in Nat
  BY <1>4 DEF Work
<1>6. \A m \in Int : Fresh(m) \in 0 .. 1
  BY DEF Fresh
<1>7. Ahead \in Int /\ Ahead % 2 = 0
  BY <1>1 DEF Ahead
<1> QED
  BY <1>1, <1>2, <1>3, <1>4, <1>5, <1>6, <1>7

\* What the selection of a task says of it, on a day without a briefing.
LEMMA SelectedTask ==
  ASSUME NEW contextOld \in BOOLEAN, NEW sendOld \in BOOLEAN, NEW task,
         task = selectDueTask(contextOld, sendOld),
         ~sentToday, canRun("send-briefing"), prep # "ready" => canRun("precompute")
  PROVE  /\ task = "refresh-projections" => Projections = 1
         /\ task = "precompute" => prep # "ready"
         /\ task = "apply-lineup" => Lineup = 1
         /\ task = "refresh-context" =>
              /\ contextOld /\ canRun("refresh-context")
              /\ ~briefingDue => Projections = 0 /\ prep = "ready"
         /\ task = "idle" => ~briefingDue /\ Projections = 0 /\ prep = "ready"
<1> DEFINE wishes == Wishes(contextOld, sendOld)
           due    == {i \in 1 .. Len(wishes) : wishes[i].due}
           chosen == CHOOSE i \in due : \A j \in due : i <= j
<1>1. Len(wishes) = 7
  BY DEF Wishes
<1>2. /\ wishes[1].task = "refresh-projections" /\ wishes[2].task = "refresh-context"
      /\ wishes[3].task = "precompute"          /\ wishes[4].task = "apply-lineup"
      /\ wishes[5].task = "send-briefing"       /\ wishes[6].task = "send-briefing"
      /\ wishes[7].task = "refresh-context"
  BY DEF Wishes, Wish
<1>3. wishes[1].due <=> Stale("refresh-projections") /\ canRun("refresh-projections")
  BY DEF Wishes, Wish
<1>4. wishes[2].due <=> briefingDue /\ contextOld /\ canRun("refresh-context")
  BY DEF Wishes, Wish
<1>5. wishes[3].due <=> prep # "ready" /\ ~sentToday /\ canRun("precompute")
  BY DEF Wishes, Wish
<1>6. wishes[4].due <=> Stale("apply-lineup") /\ refreshBriefingDue /\ canRun("apply-lineup")
  BY DEF Wishes, Wish
<1>7. wishes[5].due <=> ~sentToday /\ prep = "ready" /\ briefingDue /\ canRun("send-briefing")
  BY DEF Wishes, Wish
<1>8. wishes[7].due <=> contextOld /\ canRun("refresh-context")
  BY DEF Wishes, Wish
<1>9. task = IF due = {} THEN "idle" ELSE wishes[chosen].task
  BY DEF selectDueTask
<1> HIDE DEF wishes
<1>10. Projections = 0 <=> ~wishes[1].due
  BY <1>3 DEF Projections
<1>11. CASE due = {}
  <2>1. ~wishes[1].due /\ ~wishes[3].due /\ ~wishes[5].due
    BY <1>1, <1>11
  <2> QED
    BY <1>5, <1>7, <1>9, <1>10, <1>11, <2>1
<1>12. CASE due # {}
  <2>1. chosen \in due /\ \A j \in due : chosen <= j
    <3> HIDE DEF chosen
    <3> QED
      BY <1>1, <1>12, Chosen DEF chosen
  <2> HIDE DEF chosen
  <2>2. chosen \in 1 .. 7 /\ wishes[chosen].due /\ \A j \in 1 .. 7 : wishes[j].due => chosen <= j
    BY <1>1, <2>1
  <2>3. task = wishes[chosen].task
    BY <1>9, <1>12
  <2> HIDE DEF due
  <2>4. CASE chosen = 1
    BY <1>2, <1>10, <2>2, <2>3, <2>4 DEF Projections
  <2>5. CASE chosen = 2
    BY <1>2, <1>4, <2>2, <2>3, <2>5
  <2>6. CASE chosen = 3
    BY <1>2, <1>5, <2>2, <2>3, <2>6
  <2>7. CASE chosen = 4
    BY <1>2, <1>6, <2>2, <2>3, <2>7 DEF Lineup
  <2>8. CASE chosen \in {5, 6}
    BY <1>2, <2>2, <2>3, <2>8
  <2>9. CASE chosen = 7
    <3>1. ~wishes[1].due /\ ~wishes[3].due
      BY <2>2, <2>9
    <3> QED
      BY <1>2, <1>5, <1>8, <1>10, <2>2, <2>3, <2>9, <3>1
  <2>10. chosen \in {1, 2, 3, 4, 5, 6, 7}
    BY <2>2
  <2> QED
    BY <2>4, <2>5, <2>6, <2>7, <2>8, <2>9, <2>10
<1> QED
  BY <1>11, <1>12

\* A briefing is due from Due on.
LEMMA DueThen ==
  ASSUME TypeOK, now % 2 = 0, canRun("send-briefing")
  PROVE  briefingDue <=> now >= Due
<1>1. now \in Int /\ pregameFrom \in Int
  BY ParametersAssumption, Facts DEF TypeOK
<1>2. isPregameBriefingDue <=> now >= 2 * pregameFrom
  BY <1>1 DEF isPregameBriefingDue, hour
<1>3. isMorningBriefingDue <=> now >= 2 * MorningHour
  BY <1>1 DEF isMorningBriefingDue, easternHour, hour, MorningHour, MorningHourEastern, EasternOffset
<1> QED
  BY <1>1, <1>2, <1>3 DEF briefingDue, Due, DueHour, MorningHour, MorningHourEastern, EasternOffset

\* While the briefing may still be in time, there are runs left for it.
LEMMA MayStillRun ==
  ASSUME TypeOK, Counts, disturbed <= Tolerated
  PROVE  canRun("send-briefing") /\ (prep # "ready" => canRun("precompute"))
<1>1. /\ "send-briefing" \in Tasks /\ "precompute" \in Tasks
      /\ \A t \in Tasks : runCount[t] \in Nat /\ DailyLimit[t] \in Nat
  BY ParametersAssumption DEF TypeOK, Tasks
<1>2. disturbed \in Nat /\ Tolerated \in Nat /\ MaxRuns \in Nat /\ runsLeft \in 0 .. MaxRuns
  BY ParametersAssumption DEF TypeOK
<1>3. runCount["send-briefing"] < DailyLimit["send-briefing"]
  BY <1>1, <1>2, RoomInTheDay DEF Counts
<1>4. prep # "ready" => runCount["precompute"] < DailyLimit["precompute"]
  BY <1>1, RoomInTheDay DEF Counts
<1> QED
  BY <1>3, <1>4 DEF canRun, canRunToday

\* What a step does to the counts, the marks and the preparation.
LEMMA StepEffects ==
  ASSUME IInv, Next
  PROVE  /\ \/ UNCHANGED runCount
            \/ step \in Tasks /\ Count(step)
            \/ step = "waiting" /\ Count("send-briefing")
         /\ \/ UNCHANGED doneAt
            \/ step \in Tasks \ {"precompute"} /\ MarkAt(step, now)
            \/ step = "waiting" /\ MarkAt("send-briefing", now)
         /\ authorized' = authorized \/ step = "apply-lineup"
         /\ prep = "ready" => prep' = "ready"
         /\ prep = "spec" => prep' # "none"
         /\ UNCHANGED disturbed \/ Disturb
         /\ UNCHANGED pregameFrom
<1> USE DEF rows, alerts, Tasks
<1>1. CASE Select \/ SelectFails
  BY <1>1 DEF Select, SelectFails
<1>2. CASE Succeed
  BY <1>2 DEF Succeed
<1>3. CASE BuildSpec \/ ReduceSpec \/ LeavePending \/ IdleTick
  BY <1>3 DEF BuildSpec, ReduceSpec, LeavePending, IdleTick
<1>4. CASE RunFails \/ Killed
  BY <1>4 DEF RunFails, Killed, PartlyDone
<1>5. CASE Watchdog \/ FailedTick
  BY <1>5 DEF Watchdog, FailedTick, EndTick
<1>6. CASE NoRun \/ RunSends \/ RunBreaks
  BY <1>6 DEF NoRun, RunSends, RunBreaks, Between, IInv, TypeOK
<1>7. CASE DayOver
  BY <1>7 DEF DayOver, vars
<1> QED
  BY <1>1, <1>2, <1>3, <1>4, <1>5, <1>6, <1>7 DEF Next

\* No count is taken back, and what was done today stays done.
LEMMA NothingUndone ==
  ASSUME IInv, Next
  PROVE  /\ \A t \in Tasks : runCount'[t] \in Nat /\ runCount[t] \in Nat
                             /\ runCount'[t] >= runCount[t]
         /\ \A t \in Tasks \ {"precompute"} : Stale(t)' => Stale(t)
<1>1. /\ runCount \in [Tasks -> Nat] /\ doneAt \in [Tasks \ {"precompute"} -> Stamps]
      /\ now # None /\ now # Yesterday
      /\ "send-briefing" \in Tasks \ {"precompute"}
  BY Moment DEF IInv, TypeOK, Tasks
<1>2. \/ UNCHANGED runCount
      \/ \E t \in Tasks : Count(t)
  BY <1>1, StepEffects
<1>3. \/ UNCHANGED doneAt
      \/ \E t \in Tasks \ {"precompute"} : MarkAt(t, now)
  BY <1>1, StepEffects
<1>4. \A t \in Tasks : runCount'[t] \in Nat /\ runCount[t] \in Nat /\ runCount'[t] >= runCount[t]
  BY <1>1, <1>2 DEF Count
<1>5. \A t \in Tasks \ {"precompute"} : Stale(t)' => Stale(t)
  BY <1>1, <1>3 DEF Stale, MarkAt
<1> QED
  BY <1>4, <1>5

LEMMA WorkShrinks ==
  ASSUME IInv, Next, step = "apply-lineup" => Lineup = 1
  PROVE  /\ Projections' <= Projections /\ Work' <= Work /\ Lineup' <= Lineup
         /\ Due' = Due
         /\ disturbed' \in Nat /\ disturbed \in Nat /\ disturbed <= disturbed'
         /\ Room' = Room + 4 * (disturbed' - disturbed)
<1>1. /\ "refresh-projections" \in Tasks \ {"precompute"}
      /\ "apply-lineup" \in Tasks \ {"precompute"}
      /\ \A t \in Tasks : DailyLimit[t] \in Nat
  BY ParametersAssumption DEF Tasks
<1>2. \A t \in Tasks : canRunToday(t)' => canRunToday(t)
  BY <1>1, NothingUndone DEF canRunToday
<1>3. Projections' <= Projections
  <2>1. canRun("refresh-projections")' => canRun("refresh-projections")
    BY <1>1, <1>2 DEF canRun
  <2> QED
    BY <1>1, <2>1, NothingUndone DEF Projections
<1>4. Stages' <= Stages /\ Stages \in Nat /\ Stages' \in Nat
  BY StepEffects DEF Stages, IInv, TypeOK
<1>5. Lineup' <= Lineup
  <2>1. CASE step = "apply-lineup"
    BY <2>1 DEF Lineup
  <2>2. CASE step # "apply-lineup"
    <3>1. canRun("apply-lineup")' => canRun("apply-lineup")
      BY <1>1, <1>2, <2>2, StepEffects DEF canRun
    <3> QED
      BY <1>1, <3>1, NothingUndone DEF Lineup
  <2> QED
    BY <2>1, <2>2
<1>6. Projections \in Nat /\ Projections' \in Nat
  BY DEF Projections
<1>7. Work' <= Work
  <2>1. Work = Projections + Stages /\ Work' = Projections' + Stages'
    BY DEF Work
  <2>2. \A a, b, c, d \in Nat : a <= b /\ c <= d => a + c <= b + d
    OBVIOUS
  <2> HIDE DEF Work
  <2> QED
    BY <1>3, <1>4, <1>6, <2>1, <2>2
<1>8. disturbed' \in Nat /\ disturbed \in Nat /\ disturbed <= disturbed'
  BY StepEffects DEF Disturb, IInv, TypeOK
<1>9. DayEnd \in Int /\ Tolerated \in Int
  BY ParametersAssumption DEF DayEnd
<1>10. DayEnd' = DayEnd /\ Due' = Due
  BY StepEffects DEF DayEnd, Due
<1>11. Room' = Room + 4 * (disturbed' - disturbed)
  BY <1>8, <1>9, <1>10 DEF Room
<1> QED
  BY <1>3, <1>5, <1>7, <1>8, <1>10, <1>11

\* A context that is fresh at some moment stays so, while it is not refreshed.
LEMMA FreshStays ==
  ASSUME IInv, Next, NEW m \in Int, UNCHANGED doneAt
  PROVE  Fresh(m)' >= Fresh(m)
<1>1. "refresh-context" \in Tasks /\ \A t \in Tasks : DailyLimit[t] \in Nat
  BY ParametersAssumption DEF Tasks
<1>2. canRun("refresh-context")' => canRun("refresh-context")
  BY <1>1, NothingUndone DEF canRun, canRunToday
<1> QED
  BY <1>2 DEF Fresh

LEMMA CountsKept ==
  ASSUME IInv, Next, ~sentToday', Counts
  PROVE  Counts'
<1>1. /\ runCount \in [Tasks -> Nat] /\ "precompute" \in Tasks /\ "send-briefing" \in Tasks
      /\ disturbed \in Nat /\ runsLeft \in Nat /\ MaxRuns \in Nat
      /\ doneAt \in [Tasks \ {"precompute"} -> Stamps] /\ now # None /\ now # Yesterday
  BY Limits, Moment DEF IInv, TypeOK, Tasks
<1> USE DEF rows, alerts
<1>2. CASE UNCHANGED <<runCount, runsLeft>> /\ (UNCHANGED disturbed \/ Disturb)
           /\ (prep' # "ready" => prep # "ready")
  BY <1>1, <1>2 DEF Counts, Disturb
<1>3. CASE Succeed
  <2>1. step # "send-briefing"
    BY <1>1, <1>3 DEF Succeed, MarkAt, sentToday, Stale, Tasks
  <2>2. step \notin {"precompute", "send-briefing"} /\ Count(step)
        /\ UNCHANGED <<prep, disturbed, runsLeft>>
    BY <1>3, <2>1 DEF Succeed
  <2>3. /\ runCount'["precompute"] = runCount["precompute"]
        /\ runCount'["send-briefing"] = runCount["send-briefing"]
    BY <1>1, <2>2 DEF Count
  <2> QED
    BY <2>2, <2>3 DEF Counts
<1>4. CASE ReduceSpec
  BY <1>1, <1>4 DEF ReduceSpec, Count, Counts
<1>5. CASE RunFails \/ Killed
  <2>1. PartlyDone /\ Disturb /\ UNCHANGED runsLeft
    BY <1>5 DEF RunFails, Killed
  <2>2. prep = "ready" => prep' = "ready"
    BY <2>1 DEF PartlyDone
  <2>3. CASE UNCHANGED runCount
    BY <1>1, <2>1, <2>2, <2>3 DEF Counts, Disturb
  <2>4. CASE step = "precompute" /\ Count(step)
    <3>1. prep' = "ready"
      <4>1. "precompute" \notin Tasks \ {"precompute"}
        OBVIOUS
      <4>2. runCount' # runCount
        BY <1>1, <2>4 DEF Count
      <4> QED
        BY <2>1, <2>4, <4>1, <4>2 DEF PartlyDone
    <3>2. runCount'["send-briefing"] = runCount["send-briefing"]
      BY <1>1, <2>4 DEF Count
    <3> QED
      BY <1>1, <2>1, <3>1, <3>2 DEF Counts, Disturb
  <2>5. CASE step \in Tasks \ {"precompute"} /\ Count(step)
    <3>1. runCount'["precompute"] = runCount["precompute"]
          /\ runCount'["send-briefing"] <= runCount["send-briefing"] + 1
          /\ runCount'["send-briefing"] \in Nat
      BY <1>1, <2>5 DEF Count
    <3> QED
      BY <1>1, <2>1, <2>2, <3>1 DEF Counts, Disturb
  <2> QED
    BY <2>1, <2>3, <2>4, <2>5 DEF PartlyDone
<1>6. CASE RunSends
  BY <1>1, <1>6 DEF RunSends, MarkAt, sentToday, Stale, Tasks
<1>7. CASE RunBreaks
  <2>1. runCount'["precompute"] = runCount["precompute"]
        /\ runCount'["send-briefing"] <= runCount["send-briefing"] + 1
        /\ runCount'["send-briefing"] \in Nat
    BY <1>1, <1>7 DEF RunBreaks, Count
  <2>2. UNCHANGED disturbed /\ runsLeft' = runsLeft - 1 /\ (prep = "ready" => prep' = "ready")
    BY <1>7 DEF RunBreaks, IInv, TypeOK
  <2> QED
    BY <1>1, <2>1, <2>2 DEF Counts
<1>8. CASE Select \/ SelectFails \/ BuildSpec \/ LeavePending \/ IdleTick \/ Watchdog
           \/ FailedTick \/ NoRun \/ DayOver
  <2>1. UNCHANGED <<runCount, runsLeft>> /\ (UNCHANGED disturbed \/ Disturb)
        /\ (prep' # "ready" => prep # "ready")
    BY <1>8 DEF Select, SelectFails, BuildSpec, LeavePending, IdleTick, Watchdog, FailedTick,
       EndTick, NoRun, DayOver, vars
  <2> QED
    BY <1>2, <2>1
<1> QED
  BY <1>3, <1>4, <1>5, <1>6, <1>7, <1>8 DEF Next

-----------------------------------------------------------------------------
(* The steps, on a day whose briefing is still not sent.                   *)

Unsent == ~sentToday /\ Counts /\ Enough /\ Useful

LEMMA Balance ==
  ASSUME IInv, Next, Unsent
  PROVE  /\ Ahead \in Int /\ Ahead % 2 = 0 /\ Due \in Int /\ Due % 2 = 0 /\ Room \in Int
         /\ Work \in Nat /\ Lineup + 1 \in Nat /\ Fresh(Ahead) \in 0 .. 1
         /\ Due' = Due /\ Room' \in Int
         /\ Room' = Room + 4 * (disturbed' - disturbed)
         /\ disturbed \in Nat /\ disturbed' \in Nat /\ disturbed <= disturbed'
         /\ Work' \in Nat /\ Work' <= Work
         /\ Lineup' + 1 \in Nat /\ Lineup' + 1 <= Lineup + 1 /\ Fresh(Ahead)' \in 0 .. 1
         /\ Suffices(Ahead, Due, Room, Work, Lineup + 1, Fresh(Ahead))
         /\ Enough' <=> Suffices(Ahead', Due', Room', Work', Lineup' + 1, Fresh(Ahead)')
<1>1. /\ Ahead \in Int /\ Ahead % 2 = 0 /\ Due \in Int /\ Due % 2 = 0 /\ Room \in Int
      /\ Work \in Nat /\ Lineup \in Nat /\ Lineup + 1 \in Nat /\ Fresh(Ahead) \in 0 .. 1
  BY Facts DEF IInv
<1>2. /\ Due' = Due /\ Work' <= Work /\ Lineup' <= Lineup
      /\ Room' = Room + 4 * (disturbed' - disturbed)
      /\ disturbed \in Nat /\ disturbed' \in Nat /\ disturbed <= disturbed'
  BY WorkShrinks DEF Unsent, Useful
<1>3. Work' \in Nat /\ Lineup' \in Nat
  BY DEF Work, Projections, Stages, Lineup
<1>4. Room' \in Int
  BY <1>1, <1>2
<1>5. Fresh(Ahead)' \in 0 .. 1
  BY DEF Fresh
<1>6. Suffices(Ahead, Due, Room, Work, Lineup + 1, Fresh(Ahead))
  BY DEF Unsent, Enough
<1>7. Lineup' + 1 \in Nat /\ Lineup' + 1 <= Lineup + 1
  <2>1. \A a, b \in Nat : a <= b => a + 1 \in Nat /\ a + 1 <= b + 1
    OBVIOUS
  <2> QED
    BY <1>1, <1>2, <1>3, <2>1
<1>8. Enough' <=> Suffices(Ahead', Due', Room', Work', Lineup' + 1, Fresh(Ahead)')
  BY DEF Enough, Suffices
<1> QED
  BY <1>1, <1>2, <1>3, <1>4, <1>5, <1>6, <1>7, <1>8

\* A step that leaves the moment ahead as it was.
LEMMA MomentStays ==
  ASSUME IInv, Next, Unsent, UNCHANGED doneAt, Ahead' = Ahead
  PROVE  Enough'
<1>1. Fresh(Ahead)' >= Fresh(Ahead)
  BY Balance, FreshStays DEF Fresh
<1>2. Room' >= Room
  BY Balance
<1>3. Suffices(Ahead, Due, Room', Work', Lineup' + 1, Fresh(Ahead)')
  BY <1>1, <1>2, Balance, NoTickTaken
<1> QED
  BY <1>3, Balance

\* A tick that is lost counts as a disturbance, which is worth two ticks.
LEMMA MomentLost ==
  ASSUME IInv, Next, Unsent, Disturb, Ahead' = Ahead + 2
  PROVE  Enough'
<1>1. Room' = Room + 4
  BY Balance DEF Disturb
<1>2. Suffices(Ahead + 2, Due, Room + 4, Work', Lineup' + 1, Fresh(Ahead)')
  BY Balance, TickLost
<1> QED
  BY <1>1, <1>2, Balance

\* A part of the work is done.
LEMMA PartDone ==
  ASSUME IInv, Next, Unsent, UNCHANGED disturbed, Ahead' = Ahead + 2,
         Work' < Work \/ Lineup' < Lineup
  PROVE  Enough'
<1>1. Room' = Room
  BY Balance
<1>2. Work' + (Lineup' + 1) < Work + (Lineup + 1)
  <2>1. \A a, b, c, d \in Nat : a <= b /\ c + 1 <= d + 1 /\ (a < b \/ c < d)
          => a + (c + 1) < b + (d + 1)
    OBVIOUS
  <2>2. Lineup \in Nat /\ Lineup' \in Nat
    BY DEF Lineup
  <2> QED
    BY <2>1, <2>2, Balance
<1>3. Suffices(Ahead + 2, Due, Room, Work', Lineup' + 1, Fresh(Ahead)')
  BY <1>2, Balance, TickUsed
<1> QED
  BY <1>1, <1>3, Balance

\* A tick without work, before the briefing is due.
LEMMA TickToSpare ==
  ASSUME IInv, Next, Unsent, UNCHANGED disturbed, Ahead' = Ahead + 2, Ahead < Due, Work = 0
  PROVE  Enough'
<1>1. Room' = Room /\ Work' = 0
  BY Balance
<1>2. Suffices(Ahead, Due, Room, 0, Lineup + 1, Fresh(Ahead))
  BY Balance
<1>3. Suffices(Ahead + 2, Due, Room, 0, Lineup' + 1, Fresh(Ahead)')
  BY <1>2, Balance, TickSpared
<1> QED
  BY <1>1, <1>3, Balance

\* The context is refreshed while the briefing is due.
LEMMA ContextFresh ==
  ASSUME IInv, Next, Unsent, UNCHANGED disturbed, Ahead' = Ahead + 2, Ahead >= Due,
         Room - Ahead - 2 >= 4 * (Work + (Lineup + 1)) - 2, Fresh(Ahead)' = 1
  PROVE  Enough'
<1>1. Room' = Room
  BY Balance
<1>2. Suffices(Ahead + 2, Due, Room, Work', Lineup' + 1, 1)
  BY Balance, TickForContext
<1> QED
  BY <1>1, <1>2, Balance

\* Where the moment ahead is while a tick is at work, and after it.
LEMMA WhileAtWork ==
  ASSUME IInv, now % 2 = 0, step \notin {"watchdog", "failed"}
  PROVE  /\ Ahead = now
         /\ step' \in {"watchdog", "failed"} /\ now' = now => Ahead' = Ahead + 2
         /\ now' = now + 1 => Ahead' = Ahead + 2
BY Facts DEF Ahead, IInv

\* The end of a tick, and what falls between the ticks.
LEMMA PassingSteps ==
  ASSUME IInv, Next, Unsent, EvenStep, ~sentToday',
         \/ Watchdog \/ FailedTick \/ NoRun \/ RunSends \/ RunBreaks
         \/ Killed /\ step \in {"watchdog", "failed"}
  PROVE  Enough' /\ Useful'
<1>1. ~RunSends
  BY Moment DEF RunSends, MarkAt, sentToday, Stale, IInv, TypeOK, Tasks
<1>2. UNCHANGED doneAt /\ step' = "waiting" /\ now' = now + 1
  BY <1>1 DEF Watchdog, FailedTick, EndTick, NoRun, RunBreaks, Between, Killed, rows
<1>3. now \in Int
  BY Facts DEF IInv
<1>4. Ahead' = Ahead
  <2>1. CASE now % 2 = 1
    BY <1>2, <1>3, <2>1 DEF Ahead
  <2>2. CASE now % 2 = 0
    <3>1. step \in {"watchdog", "failed"}
      <4>1. now % 2 # 1
        BY <1>3, <2>2
      <4>2. ~NoRun /\ ~RunBreaks
        BY <4>1, Zenon DEF NoRun, RunBreaks, Between
      <4> QED
        BY <1>1, <4>2 DEF Watchdog, FailedTick
    <3> QED
      BY <1>2, <1>3, <2>2, <3>1 DEF Ahead
  <2> QED
    BY <1>3, <2>1, <2>2
<1>5. Useful'
  BY <1>2 DEF Useful
<1> QED
  BY <1>2, <1>4, <1>5, MomentStays

LEMMA LosingSteps ==
  ASSUME IInv, Next, Unsent, EvenStep,
         \/ SelectFails \/ LeavePending \/ RunFails
         \/ Killed /\ step \notin {"watchdog", "failed"}
  PROVE  Enough' /\ Useful'
<1>1. /\ Disturb /\ step \notin {"watchdog", "failed"}
      /\ \/ step' \in {"watchdog", "failed"} /\ now' = now
         \/ step' = "waiting" /\ now' = now + 1
  BY DEF SelectFails, LeavePending, RunFails, Killed, Tasks
<1>2. now % 2 = 0
  BY DEF SelectFails, IsTick, LeavePending, RunFails, Killed, EvenStep, Tasks
<1>3. Useful'
  BY <1>1 DEF Useful
<1> QED
  BY <1>1, <1>2, <1>3, WhileAtWork, MomentLost

\* A task that succeeds, on a day that stays without a briefing.
LEMMA WorkingSteps ==
  ASSUME IInv, Next, Unsent, EvenStep, ~sentToday',
         Succeed \/ BuildSpec \/ ReduceSpec \/ IdleTick
  PROVE  Enough' /\ Useful'
<1>1. /\ step \notin {"watchdog", "failed", "waiting"}
      /\ step' = "watchdog" /\ now' = now /\ UNCHANGED disturbed
  BY DEF Succeed, BuildSpec, ReduceSpec, IdleTick
<1>2. now % 2 = 0
  BY <1>1 DEF EvenStep
<1>3. Useful'
  BY <1>1 DEF Useful
<1>4. Ahead = now /\ Ahead' = Ahead + 2
  BY <1>1, <1>2, WhileAtWork
<1>5. doneAt \in [Tasks \ {"precompute"} -> Stamps] /\ now # None /\ now # Yesterday /\ now \in Int
  BY Moment, Facts DEF IInv, TypeOK
<1>6. Useful
  BY DEF Unsent
<1>7. CASE Succeed
  <2>1. step # "send-briefing" /\ MarkAt(step, now) /\ UNCHANGED prep
    BY <1>5, <1>7 DEF Succeed, MarkAt, sentToday, Stale, Tasks
  <2>2. CASE step = "refresh-projections"
    <3>1. ~Stale("refresh-projections")'
      BY <1>5, <2>1, <2>2 DEF MarkAt, Stale, Tasks
    <3>2. Projections = 1 /\ Projections' = 0
      BY <1>6, <2>2, <3>1 DEF Useful, Projections
    <3>3. Stages' = Stages /\ Stages \in Nat
      BY <2>1 DEF Stages
    <3>4. Work = Projections + Stages /\ Work' = Projections' + Stages'
      BY DEF Work
    <3>5. Work' < Work
      <4>1. \A a \in Nat : 0 + a < 1 + a
        OBVIOUS
      <4> QED
        BY <3>2, <3>3, <3>4, <4>1
    <3> QED
      BY <1>1, <1>3, <1>4, <3>5, PartDone
  <2>3. CASE step = "apply-lineup"
    <3>1. ~Stale("apply-lineup")'
      BY <1>5, <2>1, <2>3 DEF MarkAt, Stale, Tasks
    <3>2. Lineup = 1 /\ Lineup' = 0
      BY <1>6, <2>3, <3>1 DEF Useful, Lineup
    <3>3. Lineup' < Lineup
      BY <3>2
    <3> QED
      BY <1>1, <1>3, <1>4, <3>3, PartDone
  <2>4. CASE step = "refresh-context"
    <3>1. doneAt'["refresh-context"] = now
      BY <1>5, <2>1, <2>4 DEF MarkAt, Tasks
    <3>2. Fresh(Ahead)' = 1
      BY <1>4, <1>5, <3>1 DEF Fresh
    <3>3. CASE now < Due
      <4>1. Work = 0
        BY <1>6, <2>4, <3>3 DEF Useful
      <4> QED
        BY <1>1, <1>3, <1>4, <3>3, <4>1, TickToSpare
    <3>4. CASE ~(now < Due)
      <4>1. Room - now - 2 >= 4 * (Work + (Lineup + 1)) - 2
        BY <1>6, <2>4, <3>4 DEF Useful
      <4>2. Ahead >= Due
        BY <1>4, <3>4, Balance
      <4> QED
        BY <1>1, <1>3, <1>4, <3>2, <4>1, <4>2, ContextFresh
    <3> QED
      BY <3>3, <3>4
  <2> QED
    BY <1>7, <2>1, <2>2, <2>3, <2>4 DEF Succeed
<1>8. CASE BuildSpec \/ ReduceSpec
  <2>1. Stages' = Stages - 1 /\ Stages \in Nat
    BY <1>8 DEF BuildSpec, ReduceSpec, Stages
  <2>2. Projections' = Projections /\ Projections \in Nat
    <3>1. "refresh-projections" \in Tasks /\ runCount \in [Tasks -> Nat]
      BY DEF Tasks, IInv, TypeOK
    <3>2. UNCHANGED doneAt /\ runCount'["refresh-projections"] = runCount["refresh-projections"]
      BY <1>8, <3>1 DEF BuildSpec, ReduceSpec, Count
    <3> QED
      BY <3>2 DEF Projections, Stale, canRun, canRunToday
  <2>3. Work = Projections + Stages /\ Work' = Projections' + Stages'
    BY DEF Work
  <2>4. Work' < Work
    <3>1. \A a, b \in Nat : a + (b - 1) < a + b
      OBVIOUS
    <3> QED
      BY <2>1, <2>2, <2>3, <3>1
  <2> QED
    BY <1>1, <1>3, <1>4, <2>4, PartDone
<1>9. CASE IdleTick
  <2>1. now < Due /\ Work = 0
    BY <1>6, <1>9 DEF IdleTick, Useful
  <2> QED
    BY <1>1, <1>3, <1>4, <2>1, TickToSpare
<1> QED
  BY <1>7, <1>8, <1>9

\* A tick selects what is useful, or has the time to refresh an old context.
LEMMA SelectingStep ==
  ASSUME IInv, Next, Unsent, Select, disturbed' <= Tolerated
  PROVE  Enough' /\ Useful'
<1>1. now % 2 = 0 /\ step = "waiting" /\ UNCHANGED <<now, rows, pregameFrom, runsLeft, alerts>>
  BY DEF Select, IsTick
<1>2. PICK contextOld \in AgeReached("refresh-context", 1, TRUE),
           sendOld \in AgeReached("send-briefing", 2, FALSE) :
        /\ step' = selectDueTask(contextOld, sendOld)
        /\ IF contextOld /\ AgeReached("refresh-context", 1, TRUE) = BOOLEAN
           THEN Disturb ELSE UNCHANGED disturbed
  BY DEF Select
<1>3. /\ contextOld \in BOOLEAN /\ sendOld \in BOOLEAN
  <2>1. /\ AgeReached("refresh-context", 1, TRUE) \subseteq BOOLEAN
        /\ AgeReached("send-briefing", 2, FALSE) \subseteq BOOLEAN
    <3>1. ASSUME NEW task, NEW hours, NEW never \in BOOLEAN
          PROVE  AgeReached(task, hours, never) \subseteq BOOLEAN
      <4>1. CASE doneAt[task] = None
        BY <4>1 DEF AgeReached
      <4>2. CASE doneAt[task] # None /\ now - doneAt[task] = 2 * hours
        BY <4>2 DEF AgeReached
      <4>3. CASE doneAt[task] # None /\ now - doneAt[task] # 2 * hours
        <5>1. AgeReached(task, hours, never) = {now - doneAt[task] > 2 * hours}
          BY <4>3 DEF AgeReached
        <5>2. (now - doneAt[task] > 2 * hours) \in BOOLEAN
          OBVIOUS
        <5> QED
          BY <5>1, <5>2
      <4> QED
        BY <4>1, <4>2, <4>3
    <3> QED
      BY <3>1
  <2> QED
    BY <1>2, <2>1
<1>4. disturbed <= Tolerated
  BY Balance, ParametersAssumption
<1>5. canRun("send-briefing") /\ (prep # "ready" => canRun("precompute")) /\ ~sentToday
  BY <1>4, MayStillRun DEF IInv, Unsent
<1>6. briefingDue <=> now >= Due
  BY <1>1, <1>5, DueThen DEF IInv
<1>7. /\ step' = "refresh-projections" => Projections = 1
      /\ step' = "precompute" => prep # "ready"
      /\ step' = "apply-lineup" => Lineup = 1
      /\ step' = "refresh-context" =>
           /\ contextOld /\ canRun("refresh-context")
           /\ ~briefingDue => Projections = 0 /\ prep = "ready"
      /\ step' = "idle" => ~briefingDue /\ Projections = 0 /\ prep = "ready"
      /\ step' \in Tasks \cup {"idle"}
  BY <1>2, <1>3, <1>5, SelectedTask, SelectedCanRun
<1>8. /\ Projections' = Projections /\ Work' = Work /\ Lineup' = Lineup /\ Due' = Due
      /\ prep' = prep /\ now' = now
  BY <1>1 DEF rows, Projections, Work, Stages, Lineup, Due, Stale, canRun, canRunToday
<1>9. Ahead = now /\ Ahead' = Ahead
  BY <1>1, <1>7, Facts DEF Ahead, IInv, Tasks
<1>10. Enough'
  BY <1>1, <1>9, MomentStays DEF rows
<1>11. now \in Int /\ Due \in Int
  BY Facts DEF IInv
<1>12. Projections = 0 /\ prep = "ready" => Work = 0
  BY DEF Work, Stages
<1>13. step' = "refresh-context" /\ now >= Due =>
         Room' - now - 2 >= 4 * (Work + (Lineup + 1)) - 2
  <2> SUFFICES ASSUME step' = "refresh-context", now >= Due
               PROVE  Room' - now - 2 >= 4 * (Work + (Lineup + 1)) - 2
    OBVIOUS
  <2>1. contextOld /\ canRun("refresh-context")
    BY <1>7
  <2>2. Suffices(now, Due, Room, Work, Lineup + 1, Fresh(now))
    BY <1>9, Balance
  <2>3. Room - now >= 4 * (Work + (Lineup + 1)) - 2 * Fresh(now)
    BY <1>11, <2>2 DEF Suffices
  <2>4. Fresh(now) \in 0 .. 1 /\ Work \in Int /\ Lineup + 1 \in Int /\ Room \in Int
    BY <1>9, Balance
  <2>5. CASE AgeReached("refresh-context", 1, TRUE) = BOOLEAN
    <3>1. Room' = Room + 4
      BY <1>2, <2>1, <2>5, Balance DEF Disturb
    <3> HIDE DEF Room, Work, Lineup, Fresh
    <3> QED
      BY <1>11, <2>3, <2>4, <3>1
  <2>6. CASE AgeReached("refresh-context", 1, TRUE) # BOOLEAN
    <3>1. Room' = Room
      BY <1>2, <2>6, Balance
    <3>2. Fresh(now) = 0
      <4>1. doneAt["refresh-context"] = None \/ doneAt["refresh-context"] \in Int
        BY ParametersAssumption DEF IInv, TypeOK, Stamps, Moments, Yesterday, Tasks, DayEnd
      <4>2. CASE doneAt["refresh-context"] = None
        BY <2>1, <4>2 DEF Fresh
      <4>3. CASE doneAt["refresh-context"] # None /\ doneAt["refresh-context"] \in Int
        <5>1. AgeReached("refresh-context", 1, TRUE) = {now - doneAt["refresh-context"] > 2 * 1}
          BY <2>6, <4>3 DEF AgeReached
        <5>2. now - doneAt["refresh-context"] > 2 * 1
          BY <1>2, <2>1, <5>1, Zenon
        <5> QED
          BY <1>11, <2>1, <4>3, <5>2 DEF Fresh
      <4> QED
        BY <4>1, <4>2, <4>3
    <3> HIDE DEF Room, Work, Lineup, Fresh
    <3> QED
      BY <1>11, <2>3, <2>4, <3>1, <3>2
  <2> QED
    BY <2>5, <2>6
<1>14. Useful'
  <2>1. step' = "refresh-context" =>
          IF now' < Due' THEN Work' = 0
          ELSE Room' - now' - 2 >= 4 * (Work' + (Lineup' + 1)) - 2
    BY <1>6, <1>7, <1>8, <1>11, <1>12, <1>13
  <2>2. step' = "idle" => now' < Due' /\ Work' = 0
    BY <1>6, <1>7, <1>8, <1>11, <1>12
  <2> QED
    BY <1>7, <1>8, <2>1, <2>2 DEF Useful
<1> QED
  BY <1>10, <1>14

LEMMA SentInvariance == Spec => [](IInv /\ SentInv)
<1>1. Init => SentInv
  <2> SUFFICES ASSUME Init PROVE SentInv
    OBVIOUS
  <2>1. TypeOK
    BY InitIInv DEF IInv
  <2>2. EvenStep /\ Useful
    BY DEF Init, EvenStep, Useful
  <2>3. Counts
    BY ParametersAssumption DEF Init, Counts, Tasks
  <2>4. /\ FirstTick \in Int /\ LastTick \in Int /\ Tolerated \in Int
        /\ pregameFrom \in PregameHours /\ DueHour(pregameFrom) \in Int
    BY ParametersAssumption
    DEF Init, DueHour, MorningHour, MorningHourEastern, EasternOffset
  <2>5. Ahead = 2 * FirstTick
    BY <2>4 DEF Init, Ahead
  <2>6. Room = 2 * LastTick + 2 - 4 * Tolerated
    BY <2>4 DEF Init, Room, DayEnd
  <2>7. Work \in 0 .. 3 /\ Lineup \in 0 .. 1 /\ Fresh(Ahead) \in 0 .. 1
    BY DEF Work, Projections, Stages, Lineup, Fresh, Init
  <2>8. Enough
    <3> DEFINE due == DueHour(pregameFrom)
    <3>1. CASE FirstTick < due
      <4>1. LastTick + 1 - due >=
              2 * ((IF due - FirstTick < 3 THEN 3 - (due - FirstTick) ELSE 0) + 2 + Tolerated)
        BY <2>4, <3>1, RoomInTheDay
      <4> HIDE DEF due
      <4> QED
        BY <2>4, <2>5, <2>6, <2>7, <3>1, <4>1 DEF Enough, Suffices, Due, due
    <3>2. CASE ~(FirstTick < due)
      <4>1. LastTick + 1 - FirstTick >= 2 * (5 + Tolerated)
        BY <2>4, <3>2, RoomInTheDay
      <4> HIDE DEF due
      <4> QED
        BY <2>4, <2>5, <2>6, <2>7, <3>2, <4>1 DEF Enough, Suffices, Due, due
    <3> QED
      BY <3>1, <3>2
  <2> QED
    BY <2>2, <2>3, <2>8 DEF SentInv
<1>2. IInv /\ SentInv /\ [Next]_vars => SentInv'
  <2> SUFFICES ASSUME IInv, SentInv, [Next]_vars PROVE SentInv'
    OBVIOUS
  <2>1. CASE UNCHANGED vars \/ DayOver
    <3>1. UNCHANGED vars
      BY <2>1 DEF DayOver
    <3> QED
      BY <3>1 DEF vars, rows, alerts, SentInv, EvenStep, sentToday, Stale, Counts, Enough, Suffices,
         Useful, Ahead, Due, Room, Work, Projections, Stages, Lineup, Fresh, canRun, canRunToday,
         DayEnd
  <2>2. CASE Next /\ ~DayOver
    <3>1. EvenStep'
      BY <2>2 DEF SentInv, EvenStep, Next, Select, SelectFails, Succeed, BuildSpec, ReduceSpec,
         LeavePending, IdleTick, RunFails, Killed, Watchdog, FailedTick, EndTick, NoRun, RunSends,
         RunBreaks, Between, IsTick, Tasks
    <3>2. ASSUME ~sentToday'
          PROVE  Counts' /\ (disturbed' <= Tolerated => Enough' /\ Useful')
      <4>1. ~sentToday /\ EvenStep
        BY <3>2, SentStays DEF SentInv
      <4>2. Counts'
        BY <2>2, <3>2, <4>1, CountsKept DEF SentInv
      <4>3. ASSUME disturbed' <= Tolerated PROVE Enough' /\ Useful'
        <5>1. disturbed <= Tolerated
          BY <2>2, <4>3, StepEffects, ParametersAssumption DEF Disturb, IInv, TypeOK
        <5>2. Unsent
          BY <4>1, <5>1 DEF SentInv, Unsent
        <5>3. CASE Select
          BY <2>2, <4>3, <5>2, <5>3, SelectingStep
        <5>4. CASE SelectFails \/ LeavePending \/ RunFails
          BY <2>2, <4>1, <5>2, <5>4, LosingSteps
        <5>5. CASE Watchdog \/ FailedTick \/ NoRun \/ RunSends \/ RunBreaks
          BY <2>2, <3>2, <4>1, <5>2, <5>5, PassingSteps
        <5>6. CASE Succeed \/ BuildSpec \/ ReduceSpec \/ IdleTick
          BY <2>2, <3>2, <4>1, <5>2, <5>6, WorkingSteps
        <5>7. CASE Killed
          BY <2>2, <3>2, <4>1, <5>2, <5>7, LosingSteps, PassingSteps
        <5> QED
          BY <2>2, <5>3, <5>4, <5>5, <5>6, <5>7 DEF Next
      <4> QED
        BY <4>2, <4>3
    <3> QED
      BY <3>1, <3>2 DEF SentInv
  <2> QED
    BY <2>1, <2>2
<1> QED
  BY <1>1, <1>2, Invariance, PTL DEF Spec

-----------------------------------------------------------------------------
(* The theorems.                                                           *)

\* No task runs more often in a day than its limit, but for the sends of the workflow,
\* although an invocation may be killed between its run and its count.
THEOREM WithinLimits == Spec => []TypeOK
BY Invariance, PTL DEF IInv

\* A day without a briefing is not silent, whatever the ticks do: one that lives to its
\* alerts after 1 pm has tried to post one that day.
THEOREM NeverSilent == Spec => []NoSilentDay
<1>1. IInv => NoSilentDay
  BY DEF IInv, AlertsTried, NoSilentDay
<1> QED
  BY <1>1, Invariance, PTL

\* The daily guarantee, for every day that has room for it: while the lost ticks are no
\* more than Tolerated, the briefing is sent by the end of the day, whatever the tasks'
\* competition for the ticks, the limits of the other tasks and the runs of the workflow.
THEOREM SentInTime == Spec => []SentByDayEnd
<1>1. IInv /\ SentInv => SentByDayEnd
  <2> SUFFICES ASSUME IInv, SentInv, now = DayEnd, disturbed <= Tolerated, ~sentToday PROVE FALSE
    BY DEF SentByDayEnd
  <2>1. Enough
    BY DEF SentInv
  <2>2. /\ now \in Int /\ now % 2 = 0 /\ Due \in Int /\ Work \in Nat /\ Lineup + 1 \in Nat /\ Lineup \in Nat
        /\ DayEnd \in Int
    BY Facts DEF IInv
  <2>3. Ahead = now
    <3>1. step = "waiting"
      BY <2>2 DEF IInv, WithinLimit
    <3> QED
      BY <2>2, <3>1 DEF Ahead
  <2>4. Fresh(Ahead) \in 0 .. 1
    BY DEF Fresh
  <2>5. Room <= now /\ Room \in Int
    BY <2>2, ParametersAssumption DEF Room, IInv, TypeOK
  <2> HIDE DEF Room, Work, Lineup, Fresh, Due
  <2> QED
    BY <2>1, <2>2, <2>3, <2>4, <2>5 DEF Enough, Suffices
<1> QED
  BY <1>1, SentInvariance, PTL
=============================================================================
