----------------------------- MODULE SchedulerDay -----------------------------
(***************************************************************************)
(* One day of the Worker's cron: the hourly "scheduler-tick", each of which *)
(* runs the single task that selectDueTask finds due, and the alerts that  *)
(* stand in for a briefing that is not coming.  Runs of the GitHub Actions *)
(* job fall between the ticks.                                             *)
(*                                                                         *)
(* Time is counted in half hours of UTC: the tick of hour h is at 2h, and  *)
(* what happens between two ticks is at the odd number between them.  How  *)
(* far a tick comes after the hour varies, so an age of exactly the hours  *)
(* it is compared with may count as reached or not.  The season is played  *)
(* in Eastern daylight time.  A tick that overlaps other invocations is    *)
(* the subject of SimPipeline and BriefingDelivery, not of this module.    *)
(***************************************************************************)
EXTENDS Integers, Sequences

CONSTANTS
  DailyLimit,    \* FREE_TIER_MODE.dailyTaskLimits
  FirstTick,     \* hours (UTC) of the first and the last tick of the day
  LastTick,
  PregameHours,  \* first hour at which a pregame briefing may be due
  MaxRuns,       \* bound: runs of the workflow in the day
  MaxDisturbed,  \* bound: ticks lost to failures, pending units or lateness
  Tolerated,     \* as many of them a day absorbs
  None           \* no success on record

Tasks == {"refresh-projections", "refresh-context", "precompute",
          "apply-lineup", "send-briefing"}

ASSUME ParametersAssumption ==
  /\ DailyLimit \in [Tasks -> Nat]
  /\ FirstTick \in Nat /\ LastTick \in Nat /\ FirstTick <= LastTick
  /\ PregameHours \subseteq Nat
  /\ MaxRuns \in Nat /\ MaxDisturbed \in Nat /\ Tolerated \in Nat
  /\ None \notin Int

EasternOffset       == 4
MorningHourEastern  == 10   \* dailyMorningBriefingHourEastern
WatchdogHourEastern == 13
MorningHour         == MorningHourEastern + EasternOffset
Yesterday           == -2   \* a success of the day before: 23:00

\* The hour from which a briefing is due on a day of this pregame hour.
DueHour(pregame) == IF pregame < MorningHour THEN pregame ELSE MorningHour

\* The ticks of the day are enough.  Before the briefing is due, a tick does one of
\* three things (projections, spec, reduction); afterwards each of them, the lineup
\* and the send may have to wait a tick for a fresh context, and so has each tick
\* that was lost.
ASSUME RoomInTheDay ==
  /\ DailyLimit["precompute"] > 0
  /\ DailyLimit["send-briefing"] > Tolerated + MaxRuns
  /\ \A pregame \in PregameHours :
       LET due     == DueHour(pregame)
           early   == IF due > FirstTick THEN due - FirstTick ELSE 0
           undone  == IF early < 3 THEN 3 - early ELSE 0
       IN  LastTick + 1 - (FirstTick + early) >= 2 * (undone + 2 + Tolerated)

DayEnd              == 2 * LastTick + 2
Moments             == 2 * FirstTick .. DayEnd
Stamps              == Moments \cup {Yesterday, None}

VARIABLES
  now,         \* the present moment
  step,        \* where the present tick stands: "waiting" before it, then the
               \* task it runs, "watchdog", or "failed"
  doneAt,      \* taskStateKey(task): its last success
  runCount,    \* taskRunCountKey(task, date)
  prep,        \* rows of the date: "none", "spec", "ready" (the reduced artifact)
  authorized,  \* ManagerWriteStatus is not "unauthorized"
  pregameFrom, \* this day's first hour of a pregame briefing
  runsLeft,    \* runs of the workflow still to come
  markers,     \* scheduler:<kind>-alert:<date>
  \* history: what became of the alerts, and of the ticks
  alerted,     \* the chat received an alert
  muted,       \* the post of an alert failed
  lateTick,    \* a tick after 1 pm Eastern lived to its alerts
  disturbed    \* disturbances so far

rows    == <<doneAt, runCount, prep, authorized>>
alerts  == <<markers, alerted, muted, lateTick>>
vars    == <<now, step, rows, pregameFrom, runsLeft, alerts, disturbed>>

Init ==
  /\ now = 2 * FirstTick
  /\ step = "waiting"
  /\ \E last \in {Yesterday, None} :
       doneAt = [t \in Tasks \ {"precompute"} |-> last]
  /\ runCount = [t \in Tasks |-> 0]
  /\ prep = "none"
  /\ authorized \in BOOLEAN
  /\ pregameFrom \in PregameHours
  /\ runsLeft = MaxRuns
  /\ markers = {}
  /\ alerted = FALSE
  /\ muted = FALSE
  /\ lateTick = FALSE
  /\ disturbed = 0

IsTick(moment) == moment % 2 = 0 /\ moment < DayEnd
hour           == now \div 2
easternHour    == hour - EasternOffset

Disturb ==
  /\ disturbed < MaxDisturbed
  /\ disturbed' = disturbed + 1

Stale(task) == doneAt[task] \in {None, Yesterday}
sentToday   == ~Stale("send-briefing")

\* What comparing the age of a success with a number of hours may say.
AgeReached(task, hours, never) ==
  IF doneAt[task] = None THEN {never}
  ELSE IF now - doneAt[task] = 2 * hours THEN BOOLEAN
  ELSE {now - doneAt[task] > 2 * hours}

-----------------------------------------------------------------------------
(* The choice of the tick's task: dueTask and selectDueTask.               *)

\* Variant the checks must reject: one run more than the limit.
CanRunOnceMore(task) == runCount[task] <= DailyLimit[task]

canRunToday(task) == runCount[task] < DailyLimit[task]

canRun(task) ==
  /\ canRunToday(task)
  /\ task = "apply-lineup" => authorized

isPregameBriefingDue == hour >= pregameFrom
isMorningBriefingDue == easternHour >= MorningHourEastern

\* Evaluated only while send-briefing can run.
refreshBriefingDue == canRun("send-briefing") /\ isPregameBriefingDue
briefingDue ==
  canRun("send-briefing") /\ (isMorningBriefingDue \/ isPregameBriefingDue)

Wish(task, isDue) == [task |-> task, due |-> isDue /\ canRun(task)]

\* Variant the checks must reject: a stale context comes before everything.
ContextFirst(contextOld, sendOld) == <<
  Wish("refresh-projections", Stale("refresh-projections")),
  Wish("refresh-context", contextOld),
  Wish("precompute", prep # "ready" /\ ~sentToday),
  Wish("apply-lineup", Stale("apply-lineup") /\ refreshBriefingDue),
  Wish("send-briefing", ~sentToday /\ prep = "ready" /\ briefingDue) >>

\* What a tick may do, the most urgent first.  contextOld: there is no context,
\* or it is older than an hour; sendOld: 2 h have gone by since the last send.
\* Projections older than 12 h are those of the day before.
Wishes(contextOld, sendOld) == <<
  Wish("refresh-projections", Stale("refresh-projections")),
  Wish("refresh-context", briefingDue /\ contextOld),
  Wish("precompute", prep # "ready" /\ ~sentToday),
  Wish("apply-lineup", Stale("apply-lineup") /\ refreshBriefingDue),
  Wish("send-briefing", ~sentToday /\ prep = "ready" /\ briefingDue),
  Wish("send-briefing", /\ sentToday /\ sendOld /\ refreshBriefingDue
                        /\ ~Stale("refresh-context")
                        /\ doneAt["refresh-context"] > doneAt["send-briefing"]),
  Wish("refresh-context", contextOld) >>

selectDueTask(contextOld, sendOld) ==
  LET wishes == Wishes(contextOld, sendOld)
      due    == {i \in 1 .. Len(wishes) : wishes[i].due}
  IN  IF due = {} THEN "idle"
      ELSE wishes[CHOOSE i \in due : \A j \in due : i <= j].task

\* A tick reads the rows and selects.  A context that the tick of the hour
\* before refreshed and that is too old all the same disturbs the day.
Select ==
  /\ step = "waiting" /\ IsTick(now)
  /\ \E contextOld \in AgeReached("refresh-context", 1, TRUE),
        sendOld \in AgeReached("send-briefing", 2, FALSE) :
       /\ step' = selectDueTask(contextOld, sendOld)
       /\ IF contextOld /\ AgeReached("refresh-context", 1, TRUE) = BOOLEAN
          THEN Disturb ELSE UNCHANGED disturbed
  /\ UNCHANGED <<now, rows, pregameFrom, runsLeft, alerts>>

\* The league snapshot, the weekly context or a row cannot be read.
SelectFails ==
  /\ step = "waiting" /\ IsTick(now)
  /\ step' = "failed"
  /\ Disturb
  /\ UNCHANGED <<now, rows, pregameFrom, runsLeft, alerts>>

-----------------------------------------------------------------------------
(* The run of the selected task: runTask, without force.                   *)

Count(task) == runCount' = [runCount EXCEPT ![task] = @ + 1]
MarkAt(task, moment) == doneAt' = [doneAt EXCEPT ![task] = moment]

\* The task's work is done: counted and marked.  For apply-lineup a rejected
\* write is done as well, and recorded as a lack of authorization.
Succeed ==
  /\ step \in {"refresh-projections", "refresh-context", "apply-lineup", "send-briefing"}
  /\ Count(step)
  /\ MarkAt(step, now)
  /\ authorized' \in IF step = "apply-lineup" THEN BOOLEAN ELSE {authorized}
  /\ step' = "watchdog"
  /\ UNCHANGED <<now, prep, pregameFrom, runsLeft, alerts, disturbed>>

\* precompute: "spec-built" is neither counted nor marked ...
BuildSpec ==
  /\ step = "precompute" /\ prep = "none"
  /\ prep' = "spec"
  /\ step' = "watchdog"
  /\ UNCHANGED <<now, doneAt, runCount, authorized, pregameFrom, runsLeft,
                 alerts, disturbed>>

\* ... "reduced" is counted (selectDueTask does not look at its mark) ...
ReduceSpec ==
  /\ step = "precompute" /\ prep = "spec"
  /\ prep' = "ready"
  /\ Count("precompute")
  /\ step' = "watchdog"
  /\ UNCHANGED <<now, doneAt, authorized, pregameFrom, runsLeft, alerts, disturbed>>

\* ... and "fan-out" leaves a unit pending.
LeavePending ==
  /\ step = "precompute" /\ prep = "spec"
  /\ step' = "watchdog"
  /\ Disturb
  /\ UNCHANGED <<now, rows, pregameFrom, runsLeft, alerts>>

IdleTick ==
  /\ step = "idle"
  /\ step' = "watchdog"
  /\ UNCHANGED <<now, rows, pregameFrom, runsLeft, alerts, disturbed>>

\* How much of the present task an invocation may leave done: any of its rows,
\* down to the count, but not the mark.
PartlyDone ==
  \/ UNCHANGED <<runCount, prep, authorized>>
  \/ /\ step = "precompute"
     /\ prep' = IF prep = "none" THEN "spec" ELSE "ready"
     /\ UNCHANGED runCount \/ (prep' = "ready" /\ Count(step))
     /\ UNCHANGED authorized
  \/ /\ step \in Tasks \ {"precompute"}
     /\ UNCHANGED runCount \/ Count(step)
     /\ authorized' \in IF step = "apply-lineup" THEN BOOLEAN ELSE {authorized}
     /\ UNCHANGED prep

\* The task fails: a fetch, a row, or every channel of a delivery.
RunFails ==
  /\ step \in Tasks
  /\ PartlyDone
  /\ step' = "failed"
  /\ Disturb
  /\ UNCHANGED <<now, doneAt, pregameFrom, runsLeft, alerts>>

\* The Worker's limits end the invocation at any point: no alert, no watchdog.
Killed ==
  /\ step # "waiting"
  /\ PartlyDone
  /\ step' = "waiting"
  /\ now' = now + 1
  /\ Disturb
  /\ UNCHANGED <<doneAt, pregameFrom, runsLeft, alerts>>

-----------------------------------------------------------------------------
(* The end of a tick: the watchdog, or the alert of a failed tick.         *)

EndTick ==
  /\ step' = "waiting"
  /\ now' = now + 1
  /\ lateTick' = (lateTick \/ easternHour >= WatchdogHourEastern)
  /\ UNCHANGED <<rows, pregameFrom, runsLeft, disturbed>>

\* alertOncePerDay: the marker is put whether or not the post went through;
\* a row that cannot be read counts as absent, one that cannot be put is not.
alertOncePerDay(kind) ==
  \/ kind \in markers /\ UNCHANGED <<markers, alerted, muted>>
  \/ /\ \/ alerted' = TRUE /\ UNCHANGED muted
        \/ muted' = TRUE /\ UNCHANGED alerted
     /\ markers' \in {markers, markers \cup {kind}}

\* Variant the checks must reject: a send of any day will do.
WatchdogIfEverSent ==
  /\ step = "watchdog"
  /\ IF easternHour >= WatchdogHourEastern /\ doneAt["send-briefing"] = None
     THEN alertOncePerDay("deadman")
     ELSE UNCHANGED <<markers, alerted, muted>>
  /\ EndTick

\* runDeadmanWatchdog
Watchdog ==
  /\ step = "watchdog"
  /\ IF easternHour >= WatchdogHourEastern /\ ~sentToday
     THEN alertOncePerDay("deadman")
     ELSE UNCHANGED <<markers, alerted, muted>>
  /\ EndTick

\* safeDispatchRoutine
FailedTick ==
  /\ step = "failed"
  /\ alertOncePerDay("tick-error")
  /\ EndTick

-----------------------------------------------------------------------------
(* Between the ticks: a run of the workflow, or none.                      *)

Between == step = "waiting" /\ now % 2 = 1

NoRun ==
  /\ Between
  /\ now' = now + 1
  /\ UNCHANGED <<step, rows, pregameFrom, runsLeft, alerts, disturbed>>

\* The run delivers a briefing of its own (unless one was sent already, and
\* then it changes nothing).
RunSends ==
  /\ Between
  /\ runsLeft > 0 /\ ~sentToday
  /\ runsLeft' = runsLeft - 1
  /\ prep' = "ready"
  /\ Count("send-briefing")
  /\ MarkAt("send-briefing", now)
  /\ now' = now + 1
  /\ UNCHANGED <<step, authorized, pregameFrom, alerts, disturbed>>

\* The run fails at some put or post, and its last step posts an alert; or it
\* is cancelled, and nothing is posted.
RunBreaks ==
  /\ Between
  /\ runsLeft > 0 /\ ~sentToday
  /\ runsLeft' = runsLeft - 1
  /\ prep' \in {prep, "ready"} \cup (IF prep = "none" THEN {"spec"} ELSE {})
  /\ UNCHANGED runCount \/ Count("send-briefing")
  /\ alerted' \in {alerted, TRUE}
  /\ now' = now + 1
  /\ UNCHANGED <<step, doneAt, authorized, pregameFrom, markers, muted, lateTick,
                 disturbed>>

DayOver == now = DayEnd /\ UNCHANGED vars

Next ==
  \/ Select \/ SelectFails
  \/ Succeed \/ BuildSpec \/ ReduceSpec \/ LeavePending \/ IdleTick
  \/ RunFails \/ Killed
  \/ Watchdog \/ FailedTick
  \/ NoRun \/ RunSends \/ RunBreaks
  \/ DayOver

Spec == Init /\ [][Next]_vars

-----------------------------------------------------------------------------
(* Properties                                                              *)

\* Types, with the limits: no task runs more often in a day than its limit,
\* except that runs of the workflow count sends without asking.
TypeOK ==
  /\ now \in Moments
  /\ step \in Tasks \cup {"waiting", "idle", "watchdog", "failed"}
  /\ doneAt \in [Tasks \ {"precompute"} -> Stamps]
  /\ runCount \in [Tasks -> Nat]
  /\ \A t \in Tasks : runCount[t] <= DailyLimit[t] +
       (IF t = "send-briefing" THEN MaxRuns - runsLeft ELSE 0)
  /\ prep \in {"none", "spec", "ready"}
  /\ authorized \in BOOLEAN
  /\ pregameFrom \in PregameHours
  /\ runsLeft \in 0 .. MaxRuns
  /\ markers \subseteq {"tick-error", "deadman"}
  /\ alerted \in BOOLEAN /\ muted \in BOOLEAN /\ lateTick \in BOOLEAN
  /\ disturbed \in 0 .. MaxDisturbed

\* The daily guarantee, in numbers: although the tasks compete for the ticks
\* and a due briefing first wants a fresh context, the briefing is sent by the
\* end of the day (selectDueTask) on every day on which no more than Tolerated
\* ticks are lost to failures, to pending units or to lateness.
SentByDayEnd == now = DayEnd /\ disturbed <= Tolerated => sentToday

\* A day without a briefing is not a silent one: if one tick after 1 pm lives
\* to its alerts and no alert's post fails, the chat hears of it, although the
\* alerts are posted once a day and their marker is put without regard to the
\* post.
NoSilentDay ==
  now = DayEnd /\ lateTick /\ ~muted => sentToday \/ alerted
=============================================================================
