------------------------ MODULE BriefingDeliveryProofs ------------------------
(***************************************************************************)
(* Proofs about BriefingDelivery for every number of ticks, requests,      *)
(* workflow runs, publications and faults, and every daily limit.          *)
(***************************************************************************)
EXTENDS BriefingDelivery, FiniteSetTheorems, TLAPS

(***************************************************************************)
(* The inductive invariant.                                                *)
(***************************************************************************)

Places == {"idle", "canRun", "readPrepared", "putBriefing", "post", "putDelivery",
           "readCount", "putCount", "mark", "recoverBriefing", "recoverDelivery",
           "publish", "done"}

\* The types of what the properties speak of: the counts are left out.
Types ==
  /\ prepared \in OfToday \cup {None}
  /\ lastBriefing \in Briefings \cup {None}
  /\ lastDelivery \in Deliveries \cup {None}
  /\ sentToday \in BOOLEAN
  /\ pc \in [Senders -> Places]
  /\ task \in [Senders -> {"send", "force", "resend"}]
  /\ held \in [Senders -> Briefings \cup {None}]
  /\ answered \in [Senders -> SUBSET Channels]
  /\ seenSent \in [Senders -> BOOLEAN]
  /\ published \in Briefings
  /\ received \subseteq Briefings

\* What a sender knows at each place of its program: a briefing of the day was on
\* record before anyone held it; a send posts one, and goes on to count and mark
\* only after the chat received it.
Knows(p) ==
  /\ held[p] \in OfToday => prepared # None
  /\ seenSent[p] => sentToday
  /\ pc[p] = "putBriefing" => held[p] \in OfToday
  /\ pc[p] \in {"post", "putDelivery"} => held[p] # None
  /\ pc[p] \in {"post", "putDelivery"} /\ task[p] # "resend" => held[p] \in OfToday
  /\ pc[p] = "putDelivery" /\ "telegram" \in answered[p] => held[p] \in received
  /\ \/ pc[p] \in {"readCount", "putCount", "mark"}
     \/ p \in Runs /\ pc[p] = "putBriefing"
     => ReceivedToday

\* What the rows say of the chat.
RowsAgree ==
  /\ lastBriefing \in OfToday => prepared # None
  /\ ReceivedToday => prepared # None
  /\ sentToday => ReceivedToday
  /\ lastDelivery # None /\ deliverySucceeded(lastDelivery.channels) /\ lastDelivery.today
       => lastDelivery.generatedAt \in received

IInv ==
  /\ Types
  /\ \A p \in Senders : Knows(p)
  /\ RowsAgree

-----------------------------------------------------------------------------
(* Who acts.                                                               *)

\* The steps of one sender, by what they do to the world.
Begins(p) ==
  \/ TickSelects(p) \/ TickRefreshes(p) \/ AdminSends(p) \/ Resend(p)
  \/ RecoverReadStatus(p) \/ RunStarts(p) \/ RunAlreadySent(p)
Posts(p) == PostAcknowledged(p) \/ PostFailed(p)
Reports(p) == PutDelivery(p) \/ PutDeliveryAndEnd(p)
Returns(p) ==
  OverLimit(p) \/ NotReady(p) \/ RecoverNone(p) \/ RecoverBlocked(p) \/ Dies(p)
GoesOn(p) ==
  \/ CanRun(p) \/ (p \in Workers /\ ReadPrepared(p)) \/ RecoverReadBriefing(p) \/ RecoverResends(p)
  \/ RecoverForces(p) \/ ReadCount(p) \/ PutCount(p)
Acts(p) ==
  \/ Begins(p) \/ Posts(p) \/ Reports(p) \/ Returns(p) \/ GoesOn(p)
  \/ PutBriefing(p) \/ (p \in Runs /\ RunPutBriefing(p))
  \/ (p \in Runs /\ RunPublishes(p)) \/ Mark(p)

LEMMA NextActs ==
  ASSUME [Next]_vars
  PROVE  UNCHANGED vars \/ Publish \/ \E p \in Senders : Acts(p)
<1>1. CASE Next
  <2> USE DEF Acts, Begins, Posts, Reports, Returns, GoesOn, Senders, Workers
  <2>1. ASSUME NEW p, SenderStep(p) PROVE Acts(p)
    BY <2>1 DEF SenderStep
  <2>2. ASSUME NEW w \in Workers, WorkerStep(w) PROVE Acts(w)
    BY <2>1, <2>2 DEF WorkerStep
  <2>3. ASSUME NEW q \in Requests, RequestStep(q) PROVE Acts(q)
    BY <2>2, <2>3 DEF RequestStep
  <2>4. ASSUME NEW g \in Runs, RunStep(g) PROVE Acts(g)
    BY <2>1, <2>4 DEF RunStep
  <2> QED
    BY <1>1, <2>2, <2>3, <2>4 DEF Next
<1> QED
  BY <1>1

SameMemory(q) ==
  UNCHANGED <<pc[q], task[q], held[q], answered[q], seenSent[q]>>

LEMMA OthersKeepMemory ==
  ASSUME Types, NEW p \in Senders, Acts(p), NEW q \in Senders, q # p
  PROVE  SameMemory(q)
<1> USE DEF Types, SameMemory
<1>1. CASE Begins(p)
  BY <1>1
  DEF Begins, TickSelects, TickRefreshes, AdminSends, Begin, Resend,
      RecoverReadStatus, RunStarts, RunAlreadySent, Goto
<1>2. CASE Posts(p)
  BY <1>2 DEF Posts, PostAcknowledged, PostFailed, Goto
<1>3. CASE Reports(p)
  BY <1>3 DEF Reports, PutDelivery, PutDeliveryAndEnd, Return
<1>4. CASE Returns(p)
  BY <1>4 DEF Returns, OverLimit, NotReady, RecoverNone, RecoverBlocked, Dies, Return
<1>5. CASE GoesOn(p)
  BY <1>5
  DEF GoesOn, CanRun, ReadPrepared, RecoverReadBriefing, RecoverResends,
      RecoverForces, ReadCount, PutCount, Goto
<1>6. CASE PutBriefing(p) \/ RunPutBriefing(p) \/ RunPublishes(p)
  BY <1>6 DEF PutBriefing, RunPutBriefing, RunPublishes, Goto
<1>7. CASE Mark(p)
  BY <1>7 DEF Mark, Return
<1> QED
  BY <1>1, <1>2, <1>3, <1>4, <1>5, <1>6, <1>7 DEF Acts

\* Nothing of the day is taken back.
Onwards ==
  /\ prepared # None => prepared' # None
  /\ sentToday => sentToday'
  /\ received \subseteq received'

LEMMA OthersKnow ==
  ASSUME NEW q, Knows(q), SameMemory(q), Onwards
  PROVE  Knows(q)'
  BY DEF Knows, SameMemory, Onwards, ReceivedToday

-----------------------------------------------------------------------------
(* The types.                                                              *)

LEMMA StepTypes ==
  ASSUME IInv, NEW p \in Senders, Acts(p)
  PROVE  Types'
<1>a. Types /\ Knows(p)
  BY DEF IInv
<1> USE <1>a DEF Types, Places
<1>1. CASE Begins(p)
  BY <1>1
  DEF Begins, TickSelects, TickRefreshes, AdminSends, Begin, Resend,
      RecoverReadStatus, RunStarts, RunAlreadySent, Goto, rows, world
<1>2. CASE Posts(p)
  <2>1. held[p] \in Briefings
    BY <1>2 DEF Posts, PostAcknowledged, PostFailed, Goto, Knows
  <2>2. received' \subseteq Briefings
    BY <1>2, <2>1 DEF Posts, PostAcknowledged, PostFailed
  <2>3. \A channels \in SUBSET {"discord"} : channels \in SUBSET Channels
    BY DEF Channels
  <2>4. answered' \in [Senders -> SUBSET Channels]
    <3>1. CASE PostAcknowledged(p)
      BY <3>1 DEF PostAcknowledged, Channels
    <3>2. CASE PostFailed(p)
      <4>1. PICK channels \in SUBSET {"discord"} :
              answered' = [answered EXCEPT ![p] = channels]
        BY <3>2 DEF PostFailed
      <4>2. channels \in SUBSET Channels
        BY <2>3
      <4> QED
        BY <4>1, <4>2
    <3> QED
      BY <1>2, <3>1, <3>2 DEF Posts
  <2> QED
    BY <1>2, <2>2, <2>4 DEF Posts, PostAcknowledged, PostFailed, Goto, rows
<1>3. CASE Reports(p)
  <2>1. held[p] \in Briefings /\ answered[p] \in SUBSET Channels
    BY <1>3 DEF Reports, PutDelivery, PutDeliveryAndEnd, PutReport, Knows
  <2>2. lastDelivery' \in Deliveries
    <3>1. lastDelivery' = [generatedAt |-> held[p], channels |-> answered[p], today |-> TRUE]
      BY <1>3 DEF Reports, PutDelivery, PutDeliveryAndEnd, PutReport
    <3> QED
      BY <2>1, <3>1 DEF Deliveries
  <2>3. {} \in SUBSET Channels
    OBVIOUS
  <2> QED
    BY <1>3, <2>2, <2>3
    DEF Reports, PutDelivery, PutDeliveryAndEnd, PutReport, Return, End, world
<1>4. CASE Returns(p)
  BY <1>4
  DEF Returns, OverLimit, NotReady, RecoverNone, RecoverBlocked, Dies, Return, End,
      rows, world
<1>5. CASE GoesOn(p)
  BY <1>5
  DEF GoesOn, CanRun, ReadPrepared, RecoverReadBriefing, RecoverResends,
      RecoverForces, ReadCount, PutCount, Goto, rows, world, OfToday
<1>6. CASE PutBriefing(p) \/ RunPutBriefing(p)
  BY <1>6 DEF PutBriefing, RunPutBriefing, Goto, world
<1>7. CASE RunPublishes(p)
  BY <1>7 DEF RunPublishes, Goto, OfToday, Briefings
<1>8. CASE Mark(p)
  BY <1>8 DEF Mark, Return, End, world
<1> QED
  BY <1>1, <1>2, <1>3, <1>4, <1>5, <1>6, <1>7, <1>8 DEF Acts

-----------------------------------------------------------------------------
(* The actor.                                                              *)

LEMMA ActsOnwards ==
  ASSUME IInv, NEW p \in Senders, Acts(p)
  PROVE  Onwards
<1> USE ParametersAssumption DEF Onwards
<1>1. CASE Begins(p) \/ Returns(p) \/ GoesOn(p) \/ PutBriefing(p) \/ RunPutBriefing(p)
  BY <1>1
  DEF Begins, TickSelects, TickRefreshes, AdminSends, Begin, Resend,
      RecoverReadStatus, RunStarts, RunAlreadySent, Returns, OverLimit, NotReady,
      RecoverNone, RecoverBlocked, Dies, GoesOn, CanRun, ReadPrepared,
      RecoverReadBriefing, RecoverResends, RecoverForces, ReadCount, PutCount,
      PutBriefing, RunPutBriefing, rows, world
<1>2. CASE Posts(p) \/ Reports(p)
  BY <1>2
  DEF Posts, PostAcknowledged, PostFailed, Reports, PutDelivery, PutDeliveryAndEnd,
      PutReport, rows, world
<1>3. CASE RunPublishes(p) \/ Mark(p)
  BY <1>3 DEF IInv, Types, RunPublishes, Mark, world, Briefings
<1> QED
  BY <1>1, <1>2, <1>3 DEF Acts

LEMMA ActorKnows ==
  ASSUME IInv, NEW p \in Senders, Acts(p)
  PROVE  Knows(p)'
<1> USE ParametersAssumption DEF Knows
<1>1. Types /\ Knows(p) /\ RowsAgree
  BY DEF IInv
<1> USE <1>1 DEF Types
<1>2. None \notin OfToday
  BY DEF OfToday
<1>3. CASE TickSelects(p) \/ TickRefreshes(p) \/ AdminSends(p)
  BY <1>3 DEF TickSelects, TickRefreshes, AdminSends, Begin, Goto, rows, world
<1>4. CASE Resend(p) \/ RecoverReadStatus(p)
  BY <1>4 DEF Resend, RecoverReadStatus, Goto, rows, world, RowsAgree
<1>5. CASE RunStarts(p) \/ RunAlreadySent(p)
  BY <1>5 DEF RunStarts, RunAlreadySent, Goto, rows, world
<1>6. CASE PostAcknowledged(p)
  BY <1>6 DEF PostAcknowledged, Goto, rows
<1>7. CASE PostFailed(p)
  BY <1>7 DEF PostFailed, Goto, rows
<1>8. CASE PutDelivery(p)
  BY <1>8 DEF PutDelivery, PutReport, world, deliverySucceeded, ReceivedToday
<1>9. ASSUME Return(p), prepared' = prepared, sentToday' = sentToday
      PROVE  Knows(p)'
  BY <1>2, <1>9 DEF Return, End
<1>10. CASE PutDeliveryAndEnd(p)
  BY <1>9, <1>10 DEF PutDeliveryAndEnd, PutReport
<1>11. CASE Returns(p)
  BY <1>9, <1>11
  DEF Returns, OverLimit, NotReady, RecoverNone, RecoverBlocked, Dies, rows
<1>12. CASE CanRun(p) \/ RecoverReadBriefing(p) \/ RecoverResends(p) \/ RecoverForces(p)
  BY <1>2, <1>12
  DEF Undelivered, CanRun, RecoverReadBriefing, RecoverResends, RecoverForces, Goto, rows, world,
      RowsAgree
<1>13. CASE p \in Workers /\ ReadPrepared(p)
  BY <1>13 DEF ReadPrepared, Goto, rows, world
<1>14. CASE ReadCount(p) \/ PutCount(p)
  BY <1>14 DEF ReadCount, PutCount, Goto, rows, world, ReceivedToday
<1>15. CASE PutBriefing(p)
  BY <1>2, <1>15 DEF PutBriefing, Goto, world
<1>16. CASE p \in Runs /\ RunPutBriefing(p)
  BY <1>16 DEF RunPutBriefing, Goto, world, ReceivedToday
<1>17. CASE p \in Runs /\ RunPublishes(p)
  BY <1>17 DEF RunPublishes, Goto, OfToday, Briefings
<1>18. CASE Mark(p)
  BY <1>2, <1>18 DEF Mark, Return, End
<1> QED
  BY <1>3, <1>4, <1>5, <1>6, <1>7, <1>8, <1>10, <1>11, <1>12, <1>13, <1>14, <1>15,
     <1>16, <1>17, <1>18
  DEF Acts, Begins, Posts, Reports, GoesOn

\* Only posts change what the chat received, only reports the delivery report.
LEMMA StepRowsAgree ==
  ASSUME IInv, NEW p \in Senders, Acts(p)
  PROVE  RowsAgree'
<1> USE ParametersAssumption
<1>1. Types /\ Knows(p) /\ RowsAgree
  BY DEF IInv
<1>2. CASE Begins(p) \/ Returns(p) \/ GoesOn(p)
  <2>1. UNCHANGED <<prepared, lastBriefing, lastDelivery, sentToday, received>>
    BY <1>2
    DEF Begins, TickSelects, TickRefreshes, AdminSends, Begin, Resend,
        RecoverReadStatus, RunStarts, RunAlreadySent, Returns, OverLimit, NotReady,
        RecoverNone, RecoverBlocked, Dies, GoesOn, CanRun, ReadPrepared,
        RecoverReadBriefing, RecoverResends, RecoverForces, ReadCount, PutCount,
        rows, world
  <2> QED
    BY <1>1, <2>1 DEF RowsAgree, ReceivedToday
<1>3. CASE Posts(p)
  <2>1. /\ UNCHANGED <<prepared, lastBriefing, lastDelivery, sentToday>>
        /\ received' \in {received, received \cup {held[p]}}
    BY <1>3 DEF Posts, PostAcknowledged, PostFailed, rows
  <2>2. ReceivedToday' => prepared # None
    BY <1>1, <2>1 DEF Knows, RowsAgree, ReceivedToday
  <2> QED
    BY <1>1, <2>1, <2>2 DEF RowsAgree, ReceivedToday
<1>4. CASE Reports(p)
  <2>1. /\ UNCHANGED <<prepared, lastBriefing, sentToday, received>>
        /\ lastDelivery' = [generatedAt |-> held[p], channels |-> answered[p], today |-> TRUE]
        /\ pc[p] = "putDelivery"
    BY <1>4 DEF Reports, PutDelivery, PutDeliveryAndEnd, PutReport, world
  <2> QED
    BY <1>1, <2>1 DEF Knows, RowsAgree, ReceivedToday, deliverySucceeded
<1>5. CASE PutBriefing(p) \/ RunPutBriefing(p)
  BY <1>1, <1>5 DEF PutBriefing, RunPutBriefing, Knows, RowsAgree, ReceivedToday, world
<1>6. CASE RunPublishes(p)
  <2>1. prepared' # None /\ UNCHANGED <<lastBriefing, lastDelivery, sentToday, received>>
    BY <1>1, <1>6 DEF RunPublishes, Types, Briefings
  <2> QED
    BY <1>1, <2>1 DEF RowsAgree, ReceivedToday
<1>7. CASE Mark(p)
  BY <1>1, <1>7 DEF Mark, Knows, RowsAgree, ReceivedToday, world
<1> QED
  BY <1>2, <1>3, <1>4, <1>5, <1>6, <1>7 DEF Acts

LEMMA StepPublish ==
  ASSUME IInv, Publish
  PROVE  IInv'
<1> USE ParametersAssumption
<1>1. Types /\ RowsAgree
  BY DEF IInv
<1>2. prepared' \in OfToday /\ published' \in Briefings
  BY <1>1 DEF Publish, Types, OfToday, Briefings
<1>3. Types'
  BY <1>1, <1>2 DEF Publish, Types, memory
<1>4. Onwards /\ \A q \in Senders : SameMemory(q)
  BY <1>2 DEF Publish, Onwards, SameMemory, memory, OfToday
<1>5. RowsAgree'
  BY <1>1, <1>2 DEF Publish, RowsAgree, ReceivedToday, OfToday
<1> QED
  BY <1>3, <1>4, <1>5, OthersKnow DEF IInv

LEMMA InitIInv == Init => IInv
<1> SUFFICES ASSUME Init PROVE IInv
  OBVIOUS
<1>1. Types
  <2>1. ASSUME lastDelivery \in [generatedAt : {0}, channels : {{}, {"telegram"}}, today : {FALSE}]
        PROVE  lastDelivery \in Deliveries
    <3>1. PICK c \in {{}, {"telegram"}} :
            lastDelivery = [generatedAt |-> 0, channels |-> c, today |-> FALSE]
      BY <2>1
    <3>2. c \in SUBSET Channels /\ 0 \in Briefings /\ FALSE \in BOOLEAN
      BY <3>1 DEF Channels, Briefings
    <3> QED
      BY <3>1, <3>2 DEF Deliveries
  <2>2. lastDelivery \in Deliveries \cup {None}
    BY <2>1 DEF Init
  <2>3. answered \in [Senders -> SUBSET Channels]
    BY DEF Init
  <2>4. pc \in [Senders -> Places] /\ task \in [Senders -> {"send", "force", "resend"}]
    BY DEF Init, Places
  <2>5. held \in [Senders -> Briefings \cup {None}] /\ seenSent \in [Senders -> BOOLEAN]
    BY DEF Init
  <2>6. prepared \in OfToday \cup {None} /\ sentToday \in BOOLEAN /\ received \subseteq Briefings
    BY DEF Init
  <2>7. lastBriefing \in Briefings \cup {None} /\ published \in Briefings
    BY DEF Init, Briefings
  <2> QED
    BY <2>2, <2>3, <2>4, <2>5, <2>6, <2>7 DEF Types
<1>2. None \notin OfToday /\ 0 \notin OfToday
  BY ParametersAssumption DEF OfToday
<1>3. \A p \in Senders : Knows(p)
  BY <1>2 DEF Init, Knows
<1>4. RowsAgree
  BY <1>2 DEF Init, RowsAgree, ReceivedToday
<1> QED
  BY <1>1, <1>3, <1>4 DEF IInv

LEMMA StepIInv ==
  ASSUME IInv, [Next]_vars
  PROVE  IInv'
<1>1. CASE UNCHANGED vars
  BY <1>1
  DEF vars, rows, memory, world, IInv, Types, Knows, RowsAgree, ReceivedToday
<1>2. CASE Publish
  BY <1>2, StepPublish
<1>3. ASSUME NEW p \in Senders, Acts(p) PROVE IInv'
  <2>1. Types' /\ RowsAgree' /\ Knows(p)'
    BY <1>3, StepTypes, StepRowsAgree, ActorKnows
  <2>2. ASSUME NEW q \in Senders, q # p PROVE Knows(q)'
    BY <1>3, <2>2, OthersKeepMemory, OthersKnow, ActsOnwards DEF IInv
  <2> QED
    BY <2>1, <2>2 DEF IInv
<1> QED
  BY <1>1, <1>2, <1>3, NextActs

LEMMA Invariance == Spec => []IInv
<1> QED
  BY InitIInv, StepIInv, PTL DEF Spec

-----------------------------------------------------------------------------
(* The theorems.                                                           *)

\* A recovery that finds all well (worker.ts, POST /admin/run/recover-briefing) is
\* right: the chat received today the briefing it looked at, and the day is marked,
\* although it read three rows at three moments while others wrote them.
THEOREM VerdictIsTrue == Spec => []HealthyVerdictIsTrue
<1>1. IInv => HealthyVerdictIsTrue
  BY DEF IInv, Knows, RowsAgree, HealthyVerdictIsTrue, Healthy, ReportedDelivered,
         Senders, Workers
<1> QED
  BY <1>1, Invariance, PTL

LEMMA StepDay ==
  ASSUME IInv, IInv', [Next]_vars
  PROVE  [Day!Next]_(IF sentToday THEN "recorded"
                     ELSE IF ReceivedToday THEN "received"
                     ELSE IF prepared # None THEN "ready" ELSE "computing")
<1>1. RowsAgree /\ RowsAgree'
  BY DEF IInv
<1> USE DEF Day!Next, Day!Prepare, Day!Receive, Day!Record, ReceivedToday
<1>2. CASE UNCHANGED <<prepared, sentToday, received>>
  BY <1>2
<1>3. CASE UNCHANGED <<sentToday, received>> /\ prepared' # None
  BY <1>3
<1>4. CASE UNCHANGED <<sentToday, prepared>> /\ received \subseteq received'
  BY <1>1, <1>4 DEF RowsAgree
<1>5. CASE UNCHANGED <<prepared, received>> /\ sentToday'
  BY <1>1, <1>5 DEF RowsAgree
<1>6. CASE UNCHANGED vars
  BY <1>2, <1>6 DEF vars, rows, world
<1>7. CASE Publish
  BY <1>3, <1>7, ParametersAssumption DEF Publish, IInv, Types, Briefings
<1>8. ASSUME NEW p \in Senders, Acts(p)
      PROVE  \/ UNCHANGED <<prepared, sentToday, received>>
             \/ UNCHANGED <<sentToday, received>> /\ prepared' # None
             \/ UNCHANGED <<sentToday, prepared>> /\ received \subseteq received'
             \/ UNCHANGED <<prepared, received>> /\ sentToday'
  <2>1. CASE Begins(p) \/ Returns(p) \/ GoesOn(p)
    BY <2>1
    DEF Begins, TickSelects, TickRefreshes, AdminSends, Begin, Resend,
        RecoverReadStatus, RunStarts, RunAlreadySent, Returns, OverLimit, NotReady,
        RecoverNone, RecoverBlocked, Dies, GoesOn, CanRun, ReadPrepared,
        RecoverReadBriefing, RecoverResends, RecoverForces, ReadCount, PutCount,
        rows, world
  <2>2. CASE Posts(p) \/ Reports(p) \/ PutBriefing(p) \/ RunPutBriefing(p)
    BY <2>2
    DEF Posts, PostAcknowledged, PostFailed, Reports, PutDelivery, PutDeliveryAndEnd,
        PutReport, PutBriefing, RunPutBriefing, rows, world
  <2>3. CASE RunPublishes(p) \/ Mark(p)
    BY <2>3, ParametersAssumption
    DEF RunPublishes, Mark, IInv, Types, Briefings, world
  <2> QED
    BY <1>8, <2>1, <2>2, <2>3 DEF Acts
<1> QED
  BY <1>2, <1>3, <1>4, <1>5, <1>6, <1>7, <1>8, NextActs

\* All senders together implement the safety half of DailyDelivery: the day goes from
\* computing to ready to received to recorded, nothing skipped and never back; in
\* particular no sender marks a day that the chat has no briefing of.
THEOREM InOrder == Spec => DeliveredInOrder
<1>1. Init => Day!Init
  BY DEF Init, Day!Init, ReceivedToday
<1>2. IInv /\ IInv' /\ [Next]_vars
        => [Day!Next]_(IF sentToday THEN "recorded"
                       ELSE IF ReceivedToday THEN "received"
                       ELSE IF prepared # None THEN "ready" ELSE "computing")
  BY StepDay
<1> QED
  BY <1>1, <1>2, Invariance, PTL DEF Spec, DeliveredInOrder, Day!Spec

-----------------------------------------------------------------------------
(***************************************************************************)
(* Failures do not use up the day's budget of sends.  The inductive        *)
(* invariant: a count may be lost (two senders read the same one), so that *)
(* the count is no sum of anything; but each sender that is going to count *)
(* has a post behind it that nobody counted yet.                           *)
(***************************************************************************)

\* Those whose post was acknowledged and who have not put their count.
Uncounted ==
  {p \in Senders :
     \/ pc[p] = "putDelivery" /\ deliverySucceeded(answered[p])
     \/ pc[p] = "putBriefing" /\ p \in Runs
     \/ pc[p] \in {"readCount", "putCount"}}

CountTypes ==
  /\ runCount \in Nat
  /\ acknowledged \in Nat
  /\ seenCount \in [Senders -> Nat]

\* Neither the count on record nor one that a sender is about to add to leaves fewer
\* posts than there are senders who will count.
Covers(count) == count + Cardinality(Uncounted) <= acknowledged

Covered ==
  acknowledged < MaxCount =>
    /\ Covers(runCount)
    /\ \A p \in Senders : pc[p] = "putCount" => Covers(seenCount[p])

BInv == CountTypes /\ Covered

-----------------------------------------------------------------------------

LEMMA UncountedFinite ==
  /\ IsFiniteSet(Senders)
  /\ \A S \in SUBSET Senders :
       /\ IsFiniteSet(S) /\ Cardinality(S) \in Nat
       /\ \A T \in SUBSET S : Cardinality(T) <= Cardinality(S)
       /\ \A p \in Senders : Cardinality(S \cup {p}) <= Cardinality(S) + 1
       /\ \A p \in S : Cardinality(S \ {p}) = Cardinality(S) - 1
<1>1. IsFiniteSet(Senders)
  BY ParametersAssumption, FS_Union DEF Senders, Workers
<1>2. ASSUME NEW S \in SUBSET Senders
      PROVE  /\ IsFiniteSet(S) /\ Cardinality(S) \in Nat
             /\ \A T \in SUBSET S : Cardinality(T) <= Cardinality(S)
             /\ \A p \in Senders : Cardinality(S \cup {p}) <= Cardinality(S) + 1
             /\ \A p \in S : Cardinality(S \ {p}) = Cardinality(S) - 1
  <2>1. IsFiniteSet(S) /\ Cardinality(S) \in Nat
    BY <1>1, FS_Subset, FS_CardinalityType
  <2>2. \A T \in SUBSET S : Cardinality(T) <= Cardinality(S)
    BY <2>1, FS_Subset
  <2>3. \A p \in Senders : Cardinality(S \cup {p}) <= Cardinality(S) + 1
    BY <2>1, FS_AddElement
  <2>4. \A p \in S : Cardinality(S \ {p}) = Cardinality(S) - 1
    BY <2>1, FS_RemoveElement
  <2> QED
    BY <2>1, <2>2, <2>3, <2>4
<1> QED
  BY <1>1, <1>2

LEMMA OthersKeepCount ==
  ASSUME Types, CountTypes, NEW p \in Senders, Acts(p), NEW q \in Senders, q # p
  PROVE  SameMemory(q) /\ seenCount'[q] = seenCount[q]
<1> SUFFICES seenCount'[q] = seenCount[q]
  BY OthersKeepMemory
<1> USE DEF CountTypes
<1>1. CASE Begins(p)
  BY <1>1
  DEF Begins, TickSelects, TickRefreshes, AdminSends, Begin, Resend,
      RecoverReadStatus, RunStarts, RunAlreadySent
<1>2. CASE Posts(p)
  BY <1>2 DEF Posts, PostAcknowledged, PostFailed
<1>3. CASE Reports(p)
  BY <1>3 DEF Reports, PutDelivery, PutDeliveryAndEnd, Return
<1>4. CASE Returns(p)
  BY <1>4 DEF Returns, OverLimit, NotReady, RecoverNone, RecoverBlocked, Dies, Return
<1>5. CASE GoesOn(p)
  BY <1>5
  DEF GoesOn, CanRun, ReadPrepared, RecoverReadBriefing, RecoverResends,
      RecoverForces, ReadCount, PutCount
<1>6. CASE PutBriefing(p) \/ RunPutBriefing(p) \/ RunPublishes(p)
  BY <1>6 DEF PutBriefing, RunPutBriefing, RunPublishes
<1>7. CASE Mark(p)
  BY <1>7 DEF Mark, Return
<1> QED
  BY <1>1, <1>2, <1>3, <1>4, <1>5, <1>6, <1>7 DEF Acts

\* Whether another sender is among them does not change.
LEMMA OthersStay ==
  ASSUME Types, NEW p \in Senders, Acts(p)
  PROVE  Uncounted' \subseteq Uncounted \cup {p}
BY OthersKeepMemory DEF Uncounted, SameMemory

-----------------------------------------------------------------------------
(* The steps, by what they do to the counts.                               *)

\* A sender that posts nothing and counts nothing.
LEMMA StepSilent ==
  ASSUME IInv, BInv, NEW p \in Senders, Acts(p),
         UNCHANGED <<runCount, acknowledged>>, CountTypes',
         p \in Uncounted' => p \in Uncounted,
         pc'[p] = "putCount" =>
           \/ pc[p] = "putCount" /\ seenCount'[p] = seenCount[p]
           \/ seenCount'[p] = runCount
  PROVE  Covered'
<1>1. Uncounted' \subseteq Uncounted /\ Uncounted \subseteq Senders
  BY OthersStay DEF IInv, Uncounted
<1>2. /\ Cardinality(Uncounted') <= Cardinality(Uncounted)
      /\ Cardinality(Uncounted) \in Nat /\ Cardinality(Uncounted') \in Nat
  BY <1>1, UncountedFinite
<1> SUFFICES ASSUME acknowledged < MaxCount
             PROVE  /\ Covers(runCount)'
                    /\ \A q \in Senders : pc'[q] = "putCount" => Covers(seenCount[q])'
  BY DEF Covered, MaxCount, Senders, Workers
<1>3. Covers(runCount)'
  BY <1>2 DEF BInv, CountTypes, Covered, Covers
<1>4. ASSUME NEW q \in Senders, pc'[q] = "putCount"
      PROVE  Covers(seenCount[q])'
  <2>1. \/ pc[q] = "putCount" /\ seenCount'[q] = seenCount[q]
        \/ seenCount'[q] = runCount
    BY <1>4, OthersKeepCount DEF IInv, BInv, SameMemory
  <2> QED
    BY <1>2, <1>3, <1>4, <2>1 DEF BInv, CountTypes, Covered, Covers
<1> QED
  BY <1>3, <1>4

LEMMA StepPosts ==
  ASSUME IInv, BInv, NEW p \in Senders, PostAcknowledged(p)
  PROVE  BInv'
<1>1. Acts(p)
  BY DEF Acts, Posts
<1>2. CountTypes'
  BY DEF BInv, CountTypes, PostAcknowledged, rows
<1>3. Uncounted' \subseteq Uncounted \cup {p} /\ Uncounted \subseteq Senders
  BY <1>1, OthersStay DEF IInv, Uncounted
<1>4. /\ Cardinality(Uncounted') <= Cardinality(Uncounted) + 1
      /\ Cardinality(Uncounted) \in Nat /\ Cardinality(Uncounted') \in Nat
  <2> DEFINE S == Uncounted
             T == Uncounted'
             U == Uncounted \cup {p}
  <2>1. S \in SUBSET Senders /\ U \in SUBSET Senders /\ T \in SUBSET U /\ T \in SUBSET Senders
    BY <1>3
  <2> HIDE DEF T
  <2>2. Cardinality(T) <= Cardinality(U) /\ Cardinality(U) <= Cardinality(S) + 1
    BY <2>1, UncountedFinite
  <2>3. Cardinality(S) \in Nat /\ Cardinality(T) \in Nat /\ Cardinality(U) \in Nat
    BY <2>1, UncountedFinite
  <2>4. Cardinality(T) <= Cardinality(S) + 1
    BY <2>2, <2>3
  <2> QED
    BY <2>3, <2>4 DEF T
<1>5. ASSUME acknowledged' < MaxCount
      PROVE  acknowledged < MaxCount /\ acknowledged' = acknowledged + 1
  BY <1>5 DEF BInv, CountTypes, PostAcknowledged
<1>6. ASSUME acknowledged' < MaxCount, NEW q \in Senders, pc'[q] = "putCount"
      PROVE  pc[q] = "putCount" /\ seenCount'[q] = seenCount[q]
  BY <1>6 DEF IInv, Types, PostAcknowledged, Goto
<1>7. runCount' = runCount /\ MaxCount' = MaxCount /\ Senders' = Senders
  BY DEF PostAcknowledged, rows, MaxCount, Senders, Workers
<1> DEFINE c == Cardinality(Uncounted)
           d == Cardinality(Uncounted')
<1> HIDE DEF c, d
<1>8. \A n \in Nat : n + c <= acknowledged /\ acknowledged' = acknowledged + 1 => n + d <= acknowledged'
  BY <1>4 DEF BInv, CountTypes, c, d
<1>9. Covered'
  BY <1>5, <1>6, <1>7, <1>8 DEF BInv, CountTypes, Covered, Covers, c, d
<1> QED
  BY <1>2, <1>9 DEF BInv

LEMMA StepCounts ==
  ASSUME IInv, BInv, NEW p \in Senders, PutCount(p)
  PROVE  BInv'
<1>1. Acts(p)
  BY DEF Acts, GoesOn
<1>2. pc[p] = "putCount" /\ pc'[p] = "mark"
  BY DEF IInv, Types, PutCount, Goto
<1>3. CountTypes' /\ runCount' = seenCount[p] + 1 /\ acknowledged' = acknowledged
  BY DEF BInv, CountTypes, PutCount, world
<1>4. p \in Uncounted /\ Uncounted' \subseteq Uncounted \ {p} /\ Uncounted \subseteq Senders
  BY <1>1, <1>2, OthersStay DEF IInv, Uncounted
<1>5. /\ Cardinality(Uncounted') <= Cardinality(Uncounted) - 1
      /\ Cardinality(Uncounted) \in Nat /\ Cardinality(Uncounted') \in Nat
  BY <1>4, UncountedFinite
<1>6. ASSUME NEW q \in Senders, pc'[q] = "putCount"
      PROVE  pc[q] = "putCount" /\ seenCount'[q] = seenCount[q]
  BY <1>1, <1>2, <1>6, OthersKeepCount DEF IInv, BInv, SameMemory
<1> QED
  BY <1>2, <1>3, <1>5, <1>6
  DEF BInv, CountTypes, Covered, Covers, MaxCount, Senders, Workers

\* Every other step keeps both counts, and brings its sender among those who will count
\* only if it was among them.
LEMMA OtherSteps ==
  ASSUME IInv, BInv, NEW p \in Senders, Acts(p), ~PostAcknowledged(p), ~PutCount(p)
  PROVE  /\ UNCHANGED <<runCount, acknowledged>> /\ CountTypes'
         /\ p \in Uncounted' => p \in Uncounted
         /\ pc'[p] = "putCount" => seenCount'[p] = runCount
<1>1. Types /\ Knows(p) /\ CountTypes
  BY DEF IInv, BInv
<1> USE <1>1, ParametersAssumption
        DEF Types, CountTypes, Uncounted, deliverySucceeded, Senders, Workers
<1>2. CASE Begins(p)
  BY <1>2
  DEF Begins, TickSelects, TickRefreshes, AdminSends, Begin, Resend,
      RecoverReadStatus, RunStarts, RunAlreadySent, Goto, rows, world
<1>3. CASE PostFailed(p)
  BY <1>3 DEF PostFailed, Goto, rows
<1>4. CASE PutDelivery(p)
  BY <1>4 DEF PutDelivery, PutReport, world
<1>5. ASSUME Return(p), UNCHANGED <<runCount, acknowledged>>
      PROVE  /\ CountTypes'
             /\ p \notin Uncounted' /\ pc'[p] # "putCount"
  BY <1>5 DEF Return, End
<1>6. CASE PutDeliveryAndEnd(p) \/ Returns(p) \/ Mark(p)
  BY <1>5, <1>6
  DEF PutDeliveryAndEnd, PutReport, Returns, OverLimit, NotReady, RecoverNone,
      RecoverBlocked, Dies, Mark, rows, world
<1>7. CASE CanRun(p) \/ RecoverReadBriefing(p) \/ RecoverResends(p) \/ RecoverForces(p)
             \/ (p \in Workers /\ ReadPrepared(p))
  BY <1>7
  DEF CanRun, RecoverReadBriefing, RecoverResends, RecoverForces, ReadPrepared,
      Goto, rows, world
<1>8. CASE ReadCount(p)
  BY <1>8 DEF ReadCount, Goto, rows, world
<1>9. CASE PutBriefing(p) \/ (p \in Runs /\ RunPutBriefing(p))
             \/ (p \in Runs /\ RunPublishes(p))
  BY <1>9 DEF PutBriefing, RunPutBriefing, RunPublishes, Goto, world
<1> QED
  BY <1>2, <1>3, <1>4, <1>6, <1>7, <1>8, <1>9 DEF Acts, Posts, Reports, GoesOn

LEMMA StepBInv ==
  ASSUME IInv, BInv, [Next]_vars
  PROVE  BInv'
<1>1. CASE UNCHANGED vars \/ Publish
  <2>1. /\ UNCHANGED <<runCount, acknowledged, seenCount, pc, answered>>
    BY <1>1 DEF vars, rows, memory, world, Publish
  <2> QED
    BY <2>1
    DEF BInv, CountTypes, Covered, Covers, Uncounted, MaxCount, Senders, Workers
<1>2. ASSUME NEW p \in Senders, Acts(p) PROVE BInv'
  <2>1. CASE ~PostAcknowledged(p) /\ ~PutCount(p)
    BY <1>2, <2>1, OtherSteps, StepSilent DEF BInv
  <2> QED
    BY <1>2, <2>1, StepPosts, StepCounts
<1> QED
  BY <1>1, <1>2, NextActs

LEMMA InitBInv == Init => BInv
<1> SUFFICES ASSUME Init PROVE BInv
  OBVIOUS
<1>1. Uncounted = {} /\ \A p \in Senders : pc[p] # "putCount"
  BY DEF Init, Uncounted
<1>2. Cardinality(Uncounted) = 0
  BY <1>1, FS_EmptySet
<1> QED
  BY <1>1, <1>2 DEF Init, BInv, CountTypes, Covered, Covers

LEMMA BudgetInvariance == Spec => []BInv
<1>1. IInv /\ BInv /\ [Next]_vars => BInv'
  BY StepBInv
<1> QED
  BY <1>1, InitBInv, Invariance, PTL DEF Spec

-----------------------------------------------------------------------------

\* Failed, killed and overlapping sends leave the run count at or below the number of
\* posts that Telegram acknowledged, whatever the limit and however many senders.
THEOREM NotBurnt == Spec => []BudgetNotBurnt
<1>1. BInv => BudgetNotBurnt
  <2>1. Uncounted \in SUBSET Senders
    BY DEF Uncounted
  <2>2. Cardinality(Uncounted) \in Nat
    BY <2>1, UncountedFinite
  <2> QED
    BY <2>2 DEF BInv, CountTypes, Covered, Covers, BudgetNotBurnt
<1> QED
  BY <1>1, BudgetInvariance, PTL

-----------------------------------------------------------------------------
(***************************************************************************)
(* The day's limit.  Whoever passed the look at the limit will count; while*)
(* the count is at the limit their number only falls.  A late count that   *)
(* brings the count below the limit lets others begin, but all that was    *)
(* counted before stays below the room there was.                          *)
(***************************************************************************)

\* Those who will read the count and put it back without another look at the limit.
Committed ==
  {p \in Senders :
     \/ p \in Runs /\ pc[p] \notin {"putCount", "mark", "done"}
     \/ pc[p] = "readCount"
     \/ task[p] = "send" /\ pc[p] \in {"readPrepared", "putBriefing", "post", "putDelivery"}}

Room == Limit + reopened * Cardinality(Senders)

\* What is put next stays within the room, and with all who are committed within the
\* room of one more reopening.
LimitInv ==
  /\ reopened \in Nat
  /\ runCount < Limit =>
       \A p \in Senders : pc[p] = "putCount" => seenCount[p] + 1 <= Room
  /\ runCount >= Limit =>
       /\ runCount + Cardinality(Committed) <= Room + Cardinality(Senders)
       /\ \A p \in Senders :
            pc[p] = "putCount" =>
              seenCount[p] + 1 + Cardinality(Committed) <= Room + Cardinality(Senders)

LEMMA RoomIsNatural ==
  ASSUME NEW r \in Nat
  PROVE  /\ Cardinality(Senders) \in Nat
         /\ r * Cardinality(Senders) \in Nat
         /\ (r + 1) * Cardinality(Senders) = r * Cardinality(Senders) + Cardinality(Senders)
<1>1. Cardinality(Senders) \in Nat
  BY UncountedFinite, FS_CardinalityType
<1>2. \A n \in Nat : r * n \in Nat /\ (r + 1) * n = r * n + n
  OBVIOUS
<1> QED
  BY <1>1, <1>2

\* The room is fixed while the day is not reopened, and a reopening adds all the senders.
LEMMA RoomSteps ==
  ASSUME reopened \in Nat
  PROVE  /\ Limit \in Nat /\ Limit' = Limit
         /\ Cardinality(Senders) \in Nat /\ Cardinality(Senders)' = Cardinality(Senders)
         /\ Room \in Nat /\ Room >= Limit
         /\ reopened' = reopened => Room' = Room
         /\ reopened' = reopened + 1 => Room' = Room + Cardinality(Senders)
<1> DEFINE N == Cardinality(Senders)
           M == reopened * N
<1>1. /\ N \in Nat /\ M \in Nat
      /\ (reopened + 1) * N = M + N
  BY RoomIsNatural
<1>2. Limit \in Nat /\ Limit' = Limit
  BY ParametersAssumption
<1>3. Cardinality(Senders)' = N
  BY DEF Senders, Workers
<1>4. Room = Limit + M /\ Room' = Limit + reopened' * N
  BY <1>3 DEF Room
<1>5. reopened' = reopened => Room' = Limit + M
  BY <1>4
<1>6. reopened' = reopened + 1 => Room' = Limit + (M + N)
  BY <1>1, <1>4
<1> HIDE DEF M, N
<1>7. /\ Room \in Nat /\ Room >= Limit
      /\ reopened' = reopened => Room' = Room
      /\ reopened' = reopened + 1 => Room' = Room + N
  BY <1>1, <1>2, <1>4, <1>5, <1>6
<1> QED
  BY <1>1, <1>2, <1>3, <1>7 DEF N

\* Whoever passes the look at the limit finds the count below it; and who is about to
\* put a count was committed until he read it.
LEMMA Commits ==
  ASSUME Types, NEW p \in Senders, Acts(p)
  PROVE  /\ p \in Committed' => p \in Committed \/ runCount < Limit
         /\ pc'[p] = "putCount" => p \in Committed /\ p \notin Committed'
<1> USE ParametersAssumption DEF Types, Committed, Senders, Workers
<1>1. CASE Begins(p)
  BY <1>1
  DEF Begins, TickSelects, TickRefreshes, AdminSends, Begin, Resend,
      RecoverReadStatus, RunStarts, RunAlreadySent, Goto
<1>2. CASE Posts(p)
  BY <1>2 DEF Posts, PostAcknowledged, PostFailed, Goto
<1>3. CASE PutDelivery(p)
  BY <1>3 DEF PutDelivery, PutReport
<1>4. ASSUME Return(p)
      PROVE  p \notin Committed' /\ pc'[p] # "putCount"
  BY <1>4 DEF Return, End
<1>5. CASE PutDeliveryAndEnd(p) \/ Returns(p) \/ Mark(p)
  BY <1>4, <1>5
  DEF PutDeliveryAndEnd, Returns, OverLimit, NotReady, RecoverNone, RecoverBlocked,
      Dies, Mark
<1>6. CASE CanRun(p)
  BY <1>6 DEF CanRun, Goto
<1>7. CASE p \in Workers /\ ReadPrepared(p)
  BY <1>7 DEF ReadPrepared, Goto
<1>8. CASE RecoverReadBriefing(p) \/ RecoverResends(p) \/ RecoverForces(p)
  BY <1>8 DEF RecoverReadBriefing, RecoverResends, RecoverForces, Goto
<1>9. CASE ReadCount(p) \/ PutCount(p)
  BY <1>9 DEF ReadCount, PutCount, Goto
<1>10. CASE PutBriefing(p) \/ (p \in Runs /\ RunPutBriefing(p))
              \/ (p \in Runs /\ RunPublishes(p))
  BY <1>10 DEF PutBriefing, RunPutBriefing, RunPublishes, Goto
<1> QED
  BY <1>1, <1>2, <1>3, <1>5, <1>6, <1>7, <1>8, <1>9, <1>10 DEF Acts, Reports, GoesOn

LEMMA OthersCommit ==
  ASSUME Types, NEW p \in Senders, Acts(p)
  PROVE  Committed' \subseteq Committed \cup {p}
BY OthersKeepMemory DEF Committed, SameMemory

\* No step but the put of a count reopens the day.
LEMMA ReopenedByPut ==
  ASSUME NEW p \in Senders, Acts(p), ~PutCount(p)
  PROVE  reopened' = reopened
BY DEF Acts, Begins, TickSelects, TickRefreshes, AdminSends, Begin, Resend,
       RecoverReadStatus, RunStarts, RunAlreadySent, Returns, OverLimit, NotReady,
       RecoverNone, RecoverBlocked, Dies, GoesOn, CanRun, ReadPrepared,
       RecoverReadBriefing, RecoverResends, RecoverForces, ReadCount,
       PutBriefing, RunPutBriefing, Posts, PostAcknowledged, PostFailed, Reports,
       PutDelivery, PutDeliveryAndEnd, PutReport, RunPublishes, Mark, world

\* A sender that puts no count.
LEMMA StepKeepsCount ==
  ASSUME IInv, BInv, LimitInv, NEW p \in Senders, Acts(p), ~PutCount(p)
  PROVE  LimitInv'
<1>1. /\ UNCHANGED <<runCount, reopened>>
      /\ pc'[p] = "putCount" => seenCount'[p] = runCount
  <2>1. CASE PostAcknowledged(p)
    BY <2>1 DEF PostAcknowledged, rows, world, Goto, IInv, Types
  <2> QED
    BY <2>1, ReopenedByPut, OtherSteps
<1>2. Types /\ runCount \in Nat /\ reopened \in Nat /\ seenCount \in [Senders -> Nat]
  BY DEF IInv, BInv, CountTypes, LimitInv
<1>3. Room' = Room /\ Room \in Nat /\ Limit \in Nat /\ Room >= Limit
      /\ Cardinality(Senders)' = Cardinality(Senders) /\ Cardinality(Senders) \in Nat
  BY <1>1, <1>2, RoomSteps
<1>4. \A q \in Senders : q # p /\ pc'[q] = "putCount" =>
         pc[q] = "putCount" /\ seenCount'[q] = seenCount[q]
  BY <1>2, OthersKeepCount DEF BInv, SameMemory
<1>5. CASE runCount < Limit
  <2>1. \A q \in Senders : pc'[q] = "putCount" => seenCount'[q] + 1 <= Room
    BY <1>1, <1>2, <1>3, <1>4, <1>5 DEF LimitInv
  <2> QED
    BY <1>1, <1>2, <1>3, <1>5, <2>1 DEF LimitInv, Senders, Workers
<1>6. CASE runCount >= Limit
  <2>1. Committed' \subseteq Committed /\ Committed \in SUBSET Senders
    BY <1>2, <1>6, Commits, OthersCommit, ParametersAssumption DEF Committed
  <2>2. /\ Cardinality(Committed') <= Cardinality(Committed)
        /\ Cardinality(Committed) \in Nat /\ Cardinality(Committed') \in Nat
    BY <2>1, UncountedFinite
  <2>3. ASSUME pc'[p] = "putCount"
        PROVE  Cardinality(Committed') + 1 <= Cardinality(Committed)
    <3>1. p \in Committed /\ Committed' \subseteq Committed \ {p}
      BY <1>2, <2>1, <2>3, Commits
    <3>2. Cardinality(Committed') <= Cardinality(Committed \ {p})
      BY <2>1, <3>1, UncountedFinite
    <3> QED
      BY <2>1, <2>2, <3>1, <3>2, UncountedFinite
  <2>4. runCount + Cardinality(Committed') <= Room + Cardinality(Senders)
    BY <1>2, <1>3, <1>6, <2>2 DEF LimitInv
  <2>5. ASSUME NEW q \in Senders, pc'[q] = "putCount"
        PROVE  seenCount'[q] + 1 + Cardinality(Committed') <= Room + Cardinality(Senders)
    <3>1. CASE q = p
      BY <1>1, <1>2, <1>3, <1>6, <2>2, <2>3, <2>5, <3>1 DEF LimitInv
    <3>2. CASE q # p
      BY <1>2, <1>3, <1>4, <1>6, <2>2, <2>5, <3>2 DEF LimitInv
    <3> QED
      BY <3>1, <3>2
  <2> QED
    BY <1>1, <1>2, <1>3, <1>6, <2>4, <2>5, ParametersAssumption DEF LimitInv, Senders, Workers
<1> QED
  BY <1>2, <1>3, <1>5, <1>6

\* A count is put: it was read a while ago.
LEMMA StepPutsCount ==
  ASSUME IInv, BInv, LimitInv, NEW p \in Senders, PutCount(p)
  PROVE  LimitInv'
<1>1. Types /\ runCount \in Nat /\ reopened \in Nat /\ seenCount \in [Senders -> Nat]
  BY DEF IInv, BInv, CountTypes, LimitInv
<1>2. /\ pc[p] = "putCount" /\ pc'[p] = "mark"
      /\ runCount' = seenCount[p] + 1
      /\ reopened' = IF runCount >= Limit /\ runCount' < Limit THEN reopened + 1 ELSE reopened
  BY <1>1 DEF Types, PutCount, Goto
<1> DEFINE N == Cardinality(Senders)
           C == Cardinality(Committed)
           D == Cardinality(Committed')
<1>3. Limit \in Nat /\ N \in Nat /\ Room \in Nat /\ Room >= Limit
  BY <1>1, RoomSteps
<1>4. /\ reopened' = reopened => Room' = Room
      /\ reopened' = reopened + 1 => Room' = Room + N
  BY <1>1, RoomSteps
<1>5. /\ Committed \in SUBSET Senders /\ p \notin Committed
      /\ Committed' \subseteq Committed
  <2>1. Acts(p)
    BY DEF Acts, GoesOn
  <2>2. p \notin Committed
    BY <1>2 DEF Committed
  <2>3. p \notin Committed'
    BY <1>2 DEF Committed
  <2> QED
    BY <1>1, <2>1, <2>2, <2>3, OthersCommit DEF Committed
<1>6. C \in Nat /\ D \in Nat /\ D <= C /\ D <= N
  BY <1>5, UncountedFinite
<1>7. \A q \in Senders : pc'[q] = "putCount" =>
         q # p /\ pc[q] = "putCount" /\ seenCount'[q] = seenCount[q]
  <2>1. Acts(p)
    BY DEF Acts, GoesOn
  <2> QED
    BY <1>1, <1>2, <2>1, OthersKeepCount DEF BInv, SameMemory
<1>8. N' = N /\ Limit' = Limit
  BY DEF Senders, Workers
<1> HIDE DEF N, C, D
\* What the sender put, and what others are about to put, as the invariant bounds them.
<1>9. ASSUME NEW q \in Senders, pc[q] = "putCount"
      PROVE  /\ seenCount[q] \in Nat
             /\ runCount < Limit => seenCount[q] + 1 <= Room
             /\ runCount >= Limit => seenCount[q] + 1 + C <= Room + N
  BY <1>1, <1>9 DEF LimitInv, N, C
<1>10. reopened' \in Nat /\ Room' \in Nat /\ runCount' \in Nat
  BY <1>1, <1>2, <1>3, <1>4, <1>9
<1>11. ASSUME runCount' < Limit, NEW q \in Senders, pc'[q] = "putCount"
       PROVE  seenCount'[q] + 1 <= Room'
  <2>1. pc[q] = "putCount" /\ seenCount'[q] = seenCount[q]
    BY <1>7, <1>11
  <2>2. CASE runCount < Limit
    BY <1>1, <1>2, <1>3, <1>4, <1>9, <2>1, <2>2
  <2>3. CASE runCount >= Limit
    BY <1>1, <1>2, <1>3, <1>4, <1>6, <1>9, <1>11, <2>1, <2>3
  <2> QED
    BY <1>1, <1>3, <2>2, <2>3
<1>12. ASSUME runCount' >= Limit
       PROVE  /\ Room' = Room
              /\ runCount' + D <= Room + N
              /\ \A q \in Senders :
                   pc'[q] = "putCount" => seenCount'[q] + 1 + D <= Room + N
  <2>1. Room' = Room
    BY <1>2, <1>3, <1>4, <1>10, <1>12
  <2>2. ASSUME NEW q \in Senders, pc[q] = "putCount"
        PROVE  seenCount[q] + 1 + D <= Room + N
    BY <1>1, <1>3, <1>6, <1>9, <2>2
  <2> QED
    BY <1>2, <1>7, <2>1, <2>2
<1> QED
  BY <1>8, <1>10, <1>11, <1>12 DEF LimitInv, N, D

LEMMA StepLimitInv ==
  ASSUME IInv, BInv, LimitInv, [Next]_vars
  PROVE  LimitInv'
<1>1. CASE UNCHANGED vars \/ Publish
  <2>1. UNCHANGED <<runCount, seenCount, pc, task, reopened>>
    BY <1>1 DEF vars, rows, memory, world, Publish
  <2> QED
    BY <2>1 DEF LimitInv, Room, Committed, Senders, Workers
<1> QED
  BY <1>1, NextActs, StepKeepsCount, StepPutsCount

LEMMA InitLimitInv == Init => LimitInv
<1> SUFFICES ASSUME Init PROVE LimitInv
  OBVIOUS
<1>1. Committed \in SUBSET Senders /\ \A p \in Senders : pc[p] # "putCount"
  BY DEF Init, Committed
<1>2. Cardinality(Committed) \in Nat /\ Cardinality(Committed) <= Cardinality(Senders)
  BY <1>1, UncountedFinite
<1>3. Cardinality(Senders) \in Nat /\ 0 * Cardinality(Senders) = 0
  BY RoomIsNatural
<1>4. Room = Limit
  BY <1>3, ParametersAssumption DEF Init, Room
<1> QED
  BY <1>1, <1>2, <1>3, <1>4, ParametersAssumption DEF Init, LimitInv

LEMMA LimitInvariance == Spec => []LimitInv
<1>1. IInv /\ BInv /\ LimitInv /\ [Next]_vars => LimitInv'
  BY StepLimitInv
<1> QED
  BY <1>1, InitLimitInv, Invariance, BudgetInvariance, PTL DEF Spec

\* However many ticks, requests and runs send at once, the count stays within the limit
\* and those under way, as many again for each time a late count reopened the day.
THEOREM WithinTheLimit == Spec => []LimitKept
<1>1. BInv /\ LimitInv => LimitKept
  <2> SUFFICES ASSUME BInv, LimitInv PROVE LimitKept
    OBVIOUS
  <2>1. runCount \in Nat /\ reopened \in Nat /\ Limit \in Nat
    BY ParametersAssumption DEF BInv, CountTypes, LimitInv
  <2>2. Committed \in SUBSET Senders
    BY DEF Committed
  <2>3. Cardinality(Committed) \in Nat
    BY <2>2, UncountedFinite
  <2> DEFINE N == Cardinality(Senders)
             M == reopened * N
  <2>4. N \in Nat /\ M \in Nat /\ (reopened + 1) * N = M + N
    BY <2>1, RoomIsNatural
  <2>5. runCount >= Limit => runCount + Cardinality(Committed) <= Limit + M + N
    BY DEF LimitInv, Room
  <2> HIDE DEF N, M
  <2>6. runCount <= Limit + (M + N)
    BY <2>1, <2>3, <2>4, <2>5
  <2> QED
    BY <2>4, <2>6 DEF LimitKept, N
<1> QED
  BY <1>1, BudgetInvariance, LimitInvariance, PTL

-----------------------------------------------------------------------------

\* The bounds of the model: a post is counted up to MaxCount, a fault up to MaxFaults.
Bounded == faults \in 0 .. MaxFaults /\ acknowledged \in 0 .. MaxCount

LEMMA InitBounded == Init => Bounded
BY ParametersAssumption, UncountedFinite, FS_CardinalityType DEF Init, Bounded, MaxCount

LEMMA StepBounded == Bounded /\ [Next]_vars => Bounded'
<1> SUFFICES ASSUME Bounded, [Next]_vars PROVE Bounded'
  OBVIOUS
<1>1. MaxFaults \in Nat /\ MaxCount \in Nat
  BY ParametersAssumption, UncountedFinite, FS_CardinalityType DEF MaxCount
<1>2. CASE UNCHANGED vars \/ Publish
  BY <1>2 DEF Bounded, Publish, vars, world, MaxCount, Senders, Workers
<1>3. ASSUME NEW p \in Senders, Acts(p) PROVE Bounded'
  <2>1. faults' \in {faults, faults + 1} /\ (faults' # faults => faults < MaxFaults)
    BY <1>3
    DEF Acts, Begins, TickSelects, TickRefreshes, AdminSends, Begin, Resend,
        RecoverReadStatus, RunStarts, RunAlreadySent, Returns, OverLimit, NotReady,
        RecoverNone, RecoverBlocked, Dies, GoesOn, CanRun, ReadPrepared,
        RecoverReadBriefing, RecoverResends, RecoverForces, ReadCount, PutCount,
        PutBriefing, RunPutBriefing, Posts, PostAcknowledged, PostFailed, Reports,
        PutDelivery, PutDeliveryAndEnd, PutReport, RunPublishes, Mark, Fault, world
  <2>2. acknowledged' = acknowledged
        \/ (acknowledged < MaxCount /\ acknowledged' = acknowledged + 1)
    BY <1>3
    DEF Acts, Begins, TickSelects, TickRefreshes, AdminSends, Begin, Resend,
        RecoverReadStatus, RunStarts, RunAlreadySent, Returns, OverLimit, NotReady,
        RecoverNone, RecoverBlocked, Dies, GoesOn, CanRun, ReadPrepared,
        RecoverReadBriefing, RecoverResends, RecoverForces, ReadCount, PutCount,
        PutBriefing, RunPutBriefing, Posts, PostAcknowledged, PostFailed, Reports,
        PutDelivery, PutDeliveryAndEnd, PutReport, RunPublishes, Mark, world
  <2>3. MaxCount' = MaxCount
    BY DEF MaxCount, Senders, Workers
  <2> HIDE DEF MaxCount
  <2> QED
    BY <1>1, <2>1, <2>2, <2>3 DEF Bounded
<1> QED
  BY <1>2, <1>3, NextActs

\* Rows and memories have their types for any number of senders, publications and
\* faults: what is posted, reported or held is a briefing, and counts are numbers,
\* also where senders overwrite each other's.
THEOREM TypeCorrect == Spec => []TypeOK
<1>1. IInv /\ BInv /\ LimitInv /\ Bounded => TypeOK
  BY DEF IInv, Types, Places, BInv, CountTypes, LimitInv, Bounded, TypeOK
<1>2. Spec => []Bounded
  BY InitBounded, StepBounded, PTL DEF Spec
<1> QED
  BY <1>1, <1>2, Invariance, BudgetInvariance, LimitInvariance, PTL
=============================================================================
