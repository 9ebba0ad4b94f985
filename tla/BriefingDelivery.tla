--------------------------- MODULE BriefingDelivery ---------------------------
(***************************************************************************)
(* How a prepared briefing reaches the chat, and how the day learns that   *)
(* it did.  Scheduler ticks (runTask("send-briefing")), admin requests     *)
(* (the same task, forced or not; resend-briefing; recover-briefing and    *)
(* /admin/decision, which evaluate the manager's health first) and runs of *)
(* the GitHub Actions job all post to Telegram and write the same rows of  *)
(* D1, each get, put and post a step of its own.  Telegram's answer may be *)
(* lost after the message arrived (postWithTimeout), and an invocation may *)
(* die between any two steps.                                              *)
(*                                                                         *)
(* The model covers one Eastern date.  How briefings are computed is       *)
(* SimPipeline's matter: here a briefing is its generatedAt, a number.     *)
(***************************************************************************)
EXTENDS Integers, FiniteSets

CONSTANTS
  Ticks,         \* slots for invocations of the cron's scheduler tick
  Requests,      \* slots for admin requests
  Runs,          \* runs of the daily-briefing workflow, each starting once
  MaxPublished,  \* bound: briefings the precompute task publishes in the day
  MaxFaults,     \* bound: invocations killed, writes or posts failed
  Limit,         \* dailyTaskLimits of send-briefing (12 in the code)
  None           \* an absent row

Workers == Ticks \cup Requests
Senders == Workers \cup Runs

\* generatedAt of a briefing: 0 is the last briefing of an earlier day, then
\* the briefings of the day in the order they were published.
Briefings   == Nat
OfToday     == Briefings \ {0}

\* A ManagerDeliveryReport: its briefing, the channels whose post was
\* acknowledged, and whether it was made today.
Channels   == {"telegram", "discord"}
Deliveries == [generatedAt : Briefings, channels : SUBSET Channels, today : BOOLEAN]

\* Variant the checks must reject: any channel will do.
DeliveredOnAnyChannel(channels) == channels # {}

deliverySucceeded(channels) == "telegram" \in channels

\* Bound: posts are counted up to this number.
MaxCount == Limit + Cardinality(Senders)

ASSUME ParametersAssumption ==
  /\ MaxPublished \in Nat /\ MaxFaults \in Nat /\ Limit \in Nat
  /\ IsFiniteSet(Ticks) /\ IsFiniteSet(Requests) /\ IsFiniteSet(Runs)
  /\ Ticks \cap Requests = {} /\ Workers \cap Runs = {}
  /\ None \notin Briefings \cup Deliveries

VARIABLES
  \* rows of apiCache
  prepared,      \* simReducedKey(date)
  lastBriefing,  \* LAST_MANAGER_BRIEFING_CACHE_KEY
  lastDelivery,  \* LAST_MANAGER_DELIVERY_CACHE_KEY
  sentToday,     \* taskStateKey("send-briefing") has a completedAt of the date
  runCount,      \* taskRunCountKey("send-briefing", date)
  \* memory of the invocations
  pc,            \* where each invocation stands
  task,          \* what a Worker invocation runs: "send" (also a run of the
                 \* workflow), "force" (a request, or a recovery) or "resend"
  held,          \* the briefing it holds
  answered,      \* the channels that acknowledged its post
  seenCount,     \* the run count it read
  seenSent,      \* the send state a recovery read
  \* the environment, and history
  published,     \* the newest briefing of the day
  received,      \* the briefings the chat has received today, each the whole of it
  faults,        \* faults so far
  acknowledged,  \* posts Telegram acknowledged today, counted up to MaxCount
  reopened       \* how often a late count brought the run count back below Limit

rows   == <<prepared, lastBriefing, lastDelivery, sentToday, runCount>>
memory == <<pc, task, held, answered, seenCount, seenSent>>
world  == <<published, received, faults, acknowledged, reopened>>
vars   == <<rows, memory, world>>

Goto(p, from, to) ==
  /\ pc[p] = from
  /\ pc' = [pc EXCEPT ![p] = to]

\* Where an invocation ends: a Worker's slot is free again, a run is over.
End(p) == IF p \in Runs THEN "done" ELSE "idle"

\* An invocation ends with this step: it keeps no memory.
Return(p) ==
  /\ pc' = [pc EXCEPT ![p] = End(p)]
  /\ task' = [task EXCEPT ![p] = "send"]
  /\ held' = [held EXCEPT ![p] = None]
  /\ answered' = [answered EXCEPT ![p] = {}]
  /\ seenCount' = [seenCount EXCEPT ![p] = 0]
  /\ seenSent' = [seenSent EXCEPT ![p] = FALSE]

Init ==
  /\ prepared = None
  /\ lastBriefing \in {None, 0}
  /\ lastDelivery \in {None} \cup
       [generatedAt : {0}, channels : {{}, {"telegram"}}, today : {FALSE}]
  /\ sentToday = FALSE
  /\ runCount = 0
  /\ pc = [p \in Senders |-> "idle"]
  /\ task = [p \in Senders |-> "send"]
  /\ held = [p \in Senders |-> None]
  /\ answered = [p \in Senders |-> {}]
  /\ seenCount = [p \in Senders |-> 0]
  /\ seenSent = [p \in Senders |-> FALSE]
  /\ published = 0
  /\ received = {}
  /\ faults = 0
  /\ acknowledged = 0
  /\ reopened = 0

-----------------------------------------------------------------------------
(* The precompute task publishes a briefing, at first or as a replacement. *)

Publish ==
  /\ published < MaxPublished
  /\ published' = published + 1
  /\ prepared' = published + 1
  /\ UNCHANGED <<lastBriefing, lastDelivery, sentToday, runCount, memory,
                 received, faults, acknowledged, reopened>>

-----------------------------------------------------------------------------
(* A Worker's send: runTask("send-briefing"), deliverPreparedBriefing.     *)

Begin(w, what) ==
  /\ Goto(w, "idle", "canRun")
  /\ task' = [task EXCEPT ![w] = what]
  /\ UNCHANGED <<rows, held, answered, seenCount, seenSent, world>>

\* The first send of the day.  dueTask reads the rows one after the other; the
\* send state is the row that matters, and it only ever becomes true.
TickSelects(t) ==
  /\ ~sentToday
  /\ prepared # None
  /\ runCount < Limit
  /\ Begin(t, "send")

\* A later send: the context was refreshed since, and 2 h have gone by.
TickRefreshes(t) ==
  /\ sentToday
  /\ runCount < Limit
  /\ Begin(t, "send")

\* POST /admin/run/task/send-briefing, with or without force=1.
AdminSends(q) == \E what \in {"send", "force"} : Begin(q, what)

\* Variants the checks must reject: no limit; a limit one too low.
CanRunAnyway(w) ==
  /\ Goto(w, "canRun", "readPrepared")
  /\ UNCHANGED <<rows, task, held, answered, seenCount, seenSent, world>>

CanRunOneShort(w) ==
  \/ /\ Goto(w, "canRun", "readPrepared")
     /\ task[w] # "send" \/ runCount + 1 < Limit
     /\ UNCHANGED <<rows, task, held, answered, seenCount, seenSent, world>>
  \/ /\ pc[w] = "canRun"
     /\ task[w] = "send" /\ runCount + 1 >= Limit
     /\ Return(w)
     /\ UNCHANGED <<rows, world>>

CanRun(w) ==
  /\ Goto(w, "canRun", "readPrepared")
  /\ task[w] # "send" \/ runCount < Limit
  /\ UNCHANGED <<rows, task, held, answered, seenCount, seenSent, world>>

\* canRunToday is false: the task did not run.
OverLimit(w) ==
  /\ pc[w] = "canRun"
  /\ task[w] = "send" /\ runCount >= Limit
  /\ Return(w)
  /\ UNCHANGED <<rows, world>>

\* Variant the checks must reject: the attempt is counted.
ReadPreparedAndCount(w) ==
  /\ Goto(w, "readPrepared", "putBriefing")
  /\ prepared # None
  /\ held' = [held EXCEPT ![w] = prepared]
  /\ runCount' = IF runCount < MaxCount THEN runCount + 1 ELSE runCount
  /\ UNCHANGED <<prepared, lastBriefing, lastDelivery, sentToday, task,
                 answered, seenCount, seenSent, world>>

\* Variant the checks must reject: what was read is not looked at.
ReadPreparedAnyway(w) ==
  /\ Goto(w, "readPrepared", "putBriefing")
  /\ held' = [held EXCEPT ![w] = prepared]
  /\ UNCHANGED <<rows, task, answered, seenCount, seenSent, world>>

ReadPrepared(w) ==
  /\ Goto(w, "readPrepared", "putBriefing")
  /\ prepared # None
  /\ held' = [held EXCEPT ![w] = prepared]
  /\ UNCHANGED <<rows, task, answered, seenCount, seenSent, world>>

\* "not-ready": nothing is delivered, a later tick retries.
NotReady(w) ==
  /\ pc[w] = "readPrepared"
  /\ prepared = None
  /\ Return(w)
  /\ UNCHANGED <<rows, world>>

PutBriefing(w) ==
  /\ Goto(w, "putBriefing", "post")
  /\ lastBriefing' = held[w]
  /\ UNCHANGED <<prepared, lastDelivery, sentToday, runCount, task, held,
                 answered, seenCount, seenSent, world>>

-----------------------------------------------------------------------------
(* Posting, by any sender: deliverManagerBriefing.                         *)

Fault ==
  /\ faults < MaxFaults
  /\ faults' = faults + 1

\* Telegram acknowledged every part.  Discord's answer, which is posted to next,
\* no one looks at then.
PostAcknowledged(p) ==
  /\ Goto(p, "post", "putDelivery")
  /\ answered' = [answered EXCEPT ![p] = {"telegram"}]
  /\ received' = received \cup {held[p]}
  /\ acknowledged' = IF acknowledged < MaxCount THEN acknowledged + 1
                                                ELSE acknowledged
  /\ UNCHANGED <<rows, task, held, seenCount, seenSent, published, faults, reopened>>

\* Telegram refused, or did not acknowledge within 20 s: what it was sent may
\* have arrived all the same; Discord may have acknowledged.
PostFailed(p) ==
  /\ Fault
  /\ Goto(p, "post", "putDelivery")
  /\ \E channels \in SUBSET {"discord"} :
       answered' = [answered EXCEPT ![p] = channels]
  /\ received' \in {received, received \cup {held[p]}}
  /\ UNCHANGED <<rows, task, held, seenCount, seenSent, published, acknowledged,
                 reopened>>

PutReport(p) ==
  /\ pc[p] = "putDelivery"
  /\ lastDelivery' = [generatedAt |-> held[p], channels |-> answered[p],
                      today |-> TRUE]
  /\ UNCHANGED <<prepared, lastBriefing, sentToday, runCount, world>>

\* A send that Telegram acknowledged goes on to be counted (unless forced) and
\* marked; the job copies its briefing first.
PutDelivery(p) ==
  /\ task[p] # "resend" /\ deliverySucceeded(answered[p])
  /\ PutReport(p)
  /\ pc' = [pc EXCEPT ![p] = IF p \in Runs THEN "putBriefing"
                             ELSE IF task[p] = "send" THEN "readCount" ELSE "mark"]
  /\ answered' = [answered EXCEPT ![p] = {}]
  /\ UNCHANGED <<task, held, seenCount, seenSent>>

\* A resend ends here, and so does a send that Telegram did not acknowledge:
\* "no-channel", the task fails.
PutDeliveryAndEnd(p) ==
  /\ task[p] = "resend" \/ ~deliverySucceeded(answered[p])
  /\ PutReport(p)
  /\ Return(p)

-----------------------------------------------------------------------------
(* Counting and marking: incrementRunCount and markComplete, or the job's  *)
(* recordSchedulerTaskSuccess.                                             *)

ReadCount(p) ==
  /\ Goto(p, "readCount", "putCount")
  /\ seenCount' = [seenCount EXCEPT ![p] = runCount]
  /\ UNCHANGED <<rows, task, held, answered, seenSent, world>>

PutCount(p) ==
  /\ Goto(p, "putCount", "mark")
  /\ runCount' = seenCount[p] + 1
  /\ reopened' = IF runCount >= Limit /\ seenCount[p] + 1 < Limit THEN reopened + 1
                                                                  ELSE reopened
  /\ seenCount' = [seenCount EXCEPT ![p] = 0]
  /\ UNCHANGED <<prepared, lastBriefing, lastDelivery, sentToday, task, held,
                 answered, seenSent, published, received, faults, acknowledged>>

Mark(p) ==
  /\ pc[p] = "mark"
  /\ sentToday' = TRUE
  /\ Return(p)
  /\ UNCHANGED <<prepared, lastBriefing, lastDelivery, runCount, world>>

-----------------------------------------------------------------------------
(* Admin requests that deliver what is cached.                             *)

\* POST /admin/run/resend-briefing (404 when nothing is cached).
Resend(q) ==
  /\ Goto(q, "idle", "post")
  /\ lastBriefing # None
  /\ task' = [task EXCEPT ![q] = "resend"]
  /\ held' = [held EXCEPT ![q] = lastBriefing]
  /\ UNCHANGED <<rows, answered, seenCount, seenSent, world>>

\* POST /admin/run/recover-briefing and the recovery of POST /admin/decision
\* read the scheduler's status, the briefing and the delivery report in turn.
RecoverReadStatus(q) ==
  /\ Goto(q, "idle", "recoverBriefing")
  /\ seenSent' = [seenSent EXCEPT ![q] = sentToday]
  /\ UNCHANGED <<rows, task, held, answered, seenCount, world>>

RecoverReadBriefing(q) ==
  /\ Goto(q, "recoverBriefing", "recoverDelivery")
  /\ held' = [held EXCEPT ![q] = lastBriefing]
  /\ UNCHANGED <<rows, task, answered, seenCount, seenSent, world>>

\* Variant the checks must reject: a report on any briefing will do.
ReportedOnAny(briefing, delivery) ==
  delivery # None /\ deliverySucceeded(delivery.channels)

\* The last report says that Telegram acknowledged this very briefing.
ReportedDelivered(briefing, delivery) ==
  /\ delivery # None
  /\ delivery.generatedAt = briefing
  /\ deliverySucceeded(delivery.channels)

\* evaluateManagerHealth with requireSentToday, requireDelivery and
\* requireDeliveredToday; fresh: the briefing is at most 180 min old.
Healthy(sent, briefing, delivery, fresh) ==
  /\ briefing # None /\ fresh
  /\ sent
  /\ ReportedDelivered(briefing, delivery) /\ delivery.today

\* canResendCached
Undelivered(briefing, delivery) ==
  briefing # None /\ ~ReportedDelivered(briefing, delivery)

\* Whether a briefing is at most 180 min old is known of old ones only.
Freshness(briefing) == IF briefing \in OfToday THEN BOOLEAN ELSE {FALSE}

Unhealthy(q) ==
  \E fresh \in Freshness(held[q]) :
    ~Healthy(seenSent[q], held[q], lastDelivery, fresh)

\* action "none"
RecoverNone(q) ==
  /\ pc[q] = "recoverDelivery"
  /\ \E fresh \in Freshness(held[q]) :
       Healthy(seenSent[q], held[q], lastDelivery, fresh)
  /\ Return(q)
  /\ UNCHANGED <<rows, world>>

\* action "resend"
RecoverResends(q) ==
  /\ Goto(q, "recoverDelivery", "post")
  /\ Unhealthy(q)
  /\ Undelivered(held[q], lastDelivery)
  /\ task' = [task EXCEPT ![q] = "resend"]
  /\ seenSent' = [seenSent EXCEPT ![q] = FALSE]
  /\ UNCHANGED <<rows, held, answered, seenCount, world>>

\* action "force-send-briefing", which forceRegenerate asks for
RecoverForces(q) ==
  /\ Goto(q, "recoverDelivery", "canRun")
  /\ Unhealthy(q)
  /\ ~Undelivered(held[q], lastDelivery)
  /\ task' = [task EXCEPT ![q] = "force"]
  /\ seenSent' = [seenSent EXCEPT ![q] = FALSE]
  /\ UNCHANGED <<rows, held, answered, seenCount, world>>

\* action "blocked", without forceRegenerate
RecoverBlocked(q) ==
  /\ pc[q] = "recoverDelivery"
  /\ Unhealthy(q)
  /\ ~Undelivered(held[q], lastDelivery)
  /\ Return(q)
  /\ UNCHANGED <<rows, world>>

-----------------------------------------------------------------------------
(* The Actions job: runDailyBriefing.                                      *)

\* The guard: not sent today, as far as the scheduler knows.  "concurrency:
\* briefing" keeps two runs from overlapping.
RunStarts(g) ==
  /\ \A h \in Runs : pc[h] \in {"idle", "done"}
  /\ ~sentToday
  /\ Goto(g, "idle", "publish")
  /\ UNCHANGED <<rows, task, held, answered, seenCount, seenSent, world>>

\* status "already-sent"
RunAlreadySent(g) ==
  /\ \A h \in Runs : pc[h] \in {"idle", "done"}
  /\ sentToday
  /\ Goto(g, "idle", "done")
  /\ UNCHANGED <<rows, task, held, answered, seenCount, seenSent, world>>

\* It computes a briefing of its own, in memory and in the row.
RunPublishes(g) ==
  /\ Goto(g, "publish", "post")
  /\ published' = published + 1
  /\ prepared' = published + 1
  /\ held' = [held EXCEPT ![g] = published + 1]
  /\ UNCHANGED <<lastBriefing, lastDelivery, sentToday, runCount, task,
                 answered, seenCount, seenSent, received, faults, acknowledged,
                 reopened>>

RunPutBriefing(g) ==
  /\ Goto(g, "putBriefing", "readCount")
  /\ lastBriefing' = held[g]
  /\ UNCHANGED <<prepared, lastDelivery, sentToday, runCount, task, held,
                 answered, seenCount, seenSent, world>>

-----------------------------------------------------------------------------

\* An invocation is killed, or one of its reads or writes fails; the runner is
\* cancelled at its 15 minute limit.
Dies(p) ==
  /\ Fault
  /\ pc[p] \notin {"idle", "done"}
  /\ Return(p)
  /\ UNCHANGED <<rows, published, received, acknowledged, reopened>>

SenderStep(p) ==
  \/ PostAcknowledged(p)
  \/ PutDelivery(p)
  \/ PutDeliveryAndEnd(p)
  \/ ReadCount(p)
  \/ PutCount(p)
  \/ Mark(p)

WorkerStep(w) ==
  \/ CanRun(w)
  \/ OverLimit(w)
  \/ ReadPrepared(w)
  \/ NotReady(w)
  \/ PutBriefing(w)
  \/ SenderStep(w)

RequestStep(q) ==
  \/ RecoverReadBriefing(q)
  \/ RecoverNone(q)
  \/ RecoverResends(q)
  \/ RecoverForces(q)
  \/ RecoverBlocked(q)
  \/ WorkerStep(q)

RunStep(g) ==
  \/ RunPublishes(g)
  \/ RunPutBriefing(g)
  \/ SenderStep(g)

Next ==
  \/ Publish
  \/ \E t \in Ticks : TickSelects(t) \/ TickRefreshes(t) \/ WorkerStep(t)
  \/ \E q \in Requests : \/ AdminSends(q)
                         \/ Resend(q)
                         \/ RecoverReadStatus(q)
                         \/ RequestStep(q)
  \/ \E g \in Runs : RunStarts(g) \/ RunAlreadySent(g) \/ RunStep(g)
  \/ \E p \in Senders : PostFailed(p) \/ Dies(p)

Spec == Init /\ [][Next]_vars

\* The hourly cron keeps selecting the send while the day is not marked, and
\* what has started runs on unless it is killed.  Nothing obliges anyone to
\* publish, to send an admin request, or to start a run.
Fairness ==
  /\ \A t \in Ticks : WF_vars(TickSelects(t)) /\ WF_vars(WorkerStep(t))
  /\ \A q \in Requests : WF_vars(RequestStep(q))
  /\ \A g \in Runs : WF_vars(RunStep(g))

FairSpec == Spec /\ Fairness

-----------------------------------------------------------------------------
(* Properties                                                              *)

\* The rows and memories have their types: nothing but a briefing is ever posted.
TypeOK ==
  /\ prepared \in OfToday \cup {None}
  /\ lastBriefing \in Briefings \cup {None}
  /\ lastDelivery \in Deliveries \cup {None}
  /\ sentToday \in BOOLEAN
  /\ runCount \in Nat
  /\ pc \in [Senders -> {"idle", "canRun", "readPrepared", "putBriefing",
                         "post", "putDelivery", "readCount", "putCount",
                         "mark", "recoverBriefing", "recoverDelivery",
                         "publish", "done"}]
  /\ task \in [Senders -> {"send", "force", "resend"}]
  /\ held \in [Senders -> Briefings \cup {None}]
  /\ answered \in [Senders -> SUBSET Channels]
  /\ seenCount \in [Senders -> Nat]
  /\ seenSent \in [Senders -> BOOLEAN]
  /\ published \in Briefings
  /\ received \subseteq Briefings
  /\ faults \in 0 .. MaxFaults
  /\ acknowledged \in 0 .. MaxCount
  /\ reopened \in Nat

\* The day's limit of sends is exceeded by those under way at most, although a count
\* is read long before it is put (Scheduler.ts, canRunToday and incrementRunCount); and
\* by as many again for every time that a late count, which takes back those put since
\* it was read, brought the count below the limit and let others begin.
LimitKept == runCount <= Limit + (reopened + 1) * Cardinality(Senders)

\* The chat has a briefing of the day, the whole of it.
ReceivedToday == received \cap OfToday # {}

\* The day as the manager sees it.
Day == INSTANCE DailyDelivery WITH
  day <- IF sentToday THEN "recorded"
         ELSE IF ReceivedToday THEN "received"
         ELSE IF prepared # None THEN "ready" ELSE "computing"

\* All these senders implement the safety half of that promise: the day is
\* marked sent only after the chat received one of its briefings, whoever sent
\* it, and the mark is never taken back.
DeliveredInOrder == Day!Spec

\* The whole promise: once a briefing is prepared, ticks get one received and
\* the day marked, unless faults go on.
ImplementsDailyDelivery == Day!LiveSpec

\* When a recovery concludes that all is well, from three rows read at three
\* moments while other senders write them, then the chat did receive today the
\* briefing the recovery looked at, and the day is marked.
HealthyVerdictIsTrue ==
  \A q \in Requests :
    /\ pc[q] = "recoverDelivery"
    /\ Healthy(seenSent[q], held[q], lastDelivery, TRUE)
    => held[q] \in received /\ sentToday

\* The day's budget is spent on deliveries only: however often sends fail,
\* die or overlap, the run count never exceeds the posts Telegram acknowledged
\* (as far as they are counted), so failures cannot use up the retries that are
\* left.
BudgetNotBurnt == acknowledged < MaxCount => runCount <= acknowledged
=============================================================================
