---------------------------- MODULE DailyDelivery ----------------------------
(***************************************************************************)
(* What the delivery of a day's briefing promises to the manager who reads *)
(* the chat: the day goes from computing, to ready (a prepared briefing is *)
(* on record), to received (the chat has one of the day's briefings, the   *)
(* whole of it), to recorded (the scheduler knows): in that order, never   *)
(* back, nothing skipped; and a day that is ready gets recorded.           *)
(***************************************************************************)
VARIABLE day

Days == {"computing", "ready", "received", "recorded"}

Init == day = "computing"

Prepare == day = "computing" /\ day' = "ready"
Receive == day = "ready" /\ day' = "received"
Record  == day = "received" /\ day' = "recorded"

Next == Prepare \/ Receive \/ Record

Spec == Init /\ [][Next]_day

LiveSpec == Spec /\ WF_day(Receive) /\ WF_day(Record)
=============================================================================
