--------------------------- MODULE PreparedBriefing ---------------------------
(***************************************************************************)
(* What the computation of a day's briefing promises to its readers        *)
(* (send-briefing and the scheduler): the day goes from no spec, to a      *)
(* spec, to a prepared briefing, one stage at a time and never back; what  *)
(* is published, at first or as a replacement, is whole; and the briefing  *)
(* does get prepared.                                                      *)
(***************************************************************************)
CONSTANTS
  WholeBriefings,  \* the briefings fit to deliver
  None

VARIABLES
  stage,           \* how far the day has come
  prepared         \* the prepared briefing

Stages == {"noSpec", "specBuilt", "prepared"}

Init == stage = "noSpec" /\ prepared = None

BuildSpec ==
  /\ stage = "noSpec"
  /\ stage' = "specBuilt"
  /\ UNCHANGED prepared

Publish ==
  /\ stage # "noSpec"
  /\ stage' = "prepared"
  /\ prepared' \in WholeBriefings

FirstPublish == stage = "specBuilt" /\ Publish

Next == BuildSpec \/ Publish

Spec == Init /\ [][Next]_<<stage, prepared>>

LiveSpec == /\ Spec
            /\ WF_<<stage, prepared>>(BuildSpec)
            /\ WF_<<stage, prepared>>(FirstPublish)
=============================================================================
