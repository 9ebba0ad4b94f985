---------------------------- MODULE MCSimPipeline ----------------------------
(* SimPipeline over small constants.                                       *)
EXTENDS SimPipeline

CONSTANTS d1, g1

OneDispatcher == {d1}
OneRun        == {g1}

\* Different context times hash to different generations.
DistinctGens == [c \in Contexts |-> c]
=============================================================================
