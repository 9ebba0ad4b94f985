-------------------------- MODULE MCBriefingDelivery --------------------------
(* BriefingDelivery over small constants.                                  *)
EXTENDS BriefingDelivery

CONSTANTS t1, q1, g1

OneTick    == {t1}
OneRequest == {q1}
OneRun     == {g1}
=============================================================================
