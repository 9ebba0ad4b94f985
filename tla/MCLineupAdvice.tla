--------------------------- MODULE MCLineupAdvice ---------------------------
(* LineupAdvice for the teams of MCLineupWrites; the first player listed is *)
(* the best.                                                                *)
EXTENDS MCLineupWrites, LineupAdvice

OneInjured == {[q \in Players |-> IF q = b THEN "injured" ELSE "fit"]}

EarlierIsBetter == [p \in Players |-> 2 ^ (Len(Payload) - SelectInSeq(Payload, LAMBDA q : q = p))]
=============================================================================
