--------------------------- MODULE MCLineupWrites ---------------------------
(* LineupWrites for a small team: more players than playing positions, two *)
(* of which have the same name.                                            *)
EXTENDS LineupWrites

CONSTANTS a, b, c, d

FourPlayers  == <<a, b, c, d>>
ThreePlayers == <<a, b, c>>

Infield  == {"1B"}
Outfield == {"OF"}

FourEligible ==
  a :> Outfield @@ b :> (Infield \cup Outfield) @@ c :> Outfield @@ d :> (Infield \cup Outfield)
ThreeEligible ==
  a :> (Infield \cup Outfield) @@ b :> (Infield \cup Outfield) @@ c :> Infield

Slot(name, n) == [position |-> name, count |-> n]
LargeSlots == <<Slot("1B", 1), Slot("OF", 2), Slot("BN", 2), Slot("IL", 1)>>
SmallSlots == <<Slot("1B", 1), Slot("OF", 1), Slot("BN", 2), Slot("IL", 1)>>

AnyStatus    == [Players -> Statuses]
OneUnfit     == {f \in AnyStatus : Cardinality({p \in Players : f[p] # "fit"}) = 1}

CronOnly   == {"cron"}
Routes     == {"admin", "callback"}
BothScopes == {"read", "write"}
WriteScope == {"write"}
=============================================================================
