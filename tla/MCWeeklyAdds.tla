---------------------------- MODULE MCWeeklyAdds ----------------------------
(* WeeklyAdds for two leagues: one with a place for each kind of player,   *)
(* on the bench and in IL, in which two play short, and one with room on   *)
(* its bench and for two outfielders.                                      *)
EXTENDS WeeklyAdds, TLC

CONSTANTS a, b, c, d, e, f, p, q

KindOf == [x \in Players |-> IF x \in {p, q} THEN "pitcher" ELSE "batter"]

Plays ==
  [x \in Players |-> CASE x = a -> {"SS"}
                       [] x = b -> {"SS", "OF"}
                       [] x \in {p, q} -> {"P"}
                       [] OTHER -> {"OF"}]

SmallRoster == "SS" :> 1 @@ "OF" :> 1 @@ "P" :> 1 @@ "BN" :> 1 @@ "IL" :> 1
LargeRoster == "SS" :> 1 @@ "OF" :> 2 @@ "P" :> 1 @@ "BN" :> 3 @@ "IL" :> 1

\* The values by the weights of each outlook, and what the report goes by.
Has(values, flip, season, score) ==
  [value |-> values, flip |-> flip, season |-> season, score |-> score,
   credible |-> TRUE, volume |-> TRUE, starts |-> TRUE, safe |-> TRUE]

\* Today; and when the others are better, one of them without a category he helps, and a
\* pitcher is a risk and has no start.
TwoOutlooks ==
  << a :> Has(<<20, 21>>, 4, 2, 6) @@ b :> Has(<<50, 29>>, 7, 5, 9) @@ c :> Has(<<24, 52>>, 2, 6, 3)
       @@ d :> Has(<<46, 33>>, 6, 3, 5) @@ e :> Has(<<30, 25>>, 5, 4, 4)
       @@ p :> Has(<<10, 12>>, 1, 1, 2) @@ q :> Has(<<16, 31>>, 3, 7, 7),
     a :> Has(<<55, 60>>, 7, 5, 8) @@ b :> Has(<<35, 30>>, 3, 3, 2) @@ c :> Has(<<22, 40>>, 5, 4, 7)
       @@ d :> [Has(<<15, 10>>, 4, 2, 3) EXCEPT !.credible = FALSE]
       @@ e :> Has(<<26, 45>>, 2, 6, 6)
       @@ p :> Has(<<28, 32>>, 6, 1, 5)
       @@ q :> [Has(<<8, 9>>, 1, 7, 1) EXCEPT !.safe = FALSE, !.starts = FALSE] >>

OneOutlook ==
  << a :> Has(<<20>>, 4, 3, 6) @@ b :> Has(<<50>>, 7, 7, 9) @@ c :> Has(<<24>>, 2, 5, 3)
       @@ d :> Has(<<30>>, 3, 6, 5) @@ e :> Has(<<21>>, 5, 4, 7) @@ f :> Has(<<22>>, 6, 2, 8)
       @@ p :> Has(<<10>>, 1, 1, 2) >>

At(places) == [x \in Players |-> IF x \in DOMAIN places THEN places[x] ELSE "FA"]

\* With a batter on the bench, with a pitcher on it, with places open, and with the best
\* player hurt and two slots of the lineup open.
FourRosters ==
  { At(a :> "SS" @@ c :> "OF" @@ p :> "P" @@ b :> "BN"),
    At(a :> "SS" @@ c :> "OF" @@ p :> "P" @@ q :> "BN"),
    At(b :> "SS" @@ p :> "P" @@ c :> "BN"),
    At(c :> "OF" @@ d :> "BN" @@ b :> "IL") }

\* Two outfielders and the bench are missing.
OpenRoster == { At(a :> "SS" @@ p :> "P") }
=============================================================================
