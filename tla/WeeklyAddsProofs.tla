--------------------------- MODULE WeeklyAddsProofs ---------------------------
(***************************************************************************)
(* Proofs about the planner's transactions: the roster fits its slots, a   *)
(* plan can be carried out while nothing else changed, and a plan that is  *)
(* carried out late keeps the scarce positions and improves the roster.    *)
(***************************************************************************)
EXTENDS WeeklyAdds, FiniteSetTheorems, TLAPS

Rosters       == [Players -> Positions \cup {"FA"}]
Holders(at, slot) == {p \in Players : at[p] = slot}
Fits(at)      == \A slot \in Positions : Cardinality(Holders(at, slot)) <= Slots[slot]
Dropped(at, drop) == [p \in Players |-> IF p = drop THEN "FA" ELSE at[p]]

-----------------------------------------------------------------------------
(* Slots and rosters.                                                      *)

LEMMA MaxZero ==
  ASSUME NEW x \in Int
  PROVE  Max({0, x}) = IF x > 0 THEN x ELSE 0
<1> DEFINE m == IF x > 0 THEN x ELSE 0
<1>1. m \in {0, x} /\ \A y \in {0, x} : m >= y
  OBVIOUS
<1>2. \A z \in {0, x} : (\A y \in {0, x} : z >= y) => z = m
  OBVIOUS
<1> QED
  BY <1>1, <1>2 DEF Max

LEMMA HoldersFinite ==
  ASSUME NEW at, NEW slot
  PROVE  /\ IsFiniteSet(Holders(at, slot))
         /\ Cardinality(Holders(at, slot)) \in Nat
<1>1. IsFiniteSet(Players) /\ Holders(at, slot) \in SUBSET Players
  BY AddsAssumption DEF Holders
<1> QED
  BY <1>1, FS_Subset, FS_CardinalityType

LEMMA OpenCounts ==
  ASSUME NEW at, NEW slot \in Positions
  PROVE  emptySlots(at, slot) > 0 <=> Cardinality(Holders(at, slot)) < Slots[slot]
<1>1. Cardinality(Holders(at, slot)) \in Nat /\ Slots[slot] \in Nat
  BY HoldersFinite, AddsAssumption
<1>2. emptySlots(at, slot) = Max({0, Slots[slot] - Cardinality(Holders(at, slot))})
  BY DEF emptySlots, Holders
<1> QED
  BY <1>1, <1>2, MaxZero

\* A player less, or one moved to where there is room, leaves the roster within its slots.
LEMMA DropFits ==
  ASSUME NEW at \in Rosters, Fits(at), NEW drop
  PROVE  Dropped(at, drop) \in Rosters /\ Fits(Dropped(at, drop))
<1>1. Dropped(at, drop) \in Rosters
  BY DEF Dropped, Rosters
<1>2. ASSUME NEW slot \in Positions
      PROVE  Cardinality(Holders(Dropped(at, drop), slot)) <= Slots[slot]
  <2>1. Holders(Dropped(at, drop), slot) \in SUBSET Holders(at, slot)
    BY AddsAssumption DEF Dropped, Holders
  <2>2. Cardinality(Holders(Dropped(at, drop), slot)) <= Cardinality(Holders(at, slot))
    BY <2>1, HoldersFinite, FS_Subset
  <2> QED
    BY <2>2, HoldersFinite, AddsAssumption DEF Fits
<1> QED
  BY <1>1, <1>2 DEF Fits

LEMMA MoveFits ==
  ASSUME NEW at \in Rosters, Fits(at), NEW p \in Players, NEW to \in Positions,
         emptySlots(at, to) > 0
  PROVE  [at EXCEPT ![p] = to] \in Rosters /\ Fits([at EXCEPT ![p] = to])
<1> DEFINE new == [at EXCEPT ![p] = to]
<1>1. new \in Rosters
  BY DEF Rosters
<1>2. ASSUME NEW slot \in Positions
      PROVE  Cardinality(Holders(new, slot)) <= Slots[slot]
  <2>1. CASE slot # to
    <3>1. Holders(new, slot) \in SUBSET Holders(at, slot)
      BY <2>1 DEF Holders, Rosters
    <3>2. Cardinality(Holders(new, slot)) <= Cardinality(Holders(at, slot))
      BY <3>1, HoldersFinite, FS_Subset
    <3> QED
      BY <3>2, HoldersFinite, AddsAssumption DEF Fits
  <2>2. CASE slot = to
    <3>1. Holders(new, to) = Holders(at, to) \cup {p}
      BY DEF Holders, Rosters
    <3>2. Cardinality(Holders(new, to)) <= Cardinality(Holders(at, to)) + 1
      <4>1. IsFiniteSet(Holders(at, to)) /\ Cardinality(Holders(at, to)) \in Nat
        BY HoldersFinite
      <4>2. Cardinality(Holders(at, to) \cup {p}) =
              IF p \in Holders(at, to) THEN Cardinality(Holders(at, to))
              ELSE Cardinality(Holders(at, to)) + 1
        BY <4>1, FS_AddElement
      <4>3. Cardinality(Holders(new, to)) = Cardinality(Holders(at, to) \cup {p})
        BY <3>1, Zenon
      <4> QED
        BY <4>1, <4>2, <4>3
    <3>3. Cardinality(Holders(at, to)) < Slots[to]
      BY OpenCounts
    <3> QED
      BY <2>2, <3>2, <3>3, HoldersFinite, AddsAssumption
  <2> QED
    BY <2>1, <2>2
<1> QED
  BY <1>1, <1>2 DEF Fits

\* Who is dropped from the bench leaves his place on it.
LEMMA BenchOpens ==
  ASSUME NEW at \in Rosters, Fits(at), NEW drop \in Players, at[drop] = "BN"
  PROVE  BenchOpen(Dropped(at, drop))
<1>1. "BN" \in Positions
  BY AddsAssumption DEF Reserve
<1>2. Holders(Dropped(at, drop), "BN") = Holders(at, "BN") \ {drop}
  BY AddsAssumption DEF Dropped, Holders
<1>3. drop \in Holders(at, "BN")
  BY DEF Holders
<1>4. Cardinality(Holders(Dropped(at, drop), "BN")) = Cardinality(Holders(at, "BN")) - 1
  BY <1>2, <1>3, HoldersFinite, FS_RemoveElement
<1>5. Cardinality(Holders(Dropped(at, drop), "BN")) < Slots["BN"]
  BY <1>1, <1>4, HoldersFinite, AddsAssumption DEF Fits
<1> QED
  BY <1>1, <1>5, OpenCounts DEF BenchOpen

-----------------------------------------------------------------------------
(* What a plan says.                                                       *)

\* A plan made for the roster "at" after "used" adds: its add is a free agent with a
\* place to go to, or it drops someone on the roster who leaves no scarce position alone
\* and is worth less by the projections and the weights it was made by.
GoodPlan(pl, at, used) ==
  /\ pl.add \in Players /\ pl.drop \in Players \cup {None}
  /\ pl.confidence \in {"act", "review", "hold"}
  /\ pl.place = at /\ pl.addsUsed = used
  /\ pl.weights \in DOMAIN Outlooks
  /\ used < weeklyAddLimit
  /\ at[pl.add] = "FA"
  /\ pl.drop = None => OpenFor(at, pl.add) # {} \/ BenchOpen(at)
  /\ pl.drop # None =>
       /\ at[pl.drop] \notin {"FA", "IL"}
       /\ \A position \in Eligible[pl.drop] \cap Scarce : Cover(at, position) \ {pl.drop} # {}
       /\ LET line == Outlooks[pl.outlook]
          IN  line[pl.drop].value[pl.weights] < line[pl.add].value[pl.weights]

\* The entries of a report are as many as pairs of an add and a drop at most.
LEMMA EntriesFinite ==
  ASSUME NEW from, NEW situation
  PROVE  IsFiniteSet(Entries(from, situation))
<1> DEFINE E == Entries(from, situation)
           Pairs == Players \X (Players \cup {None})
           pair == [e \in E |-> <<e.add, e.drop>>]
<1>1. IsFiniteSet(Pairs)
  BY AddsAssumption, FS_AddElement, FS_Product
<1>2. \A e \in E : \E p \in Players, drop \in Players \cup {None} :
        e = Entry(from, situation, p, drop)
  BY DEF Entries, Drops, weakestDrop, Droppable, Rostered, Agents
<1>3. \A p, drop : /\ Entry(from, situation, p, drop).add = p
                   /\ Entry(from, situation, p, drop).drop = drop
  BY DEF Entry
<1>4. pair \in [E -> Pairs]
  BY <1>2, <1>3
<1>5. \A e, f \in E : pair[e] = pair[f] => e = f
  <2> SUFFICES ASSUME NEW e \in E, NEW f \in E, pair[e] = pair[f] PROVE e = f
    OBVIOUS
  <2>1. e.add = f.add /\ e.drop = f.drop
    OBVIOUS
  <2> HIDE DEF pair
  <2>2. PICK p \in Players, drop \in Players \cup {None} : e = Entry(from, situation, p, drop)
    BY <1>2
  <2>3. PICK q \in Players, other \in Players \cup {None} : f = Entry(from, situation, q, other)
    BY <1>2
  <2> QED
    BY <1>3, <2>1, <2>2, <2>3
<1>6. pair \in Injection(E, Pairs)
  BY <1>4, <1>5 DEF Injection, IsInjective
<1> QED
  BY <1>1, <1>6, FS_Injection

LEMMA RankIsNatural ==
  ASSUME NEW from, NEW situation, NEW e
  PROVE  rankIn(Entries(from, situation), e) \in Nat
<1>1. {f \in Entries(from, situation) : Before(f, e)} \in SUBSET Entries(from, situation)
  OBVIOUS
<1>2. IsFiniteSet({f \in Entries(from, situation) : Before(f, e)})
  BY <1>1, EntriesFinite, FS_Subset
<1> QED
  BY <1>2, FS_CardinalityType DEF rankIn

\* A plan of the planner is the step of an entry that it did not reject.
LEMMA PlanOfEntry ==
  ASSUME NEW from, NEW pl \in Plans(from), pl # None
  PROVE  \E situation \in Situations : \E e \in Entries(from, situation) :
           \E step : /\ step.entry = e
                     /\ step.rank = rankIn(Entries(from, situation), e)
                     /\ step.rank < addsRemaining
                     /\ ~Rejected(situation, e, step.timing)
                     /\ pl = Plan(from, step)
<1>1. PICK situation \in Situations : pl \in Offer(from, situation)
  BY DEF Plans
<1> DEFINE E == Entries(from, situation)
<1>2. pl \in Shown(from, capacityScoped(planTransactions(E, situation)))
  BY <1>1 DEF Offer
<1>3. PICK step \in capacityScoped(planTransactions(E, situation)) : pl = Plan(from, step)
  BY <1>2 DEF Shown
<1>4. step \in planTransactions(E, situation)
  BY DEF capacityScoped
<1>5. PICK e \in E : /\ step = Step(E, e)
                     /\ step.rank < addsRemaining
                     /\ ~Rejected(situation, step.entry, step.timing)
  BY <1>4 DEF planTransactions
<1>6. step.entry = e /\ step.rank = rankIn(E, e)
  BY <1>5 DEF Step
<1> QED
  BY <1>3, <1>5, <1>6

\* Whoever is dropped is on the roster, not in IL, and others cover his scarce positions.
LEMMA DropIsSafe ==
  ASSUME NEW from, NEW p \in Players, NEW d \in weakestDrop(from, p), place \in Rosters
  PROVE  /\ d \in Players /\ place[d] \notin {"FA", "IL"}
         /\ \A position \in Eligible[d] \cap Scarce : Cover(place, position) \ {d} # {}
<1>1. d \in Droppable(p)
  BY DEF weakestDrop
<1>2. d \in Players /\ place[d] \notin {"FA", "IL"} /\ ~protectsScarcePosition(d)
  BY <1>1 DEF Droppable, Rostered, Agents
<1>3. ASSUME NEW position \in Eligible[d] \cap Scarce
      PROVE  Cover(place, position) \ {d} # {}
  <2>1. PICK other \in Rostered \ {d} : ~(place[other] = "IL" \/ position \notin Eligible[other])
    BY <1>2 DEF protectsScarcePosition
  <2> QED
    BY <2>1 DEF Cover, Rostered, Agents
<1> QED
  BY <1>2, <1>3

\* An edge that is high enough is positive.
LEMMA EdgeIsPositive ==
  ASSUME outlook \in DOMAIN Outlooks, NEW from, from.outlook \in DOMAIN Outlooks,
         NEW p \in Players, NEW d \in Players, ~(edge(from, p, d) < minimumEdge(d))
  PROVE  replacementValue(from, d) < replacementValue(from, p)
<1> DEFINE low  == IF place[d] = "BN" THEN 5 ELSE 12
           high == {24 : s \in Eligible[d] \cap Scarce}
           m    == IF high = {} THEN low ELSE 24
<1>1. low \in {5, 12} /\ high \subseteq {24}
  OBVIOUS
<1> HIDE DEF low, high
<1>2. m \in {low} \cup high /\ \A y \in {low} \cup high : m >= y
  BY <1>1
<1>3. \A z \in {low} \cup high : (\A y \in {low} \cup high : z >= y) => z = m
  BY <1>1, <1>2
<1>4. Max({low} \cup high) = m
  BY <1>2, <1>3 DEF Max
<1>5. minimumEdge(d) = m
  BY <1>4 DEF minimumEdge, low, high
<1>6. m \in Int /\ m > 0
  BY <1>1
<1>7. replacementValue(from, p) \in Int /\ replacementValue(from, d) \in Int
  <2>1. Outlooks[outlook] \in [Players -> Line]
    BY AddsAssumption
  <2> QED
    BY <2>1 DEF replacementValue, Projected, Line
<1> QED
  BY <1>5, <1>6, <1>7 DEF edge

LEMMA PlansAreGood ==
  ASSUME outlook \in DOMAIN Outlooks, place \in Rosters, addsUsed \in Nat,
         NEW from, from.outlook \in DOMAIN Outlooks, NEW pl \in Plans(from), pl # None
  PROVE  GoodPlan(pl, place, addsUsed)
<1>1. PICK situation \in Situations : \E e \in Entries(from, situation) :
        \E step : /\ step.entry = e
                  /\ step.rank = rankIn(Entries(from, situation), e)
                  /\ step.rank < addsRemaining
                  /\ ~Rejected(situation, e, step.timing)
                  /\ pl = Plan(from, step)
  BY PlanOfEntry
<1>1a. PICK e \in Entries(from, situation) :
        \E step : /\ step.entry = e
                  /\ step.rank = rankIn(Entries(from, situation), e)
                  /\ step.rank < addsRemaining
                  /\ ~Rejected(situation, e, step.timing)
                  /\ pl = Plan(from, step)
  BY <1>1
<1>2. PICK step :
        /\ step.entry = e
        /\ step.rank = rankIn(Entries(from, situation), e)
        /\ step.rank < addsRemaining
        /\ ~Rejected(situation, e, step.timing)
        /\ pl = Plan(from, step)
  BY <1>1a
<1>3. PICK p \in Agents : \E drop \in Drops(from, p) : e = Entry(from, situation, p, drop)
  BY DEF Entries
<1>4. PICK drop \in Drops(from, p) : e = Entry(from, situation, p, drop)
  BY <1>3
<1>5. p \in Players /\ place[p] = "FA"
  BY DEF Agents
<1>6. e.add = p /\ e.drop = drop /\ e.open = hasEmptySlot(p)
  BY <1>4 DEF Entry
<1>7. /\ pl.add = p /\ pl.drop = drop /\ pl.place = place /\ pl.addsUsed = addsUsed
      /\ pl.confidence = confidenceFor(step) /\ pl.outlook = outlook
      /\ pl.weights = from.outlook
  BY <1>2, <1>6 DEF Plan
<1>8. confidenceFor(step) \in {"act", "review", "hold"}
  BY DEF confidenceFor
<1>9. addsUsed < weeklyAddLimit
  <2>1. step.rank \in Nat
    BY <1>2, RankIsNatural
  <2>2. weeklyAddLimit \in Nat
    BY AddsAssumption
  <2>3. addsRemaining > 0
    <3>1. weeklyAddLimit - addsUsed \in Int
      BY <2>2
    <3>2. addsRemaining \in Int
      BY <3>1, MaxZero DEF addsRemaining
    <3> QED
      BY <1>2, <2>1, <3>2
  <2> QED
    BY <2>2, <2>3, MaxZero DEF addsRemaining
<1>10. drop = None => OpenFor(place, p) # {} \/ BenchOpen(place)
  <2> SUFFICES ASSUME drop = None PROVE OpenFor(place, p) # {} \/ BenchOpen(place)
    OBVIOUS
  <2>1. hasEmptySlot(p)
    BY <1>2, <1>6 DEF Rejected
  <2>2. activeEmptySlots(p) \subseteq OpenFor(place, p)
    BY DEF activeEmptySlots, lineCanFillSlot, OpenFor
  <2> QED
    BY <2>1, <2>2 DEF hasEmptySlot
<1>11. drop # None => drop \in weakestDrop(from, p)
  BY DEF Drops
<1>12. drop # None =>
         /\ drop \in Players /\ place[drop] \notin {"FA", "IL"}
         /\ \A position \in Eligible[drop] \cap Scarce : Cover(place, position) \ {drop} # {}
  BY <1>5, <1>11, DropIsSafe
<1>13. drop # None => replacementValue(from, drop) < replacementValue(from, p)
  <2> SUFFICES ASSUME drop # None PROVE replacementValue(from, drop) < replacementValue(from, p)
    OBVIOUS
  <2>1. ~hasEmptySlot(p)
    BY DEF Drops
  <2>2. e.score = edge(from, p, drop)
    BY <1>4 DEF Entry
  <2>3. ~(e.score < minimumEdge(drop))
    BY <1>2, <1>6, <2>1 DEF Rejected
  <2> QED
    BY <1>5, <1>12, <2>2, <2>3, EdgeIsPositive
<1> QED
  BY <1>5, <1>7, <1>8, <1>9, <1>10, <1>12, <1>13 DEF GoodPlan, Projected, replacementValue

-----------------------------------------------------------------------------
(* The inductive invariant: the roster fits its slots and the plan, if     *)
(* there is one, is good for the roster and the adds it was made for, which *)
(* may be others by now.                                                   *)

Counts ==
  /\ addsUsed \in 0..weeklyAddLimit
  /\ day \in 0..6 /\ outlook \in DOMAIN Outlooks /\ changes \in 0..MaxChanges

ReportTypes ==
  report # None => report.agents \subseteq Players /\ report.outlook \in DOMAIN Outlooks

PlanIsGood ==
  plan # None => /\ plan.place \in Rosters
                 /\ GoodPlan(plan, plan.place, plan.addsUsed)

IInv == place \in Rosters /\ Fits(place) /\ Counts /\ ReportTypes /\ PlanIsGood

LEMMA Parameters ==
  /\ weeklyAddLimit \in Nat /\ MaxChanges \in Nat
  /\ None \notin Players /\ "FA" \notin Positions /\ Reserve \subseteq Positions
  /\ \A p \in Players : Eligible[p] \subseteq Positions \ Reserve
BY AddsAssumption

LEMMA InitIInv == Init => IInv
<1> SUFFICES ASSUME Init PROVE IInv
  OBVIOUS
<1>1. place \in Rosters /\ Fits(place)
  BY AddsAssumption DEF Init, Rosters, Fits, Holders
<1>2. Counts /\ ReportTypes /\ PlanIsGood
  BY Parameters DEF Init, Counts, ReportTypes, PlanIsGood
<1> QED
  BY <1>1, <1>2 DEF IInv

LEMMA NewPlanIsGood ==
  ASSUME IInv, NEW from, from.outlook \in DOMAIN Outlooks, plan' \in Plans(from)
  PROVE  PlanIsGood'
<1> SUFFICES ASSUME plan' # None
             PROVE  plan'.place \in Rosters /\ GoodPlan(plan', plan'.place, plan'.addsUsed)
  BY DEF PlanIsGood
<1>1. place \in Rosters /\ addsUsed \in Nat /\ outlook \in DOMAIN Outlooks
  BY Parameters DEF IInv, Counts
<1>2. GoodPlan(plan', place, addsUsed)
  BY <1>1, PlansAreGood
<1>3. plan'.place = place /\ plan'.addsUsed = addsUsed
  BY <1>2 DEF GoodPlan
<1> QED
  BY <1>1, <1>2, <1>3

\* Where the add goes has room on the roster without the drop, and is not in IL.
LEMMA LandingHasRoom ==
  ASSUME NEW add \in Players, NEW drop, NEW slot \in Landings(add, drop)
  PROVE  /\ slot \in Positions /\ slot \notin {"FA", "IL"}
         /\ emptySlots(AfterDrop(drop), slot) > 0
<1>1. CASE slot \in OpenFor(AfterDrop(drop), add)
  BY <1>1, Parameters DEF OpenFor, Reserve
<1>2. CASE slot = "BN" /\ BenchOpen(AfterDrop(drop))
  BY <1>2, Parameters DEF BenchOpen, Reserve
<1> QED
  BY <1>1, <1>2 DEF Landings

LEMMA FollowFits ==
  ASSUME IInv, Follow
  PROVE  place' \in Rosters /\ Fits(place')
<1>1. PICK slot \in Landings(plan.add, plan.drop) :
        place' = [AfterDrop(plan.drop) EXCEPT ![plan.add] = slot]
  BY DEF Follow
<1>2. plan.add \in Players
  BY DEF IInv, PlanIsGood, GoodPlan, Follow
<1>3. AfterDrop(plan.drop) = Dropped(place, plan.drop)
  BY DEF AfterDrop, Dropped
<1>4. AfterDrop(plan.drop) \in Rosters /\ Fits(AfterDrop(plan.drop))
  BY <1>3, DropFits DEF IInv
<1>5. slot \in Positions /\ emptySlots(AfterDrop(plan.drop), slot) > 0
  BY <1>2, LandingHasRoom
<1> QED
  BY <1>1, <1>2, <1>4, <1>5, MoveFits

\* A report is about free agents only.
LEMMA CandidatesAreAgents ==
  ASSUME NEW agents
  PROVE  selectSimCandidates(agents) \subseteq agents
BY DEF selectSimCandidates, FirstBy

LEMMA NextIInv == IInv /\ [Next]_vars => IInv'
<1> SUFFICES ASSUME IInv, [Next]_vars PROVE IInv'
  OBVIOUS
<1>1. CASE BuildReport
  <2>1. place' = place /\ UNCHANGED <<addsUsed, day, outlook, changes, plan>>
    BY <1>1 DEF BuildReport
  <2>2. CurrentReport.agents \subseteq Players
    BY CandidatesAreAgents DEF CurrentReport, Agents
  <2>3. ReportTypes'
    BY <1>1, <2>2 DEF BuildReport, CurrentReport, ReportTypes, IInv, Counts
  <2> QED
    BY <2>1, <2>3 DEF IInv, Counts, PlanIsGood
<1>2. CASE Brief
  <2>1. report.outlook \in DOMAIN Outlooks /\ plan' \in Plans(report)
    BY <1>2 DEF Brief, IInv, ReportTypes
  <2>2. PlanIsGood'
    BY <2>1, NewPlanIsGood
  <2> QED
    BY <1>2, <2>2 DEF Brief, IInv, Counts, ReportTypes
<1>3. CASE Regenerate
  <2>1. CurrentReport.outlook \in DOMAIN Outlooks /\ plan' \in Plans(CurrentReport)
    BY <1>3 DEF Regenerate, CurrentReport, IInv, Counts
  <2>2. PlanIsGood'
    BY <2>1, NewPlanIsGood
  <2> QED
    BY <1>3, <2>2 DEF Regenerate, IInv, Counts, ReportTypes
<1>4. CASE Follow
  <2>1. place' \in Rosters /\ Fits(place')
    BY <1>4, FollowFits
  <2>2. Counts'
    BY <1>4, Parameters DEF Follow, Accepted, IInv, Counts
  <2>3. ReportTypes' /\ PlanIsGood'
    BY <1>4 DEF Follow, IInv, ReportTypes, PlanIsGood
  <2> QED
    BY <2>1, <2>2, <2>3 DEF IInv
<1>5. CASE NextDay
  <2>1. Counts'
    BY <1>5, Parameters DEF NextDay, IInv, Counts
  <2> QED
    BY <1>5, <2>1 DEF NextDay, IInv, ReportTypes, PlanIsGood
<1>6. ASSUME NEW p \in Players, NEW slot \in Positions, FillOpenSlot(p, slot)
      PROVE  IInv'
  <2>1. emptySlots(place, slot) > 0
    BY <1>6 DEF FillOpenSlot, canFillSlot, activeEmptySlots
  <2>2. place' \in Rosters /\ Fits(place')
    BY <1>6, <2>1, MoveFits DEF FillOpenSlot, IInv
  <2> QED
    BY <1>6, <2>2 DEF FillOpenSlot, IInv, Counts, ReportTypes, PlanIsGood
<1>7. ASSUME NEW p \in Players, NEW to \in {"FA", "IL"}, PlayerLeaves(p, to)
      PROVE  IInv'
  <2>1. place' = [place EXCEPT ![p] = to]
    BY <1>7 DEF PlayerLeaves
  <2>2. place' \in Rosters /\ Fits(place')
    <3>1. CASE to = "FA"
      <4>1. place' = Dropped(place, p)
        BY <2>1, <3>1 DEF Dropped, IInv, Rosters
      <4> QED
        BY <4>1, DropFits DEF IInv
    <3>2. CASE to = "IL"
      <4>1. emptySlots(place, "IL") > 0 /\ "IL" \in Positions
        BY <1>7, <3>2, Parameters DEF PlayerLeaves, Reserve
      <4> QED
        BY <2>1, <3>2, <4>1, MoveFits DEF IInv
    <3> QED
      BY <3>1, <3>2
  <2>3. Counts'
    BY <1>7, Parameters DEF PlayerLeaves, Changes, IInv, Counts
  <2> QED
    BY <1>7, <2>2, <2>3 DEF PlayerLeaves, Changes, IInv, ReportTypes, PlanIsGood
<1>8. ASSUME NEW next \in DOMAIN Outlooks, OutlookChanges(next)
      PROVE  IInv'
  <2>1. Counts'
    BY <1>8, Parameters DEF OutlookChanges, Changes, IInv, Counts
  <2> QED
    BY <1>8, <2>1 DEF OutlookChanges, Changes, IInv, ReportTypes, PlanIsGood
<1>9. CASE UNCHANGED vars
  BY <1>9 DEF vars, IInv, Counts, ReportTypes, PlanIsGood
<1> QED
  BY <1>1, <1>2, <1>3, <1>4, <1>5, <1>6, <1>7, <1>8, <1>9 DEF Next

\* Every reachable state satisfies the inductive invariant.
THEOREM Invariant == Spec => []IInv
<1> QED
  BY InitIInv, NextIInv, PTL DEF Spec

-----------------------------------------------------------------------------
(* The theorems.                                                           *)

\* Whatever is planned, followed, filled, dropped or hurt, no position holds more
\* players than its slots and no week has more adds than its limit (TypeOK).
THEOREM TypeCorrect == Spec => []TypeOK
<1>1. IInv => TypeOK
  <2> SUFFICES ASSUME IInv PROVE TypeOK
    OBVIOUS
  <2>1. place \in [Players -> Positions \cup {"FA"}]
    BY DEF IInv, Rosters
  <2>2. \A slot \in Positions : Cardinality({p \in Players : place[p] = slot}) <= Slots[slot]
    BY DEF IInv, Fits, Holders
  <2>3. plan # None => /\ plan.add \in Players /\ plan.drop \in Players \cup {None}
                       /\ plan.confidence \in {"act", "review", "hold"}
    BY DEF IInv, PlanIsGood, GoodPlan
  <2> QED
    BY <2>1, <2>2, <2>3 DEF IInv, Counts, ReportTypes, TypeOK
<1> QED
  BY <1>1, Invariant, PTL

\* A plan that nothing overtook can be carried out, unless it drops a starter (PlanFits).
THEOREM PlansFit == Spec => []PlanFits
<1>1. IInv => PlanFits
  <2> SUFFICES ASSUME IInv, plan # None, plan.place = place, plan.addsUsed = addsUsed,
                      ~(plan.drop # None /\ place[plan.drop] # "BN")
               PROVE  Accepted(plan.add, plan.drop)
    BY DEF PlanFits
  <2>1. GoodPlan(plan, place, addsUsed)
    BY DEF IInv, PlanIsGood
  <2>2. Landings(plan.add, plan.drop) # {}
    <3>1. CASE plan.drop = None
      <4>1. AfterDrop(plan.drop) = place
        BY <3>1, Parameters DEF AfterDrop, IInv, Rosters
      <4> QED
        BY <2>1, <3>1, <4>1 DEF GoodPlan, Landings
    <3>2. CASE plan.drop # None
      <4>1. plan.drop \in Players /\ place[plan.drop] = "BN"
        BY <2>1, <3>2 DEF GoodPlan
      <4>2. BenchOpen(Dropped(place, plan.drop))
        BY <4>1, BenchOpens DEF IInv
      <4> QED
        BY <4>2 DEF Landings, AfterDrop, Dropped
    <3> QED
      BY <3>1, <3>2
  <2> QED
    BY <2>1, <2>2 DEF GoodPlan, Accepted
<1> QED
  BY <1>1, Invariant, PTL

\* A plan that is carried out, however late, keeps a player for every scarce position,
\* unless one of those who could play there left since it was made (ScarceKept).
THEOREM ScarceStaysCovered == Spec => ScarceKept
<1>1. ASSUME IInv, NEW position \in Scarce, Follow, Cover(place, position) # {},
             Cover(plan.place, position) \subseteq Cover(place, position)
      PROVE  Cover(place', position) # {}
  <2>1. PICK slot \in Landings(plan.add, plan.drop) :
          place' = [AfterDrop(plan.drop) EXCEPT ![plan.add] = slot]
    BY <1>1 DEF Follow
  <2>2. GoodPlan(plan, plan.place, plan.addsUsed) /\ plan.add \in Players
    BY <1>1 DEF IInv, PlanIsGood, Follow, GoodPlan
  <2>3. slot \notin {"FA", "IL"}
    BY <2>2, LandingHasRoom
  <2>4. \A p \in Cover(place, position) \ {plan.drop} : p \in Cover(place', position)
    BY <2>1, <2>3 DEF Cover, AfterDrop
  <2>5. Cover(place, position) \ {plan.drop} # {}
    <3>1. CASE plan.drop \in Cover(place, position)
      <4>1. plan.drop # None /\ position \in Eligible[plan.drop] \cap Scarce
        BY <1>1, <3>1, Parameters DEF Cover
      <4>2. Cover(plan.place, position) \ {plan.drop} # {}
        BY <2>2, <4>1 DEF GoodPlan
      <4> QED
        BY <1>1, <4>2
    <3>2. CASE plan.drop \notin Cover(place, position)
      BY <1>1, <3>2
    <3> QED
      BY <3>1, <3>2
  <2> QED
    BY <2>4, <2>5
<1>2. IInv /\ [Next]_vars =>
        [\A position \in Scarce :
           (Follow /\ Cover(place, position) # {}
              /\ Cover(plan.place, position) \subseteq Cover(place, position))
             => Cover(place', position) # {}]_vars
  BY <1>1
<1> QED
  BY <1>2, Invariant, PTL DEF Spec, ScarceKept

\* A plan that is carried out, however late, leaves the roster with as many players of
\* every value, and with more of some, unless the projections have changed since it was
\* made (RosterImproves).  This is what ends the churn of ChurnEnds.
THEOREM AddsImprove == Spec => RosterImproves
<1>1. ASSUME IInv, Follow, plan.outlook = outlook
      PROVE  LET w == plan.weights
             IN  /\ \A q \in Players : AtLeast(place', q, w) >= AtLeast(place, q, w)
                 /\ \E q \in Players : AtLeast(place', q, w) > AtLeast(place, q, w)
  <2> DEFINE add  == plan.add
             drop == plan.drop
             v    == [p \in Players |-> Projected(p).value[plan.weights]]
             Those(at, q) == {p \in Players : at[p] # "FA" /\ v[p] >= v[q]}
  <2>1. PICK slot \in Landings(add, drop) : place' = [AfterDrop(drop) EXCEPT ![add] = slot]
    BY <1>1 DEF Follow
  <2>2. GoodPlan(plan, plan.place, plan.addsUsed) /\ add \in Players /\ drop \in Players \cup {None}
    BY <1>1 DEF IInv, PlanIsGood, Follow, GoodPlan
  <2>3. slot # "FA"
    BY <2>2, LandingHasRoom
  <2>4. /\ place \in Rosters /\ place[add] = "FA"
        /\ drop # None => place[drop] # "FA" /\ v[drop] < v[add]
    BY <1>1, <2>2, Parameters DEF IInv, Follow, Accepted, GoodPlan, Projected
  <2>5. v \in [Players -> Int]
    <3>1. Outlooks[outlook] \in [Players -> Line] /\ plan.weights \in DOMAIN Outlooks
      BY <1>1, AddsAssumption DEF IInv, Counts, PlanIsGood, GoodPlan, Follow
    <3> QED
      BY <3>1 DEF Projected, Line
  <2>6. \A at, q : q \in Players => AtLeast(at, q, plan.weights) = Cardinality(Those(at, q))
    BY DEF AtLeast
  <2>7. ASSUME NEW q \in Players
        PROVE  /\ add \notin Those(place, q)
               /\ Those(place', q) =
                    (Those(place, q) \ {drop}) \cup (IF v[add] >= v[q] THEN {add} ELSE {})
               /\ drop \in Those(place, q) => drop # None /\ v[drop] >= v[q]
    BY <2>1, <2>2, <2>3, <2>4, Parameters DEF AfterDrop, Rosters
  <2>8. \A q : IsFiniteSet(Those(place, q)) /\ Cardinality(Those(place, q)) \in Nat
    BY AddsAssumption, FS_Subset, FS_CardinalityType
  <2> HIDE DEF v, add, drop, Those
  <2>9. ASSUME NEW q \in Players
        PROVE  /\ Cardinality(Those(place', q)) >= Cardinality(Those(place, q))
               /\ q = add => Cardinality(Those(place', q)) > Cardinality(Those(place, q))
    <3> DEFINE old  == Those(place, q)
               rest == old \ {drop}
    <3>1. /\ IsFiniteSet(old) /\ Cardinality(old) \in Nat
          /\ IsFiniteSet(rest)
          /\ Cardinality(rest) = IF drop \in old THEN Cardinality(old) - 1 ELSE Cardinality(old)
      BY <2>8, FS_RemoveElement
    <3>2. CASE v[add] >= v[q]
      <4>1. Those(place', q) = rest \cup {add} /\ add \notin rest
        BY <2>7, <3>2
      <4> HIDE DEF old, rest
      <4>2. Cardinality(Those(place', q)) = Cardinality(rest) + 1
        BY <3>1, <4>1, FS_AddElement
      <4>3. q = add => drop \notin old
        BY <2>2, <2>4, <2>5, <2>7 DEF old
      <4> QED
        BY <3>1, <4>2, <4>3 DEF old
    <3>3. CASE ~(v[add] >= v[q])
      <4>1. drop \notin old
        BY <2>2, <2>4, <2>5, <2>7, <3>3
      <4>2. Those(place', q) = old
        BY <2>7, <3>3, <4>1
      <4>3. q # add
        BY <2>5, <3>3
      <4> QED
        BY <3>1, <4>2, <4>3
    <3> QED
      BY <3>2, <3>3
  <2> QED
    BY <2>2, <2>6, <2>9
<1>2. IInv /\ [Next]_vars =>
        [Follow /\ plan.outlook = outlook =>
           /\ \A q \in Players : AtLeast(place', q, plan.weights) >= AtLeast(place, q, plan.weights)
           /\ \E q \in Players : AtLeast(place', q, plan.weights) > AtLeast(place, q, plan.weights)]_vars
  BY <1>1
<1> QED
  BY <1>2, Invariant, PTL DEF Spec, RosterImproves
=============================================================================
