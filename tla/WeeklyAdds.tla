------------------------------ MODULE WeeklyAdds ------------------------------
(***************************************************************************)
(* A week's adds.  The planner turns the ranked free agents of a decision  *)
(* report into transactions, against the roster, the open slots and the    *)
(* adds that are left; the briefing shows one of them, and the apply plan  *)
(* carries it to Yahoo when the manager follows it.  He may regenerate the *)
(* plan as often as he likes; meanwhile players move, the writers of the   *)
(* lineup fill open slots, and the days and the weeks go by.               *)
(*                                                                         *)
(* A report does not rank every free agent: as many are simulated as       *)
(* MaxCandidates, by what their lines are worth in the week and the season.*)
(*                                                                         *)
(* A projected line is reduced to what the planner decides by: "value"     *)
(* (replacementValue, by the category weights of each outlook), "flip" and *)
(* "season" (weeklyFlipScore, seasonSgp), "score" (of the recommendation), *)
(* "credible" (some category it helps), "volume" (his team has games left),*)
(* "starts" (if he is to start, a start is left) and "safe"                *)
(* (passesStreamingGuardrails).  The weights of a report stay what they    *)
(* were when it was made.                                                  *)
(* Numbers are in quarters of the code's.  No caller of the planner says   *)
(* that a player is on waivers, so there are no claims.  The code rejects  *)
(* an add/drop that improves no category whatever its edge; the model does *)
(* not, and so has the plans of the code and more.                         *)
(***************************************************************************)
EXTENDS Integers, Sequences, FiniteSets, FiniteSetsExt

CONSTANTS
  Players,              \* the roster's, and the free agents that Yahoo lists first
  Kind,                 \* "batter" or "pitcher"
  Eligible,             \* the playing positions each can fill, Util and P included
  Slots,                \* the league's slots: how many of each position
  Outlooks,             \* a sequence of projections, each with its category weights
  InitialPlaces,        \* where the players may be at first
  MaxCandidates,        \* MAX_SIMULATED_ADD_CANDIDATES
  SeasonCandidates,     \* how many of them are chosen for the season's sake
  weeklyAddLimit,
  ActiveBonus, BenchBonus, FloorBonus,  \* what an open slot or the innings floor adds to a score
  MaxChanges,           \* bound: changes that no plan asks for
  None

Reserve   == {"BN", "IL"}
Positions == DOMAIN Slots
Line      == [value : [DOMAIN Outlooks -> Int], flip : Int, season : Int, score : Int,
              credible : BOOLEAN, volume : BOOLEAN, starts : BOOLEAN, safe : BOOLEAN]

ASSUME AddsAssumption ==
  /\ IsFiniteSet(Players) /\ None \notin Players
  /\ Kind \in [Players -> {"batter", "pitcher"}]
  /\ Reserve \subseteq Positions
  /\ Slots \in [Positions -> Nat] /\ "FA" \notin Positions
  /\ Eligible \in [Players -> SUBSET (Positions \ Reserve)]
  /\ Outlooks \in Seq([Players -> Line])
  /\ \A i \in DOMAIN Outlooks : \A p, q \in Players :
       p # q => /\ \A w \in DOMAIN Outlooks : Outlooks[i][p].value[w] # Outlooks[i][q].value[w]
                /\ \A field \in {"flip", "season", "score"} :
                     Outlooks[i][p][field] # Outlooks[i][q][field]
  /\ InitialPlaces \subseteq [Players -> Positions \cup {"FA"}]
  /\ \A at \in InitialPlaces : \A slot \in Positions :
       Cardinality({p \in Players : at[p] = slot}) <= Slots[slot]
  /\ {MaxCandidates, SeasonCandidates, weeklyAddLimit, ActiveBonus, BenchBonus, FloorBonus, MaxChanges}
       \subseteq Nat

VARIABLES
  place,     \* of each player: a position of the roster, or "FA"
  addsUsed,  \* this week
  day,       \* of the week, Monday is 0
  outlook,   \* the projections and category weights in force
  report,    \* the day's decision report: whom it ranks, by which outlook, or None
  plan,      \* the transaction of the last plan and what it was made for, or None
  changes

vars == <<place, addsUsed, day, outlook, report, plan, changes>>

Agents         == {p \in Players : place[p] = "FA"}
Rostered       == Players \ Agents
Projected(p)   == Outlooks[outlook][p]

\* The league's state, for a roster.
emptySlots(at, slot) ==
  Max({0, Slots[slot] - Cardinality({p \in Players : at[p] = slot})})

OpenFor(at, p) == {slot \in Eligible[p] : emptySlots(at, slot) > 0}
BenchOpen(at)  == emptySlots(at, "BN") > 0

-----------------------------------------------------------------------------
(* DecisionEngine.ts                                                       *)

\* The best n of some players by a field of their lines.
FirstBy(field, some, n) ==
  {p \in some : Cardinality({q \in some : Projected(q)[field] > Projected(p)[field]}) < n}

\* Whom the report's simulation is about: the best of the season, and as many of the rest
\* as there is room for.  Open slots do not count.
selectSimCandidates(agents) ==
  LET bySeason == FirstBy("season", agents, SeasonCandidates)
      room     == MaxCandidates - Cardinality(bySeason)
  IN  bySeason \cup FirstBy("flip", agents \ bySeason, room)

-----------------------------------------------------------------------------
(* TransactionPlanner.ts                                                   *)

Scarce == {"C", "2B", "3B", "SS"}

addsRemaining == Max({0, weeklyAddLimit - addsUsed})

reserveAdds ==
  LET spare == Max({0, addsRemaining - 1})
  IN  CASE day <= 1 -> Min({3, spare})
        [] day \in {2, 3} -> Min({2, spare})
        [] OTHER -> 0

LastOnWeekend == addsRemaining = 1 /\ day >= 5

\* Variant the checks must reject: any place in the lineup of his kind will do.
OfHisKind(p, slot) == slot \notin Reserve /\ (slot = "P") = (Kind[p] = "pitcher")

lineCanFillSlot(p, slot) == slot \in Eligible[p]

activeEmptySlots(p) ==
  {slot \in Positions \ Reserve : emptySlots(place, slot) > 0 /\ lineCanFillSlot(p, slot)}

hasEmptySlot(p) == activeEmptySlots(p) # {} \/ BenchOpen(place)

\* Ranks count from 0.
timingFor(rank, open) ==
  CASE LastOnWeekend -> "sat-sun-priority"
    [] ~LastOnWeekend /\ ~open /\ rank >= Max({1, addsRemaining - reserveAdds}) ->
         "reserve-late-week"
    [] OTHER -> "now"

\* Nobody else who is not in IL plays one of his scarce positions.
protectsScarcePosition(p) ==
  \E position \in Eligible[p] \cap Scarce :
    \A other \in Rostered \ {p} : place[other] = "IL" \/ position \notin Eligible[other]

\* Variant the checks must reject: anyone may go.
AnyDrop(p) == {d \in Rostered : Kind[d] = Kind[p] /\ place[d] # "IL"}

Droppable(p) == {d \in Rostered : /\ Kind[d] = Kind[p]
                                  /\ place[d] # "IL"
                                  /\ ~protectsScarcePosition(d)}

\* Today's projections, by the weights of the report.
replacementValue(from, p) == Projected(p).value[from.outlook]

\* Bench players before starters, then the lowest value.
weakestDrop(from, p) ==
  LET bench  == {d \in Droppable(p) : place[d] = "BN"}
      choice == IF bench # {} THEN bench ELSE Droppable(p)
  IN  {d \in choice : \A e \in choice : replacementValue(from, d) <= replacementValue(from, e)}

\* Whom an add would replace.
Drops(from, p) ==
  IF hasEmptySlot(p) \/ weakestDrop(from, p) = {} THEN {None} ELSE weakestDrop(from, p)

edge(from, p, drop) == replacementValue(from, p) - replacementValue(from, drop)

\* Variant the checks must reject: any change of players will do.
AnyEdge(drop) == -1000

minimumEdge(drop) ==
  Max({IF place[drop] = "BN" THEN 5 ELSE 12} \cup {24 : s \in Eligible[drop] \cap Scarce})

\* What an open slot, the last add and the innings floor make of a recommendation's score.
addScore(from, situation, p) ==
  LET bonus  == CASE activeEmptySlots(p) # {} -> ActiveBonus
                  [] activeEmptySlots(p) = {} /\ BenchOpen(place) -> BenchBonus
                  [] OTHER -> 0
      score  == Outlooks[from.outlook][p].score + bonus
      raised == IF LastOnWeekend THEN (score * 5) \div 4 ELSE score
  IN  IF situation.needIpFirst /\ Kind[p] = "pitcher" THEN raised + FloorBonus ELSE raised

\* A recommended free agent as he is ranked: an add/drop by its replacement edge.
Entry(from, situation, p, drop) ==
  [add      |-> p,
   open     |-> hasEmptySlot(p),
   drop     |-> drop,
   reported |-> Outlooks[from.outlook][p].score,
   score    |-> IF drop = None THEN addScore(from, situation, p) ELSE edge(from, p, drop)]

\* The free agents of the report who still are; risky pitchers only when innings are needed.
Entries(from, situation) ==
  LET agents == {p \in from.agents \cap Agents : Projected(p).safe \/ situation.needIpFirst}
  IN  UNION {{Entry(from, situation, p, drop) : drop \in Drops(from, p)} : p \in agents}

Before(e, f) == e.score > f.score \/ (e.score = f.score /\ e.reported > f.reported)

\* An add/drop that is to be made now has a guardrail to justify it.
guarded(situation, p) == Kind[p] = "pitcher" \/ LastOnWeekend \/ situation.stash

Rejected(situation, e, timing) ==
  \/ ~Projected(e.add).volume
  \/ ~Projected(e.add).starts /\ ~situation.needIpFirst
  \/ e.open /\ ~Projected(e.add).credible
  \/ ~e.open /\ \/ e.drop = None
                \/ timing = "now" /\ ~guarded(situation, e.add)
                \/ e.score < minimumEdge(e.drop)

rankIn(entries, e) == Cardinality({f \in entries : Before(f, e)})

Step(entries, e) ==
  [entry |-> e, rank |-> rankIn(entries, e), timing |-> timingFor(rankIn(entries, e), e.open)]

\* As many entries as adds are left are looked at, the rejected included.
planTransactions(entries, situation) ==
  {step \in {Step(entries, e) : e \in entries} :
     step.rank < addsRemaining /\ ~Rejected(situation, step.entry, step.timing)}

-----------------------------------------------------------------------------
(* ManagerBriefing.ts                                                      *)

confidenceFor(step) ==
  CASE step.entry.drop # None -> "review"
    [] step.entry.drop = None /\ step.timing # "now" -> "hold"
    [] step.entry.drop = None /\ step.timing = "now" ->
         IF step.entry.score > 0 /\ Kind[step.entry.add] = "batter" THEN "act" ELSE "review"

intoOpenSpot(step) == step.entry.open /\ activeEmptySlots(step.entry.add) = {}

\* As many adds into the open roster spot as the bench has places, the best of them.
capacityScoped(steps) ==
  {step \in steps :
     intoOpenSpot(step) =>
       Cardinality({s \in steps : intoOpenSpot(s) /\ s.rank < step.rank}) < emptySlots(place, "BN")}

\* Variant the checks must reject: filled slots are filled again.
FillsAnySlot(p, slot) == place[p] = "BN" /\ slot \in Eligible[p]

\* A player on the bench could fill an open slot: the lineup comes first.
canFillSlot(p, slot) == place[p] = "BN" /\ slot \in activeEmptySlots(p)
fillableOpenSlots    == \E p \in Players : \E slot \in Positions : canFillSlot(p, slot)

\* What else a plan depends on: whether innings are short, whether someone may be
\* stashed in IL.
Situations == [needIpFirst : BOOLEAN, stash : BOOLEAN]
Quiet      == [needIpFirst |-> FALSE, stash |-> FALSE]

\* Variant the checks must reject: the best entry is shown, whatever there is to do now.
PrecedesByRank(step, other) == step.rank <= other.rank

\* What is to be done now comes before what is to be reviewed, and that before the rest.
Precedes(step, other) ==
  LET order == [act |-> 0, review |-> 1, hold |-> 2]
  IN  \/ order[confidenceFor(step)] < order[confidenceFor(other)]
      \/ confidenceFor(step) = confidenceFor(other) /\ step.rank <= other.rank

Plan(from, step) == [add        |-> step.entry.add,
                     drop       |-> step.entry.drop,
                     confidence |-> confidenceFor(step),
                     place      |-> place,
                     addsUsed   |-> addsUsed,
                     outlook    |-> outlook,
                     weights    |-> from.outlook]

\* The one transaction a briefing shows, if any.
Shown(from, steps) ==
  {Plan(from, step) : step \in {s \in steps : \A other \in steps : Precedes(s, other)}}

Offer(from, situation) ==
  UNION {Shown(from, capacityScoped(planTransactions(entries, situation))) :
           entries \in {Entries(from, situation)}}

\* buildYahooApplyPlan: no transaction while moves of the lineup are pending; nor, in
\* buildManagerBriefing, while an unavailable player is in the lineup.
Plans(from) ==
  {None} \cup UNION {Offer(from, situation) : situation \in {s \in Situations : ~fillableOpenSlots}}

-----------------------------------------------------------------------------
(* The actions.                                                            *)

Init ==
  /\ place \in InitialPlaces
  /\ addsUsed = 0
  /\ day = 0
  /\ outlook \in DOMAIN Outlooks
  /\ report = None
  /\ plan = None
  /\ changes = 0

CurrentReport == [agents |-> selectSimCandidates(Agents), outlook |-> outlook]

\* The day's specification.
BuildReport ==
  /\ report = None
  /\ report' = CurrentReport
  /\ UNCHANGED <<place, addsUsed, day, outlook, plan, changes>>

\* The daily briefing, from the report of the day.
Brief ==
  /\ report # None
  /\ plan' \in Plans(report)
  /\ UNCHANGED <<place, addsUsed, day, outlook, report, changes>>

\* currentBriefing, at any time: the report is made anew for it.
Regenerate ==
  /\ plan' \in Plans(CurrentReport)
  /\ UNCHANGED <<place, addsUsed, day, outlook, report, changes>>

\* On a day without alarms.
BriefQuietly ==
  /\ report # None
  /\ ~fillableOpenSlots
  /\ plan' \in Offer(report, Quiet)
  /\ UNCHANGED <<place, addsUsed, day, outlook, report, changes>>

AfterDrop(drop) == [p \in Players |-> IF p = drop THEN "FA" ELSE place[p]]

\* Where Yahoo can put the player who is added.
Landings(add, drop) ==
  OpenFor(AfterDrop(drop), add) \cup IF BenchOpen(AfterDrop(drop)) THEN {"BN"} ELSE {}

Accepted(add, drop) ==
  /\ place[add] = "FA"
  /\ drop # None => place[drop] # "FA"
  /\ addsUsed < weeklyAddLimit
  /\ Landings(add, drop) # {}

\* The manager carries the plan out, Yahoo accepting.
Follow ==
  /\ plan # None
  /\ Accepted(plan.add, plan.drop)
  /\ \E slot \in Landings(plan.add, plan.drop) :
       place' = [AfterDrop(plan.drop) EXCEPT ![plan.add] = slot]
  /\ addsUsed' = addsUsed + 1
  /\ plan' = None
  /\ UNCHANGED <<day, outlook, report, changes>>

FollowAct == plan # None /\ plan.confidence = "act" /\ Follow

\* The lineup is written, or the manager sets it.
FillOpenSlot(p, slot) ==
  /\ canFillSlot(p, slot)
  /\ place' = [place EXCEPT ![p] = slot]
  /\ UNCHANGED <<addsUsed, day, outlook, report, plan, changes>>

\* The week is the code's, which counts adds and days by UTC dates.
NextDay ==
  /\ day' = (day + 1) % 7
  /\ addsUsed' = IF day' = 0 THEN 0 ELSE addsUsed
  /\ report' = None
  /\ plan' = None
  /\ UNCHANGED <<place, outlook, changes>>

Changes ==
  /\ changes < MaxChanges
  /\ changes' = changes + 1
  /\ UNCHANGED <<addsUsed, day, report, plan>>

\* A player gets hurt and goes to IL, or the manager drops one.
PlayerLeaves(p, to) ==
  /\ Changes
  /\ place[p] \notin {"FA", "IL"}
  /\ to = "FA" \/ emptySlots(place, "IL") > 0
  /\ place' = [place EXCEPT ![p] = to]
  /\ UNCHANGED outlook

OutlookChanges(next) ==
  /\ Changes
  /\ outlook' = next
  /\ UNCHANGED place

Next ==
  \/ BuildReport \/ Brief \/ Regenerate \/ Follow \/ NextDay
  \/ \E p \in Players, slot \in Positions : FillOpenSlot(p, slot)
  \/ \E p \in Players, to \in {"FA", "IL"} : PlayerLeaves(p, to)
  \/ \E next \in DOMAIN Outlooks : OutlookChanges(next)

\* A manager who looks at the plan every day and does what it says is to be done now, a
\* lineup that is kept, and days on which nobody is hurt.
Fairness ==
  /\ WF_vars(BuildReport) /\ WF_vars(NextDay)
  /\ SF_vars(BriefQuietly)
  /\ SF_vars(FollowAct)
  /\ SF_vars(\E p \in Players, slot \in Positions : FillOpenSlot(p, slot))

Spec == Init /\ [][Next]_vars /\ Fairness

-----------------------------------------------------------------------------
(* Properties.                                                             *)

\* The variables have their types, and no position holds more players than its slots.
TypeOK ==
  /\ place \in [Players -> Positions \cup {"FA"}]
  /\ \A slot \in Positions : Cardinality({p \in Players : place[p] = slot}) <= Slots[slot]
  /\ addsUsed \in 0..weeklyAddLimit
  /\ day \in 0..6 /\ outlook \in DOMAIN Outlooks /\ changes \in 0..MaxChanges
  /\ report # None => report.agents \subseteq Players /\ report.outlook \in DOMAIN Outlooks
  /\ plan # None => /\ plan.add \in Players /\ plan.drop \in Players \cup {None}
                    /\ plan.confidence \in {"act", "review", "hold"}

\* Until something else changes, Yahoo can carry out the transaction of the plan, unless
\* it drops a starter: the free agent is eligible for the open slot that was counted on.
PlanFits ==
  (plan # None /\ plan.place = place /\ plan.addsUsed = addsUsed) =>
    \/ Accepted(plan.add, plan.drop)
    \/ plan.drop # None /\ place[plan.drop] # "BN"

Cover(at, position) == {p \in Players : at[p] \notin {"FA", "IL"} /\ position \in Eligible[p]}

\* tests/phase4/manager-briefing.test.ts:1333, "does not propose dropping the only
\* scarce-position player": a plan carried out, however late and whatever was moved or
\* added since, leaves every scarce position with a player, unless a player who could
\* play there has left the roster or gone to IL since the plan was made.
ScarceKept ==
  [][\A position \in Scarce :
       (Follow /\ Cover(place, position) # {} /\ Cover(plan.place, position) \subseteq Cover(place, position))
         => Cover(place', position) # {}]_vars

\* How many players of a roster are worth as much as q.
AtLeast(at, q, weights) ==
  Cardinality({p \in Players : /\ at[p] # "FA"
                               /\ Projected(p).value[weights] >= Projected(q).value[weights]})

\* A plan carried out, however late and whatever was moved or added since, leaves the
\* roster with as many players of every value as before, and with more of some, by the
\* weights of its report (TransactionPlanner.ts, weakestDrop and minimumEdge), unless the
\* projections are others than those it was made by.
RosterImproves ==
  [][Follow /\ plan.outlook = outlook =>
       /\ \A q \in Players : AtLeast(place', q, plan.weights) >= AtLeast(place, q, plan.weights)
       /\ \E q \in Players : AtLeast(place', q, plan.weights) > AtLeast(place, q, plan.weights)]_vars

\* Adds and drops come to an end: once projections, weights and players stay as they
\* are, the plans do not take players back they dropped, however many weeks there are.
ChurnEnds == <>[][~Follow]_vars

\* Worth an add, and able to fill an open slot of the lineup.
Wanted == {p \in Agents : /\ Kind[p] = "batter"
                          /\ Projected(p).credible /\ Projected(p).volume /\ Projected(p).score > 0
                          /\ OpenFor(place, p) # {}}

\* Whom a report of today ranks before the entries of others, the rejected included, use up
\* the adds of a week.
Reached ==
  LET entries == Entries(CurrentReport, Quiet)
  IN  {e.add : e \in {f \in entries : rankIn(entries, f) < weeklyAddLimit}}

\* A slot of the lineup does not stay open while a free agent who is worth an add could
\* fill it and is among the first that the report ranks: what else the plans propose, and
\* what is to be reviewed or held, does not keep him out week after week.
SlotsFill == []<>(Wanted = {} \/ Wanted \cap Reached = {})

\* docs/strategy.md:120, "Mon-Tue: ... Reserve 2-3 adds", and the briefing's own "Reserve
\* N add(s) for late-week coin-flip categories unless an active slot is empty": what the
\* briefing says is to be done now leaves two adds on those days, unless it fills a slot
\* of the lineup.
ReserveKept ==
  [][FollowAct /\ day <= 1 /\ OpenFor(place, plan.add) = {}
       => weeklyAddLimit - addsUsed' >= 2]_vars
=============================================================================
