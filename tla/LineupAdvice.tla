---------------------------- MODULE LineupAdvice ----------------------------
(***************************************************************************)
(* The start/sit advice of the daily briefing.  It is computed with the    *)
(* job specification (optimizeLineup, on the roster of that moment), kept  *)
(* with it, filtered against the lineup report when the briefing is put    *)
(* together, and carried out by the manager in Yahoo's app when he reads   *)
(* it, while the writers of LineupWrites change the same roster.           *)
(*                                                                         *)
(* Batters and pitchers are treated apart and alike: the players of the    *)
(* model are of one kind, and each has a projected line.                   *)
(***************************************************************************)
EXTENDS LineupWrites

CONSTANT Score   \* lineScore of each player, under the weights of the day

ASSUME ScoreAssumption ==
  /\ Score \in [Players -> Nat \ {0}]
  /\ IsInjective(Score)

VARIABLES
  spec,      \* the roster the day's job was made for, its lineup and its advice, or None
  briefing   \* the start/sit alerts not carried out yet and those that were, or None

advice     == <<spec, briefing>>
adviceVars == <<vars, advice>>

-----------------------------------------------------------------------------
(* DecisionEngine.ts                                                       *)

\* Variant the checks must reject: whoever sits on the bench may start.
OnTheBench(r, p) == r.position[p] = "BN"

isStartableReserve(r, p) == r.position[p] = "BN" /\ ~isHardUnavailable(r, p)

\* The players whose lines the optimizer considers.
Considered(r) == {p \in Players : isActive(r, p) \/ isStartableReserve(r, p)}

Weakest(players) == CHOOSE p \in players : \A q \in players : Score[p] <= Score[q]
BestFirst        == SortedBy([p \in Players |-> -Score[p]])

\* The places of the current lineup: one for each active player, in his order.
ActiveSlots(r) ==
  LET active == InOrder[{p \in Players : isActive(r, p)}]
  IN  [i \in DOMAIN active |-> r.position[active[i]]]

\* Those with the fewest candidates first.
OrderedSlots(r) ==
  LET slots     == ActiveSlots(r)
      count     == [i \in DOMAIN slots |->
                      Cardinality({p \in Considered(r) : playerCanFillSlot(p, slots[i])})]
      before(i) == {j \in DOMAIN slots :
                      count[j] < count[i] \/ (count[j] = count[i] /\ j < i)}
  IN  [k \in DOMAIN slots |->
         slots[CHOOSE i \in DOMAIN slots : Cardinality(before(i)) = k - 1]]

Worth(players) == MapThenSumSet(LAMBDA p : Score[p], players)

\* Every way to fill all the places, in the order it comes upon them.
search(r) ==
  LET Fill(partials, slot) ==
        FlattenSeq([i \in DOMAIN partials |->
          LET fit == BestFirst[{p \in Considered(r) \ ToSet(partials[i]) :
                                  playerCanFillSlot(p, slot)}]
          IN  [k \in DOMAIN fit |-> Append(partials[i], fit[k])]])
  IN  FoldLeft(Fill, << <<>> >>, OrderedSlots(r))

\* Variant the checks must reject: each replaces the one found before.
lastScore(all) == Worth(ToSet(Last(all)))

bestScore(all) == Max({Worth(ToSet(all[i])) : i \in DOMAIN all})

\* The first of those that are worth most.
optimalAssignments(r) ==
  LET all == search(r)
  IN  all[SelectInSeq(all, LAMBDA a : Worth(ToSet(a)) = bestScore(all))]

\* Those the optimal lineup starts who are on the bench, and those it sits who play.
StartCandidates(r, shouldStart) == {p \in Considered(r) : ~isActive(r, p) /\ p \in shouldStart}
SitCandidates(r, shouldStart)   == {p \in Considered(r) : isActive(r, p) /\ p \notin shouldStart}

Free(swaps, sit) == \A i \in DOMAIN swaps : swaps[i].sit # sit

\* Variant the checks must reject: a starter may be sat more than once.
FitsAnew(r, swaps, start, sit) == playerCanFillSlot(start, r.position[sit])

\* Variant the checks must reject: the place is not looked at.
AnyPlace(r, swaps, start, sit) == Free(swaps, sit)

\* A bench player can take the place of a starter nobody was given yet.
TakesPlace(r, swaps, start, sit) ==
  /\ Free(swaps, sit)
  /\ playerCanFillSlot(start, r.position[sit])

\* Each bench player of the optimal lineup, the best first, takes the place of the weakest
\* starter he can.
recommendations(r) ==
  LET shouldStart == ToSet(optimalAssignments(r))
      Pair(swaps, start) ==
        LET sits == {p \in SitCandidates(r, shouldStart) : TakesPlace(r, swaps, start, p)}
        IN  IF sits = {} \/ Score[start] <= Score[Weakest(sits)]
              THEN swaps
              ELSE Append(swaps, [start |-> start, sit |-> Weakest(sits)])
  IN  FoldLeft(Pair, <<>>, BestFirst[StartCandidates(r, shouldStart)])

-----------------------------------------------------------------------------
(* The day of a briefing.                                                  *)

\* prepareSimJob, once a day.
BuildSpec ==
  /\ spec = None
  /\ spec' = [roster |-> Roster,
              lineup |-> optimalAssignments(Roster),
              swaps  |-> recommendations(Roster)]
  /\ UNCHANGED <<vars, briefing>>

\* buildLineupAlerts, with a lineup report of its own: on an unlocked slate, the
\* advice that touches no active player who is unavailable by now.
isProjectionMoveApplicable(swap, fullSlateUnlocked) ==
  /\ fullSlateUnlocked
  /\ {swap.start, swap.sit} \cap activeUnavailable(Roster) = {}

Brief(fullSlateUnlocked) ==
  /\ spec # None
  /\ briefing = None
  /\ briefing' = [open |-> {s \in ToSet(spec.swaps) :
                             isProjectionMoveApplicable(s, fullSlateUnlocked)},
                  done |-> {}]
  /\ UNCHANGED <<vars, spec>>

NextDay ==
  /\ spec' = None
  /\ briefing' = None
  /\ UNCHANGED vars

Swapped(old, swap) == [old EXCEPT ![swap.start] = old[swap.sit], ![swap.sit] = "BN"]

\* The manager starts a player who is still on the bench over one who still plays.
Follow(swap) ==
  /\ position[swap.start] = "BN"
  /\ isActive(Roster, swap.sit)
  /\ Acceptable(position, status, Swapped(position, swap))
  /\ position' = Swapped(position, swap)
  /\ briefing' = [open |-> briefing.open \ {swap}, done |-> briefing.done \cup {swap}]
  /\ UNCHANGED <<status, scope, writeStatus, memory, bounds, refused, spec>>

Follows == briefing # None /\ \E swap \in briefing.open : Follow(swap)

AdviceInit ==
  /\ Init
  /\ spec = None
  /\ briefing = None

AdviceNext ==
  \/ Next /\ UNCHANGED advice
  \/ BuildSpec \/ NextDay \/ Follows
  \/ \E fullSlateUnlocked \in BOOLEAN : Brief(fullSlateUnlocked)

\* Every day has its specification and, before the first game as a rule, its
\* briefing, and the manager does as it says.  BuildSpec is enabled as long as there is
\* no specification, and it alone makes one: that it is weakly fair says []<>(spec # None).
AdviceFairness ==
  /\ Fairness
  /\ []<>(spec # None)
  /\ SF_adviceVars(Brief(TRUE))
  /\ SF_adviceVars(Follows)
  /\ WF_adviceVars(NextDay)

AdviceSpec == AdviceInit /\ [][AdviceNext]_adviceVars /\ AdviceFairness

-----------------------------------------------------------------------------
(* Properties.                                                             *)

Swap == [start : Players, sit : Players]

\* The variables have their types.
AdviceTypeOK ==
  /\ TypeOK
  /\ spec # None => /\ spec.roster \in Rosters
                    /\ spec.lineup \in Seq(Players)
                    /\ ToSet(spec.swaps) \subseteq Swap
  /\ briefing # None => briefing.open \subseteq Swap /\ briefing.done \subseteq Swap

\* A lineup gives the place of each player who plays to a player who may have it.
Lineups(r) ==
  LET active == {p \in Players : isActive(r, p)}
  IN  {f \in Injection(active, Considered(r)) :
         \A p \in active : playerCanFillSlot(f[p], r.position[p])}

\* The lineup that the briefing shows as optimal (DecisionEngine.ts, optimalAssignments)
\* fills the places there are, and no way to fill them is worth more.
LineupIsBest ==
  spec # None =>
    /\ \E f \in Lineups(spec.roster) : Range(f) = ToSet(spec.lineup)
    /\ \A f \in Lineups(spec.roster) : Worth(Range(f)) <= Worth(ToSet(spec.lineup))

\* The roster is the one the advice was computed on, but for the advice followed.
OnlyFollowed ==
  /\ status = spec.roster.status
  /\ \A p \in Players :
       position[p] = IF \E s \in briefing.done : s.sit = p THEN "BN"
                     ELSE IF \E s \in briefing.done : s.start = p
                       THEN spec.roster.position[(CHOOSE s \in briefing.done : s.start = p).sit]
                       ELSE spec.roster.position[p]

\* The alerts of a briefing can be carried out together, in any order: while nothing
\* else changes the roster, each that is left can still be carried out.
TakenTogether ==
  briefing # None /\ OnlyFollowed =>
    \A s \in briefing.open :
      /\ position[s.start] = "BN"
      /\ isActive(Roster, s.sit)
      /\ Acceptable(position, status, Swapped(position, s))

FitWorth(r) == Worth(Playing(r, TRUE))

\* An alert carried out raises what the fit players of the lineup are worth, however
\* the roster has changed since the advice was computed, unless the player it starts
\* got hurt since then.
AdviceHelps ==
  [][briefing # None =>
       \A s \in briefing.open :
         Follow(s) => \/ FitWorth(Roster') > FitWorth(Roster)
                      \/ status[s.start] # "fit" /\ spec.roster.status[s.start] = "fit"]_adviceVars

\* The advice and the cron's writes do not chase each other: once the manager makes no
\* move of his own and nobody's health changes, the roster comes to need no more writes
\* (or one that Yahoo may refuse) and no more swaps (or of unavailable players).
BothSettle ==
  <>[]/\ \/ scope = "read"
         \/ buildMoves(Roster) = <<>>
         \/ ActivatesDirectly(buildMoves(Roster))
      /\ \A s \in ToSet(recommendations(Roster)) : isHardUnavailable(Roster, s.sit)
=============================================================================
