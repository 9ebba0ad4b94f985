----------------------------- MODULE LineupMoves -----------------------------
(***************************************************************************)
(* From a roster to the position moves that are written to Yahoo: the      *)
(* advisor's report on the day's lineup and the executor's list of moves.  *)
(* Both are pure functions of the roster and of the league's slots.        *)
(*                                                                         *)
(* A roster gives each player a position and a status: "fit" (none, or a   *)
(* soft risk such as DTD), "injured" (IL...: unavailable, and eligible for *)
(* the IL slot) or "out" (NA, O, SUSP: unavailable, not eligible for IL).  *)
(* The NA slot, which the advisor leaves alone like BN, is left out.       *)
(***************************************************************************)
EXTENDS Integers, Sequences, FiniteSets, FiniteSetsExt, SequencesExt

CONSTANTS
  Payload,   \* the players, in the order of Yahoo's answer
  Eligible,  \* the playing positions of each
  Slots      \* the league's slots: a sequence of [position, count]

Players   == {Payload[i] : i \in DOMAIN Payload}
Positions == {Slots[i].position : i \in DOMAIN Slots}
Statuses  == {"fit", "injured", "out"}
Reserve   == {"BN", "IL"}
Moves     == [player : Players, from : Positions, to : Positions]
Rosters   == [position : [Players -> Positions], status : [Players -> Statuses]]

ASSUME SlotsAssumption ==
  /\ Payload \in Seq(Players) /\ IsInjective(Payload)
  /\ Slots \in Seq([position : STRING, count : Nat])
  /\ Reserve \subseteq Positions
  /\ \A i, j \in DOMAIN Slots : Slots[i].position = Slots[j].position => i = j
  /\ Eligible \in [Players -> SUBSET (Positions \ Reserve)]

-----------------------------------------------------------------------------
(* DailyLineupAdvisor.ts                                                   *)

BatterPositions  == {"C", "1B", "2B", "3B", "SS", "OF", "Util"}
PitcherPositions == {"SP", "RP", "P"}

isActive(r, p)               == r.position[p] \notin Reserve
isHardUnavailable(r, p)      == r.status[p] # "fit"
isHealthyIlPlayer(r, p)      == r.position[p] = "IL" /\ ~isHardUnavailable(r, p)

\* Variant the checks must reject: whoever is on the bench is available.
AnyBenchPlayer(r, p) == r.position[p] = "BN"

isAvailableBenchPlayer(r, p) == r.position[p] = "BN" /\ ~isHardUnavailable(r, p)

\* Variant the checks must reject: anyone fills the bench.
BenchFitsAll(p, slot) == slot = "BN" \/ slot \in Eligible[p]

playerCanFillSlot(p, slot) ==
  CASE slot = "Util" -> Eligible[p] \cap BatterPositions # {}
    [] slot = "P"    -> Eligible[p] \cap PitcherPositions # {}
    [] OTHER         -> slot \in Eligible[p]

usedSlots(r, slot) == Cardinality({p \in Players : r.position[p] = slot})
slotCount(slot)    == Slots[SelectInSeq(Slots, LAMBDA s : s.position = slot)].count
openSlots(r, slot) == Max({0, slotCount(slot) - usedSlots(r, slot)})

\* The first n elements, or all of them if they are fewer.
Take(s, n) == SubSeq(s, 1, Min({n, Len(s)}))

\* The lists of players by a key that tells them apart, the least first: the i-th of
\* some players has i - 1 of them before him.
SortedBy(key) ==
  [players \in SUBSET Players |->
     [i \in 1 .. Cardinality(players) |->
        CHOOSE p \in players : Cardinality({q \in players : key[q] < key[p]}) = i - 1]]

\* Filters keep the order of the payload.
Place   == [p \in Players |-> CHOOSE i \in DOMAIN Payload : Payload[i] = p]
InOrder == SortedBy(Place)

Fillers(r, slot)     == {p \in Players : isAvailableBenchPlayer(r, p) /\ playerCanFillSlot(p, slot)}
healthyIlPlayers(r)  == {p \in Players : isHealthyIlPlayer(r, p)}
activeUnavailable(r) == {p \in Players : isActive(r, p) /\ isHardUnavailable(r, p)}

Move(r, p, slot)      == [player |-> p, from |-> r.position[p], to |-> slot]
MovesTo(r, ps, slot)  == [i \in DOMAIN ps |-> Move(r, ps[i], slot)]
Moved(moves)          == {moves[i].player : i \in DOMAIN moves}

FillMoves(r, slot)    == MovesTo(r, InOrder[Fillers(r, slot)], slot)

ilSlotsNeeded(r) == Max({0, Cardinality(activeUnavailable(r)) - openSlots(r, "IL")})

\* Each unavailable player in turn is paired with the first healthy player in IL
\* who can fill his slot and is not taken, while IL slots are needed.
directIlActivationMoves(r) ==
  LET Pair(moves, activePlayer) ==
        LET slot       == r.position[activePlayer]
            candidates == {p \in healthyIlPlayers(r) \ Moved(moves) : playerCanFillSlot(p, slot)}
        IN  IF Len(moves) >= ilSlotsNeeded(r) \/ candidates = {}
              THEN moves
              ELSE Append(moves, Move(r, Head(InOrder[candidates]), slot))
  IN  FoldLeft(Pair, <<>>, InOrder[activeUnavailable(r)])

\* Variant the checks must reject: they go to a slot the league does not have.
ToReserveNA(r) ==
  MovesTo(r, InOrder[healthyIlPlayers(r) \ Moved(directIlActivationMoves(r))], "NA")

\* Other healthy players in IL go to open places on the bench.
benchIlActivationMoves(r) ==
  LET direct    == directIlActivationMoves(r)
      others    == InOrder[healthyIlPlayers(r) \ Moved(direct)]
      remaining == Max({0, ilSlotsNeeded(r) - Len(direct)})
  IN  MovesTo(r, Take(others, Min({openSlots(r, "BN"), remaining})), "BN")

ilActivationMoves(r) == directIlActivationMoves(r) \o benchIlActivationMoves(r)

activeToIlMoves(r) ==
  MovesTo(r, Take(InOrder[{p \in activeUnavailable(r) : r.status[p] = "injured"}],
                  openSlots(r, "IL") + Len(ilActivationMoves(r))), "IL")

replacementOptions(r) ==
  LET out == activeToIlMoves(r)
  IN  FlattenSeq([i \in DOMAIN out |-> FillMoves(r, out[i].from)])

fillableOpenSlots(r) ==
  FlattenSeq([i \in DOMAIN Slots |->
                LET slot == Slots[i].position
                IN  IF openSlots(r, slot) > 0 THEN FillMoves(r, slot) ELSE <<>>])

-----------------------------------------------------------------------------
(* YahooLineupExecutor.ts                                                  *)

\* Variant the checks must reject: a destination may be used again.
AddAnyDestination(moves, move) ==
  IF move.player \in Moved(moves) THEN moves ELSE Append(moves, move)

\* A player moves once, and a playing position receives one player.
addMove(moves, move) ==
  IF \/ move.player \in Moved(moves)
     \/ /\ move.to \notin Reserve
        /\ \E i \in DOMAIN moves : moves[i].to = move.to
    THEN moves
    ELSE Append(moves, move)

buildMoves(r) ==
  FoldLeft(addMove, <<>>,
           ilActivationMoves(r) \o activeToIlMoves(r)
             \o replacementOptions(r) \o fillableOpenSlots(r))

-----------------------------------------------------------------------------
(* Yahoo's side.                                                           *)

\* The positions after a list of moves.
After(position, moves) ==
  [p \in Players |->
     IF p \in Moved(moves)
       THEN (CHOOSE m \in {moves[i] : i \in DOMAIN moves} : m.player = p).to
       ELSE position[p]]

MayPlay(status, p, slot) ==
  CASE slot = "BN" -> TRUE
    [] slot = "IL" -> status[p] = "injured"
    [] OTHER       -> playerCanFillSlot(p, slot)

Fits(position) ==
  \A slot \in Positions : Cardinality({p \in Players : position[p] = slot}) <= slotCount(slot)

\* Yahoo takes a change as a whole: every slot holds its players, and those who
\* change position are eligible for it.  (A player may stay in IL when healthy.)
Acceptable(position, status, new) ==
  /\ Fits(new)
  /\ \A p \in Players : new[p] # position[p] => MayPlay(status, p, new[p])
=============================================================================
