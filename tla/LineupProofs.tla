---------------------------- MODULE LineupProofs ----------------------------
(***************************************************************************)
(* Proofs about the lineup's writers and the briefing's lineup advice, for *)
(* every team, league, eligibility and number of invocations.              *)
(*                                                                         *)
(* The executor's list and the advice are folds over lists.  What a fold   *)
(* makes is followed along its chain of partial results (MovesAreAdded,    *)
(* DirectPart, Recommended, Searched).  The parts of the executor's list   *)
(* are the kinds of move (Kinds, WhoMoves); when none activates a player   *)
(* from IL directly, every slot receives no more than it has room for      *)
(* (LegalList).  The optimal lineup is the best of the ways to fill the    *)
(* places one after the other (LineupsAreFillings, BestOfAll).             *)
(***************************************************************************)
EXTENDS LineupAdvice, FoldLemmas

-----------------------------------------------------------------------------
(* Players and lists of players.                                           *)

LEMMA FinitePlayers == IsFiniteSet(Players)
<1>1. Payload \in [1 .. Len(Payload) -> Players] /\ Len(Payload) \in Nat
  BY SlotsAssumption
<1>2. Payload \in Surjection(1 .. Len(Payload), Players)
  BY <1>1 DEF Surjection, Players
<1>3. IsFiniteSet(1 .. Len(Payload))
  BY <1>1, FS_Interval
<1> QED
  BY <1>2, <1>3, FS_Surjection

LEMMA FiniteTeams ==
  ASSUME NEW S \in SUBSET Players
  PROVE  IsFiniteSet(S) /\ Cardinality(S) \in Nat
BY FinitePlayers, FS_Subset, FS_CardinalityType

\* A list has every element of a set, once.
Lists(list, S) ==
  /\ list \in [1 .. Cardinality(S) -> S]
  /\ IsInjective(list)
  /\ \A p \in S : \E i \in 1 .. Cardinality(S) : list[i] = p

\* Each element of a set comes after those below it.
Ranks(below, S) ==
  /\ below \in [S -> SUBSET S]
  /\ \A p \in S : p \notin below[p]
  /\ \A p, q \in S : q \in below[p] => below[q] \subseteq below[p]
  /\ \A p, q \in S : p = q \/ q \in below[p] \/ p \in below[q]

\* The i-th of a list is one with i - 1 below it, if there is one.
ListedByRank(list, below, S) ==
  /\ list = [i \in 1 .. Cardinality(S) |-> list[i]]
  /\ \A i \in 1 .. Cardinality(S) : \A p \in S :
       Cardinality(below[p]) = i - 1 => list[i] \in S /\ Cardinality(below[list[i]]) = i - 1

LEMMA RankedLists ==
  ASSUME NEW S, IsFiniteSet(S), NEW below, Ranks(below, S),
         NEW list, ListedByRank(list, below, S)
  PROVE  Lists(list, S)
<1> USE DEF Ranks, ListedByRank
<1> DEFINE n    == Cardinality(S)
           rank == [p \in S |-> Cardinality(below[p]) + 1]
<1>1. n \in Nat
  BY FS_CardinalityType
<1>2. ASSUME NEW p \in S
      PROVE  IsFiniteSet(below[p]) /\ Cardinality(below[p]) \in Nat /\ Cardinality(below[p]) < n
  <2>1. below[p] \in SUBSET S /\ p \notin below[p]
    OBVIOUS
  <2>2. IsFiniteSet(below[p]) /\ Cardinality(below[p]) \in Nat /\ Cardinality(below[p]) <= n
    BY <2>1, FS_Subset, FS_CardinalityType
  <2>3. Cardinality(below[p]) # n
    BY <2>1, FS_Subset
  <2> QED
    BY <1>1, <2>2, <2>3
<1>3. rank \in [S -> 1 .. n]
  BY <1>1, <1>2
<1>4. ASSUME NEW p \in S, NEW q \in S, p \in below[q]
      PROVE  rank[p] < rank[q]
  <2> DEFINE more == below[p] \cup {p}
  <2>1. more \in SUBSET below[q] /\ p \notin below[p]
    BY <1>4
  <2>2. Cardinality(more) = Cardinality(below[p]) + 1
    BY <1>2, <2>1, FS_AddElement
  <2> HIDE DEF more
  <2>3. Cardinality(more) <= Cardinality(below[q])
    BY <1>2, <2>1, FS_Subset
  <2> QED
    BY <1>2, <2>2, <2>3
<1>5. rank \in Injection(S, 1 .. n)
  <2>1. ASSUME NEW p \in S, NEW q \in S, rank[p] = rank[q] PROVE p = q
    <3>1. rank[p] \in Int
      BY <1>3
    <3> HIDE DEF rank
    <3>2. p \notin below[q] /\ q \notin below[p]
      BY <1>4, <2>1, <3>1
    <3> QED
      BY <3>2
  <2> HIDE DEF rank
  <2> QED
    BY <1>3, <2>1 DEF Injection, IsInjective
<1>6. rank \in Surjection(S, 1 .. n)
  <2>1. IsFiniteSet(1 .. n) /\ Cardinality(1 .. n) = n
    BY <1>1, FS_Interval
  <2> HIDE DEF rank
  <2> QED
    BY <1>5, <2>1, FS_Injection
<1>7. ASSUME NEW i \in 1 .. n
      PROVE  list[i] \in S /\ rank[list[i]] = i
  <2>1. PICK p \in S : rank[p] = i
    BY <1>6 DEF Surjection
  <2>2. Cardinality(below[p]) = i - 1
    BY <1>2, <2>1
  <2>3. list[i] \in S /\ Cardinality(below[list[i]]) = i - 1
    BY <2>2
  <2> QED
    BY <2>3
<1>8. ASSUME NEW p \in S
      PROVE  rank[p] \in 1 .. n /\ list[rank[p]] = p
  <2> HIDE DEF rank
  <2>1. rank[p] \in 1 .. n
    BY <1>3
  <2>2. list[rank[p]] \in S /\ rank[list[rank[p]]] = rank[p]
    BY <1>7, <2>1
  <2> QED
    BY <1>5, <2>1, <2>2 DEF Injection, IsInjective
<1>9. DOMAIN list = 1 .. n /\ list \in [1 .. n -> S]
  BY <1>7
<1> HIDE DEF rank
<1>10. IsInjective(list)
  BY <1>7, <1>9 DEF IsInjective
<1>11. \A p \in S : \E i \in 1 .. n : list[i] = p
  BY <1>8
<1> QED
  BY <1>9, <1>10, <1>11 DEF Lists

LEMMA SortedLists ==
  ASSUME NEW key \in [Players -> Int], IsInjective(key), NEW S \in SUBSET Players
  PROVE  Lists(SortedBy(key)[S], S)
<1> DEFINE below == [p \in S |-> {q \in S : key[q] < key[p]}]
           list  == SortedBy(key)[S]
<1>1. IsFiniteSet(S)
  BY FiniteTeams
<1>2. \A p \in S : key[p] \in Int
  OBVIOUS
<1>3. /\ \A p \in S : p \notin below[p]
      /\ \A p, q \in S : q \in below[p] => below[q] \subseteq below[p]
  BY <1>2
<1>4. \A p, q \in S : p = q \/ q \in below[p] \/ p \in below[q]
  BY <1>2 DEF IsInjective
<1>5. list = [i \in 1 .. Cardinality(S) |->
                CHOOSE p \in S : Cardinality({q \in S : key[q] < key[p]}) = i - 1]
  BY DEF SortedBy
<1>6. ASSUME NEW i \in 1 .. Cardinality(S), NEW p \in S, Cardinality(below[p]) = i - 1
      PROVE  list[i] \in S /\ Cardinality(below[list[i]]) = i - 1
  <2>1. Cardinality({q \in S : key[q] < key[p]}) = i - 1
    BY <1>6
  <2>2. list[i] = CHOOSE t \in S : Cardinality({q \in S : key[q] < key[t]}) = i - 1
    BY <1>5
  <2> HIDE DEF list
  <2>3. list[i] \in S /\ Cardinality({q \in S : key[q] < key[list[i]]}) = i - 1
    BY <2>1, <2>2
  <2> QED
    BY <2>3
<1>7. below \in [S -> SUBSET S] /\ list = [i \in 1 .. Cardinality(S) |-> list[i]]
  BY <1>5
<1> HIDE DEF below, list
<1>8. Ranks(below, S) /\ ListedByRank(list, below, S)
  BY <1>3, <1>4, <1>6, <1>7 DEF Ranks, ListedByRank
<1>9. Lists(list, S)
  BY <1>1, <1>8, RankedLists
<1> QED
  BY <1>9 DEF list

LEMMA InOrderLists == \A S \in SUBSET Players : Lists(InOrder[S], S)
<1>1. \A p \in Players : Place[p] \in DOMAIN Payload /\ Payload[Place[p]] = p
  BY DEF Place, Players
<1>2. DOMAIN Payload \subseteq Int /\ DOMAIN Place = Players
  BY SlotsAssumption DEF Place
<1>3. Place \in [Players -> Int]
  <2>1. \A p \in Players : Place[p] \in Int
    BY <1>1, <1>2
  <2> QED
    BY <2>1 DEF Place
<1>4. IsInjective(Place)
  BY <1>1, <1>2 DEF IsInjective
<1> QED
  BY <1>3, <1>4, SortedLists DEF InOrder

LEMMA BestFirstLists == \A S \in SUBSET Players : Lists(BestFirst[S], S)
<1> DEFINE key == [p \in Players |-> -Score[p]]
<1>1. key \in [Players -> Int] /\ IsInjective(key)
  BY ScoreAssumption DEF IsInjective
<1>2. BestFirst = SortedBy(key)
  BY DEF BestFirst
<1> HIDE DEF key
<1> QED
  BY <1>1, <1>2, SortedLists

-----------------------------------------------------------------------------
(* The executor's list.                                                    *)

\* The list is made by adding the moves one after the other.
LEMMA MovesAreAdded ==
  ASSUME NEW list \in Seq(Moves)
  PROVE  \E f \in [0 .. Len(list) -> Seq(Moves)] :
           /\ f[0] = <<>>
           /\ \A i \in 1 .. Len(list) : f[i] = addMove(f[i - 1], list[i])
           /\ FoldLeft(addMove, <<>>, list) = f[Len(list)]
<1> DEFINE n      == Len(list)
           S      == 1 .. n
           A      == Seq(Moves)
           add    == [m \in Moves |-> [l \in A |-> addMove(l, m)]]
           top(s) == CHOOSE x \in s : \A y \in s : x >= y
           Adds(g) == g = [s \in SUBSET S |-> IF s = {} THEN <<>>
                                             ELSE addMove(g[s \ {top(s)}], list[top(s)])]
           made   == CHOOSE g : Adds(g)
<1>1. n \in Nat /\ list \in [S -> Moves] /\ DOMAIN list = S
  OBVIOUS
<1>2. FoldLeft(addMove, <<>>, list) = made[S]
  BY <1>1 DEF FoldLeft, MapThenFoldSet, Max
<1>3. \A m \in Moves : \A l \in A : addMove(l, m) \in A
  BY DEF addMove
<1>4. \A s : top(s) = Greatest(s)
  BY DEF Greatest
<1>5. \A s \in SUBSET S : s # {} => top(s) \in S
  BY <1>1, GreatestExists DEF Greatest
<1>6. \E g : Adds(g)
  <2>1. \A m \in Moves : \A l \in A : add[m][l] \in A
    BY <1>3
  <2> DEFINE none == <<>>
  <2>2. none \in A
    OBVIOUS
  <2> HIDE DEF none
  <2>3. HasListFold(n, list, A, none, add)
    <3>1. list \in [1 .. n -> Moves]
      BY <1>1
    <3> HIDE DEF add, A, n
    <3> QED
      BY <1>1, <2>1, <2>2, <3>1, ListFoldExists
  <2>4. PICK g \in [SUBSET S -> A] : \A s \in SUBSET S :
          g[s] = IF s = {} THEN none ELSE add[list[Greatest(s)]][g[s \ {Greatest(s)}]]
    BY <2>3 DEF HasListFold
  <2>5. \A s \in SUBSET S : s # {} =>
          add[list[Greatest(s)]][g[s \ {Greatest(s)}]] = addMove(g[s \ {top(s)}], list[top(s)])
    <3> SUFFICES ASSUME NEW s \in SUBSET S, s # {}
                 PROVE  add[list[Greatest(s)]][g[s \ {Greatest(s)}]]
                          = addMove(g[s \ {top(s)}], list[top(s)])
      OBVIOUS
    <3>1. list[Greatest(s)] \in Moves /\ g[s \ {Greatest(s)}] \in A
      BY <1>1, <1>4, <1>5
    <3> HIDE DEF top, A
    <3> QED
      BY <1>4, <3>1
  <2> HIDE DEF add, top
  <2> USE DEF none
  <2>6. g = [s \in SUBSET S |-> IF s = {} THEN <<>>
                               ELSE addMove(g[s \ {top(s)}], list[top(s)])]
    BY <2>4, <2>5
  <2> QED
    BY <2>6
<1>7. Adds(made)
  <2> HIDE DEF Adds
  <2> QED
    BY <1>6
<1> DEFINE f == [i \in 0 .. n |-> made[1 .. i]]
<1> HIDE DEF made, add
<1>8. f[0] = <<>>
  <2>1. 1 .. 0 = {} /\ {} \in SUBSET S
    OBVIOUS
  <2>2. made[{}] = <<>>
    BY <1>7, <2>1
  <2> QED
    BY <1>1, <2>1, <2>2
<1>9. \A i \in 1 .. n : f[i] = addMove(f[i - 1], list[i])
  <2> SUFFICES ASSUME NEW i \in 1 .. n PROVE f[i] = addMove(f[i - 1], list[i])
    OBVIOUS
  <2>1. top(1 .. i) = i /\ (1 .. i) \ {i} = 1 .. i - 1
    BY <1>1, <1>4, GreatestIsLast
  <2>2. 1 .. i \in SUBSET S /\ 1 .. i # {}
    <3> HIDE DEF n
    <3>1. (\A x \in 1 .. i : x \in 1 .. n) /\ 1 \in 1 .. i
      BY <1>1
    <3> QED
      BY <3>1
  <2> HIDE DEF top
  <2>3. made[1 .. i] = addMove(made[(1 .. i) \ {top(1 .. i)}], list[top(1 .. i)])
    BY <1>7, <2>2
  <2>4. f[i] = made[1 .. i] /\ f[i - 1] = made[1 .. i - 1]
    BY <1>1
  <2> HIDE DEF f
  <2> QED
    BY <2>1, <2>3, <2>4
<1>10. \A i \in 0 .. n : f[i] \in A
  <2> DEFINE Good == {i \in 0 .. n : f[i] \in A}
  <2>1. 0 \in Good
    <3>1. 0 \in 0 .. n /\ <<>> \in A
      BY <1>1
    <3> HIDE DEF f, A, n
    <3> QED
      BY <1>8, <3>1
  <2>2. \A i \in 0 .. n - 1 : i \in Good => i + 1 \in Good
    <3> SUFFICES ASSUME NEW i \in 0 .. n - 1, f[i] \in A PROVE i + 1 \in Good
      OBVIOUS
    <3>1. i + 1 \in 1 .. n /\ (i + 1) - 1 = i /\ i + 1 \in 0 .. n
      BY <1>1
    <3>2. f[i + 1] = addMove(f[i], list[i + 1])
      BY <1>9, <3>1
    <3>3. list[i + 1] \in Moves
      BY <1>1, <3>1
    <3> HIDE DEF f, A
    <3> QED
      BY <1>3, <3>1, <3>2, <3>3
  <2> HIDE DEF Good
  <2>3. \A i \in 0 .. n : i \in Good
    BY <1>1, <2>1, <2>2, UpTo
  <2> QED
    BY <2>3 DEF Good
<1>11. f \in [0 .. n -> A] /\ f[n] = made[S]
  BY <1>1, <1>10
<1> HIDE DEF f, made
<1> QED
  BY <1>2, <1>8, <1>9, <1>11

\* No player moves twice and no playing position receives two players.
Once(moves) ==
  \A i, j \in DOMAIN moves :
    \/ moves[i].player = moves[j].player
    \/ moves[i].to \notin Reserve /\ moves[i].to = moves[j].to
    => i = j

\* The moves of a list that are certain to be added: they are for the bench or the IL,
\* or come first, and no move before them is of the same player.
Certain(list, i) ==
  /\ \A j \in 1 .. i - 1 : list[j].player # list[i].player
  /\ list[i].to \in Reserve \/ i = 1

LEMMA AppendedMove ==
  ASSUME NEW moves \in Seq(Moves), NEW move \in Moves
  PROVE  /\ Append(moves, move) \in Seq(Moves)
         /\ DOMAIN Append(moves, move) = 1 .. Len(moves) + 1
         /\ \A i \in 1 .. Len(moves) : Append(moves, move)[i] = moves[i]
         /\ Append(moves, move)[Len(moves) + 1] = move
         /\ ToSet(Append(moves, move)) = ToSet(moves) \cup {move}
<1>1. /\ Append(moves, move) \in Seq(Moves)
      /\ DOMAIN Append(moves, move) = 1 .. Len(moves) + 1
      /\ \A i \in 1 .. Len(moves) : Append(moves, move)[i] = moves[i]
      /\ Append(moves, move)[Len(moves) + 1] = move
  OBVIOUS
<1>2. Len(moves) \in Nat /\ DOMAIN moves = 1 .. Len(moves)
  OBVIOUS
<1> DEFINE n == Len(moves)
           more == Append(moves, move)
<1> HIDE DEF n, more
<1>3. \A i \in 1 .. n + 1 : i \in 1 .. n \/ i = n + 1
  BY <1>2 DEF n
<1>4. n + 1 \in 1 .. n + 1 /\ \A i \in 1 .. n : i \in 1 .. n + 1
  BY <1>2 DEF n
<1>5. ToSet(more) = ToSet(moves) \cup {move}
  BY <1>1, <1>2, <1>3, <1>4 DEF ToSet, n, more
<1> QED
  BY <1>1, <1>5 DEF more

LEMMA AddedMove ==
  ASSUME NEW moves \in Seq(Moves), NEW move \in Moves, Once(moves)
  PROVE  /\ addMove(moves, move) \in Seq(Moves)
         /\ Once(addMove(moves, move))
         /\ ToSet(moves) \subseteq ToSet(addMove(moves, move))
         /\ ToSet(addMove(moves, move)) \subseteq ToSet(moves) \cup {move}
         /\ move.player \notin Moved(moves) /\ (move.to \in Reserve \/ moves = <<>>)
              => move \in ToSet(addMove(moves, move))
<1>1. CASE \/ move.player \in Moved(moves)
           \/ /\ move.to \notin Reserve
              /\ \E i \in DOMAIN moves : moves[i].to = move.to
  <2>1. addMove(moves, move) = moves
    BY <1>1 DEF addMove
  <2>2. moves = <<>> => DOMAIN moves = {}
    OBVIOUS
  <2> QED
    BY <1>1, <2>1, <2>2
<1>2. CASE /\ move.player \notin Moved(moves)
           /\ \/ move.to \in Reserve
              \/ ~ \E i \in DOMAIN moves : moves[i].to = move.to
  <2> DEFINE more == Append(moves, move)
             n    == Len(moves)
  <2>1. addMove(moves, move) = more
    BY <1>2 DEF addMove
  <2>2. n \in Nat /\ DOMAIN moves = 1 .. n
    OBVIOUS
  <2>3. /\ DOMAIN more = 1 .. n + 1
        /\ \A i \in 1 .. n : more[i] = moves[i]
        /\ more[n + 1] = move
        /\ ToSet(more) = ToSet(moves) \cup {move}
    BY AppendedMove
  <2>4. \A i \in 1 .. n : /\ moves[i].player # move.player
                          /\ ~ (moves[i].to \notin Reserve /\ moves[i].to = move.to)
    BY <1>2, <2>2 DEF Moved
  <2> HIDE DEF n, more
  <2>5. \A i \in 1 .. n + 1 : i \in 1 .. n \/ i = n + 1
    BY <2>2
  <2>6. Once(more)
    BY <2>2, <2>3, <2>4, <2>5 DEF Once
  <2>7. more \in Seq(Moves)
    BY AppendedMove DEF more
  <2> QED
    BY <2>1, <2>3, <2>6, <2>7
<1> QED
  BY <1>1, <1>2

LEMMA BuiltFrom ==
  ASSUME NEW list \in Seq(Moves)
  PROVE  LET built == FoldLeft(addMove, <<>>, list)
         IN  /\ built \in Seq(Moves)
             /\ Once(built)
             /\ ToSet(built) \subseteq ToSet(list)
             /\ \A i \in 1 .. Len(list) : Certain(list, i) => list[i] \in ToSet(built)
<1> DEFINE n == Len(list)
<1>1. n \in Nat /\ DOMAIN list = 1 .. n /\ \A i \in 1 .. n : list[i] \in Moves
  OBVIOUS
<1>2. PICK f \in [0 .. n -> Seq(Moves)] :
        /\ f[0] = <<>>
        /\ \A i \in 1 .. n : f[i] = addMove(f[i - 1], list[i])
        /\ FoldLeft(addMove, <<>>, list) = f[n]
  BY MovesAreAdded
<1> HIDE DEF n
<1>3. \A i \in 0 .. n - 1 : i + 1 \in 1 .. n /\ (i + 1) - 1 = i /\ i \in 0 .. n
  BY <1>1
<1>4. \A i \in 0 .. n - 1 : f[i + 1] = addMove(f[i], list[i + 1]) /\ list[i + 1] \in Moves
  BY <1>1, <1>2, <1>3
<1> DEFINE Part(i) == /\ Once(f[i])
                      /\ ToSet(f[i]) \subseteq {list[j] : j \in 1 .. i}
                      /\ \A j \in 1 .. i : Certain(list, j) => list[j] \in ToSet(f[i])
           Good    == {i \in 0 .. n : Part(i)}
<1>5. 0 \in Good
  <2>1. DOMAIN <<>> = {} /\ 1 .. 0 = {} /\ 0 \in 0 .. n
    BY <1>1
  <2> QED
    BY <1>2, <2>1 DEF Once, ToSet
<1>6. ASSUME NEW i \in 0 .. n - 1, i \in Good
      PROVE  i + 1 \in Good
  <2> DEFINE move == list[i + 1]
             next == f[i + 1]
  <2>1. f[i] \in Seq(Moves) /\ move \in Moves /\ Once(f[i]) /\ next = addMove(f[i], move)
    BY <1>2, <1>3, <1>4, <1>6
  <2> HIDE DEF move, next
  <2>2. /\ Once(next)
        /\ ToSet(f[i]) \subseteq ToSet(next)
        /\ ToSet(next) \subseteq ToSet(f[i]) \cup {move}
        /\ move.player \notin Moved(f[i]) /\ (move.to \in Reserve \/ f[i] = <<>>) => move \in ToSet(next)
    BY <2>1, AddedMove
  <2>3. \A j \in 1 .. i + 1 : j \in 1 .. i \/ j = i + 1
    OBVIOUS
  <2>4. i + 1 \in 1 .. i + 1 /\ \A j \in 1 .. i : j \in 1 .. i + 1
    OBVIOUS
  <2>5. ToSet(next) \subseteq {list[j] : j \in 1 .. i + 1}
    BY <1>6, <2>2, <2>4 DEF move
  <2>6. Certain(list, i + 1) => move \in ToSet(next)
    <3> SUFFICES ASSUME Certain(list, i + 1) PROVE move \in ToSet(next)
      OBVIOUS
    <3>1. \A j \in 1 .. i : list[j].player # move.player
      BY DEF Certain, move
    <3>2. move.player \notin Moved(f[i])
      BY <1>6, <3>1 DEF Moved, ToSet
    <3>3. move.to \in Reserve \/ f[i] = <<>>
      BY <1>2 DEF Certain, move
    <3> QED
      BY <2>2, <3>2, <3>3
  <2>7. \A j \in 1 .. i + 1 : Certain(list, j) => list[j] \in ToSet(next)
    <3> SUFFICES ASSUME NEW j \in 1 .. i + 1, Certain(list, j) PROVE list[j] \in ToSet(next)
      OBVIOUS
    <3>1. CASE j \in 1 .. i
      BY <1>6, <2>2, <3>1
    <3>2. CASE j = i + 1
      BY <2>6, <3>2 DEF move
    <3> QED
      BY <2>3, <3>1, <3>2
  <2> QED
    BY <1>3, <2>2, <2>5, <2>7 DEF next
<1> HIDE DEF Good
<1>7. n \in Good
  <2>1. \A i \in 0 .. n - 1 : i \in Good => i + 1 \in Good
    BY <1>6
  <2>2. \A i \in 0 .. n : i \in Good
    BY <1>1, <1>5, <2>1, UpTo
  <2> QED
    BY <1>1, <2>2
<1>8. Part(n)
  BY <1>7 DEF Good
<1>9. ToSet(list) = {list[j] : j \in 1 .. n}
  BY <1>1 DEF ToSet
<1>10. f[n] \in Seq(Moves)
  BY <1>1, <1>2
<1> QED
  BY <1>2, <1>8, <1>9, <1>10 DEF n

-----------------------------------------------------------------------------
(* Slots.                                                                  *)

LEMMA Largest ==
  ASSUME NEW n \in Int
  PROVE  Max({0, n}) = IF n >= 0 THEN n ELSE 0
<1> DEFINE m == IF n >= 0 THEN n ELSE 0
<1>1. m \in {0, n} /\ \A y \in {0, n} : m >= y
  OBVIOUS
<1>2. \A x \in {0, n} : (\A y \in {0, n} : x >= y) => x = m
  OBVIOUS
<1> QED
  BY <1>1, <1>2 DEF Max

LEMMA Smallest ==
  ASSUME NEW k \in Int, NEW n \in Int
  PROVE  Min({k, n}) = IF k <= n THEN k ELSE n
<1> DEFINE m == IF k <= n THEN k ELSE n
<1>1. m \in {k, n} /\ \A y \in {k, n} : m <= y
  OBVIOUS
<1>2. \A x \in {k, n} : (\A y \in {k, n} : x <= y) => x = m
  OBVIOUS
<1> QED
  BY <1>1, <1>2 DEF Min

LEMMA SlotCountType ==
  ASSUME NEW slot \in Positions
  PROVE  slotCount(slot) \in Nat
<1> DEFINE I == {i \in 1 .. Len(Slots) : Slots[i].position = slot}
<1>1. /\ Len(Slots) \in Nat
      /\ DOMAIN Slots = 1 .. Len(Slots)
      /\ \A i \in 1 .. Len(Slots) : Slots[i].count \in Nat
  <2> DEFINE Rec == [position : STRING, count : Nat]
  <2>1. \A s \in Rec : s.count \in Nat
    OBVIOUS
  <2>2. Slots \in Seq(Rec)
    BY SlotsAssumption
  <2> HIDE DEF Rec
  <2> QED
    BY <2>1, <2>2
<1>2. I \in SUBSET Nat /\ I # {}
  BY <1>1 DEF Positions
<1>3. Min(I) \in I
  <2> HIDE DEF I
  <2>1. PICK x \in I : \A y \in I : x <= y
    BY <1>2, LeastNatural
  <2> QED
    BY <2>1 DEF Min
<1>4. slotCount(slot) = Slots[Min(I)].count
  BY <1>2 DEF slotCount, SelectInSeq
<1> QED
  BY <1>1, <1>3, <1>4

LEMMA OpenSlots ==
  ASSUME NEW r \in Rosters, NEW slot \in Positions
  PROVE  /\ usedSlots(r, slot) \in Nat
         /\ openSlots(r, slot) \in Nat
         /\ openSlots(r, slot) > 0 \/ usedSlots(r, slot) <= slotCount(slot)
              => usedSlots(r, slot) + openSlots(r, slot) = slotCount(slot)
<1>1. usedSlots(r, slot) \in Nat
  BY FiniteTeams DEF usedSlots
<1>2. slotCount(slot) \in Nat
  BY SlotCountType
<1>3. slotCount(slot) - usedSlots(r, slot) \in Int
  BY <1>1, <1>2
<1>4. openSlots(r, slot) = IF slotCount(slot) - usedSlots(r, slot) >= 0
                             THEN slotCount(slot) - usedSlots(r, slot) ELSE 0
  BY <1>3, Largest DEF openSlots
<1> QED
  BY <1>1, <1>2, <1>4

-----------------------------------------------------------------------------
(* The advisor's lists.                                                    *)

PlayerList(list, S) == list \in Seq(S) /\ IsInjective(list)

LEMMA SortedList ==
  ASSUME NEW S \in SUBSET Players, NEW list, Lists(list, S)
  PROVE  PlayerList(list, S) /\ Len(list) = Cardinality(S)
<1>1. Cardinality(S) \in Nat
  BY FiniteTeams
<1>2. list \in [1 .. Cardinality(S) -> S]
  BY DEF Lists
<1>3. list \in Seq(S) /\ Len(list) = Cardinality(S)
  BY <1>1, <1>2
<1> QED
  BY <1>3 DEF Lists, PlayerList

LEMMA OrderedPlayers ==
  ASSUME NEW S \in SUBSET Players
  PROVE  /\ PlayerList(InOrder[S], S)
         /\ S # {} => Head(InOrder[S]) \in S
<1>1. PlayerList(InOrder[S], S) /\ Len(InOrder[S]) = Cardinality(S)
  BY InOrderLists, SortedList
<1>2. S # {} => Cardinality(S) # 0 /\ Cardinality(S) \in Nat
  BY FiniteTeams, FS_EmptySet
<1>3. ASSUME S # {} PROVE Head(InOrder[S]) \in S
  <2>1. InOrder[S] \in Seq(S)
    BY <1>1 DEF PlayerList
  <2>2. Len(InOrder[S]) # 0
    BY <1>1, <1>2, <1>3
  <2> QED
    BY <2>1, <2>2
<1> QED
  BY <1>1, <1>3

LEMMA TakenPlayers ==
  ASSUME NEW S, NEW list, PlayerList(list, S), NEW n \in Nat
  PROVE  PlayerList(Take(list, n), S) /\ Len(Take(list, n)) <= n
<1>1. list \in Seq(S) /\ Len(list) \in Nat /\ DOMAIN list = 1 .. Len(list)
  BY DEF PlayerList
<1> DEFINE k == Min({n, Len(list)})
<1>2. k \in Nat /\ k <= n /\ k <= Len(list)
  BY <1>1, Smallest
<1>3. Take(list, n) = SubSeq(list, 1, k)
  BY DEF Take
<1> HIDE DEF k
<1>4. /\ SubSeq(list, 1, k) \in Seq(S)
      /\ Len(SubSeq(list, 1, k)) = k
      /\ DOMAIN SubSeq(list, 1, k) = 1 .. k
      /\ \A i \in 1 .. k : SubSeq(list, 1, k)[i] = list[i]
  BY <1>1, <1>2
<1>5. \A i \in 1 .. k : i \in DOMAIN list
  BY <1>1, <1>2
<1>6. IsInjective(SubSeq(list, 1, k))
  BY <1>4, <1>5 DEF PlayerList, IsInjective
<1> QED
  BY <1>2, <1>3, <1>4, <1>6 DEF PlayerList

Distinct(moves) == \A i, j \in DOMAIN moves : moves[i].player = moves[j].player => i = j

\* Moves of different players of a set, each from where he is, to a slot.
SlotMoves(r, moves, S, slot) ==
  /\ moves \in Seq(Moves)
  /\ Distinct(moves)
  /\ \A i \in DOMAIN moves : /\ moves[i].player \in S
                             /\ moves[i].from = r.position[moves[i].player]
                             /\ moves[i].to = slot

LEMMA MovedPlayers ==
  ASSUME NEW r \in Rosters, NEW S \in SUBSET Players, NEW list, PlayerList(list, S),
         NEW slot \in Positions
  PROVE  SlotMoves(r, MovesTo(r, list, slot), S, slot) /\ Len(MovesTo(r, list, slot)) = Len(list)
<1> DEFINE moves == MovesTo(r, list, slot)
<1>1. list \in Seq(S) /\ Len(list) \in Nat /\ DOMAIN list = 1 .. Len(list)
  BY DEF PlayerList
<1>2. moves = [i \in 1 .. Len(list) |-> Move(r, list[i], slot)]
  BY <1>1 DEF MovesTo
<1>3. \A p \in Players : /\ Move(r, p, slot) \in Moves
                         /\ Move(r, p, slot).player = p
                         /\ Move(r, p, slot).from = r.position[p]
                         /\ Move(r, p, slot).to = slot
  BY DEF Move, Moves, Rosters
<1>4. \A i \in 1 .. Len(list) : list[i] \in S /\ list[i] \in Players
  BY <1>1
<1> HIDE DEF moves
<1>5. moves \in [1 .. Len(list) -> Moves]
  BY <1>2, <1>3, <1>4
<1>6. moves \in Seq(Moves) /\ Len(moves) = Len(list) /\ DOMAIN moves = 1 .. Len(list)
  BY <1>1, <1>5
<1>7. \A i \in 1 .. Len(list) : /\ moves[i].player = list[i]
                                /\ moves[i].from = r.position[list[i]]
                                /\ moves[i].to = slot
  BY <1>2, <1>3, <1>4
<1>8. Distinct(moves)
  BY <1>1, <1>6, <1>7 DEF PlayerList, IsInjective, Distinct
<1>9. SlotMoves(r, moves, S, slot)
  BY <1>4, <1>6, <1>7, <1>8 DEF SlotMoves
<1> QED
  BY <1>6, <1>9 DEF moves

LEMMA FillersPlay ==
  ASSUME NEW p \in Players, NEW slot, playerCanFillSlot(p, slot)
  PROVE  slot \notin Reserve
<1> SUFFICES ASSUME slot \in Reserve PROVE FALSE
  OBVIOUS
<1>1. slot # "Util" /\ slot # "P"
  BY DEF Reserve
<1>2. slot \in Eligible[p]
  BY <1>1 DEF playerCanFillSlot
<1> QED
  BY <1>2, SlotsAssumption

\* What is in two lists that are put one after the other.
LEMMA Joined ==
  ASSUME NEW E, NEW s \in Seq(E), NEW t \in Seq(E)
  PROVE  ToSet(s \o t) = ToSet(s) \cup ToSet(t)
<1> DEFINE k == Len(s)
           l == Len(t)
           u == s \o t
<1>1. /\ k \in Nat /\ l \in Nat /\ DOMAIN s = 1 .. k /\ DOMAIN t = 1 .. l /\ DOMAIN u = 1 .. k + l
      /\ \A i \in 1 .. k : u[i] = s[i]
      /\ \A i \in 1 .. l : u[k + i] = t[i]
  OBVIOUS
<1> HIDE DEF k, l, u
<1>2. \A i \in 1 .. k + l : i \in 1 .. k \/ (i - k \in 1 .. l /\ k + (i - k) = i)
  BY <1>1
<1>3. (\A i \in 1 .. k : i \in 1 .. k + l) /\ (\A i \in 1 .. l : k + i \in 1 .. k + l)
  BY <1>1
<1>4. ToSet(u) \subseteq ToSet(s) \cup ToSet(t)
  <2> SUFFICES ASSUME NEW i \in 1 .. k + l PROVE u[i] \in ToSet(s) \cup ToSet(t)
    BY <1>1 DEF ToSet
  <2>1. CASE i \in 1 .. k
    BY <1>1, <2>1 DEF ToSet
  <2>2. CASE i - k \in 1 .. l /\ k + (i - k) = i
    <3>1. u[k + (i - k)] = t[i - k]
      BY <1>1, <2>2
    <3> QED
      BY <1>1, <2>2, <3>1 DEF ToSet
  <2> QED
    BY <1>2, <2>1, <2>2
<1>5. ToSet(s) \subseteq ToSet(u)
  BY <1>1, <1>3 DEF ToSet
<1>6. ToSet(t) \subseteq ToSet(u)
  <2> SUFFICES ASSUME NEW i \in 1 .. l PROVE t[i] \in ToSet(u)
    BY <1>1 DEF ToSet
  <2>1. k + i \in DOMAIN u /\ u[k + i] = t[i]
    BY <1>1, <1>3
  <2> QED
    BY <2>1 DEF ToSet
<1> QED
  BY <1>4, <1>5, <1>6 DEF u

LEMMA InSet ==
  ASSUME NEW E, NEW s \in Seq(E)
  PROVE  ToSet(s) \subseteq E
BY DEF ToSet

\* A list of lists, put one after the other.
LEMMA Flattened ==
  ASSUME NEW n \in Nat, NEW E, NEW seqs \in [1 .. n -> Seq(E)]
  PROVE  /\ FlattenSeq(seqs) \in Seq(E)
         /\ ToSet(FlattenSeq(seqs)) = {x \in E : \E i \in 1 .. n : x \in ToSet(seqs[i])}
<1>1. Len(seqs) = n /\ (n = 0 => seqs = <<>>) /\ \A i \in 1 .. n : seqs[i] \in Seq(E)
  OBVIOUS
<1>2. CASE n = 0
  <2>1. FlattenSeq(seqs) = <<>> /\ 1 .. n = {}
    BY <1>1, <1>2 DEF FlattenSeq
  <2> QED
    BY <2>1 DEF ToSet
<1>3. CASE n # 0
  <2> DEFINE A         == Seq(E)
             From(i)   == {x \in E : \E j \in 1 .. i : x \in ToSet(seqs[j])}
             append    == [t \in A |-> [s \in A |-> s \o t]]
             Joins(h)  == h = [i \in 1 .. n |-> IF i = 1 THEN seqs[i] ELSE h[i - 1] \o seqs[i]]
             joined    == CHOOSE h : Joins(h)
             none      == <<>>
  <2>1. FlattenSeq(seqs) = joined[n]
    BY <1>1, <1>3 DEF FlattenSeq
  <2>2. \A t \in A : \A s \in A : append[t][s] = s \o t /\ append[t][s] \in A
    OBVIOUS
  <2>3. none \in A /\ \A t \in A : none \o t = t
    OBVIOUS
  <2> HIDE DEF none, append, joined
  <2>4. HasListFold(n, seqs, A, none, append)
    <3>1. none \in A /\ seqs \in [1 .. n -> A]
      BY <2>3
    <3>2. \A t \in A : \A s \in A : append[t][s] \in A
      BY <2>2
    <3> HIDE DEF A
    <3> QED
      BY <3>1, <3>2, ListFoldExists
  <2>5. PICK g \in [SUBSET (1 .. n) -> A] : \A s \in SUBSET (1 .. n) :
          g[s] = IF s = {} THEN none ELSE append[seqs[Greatest(s)]][g[s \ {Greatest(s)}]]
    BY <2>4 DEF HasListFold
  <2>6. \A i \in 1 .. n : g[1 .. i] = IF i = 1 THEN seqs[i] ELSE g[1 .. i - 1] \o seqs[i]
    <3> SUFFICES ASSUME NEW i \in 1 .. n
                 PROVE  g[1 .. i] = IF i = 1 THEN seqs[i] ELSE g[1 .. i - 1] \o seqs[i]
      OBVIOUS
    <3>1. Greatest(1 .. i) = i /\ (1 .. i) \ {i} = 1 .. i - 1
      BY GreatestIsLast
    <3>2. 1 .. i \in SUBSET (1 .. n) /\ 1 .. i # {} /\ 1 .. i - 1 \in SUBSET (1 .. n)
      <4>1. \A x \in 1 .. i : x \in 1 .. n
        OBVIOUS
      <4>2. \A x \in 1 .. i - 1 : x \in 1 .. n
        OBVIOUS
      <4>3. 1 \in 1 .. i
        OBVIOUS
      <4> QED
        BY <4>1, <4>2, <4>3
    <3>3. g[1 .. i] = append[seqs[i]][g[1 .. i - 1]]
      BY <2>5, <3>1, <3>2
    <3>4. g[1 .. i - 1] \in A /\ seqs[i] \in A
      BY <3>2
    <3>5. g[1 .. i] = g[1 .. i - 1] \o seqs[i]
      BY <2>2, <3>3, <3>4
    <3>6. i = 1 => g[1 .. i - 1] = none
      <4>1. 1 .. 1 - 1 = {} /\ {} \in SUBSET (1 .. n)
        OBVIOUS
      <4>2. g[{}] = none
        BY <2>5, <4>1
      <4> QED
        BY <4>1, <4>2
    <3> QED
      BY <2>3, <3>4, <3>5, <3>6
  <2>7. \E h : Joins(h)
    <3> DEFINE h == [i \in 1 .. n |-> g[1 .. i]]
    <3>1. \A i \in 1 .. n : i # 1 => i - 1 \in 1 .. n
      OBVIOUS
    <3>2. h = [i \in 1 .. n |-> IF i = 1 THEN seqs[i] ELSE h[i - 1] \o seqs[i]]
      BY <2>6, <3>1
    <3> QED
      BY <3>2
  <2>8. Joins(joined)
    <3> HIDE DEF Joins
    <3> QED
      BY <2>7 DEF joined
  <2> DEFINE Good == {i \in 0 .. n : i = 0 \/ (joined[i] \in A /\ ToSet(joined[i]) = From(i))}
  <2>9. 0 \in Good
    OBVIOUS
  <2>10. \A i \in 0 .. n - 1 : i \in Good => i + 1 \in Good
    <3> SUFFICES ASSUME NEW i \in 0 .. n - 1, i \in Good PROVE i + 1 \in Good
      OBVIOUS
    <3>1. i + 1 \in 1 .. n /\ i + 1 \in 0 .. n /\ (i + 1) - 1 = i /\ (i + 1 = 1 <=> i = 0)
      OBVIOUS
    <3>2. joined[i + 1] = IF i = 0 THEN seqs[i + 1] ELSE joined[i] \o seqs[i + 1]
      BY <2>8, <3>1
    <3>3. seqs[i + 1] \in A /\ ToSet(seqs[i + 1]) \subseteq E
      BY <3>1, InSet
    <3>4. \A s, t \in A : s \o t \in A /\ ToSet(s \o t) = ToSet(s) \cup ToSet(t)
      BY Joined
    <3>5. From(i + 1) = From(i) \cup ToSet(seqs[i + 1])
      <4>1. \A j : j \in 1 .. i + 1 <=> j \in 1 .. i \/ j = i + 1
        OBVIOUS
      <4> QED
        BY <3>3, <4>1
    <3>6. i = 0 => From(i) = {}
      <4>1. 1 .. 0 = {}
        OBVIOUS
      <4> QED
        BY <4>1
    <3> HIDE DEF A, From
    <3>7. i = 0 \/ (joined[i] \in A /\ ToSet(joined[i]) = From(i))
      OBVIOUS
    <3>8. joined[i + 1] \in A /\ ToSet(joined[i + 1]) = From(i + 1)
      BY <3>2, <3>3, <3>4, <3>5, <3>6, <3>7
    <3> QED
      BY <3>1, <3>8
  <2> HIDE DEF Good
  <2>11. \A i \in 0 .. n : i \in Good
    BY <2>9, <2>10, UpTo
  <2>12. n \in 0 .. n /\ n \in Good
    BY <2>11
  <2> HIDE DEF From
  <2>13. joined[n] \in Seq(E) /\ ToSet(joined[n]) = From(n)
    BY <1>3, <2>12 DEF Good
  <2> QED
    BY <2>1, <2>13 DEF From
<1> QED
  BY <1>2, <1>3

\* A fit player comes off the IL into a playing position.
Activates(r) == {m \in Moves : /\ m.player \in healthyIlPlayers(r)
                               /\ m.from = r.position[m.player]
                               /\ m.to \notin Reserve
                               /\ playerCanFillSlot(m.player, m.to)}

LEMMA DirectPart ==
  ASSUME NEW r \in Rosters
  PROVE  directIlActivationMoves(r) \in Seq(Activates(r)) /\ Distinct(directIlActivationMoves(r))
<1> DEFINE E == Activates(r)
           A == {moves \in Seq(E) : Distinct(moves)}
           Candidates(moves, p) ==
             {q \in healthyIlPlayers(r) \ Moved(moves) : playerCanFillSlot(q, r.position[p])}
           Pair(moves, p) ==
             IF Len(moves) >= ilSlotsNeeded(r) \/ Candidates(moves, p) = {}
               THEN moves
               ELSE Append(moves, Move(r, Head(InOrder[Candidates(moves, p)]), r.position[p]))
           X      == activeUnavailable(r)
           list   == InOrder[X]
           n      == Len(list)
           S      == 1 .. n
           pair   == [p \in X |-> [moves \in A |-> Pair(moves, p)]]
           top(s) == CHOOSE x \in s : \A y \in s : x >= y
           Folds(g) == g = [s \in SUBSET S |-> IF s = {} THEN <<>>
                                              ELSE Pair(g[s \ {top(s)}], list[top(s)])]
           made   == CHOOSE g : Folds(g)
           none   == <<>>
<1>1. list \in Seq(X) /\ n \in Nat /\ list \in [S -> X] /\ DOMAIN list = S
  <2>1. PlayerList(list, X)
    BY OrderedPlayers DEF activeUnavailable
  <2> HIDE DEF X, list
  <2> QED
    BY <2>1 DEF PlayerList
<1>2. directIlActivationMoves(r) = made[S]
  <2>1. directIlActivationMoves(r) = FoldLeft(Pair, <<>>, list)
    BY DEF directIlActivationMoves
  <2> HIDE DEF Pair, list
  <2> QED
    BY <1>1, <2>1 DEF FoldLeft, MapThenFoldSet, Max
<1>3. ASSUME NEW moves \in A, NEW p \in X
      PROVE  Pair(moves, p) \in A
  <2> DEFINE C == Candidates(moves, p)
             q == Head(InOrder[C])
             move == Move(r, q, r.position[p])
  <2>1. CASE Len(moves) >= ilSlotsNeeded(r) \/ C = {}
    BY <2>1
  <2>2. CASE ~ (Len(moves) >= ilSlotsNeeded(r) \/ C = {})
    <3>1. C \in SUBSET Players /\ C # {}
      BY <2>2 DEF healthyIlPlayers
    <3> HIDE DEF C
    <3>2. q \in C
      BY <3>1, OrderedPlayers
    <3>3. /\ q \in healthyIlPlayers(r) /\ q \notin Moved(moves) /\ q \in Players
          /\ playerCanFillSlot(q, r.position[p])
      BY <3>1, <3>2 DEF C
    <3>4. r.position[p] \in Positions /\ r.position[p] \notin Reserve /\ r.position[q] \in Positions
      BY <3>3 DEF activeUnavailable, isActive, Rosters
    <3> HIDE DEF q
    <3>5. move \in E /\ move.player = q
      BY <3>3, <3>4 DEF Activates, Move, Moves
    <3>6. Pair(moves, p) = Append(moves, move)
      BY <2>2 DEF q, C
    <3>7. moves \in Seq(E) /\ Distinct(moves)
      OBVIOUS
    <3>8. \A i \in DOMAIN moves : moves[i].player # q
      BY <3>3 DEF Moved
    <3> DEFINE more == Append(moves, move)
               k    == Len(moves)
    <3> HIDE DEF E, move
    <3>9. /\ more \in Seq(E) /\ k \in Nat /\ DOMAIN moves = 1 .. k
          /\ DOMAIN more = 1 .. k + 1
          /\ \A i \in 1 .. k : more[i] = moves[i]
          /\ more[k + 1] = move
      BY <3>5, <3>7
    <3> HIDE DEF more, k
    <3>10. \A i \in 1 .. k + 1 : i \in 1 .. k \/ i = k + 1
      BY <3>9
    <3>11. Distinct(more)
      BY <3>5, <3>7, <3>8, <3>9, <3>10 DEF Distinct
    <3> QED
      BY <3>6, <3>9, <3>11 DEF more
  <2> QED
    BY <2>1, <2>2
<1> HIDE DEF Pair, list, X, n
<1>4. none \in A
  <2>1. none \in Seq(E) /\ DOMAIN none = {}
    OBVIOUS
  <2> QED
    BY <2>1 DEF Distinct
<1>5. \A s \in SUBSET S : s # {} => top(s) \in S /\ top(s) = Greatest(s)
  BY <1>1, GreatestExists DEF Greatest
<1>6. HasListFold(n, list, A, none, pair)
  <2>1. list \in [1 .. n -> X]
    BY <1>1
  <2>2. \A p \in X : \A moves \in A : pair[p][moves] \in A
    BY <1>3
  <2> HIDE DEF A, pair, none
  <2> QED
    BY <1>1, <1>4, <2>1, <2>2, ListFoldExists
<1>7. PICK g \in [SUBSET S -> A] : \A s \in SUBSET S :
        g[s] = IF s = {} THEN none ELSE pair[list[Greatest(s)]][g[s \ {Greatest(s)}]]
  BY <1>6 DEF HasListFold
<1>8. \A s \in SUBSET S : s # {} =>
        pair[list[Greatest(s)]][g[s \ {Greatest(s)}]] = Pair(g[s \ {top(s)}], list[top(s)])
  <2> SUFFICES ASSUME NEW s \in SUBSET S, s # {}
               PROVE  pair[list[Greatest(s)]][g[s \ {Greatest(s)}]]
                        = Pair(g[s \ {top(s)}], list[top(s)])
    OBVIOUS
  <2>1. list[Greatest(s)] \in X /\ g[s \ {Greatest(s)}] \in A
    BY <1>1, <1>5
  <2> HIDE DEF top, A
  <2> QED
    BY <1>5, <2>1
<1>9. \E h : Folds(h)
  <2> HIDE DEF pair, top, A
  <2>1. g = [s \in SUBSET S |-> IF s = {} THEN <<>> ELSE Pair(g[s \ {top(s)}], list[top(s)])]
    BY <1>7, <1>8
  <2> QED
    BY <2>1
<1>10. Folds(made)
  <2> HIDE DEF Folds
  <2> QED
    BY <1>9
<1> HIDE DEF made
<1> DEFINE Good == {i \in 0 .. n : made[1 .. i] \in A}
<1>11. 0 \in Good
  <2>1. 1 .. 0 = {} /\ {} \in SUBSET S /\ 0 \in 0 .. n
    BY <1>1
  <2>2. made[{}] = none
    BY <1>10, <2>1
  <2> HIDE DEF A, none
  <2> QED
    BY <1>4, <2>1, <2>2
<1>12. \A i \in 0 .. n - 1 : i \in Good => i + 1 \in Good
  <2> SUFFICES ASSUME NEW i \in 0 .. n - 1, made[1 .. i] \in A PROVE i + 1 \in Good
    OBVIOUS
  <2> DEFINE next == 1 .. i + 1
  <2>1. Greatest(next) = i + 1 /\ next \ {i + 1} = 1 .. i
    <3>1. i + 1 \in Nat \ {0} /\ (i + 1) - 1 = i
      BY <1>1
    <3>2. Greatest(1 .. i + 1) = i + 1 /\ (1 .. i + 1) \ {i + 1} = 1 .. (i + 1) - 1
      BY <3>1, GreatestIsLast
    <3> QED
      BY <3>1, <3>2
  <2>2. i + 1 \in next /\ i + 1 \in S /\ i + 1 \in 0 .. n /\ \A x \in next : x \in S
    BY <1>1
  <2> HIDE DEF next, S
  <2>3. next \in SUBSET S /\ next # {}
    BY <2>2
  <2>4. made[next] = Pair(made[next \ {Greatest(next)}], list[Greatest(next)])
    <3> HIDE DEF top
    <3> QED
      BY <1>5, <1>10, <2>3
  <2>5. list[i + 1] \in X
    BY <1>1, <2>2
  <2> HIDE DEF A
  <2> QED
    BY <1>3, <2>1, <2>2, <2>4, <2>5 DEF next
<1> HIDE DEF Good
<1>13. \A i \in 0 .. n : i \in Good
  BY <1>1, <1>11, <1>12, UpTo
<1>14. made[S] \in A
  BY <1>1, <1>13 DEF Good
<1> QED
  BY <1>2, <1>14

LEMMA ReservePlaces == "BN" \in Positions /\ "IL" \in Positions
BY SlotsAssumption DEF Reserve

LEMMA BenchPart ==
  ASSUME NEW r \in Rosters
  PROVE  /\ SlotMoves(r, benchIlActivationMoves(r), healthyIlPlayers(r), "BN")
         /\ Len(benchIlActivationMoves(r)) <= openSlots(r, "BN")
<1> DEFINE S    == healthyIlPlayers(r) \ Moved(directIlActivationMoves(r))
           list == InOrder[S]
           room == openSlots(r, "BN")
           need == ilSlotsNeeded(r) - Len(directIlActivationMoves(r))
           k    == Min({room, Max({0, need})})
<1>1. S \in SUBSET Players /\ S \subseteq healthyIlPlayers(r)
  BY DEF healthyIlPlayers
<1>2. PlayerList(list, S)
  BY <1>1, OrderedPlayers
<1>3. need \in Int
  <2>1. directIlActivationMoves(r) \in Seq(Activates(r))
    BY DirectPart
  <2>2. Len(directIlActivationMoves(r)) \in Nat
    BY <2>1
  <2>3. ilSlotsNeeded(r) \in Int
    <3>1. openSlots(r, "IL") \in Nat
      BY OpenSlots, ReservePlaces
    <3>2. Cardinality(activeUnavailable(r)) \in Nat
      BY FiniteTeams DEF activeUnavailable
    <3>3. Cardinality(activeUnavailable(r)) - openSlots(r, "IL") \in Int
      BY <3>1, <3>2
    <3> QED
      BY <3>3, Largest DEF ilSlotsNeeded
  <2> QED
    BY <2>2, <2>3
<1>4. room \in Nat
  BY OpenSlots, ReservePlaces
<1>5. k \in Nat /\ k <= room
  <2> HIDE DEF room, need
  <2>1. Max({0, need}) \in Nat
    BY <1>3, Largest
  <2>2. k = IF room <= Max({0, need}) THEN room ELSE Max({0, need})
    BY <1>4, <2>1, Smallest
  <2> QED
    BY <1>4, <2>1, <2>2
<1>6. benchIlActivationMoves(r) = MovesTo(r, Take(list, k), "BN")
  BY DEF benchIlActivationMoves
<1> HIDE DEF list, k, S
<1>7. PlayerList(Take(list, k), S) /\ Len(Take(list, k)) <= k
  BY <1>2, <1>5, TakenPlayers
<1>8. /\ SlotMoves(r, benchIlActivationMoves(r), S, "BN")
      /\ Len(benchIlActivationMoves(r)) = Len(Take(list, k))
  BY <1>1, <1>6, <1>7, MovedPlayers, ReservePlaces
<1>9. Len(Take(list, k)) \in Nat
  BY <1>7 DEF PlayerList
<1>10. SlotMoves(r, benchIlActivationMoves(r), healthyIlPlayers(r), "BN")
  BY <1>1, <1>8 DEF SlotMoves
<1> QED
  BY <1>4, <1>5, <1>7, <1>8, <1>9, <1>10

injuredStarters(r) == {p \in activeUnavailable(r) : r.status[p] = "injured"}

LEMMA ToIlPart ==
  ASSUME NEW r \in Rosters
  PROVE  /\ SlotMoves(r, activeToIlMoves(r), injuredStarters(r), "IL")
         /\ Len(activeToIlMoves(r)) <= openSlots(r, "IL") + Len(ilActivationMoves(r))
         /\ ilActivationMoves(r) \in Seq(Moves)
<1> DEFINE S    == injuredStarters(r)
           list == InOrder[S]
           k    == openSlots(r, "IL") + Len(ilActivationMoves(r))
<1>1. S \in SUBSET Players
  BY DEF injuredStarters, activeUnavailable
<1>2. PlayerList(list, S)
  BY <1>1, OrderedPlayers
<1>3. ilActivationMoves(r) \in Seq(Moves)
  <2>1. directIlActivationMoves(r) \in Seq(Moves)
    <3>1. directIlActivationMoves(r) \in Seq(Activates(r)) /\ Activates(r) \subseteq Moves
      BY DirectPart DEF Activates
    <3> QED
      BY <3>1
  <2>2. benchIlActivationMoves(r) \in Seq(Moves)
    BY BenchPart DEF SlotMoves
  <2> QED
    BY <2>1, <2>2 DEF ilActivationMoves
<1>4. k \in Nat
  <2>1. openSlots(r, "IL") \in Nat
    BY OpenSlots, ReservePlaces
  <2> QED
    BY <1>3, <2>1
<1>5. activeToIlMoves(r) = MovesTo(r, Take(list, k), "IL")
  BY DEF activeToIlMoves, injuredStarters
<1> HIDE DEF list, k, S
<1>6. PlayerList(Take(list, k), S) /\ Len(Take(list, k)) <= k
  BY <1>2, <1>4, TakenPlayers
<1>7. SlotMoves(r, activeToIlMoves(r), S, "IL") /\ Len(activeToIlMoves(r)) = Len(Take(list, k))
  BY <1>1, <1>5, <1>6, MovedPlayers, ReservePlaces
<1> QED
  BY <1>3, <1>6, <1>7 DEF k, S

\* A fit player comes off the bench into a playing position.
Fills(r) == {m \in Moves : /\ isAvailableBenchPlayer(r, m.player)
                           /\ m.from = r.position[m.player]
                           /\ playerCanFillSlot(m.player, m.to)}
Replaces(r) == {m \in Fills(r) : \E i \in DOMAIN activeToIlMoves(r) : m.to = activeToIlMoves(r)[i].from}
Opens(r)    == {m \in Fills(r) : openSlots(r, m.to) > 0}

LEMMA FillPart ==
  ASSUME NEW r \in Rosters, NEW slot \in Positions
  PROVE  FillMoves(r, slot) \in Seq({m \in Fills(r) : m.to = slot})
<1> DEFINE S == Fillers(r, slot)
           E == {m \in Fills(r) : m.to = slot}
           moves == FillMoves(r, slot)
<1>1. S \in SUBSET Players
  BY DEF Fillers
<1>2. PlayerList(InOrder[S], S)
  BY <1>1, OrderedPlayers
<1>3. SlotMoves(r, moves, S, slot)
  BY <1>1, <1>2, MovedPlayers DEF FillMoves
<1> HIDE DEF moves
<1>4. moves \in Seq(Moves) /\ Len(moves) \in Nat /\ DOMAIN moves = 1 .. Len(moves)
  BY <1>3 DEF SlotMoves
<1>5. \A i \in 1 .. Len(moves) : moves[i] \in E
  BY <1>3, <1>4 DEF SlotMoves, Fillers, Fills
<1> HIDE DEF E
<1>6. moves \in Seq(E)
  BY <1>4, <1>5
<1> QED
  BY <1>6 DEF E, moves

LEMMA ReplacementPart ==
  ASSUME NEW r \in Rosters
  PROVE  replacementOptions(r) \in Seq(Replaces(r))
<1> DEFINE out  == activeToIlMoves(r)
           n    == Len(out)
           seqs == [i \in DOMAIN out |-> FillMoves(r, out[i].from)]
<1>1. out \in Seq(Moves) /\ n \in Nat /\ DOMAIN out = 1 .. n
  BY ToIlPart DEF SlotMoves
<1>2. ASSUME NEW i \in 1 .. n
      PROVE  seqs[i] \in Seq(Replaces(r))
  <2> DEFINE slot == out[i].from
             E    == {m \in Fills(r) : m.to = slot}
  <2>1. slot \in Positions
    <3>1. out[i] \in Moves
      <4> HIDE DEF out
      <4> QED
        BY <1>1
    <3> QED
      BY <3>1 DEF Moves
  <2>2. FillMoves(r, slot) \in Seq(E)
    <3> HIDE DEF slot
    <3> QED
      BY <2>1, FillPart
  <2>3. E \subseteq Replaces(r)
    BY <1>1 DEF Replaces
  <2>4. seqs[i] = FillMoves(r, slot)
    BY <1>1
  <2> HIDE DEF E, seqs, slot
  <2>5. FillMoves(r, slot) \in Seq(Replaces(r))
    BY <2>2, <2>3
  <2> QED
    BY <2>4, <2>5
<1>3. seqs \in [1 .. n -> Seq(Replaces(r))]
  BY <1>1, <1>2
<1>4. replacementOptions(r) = FlattenSeq(seqs)
  BY DEF replacementOptions
<1> HIDE DEF seqs, n
<1> QED
  BY <1>1, <1>3, <1>4, Flattened

LEMMA OpenPart ==
  ASSUME NEW r \in Rosters
  PROVE  fillableOpenSlots(r) \in Seq(Opens(r))
<1> DEFINE n    == Len(Slots)
           Open(slot) == IF openSlots(r, slot) > 0 THEN FillMoves(r, slot) ELSE <<>>
           seqs == [i \in DOMAIN Slots |-> Open(Slots[i].position)]
<1>1. n \in Nat /\ DOMAIN Slots = 1 .. n /\ \A i \in DOMAIN Slots : Slots[i].position \in Positions
  BY SlotsAssumption DEF Positions
<1>2. ASSUME NEW slot \in Positions
      PROVE  Open(slot) \in Seq(Opens(r))
  <2> DEFINE E == {m \in Fills(r) : m.to = slot}
  <2>1. CASE openSlots(r, slot) > 0
    <3>1. FillMoves(r, slot) \in Seq(E)
      BY FillPart
    <3>2. E \subseteq Opens(r)
      BY <2>1 DEF Opens
    <3> HIDE DEF E
    <3>3. FillMoves(r, slot) \in Seq(Opens(r))
      BY <3>1, <3>2
    <3> QED
      BY <2>1, <3>3
  <2>2. CASE ~ (openSlots(r, slot) > 0)
    BY <2>2
  <2> QED
    BY <2>1, <2>2
<1>3. fillableOpenSlots(r) = FlattenSeq(seqs)
  BY DEF fillableOpenSlots
<1>4. seqs \in [1 .. n -> Seq(Opens(r))]
  <2> HIDE DEF Open
  <2> QED
    BY <1>1, <1>2
<1> HIDE DEF seqs, n
<1> QED
  BY <1>1, <1>3, <1>4, Flattened

-----------------------------------------------------------------------------
(* What is on the executor's list.                                         *)

\* A fit player comes off the IL to the bench; an injured one who plays goes there.
Benches(r) == {m \in Moves : /\ m.player \in healthyIlPlayers(r)
                             /\ m.from = r.position[m.player]
                             /\ m.to = "BN"}
Shelves(r) == {m \in Moves : /\ m.player \in injuredStarters(r)
                             /\ m.from = r.position[m.player]
                             /\ m.to = "IL"}

Kinds(r) == ToSet(directIlActivationMoves(r)) \cup ToSet(benchIlActivationMoves(r))
              \cup ToSet(activeToIlMoves(r)) \cup Replaces(r) \cup Opens(r)

proposals(r) ==
  ilActivationMoves(r) \o activeToIlMoves(r) \o replacementOptions(r) \o fillableOpenSlots(r)

LEMMA Parts ==
  ASSUME NEW r \in Rosters
  PROVE  /\ directIlActivationMoves(r) \in Seq(Moves)
         /\ benchIlActivationMoves(r) \in Seq(Moves)
         /\ activeToIlMoves(r) \in Seq(Moves)
         /\ replacementOptions(r) \in Seq(Moves)
         /\ fillableOpenSlots(r) \in Seq(Moves)
         /\ ToSet(directIlActivationMoves(r)) \subseteq Activates(r)
         /\ ToSet(benchIlActivationMoves(r)) \subseteq Benches(r)
         /\ ToSet(activeToIlMoves(r)) \subseteq Shelves(r)
         /\ ToSet(replacementOptions(r)) \subseteq Replaces(r)
         /\ ToSet(fillableOpenSlots(r)) \subseteq Opens(r)
<1>1. /\ directIlActivationMoves(r) \in Seq(Activates(r))
      /\ replacementOptions(r) \in Seq(Replaces(r))
      /\ fillableOpenSlots(r) \in Seq(Opens(r))
  BY DirectPart, ReplacementPart, OpenPart
<1>2. Activates(r) \subseteq Moves /\ Replaces(r) \subseteq Moves /\ Opens(r) \subseteq Moves
  BY DEF Activates, Replaces, Opens, Fills
<1>3. /\ directIlActivationMoves(r) \in Seq(Moves)
      /\ replacementOptions(r) \in Seq(Moves)
      /\ fillableOpenSlots(r) \in Seq(Moves)
  BY <1>1, <1>2
<1>4. /\ SlotMoves(r, benchIlActivationMoves(r), healthyIlPlayers(r), "BN")
      /\ SlotMoves(r, activeToIlMoves(r), injuredStarters(r), "IL")
  BY BenchPart, ToIlPart
<1>5. benchIlActivationMoves(r) \in Seq(Moves) /\ activeToIlMoves(r) \in Seq(Moves)
  BY <1>4 DEF SlotMoves
<1>6. ToSet(benchIlActivationMoves(r)) \subseteq Moves /\ ToSet(activeToIlMoves(r)) \subseteq Moves
  BY <1>5, InSet
<1>7. ToSet(benchIlActivationMoves(r)) \subseteq Benches(r)
  BY <1>4, <1>6 DEF SlotMoves, Benches, ToSet
<1>8. ToSet(activeToIlMoves(r)) \subseteq Shelves(r)
  BY <1>4, <1>6 DEF SlotMoves, Shelves, ToSet
<1> QED
  BY <1>1, <1>3, <1>5, <1>7, <1>8, InSet

LEMMA Proposed ==
  ASSUME NEW r \in Rosters
  PROVE  proposals(r) \in Seq(Moves) /\ ToSet(proposals(r)) \subseteq Kinds(r)
<1> DEFINE d == directIlActivationMoves(r)
           b == benchIlActivationMoves(r)
           o == activeToIlMoves(r)
           x == replacementOptions(r)
           y == fillableOpenSlots(r)
<1>1. /\ d \in Seq(Moves) /\ b \in Seq(Moves) /\ o \in Seq(Moves) /\ x \in Seq(Moves) /\ y \in Seq(Moves)
      /\ ToSet(d) \cup ToSet(b) \cup ToSet(o) \cup ToSet(x) \cup ToSet(y) \subseteq Kinds(r)
  BY Parts DEF Kinds
<1>2. proposals(r) = ((d \o b) \o o \o x) \o y
  BY DEF proposals, ilActivationMoves
<1> HIDE DEF d, b, o, x, y
<1> DEFINE db == d \o b
           dbo == db \o o
           dbox == dbo \o x
<1>3. db \in Seq(Moves) /\ ToSet(db) = ToSet(d) \cup ToSet(b)
  BY <1>1, Joined
<1>4. dbo \in Seq(Moves) /\ ToSet(dbo) = ToSet(db) \cup ToSet(o)
  <2> HIDE DEF db
  <2> QED
    BY <1>1, <1>3, Joined
<1>5. dbox \in Seq(Moves) /\ ToSet(dbox) = ToSet(dbo) \cup ToSet(x)
  <2> HIDE DEF dbo
  <2> QED
    BY <1>1, <1>4, Joined
<1>6. dbox \o y \in Seq(Moves) /\ ToSet(dbox \o y) = ToSet(dbox) \cup ToSet(y)
  <2> HIDE DEF dbox
  <2> QED
    BY <1>1, <1>5, Joined
<1>7. proposals(r) = dbox \o y
  BY <1>2
<1> HIDE DEF db, dbo, dbox
<1> QED
  BY <1>1, <1>3, <1>4, <1>5, <1>6, <1>7

LEMMA Built ==
  ASSUME NEW r \in Rosters
  PROVE  /\ buildMoves(r) \in Seq(Moves)
         /\ Once(buildMoves(r))
         /\ ToSet(buildMoves(r)) \subseteq Kinds(r)
         /\ \A i \in 1 .. Len(proposals(r)) :
              Certain(proposals(r), i) => proposals(r)[i] \in ToSet(buildMoves(r))
<1>1. buildMoves(r) = FoldLeft(addMove, <<>>, proposals(r))
  BY DEF buildMoves, proposals
<1> QED
  BY <1>1, Proposed, BuiltFrom

\* The first move of a list that is followed by another.
LEMMA FirstOfJoined ==
  ASSUME NEW E, NEW s \in Seq(E), NEW t \in Seq(E), s # <<>>
  PROVE  Len(s \o t) \in Nat \ {0} /\ (s \o t)[1] = s[1] /\ s \o t # <<>>
OBVIOUS

\* If a player can be activated directly, one is.
LEMMA DirectFirst ==
  ASSUME NEW r \in Rosters, directIlActivationMoves(r) # <<>>
  PROVE  ActivatesDirectly(buildMoves(r))
<1> DEFINE d    == directIlActivationMoves(r)
           b    == benchIlActivationMoves(r)
           o    == activeToIlMoves(r)
           x    == replacementOptions(r)
           y    == fillableOpenSlots(r)
           db   == d \o b
           dbo  == db \o o
           dbox == dbo \o x
           all  == dbox \o y
<1>1. /\ d \in Seq(Moves) /\ b \in Seq(Moves) /\ o \in Seq(Moves) /\ x \in Seq(Moves) /\ y \in Seq(Moves)
      /\ ToSet(d) \subseteq Activates(r) /\ d # <<>>
  BY Parts
<1>2. proposals(r) = all
  BY DEF proposals, ilActivationMoves
<1> HIDE DEF d, b, o, x, y
<1>3. db \in Seq(Moves) /\ dbo \in Seq(Moves) /\ dbox \in Seq(Moves) /\ all \in Seq(Moves)
  BY <1>1
<1>4. db[1] = d[1] /\ db # <<>>
  BY <1>1, FirstOfJoined
<1> HIDE DEF db
<1>5. dbo[1] = db[1] /\ dbo # <<>>
  BY <1>1, <1>3, <1>4, FirstOfJoined
<1> HIDE DEF dbo
<1>6. dbox[1] = dbo[1] /\ dbox # <<>>
  BY <1>1, <1>3, <1>5, FirstOfJoined
<1> HIDE DEF dbox
<1>7. all[1] = dbox[1] /\ Len(all) \in Nat \ {0}
  BY <1>1, <1>3, <1>6, FirstOfJoined
<1> HIDE DEF all
<1>8. Certain(proposals(r), 1)
  BY DEF Certain
<1>9. all[1] \in ToSet(buildMoves(r))
  BY <1>2, <1>7, <1>8, Built
<1>10. d[1] \in ToSet(d)
  BY <1>1 DEF ToSet
<1>11. d[1] \in Activates(r) /\ all[1] = d[1]
  BY <1>1, <1>4, <1>5, <1>6, <1>7, <1>10
<1>12. d[1].from = "IL" /\ d[1].to \notin Reserve
  BY <1>11 DEF Activates, healthyIlPlayers, isHealthyIlPlayer
<1> QED
  BY <1>9, <1>11, <1>12 DEF ActivatesDirectly, ToSet

\* If none can, every move to the bench and to the IL that is proposed is made.
LEMMA ReserveMovesMade ==
  ASSUME NEW r \in Rosters, directIlActivationMoves(r) = <<>>
  PROVE  /\ ToSet(benchIlActivationMoves(r)) \subseteq ToSet(buildMoves(r))
         /\ ToSet(activeToIlMoves(r)) \subseteq ToSet(buildMoves(r))
<1> DEFINE b    == benchIlActivationMoves(r)
           o    == activeToIlMoves(r)
           x    == replacementOptions(r)
           y    == fillableOpenSlots(r)
           bo   == b \o o
           all  == (bo \o x) \o y
           k    == Len(b)
           l    == Len(o)
<1>1. /\ b \in Seq(Moves) /\ o \in Seq(Moves) /\ x \in Seq(Moves) /\ y \in Seq(Moves)
      /\ ToSet(b) \subseteq Benches(r) /\ ToSet(o) \subseteq Shelves(r)
  BY Parts
<1>2. Distinct(b) /\ Distinct(o)
  BY BenchPart, ToIlPart DEF SlotMoves
<1>3. proposals(r) = all
  <2>1. ilActivationMoves(r) = <<>> \o b
    BY DEF ilActivationMoves
  <2> HIDE DEF b, o, x, y
  <2>2. <<>> \o b = b
    BY <1>1
  <2> QED
    BY <2>1, <2>2 DEF proposals, o, x, y
<1> HIDE DEF b, o, x, y
<1>4. /\ k \in Nat /\ l \in Nat /\ DOMAIN b = 1 .. k /\ DOMAIN o = 1 .. l
      /\ bo \in Seq(Moves) /\ Len(bo) = k + l
      /\ \A i \in 1 .. k : bo[i] = b[i]
      /\ \A i \in 1 .. l : bo[k + i] = o[i]
  BY <1>1
<1> HIDE DEF bo
<1>5. /\ Len(all) \in Nat /\ k + l <= Len(all)
      /\ \A i \in 1 .. k + l : all[i] = bo[i]
  <2> DEFINE box == bo \o x
  <2>1. box \in Seq(Moves) /\ Len(box) \in Nat /\ k + l <= Len(box) /\ \A i \in 1 .. k + l : box[i] = bo[i]
    BY <1>1, <1>4
  <2> HIDE DEF box
  <2>2. Len(box \o y) \in Nat /\ Len(box) <= Len(box \o y) /\ \A i \in 1 .. Len(box) : (box \o y)[i] = box[i]
    BY <1>1, <2>1
  <2> DEFINE boxy == box \o y
             p == Len(box)
             q == Len(boxy)
  <2>3. p \in Nat /\ q \in Nat /\ p <= q /\ k + l <= p /\ \A i \in 1 .. p : boxy[i] = box[i]
    BY <2>1, <2>2
  <2>4. all = boxy
    BY DEF box
  <2> HIDE DEF p, q, boxy, all
  <2>5. \A i \in 1 .. k + l : i \in 1 .. p
    BY <1>4, <2>3
  <2>6. q \in Nat /\ k + l <= q
    BY <1>4, <2>3
  <2> QED
    BY <2>1, <2>3, <2>4, <2>5, <2>6 DEF q
<1>6. \A i \in 1 .. k : all[i] = b[i]
  BY <1>4, <1>5
<1>7. \A i \in 1 .. l : all[k + i] = o[i]
  BY <1>4, <1>5
<1> HIDE DEF all
<1>8. \A i \in 1 .. k : /\ b[i].to = "BN"
                        /\ r.status[b[i].player] = "fit"
  <2>1. \A i \in 1 .. k : b[i] \in Benches(r)
    BY <1>1, <1>4 DEF ToSet
  <2> QED
    BY <2>1 DEF Benches, healthyIlPlayers, isHealthyIlPlayer, isHardUnavailable
<1>9. \A i \in 1 .. l : /\ o[i].to = "IL"
                        /\ r.status[o[i].player] = "injured"
  <2>1. \A i \in 1 .. l : o[i] \in Shelves(r)
    BY <1>1, <1>4 DEF ToSet
  <2> QED
    BY <2>1 DEF Shelves, injuredStarters
<1>10. ASSUME NEW i \in 1 .. k
       PROVE  b[i] \in ToSet(buildMoves(r))
  <2>1. \A j \in 1 .. i - 1 : j \in 1 .. k /\ j # i
    BY <1>4
  <2>2. \A j \in 1 .. i - 1 : all[j].player # all[i].player
    BY <1>2, <1>4, <1>6, <2>1 DEF Distinct
  <2>3. Certain(all, i)
    BY <1>6, <1>8, <2>2 DEF Certain, Reserve
  <2>4. i \in 1 .. Len(all)
    BY <1>4, <1>5
  <2> QED
    BY <1>3, <1>6, <2>3, <2>4, Built
<1>11. ASSUME NEW i \in 1 .. l
       PROVE  o[i] \in ToSet(buildMoves(r))
  <2> DEFINE m == k + i
  <2>1. m \in 1 .. Len(all) /\ all[m] = o[i]
    BY <1>4, <1>5, <1>7
  <2>2. ASSUME NEW j \in 1 .. m - 1 PROVE all[j].player # o[i].player
    <3>1. CASE j \in 1 .. k
      <4>1. all[j] = b[j] /\ r.status[b[j].player] = "fit"
        BY <1>6, <1>8, <3>1
      <4> QED
        BY <1>9, <4>1
    <3>2. CASE j \notin 1 .. k
      <4>1. j - k \in 1 .. l /\ k + (j - k) = j /\ j - k # i
        BY <1>4, <3>2
      <4>2. all[j] = o[j - k]
        BY <1>7, <4>1
      <4> QED
        BY <1>2, <1>4, <4>1, <4>2 DEF Distinct
    <3> QED
      BY <3>1, <3>2
  <2> HIDE DEF m
  <2>3. Certain(all, m)
    BY <1>9, <2>1, <2>2 DEF Certain, Reserve
  <2> QED
    BY <1>3, <2>1, <2>3, Built
<1> QED
  BY <1>4, <1>10, <1>11 DEF ToSet, b, o

-----------------------------------------------------------------------------
(* What a list does to the roster.                                         *)

LEMMA AfterMoves ==
  ASSUME NEW pos \in [Players -> Positions], NEW moves \in Seq(Moves)
  PROVE  /\ After(pos, moves) \in [Players -> Positions]
         /\ \A p \in Players \ Moved(moves) : After(pos, moves)[p] = pos[p]
         /\ \A p \in Moved(moves) :
              p \in Players /\ \E m \in ToSet(moves) : m.player = p /\ After(pos, moves)[p] = m.to
<1> DEFINE M == {moves[i] : i \in DOMAIN moves}
           new == After(pos, moves)
<1>1. M = ToSet(moves) /\ M \subseteq Moves /\ Moved(moves) = {m.player : m \in M}
  BY InSet DEF ToSet, Moved
<1>2. \A m \in M : m.player \in Players /\ m.to \in Positions
  BY <1>1 DEF Moves
<1>3. new = [p \in Players |-> IF p \in Moved(moves) THEN (CHOOSE m \in M : m.player = p).to
                                                     ELSE pos[p]]
  BY DEF After
<1> HIDE DEF M, new
<1>4. \A p \in Moved(moves) : /\ p \in Players
                              /\ (CHOOSE m \in M : m.player = p) \in M
                              /\ (CHOOSE m \in M : m.player = p).player = p
  BY <1>1, <1>2
<1>5. \A p \in Moved(moves) : p \in Players /\ \E m \in M : m.player = p /\ new[p] = m.to
  BY <1>3, <1>4
<1>6. \A p \in Players : new[p] \in Positions
  BY <1>2, <1>3, <1>5
<1>7. new \in [Players -> Positions] /\ \A p \in Players \ Moved(moves) : new[p] = pos[p]
  BY <1>3, <1>6
<1> QED
  BY <1>1, <1>5, <1>7 DEF new

\* On the executor's list, a player has one move.
LEMMA AfterOnce ==
  ASSUME NEW pos \in [Players -> Positions], NEW moves \in Seq(Moves), Once(moves),
         NEW m \in ToSet(moves)
  PROVE  m.player \in Moved(moves) /\ After(pos, moves)[m.player] = m.to
<1>1. m.player \in Moved(moves)
  BY DEF ToSet, Moved
<1>2. PICK n \in ToSet(moves) : n.player = m.player /\ After(pos, moves)[m.player] = n.to
  BY <1>1, AfterMoves
<1>3. n = m
  BY <1>2 DEF Once, ToSet
<1> QED
  BY <1>1, <1>2, <1>3

\* A list moves no more players than it has moves.
LEMMA MovedCount ==
  ASSUME NEW moves \in Seq(Moves)
  PROVE  /\ IsFiniteSet(Moved(moves)) /\ Cardinality(Moved(moves)) \in Nat
         /\ Len(moves) \in Nat
         /\ Cardinality(Moved(moves)) <= Len(moves)
         /\ Distinct(moves) => Cardinality(Moved(moves)) = Len(moves)
<1> DEFINE n == Len(moves)
           T == Moved(moves)
           f == [i \in 1 .. n |-> moves[i].player]
<1>1. n \in Nat /\ DOMAIN moves = 1 .. n
  OBVIOUS
<1>2. T = {moves[i].player : i \in 1 .. n}
  BY <1>1 DEF Moved
<1> HIDE DEF n, T
<1>3. f \in Surjection(1 .. n, T)
  BY <1>2 DEF Surjection
<1>4. IsFiniteSet(1 .. n) /\ Cardinality(1 .. n) = n
  BY <1>1, FS_Interval
<1>5. Distinct(moves) => f \in Injection(1 .. n, T)
  <2>1. f \in [1 .. n -> T]
    BY <1>2
  <2> QED
    BY <1>1, <2>1 DEF Distinct, Injection, IsInjective
<1> HIDE DEF f
<1>6. /\ IsFiniteSet(T) /\ Cardinality(T) <= n
      /\ Cardinality(T) = n <=> f \in Injection(1 .. n, T)
  BY <1>3, <1>4, FS_Surjection
<1>7. Cardinality(T) \in Nat
  BY <1>6, FS_CardinalityType
<1> QED
  BY <1>1, <1>5, <1>6, <1>7 DEF n, T

\* Players who leave and players who arrive.
LEMMA NewCount ==
  ASSUME NEW old \in SUBSET Players, NEW gone \in SUBSET old, NEW come, IsFiniteSet(come),
         NEW new \in SUBSET ((old \ gone) \cup come)
  PROVE  /\ Cardinality(new) \in Nat /\ Cardinality(old) \in Nat
         /\ Cardinality(gone) \in Nat /\ Cardinality(come) \in Nat
         /\ Cardinality(new) <= Cardinality(old) - Cardinality(gone) + Cardinality(come)
<1>1. IsFiniteSet(old) /\ IsFiniteSet(gone) /\ gone \in SUBSET Players
  BY FiniteTeams, FinitePlayers, FS_Subset
<1> DEFINE rest == old \ gone
           both == rest \cup come
<1>2. IsFiniteSet(rest) /\ Cardinality(rest) = Cardinality(old) - Cardinality(gone)
  <2>1. old \cap gone = gone
    OBVIOUS
  <2> QED
    BY <1>1, <2>1, FS_Difference
<1> HIDE DEF rest
<1>3. /\ IsFiniteSet(both) /\ IsFiniteSet(rest \cap come)
      /\ Cardinality(both) = Cardinality(rest) + Cardinality(come) - Cardinality(rest \cap come)
  BY <1>2, FS_Union, FS_Intersection
<1>4. new \in SUBSET both
  BY DEF rest
<1> HIDE DEF both
<1>5. IsFiniteSet(new) /\ Cardinality(new) <= Cardinality(both)
  BY <1>3, <1>4, FS_Subset
<1>6. /\ Cardinality(new) \in Nat /\ Cardinality(both) \in Nat /\ Cardinality(rest \cap come) \in Nat
      /\ Cardinality(rest) \in Nat /\ Cardinality(come) \in Nat
      /\ Cardinality(old) \in Nat /\ Cardinality(gone) \in Nat
  BY <1>1, <1>2, <1>3, <1>5, FS_CardinalityType
<1>7. \A a, b, c, d, e, f, g \in Nat :
        /\ a <= b /\ b = c + d - e /\ c = f - g => a <= f - g + d
  OBVIOUS
<1> QED
  BY <1>2, <1>3, <1>5, <1>6, <1>7

LEMMA WhoMoves ==
  ASSUME NEW r \in Rosters, NEW m \in Kinds(r)
  PROVE  /\ m \in Moves /\ m.player \in Players /\ m.from = r.position[m.player]
         /\ m \in ToSet(directIlActivationMoves(r)) =>
              /\ m.player \in healthyIlPlayers(r)
              /\ m.to \notin Reserve
         /\ m \in ToSet(benchIlActivationMoves(r)) => m.player \in healthyIlPlayers(r) /\ m.to = "BN"
         /\ m \in ToSet(activeToIlMoves(r)) => m.player \in injuredStarters(r) /\ m.to = "IL"
         /\ m \in Replaces(r) \cup Opens(r) =>
              /\ isAvailableBenchPlayer(r, m.player)
              /\ playerCanFillSlot(m.player, m.to)
              /\ m.to \notin Reserve
<1>1. /\ ToSet(directIlActivationMoves(r)) \subseteq Activates(r)
      /\ ToSet(benchIlActivationMoves(r)) \subseteq Benches(r)
      /\ ToSet(activeToIlMoves(r)) \subseteq Shelves(r)
  BY Parts
<1>2. m \in Activates(r) \cup Benches(r) \cup Shelves(r) \cup Fills(r)
  BY <1>1 DEF Kinds, Replaces, Opens
<1>3. m \in Moves /\ m.player \in Players /\ m.from = r.position[m.player]
  BY <1>2 DEF Activates, Benches, Shelves, Fills, Moves
<1>4. m \in Replaces(r) \cup Opens(r) =>
              /\ isAvailableBenchPlayer(r, m.player)
              /\ playerCanFillSlot(m.player, m.to)
  BY DEF Replaces, Opens, Fills
<1> QED
  BY <1>1, <1>3, <1>4, FillersPlay DEF Activates, Benches, Shelves

\* A list without a direct activation fits the slots and the players' eligibility.
LEMMA LegalList ==
  ASSUME NEW r \in Rosters, Fits(r.position), directIlActivationMoves(r) = <<>>
  PROVE  Acceptable(r.position, r.status, After(r.position, buildMoves(r)))
<1> DEFINE P   == buildMoves(r)
           B   == benchIlActivationMoves(r)
           O   == activeToIlMoves(r)
           pos == r.position
           new == After(pos, P)
           at(slot)  == {p \in Players : pos[p] = slot}
           now(slot) == {p \in Players : new[p] = slot}
           to(slot)  == {m.player : m \in {n \in ToSet(P) : n.to = slot}}
<1>1. P \in Seq(Moves) /\ Once(P) /\ ToSet(P) \subseteq ToSet(B) \cup ToSet(O) \cup Replaces(r) \cup Opens(r)
  <2>1. ToSet(directIlActivationMoves(r)) = {}
    <3>1. DOMAIN <<>> = {}
      OBVIOUS
    <3> QED
      BY <3>1 DEF ToSet
  <2> QED
    BY <2>1, Built DEF Kinds
<1>2. ToSet(B) \subseteq ToSet(P) /\ ToSet(O) \subseteq ToSet(P)
  BY ReserveMovesMade
<1>3. \A m \in ToSet(P) : /\ m \in Moves /\ m.player \in Players /\ m.from = pos[m.player]
                          /\ m \in ToSet(B) => m.player \in healthyIlPlayers(r) /\ m.to = "BN"
                          /\ m \in ToSet(O) => m.player \in injuredStarters(r) /\ m.to = "IL"
                          /\ m \in Replaces(r) \cup Opens(r) =>
                               /\ isAvailableBenchPlayer(r, m.player)
                               /\ playerCanFillSlot(m.player, m.to)
                               /\ m.to \notin Reserve
  BY Built, WhoMoves
<1>4. pos \in [Players -> Positions]
  BY DEF Rosters
<1> HIDE DEF P, B, O, pos
<1>5. /\ new \in [Players -> Positions]
      /\ \A p \in Players \ Moved(P) : new[p] = pos[p]
      /\ \A p \in Moved(P) : p \in Players /\ \E m \in ToSet(P) : m.player = p /\ new[p] = m.to
  BY <1>1, <1>4, AfterMoves
<1>6. \A m \in ToSet(P) : m.player \in Moved(P) /\ new[m.player] = m.to
  BY <1>1, <1>4, AfterOnce
<1> HIDE DEF new
<1>7. ASSUME NEW p \in Players, new[p] # pos[p]
      PROVE  MayPlay(r.status, p, new[p])
  <2>1. PICK m \in ToSet(P) : m.player = p /\ new[p] = m.to
    BY <1>5, <1>7
  <2>2. CASE m \in ToSet(B)
    <3>1. new[p] = "BN"
      BY <1>3, <2>1, <2>2
    <3> QED
      BY <3>1 DEF MayPlay
  <2>3. CASE m \in ToSet(O)
    <3>1. new[p] = "IL" /\ r.status[p] = "injured"
      BY <1>3, <2>1, <2>3 DEF injuredStarters
    <3> QED
      BY <3>1 DEF MayPlay
  <2>4. CASE m \in Replaces(r) \cup Opens(r)
    <3>1. playerCanFillSlot(p, new[p]) /\ new[p] # "BN" /\ new[p] # "IL"
      BY <1>3, <2>1, <2>4 DEF Reserve
    <3> QED
      BY <3>1 DEF MayPlay
  <2> QED
    BY <1>1, <2>2, <2>3, <2>4
<1>8. ASSUME NEW slot \in Positions
      PROVE  Cardinality(now(slot)) <= slotCount(slot)
  <2> DEFINE used == Cardinality(at(slot))
             room == openSlots(r, slot)
  <2>1. used \in Nat /\ room \in Nat /\ slotCount(slot) \in Nat /\ used + room = slotCount(slot)
    <3>1. used = usedSlots(r, slot)
      BY DEF usedSlots, pos
    <3>2. used <= slotCount(slot)
      BY DEF Fits, pos
    <3> HIDE DEF used
    <3> QED
      BY <3>1, <3>2, OpenSlots, SlotCountType
  <2>2. at(slot) \in SUBSET Players /\ to(slot) \in SUBSET Players
    BY <1>3
  <2>3. now(slot) \subseteq at(slot) \cup to(slot)
    BY <1>5
  <2>4. ASSUME NEW q \in now(slot), q \in Moved(P) PROVE q \in to(slot)
    BY <1>5, <2>4
  <2>5. ASSUME NEW gone \in SUBSET at(slot), NEW come, to(slot) \subseteq come, IsFiniteSet(come),
               \A p \in gone : p \in Moved(P) /\ p \notin to(slot)
        PROVE  /\ Cardinality(gone) \in Nat /\ Cardinality(come) \in Nat
               /\ Cardinality(now(slot)) \in Nat
               /\ Cardinality(now(slot)) <= used - Cardinality(gone) + Cardinality(come)
    <3>1. now(slot) \in SUBSET ((at(slot) \ gone) \cup come)
      BY <2>3, <2>4, <2>5
    <3> HIDE DEF at, now, to
    <3> QED
      BY <2>2, <2>5, <3>1, NewCount
  <2> HIDE DEF used, room, at, now, to
  <2>6. CASE slot = "BN"
    <3>1. Len(B) <= room
      BY <2>6, BenchPart DEF B, room
    <3>2. IsFiniteSet(Moved(B)) /\ Len(B) \in Nat /\ Cardinality(Moved(B)) <= Len(B)
      BY Parts, MovedCount DEF B
    <3>3. to(slot) \subseteq Moved(B)
      BY <1>1, <1>3, <2>6 DEF to, Reserve, Moved, ToSet
    <3>4. IsFiniteSet({}) /\ Cardinality({}) = 0 /\ {} \in SUBSET at(slot)
      BY FS_EmptySet
    <3>5. /\ Cardinality(Moved(B)) \in Nat /\ Cardinality(now(slot)) \in Nat
          /\ Cardinality(now(slot)) <= used - Cardinality({}) + Cardinality(Moved(B))
      BY <2>5, <3>2, <3>3, <3>4
    <3> QED
      BY <2>1, <3>1, <3>2, <3>4, <3>5
  <2>7. CASE slot = "IL"
    <3>1. Len(O) <= room + Len(B)
      <4>1. directIlActivationMoves(r) = <<>> /\ B \in Seq(Moves)
        BY Parts DEF B
      <4>2. ilActivationMoves(r) = <<>> \o B
        BY <4>1 DEF ilActivationMoves, B
      <4>3. Len(ilActivationMoves(r)) = Len(B)
        BY <4>1, <4>2
      <4> QED
        BY <2>7, <4>3, ToIlPart DEF O, room
    <3>2. IsFiniteSet(Moved(O)) /\ Len(O) \in Nat /\ Cardinality(Moved(O)) <= Len(O)
      BY Parts, MovedCount DEF O
    <3>3. to(slot) \subseteq Moved(O)
      BY <1>1, <1>3, <2>7 DEF to, Reserve, Moved, ToSet
    <3>4. Cardinality(Moved(B)) = Len(B) /\ Len(B) \in Nat
      BY Parts, BenchPart, MovedCount DEF B, SlotMoves
    <3>5. \A p \in Moved(B) : /\ p \in at(slot)
                              /\ p \in Moved(P) /\ p \notin to(slot)
      <4> SUFFICES ASSUME NEW m \in ToSet(B)
                   PROVE  m.player \in at(slot) /\ m.player \in Moved(P) /\ m.player \notin to(slot)
        BY DEF Moved, ToSet
      <4>1. m \in ToSet(P) /\ m.player \in healthyIlPlayers(r) /\ m.to = "BN"
        BY <1>2, <1>3
      <4>2. m.player \in at(slot)
        BY <2>7, <4>1 DEF healthyIlPlayers, isHealthyIlPlayer, at, pos
      <4>3. m.player \notin to(slot)
        BY <1>6, <2>7, <4>1 DEF to
      <4> QED
        BY <1>6, <4>1, <4>2, <4>3
    <3>6. Moved(B) \in SUBSET at(slot)
      BY <3>5
    <3>7. /\ Cardinality(Moved(O)) \in Nat /\ Cardinality(now(slot)) \in Nat
          /\ Cardinality(now(slot)) <= used - Cardinality(Moved(B)) + Cardinality(Moved(O))
      BY <2>5, <3>2, <3>3, <3>5, <3>6
    <3> QED
      BY <2>1, <3>1, <3>2, <3>4, <3>7
  <2>8. CASE slot \notin Reserve
    <3>1. \A m \in ToSet(P) : m.to = slot => m \in Replaces(r) \cup Opens(r)
      BY <1>1, <1>3, <2>8 DEF Reserve
    <3>2. CASE to(slot) = {}
      <4>1. IsFiniteSet({}) /\ Cardinality({}) = 0 /\ {} \in SUBSET at(slot)
        BY FS_EmptySet
      <4>2. /\ Cardinality(now(slot)) \in Nat
            /\ Cardinality(now(slot)) <= used - Cardinality({}) + Cardinality({})
        BY <2>5, <3>2, <4>1
      <4> QED
        BY <2>1, <4>1, <4>2
    <3>3. CASE to(slot) # {}
      <4>1. PICK m \in ToSet(P) : m.to = slot
        BY <3>3 DEF to
      <4>2. \A n \in ToSet(P) : n.to = slot => n = m
        BY <1>1, <2>8, <4>1 DEF Once, ToSet
      <4>3. to(slot) = {m.player}
        BY <4>1, <4>2 DEF to
      <4>4. IsFiniteSet({m.player}) /\ Cardinality({m.player}) = 1
        BY FS_Singleton
      <4>5. CASE m \in Opens(r)
        <5>1. room > 0
          BY <4>1, <4>5 DEF Opens, room
        <5>2. IsFiniteSet({}) /\ Cardinality({}) = 0 /\ {} \in SUBSET at(slot)
          BY FS_EmptySet
        <5>3. /\ Cardinality(now(slot)) \in Nat
              /\ Cardinality(now(slot)) <= used - Cardinality({}) + Cardinality({m.player})
          BY <2>5, <4>3, <4>4, <5>2
        <5> QED
          BY <2>1, <4>4, <5>1, <5>2, <5>3
      <4>6. CASE m \in Replaces(r)
        <5>1. PICK n \in ToSet(O) : n.from = slot
          BY <4>1, <4>6 DEF Replaces, ToSet, O
        <5>2. n \in ToSet(P) /\ n.to = "IL" /\ n.player \in Players /\ pos[n.player] = slot
          BY <1>2, <1>3, <5>1
        <5>3. n.player \in Moved(P) /\ n.player \notin to(slot)
          BY <1>6, <2>8, <5>2 DEF to, Reserve
        <5>4. {n.player} \in SUBSET at(slot)
          BY <5>2 DEF at
        <5>5. Cardinality({n.player}) = 1
          BY FS_Singleton
        <5>6. /\ Cardinality(now(slot)) \in Nat
              /\ Cardinality(now(slot)) <= used - Cardinality({n.player}) + Cardinality({m.player})
          BY <2>5, <4>3, <4>4, <5>3, <5>4
        <5> QED
          BY <2>1, <4>4, <5>5, <5>6
      <4> QED
        BY <3>1, <4>1, <4>5, <4>6
    <3> QED
      BY <3>2, <3>3
  <2> QED
    BY <2>6, <2>7, <2>8 DEF Reserve
<1>9. Fits(new)
  BY <1>8 DEF Fits
<1>10. Acceptable(pos, r.status, new)
  BY <1>7, <1>9 DEF Acceptable
<1> QED
  BY <1>10 DEF new, P, pos

-----------------------------------------------------------------------------
(* What a list of moves does to the roster it was made for.                *)

Made(r) == [position |-> After(r.position, buildMoves(r)), status |-> r.status]

\* Who is moved, and where he is then.
LEMMA WhoMoved ==
  ASSUME NEW r \in Rosters, NEW p \in Players, p \in Moved(buildMoves(r))
  PROVE  \/ /\ isHealthyIlPlayer(r, p)
            /\ Made(r).position[p] # "IL"
         \/ p \in injuredStarters(r) /\ Made(r).position[p] = "IL"
         \/ isAvailableBenchPlayer(r, p) /\ isActive(Made(r), p)
<1> DEFINE P   == buildMoves(r)
           pos == r.position
           new == After(pos, P)
<1>1. pos \in [Players -> Positions] /\ P \in Seq(Moves)
  BY Built DEF Rosters
<1>2. PICK m \in ToSet(P) : m.player = p /\ new[p] = m.to
  <2> HIDE DEF P, pos
  <2> QED
    BY <1>1, AfterMoves DEF P
<1>3. m \in Kinds(r) /\ Made(r).position[p] = m.to
  BY <1>2, Built DEF Made
<1>4. /\ m \in ToSet(directIlActivationMoves(r)) =>
              /\ p \in healthyIlPlayers(r)
              /\ m.to \notin Reserve
      /\ m \in ToSet(benchIlActivationMoves(r)) => p \in healthyIlPlayers(r) /\ m.to = "BN"
      /\ m \in ToSet(activeToIlMoves(r)) => p \in injuredStarters(r) /\ m.to = "IL"
      /\ m \in Replaces(r) \cup Opens(r) =>
              /\ isAvailableBenchPlayer(r, p)
              /\ m.to \notin Reserve
  BY <1>2, <1>3, WhoMoves
<1> HIDE DEF P, pos, new
<1> QED
  BY <1>3, <1>4 DEF Kinds, healthyIlPlayers, Reserve, isActive

LEMMA WhoPlays ==
  ASSUME NEW r, NEW p \in Players
  PROVE  /\ p \in Playing(r, TRUE) <=> isActive(r, p) /\ ~isHardUnavailable(r, p)
         /\ p \in Playing(r, FALSE) <=> isActive(r, p) /\ isHardUnavailable(r, p)
BY DEF Playing, isHardUnavailable

\* Who is moved is neither fit and playing before nor unavailable and playing after.
LEMMA MadePlays ==
  ASSUME NEW r \in Rosters
  PROVE  /\ Playing(r, TRUE) \subseteq Playing(Made(r), TRUE)
         /\ Playing(Made(r), FALSE) \subseteq Playing(r, FALSE)
<1>1. \A p \in Players : isHardUnavailable(Made(r), p) <=> isHardUnavailable(r, p)
  BY DEF isHardUnavailable, Made
<1>2. \A p \in Players \ Moved(buildMoves(r)) : isActive(Made(r), p) <=> isActive(r, p)
  <2>1. r.position \in [Players -> Positions]
    BY DEF Rosters
  <2>2. buildMoves(r) \in Seq(Moves)
    BY Built
  <2>3. \A p \in Players \ Moved(buildMoves(r)) : Made(r).position[p] = r.position[p]
    BY <2>1, <2>2, AfterMoves DEF Made
  <2> QED
    BY <2>3 DEF isActive
<1>3. ASSUME NEW p \in Players, p \in Moved(buildMoves(r))
      PROVE  p \notin Playing(r, TRUE) /\ p \notin Playing(Made(r), FALSE)
  <2>1. \/ /\ isHealthyIlPlayer(r, p)
           /\ Made(r).position[p] # "IL"
        \/ p \in injuredStarters(r) /\ Made(r).position[p] = "IL"
        \/ isAvailableBenchPlayer(r, p) /\ isActive(Made(r), p)
    BY <1>3, WhoMoved
  <2>2. p \in injuredStarters(r) => isHardUnavailable(r, p)
    BY DEF injuredStarters, activeUnavailable
  <2>3. r.position[p] \in Reserve => ~isActive(r, p)
    BY DEF isActive
  <2>4. Made(r).position[p] = "IL" => ~isActive(Made(r), p)
    BY DEF isActive, Reserve
  <2> QED
    BY <1>1, <2>1, <2>2, <2>3, <2>4, WhoPlays DEF isHealthyIlPlayer, isAvailableBenchPlayer, Reserve
<1>4. \A q, fit : q \in Playing(r, fit) \cup Playing(Made(r), fit) => q \in Players
  BY DEF Playing
<1> QED
  BY <1>1, <1>2, <1>3, <1>4, WhoPlays

\* Its first move is seen in the lineup or in IL.
LEMMA MadeDiffers ==
  ASSUME NEW r \in Rosters, buildMoves(r) # <<>>
  PROVE  \/ Playing(r, TRUE) # Playing(Made(r), TRUE)
         \/ Playing(r, FALSE) # Playing(Made(r), FALSE)
         \/ \E p \in Players : isHealthyIlPlayer(r, p) /\ ~isHealthyIlPlayer(Made(r), p)
<1>1. PICK p \in Players : p \in Moved(buildMoves(r))
  <2>1. buildMoves(r) \in Seq(Moves) /\ 1 \in DOMAIN buildMoves(r)
    BY Built
  <2>2. buildMoves(r)[1] \in Moves
    BY <2>1
  <2>3. \A m \in Moves : m.player \in Players
    BY DEF Moves
  <2> QED
    BY <2>1, <2>2, <2>3 DEF Moved
<1>2. \/ /\ isHealthyIlPlayer(r, p)
         /\ Made(r).position[p] # "IL"
      \/ p \in injuredStarters(r) /\ Made(r).position[p] = "IL"
      \/ isAvailableBenchPlayer(r, p) /\ isActive(Made(r), p)
  BY <1>1, WhoMoved
<1>3. isHardUnavailable(Made(r), p) <=> isHardUnavailable(r, p)
  BY DEF isHardUnavailable, Made
<1>4. CASE isHealthyIlPlayer(r, p) /\ Made(r).position[p] # "IL"
  BY <1>4 DEF isHealthyIlPlayer
<1>5. CASE p \in injuredStarters(r) /\ Made(r).position[p] = "IL"
  <2>1. p \in Playing(r, FALSE)
    BY <1>5, WhoPlays DEF injuredStarters, activeUnavailable
  <2>2. p \notin Playing(Made(r), FALSE)
    BY <1>5, WhoPlays DEF isActive, Reserve
  <2> QED
    BY <2>1, <2>2
<1>6. CASE isAvailableBenchPlayer(r, p) /\ isActive(Made(r), p)
  <2>1. p \notin Playing(r, TRUE)
    BY <1>6, WhoPlays DEF isAvailableBenchPlayer, isActive, Reserve
  <2>2. p \in Playing(Made(r), TRUE)
    BY <1>3, <1>6, WhoPlays DEF isAvailableBenchPlayer
  <2> QED
    BY <2>1, <2>2
<1> QED
  BY <1>2, <1>4, <1>5, <1>6

-----------------------------------------------------------------------------
(* The writers.                                                            *)

\* What a writer is about to put was made from the roster it read, and what it read
\* is a roster; the slots are never overfull.
WritesInv ==
  /\ TypeOK
  /\ plan \in [Writers -> Seq(Moves)]
  /\ Fits(position)
  /\ \A w \in Writers : pc[w] = "checkPut" => seen[w] \in Rosters
  /\ \A w \in Writers : pc[w] = "put" => /\ seen[w] \in Rosters
                                         /\ plan[w] = buildMoves(seen[w])
                                         /\ plan[w] # <<>>

LEMMA RosterType == Roster \in Rosters <=> position \in [Players -> Positions]
                                           /\ status \in [Players -> Statuses]
BY DEF Roster, Rosters

LEMMA MovesType ==
  ASSUME NEW moves \in Seq(Moves)
  PROVE  {moves[i] : i \in DOMAIN moves} \subseteq Moves
OBVIOUS

LEMMA WritesStart == Init => WritesInv
<1> SUFFICES ASSUME Init PROVE WritesInv
  OBVIOUS
<1>1. /\ position \in [Players -> Positions] /\ status \in [Players -> Statuses]
      /\ Fits(position)
  BY ParametersAssumption DEF Init
<1>2. /\ plan \in [Writers -> Seq(Moves)]
      /\ \A w \in Writers : plan[w] \in Seq(Moves)
      /\ pc \in [Writers -> Places] /\ \A w \in Writers : pc[w] = "idle"
  BY DEF Init, Places
<1>3. \A w \in Writers : {plan[w][i] : i \in DOMAIN plan[w]} \subseteq Moves
  BY <1>2, MovesType
<1>4. Roster \in Rosters
  BY <1>1, RosterType
<1>5. TypeOK
  BY <1>2, <1>3, <1>4, ParametersAssumption DEF Init, TypeOK
<1> QED
  BY <1>1, <1>2, <1>5 DEF WritesInv

\* What Yahoo accepts is a roster that fits the slots.
LEMMA AcceptedFits ==
  ASSUME NEW new, Acceptable(position, status, new)
  PROVE  Fits(new)
BY DEF Acceptable

\* A step that leaves the invocations alone.
LEMMA MemoryKept ==
  ASSUME WritesInv, UNCHANGED memory,
         position' \in [Players -> Positions], status' \in [Players -> Statuses], Fits(position'),
         scope' \in {"read", "write"},
         writeStatus' \in {"authorized", "unauthorized", "unknown", None},
         faults' \in 0 .. MaxFaults, changes' \in 0 .. MaxChanges
  PROVE  WritesInv'
<1>1. Roster' \in Rosters
  BY DEF Roster, Rosters
<1>2. UNCHANGED <<pc, seen, plan, outcome>>
  BY DEF memory
<1>3. TypeOK'
  BY <1>1, <1>2 DEF WritesInv, TypeOK
<1> QED
  BY <1>2, <1>3 DEF WritesInv

MadeFrom(roster, moves) == roster \in Rosters /\ moves = buildMoves(roster) /\ moves # <<>>

\* A step of one invocation.
LEMMA MemoryChanged ==
  ASSUME WritesInv, NEW w \in Writers,
         NEW to \in Places, pc' = [pc EXCEPT ![w] = to],
         NEW roster \in Rosters \cup {None}, seen' = [seen EXCEPT ![w] = roster],
         NEW moves \in Seq(Moves), plan' = [plan EXCEPT ![w] = moves],
         NEW capability \in {"authorized", "unauthorized", "unknown", None},
         outcome' = [outcome EXCEPT ![w] = capability],
         to = "checkPut" => roster \in Rosters,
         to = "put" => MadeFrom(roster, moves),
         position' \in [Players -> Positions], UNCHANGED status, Fits(position'),
         scope' \in {"read", "write"},
         writeStatus' \in {"authorized", "unauthorized", "unknown", None},
         faults' \in 0 .. MaxFaults, changes' \in 0 .. MaxChanges
  PROVE  WritesInv'
<1>1. status \in [Players -> Statuses]
  BY RosterType DEF WritesInv, TypeOK
<1>2. Roster' \in Rosters
  BY <1>1 DEF Roster, Rosters
<1>3. /\ pc \in [Writers -> Places] /\ seen \in [Writers -> Rosters \cup {None}]
      /\ plan \in [Writers -> Seq(Moves)]
      /\ outcome \in [Writers -> {"authorized", "unauthorized", "unknown", None}]
  BY DEF WritesInv, TypeOK
<1>4. /\ pc' \in [Writers -> Places] /\ seen' \in [Writers -> Rosters \cup {None}]
      /\ plan' \in [Writers -> Seq(Moves)]
      /\ outcome' \in [Writers -> {"authorized", "unauthorized", "unknown", None}]
  BY <1>3
<1>5. \A v \in Writers : plan'[v] \in Seq(Moves)
  BY <1>4
<1>6. \A v \in Writers : {plan'[v][i] : i \in DOMAIN plan'[v]} \subseteq Moves
  BY <1>5, MovesType
<1>7. TypeOK'
  BY <1>2, <1>4, <1>6 DEF TypeOK
<1>8. ASSUME NEW v \in Writers
      PROVE  /\ pc'[v] = "checkPut" => seen'[v] \in Rosters
             /\ pc'[v] = "put" => /\ seen'[v] \in Rosters
                                  /\ plan'[v] = buildMoves(seen'[v])
                                  /\ plan'[v] # <<>>
  <2>1. CASE v = w
    <3>1. pc'[v] = to /\ seen'[v] = roster /\ plan'[v] = moves
      BY <1>3, <2>1
    <3> QED
      BY <3>1 DEF MadeFrom
  <2>2. CASE v # w
    <3>1. pc'[v] = pc[v] /\ seen'[v] = seen[v] /\ plan'[v] = plan[v]
      BY <1>3, <2>2
    <3> QED
      BY <3>1 DEF WritesInv
  <2> QED
    BY <2>1, <2>2
<1> QED
  BY <1>4, <1>7, <1>8 DEF WritesInv

LEMMA WritesKept == WritesInv /\ [Next]_vars => WritesInv'
<1> SUFFICES ASSUME WritesInv, [Next]_vars PROVE WritesInv'
  OBVIOUS
<1>1. /\ position \in [Players -> Positions] /\ status \in [Players -> Statuses]
      /\ Fits(position)
      /\ scope \in {"read", "write"}
      /\ writeStatus \in {"authorized", "unauthorized", "unknown", None}
      /\ faults \in 0 .. MaxFaults /\ changes \in 0 .. MaxChanges
      /\ Roster \in Rosters
  BY RosterType DEF WritesInv, TypeOK
<1>2. /\ pc \in [Writers -> Places] /\ seen \in [Writers -> Rosters \cup {None}]
      /\ plan \in [Writers -> Seq(Moves)]
      /\ outcome \in [Writers -> {"authorized", "unauthorized", "unknown", None}]
  BY DEF WritesInv, TypeOK
<1>3. \A v \in Writers : /\ pc[v] = "checkPut" => seen[v] \in Rosters
                         /\ pc[v] = "put" => seen[v] \in Rosters
                         /\ pc[v] \in Places /\ seen[v] \in Rosters \cup {None}
                         /\ plan[v] \in Seq(Moves)
                         /\ outcome[v] \in {"authorized", "unauthorized", "unknown", None}
  BY <1>2 DEF WritesInv
<1>4. \A v \in Writers : /\ seen = [seen EXCEPT ![v] = seen[v]]
                         /\ plan = [plan EXCEPT ![v] = plan[v]]
                         /\ outcome = [outcome EXCEPT ![v] = outcome[v]]
  BY <1>2
<1>5. CASE UNCHANGED vars
  BY <1>1, <1>5, MemoryKept DEF vars, yahoo, bounds
<1>6. CASE ManagerMoves
  <2>1. PICK p \in Players, slot \in Positions :
          LET new == [position EXCEPT ![p] = slot]
          IN  Acceptable(position, status, new) /\ position' = new
    BY <1>6 DEF ManagerMoves
  <2>2. position' \in [Players -> Positions] /\ Fits(position')
    BY <1>1, <2>1, AcceptedFits
  <2>3. changes' \in 0 .. MaxChanges
    BY <1>1, <1>6, ParametersAssumption DEF ManagerMoves, Change
  <2> QED
    BY <1>1, <1>6, <2>2, <2>3, MemoryKept DEF ManagerMoves
<1>7. CASE HealthChanges
  <2>1. PICK p \in Players, s \in Statuses : status' = [status EXCEPT ![p] = s]
    BY <1>7 DEF HealthChanges
  <2>2. status' \in [Players -> Statuses]
    BY <1>1, <2>1
  <2>3. changes' \in 0 .. MaxChanges
    BY <1>1, <1>7, ParametersAssumption DEF HealthChanges, Change
  <2> QED
    BY <1>1, <1>7, <2>2, <2>3, MemoryKept DEF HealthChanges
<1>8. CASE StatusExpires
  BY <1>1, <1>8, MemoryKept DEF StatusExpires, yahoo, bounds
<1>9. ASSUME NEW w \in Writers, Starts(w) PROVE WritesInv'
  <2>1. /\ pc' = [pc EXCEPT ![w] = "read"] /\ UNCHANGED <<seen, plan, outcome>>
        /\ UNCHANGED <<position, status, writeStatus, changes, faults>>
        /\ scope' \in {"read", "write"}
    BY <1>1, <1>9 DEF Starts, ApplicationStarts, CallbackStarts, Goto, yahoo
  <2> QED
    BY <1>1, <1>3, <1>4, <2>1, MemoryChanged DEF Places
<1>10. ASSUME NEW w \in Writers, Dies(w) PROVE WritesInv'
  <2>1. faults' \in 0 .. MaxFaults
    BY <1>1, <1>10, ParametersAssumption DEF Dies
  <2>2. <<>> \in Seq(Moves)
    OBVIOUS
  <2> QED
    BY <1>1, <1>10, <2>1, <2>2, MemoryChanged DEF Dies, yahoo, Places
<1>11. ASSUME NEW w \in Writers, RequestFails(w) PROVE WritesInv'
  <2>1. faults' \in 0 .. MaxFaults
    BY <1>1, <1>11, ParametersAssumption DEF RequestFails
  <2> QED
    BY <1>1, <1>3, <1>4, <1>11, <2>1, MemoryChanged
       DEF RequestFails, Failure, Concludes, Goto, yahoo, Places
<1>12. ASSUME NEW w \in Writers, pc[w] = "put",
              Acceptable(position, status, After(position, plan[w])),
              position' = After(position, plan[w])
       PROVE  position' \in [Players -> Positions] /\ Fits(position')
  <2>1. After(position, plan[w]) \in [Players -> Positions]
    BY <1>1, <1>3, AfterMoves
  <2> QED
    BY <1>12, <2>1, AcceptedFits
<1>13. ASSUME NEW w \in Writers, PutUnanswered(w) PROVE WritesInv'
  <2>1. faults' \in 0 .. MaxFaults
    BY <1>1, <1>13, ParametersAssumption DEF PutUnanswered
  <2>2. position' \in [Players -> Positions] /\ Fits(position')
    BY <1>12, <1>13 DEF PutUnanswered
  <2> QED
    BY <1>1, <1>3, <1>4, <1>13, <2>1, <2>2, MemoryChanged
       DEF PutUnanswered, Failure, Concludes, Goto, Places
<1>14. ASSUME NEW w \in Writers, Step(w) PROVE WritesInv'
  <2>1. CASE ReadWork(w)
    <3>1. PICK r \in Rosters : r = Roster
      BY <1>1
    <3>2. PICK moves \in Seq(Moves) : moves = buildMoves(r)
      BY Built
    <3>3. /\ pc' = [pc EXCEPT ![w] = "put"]
          /\ seen' = [seen EXCEPT ![w] = r]
          /\ plan' = [plan EXCEPT ![w] = moves]
          /\ moves # <<>>
          /\ UNCHANGED <<outcome, position, status, scope, writeStatus, faults, changes>>
      BY <2>1, <3>1, <3>2 DEF ReadWork, Goto, yahoo, bounds
    <3>4. MadeFrom(r, moves)
      BY <3>2, <3>3 DEF MadeFrom
    <3> QED
      BY <1>1, <1>3, <1>4, <3>3, <3>4, MemoryChanged DEF Places
  <2>2. CASE ReadNoWork(w)
    BY <1>1, <1>3, <1>4, <2>2, MemoryChanged
       DEF ReadNoWork, Applied, Concludes, Goto, yahoo, bounds, Places
  <2>3. CASE PutAccepted(w)
    <3>1. position' \in [Players -> Positions] /\ Fits(position')
      BY <1>12, <2>3 DEF PutAccepted, Goto
    <3> QED
      BY <1>1, <1>3, <1>4, <2>3, <3>1, MemoryChanged DEF PutAccepted, Goto, bounds, Places
  <2>4. CASE PutRefused(w)
    BY <1>1, <1>3, <1>4, <2>4, MemoryChanged
       DEF PutRefused, Failure, Concludes, Goto, yahoo, bounds, Places
  <2>5. CASE Reread(w)
    BY <1>1, <1>3, <1>4, <2>5, MemoryChanged
       DEF Reread, Applied, Concludes, Goto, yahoo, bounds, Places
  <2>6. CASE CheckRead(w)
    <3>1. <<>> \in Seq(Moves)
      OBVIOUS
    <3> QED
      BY <1>1, <1>3, <1>4, <2>6, <3>1, MemoryChanged DEF CheckRead, Goto, yahoo, bounds, Places
  <2>7. CASE CheckPutAccepted(w)
    <3>1. seen[w].position \in [Players -> Positions]
      BY <1>3, <2>7 DEF CheckPutAccepted, Goto, Rosters
    <3>2. Fits(position')
      BY <2>7, AcceptedFits DEF CheckPutAccepted
    <3> QED
      BY <1>1, <1>3, <1>4, <2>7, <3>1, <3>2, MemoryChanged
         DEF CheckPutAccepted, Goto, bounds, Places
  <2>8. CASE CheckPutRefused(w)
    BY <1>1, <1>3, <1>4, <2>8, MemoryChanged
       DEF CheckPutRefused, Failure, Concludes, Goto, yahoo, bounds, Places
  <2>9. CASE CheckReread(w)
    BY <1>1, <1>3, <1>4, <2>9, MemoryChanged
       DEF CheckReread, Concludes, Goto, yahoo, bounds, Places
  <2>10. CASE RecordStatus(w)
    <3>1. <<>> \in Seq(Moves)
      OBVIOUS
    <3> QED
      BY <1>1, <1>3, <1>4, <2>10, <3>1, MemoryChanged DEF RecordStatus, Goto, yahoo, bounds, Places
  <2> QED
    BY <1>14, <2>1, <2>2, <2>3, <2>4, <2>5, <2>6, <2>7, <2>8, <2>9, <2>10 DEF Step
<1> QED
  BY <1>5, <1>6, <1>7, <1>8, <1>9, <1>10, <1>11, <1>13, <1>14 DEF Next

LEMMA WritesAreMade == Spec => []WritesInv
<1>1. Init => WritesInv
  BY WritesStart
<1>2. WritesInv /\ [Next]_vars => WritesInv'
  BY WritesKept
<1> QED
  BY <1>1, <1>2, PTL DEF Spec

\* buildYahooLineupExecutionMoves: a list of moves that Yahoo refuses for the roster it
\* would make was overtaken by a change of the roster, or activates a player from IL
\* directly.  Every other list is legal, whatever the roster and the league's slots.
THEOREM ListsAreLegal == Spec => RefusalExplained
<1> DEFINE A == \A w \in Writers :
       PutRefused(w) /\ Authorized /\ Undisturbed(w) => ActivatesDirectly(plan[w])
<1>1. WritesInv => A
  <2> SUFFICES ASSUME WritesInv, NEW w \in Writers,
                      PutRefused(w), Authorized, Undisturbed(w)
               PROVE  ActivatesDirectly(plan[w])
    OBVIOUS
  <2>1. pc[w] = "put" /\ ~Acceptable(position, status, After(position, plan[w]))
    BY DEF PutRefused
  <2>2. PICK r \in Rosters : r = seen[w] /\ plan[w] = buildMoves(r)
    BY <2>1 DEF WritesInv
  <2>3. r.position = position /\ r.status = status
    BY <2>2 DEF Undisturbed, Roster
  <2>4. Fits(r.position)
    BY <2>3 DEF WritesInv
  <2>5. directIlActivationMoves(r) # <<>>
    BY <2>1, <2>2, <2>3, <2>4, LegalList
  <2> QED
    BY <2>2, <2>5, DirectFirst
<1>2. WritesInv /\ [Next]_vars => [A]_vars
  BY <1>1
<1> QED
  BY <1>2, WritesAreMade, PTL DEF Spec, RefusalExplained

\* YahooLineupExecutor.applyForDate: a write that nothing overtook keeps every fit player
\* who plays, brings no unavailable one in, and does something.
THEOREM WritesHelp == Spec => WriteHelps
<1> DEFINE A == \A w \in Writers :
       PutAccepted(w) /\ Undisturbed(w) =>
         /\ Playing(Roster, TRUE) \subseteq Playing(Roster', TRUE)
         /\ Playing(Roster', FALSE) \subseteq Playing(Roster, FALSE)
         /\ \/ Playing(Roster, TRUE) # Playing(Roster', TRUE)
            \/ Playing(Roster, FALSE) # Playing(Roster', FALSE)
            \/ \E p \in Players : isHealthyIlPlayer(Roster, p) /\ ~isHealthyIlPlayer(Roster', p)
<1>1. WritesInv => A
  <2> SUFFICES ASSUME WritesInv, NEW w \in Writers, PutAccepted(w), Undisturbed(w)
               PROVE  /\ Playing(Roster, TRUE) \subseteq Playing(Roster', TRUE)
                      /\ Playing(Roster', FALSE) \subseteq Playing(Roster, FALSE)
                      /\ \/ Playing(Roster, TRUE) # Playing(Roster', TRUE)
                         \/ Playing(Roster, FALSE) # Playing(Roster', FALSE)
                         \/ \E p \in Players :
                              isHealthyIlPlayer(Roster, p) /\ ~isHealthyIlPlayer(Roster', p)
    OBVIOUS
  <2>1. pc[w] = "put" /\ position' = After(position, plan[w]) /\ status' = status
    BY DEF PutAccepted, Goto
  <2>2. PICK r \in Rosters : r = seen[w] /\ plan[w] = buildMoves(r) /\ buildMoves(r) # <<>>
    BY <2>1 DEF WritesInv
  <2>3. r = Roster /\ r.position = position /\ r.status = status
    BY <2>2 DEF Undisturbed, Roster
  <2>4. PICK new : new = Made(r)
    OBVIOUS
  <2>5. Roster' = new
    BY <2>1, <2>2, <2>3, <2>4 DEF Roster, Made
  <2>6. /\ Playing(r, TRUE) \subseteq Playing(new, TRUE)
        /\ Playing(new, FALSE) \subseteq Playing(r, FALSE)
        /\ \/ Playing(r, TRUE) # Playing(new, TRUE)
           \/ Playing(r, FALSE) # Playing(new, FALSE)
           \/ \E p \in Players : isHealthyIlPlayer(r, p) /\ ~isHealthyIlPlayer(new, p)
    BY <2>2, <2>4, MadePlays, MadeDiffers
  <2> QED
    BY <2>3, <2>5, <2>6
<1>2. WritesInv /\ [Next]_vars => [A]_vars
  BY <1>1
<1> QED
  BY <1>2, WritesAreMade, PTL DEF Spec, WriteHelps

\* A fit player who plays when a list is put, be it overtaken or not, plays on, unless
\* the list was made to take him off the IL to the bench.
THEOREM StartersStay == Spec => StartersKept
<1> DEFINE A == \A w \in Writers :
       PutAccepted(w) \/ PutUnanswered(w) =>
         \A p \in Playing(Roster, TRUE) \ Playing(Roster', TRUE) :
           \E i \in DOMAIN plan[w] :
             plan[w][i] = [player |-> p, from |-> "IL", to |-> "BN"]
<1>1. WritesInv => A
  <2> SUFFICES ASSUME WritesInv, NEW w \in Writers, PutAccepted(w) \/ PutUnanswered(w),
                      NEW p \in Playing(Roster, TRUE) \ Playing(Roster', TRUE)
               PROVE  \E i \in DOMAIN plan[w] :
                        plan[w][i] = [player |-> p, from |-> "IL", to |-> "BN"]
    OBVIOUS
  <2>1. /\ pc[w] = "put" /\ position' = After(position, plan[w]) /\ status' = status
        /\ Acceptable(position, status, After(position, plan[w]))
    BY DEF PutAccepted, PutUnanswered, Failure, Concludes, Goto
  <2>2. PICK r \in Rosters : plan[w] = buildMoves(r)
    BY <2>1 DEF WritesInv
  <2>3. p \in Players /\ position[p] \notin Reserve /\ status[p] = "fit" /\ position'[p] \in Reserve
    BY <2>1 DEF Playing, isActive, isHardUnavailable, Roster
  <2>4. PICK new : new = After(position, plan[w])
    OBVIOUS
  <2>5. position \in [Players -> Positions]
    BY RosterType DEF WritesInv, TypeOK
  <2>6. PICK moves \in Seq(Moves) : moves = plan[w] /\ moves = buildMoves(r)
    BY <2>2, Built
  <2>7. /\ \A q \in Players \ Moved(moves) : new[q] = position[q]
        /\ \A q \in Moved(moves) : \E m \in ToSet(moves) : m.player = q /\ new[q] = m.to
    BY <2>4, <2>5, <2>6, AfterMoves
  <2>8. new[p] # position[p] /\ new[p] \in Reserve /\ MayPlay(status, p, new[p])
    <3>1. position' = new
      BY <2>1, <2>4
    <3>2. new[p] # position[p] /\ new[p] \in Reserve
      BY <2>3, <3>1
    <3>3. Acceptable(position, status, new)
      BY <2>1, <2>4
    <3> QED
      BY <2>3, <3>2, <3>3 DEF Acceptable
  <2>9. new[p] = "BN"
    BY <2>3, <2>8 DEF MayPlay, Reserve
  <2>10. PICK m \in ToSet(moves) : m.player = p /\ m.to = "BN"
    BY <2>3, <2>7, <2>8, <2>9
  <2>11. m \in Kinds(r)
    BY <2>6, <2>10, Built
  <2>12. m \in ToSet(benchIlActivationMoves(r))
    <3>1. /\ m \in ToSet(directIlActivationMoves(r)) => m.to \notin Reserve
          /\ m \in ToSet(activeToIlMoves(r)) => m.to = "IL"
          /\ m \in Replaces(r) \cup Opens(r) => m.to \notin Reserve
      BY <2>11, WhoMoves
    <3> QED
      BY <2>10, <2>11, <3>1 DEF Kinds, Reserve
  <2>13. m \in Moves /\ m.from = "IL"
    BY <2>11, <2>12, WhoMoves DEF healthyIlPlayers, isHealthyIlPlayer
  <2>14. m = [player |-> p, from |-> "IL", to |-> "BN"]
    BY <2>10, <2>13 DEF Moves
  <2> QED
    BY <2>6, <2>10, <2>14 DEF ToSet
<1>2. WritesInv /\ [Next]_vars => [A]_vars
  BY <1>1
<1> QED
  BY <1>2, WritesAreMade, PTL DEF Spec, StartersKept

-----------------------------------------------------------------------------
(* The advice.                                                             *)

LEMMA WeakestExists ==
  ASSUME NEW S \in SUBSET Players, S # {}
  PROVE  Weakest(S) \in S
<1> DEFINE values == {Score[p] : p \in S}
<1>1. \A p \in S : Score[p] \in Nat
  BY ScoreAssumption
<1>2. values \in SUBSET Nat /\ values # {}
  BY <1>1
<1> HIDE DEF values
<1>3. PICK x \in values : \A y \in values : x <= y
  BY <1>2, LeastNatural
<1>4. PICK p \in S : x = Score[p]
  BY <1>3 DEF values
<1>5. \A q \in S : Score[q] \in values
  BY DEF values
<1>6. \A q \in S : Score[p] <= Score[q]
  BY <1>3, <1>4, <1>5
<1> QED
  BY <1>6 DEF Weakest

\* A bench player who can play for a starter worth less than him.
GoodSwaps(r) == {s \in Swap : /\ isStartableReserve(r, s.start)
                              /\ isActive(r, s.sit)
                              /\ playerCanFillSlot(s.start, r.position[s.sit])
                              /\ Score[s.start] > Score[s.sit]}

\* Swaps with no player in common.
SitsApart(swaps)   == \A i, j \in DOMAIN swaps : swaps[i].sit = swaps[j].sit => i = j
StartsApart(swaps) == \A i, j \in DOMAIN swaps : swaps[i].start = swaps[j].start => i = j

LEMMA Recommended ==
  ASSUME NEW r \in Rosters
  PROVE  /\ recommendations(r) \in Seq(GoodSwaps(r))
         /\ SitsApart(recommendations(r)) /\ StartsApart(recommendations(r))
<1> DEFINE E == GoodSwaps(r)
           A == {swaps \in Seq(E) : SitsApart(swaps)}
           should == ToSet(optimalAssignments(r))
           Sits(swaps, start) ==
             {p \in SitCandidates(r, should) : TakesPlace(r, swaps, start, p)}
           Pair(swaps, start) ==
             IF Sits(swaps, start) = {} \/ Score[start] <= Score[Weakest(Sits(swaps, start))]
               THEN swaps
               ELSE Append(swaps, [start |-> start, sit |-> Weakest(Sits(swaps, start))])
           X      == StartCandidates(r, should)
           list   == BestFirst[X]
           n      == Len(list)
           S      == 1 .. n
           pair   == [p \in X |-> [swaps \in A |-> Pair(swaps, p)]]
           top(s) == CHOOSE x \in s : \A y \in s : x >= y
           Folds(g) == g = [s \in SUBSET S |-> IF s = {} THEN <<>>
                                              ELSE Pair(g[s \ {top(s)}], list[top(s)])]
           made   == CHOOSE g : Folds(g)
           none   == <<>>
           Among(swaps, i) == \A k \in DOMAIN swaps : \E j \in 1 .. i : swaps[k].start = list[j]
<1>1. /\ list \in Seq(X) /\ n \in Nat /\ list \in [S -> X] /\ DOMAIN list = S
      /\ IsInjective(list)
  <2>1. X \in SUBSET Players
    BY DEF StartCandidates, Considered
  <2> HIDE DEF X
  <2>2. Lists(list, X)
    BY <2>1, BestFirstLists
  <2> HIDE DEF list
  <2>3. PlayerList(list, X)
    BY <2>1, <2>2, SortedList
  <2> QED
    BY <2>3 DEF PlayerList
<1>2. recommendations(r) = made[S]
  <2>1. recommendations(r) = FoldLeft(Pair, <<>>, list)
    BY DEF recommendations
  <2> HIDE DEF Pair, list
  <2> QED
    BY <1>1, <2>1 DEF FoldLeft, MapThenFoldSet, Max
<1>3. ASSUME NEW swaps \in A, NEW p \in X
      PROVE  /\ Pair(swaps, p) \in A
             /\ \/ Pair(swaps, p) = swaps
                \/ \E swap \in E : swap.start = p /\ Pair(swaps, p) = Append(swaps, swap)
  <2> DEFINE C == Sits(swaps, p)
             q == Weakest(C)
             swap == [start |-> p, sit |-> q]
  <2>1. CASE C = {} \/ Score[p] <= Score[q]
    BY <2>1
  <2>2. CASE ~ (C = {} \/ Score[p] <= Score[q])
    <3>1. C \in SUBSET Players /\ C # {}
      BY <2>2 DEF SitCandidates, Considered
    <3>2. p \in Players /\ isStartableReserve(r, p)
      BY DEF StartCandidates, Considered
    <3> HIDE DEF C
    <3>3. q \in C
      BY <3>1, WeakestExists
    <3>4. /\ q \in Players /\ isActive(r, q)
          /\ Free(swaps, q) /\ playerCanFillSlot(p, r.position[q])
      BY <3>1, <3>3 DEF C, SitCandidates, Considered, TakesPlace
    <3>5. Score[p] > Score[q]
      BY <2>2, <3>2, <3>4, ScoreAssumption
    <3> HIDE DEF q, X
    <3>6. swap \in E /\ swap.start = p /\ swap.sit = q
      BY <3>2, <3>4, <3>5 DEF GoodSwaps, Swap
    <3>7. Pair(swaps, p) = Append(swaps, swap)
      BY <2>2 DEF q, C
    <3>8. swaps \in Seq(E) /\ SitsApart(swaps)
      OBVIOUS
    <3>9. \A i \in DOMAIN swaps : swaps[i].sit # q
      BY <3>4 DEF Free
    <3> DEFINE more == Append(swaps, swap)
               k    == Len(swaps)
    <3> HIDE DEF E, swap
    <3>10. /\ more \in Seq(E) /\ k \in Nat /\ DOMAIN swaps = 1 .. k
           /\ DOMAIN more = 1 .. k + 1
           /\ \A i \in 1 .. k : more[i] = swaps[i]
           /\ more[k + 1] = swap
      BY <3>6, <3>8
    <3> HIDE DEF more, k
    <3>11. \A i \in 1 .. k + 1 : i \in 1 .. k \/ i = k + 1
      BY <3>10
    <3>12. SitsApart(more)
      BY <3>6, <3>8, <3>9, <3>10, <3>11 DEF SitsApart
    <3> QED
      BY <3>6, <3>7, <3>10, <3>12 DEF more
  <2> QED
    BY <2>1, <2>2
<1> HIDE DEF Pair, list, X, n
<1>4. none \in A
  <2>1. none \in Seq(E) /\ DOMAIN none = {}
    OBVIOUS
  <2> QED
    BY <2>1 DEF SitsApart
<1>5. \A s \in SUBSET S : s # {} => top(s) \in S /\ top(s) = Greatest(s)
  BY <1>1, GreatestExists DEF Greatest
<1>6. HasListFold(n, list, A, none, pair)
  <2>1. list \in [1 .. n -> X]
    BY <1>1
  <2>2. \A p \in X : \A swaps \in A : pair[p][swaps] \in A
    BY <1>3
  <2> HIDE DEF A, pair, none
  <2> QED
    BY <1>1, <1>4, <2>1, <2>2, ListFoldExists
<1>7. PICK g \in [SUBSET S -> A] : \A s \in SUBSET S :
        g[s] = IF s = {} THEN none ELSE pair[list[Greatest(s)]][g[s \ {Greatest(s)}]]
  BY <1>6 DEF HasListFold
<1>8. \A s \in SUBSET S : s # {} =>
        pair[list[Greatest(s)]][g[s \ {Greatest(s)}]] = Pair(g[s \ {top(s)}], list[top(s)])
  <2> SUFFICES ASSUME NEW s \in SUBSET S, s # {}
               PROVE  pair[list[Greatest(s)]][g[s \ {Greatest(s)}]]
                        = Pair(g[s \ {top(s)}], list[top(s)])
    OBVIOUS
  <2>1. list[Greatest(s)] \in X /\ g[s \ {Greatest(s)}] \in A
    BY <1>1, <1>5
  <2> HIDE DEF top, A
  <2> QED
    BY <1>5, <2>1
<1>9. \E h : Folds(h)
  <2> HIDE DEF pair, top, A
  <2>1. g = [s \in SUBSET S |-> IF s = {} THEN <<>> ELSE Pair(g[s \ {top(s)}], list[top(s)])]
    BY <1>7, <1>8
  <2> QED
    BY <2>1
<1>10. Folds(made)
  <2> HIDE DEF Folds
  <2> QED
    BY <1>9
<1> HIDE DEF made
<1> DEFINE Fine(swaps, i) == swaps \in A /\ StartsApart(swaps) /\ Among(swaps, i)
           Good == {i \in 0 .. n : Fine(made[1 .. i], i)}
<1>11. 0 \in Good
  <2>1. 1 .. 0 = {} /\ {} \in SUBSET S /\ 0 \in 0 .. n
    BY <1>1
  <2>2. made[{}] = none
    BY <1>10, <2>1
  <2>3. DOMAIN none = {}
    OBVIOUS
  <2>4. Fine(none, 0)
    <3> HIDE DEF A, none
    <3> QED
      BY <1>4, <2>3 DEF StartsApart
  <2> HIDE DEF A, none, Fine
  <2> QED
    BY <2>1, <2>2, <2>4
<1>12. \A i \in 0 .. n - 1 : i \in Good => i + 1 \in Good
  <2> SUFFICES ASSUME NEW i \in 0 .. n - 1, Fine(made[1 .. i], i) PROVE i + 1 \in Good
    OBVIOUS
  <2> DEFINE next == 1 .. i + 1
             before == made[1 .. i]
             after  == made[next]
  <2>1. Greatest(next) = i + 1 /\ next \ {i + 1} = 1 .. i
    <3>1. i + 1 \in Nat \ {0} /\ (i + 1) - 1 = i
      BY <1>1
    <3>2. Greatest(1 .. i + 1) = i + 1 /\ (1 .. i + 1) \ {i + 1} = 1 .. (i + 1) - 1
      BY <3>1, GreatestIsLast
    <3> QED
      BY <3>1, <3>2
  <2>2. i + 1 \in next /\ i + 1 \in S /\ i + 1 \in 0 .. n /\ \A x \in next : x \in S
    BY <1>1
  <2>3. \A j \in 1 .. i : j \in S /\ j # i + 1 /\ j \in 1 .. i + 1
    BY <1>1
  <2>4. i + 1 \in 1 .. i + 1
    BY <1>1
  <2> HIDE DEF next, S
  <2>5. next \in SUBSET S /\ next # {}
    BY <2>2
  <2>6. after = Pair(made[next \ {Greatest(next)}], list[Greatest(next)])
    <3> HIDE DEF top
    <3> QED
      BY <1>5, <1>10, <2>5
  <2>7. after = Pair(before, list[i + 1])
    BY <2>1, <2>6
  <2>8. list[i + 1] \in X /\ \A j \in 1 .. i : list[j] # list[i + 1]
    BY <1>1, <2>2, <2>3 DEF IsInjective
  <2> HIDE DEF A, after, before
  <2>9. before \in A /\ StartsApart(before) /\ Among(before, i)
    BY DEF before
  <2>10. /\ after \in A
         /\ \/ after = before
            \/ \E swap \in E : swap.start = list[i + 1] /\ after = Append(before, swap)
    BY <1>3, <2>7, <2>8, <2>9
  <2>11. Fine(after, i + 1)
    <3>1. CASE after = before
      BY <2>3, <2>9, <2>10, <3>1
    <3>2. ASSUME NEW swap \in E, swap.start = list[i + 1], after = Append(before, swap)
          PROVE  Fine(after, i + 1)
      <4> DEFINE k == Len(before)
      <4>1. before \in Seq(E)
        BY <2>9 DEF A
      <4> HIDE DEF E
      <4>2. /\ k \in Nat /\ DOMAIN before = 1 .. k
            /\ DOMAIN after = 1 .. k + 1
            /\ \A x \in 1 .. k : after[x] = before[x]
            /\ after[k + 1] = swap
        BY <3>2, <4>1
      <4> HIDE DEF k
      <4>3. \A x \in 1 .. k + 1 : x \in 1 .. k \/ x = k + 1
        BY <4>2
      <4>4. \A x \in 1 .. k : after[x].start # swap.start /\ \E j \in 1 .. i : after[x].start = list[j]
        BY <2>8, <2>9, <3>2, <4>2
      <4>5. StartsApart(after)
        BY <2>9, <4>2, <4>3, <4>4 DEF StartsApart
      <4>6. Among(after, i + 1)
        BY <2>3, <2>4, <3>2, <4>2, <4>3, <4>4
      <4> QED
        BY <2>10, <4>5, <4>6
    <3> QED
      BY <2>10, <3>1, <3>2
  <2> HIDE DEF Fine
  <2> QED
    BY <2>2, <2>11 DEF after, next
<1> HIDE DEF Good
<1>13. \A i \in 0 .. n : i \in Good
  BY <1>1, <1>11, <1>12, UpTo
<1>14. made[S] \in A /\ StartsApart(made[S])
  <2>1. n \in Good
    BY <1>1, <1>13
  <2> HIDE DEF A
  <2> QED
    BY <2>1 DEF Good
<1> QED
  BY <1>2, <1>14

\* What players are worth is a sum of their scores.
LEMMA WorthIsSum ==
  \E g \in [SUBSET Players -> Nat] :
    IsSum(g, Players, Score) /\ \A T \in SUBSET Players : Worth(T) = g[T]
<1>1. Score \in [Players -> Nat]
  BY ScoreAssumption
<1>2. PICK g \in [SUBSET Players -> Nat] : IsSum(g, Players, Score)
  BY <1>1, FinitePlayers, SumExists
<1>3. ASSUME NEW T \in SUBSET Players PROVE Worth(T) = g[T]
  <2> DEFINE Sums(f) == f = [s \in SUBSET T |-> IF s = {} THEN 0
                                ELSE LET x == CHOOSE y \in s : TRUE IN Score[x] + f[s \ {x}]]
             h == CHOOSE f : Sums(f)
  <2>1. Worth(T) = h[T]
    BY DEF Worth, MapThenSumSet, MapThenFoldSet
  <2>2. \E f : Sums(f)
    <3>1. [p \in T |-> Score[p]] \in [T -> Nat] /\ IsFiniteSet(T)
      BY <1>1, FiniteTeams
    <3>2. PICK f \in [SUBSET T -> Nat] : IsSum(f, T, [p \in T |-> Score[p]])
      BY <3>1, SumExists
    <3>3. \A s \in SUBSET T : s # {} => AnyOf(s) \in T /\ AnyOf(s) = CHOOSE y \in s : TRUE
      BY DEF AnyOf
    <3>4. f = [s \in SUBSET T |-> IF s = {} THEN 0
                                ELSE LET x == CHOOSE y \in s : TRUE IN Score[x] + f[s \ {x}]]
      BY <3>2, <3>3 DEF IsSum
    <3> QED
      BY <3>4
  <2>3. Sums(h)
    <3> HIDE DEF Sums
    <3> QED
      BY <2>2
  <2> HIDE DEF h
  <2>4. IsSum(h, T, Score)
    BY <2>3 DEF IsSum, AnyOf
  <2>5. \A s \in SUBSET T : g[s] = h[s]
    BY <1>1, <1>2, <2>4, FinitePlayers, SumsAgree
  <2> QED
    BY <2>1, <2>5
<1> QED
  BY <1>2, <1>3

LEMMA WorthGrows ==
  ASSUME NEW T \in SUBSET Players, NEW p \in Players \ T
  PROVE  /\ Worth(T) \in Nat /\ Score[p] \in Nat \ {0}
         /\ Worth(T \cup {p}) = Score[p] + Worth(T)
<1>1. PICK g \in [SUBSET Players -> Nat] :
        IsSum(g, Players, Score) /\ \A S \in SUBSET Players : Worth(S) = g[S]
  BY WorthIsSum
<1>2. Score \in [Players -> Nat] /\ Score[p] \in Nat \ {0}
  BY ScoreAssumption
<1>3. \A s \in SUBSET Players : \A x \in s : g[s] = Score[x] + g[s \ {x}]
  <2>1. IsFiniteSet(Players) /\ Score \in [Players -> Nat]
    BY <1>2, FinitePlayers
  <2>2. IsSum(g, Players, Score)
    BY <1>1
  <2>3. AddsUp(g, Players, Score)
    BY <2>1, <2>2, SumAddsUp
  <2> QED
    BY <2>3 DEF AddsUp
<1> DEFINE more == T \cup {p}
<1>4. more \in SUBSET Players /\ p \in more /\ more \ {p} = T
  OBVIOUS
<1> HIDE DEF more
<1>5. g[more] = Score[p] + g[T]
  BY <1>3, <1>4
<1> QED
  BY <1>1, <1>2, <1>4, <1>5 DEF more

-----------------------------------------------------------------------------
(* The optimal lineup.  The search extends partial lineups place by place; *)
(* after i places it has every way to fill the first i of them (Searched), *)
(* so that what it chooses in the end is the best of all (BestOfAll).      *)

Starters(r) == {p \in Players : isActive(r, p)}

\* The places the search fills are those of the starters, each once.
LEMMA PlacesInOrder ==
  ASSUME NEW r \in Rosters
  PROVE  \E owner : /\ Lists(owner, Starters(r))
                    /\ OrderedSlots(r) = [k \in 1 .. Cardinality(Starters(r)) |-> r.position[owner[k]]]
<1> DEFINE X      == Starters(r)
           active == InOrder[X]
           n      == Cardinality(X)
           D      == 1 .. n
           slots  == [i \in D |-> r.position[active[i]]]
           count  == [i \in D |->
                        Cardinality({p \in Considered(r) : playerCanFillSlot(p, slots[i])})]
           Before(i) == {j \in D : count[j] < count[i] \/ (count[j] = count[i] /\ j < i)}
           below  == [i \in D |-> Before(i)]
           order  == [k \in D |-> CHOOSE i \in D : Cardinality(Before(i)) = k - 1]
<1>1. n \in Nat /\ Lists(active, X)
  BY FiniteTeams, InOrderLists DEF Starters
<1>2. DOMAIN active = D /\ active \in [D -> X]
  BY <1>1 DEF Lists
<1>3. ActiveSlots(r) = slots
  <2>1. ActiveSlots(r) = [i \in DOMAIN active |-> r.position[active[i]]]
    BY DEF ActiveSlots, Starters
  <2> QED
    BY <1>2, <2>1
<1> HIDE DEF active
<1>4. OrderedSlots(r) = [k \in D |-> slots[CHOOSE i \in D : Cardinality(Before(i)) = k - 1]]
  <2>1. DOMAIN slots = D
    OBVIOUS
  <2> HIDE DEF slots, D
  <2> QED
    BY <1>3, <2>1 DEF OrderedSlots
<1>5. \A i \in D : count[i] \in Nat
  <2>1. ASSUME NEW i \in D PROVE count[i] \in Nat
    <3> DEFINE T == {p \in Considered(r) : playerCanFillSlot(p, slots[i])}
    <3>1. T \in SUBSET Players
      BY DEF Considered
    <3> HIDE DEF T
    <3>2. Cardinality(T) \in Nat
      BY <3>1, FiniteTeams
    <3> QED
      BY <3>2 DEF T
  <2> HIDE DEF count
  <2> QED
    BY <2>1
<1> HIDE DEF count, slots
<1>6. IsFiniteSet(D) /\ Cardinality(D) = n
  BY <1>1, FS_Interval
<1>7. Ranks(below, D)
  <2>1. \A i \in D : i \in Nat
    BY <1>1
  <2>2. /\ \A p \in D : p \notin below[p]
        /\ \A p, q \in D : q \in below[p] => below[q] \subseteq below[p]
    BY <1>5, <2>1
  <2>3. \A p, q \in D : p = q \/ q \in below[p] \/ p \in below[q]
    BY <1>5, <2>1
  <2>4. below \in [D -> SUBSET D]
    OBVIOUS
  <2> QED
    BY <2>2, <2>3, <2>4 DEF Ranks
<1>8. ListedByRank(order, below, D)
  <2>1. ASSUME NEW k \in D, NEW i \in D, Cardinality(below[i]) = k - 1
        PROVE  order[k] \in D /\ Cardinality(below[order[k]]) = k - 1
    <3>1. Cardinality(Before(i)) = k - 1
      BY <2>1
    <3>2. order[k] = CHOOSE j \in D : Cardinality(Before(j)) = k - 1
      OBVIOUS
    <3> HIDE DEF order, Before
    <3>3. order[k] \in D /\ Cardinality(Before(order[k])) = k - 1
      BY <3>1, <3>2
    <3> QED
      BY <3>3
  <2> HIDE DEF Before, D
  <2>2. order = [k \in D |-> order[k]]
    OBVIOUS
  <2> HIDE DEF order, below
  <2> QED
    BY <1>6, <2>1, <2>2 DEF ListedByRank, D
<1>9. Lists(order, D)
  <2> HIDE DEF order, below, D
  <2> QED
    BY <1>6, <1>7, <1>8, RankedLists
<1>10. /\ order \in [D -> D] /\ IsInjective(order)
       /\ \A i \in D : \E k \in D : order[k] = i
  <2> HIDE DEF order
  <2> QED
    BY <1>6, <1>9 DEF Lists
<1> DEFINE owner == [k \in D |-> active[order[k]]]
<1>11. OrderedSlots(r) = [k \in D |-> r.position[owner[k]]]
  <2>1. \A k \in D : order[k] = CHOOSE i \in D : Cardinality(Before(i)) = k - 1
    OBVIOUS
  <2> HIDE DEF order, Before
  <2>2. OrderedSlots(r) = [k \in D |-> slots[order[k]]]
    BY <1>4, <2>1
  <2>3. \A k \in D : slots[order[k]] = r.position[owner[k]]
    BY <1>10 DEF slots
  <2> HIDE DEF owner
  <2> QED
    BY <2>2, <2>3
<1> HIDE DEF order
<1>12. Lists(owner, X)
  <2>1. owner \in [D -> X]
    BY <1>2, <1>10
  <2>2. IsInjective(owner)
    BY <1>1, <1>2, <1>10 DEF Lists, IsInjective
  <2>3. \A p \in X : \E k \in D : owner[k] = p
    BY <1>1, <1>10 DEF Lists
  <2> HIDE DEF owner
  <2> QED
    BY <2>1, <2>2, <2>3 DEF Lists
<1> QED
  BY <1>11, <1>12

\* One step of the search: every partial lineup, with each of those who may come next.
FillNext(r, partials, slot) ==
  FlattenSeq([i \in DOMAIN partials |->
    LET fit == BestFirst[{p \in Considered(r) \ ToSet(partials[i]) : playerCanFillSlot(p, slot)}]
    IN  [k \in DOMAIN fit |-> Append(partials[i], fit[k])]])

Extends(r, b, a, slot) ==
  \E p \in Considered(r) \ ToSet(a) : playerCanFillSlot(p, slot) /\ b = Append(a, p)

LEMMA Filled ==
  ASSUME NEW r \in Rosters, NEW partials \in Seq(Seq(Considered(r))), NEW slot
  PROVE  /\ FillNext(r, partials, slot) \in Seq(Seq(Considered(r)))
         /\ ToSet(FillNext(r, partials, slot)) =
              {b \in Seq(Considered(r)) : \E a \in ToSet(partials) : Extends(r, b, a, slot)}
<1> DEFINE C       == Considered(r)
           E       == Seq(C)
           m       == Len(partials)
           free(i) == {p \in C \ ToSet(partials[i]) : playerCanFillSlot(p, slot)}
           fit(i)  == BestFirst[free(i)]
           way(i)  == [k \in DOMAIN fit(i) |-> Append(partials[i], fit(i)[k])]
           ways    == [i \in 1 .. m |-> way(i)]
<1>1. /\ m \in Nat /\ DOMAIN partials = 1 .. m
      /\ \A i \in 1 .. m : partials[i] \in E
  OBVIOUS
<1>2. FillNext(r, partials, slot) = FlattenSeq(ways)
  BY <1>1 DEF FillNext
<1>3. C \in SUBSET Players
  BY DEF Considered
<1> HIDE DEF C
<1>4. ASSUME NEW i \in 1 .. m
      PROVE  /\ way(i) \in Seq(E)
             /\ \A b : b \in ToSet(way(i)) <=> Extends(r, b, partials[i], slot)
  <2> DEFINE F == free(i)
             l == Cardinality(F)
             f == fit(i)
             a == partials[i]
  <2>1. F \in SUBSET Players /\ F \subseteq C
    BY <1>3
  <2>2. l \in Nat /\ Lists(f, F)
    <3> HIDE DEF F
    <3> QED
      BY <2>1, FiniteTeams, BestFirstLists DEF F
  <2> HIDE DEF f, F
  <2>3. DOMAIN f = 1 .. l /\ f \in [1 .. l -> F] /\ \A p \in F : \E k \in 1 .. l : f[k] = p
    BY <2>2 DEF Lists
  <2>4. a \in E
    BY <1>1
  <2>5. way(i) = [k \in 1 .. l |-> Append(a, f[k])]
    BY <2>3 DEF f
  <2> HIDE DEF a, way, l
  <2>6. \A k \in 1 .. l : Append(a, f[k]) \in E
    <3>1. \A p \in C : Append(a, p) \in E
      BY <2>4
    <3> HIDE DEF E
    <3> QED
      BY <2>1, <2>3, <3>1
  <2>7. way(i) \in Seq(E)
    <3> HIDE DEF E
    <3>1. way(i) \in [1 .. l -> E]
      BY <2>5, <2>6
    <3> QED
      BY <2>2, <3>1 DEF l
  <2>8. ToSet(way(i)) = {Append(a, f[k]) : k \in 1 .. l}
    BY <2>5 DEF ToSet
  <2>9. ASSUME NEW b
        PROVE  b \in ToSet(way(i)) <=> \E p \in F : b = Append(a, p)
    BY <2>3, <2>8
  <2>10. F = {p \in C \ ToSet(a) : playerCanFillSlot(p, slot)}
    BY DEF F, a
  <2> QED
    BY <2>7, <2>9, <2>10 DEF Extends, C, a
<1>5. ways \in [1 .. m -> Seq(E)] /\ \A i \in 1 .. m : ways[i] = way(i)
  <2> HIDE DEF way, E
  <2> QED
    BY <1>4
<1> HIDE DEF ways, way, E
<1>6. /\ FlattenSeq(ways) \in Seq(E)
      /\ ToSet(FlattenSeq(ways)) = {b \in E : \E i \in 1 .. m : b \in ToSet(ways[i])}
  BY <1>1, <1>5, Flattened
<1>7. ToSet(partials) = {partials[i] : i \in 1 .. m}
  BY <1>1 DEF ToSet
<1>8. {b \in E : \E i \in 1 .. m : b \in ToSet(ways[i])}
        = {b \in E : \E a \in ToSet(partials) : Extends(r, b, a, slot)}
  BY <1>4, <1>5, <1>7
<1> QED
  BY <1>2, <1>6, <1>8 DEF E, C

\* The ways to fill the first i places.
Fillings(r, i) ==
  {a \in Seq(Considered(r)) :
     /\ Len(a) = i
     /\ IsInjective(a)
     /\ \A k \in 1 .. i : playerCanFillSlot(a[k], OrderedSlots(r)[k])}

LEMMA NextFillings ==
  ASSUME NEW r \in Rosters, NEW i \in Nat
  PROVE  {b \in Seq(Considered(r)) :
            \E a \in Fillings(r, i) : Extends(r, b, a, OrderedSlots(r)[i + 1])} = Fillings(r, i + 1)
<1> DEFINE C    == Considered(r)
           slot == OrderedSlots(r)[i + 1]
<1>1. \A k : k \in 1 .. i + 1 <=> k \in 1 .. i \/ k = i + 1
  OBVIOUS
<1>2. i + 1 \notin 1 .. i /\ i + 1 \in 1 .. i + 1
  OBVIOUS
<1> HIDE DEF slot, C
<1>3. ASSUME NEW a \in Fillings(r, i), NEW p \in C \ ToSet(a), playerCanFillSlot(p, slot)
      PROVE  Append(a, p) \in Fillings(r, i + 1)
  <2> DEFINE b == Append(a, p)
  <2>1. a \in Seq(C) /\ Len(a) = i /\ p \in C
    BY DEF Fillings, C
  <2>2. DOMAIN a = 1 .. i
    BY <2>1
  <2>3. /\ b \in Seq(C) /\ Len(b) = i + 1 /\ DOMAIN b = 1 .. i + 1
        /\ \A k \in 1 .. i : b[k] = a[k]
        /\ b[i + 1] = p
    BY <2>1
  <2> HIDE DEF b
  <2>4. \A k \in 1 .. i : b[k] # p
    BY <2>2, <2>3 DEF ToSet
  <2>5. IsInjective(a) /\ \A k \in 1 .. i : playerCanFillSlot(a[k], OrderedSlots(r)[k])
    BY DEF Fillings
  <2>6. IsInjective(b)
    BY <1>1, <1>2, <2>2, <2>3, <2>4, <2>5 DEF IsInjective
  <2>7. \A k \in 1 .. i + 1 : playerCanFillSlot(b[k], OrderedSlots(r)[k])
    BY <1>1, <1>3, <2>3, <2>5 DEF slot
  <2> QED
    BY <2>3, <2>6, <2>7 DEF Fillings, C, b
<1>4. ASSUME NEW b \in Fillings(r, i + 1)
      PROVE  \E a \in Fillings(r, i) : Extends(r, b, a, slot)
  <2> DEFINE a == [k \in 1 .. i |-> b[k]]
             p == b[i + 1]
  <2>1. b \in Seq(C) /\ Len(b) = i + 1 /\ IsInjective(b)
    BY DEF Fillings, C
  <2>2. DOMAIN b = 1 .. i + 1 /\ \A k \in 1 .. i + 1 : b[k] \in C
    BY <2>1
  <2>3. a \in Seq(C) /\ Len(a) = i /\ DOMAIN a = 1 .. i
    <3>1. a \in [1 .. i -> C]
      BY <1>1, <2>2
    <3> HIDE DEF a
    <3> QED
      BY <3>1
  <2>4. p \in C \ ToSet(a)
    <3>1. p \in C
      BY <1>2, <2>2
    <3>2. \A k \in 1 .. i : a[k] # p
      BY <1>1, <1>2, <2>1, <2>2 DEF IsInjective
    <3> HIDE DEF a, p
    <3> QED
      BY <2>3, <3>1, <3>2 DEF ToSet
  <2>5. b = Append(a, p)
    <3>1. \A k \in 1 .. i : a[k] = b[k]
      OBVIOUS
    <3> HIDE DEF a
    <3>2. /\ Append(a, p) \in Seq(C) /\ Len(Append(a, p)) = i + 1
          /\ \A k \in 1 .. i : Append(a, p)[k] = a[k]
          /\ Append(a, p)[i + 1] = p
      BY <2>3, <2>4
    <3>3. \A k \in 1 .. i + 1 : Append(a, p)[k] = b[k]
      BY <1>1, <3>1, <3>2
    <3> DEFINE more == Append(a, p)
    <3> HIDE DEF more
    <3>4. more \in Seq(C) /\ Len(more) = Len(b) /\ \A k \in 1 .. Len(b) : more[k] = b[k]
      BY <2>1, <3>2, <3>3 DEF more
    <3>5. more = b
      BY <2>1, <3>4
    <3> QED
      BY <3>5 DEF more
  <2>6. \A k \in 1 .. i + 1 : playerCanFillSlot(b[k], OrderedSlots(r)[k])
    BY DEF Fillings
  <2>7. IsInjective(a)
    BY <1>1, <2>1, <2>2 DEF IsInjective
  <2>8. a \in Fillings(r, i)
    <3>1. \A k \in 1 .. i : a[k] = b[k]
      OBVIOUS
    <3> HIDE DEF a
    <3> QED
      BY <1>1, <2>3, <2>6, <2>7, <3>1 DEF Fillings, C
  <2>9. playerCanFillSlot(p, slot)
    BY <1>2, <2>6 DEF slot
  <2> HIDE DEF a, p
  <2> QED
    BY <2>4, <2>5, <2>8, <2>9 DEF Extends, C
<1>5. Fillings(r, i + 1) \subseteq Seq(C)
  BY DEF Fillings, C
<1>6. \A a \in Fillings(r, i) : \A b : Extends(r, b, a, slot) => b \in Fillings(r, i + 1)
  BY <1>3 DEF Extends, C
<1> QED
  BY <1>4, <1>5, <1>6 DEF slot, C

\* The search finds every way to fill all the places, and nothing else.
LEMMA Searched ==
  ASSUME NEW r \in Rosters
  PROVE  /\ search(r) \in Seq(Seq(Considered(r)))
         /\ ToSet(search(r)) = Fillings(r, Cardinality(Starters(r)))
<1> DEFINE E      == Seq(Considered(r))
           A      == Seq(E)
           list   == OrderedSlots(r)
           n      == Cardinality(Starters(r))
           S      == 1 .. n
           X      == {list[k] : k \in S}
           Fill(partials, slot) == FillNext(r, partials, slot)
           fill   == [x \in X |-> [partials \in A |-> FillNext(r, partials, x)]]
           top(s) == CHOOSE x \in s : \A y \in s : x >= y
           base   == << <<>> >>
           Folds(g) == g = [s \in SUBSET S |-> IF s = {} THEN base
                                              ELSE FillNext(r, g[s \ {top(s)}], list[top(s)])]
           made   == CHOOSE g : Folds(g)
<1>1. n \in Nat /\ DOMAIN list = S /\ list \in [S -> X]
  <2>1. n \in Nat
    BY FiniteTeams DEF Starters
  <2>2. PICK owner : list = [k \in S |-> r.position[owner[k]]]
    BY PlacesInOrder
  <2> HIDE DEF list, n
  <2> QED
    BY <2>1, <2>2
<1>2. search(r) = made[S]
  <2>1. search(r) = FoldLeft(Fill, base, list)
    BY DEF search, FillNext
  <2> HIDE DEF list
  <2> QED
    BY <1>1, <2>1 DEF FoldLeft, MapThenFoldSet, Max
<1>3. \A x : \A partials \in A : FillNext(r, partials, x) \in A
  BY Filled
<1>4. base \in A
  OBVIOUS
<1> HIDE DEF list, n, base
<1>5. \A s \in SUBSET S : s # {} => top(s) \in S /\ top(s) = Greatest(s)
  BY <1>1, GreatestExists DEF Greatest
<1>6. HasListFold(n, list, A, base, fill)
  <2>1. \A x \in X : \A partials \in A : fill[x][partials] \in A
    BY <1>3
  <2> HIDE DEF A, fill, X
  <2> QED
    BY <1>1, <1>4, <2>1, ListFoldExists
<1>7. PICK g \in [SUBSET S -> A] : \A s \in SUBSET S :
        g[s] = IF s = {} THEN base ELSE fill[list[Greatest(s)]][g[s \ {Greatest(s)}]]
  BY <1>6 DEF HasListFold
<1>8. \A s \in SUBSET S : s # {} =>
        fill[list[Greatest(s)]][g[s \ {Greatest(s)}]] = FillNext(r, g[s \ {top(s)}], list[top(s)])
  <2> SUFFICES ASSUME NEW s \in SUBSET S, s # {}
               PROVE  fill[list[Greatest(s)]][g[s \ {Greatest(s)}]]
                        = FillNext(r, g[s \ {top(s)}], list[top(s)])
    OBVIOUS
  <2>1. list[Greatest(s)] \in X /\ g[s \ {Greatest(s)}] \in A
    BY <1>1, <1>5
  <2> HIDE DEF top, A
  <2> QED
    BY <1>5, <2>1
<1>9. \E h : Folds(h)
  <2> HIDE DEF fill, top, A
  <2>1. g = [s \in SUBSET S |-> IF s = {} THEN base
                               ELSE FillNext(r, g[s \ {top(s)}], list[top(s)])]
    BY <1>7, <1>8
  <2> QED
    BY <2>1
<1>10. Folds(made)
  <2> HIDE DEF Folds
  <2> QED
    BY <1>9
<1> HIDE DEF made
<1> DEFINE Good == {i \in 0 .. n : made[1 .. i] \in A /\ ToSet(made[1 .. i]) = Fillings(r, i)}
<1>11. 0 \in Good
  <2>1. 1 .. 0 = {} /\ {} \in SUBSET S /\ 0 \in 0 .. n
    BY <1>1
  <2>2. made[{}] = base
    BY <1>10, <2>1
  <2>3. ToSet(base) = {<<>>}
    BY DEF ToSet, base
  <2>4. Fillings(r, 0) = {<<>>}
    <3>1. <<>> \in Fillings(r, 0)
      BY <2>1 DEF Fillings, IsInjective
    <3>2. \A a \in Fillings(r, 0) : a = <<>>
      BY DEF Fillings
    <3> QED
      BY <3>1, <3>2
  <2> HIDE DEF A
  <2> QED
    BY <1>4, <2>1, <2>2, <2>3, <2>4
<1>12. \A i \in 0 .. n - 1 : i \in Good => i + 1 \in Good
  <2> SUFFICES ASSUME NEW i \in 0 .. n - 1,
                      made[1 .. i] \in A, ToSet(made[1 .. i]) = Fillings(r, i)
               PROVE  i + 1 \in Good
    OBVIOUS
  <2> DEFINE next   == 1 .. i + 1
             before == made[1 .. i]
             after  == made[next]
  <2>1. Greatest(next) = i + 1 /\ next \ {i + 1} = 1 .. i
    <3>1. i + 1 \in Nat \ {0} /\ (i + 1) - 1 = i
      BY <1>1
    <3>2. Greatest(1 .. i + 1) = i + 1 /\ (1 .. i + 1) \ {i + 1} = 1 .. (i + 1) - 1
      BY <3>1, GreatestIsLast
    <3> QED
      BY <3>1, <3>2
  <2>2. i + 1 \in next /\ i + 1 \in 0 .. n /\ i \in Nat /\ \A x \in next : x \in S
    BY <1>1
  <2> HIDE DEF next, S
  <2>3. next \in SUBSET S /\ next # {}
    BY <2>2
  <2>4. after = FillNext(r, made[next \ {Greatest(next)}], list[Greatest(next)])
    <3> HIDE DEF top
    <3> QED
      BY <1>5, <1>10, <2>3
  <2>5. after = FillNext(r, before, list[i + 1])
    BY <2>1, <2>4
  <2> HIDE DEF after
  <2>6. /\ after \in A
        /\ ToSet(after) = {b \in E : \E a \in ToSet(before) : Extends(r, b, a, list[i + 1])}
    BY <2>5, Filled
  <2>7. ToSet(after) = Fillings(r, i + 1)
    <3>1. ToSet(before) = Fillings(r, i)
      OBVIOUS
    <3> HIDE DEF before
    <3> QED
      BY <2>2, <2>6, <3>1, NextFillings DEF list
  <2> QED
    BY <2>2, <2>6, <2>7 DEF after, next
<1> HIDE DEF Good
<1>13. \A i \in 0 .. n : i \in Good
  BY <1>1, <1>11, <1>12, UpTo
<1>14. n \in Good
  BY <1>1, <1>13
<1> HIDE DEF A
<1> QED
  BY <1>2, <1>14 DEF Good, A, n

\* What players are worth together is a number.
LEMMA WorthType ==
  ASSUME NEW T \in SUBSET Players
  PROVE  Worth(T) \in Nat
BY WorthIsSum

\* The lineup that is chosen is one that was found, and no other found is worth more.
LEMMA Chosen ==
  ASSUME NEW r \in Rosters, NEW F, F = Fillings(r, Cardinality(Starters(r))), F # {}
  PROVE  /\ optimalAssignments(r) \in F
         /\ \A a \in F : Worth(ToSet(a)) <= Worth(ToSet(optimalAssignments(r)))
<1> DEFINE all  == search(r)
           n    == Len(all)
           w    == [i \in 1 .. n |-> Worth(ToSet(all[i]))]
           W    == {Worth(ToSet(all[i])) : i \in DOMAIN all}
           best == bestScore(all)
           I    == {i \in 1 .. n : Worth(ToSet(all[i])) = best}
<1>1. all \in Seq(Seq(Considered(r))) /\ ToSet(all) = F
  BY Searched
<1> HIDE DEF all
<1>2. n \in Nat /\ DOMAIN all = 1 .. n /\ \A i \in 1 .. n : all[i] \in Seq(Considered(r))
  BY <1>1
<1>3. F = {all[i] : i \in 1 .. n} /\ n # 0
  <2>1. F = {all[i] : i \in 1 .. n}
    BY <1>1, <1>2 DEF ToSet
  <2>2. n = 0 => 1 .. n = {}
    OBVIOUS
  <2> QED
    BY <2>1, <2>2
<1>4. \A i \in 1 .. n : w[i] \in Nat /\ w[i] = Worth(ToSet(all[i]))
  <2> SUFFICES ASSUME NEW i \in 1 .. n PROVE w[i] \in Nat /\ w[i] = Worth(ToSet(all[i]))
    OBVIOUS
  <2>1. ToSet(all[i]) \in SUBSET Players
    <3>1. ToSet(all[i]) \subseteq Considered(r)
      BY <1>2, InSet
    <3> QED
      BY <3>1 DEF Considered
  <2>2. Worth(ToSet(all[i])) \in Nat
    BY <2>1, WorthType
  <2> QED
    BY <2>2
<1> HIDE DEF w, n
<1>5. PICK m \in 1 .. n : \A j \in 1 .. n : w[m] >= w[j]
  BY <1>2, <1>3, <1>4, LargestValue
<1>6. best = CHOOSE x \in W : \A y \in W : x >= y
  BY DEF bestScore, Max
<1>7. W = {w[i] : i \in 1 .. n}
  BY <1>2, <1>4
<1> HIDE DEF best, W
<1>8. w[m] \in W /\ \A y \in W : w[m] >= y
  BY <1>5, <1>7
<1>9. best \in W /\ \A y \in W : best >= y
  BY <1>6, <1>8
<1>10. I \in SUBSET Nat /\ I # {}
  <2>1. PICK i \in 1 .. n : w[i] = best
    BY <1>7, <1>9
  <2>2. i \in I
    BY <1>4, <2>1
  <2>3. \A j \in 1 .. n : j \in Nat
    BY <1>2
  <2> QED
    BY <2>2, <2>3
<1>11. Min(I) \in I
  <2> HIDE DEF I
  <2>1. PICK x \in I : \A y \in I : x <= y
    BY <1>10, LeastNatural
  <2> QED
    BY <2>1 DEF Min
<1>12. optimalAssignments(r) = all[Min(I)]
  <2>1. SelectInSeq(all, LAMBDA a : Worth(ToSet(a)) = best) = Min(I)
    BY <1>10 DEF SelectInSeq, n
  <2> QED
    BY <2>1 DEF optimalAssignments, all, best
<1> DEFINE c == Min(I)
<1>13. c \in 1 .. n /\ w[c] = best
  BY <1>4, <1>11
<1> HIDE DEF c, I
<1>14. \A i \in 1 .. n : w[i] <= w[c]
  <2> SUFFICES ASSUME NEW i \in 1 .. n PROVE w[i] <= w[c]
    OBVIOUS
  <2>1. w[i] \in W /\ w[i] \in Nat /\ w[c] \in Nat
    BY <1>4, <1>7, <1>13
  <2> QED
    BY <1>9, <1>13, <2>1
<1>15. optimalAssignments(r) = all[c]
  BY <1>12 DEF c
<1> QED
  BY <1>3, <1>4, <1>13, <1>14, <1>15

\* Every starter may have the place he has.
InPlace(r) == \A p \in Starters(r) : playerCanFillSlot(p, r.position[p])

\* To fill the places one after the other is to give each starter's place to someone.
LEMMA LineupsAreFillings ==
  ASSUME NEW r \in Rosters
  PROVE  /\ \A f \in Lineups(r) :
              \E a \in Fillings(r, Cardinality(Starters(r))) : ToSet(a) = Range(f)
         /\ \A a \in Fillings(r, Cardinality(Starters(r))) :
              \E f \in Lineups(r) : ToSet(a) = Range(f)
<1> DEFINE X == Starters(r)
           C == Considered(r)
           n == Cardinality(X)
           D == 1 .. n
<1>1. PICK owner : /\ Lists(owner, X)
                   /\ OrderedSlots(r) = [k \in D |-> r.position[owner[k]]]
  BY PlacesInOrder
<1>2. n \in Nat
  BY FiniteTeams DEF Starters
<1>3. /\ owner \in [D -> X] /\ IsInjective(owner)
      /\ \A p \in X : \E k \in D : owner[k] = p
  BY <1>1 DEF Lists
<1>4. Lineups(r) = {f \in [X -> C] : /\ IsInjective(f)
                                     /\ \A p \in X : playerCanFillSlot(f[p], r.position[p])}
  BY DEF Lineups, Injection, Starters
<1>5. \A k \in D : OrderedSlots(r)[k] = r.position[owner[k]]
  BY <1>1
<1> HIDE DEF X, C, n
<1>6. ASSUME NEW f \in Lineups(r)
      PROVE  \E a \in Fillings(r, n) : ToSet(a) = Range(f)
  <2> DEFINE a == [k \in D |-> f[owner[k]]]
  <2>1. /\ f \in [X -> C] /\ IsInjective(f)
        /\ \A p \in X : playerCanFillSlot(f[p], r.position[p])
    BY <1>4
  <2>2. a \in [D -> C]
    BY <1>3, <2>1
  <2>3. \A k \in D : a[k] = f[owner[k]] /\ owner[k] \in X
    BY <1>3
  <2> HIDE DEF a
  <2>4. a \in Seq(C) /\ Len(a) = n /\ DOMAIN a = D
    BY <1>2, <2>2
  <2>5. IsInjective(a)
    BY <1>3, <2>1, <2>3, <2>4 DEF IsInjective
  <2>6. \A k \in D : playerCanFillSlot(a[k], OrderedSlots(r)[k])
    BY <1>5, <2>1, <2>3
  <2>7. ToSet(a) = Range(f)
    BY <1>3, <2>1, <2>3, <2>4 DEF ToSet, Range
  <2> QED
    BY <2>4, <2>5, <2>6, <2>7 DEF Fillings, C
<1>7. ASSUME NEW a \in Fillings(r, n)
      PROVE  \E f \in Lineups(r) : ToSet(a) = Range(f)
  <2> DEFINE place == [p \in X |-> CHOOSE k \in D : owner[k] = p]
             f     == [p \in X |-> a[place[p]]]
  <2>1. /\ a \in Seq(C) /\ Len(a) = n /\ IsInjective(a)
        /\ \A k \in D : playerCanFillSlot(a[k], OrderedSlots(r)[k])
    BY DEF Fillings, C
  <2>2. DOMAIN a = D /\ \A k \in D : a[k] \in C
    BY <2>1
  <2>3. \A p \in X : place[p] \in D /\ owner[place[p]] = p
    BY <1>3
  <2>4. \A k \in D : owner[k] \in X /\ place[owner[k]] = k
    <3> HIDE DEF place
    <3> QED
      BY <1>3, <2>3 DEF IsInjective
  <2> HIDE DEF place
  <2>5. f \in [X -> C] /\ DOMAIN f = X /\ \A p \in X : f[p] = a[place[p]]
    BY <2>2, <2>3
  <2> HIDE DEF f
  <2>6. IsInjective(f)
    BY <2>1, <2>2, <2>3, <2>5 DEF IsInjective
  <2>7. \A p \in X : playerCanFillSlot(f[p], r.position[p])
    BY <1>5, <2>1, <2>3, <2>5
  <2>8. ToSet(a) = Range(f)
    BY <2>2, <2>3, <2>4, <2>5 DEF ToSet, Range
  <2> QED
    BY <1>4, <2>5, <2>6, <2>7, <2>8
<1> QED
  BY <1>6, <1>7 DEF n, X

\* The chosen lineup fills the places of the starters, and no other is worth more.
LEMMA BestOfAll ==
  ASSUME NEW r \in Rosters, InPlace(r), NEW c, c = optimalAssignments(r)
  PROVE  /\ c \in Seq(Players)
         /\ \E f \in Lineups(r) : Range(f) = ToSet(c)
         /\ \A f \in Lineups(r) : Worth(Range(f)) <= Worth(ToSet(c))
<1> DEFINE F == Fillings(r, Cardinality(Starters(r)))
<1>1. F # {}
  <2> DEFINE f == [p \in Starters(r) |-> p]
  <2>1. f \in [Starters(r) -> Considered(r)]
    BY DEF Starters, Considered
  <2>2. IsInjective(f)
    BY DEF IsInjective
  <2>3. \A p \in Starters(r) : playerCanFillSlot(f[p], r.position[p])
    BY DEF InPlace
  <2> HIDE DEF f
  <2>4. f \in Lineups(r)
    BY <2>1, <2>2, <2>3 DEF Lineups, Injection, Starters
  <2> QED
    BY <2>4, LineupsAreFillings
<1>2. c \in F /\ \A a \in F : Worth(ToSet(a)) <= Worth(ToSet(c))
  <2> HIDE DEF F
  <2> QED
    BY <1>1, Chosen DEF F
<1>3. c \in Seq(Players)
  <2>1. c \in Seq(Considered(r)) /\ Considered(r) \subseteq Players
    BY <1>2 DEF Fillings, Considered
  <2> QED
    BY <2>1
<1>4. \E f \in Lineups(r) : Range(f) = ToSet(c)
  BY <1>2, LineupsAreFillings
<1>5. ASSUME NEW f \in Lineups(r)
      PROVE  Worth(Range(f)) <= Worth(ToSet(c))
  <2>1. PICK a \in F : ToSet(a) = Range(f)
    BY LineupsAreFillings
  <2> QED
    BY <1>2, <2>1
<1> QED
  BY <1>3, <1>4, <1>5

-----------------------------------------------------------------------------
(* The day of a briefing.                                                  *)

\* The briefing's alerts are advice that was computed for the roster kept with it.
AdviceInv ==
  /\ WritesInv
  /\ InPlace(Roster)
  /\ spec # None => /\ spec.roster \in Rosters /\ InPlace(spec.roster)
                    /\ spec.lineup = optimalAssignments(spec.roster)
                    /\ spec.swaps = recommendations(spec.roster)
  /\ briefing # None => /\ spec # None
                        /\ briefing.open \cup briefing.done \subseteq ToSet(spec.swaps)
                        /\ briefing.open \cap briefing.done = {}

\* Yahoo gives nobody a place he may not have, and takes no place away.
LEMMA AcceptedInPlace ==
  ASSUME InPlace(Roster), UNCHANGED position \/ Acceptable(position, status, position')
  PROVE  InPlace(Roster)'
<1> SUFFICES ASSUME NEW p \in Players, position'[p] \notin Reserve
             PROVE  playerCanFillSlot(p, position'[p])
  BY DEF InPlace, Starters, isActive, Roster
<1>1. CASE position'[p] = position[p]
  BY <1>1 DEF InPlace, Starters, isActive, Roster
<1>2. CASE position'[p] # position[p]
  <2>1. MayPlay(status, p, position'[p])
    BY <1>2 DEF Acceptable
  <2> QED
    BY <2>1 DEF MayPlay, Reserve
<1> QED
  BY <1>1, <1>2

LEMMA PositionsAreAccepted ==
  ASSUME [Next]_vars
  PROVE  UNCHANGED position \/ Acceptable(position, status, position')
<1>1. CASE UNCHANGED vars
  BY <1>1 DEF vars, yahoo
<1>2. ASSUME NEW w \in Writers, Starts(w)
      PROVE  UNCHANGED position
  BY <1>2 DEF Starts, ApplicationStarts, CallbackStarts, yahoo
<1>3. ASSUME NEW w \in Writers, Step(w)
      PROVE  UNCHANGED position \/ Acceptable(position, status, position')
  BY <1>3
  DEF Step, ReadWork, ReadNoWork, PutAccepted, PutRefused, Reread, CheckRead,
      CheckPutAccepted, CheckPutRefused, CheckReread, RecordStatus, yahoo
<1>4. ASSUME NEW w \in Writers, RequestFails(w) \/ PutUnanswered(w) \/ Dies(w)
      PROVE  UNCHANGED position \/ Acceptable(position, status, position')
  BY <1>4 DEF RequestFails, PutUnanswered, Dies, yahoo
<1>5. CASE ManagerMoves \/ HealthChanges \/ StatusExpires
  BY <1>5 DEF ManagerMoves, HealthChanges, StatusExpires, yahoo
<1> QED
  BY <1>1, <1>2, <1>3, <1>4, <1>5 DEF Next

LEMMA AdviceStart == AdviceInit => AdviceInv
<1> SUFFICES ASSUME AdviceInit PROVE AdviceInv
  OBVIOUS
<1>1. InPlace(Roster)
  BY DEF AdviceInit, Init, InPlace, Starters, isActive, Roster
<1> QED
  BY <1>1, WritesStart DEF AdviceInit, AdviceInv

\* A step of the writers leaves the advice alone.
LEMMA WritersKeepAdvice ==
  ASSUME AdviceInv, [Next]_vars
  PROVE  WritesInv' /\ InPlace(Roster)'
<1>1. WritesInv'
  BY WritesKept DEF AdviceInv
<1>2. InPlace(Roster)'
  BY PositionsAreAccepted, AcceptedInPlace DEF AdviceInv
<1> QED
  BY <1>1, <1>2

LEMMA AdviceKept == AdviceInv /\ [AdviceNext]_adviceVars => AdviceInv'
<1> SUFFICES ASSUME AdviceInv, [AdviceNext]_adviceVars PROVE AdviceInv'
  OBVIOUS
<1>1. CASE [Next]_vars /\ UNCHANGED advice
  BY <1>1, WritersKeepAdvice DEF AdviceInv, advice
<1>2. CASE BuildSpec
  <2>1. Roster \in Rosters /\ InPlace(Roster)
    BY DEF AdviceInv, WritesInv, TypeOK
  <2>2. WritesInv' /\ InPlace(Roster)'
    BY <1>2, WritersKeepAdvice DEF BuildSpec
  <2>3. PICK best, made : best = optimalAssignments(Roster) /\ made = recommendations(Roster)
    OBVIOUS
  <2>4. /\ spec' = [roster |-> Roster, lineup |-> best, swaps |-> made]
        /\ briefing' = briefing /\ spec = None
    BY <1>2, <2>3 DEF BuildSpec
  <2>5. /\ spec'.roster \in Rosters /\ InPlace(spec'.roster)
        /\ spec'.lineup = optimalAssignments(spec'.roster)
        /\ spec'.swaps = recommendations(spec'.roster)
    BY <2>1, <2>3, <2>4
  <2> QED
    BY <2>2, <2>4, <2>5 DEF AdviceInv
<1>3. CASE NextDay
  BY <1>3, WritersKeepAdvice DEF AdviceInv, NextDay
<1>4. ASSUME NEW unlocked \in BOOLEAN, Brief(unlocked) PROVE AdviceInv'
  <2>1. WritesInv' /\ InPlace(Roster)' /\ spec' = spec /\ spec # None
    BY <1>4, WritersKeepAdvice DEF Brief
  <2>2. briefing'.open \subseteq ToSet(spec.swaps) /\ briefing'.done = {}
    BY <1>4 DEF Brief
  <2> QED
    BY <2>1, <2>2 DEF AdviceInv
<1>5. ASSUME NEW swap \in briefing.open, briefing # None, Follow(swap) PROVE AdviceInv'
  <2>1. swap \in Swap
    <3>1. PICK r \in Rosters : spec.swaps = recommendations(r)
      BY <1>5 DEF AdviceInv
    <3>2. swap \in ToSet(recommendations(r))
      BY <1>5, <3>1 DEF AdviceInv
    <3>3. ToSet(recommendations(r)) \subseteq GoodSwaps(r)
      BY Recommended, InSet
    <3> QED
      BY <3>2, <3>3 DEF GoodSwaps
  <2>2. position \in [Players -> Positions] /\ status \in [Players -> Statuses]
    BY RosterType DEF AdviceInv, WritesInv, TypeOK
  <2>3. /\ position' = Swapped(position, swap) /\ Acceptable(position, status, position')
        /\ UNCHANGED <<status, scope, writeStatus, memory, faults, changes, spec>>
    BY <1>5 DEF Follow, bounds
  <2>4. position' \in [Players -> Positions]
    BY <2>1, <2>2, <2>3, ReservePlaces DEF Swapped, Swap
  <2>5. Fits(position')
    BY <2>3 DEF Acceptable
  <2>6. WritesInv'
    <3>1. /\ scope \in {"read", "write"}
          /\ writeStatus \in {"authorized", "unauthorized", "unknown", None}
          /\ faults \in 0 .. MaxFaults /\ changes \in 0 .. MaxChanges
          /\ WritesInv
      BY DEF AdviceInv, WritesInv, TypeOK
    <3> QED
      BY <2>2, <2>3, <2>4, <2>5, <3>1, MemoryKept
  <2>7. briefing' = [open |-> briefing.open \ {swap}, done |-> briefing.done \cup {swap}]
    BY <1>5 DEF Follow
  <2>8. InPlace(Roster)'
    BY <2>3, AcceptedInPlace DEF AdviceInv
  <2> QED
    BY <1>5, <2>3, <2>6, <2>7, <2>8 DEF AdviceInv
<1> QED
  BY <1>1, <1>2, <1>3, <1>4, <1>5 DEF AdviceNext, adviceVars, Follows

LEMMA AdviceIsKept == AdviceSpec => []AdviceInv
<1>1. AdviceInit => AdviceInv
  BY AdviceStart
<1>2. AdviceInv /\ [AdviceNext]_adviceVars => AdviceInv'
  BY AdviceKept
<1> QED
  BY <1>1, <1>2, PTL DEF AdviceSpec

\* What a briefing proposes are good swaps, no two with a player in common.
LEMMA Alerts ==
  ASSUME AdviceInv, briefing # None
  PROVE  /\ spec # None
         /\ briefing.open \cup briefing.done \subseteq GoodSwaps(spec.roster)
         /\ \A s, t \in briefing.open \cup briefing.done :
              s.start = t.start \/ s.sit = t.sit => s = t
<1>1. PICK r \in Rosters : spec.roster = r /\ spec.swaps = recommendations(r)
  BY DEF AdviceInv
<1>2. PICK swaps : swaps = recommendations(r)
  OBVIOUS
<1>3. swaps \in Seq(GoodSwaps(r)) /\ SitsApart(swaps) /\ StartsApart(swaps)
  BY <1>2, Recommended
<1>4. ToSet(swaps) \subseteq GoodSwaps(r)
  BY <1>3, InSet
<1>5. \A s, t \in ToSet(swaps) : s.start = t.start \/ s.sit = t.sit => s = t
  BY <1>3 DEF SitsApart, StartsApart, ToSet
<1>6. briefing.open \cup briefing.done \subseteq ToSet(swaps) /\ spec # None
  BY <1>1, <1>2 DEF AdviceInv
<1> QED
  BY <1>1, <1>4, <1>5, <1>6

\* The job specification, the briefing and what the writers remember have their types.
THEOREM AdviceTyped == AdviceSpec => []AdviceTypeOK
<1>1. AdviceInv => AdviceTypeOK
  <2> SUFFICES ASSUME AdviceInv PROVE AdviceTypeOK
    OBVIOUS
  <2>1. ASSUME NEW r \in Rosters PROVE ToSet(recommendations(r)) \subseteq Swap
    <3>1. ToSet(recommendations(r)) \subseteq GoodSwaps(r)
      BY Recommended, InSet
    <3> QED
      BY <3>1 DEF GoodSwaps
  <2>2. spec # None => /\ spec.roster \in Rosters
                       /\ spec.lineup \in Seq(Players)
                       /\ ToSet(spec.swaps) \subseteq Swap
    BY <2>1, BestOfAll DEF AdviceInv
  <2>3. briefing # None => briefing.open \subseteq Swap /\ briefing.done \subseteq Swap
    BY <2>2 DEF AdviceInv
  <2> QED
    BY <2>2, <2>3 DEF AdviceInv, WritesInv, AdviceTypeOK
<1> QED
  BY <1>1, AdviceIsKept, PTL

\* The lineup shown as optimal fills the places there were when it was computed, and no
\* way to fill them is worth more: for every team, eligibility, scores and roster.
THEOREM OptimalIsBest == AdviceSpec => []LineupIsBest
<1>1. AdviceInv => LineupIsBest
  <2> SUFFICES ASSUME AdviceInv, spec # None
               PROVE  /\ \E f \in Lineups(spec.roster) : Range(f) = ToSet(spec.lineup)
                      /\ \A f \in Lineups(spec.roster) :
                           Worth(Range(f)) <= Worth(ToSet(spec.lineup))
    BY DEF LineupIsBest
  <2>1. /\ spec.roster \in Rosters /\ InPlace(spec.roster)
        /\ spec.lineup = optimalAssignments(spec.roster)
    BY DEF AdviceInv
  <2> QED
    BY <2>1, BestOfAll
<1> QED
  BY <1>1, AdviceIsKept, PTL

\* Two players who change places leave the slots as full as they were.
LEMMA SwapFits ==
  ASSUME NEW old \in [Players -> Positions], Fits(old), NEW swap \in Swap,
         old[swap.start] = "BN", old[swap.sit] # "BN"
  PROVE  /\ Swapped(old, swap) \in [Players -> Positions]
         /\ Fits(Swapped(old, swap))
<1> DEFINE in  == swap.start
           out == swap.sit
           new == Swapped(old, swap)
           at(slot)  == {p \in Players : old[p] = slot}
           now(slot) == {p \in Players : new[p] = slot}
<1>1. in \in Players /\ out \in Players /\ in # out
  BY DEF Swap
<1>2. new = [old EXCEPT ![in] = old[out], ![out] = "BN"]
  BY DEF Swapped
<1> HIDE DEF in, out, new
<1>3. /\ new \in [Players -> Positions] /\ new[in] = old[out] /\ new[out] = "BN"
      /\ \A p \in Players : p # in /\ p # out => new[p] = old[p]
  BY <1>1, <1>2, ReservePlaces
<1>4. old[in] = "BN" /\ old[out] # "BN"
  BY DEF in, out
<1>5. ASSUME NEW slot \in Positions
      PROVE  Cardinality(now(slot)) <= slotCount(slot)
  <2>1. ASSUME NEW p \in at(slot), NEW q \in Players, now(slot) \subseteq (at(slot) \ {p}) \cup {q}
        PROVE  Cardinality(now(slot)) <= slotCount(slot)
    <3>1. at(slot) \in SUBSET Players /\ {p} \in SUBSET at(slot)
      OBVIOUS
    <3>2. IsFiniteSet({q}) /\ Cardinality({q}) = 1 /\ Cardinality({p}) = 1
      BY FS_Singleton
    <3>3. now(slot) \in SUBSET ((at(slot) \ {p}) \cup {q})
      BY <2>1
    <3>4. Cardinality(at(slot)) <= slotCount(slot) /\ slotCount(slot) \in Nat
      BY SlotCountType DEF Fits
    <3> HIDE DEF at, now
    <3>5. /\ Cardinality(now(slot)) \in Nat /\ Cardinality(at(slot)) \in Nat
          /\ Cardinality(now(slot)) <= Cardinality(at(slot)) - Cardinality({p}) + Cardinality({q})
      BY <3>1, <3>2, <3>3, NewCount
    <3> QED
      BY <3>2, <3>4, <3>5
  <2>2. CASE slot = "BN"
    <3>1. in \in at(slot) /\ now(slot) \subseteq (at(slot) \ {in}) \cup {out}
      BY <1>1, <1>3, <1>4, <2>2
    <3> QED
      BY <1>1, <2>1, <3>1
  <2>3. CASE slot = old[out]
    <3>1. out \in at(slot) /\ now(slot) \subseteq (at(slot) \ {out}) \cup {in}
      BY <1>1, <1>3, <1>4, <2>3
    <3> QED
      BY <1>1, <2>1, <3>1
  <2>4. CASE slot # "BN" /\ slot # old[out]
    <3>1. now(slot) = at(slot)
      BY <1>1, <1>3, <1>4, <2>4
    <3> QED
      BY <3>1 DEF Fits
  <2> QED
    BY <2>2, <2>3, <2>4
<1> QED
  BY <1>3, <1>5 DEF Fits, new

\* buildLineupAlerts: while nothing but the alerts followed has changed the roster, each
\* alert that is left can still be carried out, in any order.
THEOREM AlertsAreTakenTogether == AdviceSpec => []TakenTogether
<1>1. AdviceInv => TakenTogether
  <2> SUFFICES ASSUME AdviceInv, briefing # None, OnlyFollowed, NEW s \in briefing.open
               PROVE  /\ position[s.start] = "BN"
                      /\ isActive(Roster, s.sit)
                      /\ Acceptable(position, status, Swapped(position, s))
    BY DEF TakenTogether
  <2>1. PICK r \in Rosters : r = spec.roster
    BY Alerts DEF AdviceInv
  <2>2. /\ briefing.open \cup briefing.done \subseteq GoodSwaps(r)
        /\ \A a, b \in briefing.open \cup briefing.done :
             a.start = b.start \/ a.sit = b.sit => a = b
        /\ briefing.open \cap briefing.done = {}
    BY <2>1, Alerts DEF AdviceInv
  <2>3. \A a \in GoodSwaps(r) : /\ a \in Swap /\ a.start \in Players /\ a.sit \in Players
                                /\ r.position[a.start] = "BN"
                                /\ r.position[a.sit] \notin Reserve
                                /\ playerCanFillSlot(a.start, r.position[a.sit])
    BY DEF GoodSwaps, Swap, isStartableReserve, isActive
  <2>4. \A p \in Players :
          (\A a \in briefing.done : a.sit # p /\ a.start # p) => position[p] = r.position[p]
    BY <2>1 DEF OnlyFollowed
  <2>5. \A a \in briefing.done : /\ a.sit # s.start /\ a.start # s.start
                                 /\ a.sit # s.sit /\ a.start # s.sit
    BY <2>2, <2>3 DEF Reserve
  <2>6. s \in GoodSwaps(r)
    BY <2>2
  <2>7. /\ s \in Swap /\ s.start \in Players /\ s.sit \in Players
        /\ position[s.start] = "BN" /\ position[s.sit] = r.position[s.sit]
        /\ position[s.sit] \notin Reserve
        /\ playerCanFillSlot(s.start, position[s.sit])
    BY <2>3, <2>4, <2>5, <2>6
  <2>8. position \in [Players -> Positions] /\ Fits(position)
    BY RosterType DEF AdviceInv, WritesInv, TypeOK
  <2>9. Fits(Swapped(position, s))
    BY <2>7, <2>8, SwapFits DEF Reserve
  <2>10. ASSUME NEW p \in Players, Swapped(position, s)[p] # position[p]
         PROVE  MayPlay(status, p, Swapped(position, s)[p])
    <3>1. \/ p = s.sit /\ Swapped(position, s)[p] = "BN"
          \/ p = s.start /\ Swapped(position, s)[p] = position[s.sit]
      BY <2>7, <2>8, <2>10 DEF Swapped
    <3> QED
      BY <2>7, <3>1 DEF MayPlay, Reserve
  <2> QED
    BY <2>7, <2>9, <2>10 DEF Acceptable, isActive, Roster
<1> QED
  BY <1>1, AdviceIsKept, PTL

\* buildLineupAlerts: an alert carried out raises what the fit players of the lineup are
\* worth, however the roster has changed since the advice was computed, unless the player
\* it starts got hurt since then.
THEOREM AlertsHelp == AdviceSpec => AdviceHelps
<1> DEFINE Helps(s) == \/ FitWorth(Roster') > FitWorth(Roster)
                       \/ status[s.start] # "fit" /\ spec.roster.status[s.start] = "fit"
           A == briefing # None => \A s \in briefing.open : Follow(s) => Helps(s)
<1>1. AdviceInv => A
  <2> SUFFICES ASSUME AdviceInv, briefing # None, NEW s \in briefing.open, Follow(s)
               PROVE  Helps(s)
    OBVIOUS
  <2>1. s \in GoodSwaps(spec.roster)
    BY Alerts
  <2> DEFINE in  == s.start
             out == s.sit
  <2>2. /\ in \in Players /\ out \in Players /\ Score[in] > Score[out]
        /\ spec.roster.status[in] = "fit"
    BY <2>1 DEF GoodSwaps, Swap, isStartableReserve, isHardUnavailable
  <2>3. CASE status[in] # "fit"
    BY <2>2, <2>3
  <2>4. CASE status[in] = "fit"
    <3>1. /\ position[in] = "BN" /\ position[out] \notin Reserve
          /\ position' = [position EXCEPT ![in] = position[out], ![out] = "BN"]
          /\ status' = status
      BY DEF Follow, Swapped, isActive, Roster
    <3>2. position \in [Players -> Positions]
      BY RosterType DEF AdviceInv, WritesInv, TypeOK
    <3>3. in # out
      BY <3>1 DEF Reserve
    <3>4. PICK old, new : old = Playing(Roster, TRUE) /\ new = Playing(Roster', TRUE)
      OBVIOUS
    <3>5. \A p \in Players : /\ p \in old <=> position[p] \notin Reserve /\ status[p] = "fit"
                             /\ p \in new <=> position'[p] \notin Reserve /\ status[p] = "fit"
      <4>1. PICK r, r2 : r = Roster /\ r2 = Roster'
        OBVIOUS
      <4>2. /\ r.position = position /\ r.status = status
            /\ r2.position = position' /\ r2.status = status
        BY <3>1, <4>1 DEF Roster
      <4>3. \A p \in Players : /\ p \in old <=> isActive(r, p) /\ ~isHardUnavailable(r, p)
                               /\ p \in new <=> isActive(r2, p) /\ ~isHardUnavailable(r2, p)
        BY <3>4, <4>1, WhoPlays
      <4> QED
        BY <4>2, <4>3 DEF isActive, isHardUnavailable
    <3>6. old \in SUBSET Players /\ new \in SUBSET Players
      BY <3>4 DEF Playing
    <3> HIDE DEF in, out
    <3> DEFINE rest == old \ {out}
    <3>7. in \notin old /\ new = rest \cup {in}
      <4>1. \A p \in Players : p # in /\ p # out => position'[p] = position[p]
        BY <3>1, <3>2
      <4>2. position'[in] = position[out] /\ position'[out] = "BN"
        BY <2>2, <3>1, <3>2, <3>3
      <4>3. in \notin old /\ in \in new /\ out \notin new
        BY <2>2, <2>4, <3>1, <3>5, <4>2 DEF Reserve
      <4>4. \A p \in Players : p # in /\ p # out => (p \in new <=> p \in old)
        BY <3>5, <4>1
      <4> QED
        BY <2>2, <3>3, <3>6, <4>3, <4>4
    <3>8. rest \in SUBSET Players /\ in \in Players \ rest /\ out \in Players \ rest
      BY <2>2, <3>6, <3>7
    <3>9. out \in old => old = rest \cup {out}
      OBVIOUS
    <3>10. out \notin old => old = rest
      OBVIOUS
    <3> HIDE DEF rest
    <3>11. /\ Worth(rest) \in Nat /\ Score[in] \in Nat \ {0} /\ Score[out] \in Nat \ {0}
           /\ Worth(rest \cup {in}) = Score[in] + Worth(rest)
           /\ Worth(rest \cup {out}) = Score[out] + Worth(rest)
      BY <3>8, WorthGrows
    <3>12. Worth(new) > Worth(old)
      <4>1. CASE out \in old
        BY <2>2, <3>7, <3>9, <3>11, <4>1
      <4>2. CASE out \notin old
        BY <3>7, <3>10, <3>11, <4>2
      <4> QED
        BY <4>1, <4>2
    <3>13. FitWorth(Roster') > FitWorth(Roster)
      BY <3>4, <3>12 DEF FitWorth
    <3> QED
      BY <3>13
  <2> QED
    BY <2>3, <2>4
<1>2. AdviceInv /\ [AdviceNext]_adviceVars => [A]_adviceVars
  BY <1>1
<1> QED
  BY <1>2, AdviceIsKept, PTL DEF AdviceSpec, AdviceHelps
=============================================================================
