------------------------------ MODULE FoldLemmas ------------------------------
(***************************************************************************)
(* Facts about folds, for the modules that prove something about a list or *)
(* a sum.  Induction is by the least number: the provers cannot instantiate*)
(* the library's induction theorems, which are about an operator, so that  *)
(* here the numbers with a property are a set.                             *)
(***************************************************************************)
EXTENDS Integers, FiniteSets, FiniteSetTheorems, WellFoundedInduction, TLAPS

LEMMA LeastNatural ==
  ASSUME NEW T \in SUBSET Nat, T # {}
  PROVE  \E x \in T : \A y \in T : x <= y
<1>1. \E x \in T : \A y \in T : ~ (<<y, x>> \in OpToRel(<, Nat))
  BY NatLessThanWellFounded, WFMin
<1>2. \A x, y \in Nat : ~ (<<y, x>> \in OpToRel(<, Nat)) => x <= y
  BY DEF OpToRel
<1> QED
  BY <1>1, <1>2

\* Induction up to a number.
LEMMA UpTo ==
  ASSUME NEW n \in Nat, NEW A, 0 \in A,
         \A i \in 0 .. n - 1 : i \in A => i + 1 \in A
  PROVE  \A i \in 0 .. n : i \in A
<1> SUFFICES ASSUME (0 .. n) \ A # {} PROVE FALSE
  OBVIOUS
<1>1. PICK x \in (0 .. n) \ A : \A y \in (0 .. n) \ A : x <= y
  <2>1. (0 .. n) \ A \in SUBSET Nat
    OBVIOUS
  <2> QED
    BY <2>1, LeastNatural
<1>2. x # 0 /\ x - 1 \in 0 .. n - 1
  BY <1>1
<1>3. x - 1 \in A
  BY <1>1, <1>2
<1> QED
  BY <1>1, <1>2, <1>3

\* A function gives every part of a set its fold: the element that is taken first is
\* picked, and a step is taken from the fold of the others.
IsFold(g, S, base, pick, step) ==
  \A s \in SUBSET S :
    g[s] = IF s = {} THEN base ELSE step[pick[s]][g[s \ {pick[s]}]]

HasFold(S, A, base, pick, step) == \E g \in [SUBSET S -> A] : IsFold(g, S, base, pick, step)

\* There is a fold of every finite set.
LEMMA FoldExists ==
  ASSUME NEW S, IsFiniteSet(S), NEW A, NEW base \in A,
         NEW pick, \A s \in SUBSET S : s # {} => pick[s] \in s,
         NEW step, \A x \in S : \A a \in A : step[x][a] \in A
  PROVE  HasFold(S, A, base, pick, step)
<1> DEFINE Rec(g, s) == IF s = {} THEN base ELSE step[pick[s]][g[s \ {pick[s]}]]
           Small(k)  == {s \in SUBSET S : Cardinality(s) <= k}
           Good      == {k \in Nat : \E g \in [SUBSET S -> A] :
                                       \A s \in Small(k) : g[s] = Rec(g, s)}
           n         == Cardinality(S)
<1>1. n \in Nat
  BY FS_CardinalityType
<1>2. \A s \in SUBSET S : IsFiniteSet(s) /\ Cardinality(s) \in Nat /\ Cardinality(s) <= n
  BY FS_Subset, FS_CardinalityType
<1>3. \A g \in [SUBSET S -> A] : \A s \in SUBSET S : Rec(g, s) \in A
  OBVIOUS
<1>4. 0 \in Good
  <2> DEFINE g == [s \in SUBSET S |-> base]
  <2>1. g \in [SUBSET S -> A]
    OBVIOUS
  <2>2. \A s \in Small(0) : s = {}
    BY <1>2, FS_EmptySet
  <2>3. \A s \in Small(0) : g[s] = Rec(g, s)
    BY <2>2
  <2> QED
    BY <2>1, <2>3
<1>5. ASSUME NEW k \in 0 .. n - 1, k \in Good
      PROVE  k + 1 \in Good
  <2>1. PICK g \in [SUBSET S -> A] : \A s \in Small(k) : g[s] = Rec(g, s)
    BY <1>5
  <2> DEFINE h == [s \in SUBSET S |-> Rec(g, s)]
  <2>2. h \in [SUBSET S -> A]
    BY <1>3
  <2>3. \A s \in Small(k) : h[s] = g[s]
    BY <2>1
  <2>4. ASSUME NEW s \in Small(k + 1), s # {}
        PROVE  s \ {pick[s]} \in Small(k)
    <3>1. pick[s] \in s /\ IsFiniteSet(s) /\ Cardinality(s) <= k + 1
      BY <1>2, <2>4
    <3>2. Cardinality(s \ {pick[s]}) = Cardinality(s) - 1
      BY <3>1, FS_RemoveElement
    <3> QED
      BY <1>2, <3>1, <3>2
  <2>5. \A s \in Small(k + 1) : h[s] = Rec(h, s)
    BY <2>3, <2>4
  <2>6. k + 1 \in Nat
    OBVIOUS
  <2> HIDE DEF h, Small, Rec
  <2> QED
    BY <2>2, <2>5, <2>6
<1> HIDE DEF Good
<1>6. n \in Good
  BY <1>1, <1>4, <1>5, UpTo
<1> USE DEF Good
<1>7. PICK g \in [SUBSET S -> A] : \A s \in Small(n) : g[s] = Rec(g, s)
  BY <1>6
<1>8. SUBSET S = Small(n)
  BY <1>2
<1> QED
  BY <1>7, <1>8 DEF HasFold, IsFold

\* Induction along a fold: from a part of the set without its first element to the part.
LEMMA FoldInduction ==
  ASSUME NEW S, IsFiniteSet(S),
         NEW pick, \A s \in SUBSET S : s # {} => pick[s] \in s,
         NEW B, {} \in B, \A s \in SUBSET S : s # {} /\ s \ {pick[s]} \in B => s \in B
  PROVE  \A s \in SUBSET S : s \in B
<1> DEFINE Good == {k \in Nat : \A s \in SUBSET S : Cardinality(s) <= k => s \in B}
           n    == Cardinality(S)
<1>1. n \in Nat
  BY FS_CardinalityType
<1>2. \A s \in SUBSET S : IsFiniteSet(s) /\ Cardinality(s) \in Nat /\ Cardinality(s) <= n
  BY FS_Subset, FS_CardinalityType
<1>3. 0 \in Good
  BY <1>2, FS_EmptySet
<1>4. ASSUME NEW k \in 0 .. n - 1, k \in Good
      PROVE  k + 1 \in Good
  <2>1. ASSUME NEW s \in SUBSET S, Cardinality(s) <= k + 1, s # {}
        PROVE  s \in B
    <3>1. Cardinality(s \ {pick[s]}) = Cardinality(s) - 1
      BY <1>2, <2>1, FS_RemoveElement
    <3>2. s \ {pick[s]} \in B
      BY <1>2, <1>4, <2>1, <3>1
    <3> QED
      BY <2>1, <3>2
  <2>2. k + 1 \in Nat
    OBVIOUS
  <2> QED
    BY <2>1, <2>2
<1> HIDE DEF Good
<1>5. n \in Good
  BY <1>1, <1>3, <1>4, UpTo
<1> QED
  BY <1>2, <1>5 DEF Good

-----------------------------------------------------------------------------
(* Lists.                                                                  *)

Greatest(s) == CHOOSE x \in s : \A y \in s : x >= y

\* The greatest of the first numbers is the last.
LEMMA GreatestIsLast ==
  ASSUME NEW i \in Nat \ {0}
  PROVE  Greatest(1 .. i) = i /\ (1 .. i) \ {i} = 1 .. i - 1
<1>1. i \in 1 .. i /\ \A y \in 1 .. i : i >= y
  OBVIOUS
<1>2. \A x \in 1 .. i : (\A y \in 1 .. i : x >= y) => x = i
  OBVIOUS
<1> QED
  BY <1>1, <1>2 DEF Greatest

\* Numbers up to n that are not none have a greatest.
LEMMA GreatestExists ==
  ASSUME NEW n \in Nat, NEW s \in SUBSET (1 .. n), s # {}
  PROVE  Greatest(s) \in s /\ \A y \in s : Greatest(s) >= y
<1> DEFINE T == {n - y : y \in s}
<1>1. T \in SUBSET Nat /\ T # {}
  <2>1. \A y \in s : n - y \in Nat
    OBVIOUS
  <2> QED
    BY <2>1
<1>2. PICK z \in T : \A y \in T : z <= y
  BY <1>1, LeastNatural
<1>3. PICK x \in s : z = n - x
  BY <1>2
<1>4. \A y \in s : n - y \in T
  OBVIOUS
<1>5. \A y \in s : x >= y
  <2>1. ASSUME NEW y \in s PROVE n - x <= n - y
    BY <1>2, <1>3, <1>4, <2>1
  <2> HIDE DEF T
  <2> QED
    BY <2>1
<1> QED
  BY <1>5 DEF Greatest

\* A list has a fold from the left, by the parts of its places, the last place
\* being taken first.
HasListFold(n, list, A, base, step) ==
  \E g \in [SUBSET (1 .. n) -> A] : \A s \in SUBSET (1 .. n) :
    g[s] = IF s = {} THEN base ELSE step[list[Greatest(s)]][g[s \ {Greatest(s)}]]

LEMMA ListFoldExists ==
  ASSUME NEW n \in Nat, NEW X, NEW list \in [1 .. n -> X], NEW A, NEW base \in A,
         NEW step, \A x \in X : \A a \in A : step[x][a] \in A
  PROVE  HasListFold(n, list, A, base, step)
<1> DEFINE S    == 1 .. n
           pick == [s \in SUBSET S |-> Greatest(s)]
           go   == [i \in S |-> step[list[i]]]
<1>1. IsFiniteSet(S)
  BY FS_Interval
<1>2. \A s \in SUBSET S : s # {} => pick[s] \in s
  BY GreatestExists
<1>3. \A x \in S : \A a \in A : go[x][a] \in A
  OBVIOUS
<1>4. PICK g \in [SUBSET S -> A] : IsFold(g, S, base, pick, go)
  <2> HIDE DEF S, pick, go
  <2> QED
    BY <1>1, <1>2, <1>3, FoldExists DEF HasFold
<1>5. \A s \in SUBSET S : s # {} =>
        go[pick[s]][g[s \ {pick[s]}]] = step[list[Greatest(s)]][g[s \ {Greatest(s)}]]
  BY <1>2
<1>6. \A s \in SUBSET S :
        g[s] = IF s = {} THEN base
               ELSE step[list[Greatest(s)]][g[s \ {Greatest(s)}]]
  BY <1>4, <1>5 DEF IsFold
<1> QED
  BY <1>6 DEF HasListFold

\* One of finitely many values is the largest.
LEMMA LargestValue ==
  ASSUME NEW n \in Nat \ {0}, NEW v, \A i \in 1 .. n : v[i] \in Nat
  PROVE  \E i \in 1 .. n : \A j \in 1 .. n : v[i] >= v[j]
<1> DEFINE Tops(k) == \E i \in 1 .. k : \A j \in 1 .. k : v[i] >= v[j]
           A == {k \in 0 .. n : k = 0 \/ Tops(k)}
<1>1. 0 \in A
  OBVIOUS
<1>2. ASSUME NEW k \in 0 .. n - 1, k \in A
      PROVE  k + 1 \in A
  <2>1. k + 1 \in 1 .. n /\ k + 1 \in 0 .. n
    OBVIOUS
  <2>2. \A j : j \in 1 .. k + 1 <=> j \in 1 .. k \/ j = k + 1
    OBVIOUS
  <2>3. \A j \in 1 .. k + 1 : v[j] \in Nat
    BY <2>1
  <2>4. CASE k = 0
    <3>1. \A j \in 1 .. k + 1 : v[k + 1] >= v[j]
      <4>1. \A j \in 1 .. k + 1 : j = k + 1
        BY <2>4
      <4>2. v[k + 1] >= v[k + 1]
        BY <2>1
      <4> QED
        BY <4>1, <4>2
    <3>2. Tops(k + 1)
      BY <2>2, <3>1
    <3> QED
      BY <2>1, <3>2
  <2>5. CASE k # 0
    <3>1. PICK i \in 1 .. k : \A j \in 1 .. k : v[i] >= v[j]
      BY <1>2, <2>5
    <3>2. CASE v[i] >= v[k + 1]
      <4>1. Tops(k + 1)
        BY <2>2, <3>1, <3>2
      <4> QED
        BY <2>1, <4>1
    <3>3. CASE ~ (v[i] >= v[k + 1])
      <4>1. \A j \in 1 .. k + 1 : v[k + 1] >= v[j]
        BY <2>2, <2>3, <3>1, <3>3
      <4>2. Tops(k + 1)
        BY <2>2, <4>1
      <4> QED
        BY <2>1, <4>2
    <3> QED
      BY <3>2, <3>3
  <2> QED
    BY <2>4, <2>5
<1> HIDE DEF A
<1>3. n \in A
  BY <1>1, <1>2, UpTo
<1> QED
  BY <1>3 DEF A

-----------------------------------------------------------------------------
(* Sums.                                                                   *)

AnyOf(s) == CHOOSE x \in s : TRUE

IsSum(g, S, value) ==
  \A s \in SUBSET S : g[s] = IF s = {} THEN 0 ELSE value[AnyOf(s)] + g[s \ {AnyOf(s)}]

LEMMA SumExists ==
  ASSUME NEW S, IsFiniteSet(S), NEW value \in [S -> Nat]
  PROVE  \E g \in [SUBSET S -> Nat] : IsSum(g, S, value)
<1> DEFINE pick == [s \in SUBSET S |-> AnyOf(s)]
           add  == [x \in S |-> [n \in Nat |-> value[x] + n]]
<1>1. \A s \in SUBSET S : s # {} => pick[s] \in s
  BY DEF AnyOf
<1>2. \A x \in S : \A n \in Nat : add[x][n] \in Nat
  OBVIOUS
<1>3. PICK g \in [SUBSET S -> Nat] : IsFold(g, S, 0, pick, add)
  <2>1. 0 \in Nat
    OBVIOUS
  <2> HIDE DEF pick, add
  <2>2. HasFold(S, Nat, 0, pick, add)
    BY <1>1, <1>2, <2>1, FoldExists
  <2> QED
    BY <2>2 DEF HasFold
<1>4. \A s \in SUBSET S : s # {} =>
        add[pick[s]][g[s \ {pick[s]}]] = value[AnyOf(s)] + g[s \ {AnyOf(s)}]
  BY <1>1
<1>5. IsSum(g, S, value)
  BY <1>3, <1>4 DEF IsFold, IsSum
<1> QED
  BY <1>5

\* Any element may be taken first.
AddsUp(g, S, value) == \A s \in SUBSET S : \A x \in s : g[s] = value[x] + g[s \ {x}]

LEMMA SumAddsUp ==
  ASSUME NEW S, IsFiniteSet(S), NEW value \in [S -> Nat],
         NEW g \in [SUBSET S -> Nat], IsSum(g, S, value)
  PROVE  AddsUp(g, S, value)
<1> DEFINE Takes(s) == \A x \in s : g[s] = value[x] + g[s \ {x}]
           Good     == {k \in Nat : \A s \in SUBSET S : Cardinality(s) <= k => Takes(s)}
           n        == Cardinality(S)
<1>1. n \in Nat
  BY FS_CardinalityType
<1>2. \A s \in SUBSET S : IsFiniteSet(s) /\ Cardinality(s) \in Nat /\ Cardinality(s) <= n
  BY FS_Subset, FS_CardinalityType
<1>3. 0 \in Good
  BY <1>2, FS_EmptySet
<1>4. ASSUME NEW k \in 0 .. n - 1, k \in Good
      PROVE  k + 1 \in Good
  <2>1. ASSUME NEW s \in SUBSET S, Cardinality(s) <= k + 1, NEW x \in s
        PROVE  g[s] = value[x] + g[s \ {x}]
    <3> DEFINE y == AnyOf(s)
    <3>1. y \in s
      BY DEF AnyOf
    <3>2. g[s] = value[y] + g[s \ {y}]
      BY DEF IsSum
    <3>3. CASE x = y
      BY <3>2, <3>3
    <3>4. CASE x # y
      <4>1. Cardinality(s \ {y}) <= k /\ Cardinality(s \ {x}) <= k
        <5>1. Cardinality(s \ {y}) = Cardinality(s) - 1 /\ Cardinality(s \ {x}) = Cardinality(s) - 1
          BY <1>2, <3>1, FS_RemoveElement
        <5> QED
          BY <1>2, <2>1, <5>1
      <4>2. g[s \ {y}] = value[x] + g[(s \ {y}) \ {x}]
        BY <1>4, <3>4, <4>1
      <4>3. g[s \ {x}] = value[y] + g[(s \ {x}) \ {y}]
        BY <1>4, <3>1, <3>4, <4>1
      <4>4. (s \ {x}) \ {y} = (s \ {y}) \ {x}
        OBVIOUS
      <4>5. value[x] \in Nat /\ value[y] \in Nat /\ g[(s \ {y}) \ {x}] \in Nat
        BY <3>1
      <4>6. \A a, b, c \in Nat : a + (b + c) = b + (a + c)
        OBVIOUS
      <4>7. g[s] = value[y] + (value[x] + g[(s \ {y}) \ {x}])
        BY <3>2, <4>2
      <4>8. g[s \ {x}] = value[y] + g[(s \ {y}) \ {x}]
        BY <4>3, <4>4
      <4> HIDE DEF y
      <4> QED
        BY <4>5, <4>6, <4>7, <4>8
    <3> QED
      BY <3>3, <3>4
  <2>2. k + 1 \in Nat
    OBVIOUS
  <2> QED
    BY <2>1, <2>2
<1> HIDE DEF Good
<1>5. n \in Good
  BY <1>1, <1>3, <1>4, UpTo
<1> QED
  BY <1>2, <1>5 DEF Good, AddsUp

\* The sums over the parts of a set are those over the parts of a larger one.
LEMMA SumsAgree ==
  ASSUME NEW S, IsFiniteSet(S), NEW value \in [S -> Nat], NEW T \in SUBSET S,
         NEW g, IsSum(g, S, value), NEW h, IsSum(h, T, value)
  PROVE  \A s \in SUBSET T : g[s] = h[s]
<1> DEFINE pick == [s \in SUBSET T |-> AnyOf(s)]
           B    == {s \in SUBSET T : g[s] = h[s]}
<1>1. IsFiniteSet(T)
  BY FS_Subset
<1>2. \A s \in SUBSET T : s # {} => pick[s] \in s
  BY DEF AnyOf
<1>3. {} \in B
  BY DEF IsSum
<1>4. \A s \in SUBSET T : s # {} /\ s \ {pick[s]} \in B => s \in B
  <2>1. ASSUME NEW s \in SUBSET T, s # {}, s \ {AnyOf(s)} \in B PROVE s \in B
    <3>1. g[s] = value[AnyOf(s)] + g[s \ {AnyOf(s)}] /\ h[s] = value[AnyOf(s)] + h[s \ {AnyOf(s)}]
      BY <2>1 DEF IsSum
    <3> QED
      BY <2>1, <3>1
  <2> QED
    BY <2>1
<1> HIDE DEF B, pick
<1>5. \A s \in SUBSET T : s \in B
  BY <1>1, <1>2, <1>3, <1>4, FoldInduction
<1> QED
  BY <1>5 DEF B
===============================================================================
