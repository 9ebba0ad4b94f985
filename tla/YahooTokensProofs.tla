-------------------------- MODULE YahooTokensProofs --------------------------
(***************************************************************************)
(* Proofs about YahooTokens for every number of invocations and logins,    *)
(* every clock and every bound, with the lifetimes as ASSUMEd there.       *)
(***************************************************************************)
EXTENDS YahooTokens, TLAPS

(***************************************************************************)
(* The inductive invariant.                                                *)
(***************************************************************************)

\* What an invocation has in memory at each place of its program.
Remembers(p) ==
  /\ pc[p] \in {"idle", "get", "reuse"} => presented[p] = None
  /\ pc[p] = "request" => presented[p] \in Refresh
  /\ pc[p] = "receive" =>
       /\ held[p] \in Responses
       /\ held[p].refresh = None => presented[p] \in Refresh
  /\ pc[p] \in {"put", "use", "reuse"} => held[p] \in Tokens

\* Every token that is known has been issued, and those on their way are live.
Issued(p) ==
  /\ pc[p] = "request" => presented[p] <= issued
  /\ InFlight(p) \subseteq live

AllIssued ==
  /\ \A r \in live : r <= issued
  /\ RefreshFor(kv) <= issued

\* If Yahoo rotates tokens, one that is on its way to the store is in the hands
\* of one invocation only: it is neither stored nor about to be presented.
Owned(p) ==
  rotates =>
    \A r \in InFlight(p) :
      /\ r # RefreshFor(kv)
      /\ \A q \in Processes : pc[q] = "request" => presented[q] # r
      /\ \A q \in Processes \ {p} : r \notin InFlight(q)

\* The time that an invocation has left.
Punctual(p) ==
  /\ pc[p] \notin {"idle", "done"} => since[p] <= now /\ now <= since[p] + MaxDelay
  /\ pc[p] \in {"receive", "put"} => since[p] + Lifetime <= held[p].expiry
  /\ pc[p] = "put" => held[p].expiresAt <= held[p].expiry + MaxDelay
  /\ pc[p] = "use" =>
       /\ since[p] + MaxDelay < held[p].expiry
       /\ presented[p] # None => since[p] + Lifetime <= held[p].expiry

StoredPunctual == kv # None => kv.expiresAt <= kv.expiry + MaxDelay

\* The time for which a Job keeps a token.
CachePunctual(j) ==
  /\ cached[j] # None /\ cached[j].refreshed =>
       cached[j].until + MaxDelay <= cached[j].tokens.expiry
  /\ pc[j] = "reuse" =>
       /\ cached[j] # None
       /\ held[j] = cached[j].tokens
       /\ since[j] < cached[j].until

InCustody ==
  /\ AllIssued /\ \A p \in Processes : Issued(p)
  /\ \A p \in Processes : Owned(p)
  /\ Custody

IInv ==
  /\ TypeOK
  /\ \A p \in Processes : Remembers(p)
  /\ InCustody
  /\ StoredPunctual /\ \A p \in Processes : Punctual(p)
  /\ \A j \in Jobs : CachePunctual(j)

-----------------------------------------------------------------------------
(* Who acts.                                                               *)

Acts(p) ==
  \/ p \in Workers /\ (WorkerCalls(p) \/ WorkerUses(p))
  \/ p \in Jobs /\ (JobCalls(p) \/ JobReuses(p) \/ JobUses(p) \/ JobUsesAgain(p))
  \/ GetUsable(p, kv) \/ GetExpired(p, kv)
  \/ YahooRotates(p) \/ YahooKeeps(p) \/ YahooRefuses(p)
  \/ Receive(p) \/ Put(p) \/ Dies(p)
  \/ p \in Operators /\ (Login(p) \/ OperatorEnds(p))

LEMMA NextActs ==
  ASSUME [Next]_vars
  PROVE  UNCHANGED vars \/ Tick \/ \E p \in Processes : Acts(p)
BY DEF Next, CallerStep, Get, Acts, Processes, Callers

SameMemory(q) ==
  /\ pc'[q] = pc[q] /\ since'[q] = since[q]
  /\ presented'[q] = presented[q] /\ held'[q] = held[q]

LEMMA OthersKeep ==
  ASSUME TypeOK, NEW p \in Processes, Acts(p)
  PROVE  \A q \in Processes \ {p} : SameMemory(q)
BY DEF TypeOK, Acts, SameMemory, WorkerCalls, WorkerUses, JobCalls, JobReuses, JobUses,
       JobUsesAgain, GetUsable, GetExpired, YahooRotates, YahooKeeps, YahooRefuses,
       Receive, Put, Dies, Login, OperatorEnds, Goto, Ends, Call, Issue, yahoo

-----------------------------------------------------------------------------
(* Types.                                                                  *)

LEMMA Bounds ==
  /\ Refresh \subseteq Int /\ 0 \in Refresh /\ Times \subseteq Int /\ 0 \in Times
  /\ \A t \in 0 .. MaxTime : t \in Times /\ t + Lifetime \in Times /\ t \in Nat
  /\ \A r \in Refresh : r < MaxIssued => r + 1 \in Refresh
  /\ None \notin Refresh /\ None \notin Tokens /\ None \notin Responses
BY ParametersAssumption DEF Refresh, Times

\* What an invocation gets to hold.
LEMMA Received ==
  ASSUME TypeOK, NEW p \in Processes, Remembers(p), pc[p] = "receive"
  PROVE  /\ toStoredTokens(held[p], presented[p]) \in Tokens
         /\ toStoredTokens(held[p], presented[p]).expiry = held[p].expiry
         /\ toStoredTokens(held[p], presented[p]).expiresAt = now + Lifetime
         /\ InFlight(p) = {toStoredTokens(held[p], presented[p]).refresh}
<1>1. held[p] \in Responses
  BY DEF Remembers
<1>2. held[p].expiry \in Times /\ now + Lifetime \in Times
  BY <1>1, Bounds DEF Responses, TypeOK
<1>3. CASE held[p].refresh = None
  BY <1>2, <1>3 DEF Remembers, toStoredTokens, Tokens, InFlight
<1>4. CASE held[p].refresh # None
  BY <1>1, <1>2, <1>4 DEF Responses, toStoredTokens, Tokens, InFlight
<1> QED
  BY <1>3, <1>4

LEMMA StepTypes ==
  ASSUME TypeOK, \A p \in Processes : Remembers(p), [Next]_vars
  PROVE  TypeOK'
<1> USE Bounds
<1>1. CASE UNCHANGED vars
  BY <1>1 DEF vars, memory, yahoo, TypeOK
<1>2. CASE Tick
  BY <1>2, ParametersAssumption DEF Tick, memory, yahoo, TypeOK
<1>3. ASSUME NEW p \in Processes, Acts(p) PROVE TypeOK'
  <2>1. CASE p \in Workers /\ WorkerCalls(p)
    BY <2>1 DEF WorkerCalls, Call, Goto, yahoo, TypeOK
  <2>1a. CASE p \in Workers /\ WorkerUses(p)
    BY <2>1a DEF WorkerUses, Ends, yahoo, TypeOK
  <2>2. CASE p \in Jobs /\ JobCalls(p)
    BY <2>2 DEF JobCalls, Call, Goto, yahoo, TypeOK
  <2>3. CASE p \in Jobs /\ JobReuses(p)
    BY <2>3 DEF JobReuses, Goto, yahoo, TypeOK
  <2>4. CASE p \in Jobs /\ JobUses(p)
    BY <2>4, ParametersAssumption DEF JobUses, Ends, yahoo, TypeOK, Remembers
  <2>5. CASE p \in Jobs /\ JobUsesAgain(p)
    BY <2>5 DEF JobUsesAgain, Ends, yahoo, TypeOK
  <2>6. CASE GetUsable(p, kv)
    BY <2>6 DEF GetUsable, Goto, yahoo, TypeOK
  <2>7. CASE GetExpired(p, kv)
    BY <2>7 DEF GetExpired, Goto, yahoo, TypeOK, RefreshFor, Tokens, Secret
  <2>8. CASE YahooRotates(p)
    <3>1. issued + 1 \in Refresh /\ now + Lifetime \in Times
      BY <2>8 DEF YahooRotates, TypeOK
    <3>2. [expiry |-> now + Lifetime, refresh |-> issued + 1] \in Responses
      BY <3>1 DEF Responses
    <3> QED
      BY <2>8, <3>1, <3>2 DEF YahooRotates, Issue, Goto, TypeOK
  <2>9. CASE YahooKeeps(p)
    <3>1. \A r \in {None, presented[p]} : [expiry |-> now + Lifetime, refresh |-> r] \in Responses
      BY <2>9 DEF YahooKeeps, Issue, Goto, TypeOK, Responses, Remembers
    <3> QED
      BY <2>9, <3>1 DEF YahooKeeps, Issue, Goto, TypeOK, yahoo
  <2>10. CASE YahooRefuses(p)
    BY <2>10 DEF YahooRefuses, Ends, yahoo, TypeOK
  <2>11. CASE Receive(p)
    BY <2>11, Received DEF Receive, Goto, yahoo, TypeOK
  <2>12. CASE Put(p)
    BY <2>12 DEF Put, Goto, yahoo, TypeOK, Remembers
  <2>13. CASE Dies(p)
    <3>1. InFlight(p) \subseteq Refresh
      BY DEF InFlight, TypeOK, Remembers, Responses, Tokens
    <3> QED
      BY <2>13, <3>1 DEF Dies, Ends, yahoo, TypeOK
  <2>14. CASE p \in Operators /\ Login(p)
    <3>1. issued + 1 \in Refresh /\ now + Lifetime \in Times /\ now \in Times
      BY <2>14 DEF Login, TypeOK
    <3>2. [expiry |-> now + Lifetime, refresh |-> issued + 1] \in Responses
      BY <3>1 DEF Responses
    <3> QED
      BY <2>14, <3>1, <3>2 DEF Login, Goto, TypeOK
  <2>15. CASE p \in Operators /\ OperatorEnds(p)
    BY <2>15 DEF OperatorEnds, yahoo, TypeOK
  <2> QED
    BY <1>3, <2>1, <2>1a, <2>2, <2>3, <2>4, <2>5, <2>6, <2>7, <2>8, <2>9, <2>10, <2>11, <2>12,
       <2>13, <2>14, <2>15 DEF Acts
<1> QED
  BY <1>1, <1>2, <1>3, NextActs

-----------------------------------------------------------------------------
(* What each invocation has in memory.                                     *)

LEMMA StepRemembers ==
  ASSUME TypeOK, \A p \in Processes : Remembers(p), \A j \in Jobs : CachePunctual(j),
         [Next]_vars, NEW q \in Processes
  PROVE  Remembers(q)'
<1> USE Bounds
<1>1. CASE UNCHANGED vars
  BY <1>1 DEF vars, memory, Remembers
<1>2. CASE Tick
  BY <1>2 DEF Tick, memory, Remembers
<1>3. ASSUME NEW p \in Processes, Acts(p) PROVE Remembers(q)'
  <2>1. CASE q # p
    BY <1>3, <2>1, OthersKeep DEF SameMemory, Remembers
  <2>2. CASE q = p
    <3> USE <1>3, <2>2
    <3>1. CASE p \in Workers /\ (WorkerCalls(p) \/ WorkerUses(p))
      BY <3>1 DEF WorkerCalls, WorkerUses, Call, Goto, Ends, TypeOK, Remembers
    <3>2. CASE p \in Jobs /\ (JobCalls(p) \/ JobUses(p) \/ JobUsesAgain(p))
      BY <3>2 DEF JobCalls, JobUses, JobUsesAgain, Call, Goto, Ends, TypeOK, Remembers
    <3>3. CASE p \in Jobs /\ JobReuses(p)
      <4>1. cached[p].tokens \in Tokens
        BY <3>3 DEF JobReuses, TypeOK
      <4> QED
        BY <3>3, <4>1 DEF JobReuses, Goto, TypeOK, Remembers
    <3>4. CASE GetUsable(p, kv)
      BY <3>4 DEF GetUsable, Goto, TypeOK, Remembers
    <3>5. CASE GetExpired(p, kv)
      BY <3>5 DEF GetExpired, Goto, TypeOK, Remembers, RefreshFor, Tokens, Secret
    <3>6. CASE YahooRotates(p)
      <4>1. [expiry |-> now + Lifetime, refresh |-> issued + 1] \in Responses
        BY <3>6 DEF YahooRotates, TypeOK, Responses
      <4> QED
        BY <3>6, <4>1 DEF YahooRotates, Issue, Goto, TypeOK, Remembers
    <3>7. CASE YahooKeeps(p)
      <4>1. \A r \in {None, presented[p]} : [expiry |-> now + Lifetime, refresh |-> r] \in Responses
        BY <3>7 DEF YahooKeeps, Issue, Goto, TypeOK, Responses, Remembers
      <4> QED
        BY <3>7, <4>1 DEF YahooKeeps, Issue, Goto, TypeOK, Remembers
    <3>8. CASE YahooRefuses(p) \/ Dies(p)
      BY <3>8 DEF YahooRefuses, Dies, Ends, TypeOK, Remembers
    <3>9. CASE Receive(p)
      BY <3>9, Received DEF Receive, Goto, TypeOK, Remembers
    <3>10. CASE Put(p)
      BY <3>10 DEF Put, Goto, TypeOK, Remembers
    <3>11. CASE p \in Operators /\ Login(p)
      <4>1. [expiry |-> now + Lifetime, refresh |-> issued + 1] \in Responses
        BY <3>11 DEF Login, TypeOK, Responses
      <4>2. issued + 1 # None
        BY <3>11 DEF Login, TypeOK
      <4> QED
        BY <3>11, <4>1, <4>2 DEF Login, Goto, TypeOK, Remembers
    <3>12. CASE p \in Operators /\ OperatorEnds(p)
      BY <3>12 DEF OperatorEnds, TypeOK, Remembers
    <3> QED
      BY <3>1, <3>2, <3>3, <3>4, <3>5, <3>6, <3>7, <3>8, <3>9, <3>10, <3>11, <3>12 DEF Acts
  <2> QED
    BY <2>1, <2>2
<1> QED
  BY <1>1, <1>2, <1>3, NextActs

-----------------------------------------------------------------------------
(* Where the refresh tokens are.                                           *)

\* A step that moves no refresh token.
SameTokens(p) ==
  /\ UNCHANGED <<kv, yahoo, lost>>
  /\ InFlight(p)' = InFlight(p)
  /\ pc'[p] = "request" => \/ pc[p] = "request" /\ presented'[p] = presented[p]
                           \/ presented'[p] = RefreshFor(kv)

LEMMA OthersInFlight ==
  ASSUME NEW q \in Processes, SameMemory(q)
  PROVE  InFlight(q)' = InFlight(q)
BY DEF SameMemory, InFlight

LEMMA KeepTokens ==
  ASSUME TypeOK, InCustody, NEW p \in Processes, SameTokens(p),
         \A q \in Processes \ {p} : SameMemory(q)
  PROVE  InCustody'
<1>1. \A q \in Processes : InFlight(q)' = InFlight(q)
  BY OthersInFlight DEF SameTokens
<1>2. \A q \in Processes : pc'[q] = "request" =>
        \/ pc[q] = "request" /\ presented'[q] = presented[q]
        \/ presented'[q] = RefreshFor(kv)
  BY DEF SameTokens, SameMemory
<1>3. RefreshFor(kv)' = RefreshFor(kv) /\ kv' = kv /\ issued' = issued /\ live' = live
      /\ rotates' = rotates /\ lost' = lost /\ successor' = successor
  BY DEF SameTokens, yahoo, RefreshFor
<1>4. AllIssued' /\ \A q \in Processes : Issued(q)'
  BY <1>1, <1>2, <1>3 DEF InCustody, AllIssued, Issued
<1>5. \A q \in Processes : Owned(q)'
  BY <1>1, <1>2, <1>3 DEF InCustody, Owned
<1>6. Custody'
  BY <1>1, <1>3 DEF InCustody, Custody
<1> QED
  BY <1>4, <1>5, <1>6 DEF InCustody

\* No action but the five below moves a refresh token.
LEMMA MostKeepTokens ==
  ASSUME TypeOK, NEW p \in Processes, Remembers(p),
         \/ p \in Workers /\ (WorkerCalls(p) \/ WorkerUses(p))
         \/ p \in Jobs /\ (JobCalls(p) \/ JobReuses(p) \/ JobUses(p) \/ JobUsesAgain(p))
         \/ GetUsable(p, kv) \/ GetExpired(p, kv) \/ YahooRefuses(p) \/ Receive(p)
         \/ p \in Operators /\ OperatorEnds(p)
  PROVE  SameTokens(p)
<1>1. CASE \/ p \in Workers /\ (WorkerCalls(p) \/ WorkerUses(p))
           \/ p \in Jobs /\ (JobCalls(p) \/ JobReuses(p) \/ JobUses(p) \/ JobUsesAgain(p))
  BY <1>1 DEF WorkerCalls, WorkerUses, JobCalls, JobReuses, JobUses, JobUsesAgain, Call,
              Goto, Ends, TypeOK, SameTokens, InFlight
<1>2. CASE GetUsable(p, kv) \/ GetExpired(p, kv)
  BY <1>2 DEF GetUsable, GetExpired, Goto, TypeOK, SameTokens, InFlight
<1>3. CASE YahooRefuses(p) \/ (p \in Operators /\ OperatorEnds(p))
  BY <1>3 DEF YahooRefuses, OperatorEnds, Ends, TypeOK, SameTokens, InFlight
<1>4. CASE Receive(p)
  <2>1. /\ pc[p] = "receive" /\ pc'[p] = "put"
        /\ held'[p] = toStoredTokens(held[p], presented[p])
        /\ UNCHANGED <<kv, yahoo, lost>>
    BY <1>4 DEF Receive, Goto, TypeOK
  <2>2. InFlight(p)' = {held'[p].refresh}
    BY <2>1, Received, Bounds DEF InFlight, Tokens
  <2> QED
    BY <2>1, <2>2, Received DEF SameTokens
<1> QED
  BY <1>1, <1>2, <1>3, <1>4

LEMMA Known ==
  ASSUME TypeOK, \A q \in Processes : Remembers(q)
  PROVE  /\ RefreshFor(kv) \in Refresh /\ RefreshFor(kv) \in Int
         /\ issued \in Int /\ issued + 1 \in Int /\ issued + 1 # None
         /\ live \subseteq Int
         /\ \A q \in Processes : pc[q] = "request" => presented[q] \in Int
<1>1. RefreshFor(kv) \in Refresh
  BY Bounds DEF RefreshFor, TypeOK, Tokens, Secret
<1>2. issued \in Int /\ issued + 1 \in Int /\ issued + 1 # None
  BY Bounds, ParametersAssumption DEF TypeOK
<1>3. live \subseteq Int /\ \A q \in Processes : pc[q] = "request" => presented[q] \in Int
  BY Bounds DEF TypeOK, Remembers
<1> QED
  BY <1>1, <1>2, <1>3, Bounds

\* A token that Yahoo has just issued is known to its receiver only.
LEMMA NewToken ==
  ASSUME TypeOK, InCustody
  PROVE  /\ issued + 1 \notin live
         /\ issued + 1 # RefreshFor(kv)
         /\ \A q \in Processes :
              /\ issued + 1 \notin InFlight(q)
              /\ pc[q] = "request" => presented[q] # issued + 1
BY Bounds DEF TypeOK, InCustody, AllIssued, Issued

LEMMA RotatesInCustody ==
  ASSUME TypeOK, InCustody, \A q \in Processes : Remembers(q), NEW p \in Processes, YahooRotates(p),
         \A q \in Processes \ {p} : SameMemory(q)
  PROVE  InCustody'
<1> DEFINE new == issued + 1
<1>1. /\ rotates /\ rotates' = rotates /\ presented[p] \in live
      /\ pc[p] = "request" /\ pc'[p] = "receive"
      /\ held'[p].refresh = new /\ presented' = presented
      /\ issued' = new /\ live' = (live \ {presented[p]}) \cup {new}
      /\ successor'[presented[p]] = new
      /\ \A r \in Refresh \ {presented[p]} : successor'[r] = successor[r]
      /\ kv' = kv /\ lost' = lost
  BY DEF YahooRotates, Issue, Goto, TypeOK
<1>2. new # None
  BY Known
<1>3. InFlight(p)' = {new} /\ InFlight(p) = {}
  BY <1>1, <1>2 DEF InFlight
<1>4. \A q \in Processes \ {p} : InFlight(q)' = InFlight(q) /\ pc'[q] = pc[q]
  BY OthersInFlight DEF SameMemory
<1>5. RefreshFor(kv)' = RefreshFor(kv)
  BY <1>1 DEF RefreshFor
<1>6. AllIssued'
  BY <1>1, <1>5, Known DEF InCustody, AllIssued
<1>7. \A q \in Processes : Issued(q)'
  <2>1. \A q \in Processes \ {p} : presented[p] \notin InFlight(q)
    BY <1>1 DEF InCustody, Owned
  <2>2. \A q \in Processes \ {p} : pc'[q] = "request" => presented'[q] <= new
    BY <1>1, <1>4, Known DEF InCustody, Issued
  <2> QED
    BY <1>1, <1>3, <1>4, <2>1, <2>2 DEF InCustody, Issued
<1>8. \A q \in Processes : Owned(q)'
  BY <1>1, <1>3, <1>4, <1>5, NewToken DEF InCustody, Owned
<1>9. Custody'
  <2> DEFINE stored == RefreshFor(kv)
  <2>1. CASE stored = presented[p]
    BY <1>1, <1>3, <1>5, <2>1 DEF Custody
  <2>2. CASE stored # presented[p]
    BY <1>1, <1>3, <1>4, <1>5, <2>2, Known DEF Custody, InCustody
  <2> QED
    BY <2>1, <2>2
<1> QED
  BY <1>6, <1>7, <1>8, <1>9 DEF InCustody

\* Without rotation Yahoo returns the token presented, which stays live.
LEMMA KeepsInCustody ==
  ASSUME TypeOK, InCustody, \A q \in Processes : Remembers(q),
         NEW p \in Processes, YahooKeeps(p),
         \A q \in Processes \ {p} : SameMemory(q)
  PROVE  InCustody'
<1>1. /\ ~rotates /\ rotates' = rotates /\ presented[p] \in live
      /\ pc[p] = "request" /\ pc'[p] = "receive"
      /\ held'[p].refresh \in {None, presented[p]} /\ presented' = presented
      /\ issued' = issued /\ live' = live /\ successor' = successor
      /\ kv' = kv /\ lost' = lost
  BY DEF YahooKeeps, Issue, Goto, TypeOK, yahoo
<1>2. InFlight(p)' = {presented[p]} /\ InFlight(p) = {}
  BY <1>1 DEF InFlight
<1>3. \A q \in Processes \ {p} : InFlight(q)' = InFlight(q) /\ pc'[q] = pc[q]
  BY OthersInFlight DEF SameMemory
<1>4. RefreshFor(kv)' = RefreshFor(kv)
  BY <1>1 DEF RefreshFor
<1>5. AllIssued' /\ \A q \in Processes : Issued(q)'
  BY <1>1, <1>2, <1>3, <1>4 DEF InCustody, AllIssued, Issued
<1>6. (\A q \in Processes : Owned(q)') /\ Custody'
  BY <1>1, <1>2, <1>3, <1>4 DEF InCustody, Owned, Custody
<1> QED
  BY <1>5, <1>6 DEF InCustody

\* A put brings a live token into the store.
LEMMA PutInCustody ==
  ASSUME TypeOK, InCustody, \A q \in Processes : Remembers(q),
         NEW p \in Processes, Put(p),
         \A q \in Processes \ {p} : SameMemory(q)
  PROVE  InCustody'
<1> DEFINE new == held[p].refresh
<1>1. /\ pc[p] = "put" /\ pc'[p] = "use" /\ kv' = held[p]
      /\ UNCHANGED <<presented, rotates, live, successor, issued, lost>>
  BY DEF Put, Goto, TypeOK, yahoo
<1>2. held[p] \in Tokens /\ new # None /\ held[p] # None
  BY <1>1, Bounds DEF Remembers, Tokens
<1>3. InFlight(p) = {new} /\ InFlight(p)' = {} /\ RefreshFor(kv)' = new
  BY <1>1, <1>2 DEF InFlight, RefreshFor
<1>4. \A q \in Processes \ {p} : InFlight(q)' = InFlight(q) /\ pc'[q] = pc[q]
  BY OthersInFlight DEF SameMemory
<1>5. new \in live
  BY <1>3 DEF InCustody, Issued
<1>6. AllIssued' /\ \A q \in Processes : Issued(q)'
  BY <1>1, <1>3, <1>4, <1>5 DEF InCustody, AllIssued, Issued
<1>7. \A q \in Processes : Owned(q)'
  BY <1>1, <1>3, <1>4 DEF InCustody, Owned
<1>8. Custody'
  BY <1>1, <1>3, <1>5 DEF Custody
<1> QED
  BY <1>6, <1>7, <1>8 DEF InCustody

\* What an invocation that ends had in hand is lost.
LEMMA DiesInCustody ==
  ASSUME TypeOK, InCustody, NEW p \in Processes, Dies(p),
         \A q \in Processes \ {p} : SameMemory(q)
  PROVE  InCustody'
<1>1. /\ pc'[p] = "idle" /\ lost' = lost \cup InFlight(p)
      /\ UNCHANGED <<kv, rotates, live, successor, issued>>
  BY DEF Dies, Ends, TypeOK, yahoo
<1>2. InFlight(p)' = {}
  BY <1>1 DEF InFlight
<1>3. \A q \in Processes \ {p} : InFlight(q)' = InFlight(q) /\ pc'[q] = pc[q] /\ presented'[q] = presented[q]
  BY OthersInFlight DEF SameMemory
<1>4. RefreshFor(kv)' = RefreshFor(kv)
  BY <1>1 DEF RefreshFor
<1>5. AllIssued' /\ \A q \in Processes : Issued(q)'
  BY <1>1, <1>2, <1>3, <1>4 DEF InCustody, AllIssued, Issued
<1>6. \A q \in Processes : Owned(q)'
  BY <1>1, <1>2, <1>3, <1>4 DEF InCustody, Owned
<1>7. Custody'
  BY <1>1, <1>3, <1>4 DEF InCustody, Custody
<1> QED
  BY <1>5, <1>6, <1>7 DEF InCustody

\* A login adds a token and ends none.
LEMMA LoginInCustody ==
  ASSUME TypeOK, InCustody, \A q \in Processes : Remembers(q),
         NEW p \in Processes, Login(p),
         \A q \in Processes \ {p} : SameMemory(q)
  PROVE  InCustody'
<1> DEFINE new == issued + 1
<1>1. /\ pc[p] = "idle" /\ pc'[p] = "receive" /\ held'[p].refresh = new
      /\ issued' = new /\ live' = live \cup {new}
      /\ UNCHANGED <<kv, presented, rotates, successor, lost>>
  BY DEF Login, Goto, TypeOK
<1>2. InFlight(p)' = {new} /\ InFlight(p) = {}
  BY <1>1, Known DEF InFlight
<1>3. \A q \in Processes \ {p} : InFlight(q)' = InFlight(q) /\ pc'[q] = pc[q]
  BY OthersInFlight DEF SameMemory
<1>4. RefreshFor(kv)' = RefreshFor(kv)
  BY <1>1 DEF RefreshFor
<1>5. AllIssued'
  BY <1>1, <1>4, Known DEF InCustody, AllIssued
<1>6. \A q \in Processes : Issued(q)'
  <2>1. \A q \in Processes : pc'[q] = "request" => presented'[q] <= new
    BY <1>1, <1>3, Known DEF InCustody, Issued
  <2> QED
    BY <1>1, <1>2, <1>3, <2>1 DEF InCustody, Issued
<1>7. \A q \in Processes : Owned(q)'
  BY <1>1, <1>2, <1>3, <1>4, NewToken DEF InCustody, Owned
<1>8. Custody'
  BY <1>1, <1>2, <1>3, <1>4 DEF InCustody, Custody
<1> QED
  BY <1>5, <1>6, <1>7, <1>8 DEF InCustody

LEMMA StepInCustody ==
  ASSUME TypeOK, InCustody, \A q \in Processes : Remembers(q), [Next]_vars
  PROVE  InCustody'
<1>1. CASE UNCHANGED vars \/ Tick
  BY <1>1 DEF vars, Tick, memory, yahoo, InCustody, AllIssued, Issued, Owned, Custody,
              InFlight, RefreshFor
<1>2. ASSUME NEW p \in Processes, Acts(p) PROVE InCustody'
  <2>1. \A q \in Processes \ {p} : SameMemory(q)
    BY <1>2, OthersKeep
  <2>2. CASE SameTokens(p)
    BY <2>1, <2>2, KeepTokens
  <2>3. CASE YahooRotates(p) \/ YahooKeeps(p) \/ Put(p) \/ Dies(p) \/ Login(p)
    BY <2>1, <2>3, RotatesInCustody, KeepsInCustody, PutInCustody, DiesInCustody, LoginInCustody
  <2> QED
    BY <1>2, <2>2, <2>3, MostKeepTokens DEF Acts
<1> QED
  BY <1>1, <1>2, NextActs

-----------------------------------------------------------------------------
(* How much time the tokens have left.                                     *)

LEMMA Clock ==
  ASSUME TypeOK
  PROVE  /\ now \in Int /\ \A p \in Processes : since[p] \in Int
         /\ Lifetime \in Nat /\ Buffer \in Nat /\ MaxDelay \in Nat /\ RemoteCache \in Nat
         /\ \A t \in Tokens : t.expiry \in Int /\ t.expiresAt \in Int
         /\ \A r \in Responses : r.expiry \in Int
BY Bounds, ParametersAssumption DEF TypeOK, Tokens, Responses

\* A token judged usable by a call outlives the longest delay of that call.
LEMMA UsableLongEnough ==
  ASSUME TypeOK, StoredPunctual, kv # None, isUsable(kv), NEW s \in Int, s <= now
  PROVE  s + MaxDelay < kv.expiry
<1>1. kv \in Tokens
  BY DEF TypeOK
<1> QED
  BY <1>1, Clock, BufferCoversDelays DEF StoredPunctual, isUsable

LEMMA StepPunctual ==
  ASSUME TypeOK, \A p \in Processes : Remembers(p), StoredPunctual,
         \A p \in Processes : Punctual(p), [Next]_vars, NEW q \in Processes
  PROVE  Punctual(q)'
<1>1. CASE UNCHANGED vars
  BY <1>1 DEF vars, memory, Punctual
<1>2. CASE Tick
  BY <1>2, Clock DEF Tick, memory, Punctual
<1>3. ASSUME NEW p \in Processes, Acts(p) PROVE Punctual(q)'
  <2> USE <1>3
  <2>1. now' = now
    BY DEF Acts, WorkerCalls, WorkerUses, JobCalls, JobReuses, JobUses, JobUsesAgain, GetUsable,
           GetExpired, YahooRotates, YahooKeeps, YahooRefuses, Receive, Put, Dies, Login, OperatorEnds
  <2>2. CASE q # p
    BY <2>1, <2>2, OthersKeep DEF SameMemory, Punctual
  <2>3. CASE q = p
    <3> USE <2>1, <2>3, Clock
    <3>1. CASE \/ p \in Workers /\ WorkerCalls(p)
               \/ p \in Jobs /\ (JobCalls(p) \/ JobReuses(p))
      <4>1. /\ pc'[p] \in {"get", "reuse"} /\ since'[p] = now
        BY <3>1 DEF WorkerCalls, JobCalls, JobReuses, Call, Goto, TypeOK
      <4> QED
        BY <4>1 DEF Punctual
    <3>2. CASE \/ p \in Workers /\ WorkerUses(p)
               \/ p \in Jobs /\ (JobUses(p) \/ JobUsesAgain(p))
               \/ YahooRefuses(p) \/ Dies(p) \/ (p \in Operators /\ OperatorEnds(p))
      <4>1. pc'[p] \in {"idle", "done"}
        BY <3>2 DEF WorkerUses, JobUses, JobUsesAgain, YahooRefuses, Dies, OperatorEnds, Ends, TypeOK
      <4> QED
        BY <4>1 DEF Punctual
    <3>3. CASE GetUsable(p, kv)
      <4>1. /\ pc[p] = "get" /\ pc'[p] = "use" /\ held'[p] = kv
            /\ since' = since /\ presented' = presented /\ kv # None /\ isUsable(kv)
        BY <3>3 DEF GetUsable, Goto, TypeOK
      <4>2. presented'[p] = None
        BY <4>1 DEF Remembers
      <4>3. since[p] <= now /\ now <= since[p] + MaxDelay
        BY <4>1 DEF Punctual
      <4>4. since[p] + MaxDelay < kv.expiry
        BY <4>1, <4>3, UsableLongEnough
      <4> QED
        BY <4>1, <4>2, <4>3, <4>4 DEF Punctual
    <3>4. CASE GetExpired(p, kv)
      <4>1. pc[p] = "get" /\ pc'[p] = "request" /\ since' = since
        BY <3>4 DEF GetExpired, Goto, TypeOK
      <4> QED
        BY <4>1 DEF Punctual
    <3>5. CASE YahooRotates(p) \/ YahooKeeps(p)
      <4>1. /\ pc[p] = "request" /\ pc'[p] = "receive" /\ since' = since
            /\ held'[p].expiry = now + Lifetime
        BY <3>5 DEF YahooRotates, YahooKeeps, Issue, Goto, TypeOK
      <4> QED
        BY <4>1 DEF Punctual
    <3>6. CASE Receive(p)
      <4>1. /\ pc[p] = "receive" /\ pc'[p] = "put" /\ since' = since
            /\ held'[p] = toStoredTokens(held[p], presented[p])
        BY <3>6 DEF Receive, Goto, TypeOK
      <4>2. held'[p].expiry = held[p].expiry /\ held'[p].expiresAt = now + Lifetime
        BY <4>1, Received
      <4>3. held[p] \in Responses
        BY <4>1 DEF Remembers
      <4> QED
        BY <4>1, <4>2, <4>3 DEF Punctual
    <3>7. CASE Put(p)
      <4>1. /\ pc[p] = "put" /\ pc'[p] = "use" /\ since' = since /\ held' = held
        BY <3>7 DEF Put, Goto, TypeOK
      <4>2. held[p] \in Tokens
        BY <4>1 DEF Remembers
      <4> QED
        BY <4>1, <4>2, BufferCoversDelays DEF Punctual
    <3>8. CASE p \in Operators /\ Login(p)
      <4>1. /\ pc'[p] = "receive" /\ since'[p] = now /\ held'[p].expiry = now + Lifetime
        BY <3>8 DEF Login, Goto, TypeOK
      <4> QED
        BY <4>1 DEF Punctual
    <3> QED
      BY <3>1, <3>2, <3>3, <3>4, <3>5, <3>6, <3>7, <3>8 DEF Acts
  <2> QED
    BY <2>2, <2>3
<1> QED
  BY <1>1, <1>2, <1>3, NextActs

\* Only a put changes the store.
LEMMA StepStoredPunctual ==
  ASSUME StoredPunctual, \A p \in Processes : Punctual(p), [Next]_vars
  PROVE  StoredPunctual'
<1>1. CASE kv' = kv
  BY <1>1 DEF StoredPunctual
<1>2. ASSUME NEW p \in Processes, Put(p) PROVE StoredPunctual'
  BY <1>2 DEF Put, Goto, Punctual, StoredPunctual
<1>3. kv' = kv \/ \E p \in Processes : Put(p)
  BY NextActs DEF vars, Tick, Acts, WorkerCalls, WorkerUses, JobCalls, JobReuses, JobUses,
     JobUsesAgain, GetUsable, GetExpired, YahooRotates, YahooKeeps, YahooRefuses, Receive, Dies,
     Login, OperatorEnds
<1> QED
  BY <1>1, <1>2, <1>3

\* Only a Job's use of a new token changes what it keeps.
LEMMA StepCachePunctual ==
  ASSUME TypeOK, \A p \in Processes : Remembers(p), \A p \in Processes : Punctual(p),
         \A j \in Jobs : CachePunctual(j), [Next]_vars, NEW j \in Jobs
  PROVE  CachePunctual(j)'
<1>0. j \in Processes
  BY DEF Processes, Callers
<1>1. CASE UNCHANGED vars \/ Tick
  BY <1>1 DEF vars, Tick, memory, CachePunctual
<1>2. ASSUME NEW p \in Processes, Acts(p) PROVE CachePunctual(j)'
  <2> USE <1>0, <1>2
  <2>1. CASE p # j
    <3>1. cached'[j] = cached[j]
      BY <2>1 DEF Acts, WorkerCalls, WorkerUses, JobCalls, JobReuses, JobUses, JobUsesAgain,
         GetUsable, GetExpired, YahooRotates, YahooKeeps, YahooRefuses, Receive, Put, Dies, Login,
         OperatorEnds, TypeOK
    <3> QED
      BY <2>1, <3>1, OthersKeep DEF SameMemory, CachePunctual
  <2>2. CASE p = j
    <3> USE <2>2
    <3>1. CASE JobReuses(p)
      BY <3>1 DEF JobReuses, Goto, TypeOK, CachePunctual
    <3>2. CASE JobUses(p)
      <4>1. /\ pc[p] = "use" /\ pc'[p] = "idle"
            /\ cached'[p] = [tokens |-> held[p], until |-> now + RemoteCache,
                             refreshed |-> presented[p] # None]
        BY <3>2 DEF JobUses, Ends, TypeOK
      <4>2. /\ held[p] \in Tokens
            /\ since[p] <= now /\ now <= since[p] + MaxDelay
            /\ presented[p] # None => since[p] + Lifetime <= held[p].expiry
        BY <4>1 DEF Remembers, Punctual
      <4>3. presented[p] # None => now + RemoteCache + MaxDelay <= held[p].expiry
        BY <4>2, Clock, FreshOutlivesCache
      <4>4. cached'[p].tokens = held[p] /\ cached'[p].until = now + RemoteCache
        BY <4>1
      <4>5. cached'[p].refreshed => presented[p] # None
        <5>1. cached'[p].refreshed = (presented[p] # None)
          BY <4>1
        <5> QED
          BY <5>1, Zenon
      <4> QED
        BY <4>1, <4>3, <4>4, <4>5 DEF CachePunctual
    <3>3. CASE ~JobReuses(p) /\ ~JobUses(p)
      <4>1. cached' = cached /\ pc'[p] # "reuse"
        BY <3>3, ParametersAssumption DEF Acts, WorkerCalls, WorkerUses, JobCalls, JobUsesAgain,
           GetUsable, GetExpired, YahooRotates, YahooKeeps, YahooRefuses, Receive, Put, Dies, Login,
           OperatorEnds, Call, Goto, Ends, Issue, TypeOK
      <4> QED
        BY <4>1 DEF CachePunctual
    <3> QED
      BY <3>1, <3>2, <3>3
  <2> QED
    BY <2>1, <2>2
<1> QED
  BY <1>1, <1>2, NextActs

-----------------------------------------------------------------------------
(* The theorems.                                                           *)

LEMMA InitIInv == Init => IInv
<1> SUFFICES ASSUME Init PROVE IInv
  OBVIOUS
<1> USE Bounds
<1>1. TypeOK
  BY ParametersAssumption DEF Init, TypeOK, Secret
<1>2. \A p \in Processes : Remembers(p) /\ Punctual(p) /\ InFlight(p) = {}
  BY DEF Init, Remembers, Punctual, InFlight
<1>3. kv = None /\ RefreshFor(kv) = 0 /\ live = {0} /\ issued = 0
  BY DEF Init, RefreshFor, Secret
<1>4. InCustody
  BY <1>2, <1>3 DEF Init, InCustody, AllIssued, Issued, Owned, Custody
<1>5. StoredPunctual /\ \A j \in Jobs : CachePunctual(j)
  BY DEF Init, StoredPunctual, CachePunctual, Processes, Callers
<1> QED
  BY <1>1, <1>2, <1>4, <1>5 DEF IInv

LEMMA Invariance == Spec => []IInv
<1>1. IInv /\ [Next]_vars => IInv'
  BY StepTypes, StepRemembers, StepInCustody, StepPunctual, StepStoredPunctual,
     StepCachePunctual DEF IInv
<1> QED
  BY <1>1, InitIInv, PTL DEF Spec

\* The store and the memories are well typed: what is stored has a refresh token.
THEOREM TypeCorrect == Spec => []TypeOK
BY Invariance, PTL DEF IInv

\* The stored refresh token is dead only while its successor is on its way to the
\* store or after that was lost, however the calls and logins interleave.
THEOREM InGoodHands == Spec => []Custody
BY Invariance, PTL DEF IInv, InCustody

\* No request of the Worker carries an expired token.
THEOREM WorkersAlive == Spec => WorkerTokenAlive
<1>1. ASSUME IInv, NEW w \in Workers, WorkerUses(w) PROVE now < held[w].expiry
  <2>1. w \in Processes /\ pc[w] = "use"
    BY <1>1 DEF WorkerUses, Processes, Callers
  <2>2. held[w] \in Tokens /\ since[w] + MaxDelay < held[w].expiry /\ now <= since[w] + MaxDelay
    BY <1>1, <2>1 DEF IInv, Remembers, Punctual
  <2> QED
    BY <1>1, <2>1, <2>2, Clock DEF IInv
<1>2. IInv => [\A w \in Workers : WorkerUses(w) => now < held[w].expiry]_vars
  BY <1>1
<1> QED
  BY <1>2, Invariance, PTL DEF WorkerTokenAlive

\* A Job is handed no expired token, and a token refreshed for it lives as long as
\* the Job keeps it.
THEOREM RemotesAlive == Spec => RemoteTokenAlive
<1>1. ASSUME IInv, NEW j \in Jobs, JobUses(j) PROVE now < held[j].expiry
  <2>1. j \in Processes /\ pc[j] = "use"
    BY <1>1 DEF JobUses, Processes, Callers
  <2>2. held[j] \in Tokens /\ since[j] + MaxDelay < held[j].expiry /\ now <= since[j] + MaxDelay
    BY <1>1, <2>1 DEF IInv, Remembers, Punctual
  <2> QED
    BY <1>1, <2>1, <2>2, Clock DEF IInv
<1>2. ASSUME IInv, NEW j \in Jobs, JobUsesAgain(j), cached[j].refreshed
      PROVE  now < held[j].expiry
  <2>1. j \in Processes /\ pc[j] = "reuse"
    BY <1>2 DEF JobUsesAgain, Processes, Callers
  <2>2. /\ held[j] \in Tokens /\ now <= since[j] + MaxDelay
        /\ cached[j] # None /\ held[j] = cached[j].tokens /\ since[j] < cached[j].until
        /\ cached[j].until + MaxDelay <= cached[j].tokens.expiry
    BY <1>2, <2>1 DEF IInv, Remembers, Punctual, CachePunctual
  <2>3. cached[j].until \in Int
    BY <1>2, <2>2 DEF IInv, TypeOK
  <2> QED
    BY <1>2, <2>1, <2>2, <2>3, Clock DEF IInv
<1> DEFINE Alive == \A j \in Jobs :
                      /\ JobUses(j) => now < held[j].expiry
                      /\ JobUsesAgain(j) /\ cached[j].refreshed => now < held[j].expiry
<1>3. IInv => [Alive]_vars
  BY <1>1, <1>2
<1> QED
  BY <1>3, Invariance, PTL DEF RemoteTokenAlive
=============================================================================
