----------------------------- MODULE YahooTokens -----------------------------
(***************************************************************************)
(* The custody of Yahoo's OAuth tokens.  Every request that a Worker       *)
(* invocation makes to Yahoo begins with getAccessToken: get the stored    *)
(* tokens from KV, hand out the access token while it is usable, otherwise *)
(* present the refresh token to Yahoo, put what comes back and hand that   *)
(* out.  Nothing makes these steps one: invocations overlap, and may end   *)
(* at any step.  (KV answers with an old value for a while; a call that    *)
(* gets one is in the state of a call that read before the put and waited.)*)
(* An operator's login (the OAuth callback) puts the tokens of a new grant *)
(* into the same key.  The workflow and the CLI get access tokens from the *)
(* Worker and keep them for a time of their own.                           *)
(*                                                                         *)
(* Refresh tokens are numbers, in the order in which Yahoo issues them; an *)
(* access token is the time at which it expires.  Whether a refresh ends   *)
(* the token that was presented is Yahoo's choice (rotates).               *)
(***************************************************************************)
EXTENDS Integers, FiniteSets

CONSTANTS
  Workers,      \* invocations of the Worker that ask for a token
  Jobs,         \* remote holders of a token: workflow runs, the CLI
  Operators,    \* logins through the OAuth callback
  Lifetime,     \* of an access token (expires_in, an hour)
  Buffer,       \* EXPIRY_BUFFER_MS
  RemoteCache,  \* how long a Job keeps an access token (50 minutes)
  MaxDelay,     \* bound: the time from a call to the use of its token
  MaxTime,      \* bound: the clock
  MaxIssued,    \* bound: refresh tokens Yahoo issues
  MaxLost,      \* bound: tokens that never reach the store
  None

Callers   == Workers \cup Jobs
Processes == Callers \cup Operators

\* Secret is the refresh token the Worker is deployed with, YAHOO_REFRESH_TOKEN.
Refresh == 0 .. MaxIssued
Secret  == 0
Times   == 0 .. MaxTime + Lifetime

\* YahooStoredTokens: the access token is its true expiry at Yahoo; expiresAt is
\* what the code computed when it had the answer.
Tokens == [expiry : Times, refresh : Refresh, expiresAt : Times]

\* YahooOAuthTokenResponse: the refresh token is optional.
Responses == [expiry : Times, refresh : Refresh \cup {None}]

ASSUME ParametersAssumption ==
  /\ Workers \cap Jobs = {} /\ Callers \cap Operators = {}
  /\ Lifetime \in Nat /\ Buffer \in Nat /\ RemoteCache \in Nat
  /\ MaxDelay \in Nat /\ MaxTime \in Nat /\ MaxIssued \in Nat /\ MaxLost \in Nat
  /\ None \notin Int /\ None \notin Tokens \cup Responses

\* What the buffer is for: it covers a slow answer from Yahoo, which makes
\* expiresAt late, and a slow use of the token.
ASSUME BufferCoversDelays == 2 * MaxDelay <= Buffer /\ MaxDelay < Lifetime

\* A token that a Job is handed just refreshed outlives the Job's cache.
ASSUME FreshOutlivesCache == RemoteCache + 2 * MaxDelay <= Lifetime

VARIABLES
  kv,         \* the row TOKEN_STORE_KEY, or None
  \* memory of the invocations
  pc,         \* where each invocation stands
  since,      \* when its call began
  presented,  \* the refresh token it presents
  held,       \* Yahoo's response, then the tokens it holds
  cached,     \* a Job's token and the time until which it keeps it; refreshed,
              \* history: Yahoo issued it for this Job
  \* Yahoo, the clock, and history
  rotates,    \* a refresh ends the token presented
  live,       \* the refresh tokens Yahoo accepts
  successor,  \* the token issued for each refresh token, if any
  issued,     \* the newest refresh token
  now,
  lost        \* tokens whose holder ended before they were stored

memory == <<pc, since, presented, held, cached>>
yahoo  == <<rotates, live, successor, issued>>
vars   == <<kv, memory, yahoo, now, lost>>

Init ==
  /\ kv = None
  /\ pc = [p \in Processes |-> "idle"]
  /\ since = [p \in Processes |-> 0]
  /\ presented = [p \in Processes |-> None]
  /\ held = [p \in Processes |-> None]
  /\ cached = [p \in Jobs |-> None]
  /\ rotates \in BOOLEAN
  /\ live = {Secret}
  /\ successor = [r \in Refresh |-> None]
  /\ issued = 0
  /\ now = 0
  /\ lost = {}

-----------------------------------------------------------------------------
(* The functions of YahooOAuth.ts.                                         *)

\* Variant the checks must reject: a token is usable to its last moment.
UsableToTheEnd(tokens) == now < tokens.expiresAt

isUsable(tokens) == now < tokens.expiresAt - Buffer

\* Variant the checks must reject: the token presented is kept.
KeepPresented(response, fallback) ==
  [expiry    |-> response.expiry,
   refresh   |-> IF fallback # None THEN fallback ELSE response.refresh,
   expiresAt |-> now + Lifetime]

\* Variant the checks must reject: no fallback for an omitted refresh token.
NoFallback(response, fallback) ==
  [expiry |-> response.expiry, refresh |-> response.refresh,
   expiresAt |-> now + Lifetime]

toStoredTokens(response, fallback) ==
  [expiry    |-> response.expiry,
   refresh   |-> IF response.refresh # None THEN response.refresh ELSE fallback,
   expiresAt |-> now + Lifetime]

\* The refresh token to present: the secret only serves an empty store.
RefreshFor(stored) == IF stored # None THEN stored.refresh ELSE Secret

-----------------------------------------------------------------------------
(* getAccessToken.                                                         *)

Goto(p, from, to) ==
  /\ pc[p] = from
  /\ pc' = [pc EXCEPT ![p] = to]

\* The invocation ends and keeps nothing but a Job's cache.
Ends(p) ==
  /\ pc' = [pc EXCEPT ![p] = "idle"]
  /\ presented' = [presented EXCEPT ![p] = None]
  /\ held' = [held EXCEPT ![p] = None]
  /\ since' = [since EXCEPT ![p] = 0]

Call(p) ==
  /\ Goto(p, "idle", "get")
  /\ since' = [since EXCEPT ![p] = now]
  /\ UNCHANGED <<presented, held>>

WorkerCalls(w) ==
  /\ Call(w)
  /\ UNCHANGED <<cached, kv, yahoo, now, lost>>

\* remoteAccessToken: no token in memory, or its time is over.
JobCalls(j) ==
  /\ cached[j] = None \/ (cached[j] # None /\ now >= cached[j].until)
  /\ Call(j)
  /\ UNCHANGED <<cached, kv, yahoo, now, lost>>

\* remoteAccessToken: the token in memory is handed out.
JobReuses(j) ==
  /\ cached[j] # None
  /\ now < cached[j].until
  /\ Goto(j, "idle", "reuse")
  /\ since' = [since EXCEPT ![j] = now]
  /\ held' = [held EXCEPT ![j] = cached[j].tokens]
  /\ UNCHANGED <<presented, cached, kv, yahoo, now, lost>>

\* tokenStore.get finds usable tokens.
GetUsable(p, stored) ==
  /\ stored # None
  /\ isUsable(stored)
  /\ Goto(p, "get", "use")
  /\ held' = [held EXCEPT ![p] = stored]
  /\ UNCHANGED <<since, presented, cached, kv, yahoo, now, lost>>

\* tokenStore.get finds none, or tokens about to expire.
GetExpired(p, stored) ==
  /\ stored = None \/ (stored # None /\ ~isUsable(stored))
  /\ Goto(p, "get", "request")
  /\ presented' = [presented EXCEPT ![p] = RefreshFor(stored)]
  /\ UNCHANGED <<since, held, cached, kv, yahoo, now, lost>>

Get(p) == GetUsable(p, kv) \/ GetExpired(p, kv)

\* Yahoo issues tokens for the refresh token presented; a new refresh token
\* if it rotates them, else the same one, which it may leave out.
Issue(p, response) ==
  /\ Goto(p, "request", "receive")
  /\ held' = [held EXCEPT ![p] = response]

YahooRotates(p) ==
  /\ rotates
  /\ presented[p] \in live
  /\ issued < MaxIssued
  /\ Issue(p, [expiry |-> now + Lifetime, refresh |-> issued + 1])
  /\ issued' = issued + 1
  /\ live' = (live \ {presented[p]}) \cup {issued + 1}
  /\ successor' = [successor EXCEPT ![presented[p]] = issued + 1]
  /\ UNCHANGED <<rotates, since, presented, cached, kv, now, lost>>

YahooKeeps(p) ==
  /\ ~rotates
  /\ presented[p] \in live
  /\ \E refresh \in {None, presented[p]} :
       Issue(p, [expiry |-> now + Lifetime, refresh |-> refresh])
  /\ UNCHANGED <<yahoo, since, presented, cached, kv, now, lost>>

\* The token presented is not accepted, or Yahoo does not answer at all.
YahooRefuses(p) ==
  /\ pc[p] = "request"
  /\ Ends(p)
  /\ UNCHANGED <<cached, kv, yahoo, now, lost>>

Receive(p) ==
  /\ Goto(p, "receive", "put")
  /\ held' = [held EXCEPT ![p] = toStoredTokens(held[p], presented[p])]
  /\ UNCHANGED <<since, presented, cached, kv, yahoo, now, lost>>

\* persist: the put into KV.
Put(p) ==
  /\ Goto(p, "put", "use")
  /\ kv' = held[p]
  /\ UNCHANGED <<since, presented, held, cached, yahoo, now, lost>>

\* The token goes into the request to Yahoo (YahooClient).
WorkerUses(w) ==
  /\ pc[w] = "use"
  /\ Ends(w)
  /\ UNCHANGED <<cached, kv, yahoo, now, lost>>

\* remoteAccessToken keeps a new token for a time of its own.
JobUses(j) ==
  /\ pc[j] = "use"
  /\ Ends(j)
  /\ cached' = [cached EXCEPT ![j] = [tokens |-> held[j], until |-> now + RemoteCache,
                                      refreshed |-> presented[j] # None]]
  /\ UNCHANGED <<kv, yahoo, now, lost>>

\* Variant the checks must reject: a use renews the time for which it is kept.
JobUsesAgainAndKeeps(j) ==
  /\ pc[j] = "reuse"
  /\ Ends(j)
  /\ cached' = [cached EXCEPT ![j].until = now + RemoteCache]
  /\ UNCHANGED <<kv, yahoo, now, lost>>

JobUsesAgain(j) ==
  /\ pc[j] = "reuse"
  /\ Ends(j)
  /\ UNCHANGED <<cached, kv, yahoo, now, lost>>

-----------------------------------------------------------------------------
(* The operator: exchangeAuthorizationCode.                                *)

\* Yahoo grants new tokens for the code; the older grants stay as they are.
Login(o) ==
  /\ issued < MaxIssued
  /\ Goto(o, "idle", "receive")
  /\ since' = [since EXCEPT ![o] = now]
  /\ held' = [held EXCEPT ![o] = [expiry |-> now + Lifetime, refresh |-> issued + 1]]
  /\ issued' = issued + 1
  /\ live' = live \cup {issued + 1}
  /\ UNCHANGED <<rotates, successor, presented, cached, kv, now, lost>>

OperatorEnds(o) ==
  /\ pc[o] = "use"
  /\ pc' = [pc EXCEPT ![o] = "done"]
  /\ held' = [held EXCEPT ![o] = None]
  /\ since' = [since EXCEPT ![o] = 0]
  /\ UNCHANGED <<presented, cached, kv, yahoo, now, lost>>

-----------------------------------------------------------------------------
(* Faults and the environment.                                             *)

\* The refresh token an invocation holds and has not stored, if any.
InFlight(p) ==
  IF pc[p] \in {"receive", "put"}
    THEN {IF held[p].refresh # None THEN held[p].refresh ELSE presented[p]}
    ELSE {}

\* The invocation ends early: the answer is lost, the put fails, it is killed.
Dies(p) ==
  /\ pc[p] \notin {"idle", "done"}
  /\ InFlight(p) # {} => Cardinality(lost) < MaxLost
  /\ lost' = lost \cup InFlight(p)
  /\ Ends(p)
  /\ UNCHANGED <<cached, kv, yahoo, now>>

Tick ==
  /\ now < MaxTime
  /\ \A p \in Processes :
       pc[p] \notin {"idle", "done"} => now < since[p] + MaxDelay
  /\ now' = now + 1
  /\ UNCHANGED <<kv, memory, yahoo, lost>>

CallerStep(p) ==
  \/ Get(p) \/ YahooRotates(p) \/ YahooKeeps(p) \/ YahooRefuses(p)

Next ==
  \/ \E w \in Workers : WorkerCalls(w) \/ WorkerUses(w)
  \/ \E j \in Jobs : JobCalls(j) \/ JobReuses(j) \/ JobUses(j) \/ JobUsesAgain(j)
  \/ \E p \in Callers : CallerStep(p)
  \/ \E p \in Processes : Receive(p) \/ Put(p) \/ Dies(p)
  \/ \E o \in Operators : Login(o) \/ OperatorEnds(o)
  \/ Tick

Spec == Init /\ [][Next]_vars

-----------------------------------------------------------------------------
(* Properties.                                                             *)

\* The rows and memories have their types: in particular what is stored always
\* has a refresh token, also when Yahoo's answer leaves it out.
TypeOK ==
  /\ kv \in Tokens \cup {None}
  /\ pc \in [Processes -> {"idle", "get", "request", "receive", "put", "use", "reuse", "done"}]
  /\ since \in [Processes -> Times]
  /\ presented \in [Processes -> Refresh \cup {None}]
  /\ held \in [Processes -> Tokens \cup Responses \cup {None}]
  /\ cached \in [Jobs -> [tokens : Tokens, until : Int, refreshed : BOOLEAN] \cup {None}]
  /\ rotates \in BOOLEAN
  /\ live \in SUBSET Refresh
  /\ successor \in [Refresh -> Refresh \cup {None}]
  /\ issued \in Refresh
  /\ now \in 0 .. MaxTime
  /\ lost \in SUBSET Refresh

\* Custody: the refresh token in the store is one that Yahoo accepts, unless
\* the token issued for it is on its way to the kv, or was lost with the
\* invocation that held it.  However invocations overlap, the store is dead only
\* by a lost put (YahooOAuth.ts, refresh and persist).
Custody ==
  LET stored == RefreshFor(kv)
  IN  \/ stored \in live
      \/ \E p \in Processes : successor[stored] \in InFlight(p)
      \/ successor[stored] \in lost

\* The token of a Worker's request is not expired when the request is made:
\* the buffer of isUsable is enough for a late answer and a late use.
WorkerTokenAlive ==
  [][\A w \in Workers : WorkerUses(w) => now < held[w].expiry]_vars

\* A Job's token is not expired when it is handed out, nor within the 50 minutes
\* of remoteAccessToken's cache if it was refreshed for the Job.  (A token from
\* the Worker's store may expire in the cache: remoteAccessToken does not ask.)
RemoteTokenAlive ==
  [][\A j \in Jobs :
       /\ JobUses(j) => now < held[j].expiry
       /\ JobUsesAgain(j) /\ cached[j].refreshed => now < held[j].expiry]_vars
=============================================================================
