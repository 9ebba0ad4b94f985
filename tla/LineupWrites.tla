---------------------------- MODULE LineupWrites ----------------------------
(***************************************************************************)
(* Who writes the roster at Yahoo, and what is remembered of it.  Three    *)
(* invocations of the Worker do: the cron's apply-lineup task, the admin   *)
(* route and the OAuth callback, which applies the lineup and then writes  *)
(* every player to the position he has, to see whether it may write.  Each *)
(* reads the roster, makes its list of moves and puts it, with no more     *)
(* than that between them; meanwhile the manager moves players in Yahoo's  *)
(* app, and players get hurt and recover.  The result is stored as the     *)
(* manager write status, which the cron consults before it tries again.    *)
(***************************************************************************)
EXTENDS LineupMoves

CONSTANTS
  Writers,          \* subset of {"cron", "admin", "callback"}
  InitialStatuses,  \* of the players
  Scopes,           \* the scopes the first grant may have: "read", "write"
  MaxRuns,          \* bound: admin calls and logins, each
  MaxChanges,       \* bound: moves of the manager, changes of status
  MaxFaults,        \* bound: requests that fail for a reason of their own
  None

ASSUME ParametersAssumption ==
  /\ Writers \subseteq {"cron", "admin", "callback"}
  /\ InitialStatuses \subseteq [Players -> Statuses]
  /\ Scopes \subseteq {"read", "write"}
  /\ MaxRuns \in Nat /\ MaxChanges \in Nat /\ MaxFaults \in Nat

VARIABLES
  position, status,  \* the roster at Yahoo
  scope,             \* of the grant the stored tokens belong to
  writeStatus,       \* LAST_MANAGER_WRITE_STATUS_CACHE_KEY: its capability, or None
  pc,                \* where each writer stands
  seen,              \* the roster it read
  plan,              \* the moves it is going to put
  outcome,           \* the capability it is going to record
  runs, changes, faults,
  refused            \* history: why Yahoo refused the last write of each writer

yahoo    == <<position, status, scope>>
bounds   == <<runs, changes, faults>>
memory   == <<pc, seen, plan, outcome>>
vars     == <<yahoo, writeStatus, memory, bounds, refused>>

Roster == [position |-> position, status |-> status]

Init ==
  /\ status \in InitialStatuses
  /\ position \in {f \in [Players -> Positions] :
                     /\ Fits(f)
                     /\ \A p \in Players : f[p] \in Reserve \/ playerCanFillSlot(p, f[p])}
  /\ scope \in Scopes
  /\ writeStatus = None
  /\ pc = [w \in Writers |-> "idle"]
  /\ seen = [w \in Writers |-> None]
  /\ plan = [w \in Writers |-> <<>>]
  /\ outcome = [w \in Writers |-> None]
  /\ runs = [w \in Writers |-> 0]
  /\ changes = 0
  /\ faults = 0
  /\ refused = [w \in Writers |-> None]

-----------------------------------------------------------------------------
(* The invocations.                                                        *)

Places == {"idle", "read", "put", "reread", "checkRead", "checkPut", "checkReread", "record"}

Goto(w, from, to) ==
  /\ pc[w] = from
  /\ pc' = [pc EXCEPT ![w] = to]

shouldAttemptAutomaticLineupWrite(capability) == capability # "unauthorized"

\* The cron applies the day's list, unless a refused authorization keeps it away, and so
\* does the admin route.
ApplicationStarts(w) ==
  /\ w \in {"cron", "admin"}
  /\ w = "cron" => shouldAttemptAutomaticLineupWrite(writeStatus)
  /\ w = "admin" => runs[w] < MaxRuns
  /\ Goto(w, "idle", "read")
  /\ runs' = IF w = "admin" THEN [runs EXCEPT ![w] = @ + 1] ELSE runs
  /\ UNCHANGED <<yahoo, writeStatus, seen, plan, outcome, changes, faults, refused>>

\* The login grants the write scope (fspt-w), then the callback goes on.
CallbackStarts(w) ==
  /\ w = "callback"
  /\ runs[w] < MaxRuns
  /\ runs' = [runs EXCEPT ![w] = @ + 1]
  /\ scope' = "write"
  /\ Goto(w, "idle", "read")
  /\ UNCHANGED <<position, status, writeStatus, seen, plan, outcome, changes, faults, refused>>

Starts(w) == ApplicationStarts(w) \/ CallbackStarts(w)

Concludes(w, from, capability) ==
  /\ Goto(w, from, "record")
  /\ outcome' = [outcome EXCEPT ![w] = capability]

\* applyForDate ends well: the callback goes on to the write check.
Applied(w, from) ==
  IF w = "callback"
    THEN Goto(w, from, "checkRead") /\ UNCHANGED outcome
    ELSE Concludes(w, from, "authorized")

\* The advisor reads the roster; nothing to do ends the application.
ReadWork(w) ==
  /\ buildMoves(Roster) # <<>>
  /\ Goto(w, "read", "put")
  /\ seen' = [seen EXCEPT ![w] = Roster]
  /\ plan' = [plan EXCEPT ![w] = buildMoves(Roster)]
  /\ UNCHANGED <<yahoo, writeStatus, outcome, bounds, refused>>

ReadNoWork(w) ==
  /\ pc[w] = "read"
  /\ buildMoves(Roster) = <<>>
  /\ Applied(w, "read")
  /\ UNCHANGED <<yahoo, writeStatus, seen, plan, bounds, refused>>

Authorized == scope = "write"

PutAccepted(w) ==
  /\ Goto(w, "put", "reread")
  /\ Authorized
  /\ Acceptable(position, status, After(position, plan[w]))
  /\ position' = After(position, plan[w])
  /\ refused' = [refused EXCEPT ![w] = None]
  /\ UNCHANGED <<status, scope, writeStatus, seen, plan, outcome, bounds>>

\* Any failure is recorded in the same way.
Failure(w, from) == Concludes(w, from, "unauthorized")

PutRefused(w) ==
  /\ pc[w] = "put"
  /\ ~Authorized \/ ~Acceptable(position, status, After(position, plan[w]))
  /\ Failure(w, "put")
  /\ refused' = [refused EXCEPT ![w] = IF Authorized THEN "roster" ELSE "scope"]
  /\ UNCHANGED <<yahoo, writeStatus, seen, plan, bounds>>

\* The roster is read again, only to report whether it shows the moves.
Reread(w) ==
  /\ pc[w] = "reread"
  /\ Applied(w, "reread")
  /\ UNCHANGED <<yahoo, writeStatus, seen, plan, bounds, refused>>

\* verifyWriteAccessForDate: every player is written to the position he had.
CheckRead(w) ==
  /\ Goto(w, "checkRead", "checkPut")
  /\ seen' = [seen EXCEPT ![w] = Roster]
  /\ plan' = [plan EXCEPT ![w] = <<>>]
  /\ UNCHANGED <<yahoo, writeStatus, outcome, bounds, refused>>

CheckPutAccepted(w) ==
  /\ Goto(w, "checkPut", "checkReread")
  /\ Authorized
  /\ Acceptable(position, status, seen[w].position)
  /\ position' = seen[w].position
  /\ refused' = [refused EXCEPT ![w] = None]
  /\ UNCHANGED <<status, scope, writeStatus, seen, plan, outcome, bounds>>

CheckPutRefused(w) ==
  /\ pc[w] = "checkPut"
  /\ ~Authorized \/ ~Acceptable(position, status, seen[w].position)
  /\ Failure(w, "checkPut")
  /\ refused' = [refused EXCEPT ![w] = IF Authorized THEN "roster" ELSE "scope"]
  /\ UNCHANGED <<yahoo, writeStatus, seen, plan, bounds>>

CheckReread(w) ==
  /\ Concludes(w, "checkReread",
               IF position = seen[w].position THEN "authorized" ELSE "unknown")
  /\ UNCHANGED <<yahoo, writeStatus, seen, plan, bounds, refused>>

\* recordWriteStatus
RecordStatus(w) ==
  /\ Goto(w, "record", "idle")
  /\ writeStatus' = outcome[w]
  /\ outcome' = [outcome EXCEPT ![w] = None]
  /\ seen' = [seen EXCEPT ![w] = None]
  /\ plan' = [plan EXCEPT ![w] = <<>>]
  /\ UNCHANGED <<yahoo, bounds, refused>>

-----------------------------------------------------------------------------
(* Faults and the environment.                                             *)

\* A request fails for a reason of its own: the put may have been done or not.
RequestFails(w) ==
  /\ pc[w] \in {"read", "put", "reread", "checkRead", "checkPut", "checkReread"}
  /\ faults < MaxFaults
  /\ faults' = faults + 1
  /\ Failure(w, pc[w])
  /\ UNCHANGED <<yahoo, writeStatus, seen, plan, runs, changes, refused>>

PutUnanswered(w) ==
  /\ pc[w] = "put"
  /\ faults < MaxFaults
  /\ faults' = faults + 1
  /\ Authorized
  /\ Acceptable(position, status, After(position, plan[w]))
  /\ position' = After(position, plan[w])
  /\ Failure(w, "put")
  /\ UNCHANGED <<status, scope, writeStatus, seen, plan, runs, changes, refused>>

\* The invocation is ended, and records nothing.
Dies(w) ==
  /\ pc[w] # "idle"
  /\ faults < MaxFaults
  /\ faults' = faults + 1
  /\ pc' = [pc EXCEPT ![w] = "idle"]
  /\ outcome' = [outcome EXCEPT ![w] = None]
  /\ seen' = [seen EXCEPT ![w] = None]
  /\ plan' = [plan EXCEPT ![w] = <<>>]
  /\ UNCHANGED <<yahoo, writeStatus, runs, changes, refused>>

Change == changes < MaxChanges /\ changes' = changes + 1

ManagerMoves ==
  /\ Change
  /\ \E p \in Players : \E slot \in Positions \ {position[p]} :
       LET new == [position EXCEPT ![p] = slot]
       IN  Acceptable(position, status, new) /\ position' = new
  /\ UNCHANGED <<status, scope, writeStatus, memory, runs, faults, refused>>

HealthChanges ==
  /\ Change
  /\ \E p \in Players : \E s \in Statuses \ {status[p]} :
       status' = [status EXCEPT ![p] = s]
  /\ UNCHANGED <<position, scope, writeStatus, memory, runs, faults, refused>>

\* The row is ignored after 30 days.
StatusExpires ==
  /\ writeStatus # None
  /\ writeStatus' = None
  /\ UNCHANGED <<yahoo, memory, bounds, refused>>

Step(w) ==
  \/ ReadWork(w) \/ ReadNoWork(w) \/ PutAccepted(w) \/ PutRefused(w) \/ Reread(w)
  \/ CheckRead(w) \/ CheckPutAccepted(w) \/ CheckPutRefused(w) \/ CheckReread(w)
  \/ RecordStatus(w)

Next ==
  \/ \E w \in Writers : Starts(w) \/ Step(w)
  \/ \E w \in Writers : RequestFails(w) \/ PutUnanswered(w) \/ Dies(w)
  \/ ManagerMoves \/ HealthChanges \/ StatusExpires

Spec == Init /\ [][Next]_vars

\* An invocation goes on, by a step or by a request that fails.
GoesOn(w) == pc[w] # "idle" /\ \E at \in Places \ {pc[w]} : Goto(w, pc[w], at)

\* The cron comes every day and an invocation goes on; a status that keeps the
\* cron away expires.  The manager, the players and the faults owe nothing.
Fairness ==
  /\ \A w \in Writers : WF_vars(w = "cron" /\ ApplicationStarts(w)) /\ WF_pc(GoesOn(w))
  /\ WF_vars(StatusExpires /\ writeStatus = "unauthorized")

-----------------------------------------------------------------------------
(* Properties.                                                             *)

\* The variables have their types.
TypeOK ==
  /\ Roster \in Rosters
  /\ scope \in {"read", "write"}
  /\ pc \in [Writers -> Places]
  /\ writeStatus \in {"authorized", "unauthorized", "unknown", None}
  /\ seen \in [Writers -> Rosters \cup {None}]
  /\ \A w \in Writers : {plan[w][i] : i \in DOMAIN plan[w]} \subseteq Moves
  /\ outcome \in [Writers -> {"authorized", "unauthorized", "unknown", None}]
  /\ faults \in 0 .. MaxFaults /\ changes \in 0 .. MaxChanges

\* A player of the list goes from IL straight to a playing position.
ActivatesDirectly(moves) ==
  \E i \in DOMAIN moves : moves[i].from = "IL" /\ moves[i].to \notin Reserve

Undisturbed(w) == seen[w] = Roster

\* A list that Yahoo refuses for the roster it would make was overtaken by a change
\* of the roster, or activates a player from IL directly: every other list of moves
\* that buildYahooLineupExecutionMoves makes is legal, whatever the roster.
RefusalExplained ==
  [][\A w \in Writers :
       PutRefused(w) /\ Authorized /\ Undisturbed(w) => ActivatesDirectly(plan[w])]_vars

Playing(r, fit) == {p \in Players : isActive(r, p) /\ (isHardUnavailable(r, p) # fit)}

\* A write that nothing overtook keeps every fit player who plays, brings no
\* unavailable one in, and does something: a fit player more who plays, an
\* unavailable one less, or a fit player off the IL.
WriteHelps ==
  [][\A w \in Writers :
       PutAccepted(w) /\ Undisturbed(w) =>
         /\ Playing(Roster, TRUE) \subseteq Playing(Roster', TRUE)
         /\ Playing(Roster', FALSE) \subseteq Playing(Roster, FALSE)
         /\ \/ Playing(Roster, TRUE) # Playing(Roster', TRUE)
            \/ Playing(Roster, FALSE) # Playing(Roster', FALSE)
            \/ \E p \in Players : isHealthyIlPlayer(Roster, p) /\ ~isHealthyIlPlayer(Roster', p)]_vars

\* A fit player who plays when a list is put, be it overtaken or not, plays on,
\* unless the list was made to take him off the IL to the bench (the manager put
\* him to play in between).
StartersKept ==
  [][\A w \in Writers :
       PutAccepted(w) \/ PutUnanswered(w) =>
         \A p \in Playing(Roster, TRUE) \ Playing(Roster', TRUE) :
           \E i \in DOMAIN plan[w] :
             plan[w][i] = [player |-> p, from |-> "IL", to |-> "BN"]]_vars

\* Scheduler.ts:681-682, "Yahoo rejected lineup write; re-authorize": a writer that is
\* about to record this had a write refused for its scope.
UnauthorizedIsYahoos ==
  \A w \in Writers : outcome[w] = "unauthorized" => refused[w] = "scope"
=============================================================================
