----------------------------- MODULE SimPipeline -----------------------------
(***************************************************************************)
(* How today's briefing is computed.  The Worker's precompute task (one    *)
(* "dispatcher" per invocation of runTask("precompute")), the chunk        *)
(* invocations it fans out to the SimChunkWorker, and the GitHub Actions   *)
(* job all read and write the same rows of D1's apiCache, keyed by the     *)
(* Eastern date.  Nothing locks those rows: each get and each put is a     *)
(* step of its own, and invocations overlap (an admin route beside the     *)
(* cron tick, the Actions job beside both).                                *)
(*                                                                         *)
(* The model covers one Eastern date, so the date is left out of the keys. *)
(* No row of the date is deleted, and none reaches its 36 h maximum age.   *)
(* chunkCount is 1, the only value production code passes.                 *)
(***************************************************************************)
EXTENDS Integers, FiniteSets

CONSTANTS
  Dispatchers,  \* slots for invocations of runTask("precompute")
  Runs,         \* runs of the daily-briefing workflow, each starting once
  MaxUnits,     \* bound: candidate units of a spec (20 in the code)
  MaxContext,   \* bound: refresh-context successes during the day
  MaxFaults,    \* bound: invocations killed or failed during the day
  GenOf,        \* the hash specGeneration takes of a context time
  None          \* an absent row

Contexts == 0 .. MaxContext   \* 0: no refresh-context success on record
Units    == 1 .. MaxUnits
Writers  == Dispatchers \cup Runs

specGeneration(contextAt) == GenOf[contextAt]
Generations == {specGeneration(c) : c \in Contexts}

\* A persisted StoredSimJob: who built it, the context time it is labelled
\* with, and the number of candidates to simulate.
SimSpecs == [by : Writers, contextAt : Contexts, unitCount : 0 .. MaxUnits]

Gen(s) == specGeneration(s.contextAt)

\* A prepared briefing: the spec it reduces and, for each unit, the spec whose
\* roster and candidate the partial it summed was simulated from.
Briefings == [spec : SimSpecs, parts : [Units -> SimSpecs \cup {None}]]

\* One GET /internal/sim-chunk: the dispatcher that awaits it (None once that
\* dispatcher has died), the unit, and the spec it has read so far.
ChunkCalls == [by : Dispatchers \cup {None}, unit : Units,
               read : SimSpecs \cup {None}]

ASSUME ParametersAssumption ==
  /\ MaxUnits \in Nat /\ MaxContext \in Nat /\ MaxFaults \in Nat
  /\ Dispatchers \cap Runs = {}
  /\ DOMAIN GenOf = Contexts
  /\ None \notin SimSpecs \cup Briefings \cup Generations \cup Dispatchers

VARIABLES
  \* rows of apiCache
  contextAt,   \* last success of refresh-context
  spec,        \* simSpecKey(date)
  partial,     \* simPartialKey(date, unit, 0, gen): partial[gen][unit]
  reduced,     \* simReducedKey(date)
  reducedGen,  \* simReducedGenKey(date)
  \* memory of the invocations
  pc,          \* where each dispatcher and each run stands
  seenContext, \* the context time the invocation read
  stored,      \* the StoredSimJob the invocation holds
  briefing,    \* the briefing the invocation has assembled
  nextUnit,    \* the unit a run simulates next
  calls,       \* chunk invocations in flight
  \* the environment, and history
  faults,      \* invocations killed or failed so far
  stages       \* heavy stages the dispatcher's present invocation has run

rows == <<contextAt, spec, partial, reduced, reducedGen>>
vars == <<contextAt, spec, partial, reduced, reducedGen, pc, seenContext,
          stored, briefing, nextUnit, calls, faults, stages>>

DispatcherPCs == {"idle", "readContext", "readSpec", "buildSpec",
                  "putSpec", "readReduced", "readReducedGen", "fanOut", "await",
                  "reduce", "putReduced", "putReducedGen"}
RunPCs == {"idle", "putSpec", "simulate", "putReducedGen", "done"}

Goto(p, from, to) ==
  /\ pc[p] = from
  /\ pc' = [pc EXCEPT ![p] = to]

\* An invocation ends with this step: it keeps no memory.
Return(d) ==
  /\ pc' = [pc EXCEPT ![d] = "idle"]
  /\ seenContext' = [seenContext EXCEPT ![d] = 0]
  /\ stored' = [stored EXCEPT ![d] = None]
  /\ briefing' = [briefing EXCEPT ![d] = None]
  /\ stages' = [stages EXCEPT ![d] = {}]

Init ==
  /\ contextAt = 0
  /\ spec = None
  /\ partial = [g \in Generations |-> [u \in Units |-> None]]
  /\ reduced = None
  /\ reducedGen = None
  /\ pc = [p \in Writers |-> "idle"]
  /\ seenContext = [p \in Writers |-> 0]
  /\ stored = [p \in Writers |-> None]
  /\ briefing = [d \in Dispatchers |-> None]
  /\ nextUnit = [g \in Runs |-> 1]
  /\ calls = {}
  /\ faults = 0
  /\ stages = [d \in Dispatchers |-> {}]

-----------------------------------------------------------------------------
(* The rest of the scheduler: a refresh-context task succeeds.             *)

RefreshContext ==
  /\ contextAt < MaxContext
  /\ contextAt' = contextAt + 1
  /\ UNCHANGED <<spec, partial, reduced, reducedGen, pc, seenContext, stored,
                 briefing, nextUnit, calls, faults, stages>>

-----------------------------------------------------------------------------
(* The dispatcher: runTask("precompute") and runPrecompute.                *)

Begin(d) ==
  /\ Goto(d, "idle", "readContext")
  /\ UNCHANGED <<rows, seenContext, stored, briefing, nextUnit, calls, faults, stages>>

\* A scheduler tick selects precompute while the prepared briefing is missing.
TickPrecompute(d) ==
  /\ reduced = None
  /\ Begin(d)

\* POST /admin/run/task/precompute?force=1 runs it whatever D1 holds (while the
\* briefing is missing that is the same step as a tick's).
ForcePrecompute(d) ==
  /\ reduced # None
  /\ Begin(d)

ReadContext(d) ==
  /\ Goto(d, "readContext", "readSpec")
  /\ seenContext' = [seenContext EXCEPT ![d] = contextAt]
  /\ UNCHANGED <<rows, stored, briefing, nextUnit, calls, faults, stages>>

\* Variants the checks must reject: a newer context invalidates the spec; a
\* failed read counts as an absent spec.
ReadSpecUnlessStale(d) ==
  /\ pc[d] = "readSpec"
  /\ pc' = [pc EXCEPT ![d] =
       IF spec = None THEN "buildSpec"
       ELSE IF spec.contextAt # seenContext[d] THEN "buildSpec" ELSE "readReduced"]
  /\ stored' = [stored EXCEPT ![d] = spec]
  /\ UNCHANGED <<rows, seenContext, briefing, nextUnit, calls, faults, stages>>

ReadSpecOrAssumeAbsent(d) ==
  /\ pc[d] = "readSpec"
  /\ \E seen \in {spec, None} :
       /\ stored' = [stored EXCEPT ![d] = seen]
       /\ pc' = [pc EXCEPT ![d] = IF seen = None THEN "buildSpec" ELSE "readReduced"]
  /\ UNCHANGED <<rows, seenContext, briefing, nextUnit, calls, faults, stages>>

ReadSpec(d) ==
  /\ Goto(d, "readSpec", IF spec = None THEN "buildSpec" ELSE "readReduced")
  /\ stored' = [stored EXCEPT ![d] = spec]
  /\ UNCHANGED <<rows, seenContext, briefing, nextUnit, calls, faults, stages>>

\* The spec an invocation labels with the context time it read; its inputs are
\* the league snapshot of the moment, hence any number of candidates.
BuiltBy(p) == {s \in SimSpecs : s.by = p /\ s.contextAt = seenContext[p]}

\* Stage 1: prepareSimJob ...
BuildSpec(d) ==
  /\ Goto(d, "buildSpec", "putSpec")
  /\ \E s \in BuiltBy(d) : stored' = [stored EXCEPT ![d] = s]
  /\ stages' = [stages EXCEPT ![d] = @ \cup {"spec"}]
  /\ UNCHANGED <<rows, seenContext, briefing, nextUnit, calls, faults>>

\* Variant the checks must reject: the invocation goes on to fan out.
PutSpecAndGoOn(d) ==
  /\ Goto(d, "putSpec", "readReduced")
  /\ spec' = stored[d]
  /\ UNCHANGED <<contextAt, partial, reduced, reducedGen, seenContext, stored,
                 briefing, nextUnit, calls, faults, stages>>

\* ... put, and return "spec-built".
PutSpec(d) ==
  /\ pc[d] = "putSpec"
  /\ spec' = stored[d]
  /\ Return(d)
  /\ UNCHANGED <<contextAt, partial, reduced, reducedGen, nextUnit, calls, faults>>

ReadReduced(d) ==
  /\ Goto(d, "readReduced", IF reduced = None THEN "fanOut" ELSE "readReducedGen")
  /\ UNCHANGED <<rows, seenContext, stored, briefing, nextUnit, calls, faults, stages>>

AlreadyReduced(d) ==
  /\ pc[d] = "readReducedGen"
  /\ reducedGen = Gen(stored[d])
  /\ Return(d)
  /\ UNCHANGED <<rows, nextUnit, calls, faults>>

NotReduced(d) ==
  /\ Goto(d, "readReducedGen", "fanOut")
  /\ reducedGen # Gen(stored[d])
  /\ UNCHANGED <<rows, seenContext, stored, briefing, nextUnit, calls, faults, stages>>

\* The units of s with no partial yet.  The code reads the rows one after the
\* other; a partial is never removed, so a scan that finds every unit present
\* is right when it ends, and one that finds a unit missing was right when it
\* read that unit.
PendingUnits(s) == {u \in 1 .. s.unitCount : partial[Gen(s)][u] = None}

\* Variants the checks must reject: zero-based units; only the first unit.
FanOutZeroBased(d) ==
  /\ pc[d] = "fanOut"
  /\ LET pending == PendingUnits(stored[d]) IN
       /\ pc' = [pc EXCEPT ![d] = IF pending = {} THEN "reduce" ELSE "await"]
       /\ calls' = calls \cup {[by |-> d, unit |-> u - 1, read |-> None] : u \in pending}
  /\ UNCHANGED <<rows, seenContext, stored, briefing, nextUnit, faults, stages>>

FanOutFirstUnit(d) ==
  /\ pc[d] = "fanOut"
  /\ LET pending == PendingUnits(stored[d]) IN
       /\ pc' = [pc EXCEPT ![d] = IF pending = {} THEN "reduce" ELSE "await"]
       /\ calls' = calls \cup
            {[by |-> d, unit |-> u, read |-> None] : u \in pending \cap {1}}
  /\ UNCHANGED <<rows, seenContext, stored, briefing, nextUnit, faults, stages>>

\* Stage 2: one call per pending unit.
FanOut(d) ==
  /\ pc[d] = "fanOut"
  /\ LET pending == PendingUnits(stored[d]) IN
       /\ pc' = [pc EXCEPT ![d] = IF pending = {} THEN "reduce" ELSE "await"]
       /\ calls' = calls \cup {[by |-> d, unit |-> u, read |-> None] : u \in pending}
  /\ UNCHANGED <<rows, seenContext, stored, briefing, nextUnit, faults, stages>>

\* Variant the checks must reject: the answers count as partials.
RecheckNothing(d) ==
  /\ Goto(d, "await", "reduce")
  /\ \A c \in calls : c.by # d
  /\ UNCHANGED <<rows, seenContext, stored, briefing, nextUnit, calls, faults, stages>>

\* The answers are ignored: only what D1 holds once every call has ended counts.
Recheck(d) ==
  /\ Goto(d, "await", "reduce")
  /\ \A c \in calls : c.by # d
  /\ PendingUnits(stored[d]) = {}
  /\ UNCHANGED <<rows, seenContext, stored, briefing, nextUnit, calls, faults, stages>>

\* A unit is still missing: return "fan-out" and leave it to a later tick.
LeavePending(d) ==
  /\ pc[d] = "await"
  /\ \A c \in calls : c.by # d
  /\ PendingUnits(stored[d]) # {}
  /\ Return(d)
  /\ UNCHANGED <<rows, nextUnit, calls, faults>>

\* Stage 3: sumStoredChunks over every unit, reduceSimJob, briefingFromReport.
Reduce(d) ==
  /\ Goto(d, "reduce", "putReduced")
  /\ LET s == stored[d] IN
       briefing' = [briefing EXCEPT ![d] =
         [spec  |-> s,
          parts |-> [u \in Units |->
                       IF u <= s.unitCount THEN partial[Gen(s)][u] ELSE None]]]
  /\ stages' = [stages EXCEPT ![d] = @ \cup {"reduce"}]
  /\ UNCHANGED <<rows, seenContext, stored, nextUnit, calls, faults>>

PutReduced(d) ==
  /\ Goto(d, "putReduced", "putReducedGen")
  /\ reduced' = briefing[d]
  /\ UNCHANGED <<contextAt, spec, partial, reducedGen, seenContext, stored,
                 briefing, nextUnit, calls, faults, stages>>

PutReducedGen(d) ==
  /\ pc[d] = "putReducedGen"
  /\ reducedGen' = Gen(stored[d])
  /\ Return(d)
  /\ UNCHANGED <<contextAt, spec, partial, reduced, nextUnit, calls, faults>>

Fault ==
  /\ faults < MaxFaults
  /\ faults' = faults + 1

\* The invocation is killed (exceededCpu) or one of its reads or writes fails;
\* its chunk calls, if any, go on in the other Worker.
DispatcherDies(d) ==
  /\ Fault
  /\ pc[d] # "idle"
  /\ Return(d)
  /\ calls' = {IF c.by = d THEN [c EXCEPT !.by = None] ELSE c : c \in calls}
  /\ UNCHANGED <<rows, nextUnit>>

-----------------------------------------------------------------------------
(* The chunk invocation: runSimChunk.                                      *)

CanSimulate(s, u) == s # None /\ u <= s.unitCount

\* It reads whatever spec D1 holds now.
ChunkRead(c) ==
  /\ c.read = None
  /\ CanSimulate(spec, c.unit)
  /\ calls' = (calls \ {c}) \cup {[c EXCEPT !.read = spec]}
  /\ UNCHANGED <<rows, pc, seenContext, stored, briefing, nextUnit, faults, stages>>

\* No spec (409), or one without that candidate (rosterForUnit throws).
ChunkRefused(c) ==
  /\ c.read = None
  /\ ~CanSimulate(spec, c.unit)
  /\ calls' = calls \ {c}
  /\ UNCHANGED <<rows, pc, seenContext, stored, briefing, nextUnit, faults, stages>>

\* Variant the checks must reject: the key comes from the spec of the moment.
ChunkWriteUnderCurrent(c) ==
  /\ c.read # None
  /\ partial' = [partial EXCEPT ![Gen(spec)][c.unit] = c.read]
  /\ calls' = calls \ {c}
  /\ UNCHANGED <<contextAt, spec, reduced, reducedGen, pc, seenContext, stored,
                 briefing, nextUnit, faults, stages>>

\* The partial goes under the generation of the spec the chunk read.
ChunkWrite(c) ==
  /\ c.read # None
  /\ partial' = [partial EXCEPT ![Gen(c.read)][c.unit] = c.read]
  /\ calls' = calls \ {c}
  /\ UNCHANGED <<contextAt, spec, reduced, reducedGen, pc, seenContext, stored,
                 briefing, nextUnit, faults, stages>>

ChunkDies(c) ==
  /\ Fault
  /\ calls' = calls \ {c}
  /\ UNCHANGED <<rows, pc, seenContext, stored, briefing, nextUnit, stages>>

-----------------------------------------------------------------------------
(* The Actions job: runDailyBriefing up to the reduced artifact.           *)

\* A run past its sentToday guard (or with --force) fetches its inputs;
\* "concurrency: briefing" keeps two runs of the workflow from overlapping.
RunCompute(g) ==
  /\ \A h \in Runs : pc[h] \in {"idle", "done"}
  /\ Goto(g, "idle", "putSpec")
  /\ seenContext' = [seenContext EXCEPT ![g] = contextAt]
  /\ UNCHANGED <<rows, stored, briefing, nextUnit, calls, faults, stages>>

\* The run's own spec replaces whatever spec the date had.
RunPutSpec(g) ==
  /\ Goto(g, "putSpec", "simulate")
  /\ spec' \in BuiltBy(g)
  /\ stored' = [stored EXCEPT ![g] = spec']
  /\ UNCHANGED <<contextAt, partial, reduced, reducedGen, seenContext,
                 briefing, nextUnit, calls, faults, stages>>

RunPutPartial(g) ==
  /\ pc[g] = "simulate"
  /\ nextUnit[g] <= stored[g].unitCount
  /\ partial' = [partial EXCEPT ![Gen(stored[g])][nextUnit[g]] = stored[g]]
  /\ nextUnit' = [nextUnit EXCEPT ![g] = @ + 1]
  /\ UNCHANGED <<contextAt, spec, reduced, reducedGen, pc, seenContext, stored,
                 briefing, calls, faults, stages>>

\* The run reduces the partials it holds in memory, not the rows it wrote.
RunPutReduced(g) ==
  /\ Goto(g, "simulate", "putReducedGen")
  /\ nextUnit[g] > stored[g].unitCount
  /\ reduced' = [spec  |-> stored[g],
                 parts |-> [u \in Units |->
                              IF u <= stored[g].unitCount THEN stored[g] ELSE None]]
  /\ UNCHANGED <<contextAt, spec, partial, reducedGen, seenContext, stored,
                 briefing, nextUnit, calls, faults, stages>>

RunPutReducedGen(g) ==
  /\ Goto(g, "putReducedGen", "done")
  /\ reducedGen' = Gen(stored[g])
  /\ UNCHANGED <<contextAt, spec, partial, reduced, seenContext, stored,
                 briefing, nextUnit, calls, faults, stages>>

\* A put fails, or the runner is cancelled at its 15 minute limit.
RunDies(g) ==
  /\ Fault
  /\ pc[g] \notin {"idle", "done"}
  /\ pc' = [pc EXCEPT ![g] = "done"]
  /\ UNCHANGED <<rows, seenContext, stored, briefing, nextUnit, calls, stages>>

-----------------------------------------------------------------------------

DispatcherStep(d) ==
  \/ ReadContext(d)
  \/ ReadSpec(d)
  \/ BuildSpec(d)
  \/ PutSpec(d)
  \/ ReadReduced(d)
  \/ AlreadyReduced(d)
  \/ NotReduced(d)
  \/ FanOut(d)
  \/ Recheck(d)
  \/ LeavePending(d)
  \/ Reduce(d)
  \/ PutReduced(d)
  \/ PutReducedGen(d)

ChunkStep ==
  \E c \in calls : ChunkRead(c) \/ ChunkRefused(c) \/ ChunkWrite(c)

RunStep(g) ==
  \/ RunPutSpec(g)
  \/ RunPutPartial(g)
  \/ RunPutReduced(g)
  \/ RunPutReducedGen(g)

Next ==
  \/ RefreshContext
  \/ \E d \in Dispatchers : \/ TickPrecompute(d)
                            \/ ForcePrecompute(d)
                            \/ DispatcherStep(d)
                            \/ DispatcherDies(d)
  \/ ChunkStep
  \/ \E c \in calls : ChunkDies(c)
  \/ \E g \in Runs : RunCompute(g) \/ RunStep(g) \/ RunDies(g)

Spec == Init /\ [][Next]_vars

\* The hourly cron keeps selecting precompute while the briefing is missing,
\* and what has started runs on unless it is killed.  Nothing obliges an admin
\* request, a context refresh or a run of the workflow to happen.
Fairness ==
  /\ \A d \in Dispatchers : /\ WF_vars(TickPrecompute(d))
                            /\ WF_vars(DispatcherStep(d))
  /\ WF_vars(ChunkStep)
  /\ \A g \in Runs : WF_vars(RunStep(g))

FairSpec == Spec /\ Fairness

-----------------------------------------------------------------------------
(* Properties                                                              *)

TypeOK ==
  /\ contextAt \in Contexts
  /\ spec \in SimSpecs \cup {None}
  /\ partial \in [Generations -> [Units -> SimSpecs \cup {None}]]
  /\ reduced \in Briefings \cup {None}
  /\ reducedGen \in Generations \cup {None}
  /\ pc \in [Writers -> DispatcherPCs \cup RunPCs]
  /\ \A d \in Dispatchers : pc[d] \in DispatcherPCs
  /\ \A g \in Runs : pc[g] \in RunPCs
  /\ seenContext \in [Writers -> Contexts]
  /\ stored \in [Writers -> SimSpecs \cup {None}]
  /\ briefing \in [Dispatchers -> Briefings \cup {None}]
  /\ nextUnit \in [Runs -> 1 .. MaxUnits + 1]
  /\ calls \subseteq ChunkCalls
  /\ faults \in 0 .. MaxFaults
  /\ stages \in [Dispatchers -> SUBSET {"spec", "reduce"}]

\* The HARD RULE of the dispatcher: no invocation both builds the spec and
\* reduces (together they exceed the Worker's CPU limit).
OneStagePerTick ==
  \A d \in Dispatchers : stages[d] # {"spec", "reduce"}

\* Partials are kept apart by generation: a row under generation g was
\* simulated from a spec of generation g that has such a candidate, although
\* the chunk that wrote it read the spec long after its dispatcher did.
PartialsKeptApart ==
  \A g \in Generations, u \in Units :
    partial[g][u] # None => /\ Gen(partial[g][u]) = g
                            /\ u <= partial[g][u].unitCount

\* b sums one partial for every candidate of its spec, and each comes from a
\* spec of the same generation that has such a candidate.
IsWhole(b) ==
  \A u \in 1 .. b.spec.unitCount :
    /\ b.parts[u] # None
    /\ Gen(b.parts[u]) = Gen(b.spec)
    /\ u <= b.parts[u].unitCount

\* Whatever dies, overlaps or is refreshed meanwhile, the prepared briefing
\* that send-briefing delivers has no missing and no stale-generation unit.
PreparedIsWhole ==
  reduced # None => IsWhole(reduced)

\* The day as its readers see it: a prepared briefing makes it "prepared",
\* a spec alone makes it "specBuilt".
Prepared == INSTANCE PreparedBriefing WITH
  WholeBriefings <- {b \in Briefings : IsWhole(b)},
  stage          <- IF reduced # None THEN "prepared"
                    ELSE IF spec # None THEN "specBuilt" ELSE "noSpec",
  prepared       <- reduced

\* The rows written by all these invocations implement that promise: the day
\* advances stage by stage, never falls back, publishes only whole briefings,
\* and (given ticks, and an end of faults) gets there.
ImplementsPreparedBriefing == Prepared!LiveSpec

\* DecisionEngine's contract for reduceSimJob (DecisionEngine.ts:1238-1239): the
\* i-th partial is candidate i's, that is, it was simulated from the spec being
\* reduced.
PartialsMatchCandidates ==
  reduced # None =>
    \A u \in 1 .. reduced.spec.unitCount : reduced.parts[u] = reduced.spec

\* What holds of that contract: a partial that a briefing sums for another spec's
\* candidate comes from another writer's spec.  One writer by itself, however often it
\* dies and whatever is refreshed meanwhile, never mixes two specs of its own.
MixedOnlyAcrossWriters ==
  reduced # None =>
    \A u \in 1 .. reduced.spec.unitCount :
      reduced.parts[u] # reduced.spec => reduced.parts[u].by # reduced.spec.by

\* runPrecompute's contract: the date's spec is pinned.  No writer ever replaces a
\* spec of its own, so that a newer context does not start the fan-out again; specs
\* are replaced only by writers that were building while there was none, and by the
\* run of the workflow.
SpecPinned ==
  [][(spec # None /\ spec' # spec) => spec'.by # spec.by]_vars
=============================================================================
