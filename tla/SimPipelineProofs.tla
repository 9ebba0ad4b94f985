-------------------------- MODULE SimPipelineProofs --------------------------
(***************************************************************************)
(* Proofs about SimPipeline for every number of dispatchers, workflow      *)
(* runs, units, refreshes and faults, and every hash GenOf.                *)
(***************************************************************************)
EXTENDS SimPipeline, TLAPS

(***************************************************************************)
(* The inductive invariant: what an invocation knows at each place.        *)
(***************************************************************************)

\* Past its read of the spec a dispatcher holds one; so does a run that has
\* put its own.
HoldsSpec ==
  /\ \A d \in Dispatchers :
       pc[d] \notin {"idle", "readContext", "readSpec", "buildSpec"}
         => stored[d] # None
  /\ \A g \in Runs : pc[g] \in {"simulate", "putReducedGen"} => stored[g] # None

\* A chunk keeps a spec it has read only if the spec has its candidate.
CallsCanSimulate ==
  \A c \in calls : c.read # None => c.unit <= c.read.unitCount

\* A dispatcher that is about to reduce finds every partial: none is removed.
ReadyToReduce ==
  \A d \in Dispatchers : pc[d] = "reduce" =>
    \A u \in 1 .. stored[d].unitCount : partial[Gen(stored[d])][u] # None

AssembledIsWhole ==
  \A d \in Dispatchers :
    pc[d] = "putReduced" => briefing[d] # None /\ IsWhole(briefing[d])

IInv ==
  /\ TypeOK
  /\ HoldsSpec
  /\ CallsCanSimulate
  /\ ReadyToReduce
  /\ AssembledIsWhole
  /\ PartialsKeptApart
  /\ PreparedIsWhole

-----------------------------------------------------------------------------

LEMMA SpecFields ==
  ASSUME NEW s \in SimSpecs
  PROVE  /\ s.by \in Writers
         /\ s.contextAt \in Contexts
         /\ s.unitCount \in 0 .. MaxUnits
         /\ Gen(s) \in Generations
         /\ s # None
  BY ParametersAssumption DEF SimSpecs, Gen, Generations

LEMMA InitIInv == Init => IInv
  BY ParametersAssumption
  DEF Init, IInv, TypeOK, HoldsSpec, CallsCanSimulate, ReadyToReduce,
      AssembledIsWhole, PartialsKeptApart, PreparedIsWhole, Writers, Contexts,
      Units, DispatcherPCs, RunPCs

(***************************************************************************)
(* Type correctness.  It needs the rest of the invariant: a partial would  *)
(* get no type from a chunk or a run that held no spec.                    *)
(***************************************************************************)
LEMMA StepTypeOK == IInv /\ [Next]_vars => TypeOK'
<1> SUFFICES ASSUME IInv, [Next]_vars PROVE TypeOK'
  OBVIOUS
<1> USE ParametersAssumption
<1>1. TypeOK /\ HoldsSpec
  BY DEF IInv
<1>2. CASE RefreshContext
  BY <1>1, <1>2 DEF TypeOK, RefreshContext, Contexts
<1>3. ASSUME NEW d \in Dispatchers, TickPrecompute(d) PROVE TypeOK'
  BY <1>1, <1>3
  DEF TypeOK, TickPrecompute, DispatcherPCs, Writers, rows, Begin, Goto
<1>4. ASSUME NEW d \in Dispatchers, ForcePrecompute(d) PROVE TypeOK'
  BY <1>1, <1>4
  DEF TypeOK, ForcePrecompute, DispatcherPCs, Writers, rows, Begin, Goto
<1>5. ASSUME NEW d \in Dispatchers, ReadContext(d) PROVE TypeOK'
  BY <1>1, <1>5
  DEF TypeOK, ReadContext, DispatcherPCs, Writers, rows, Goto
<1>6. ASSUME NEW d \in Dispatchers, ReadSpec(d) PROVE TypeOK'
  BY <1>1, <1>6
  DEF TypeOK, ReadSpec, DispatcherPCs, Writers, rows, Goto
<1>7. ASSUME NEW d \in Dispatchers, BuildSpec(d) PROVE TypeOK'
  BY <1>1, <1>7
  DEF TypeOK, BuildSpec, DispatcherPCs, Writers, rows, Goto, BuiltBy
<1>8. ASSUME NEW d \in Dispatchers, PutSpec(d) PROVE TypeOK'
  BY <1>1, <1>8, SpecFields
  DEF TypeOK, PutSpec, DispatcherPCs, Writers, rows, Return, Contexts, HoldsSpec
<1>9. ASSUME NEW d \in Dispatchers, ReadReduced(d) PROVE TypeOK'
  BY <1>1, <1>9
  DEF TypeOK, ReadReduced, DispatcherPCs, Writers, rows, Goto
<1>10. ASSUME NEW d \in Dispatchers, AlreadyReduced(d) PROVE TypeOK'
  BY <1>1, <1>10, SpecFields
  DEF TypeOK, AlreadyReduced, DispatcherPCs, Writers, rows, Return, Contexts, HoldsSpec
<1>11. ASSUME NEW d \in Dispatchers, NotReduced(d) PROVE TypeOK'
  BY <1>1, <1>11
  DEF TypeOK, NotReduced, DispatcherPCs, Writers, rows, Goto
<1>12. ASSUME NEW d \in Dispatchers, FanOut(d) PROVE TypeOK'
  <2>1. PendingUnits(stored[d]) \subseteq Units
    <3>1. stored[d].unitCount \in 0 .. MaxUnits
      BY <1>1, <1>12, SpecFields DEF TypeOK, HoldsSpec, FanOut, Writers
    <3> QED
      BY <3>1 DEF PendingUnits, Units
  <2>2. calls' \subseteq ChunkCalls
    BY <1>1, <1>12, <2>1 DEF TypeOK, FanOut, ChunkCalls
  <2> QED
    BY <1>1, <1>12, <2>2 DEF TypeOK, FanOut, DispatcherPCs, Writers, rows
<1>13. ASSUME NEW d \in Dispatchers, Recheck(d) PROVE TypeOK'
  BY <1>1, <1>13
  DEF TypeOK, Recheck, DispatcherPCs, Writers, rows, Goto
<1>14. ASSUME NEW d \in Dispatchers, LeavePending(d) PROVE TypeOK'
  BY <1>1, <1>14
  DEF TypeOK, LeavePending, DispatcherPCs, Writers, rows, Return, Contexts
<1>15. ASSUME NEW d \in Dispatchers, Reduce(d) PROVE TypeOK'
  BY <1>1, <1>15, SpecFields
  DEF TypeOK, Reduce, DispatcherPCs, Writers, rows, Goto, HoldsSpec, Briefings
<1>16. ASSUME NEW d \in Dispatchers, PutReduced(d) PROVE TypeOK'
  BY <1>1, <1>16
  DEF TypeOK, PutReduced, DispatcherPCs, Writers, rows, Goto
<1>17. ASSUME NEW d \in Dispatchers, PutReducedGen(d) PROVE TypeOK'
  <2>1. Gen(stored[d]) \in Generations
    BY <1>1, <1>17, SpecFields DEF TypeOK, HoldsSpec, PutReducedGen, Writers
  <2> QED
    BY <1>1, <1>17, <2>1
    DEF TypeOK, PutReducedGen, Return, DispatcherPCs, Writers, Contexts
<1>18. ASSUME NEW d \in Dispatchers, DispatcherDies(d) PROVE TypeOK'
  <2>1. calls' \subseteq ChunkCalls
    BY <1>1, <1>18 DEF TypeOK, DispatcherDies, ChunkCalls
  <2> QED
    BY <1>1, <1>18, <2>1
    DEF TypeOK, DispatcherDies, Fault, Return, DispatcherPCs, Writers, Contexts,
        rows
<1>19. ASSUME NEW c \in calls, ChunkRead(c) PROVE TypeOK'
  BY <1>1, <1>19
  DEF TypeOK, ChunkRead, ChunkCalls, rows, CanSimulate
<1>20. ASSUME NEW c \in calls, ChunkRefused(c) PROVE TypeOK'
  BY <1>1, <1>20
  DEF TypeOK, ChunkRefused, ChunkCalls, rows
<1>21. ASSUME NEW c \in calls, ChunkWrite(c) PROVE TypeOK'
  BY <1>1, <1>21, SpecFields
  DEF TypeOK, ChunkWrite, ChunkCalls, rows
<1>22. ASSUME NEW c \in calls, ChunkDies(c) PROVE TypeOK'
  BY <1>1, <1>22
  DEF TypeOK, ChunkDies, ChunkCalls, rows, Fault
<1>23. ASSUME NEW g \in Runs, RunCompute(g) PROVE TypeOK'
  BY <1>1, <1>23
  DEF TypeOK, RunCompute, RunPCs, Writers, rows, Goto
<1>24. ASSUME NEW g \in Runs, RunPutSpec(g) PROVE TypeOK'
  BY <1>1, <1>24
  DEF TypeOK, RunPutSpec, RunPCs, Writers, rows, Goto, BuiltBy
<1>25. ASSUME NEW g \in Runs, RunPutPartial(g) PROVE TypeOK'
  BY <1>1, <1>25, SpecFields
  DEF TypeOK, RunPutPartial, RunPCs, Writers, rows, HoldsSpec, Units
<1>26. ASSUME NEW g \in Runs, RunPutReduced(g) PROVE TypeOK'
  BY <1>1, <1>26, SpecFields
  DEF TypeOK, RunPutReduced, RunPCs, Writers, rows, Goto, HoldsSpec, Briefings
<1>27. ASSUME NEW g \in Runs, RunPutReducedGen(g) PROVE TypeOK'
  BY <1>1, <1>27, SpecFields
  DEF TypeOK, RunPutReducedGen, RunPCs, Writers, rows, Goto, HoldsSpec
<1>28. ASSUME NEW g \in Runs, RunDies(g) PROVE TypeOK'
  BY <1>1, <1>28
  DEF TypeOK, RunDies, RunPCs, Writers, rows, Fault
<1>29. CASE UNCHANGED vars
  BY <1>1, <1>29 DEF TypeOK, vars
<1> QED
  BY <1>2, <1>3, <1>4, <1>5, <1>6, <1>7, <1>8, <1>9, <1>10, <1>11, <1>12,
     <1>13, <1>14, <1>15, <1>16, <1>17, <1>18, <1>19, <1>20, <1>21, <1>22,
     <1>23, <1>24, <1>25, <1>26, <1>27, <1>28, <1>29
  DEF Next, DispatcherStep, ChunkStep, RunStep

(***************************************************************************)
(* What a step may do to one part of the state.                            *)
(***************************************************************************)

\* A dispatcher's memory changes by its own steps and its death only.
LEMMA DispatcherMemory ==
  ASSUME TypeOK, [Next]_vars, NEW d \in Dispatchers
  PROVE  \/ UNCHANGED <<pc[d], stored[d], briefing[d], stages[d]>>
         \/ Begin(d)
         \/ DispatcherStep(d)
         \/ DispatcherDies(d)
<1> USE ParametersAssumption DEF TypeOK, Writers
<1>1. CASE RefreshContext
  BY <1>1 DEF RefreshContext
<1>2. ASSUME NEW e \in Dispatchers, e # d, Begin(e)
      PROVE  UNCHANGED <<pc[d], stored[d], briefing[d], stages[d]>>
  BY <1>2 DEF Begin, Goto
<1>3. ASSUME NEW e \in Dispatchers, e # d, DispatcherStep(e)
      PROVE  UNCHANGED <<pc[d], stored[d], briefing[d], stages[d]>>
  BY <1>3
  DEF DispatcherStep, ReadContext, ReadSpec, BuildSpec, PutSpec, ReadReduced,
      AlreadyReduced, NotReduced, FanOut, Recheck, LeavePending, Reduce,
      PutReduced, PutReducedGen, Goto, Return
<1>4. ASSUME NEW e \in Dispatchers, e # d, DispatcherDies(e)
      PROVE  UNCHANGED <<pc[d], stored[d], briefing[d], stages[d]>>
  BY <1>4 DEF DispatcherDies, Return
<1>5. ASSUME ChunkStep \/ \E c \in calls : ChunkDies(c)
      PROVE  UNCHANGED <<pc[d], stored[d], briefing[d], stages[d]>>
  BY <1>5 DEF ChunkStep, ChunkRead, ChunkRefused, ChunkWrite, ChunkDies
<1>6. ASSUME NEW g \in Runs, RunCompute(g) \/ RunStep(g) \/ RunDies(g)
      PROVE  UNCHANGED <<pc[d], stored[d], briefing[d], stages[d]>>
  BY <1>6
  DEF RunCompute, RunStep, RunPutSpec, RunPutPartial, RunPutReduced,
      RunPutReducedGen, RunDies, Goto
<1>7. CASE UNCHANGED vars
  BY <1>7 DEF vars
<1> QED
  BY <1>1, <1>2, <1>3, <1>4, <1>5, <1>6, <1>7
  DEF Next, TickPrecompute, ForcePrecompute

\* A run's memory changes by its own steps and its death only.
LEMMA RunMemory ==
  ASSUME TypeOK, [Next]_vars, NEW g \in Runs
  PROVE  \/ UNCHANGED <<pc[g], stored[g]>>
         \/ RunCompute(g)
         \/ RunStep(g)
         \/ RunDies(g)
<1> USE ParametersAssumption DEF TypeOK, Writers
<1>1. CASE RefreshContext
  BY <1>1 DEF RefreshContext
<1>2. ASSUME NEW d \in Dispatchers,
             TickPrecompute(d) \/ ForcePrecompute(d) \/ DispatcherDies(d)
      PROVE  UNCHANGED <<pc[g], stored[g]>>
  BY <1>2
  DEF TickPrecompute, ForcePrecompute, Begin, Goto, DispatcherDies, Return
<1>3. ASSUME NEW d \in Dispatchers, DispatcherStep(d)
      PROVE  UNCHANGED <<pc[g], stored[g]>>
  BY <1>3
  DEF DispatcherStep, ReadContext, ReadSpec, BuildSpec, PutSpec, ReadReduced,
      AlreadyReduced, NotReduced, FanOut, Recheck, LeavePending, Reduce,
      PutReduced, PutReducedGen, Goto, Return
<1>4. ASSUME ChunkStep \/ \E c \in calls : ChunkDies(c)
      PROVE  UNCHANGED <<pc[g], stored[g]>>
  BY <1>4 DEF ChunkStep, ChunkRead, ChunkRefused, ChunkWrite, ChunkDies
<1>5. ASSUME NEW h \in Runs, h # g, RunCompute(h) \/ RunStep(h) \/ RunDies(h)
      PROVE  UNCHANGED <<pc[g], stored[g]>>
  BY <1>5
  DEF RunCompute, RunStep, RunPutSpec, RunPutPartial, RunPutReduced,
      RunPutReducedGen, RunDies, Goto
<1>6. CASE UNCHANGED vars
  BY <1>6 DEF vars
<1> QED
  BY <1>1, <1>2, <1>3, <1>4, <1>5, <1>6 DEF Next

\* Partials are written by chunks and runs only.
LEMMA PartialWrites ==
  ASSUME [Next]_vars
  PROVE  \/ UNCHANGED partial
         \/ \E c \in calls : ChunkWrite(c)
         \/ \E g \in Runs : RunPutPartial(g)
  BY DEF Next, vars, rows, RefreshContext, TickPrecompute, ForcePrecompute,
         Begin, DispatcherStep, ReadContext, ReadSpec, BuildSpec, PutSpec,
         ReadReduced, AlreadyReduced, NotReduced, FanOut, Recheck,
         LeavePending, Reduce, PutReduced, PutReducedGen, DispatcherDies,
         ChunkStep, ChunkRead, ChunkRefused, ChunkDies, RunCompute, RunStep,
         RunPutSpec, RunPutReduced, RunPutReducedGen, RunDies

\* The spec is written by dispatchers and runs only.
LEMMA SpecWrites ==
  ASSUME [Next]_vars
  PROVE  \/ UNCHANGED spec
         \/ \E d \in Dispatchers : PutSpec(d)
         \/ \E g \in Runs : RunPutSpec(g)
  BY DEF Next, vars, rows, RefreshContext, TickPrecompute, ForcePrecompute,
         Begin, DispatcherStep, ReadContext, ReadSpec, BuildSpec,
         ReadReduced, AlreadyReduced, NotReduced, FanOut, Recheck,
         LeavePending, Reduce, PutReduced, PutReducedGen, DispatcherDies,
         ChunkStep, ChunkRead, ChunkRefused, ChunkWrite, ChunkDies, RunCompute,
         RunStep, RunPutPartial, RunPutReduced, RunPutReducedGen, RunDies

\* The prepared briefing is written by dispatchers and runs only.
LEMMA ReducedWrites ==
  ASSUME [Next]_vars
  PROVE  \/ UNCHANGED reduced
         \/ \E d \in Dispatchers : PutReduced(d)
         \/ \E g \in Runs : RunPutReduced(g)
  BY DEF Next, vars, rows, RefreshContext, TickPrecompute, ForcePrecompute,
         Begin, DispatcherStep, ReadContext, ReadSpec, BuildSpec, PutSpec,
         ReadReduced, AlreadyReduced, NotReduced, FanOut, Recheck,
         LeavePending, Reduce, PutReducedGen, DispatcherDies, ChunkStep,
         ChunkRead, ChunkRefused, ChunkWrite, ChunkDies, RunCompute, RunStep,
         RunPutSpec, RunPutPartial, RunPutReducedGen, RunDies

-----------------------------------------------------------------------------
(* The other parts of the invariant.                                       *)

LEMMA StepHoldsSpec ==
  ASSUME IInv, TypeOK', [Next]_vars
  PROVE  HoldsSpec'
<1> USE ParametersAssumption
<1>1. TypeOK /\ HoldsSpec
  BY DEF IInv
<1>2. ASSUME NEW d \in Dispatchers,
             pc'[d] \notin {"idle", "readContext", "readSpec", "buildSpec"}
      PROVE  stored'[d] # None
  <2>1. CASE UNCHANGED <<pc[d], stored[d], briefing[d], stages[d]>>
    BY <1>1, <1>2, <2>1 DEF HoldsSpec
  <2>2. CASE Begin(d)
    BY <1>1, <1>2, <2>2 DEF TypeOK, Begin, Goto, Writers
  <2>3. CASE ReadSpec(d)
    BY <1>1, <1>2, <2>3 DEF TypeOK, ReadSpec, Goto, Writers
  <2>4. CASE BuildSpec(d)
    BY <1>1, <1>2, <2>4 DEF TypeOK, BuildSpec, BuiltBy, Writers
  <2>5. CASE ReadContext(d) \/ ReadReduced(d) \/ NotReduced(d) \/ FanOut(d)
               \/ Recheck(d) \/ Reduce(d) \/ PutReduced(d)
    BY <1>1, <1>2, <2>5
    DEF TypeOK, HoldsSpec, ReadContext, ReadReduced, NotReduced, FanOut,
        Recheck, Reduce, PutReduced, Goto, Writers
  <2>6. CASE PutSpec(d) \/ AlreadyReduced(d) \/ LeavePending(d)
               \/ PutReducedGen(d) \/ DispatcherDies(d)
    BY <1>1, <1>2, <2>6
    DEF TypeOK, PutSpec, AlreadyReduced, LeavePending, PutReducedGen,
        DispatcherDies, Return, Writers
  <2> QED
    BY <1>1, <2>1, <2>2, <2>3, <2>4, <2>5, <2>6, DispatcherMemory
    DEF DispatcherStep
<1>3. ASSUME NEW g \in Runs, pc'[g] \in {"simulate", "putReducedGen"}
      PROVE  stored'[g] # None
  <2>1. CASE UNCHANGED <<pc[g], stored[g]>>
    BY <1>1, <1>3, <2>1 DEF HoldsSpec
  <2>2. CASE RunPutSpec(g)
    BY <1>1, <1>3, <2>2 DEF TypeOK, RunPutSpec, BuiltBy, Writers
  <2>3. CASE RunCompute(g) \/ RunPutPartial(g) \/ RunPutReduced(g)
               \/ RunPutReducedGen(g) \/ RunDies(g)
    BY <1>1, <1>3, <2>3
    DEF TypeOK, HoldsSpec, RunCompute, RunPutPartial, RunPutReduced,
        RunPutReducedGen, RunDies, Goto, Writers
  <2> QED
    BY <1>1, <2>1, <2>2, <2>3, RunMemory DEF RunStep
<1> QED
  BY <1>2, <1>3 DEF HoldsSpec

LEMMA StepCallsCanSimulate ==
  ASSUME IInv, [Next]_vars
  PROVE  CallsCanSimulate'
<1> SUFFICES ASSUME NEW c \in calls', c.read # None
             PROVE  c.unit <= c.read.unitCount
  BY DEF CallsCanSimulate
<1>1. TypeOK /\ CallsCanSimulate
  BY DEF IInv
<1>2. CASE c \in calls
  BY <1>1, <1>2 DEF CallsCanSimulate
<1>3. ASSUME NEW d \in Dispatchers, FanOut(d), c \notin calls
      PROVE  FALSE
  BY <1>3 DEF FanOut
<1>4. ASSUME NEW d \in Dispatchers, DispatcherDies(d), c \notin calls
      PROVE  c.unit <= c.read.unitCount
  <2>1. PICK k \in calls : c = [k EXCEPT !.by = None]
    BY <1>4 DEF DispatcherDies
  <2>2. c.unit = k.unit /\ c.read = k.read
    BY <1>1, <2>1 DEF TypeOK, ChunkCalls
  <2> QED
    BY <1>1, <2>2 DEF CallsCanSimulate
<1>5. ASSUME NEW k \in calls, ChunkRead(k), c \notin calls
      PROVE  c.unit <= c.read.unitCount
  BY <1>1, <1>5 DEF TypeOK, ChunkCalls, ChunkRead, CanSimulate
<1>6. \/ calls' \subseteq calls
      \/ \E d \in Dispatchers : FanOut(d) \/ DispatcherDies(d)
      \/ \E k \in calls : ChunkRead(k)
  BY DEF Next, vars, rows, RefreshContext, TickPrecompute, ForcePrecompute,
         Begin, DispatcherStep, ReadContext, ReadSpec, BuildSpec, PutSpec,
         ReadReduced, AlreadyReduced, NotReduced, Recheck, LeavePending,
         Reduce, PutReduced, PutReducedGen, ChunkStep, ChunkRefused,
         ChunkWrite, ChunkDies, RunCompute, RunStep, RunPutSpec, RunPutPartial,
         RunPutReduced, RunPutReducedGen, RunDies
<1> QED
  BY <1>2, <1>3, <1>4, <1>5, <1>6

LEMMA StepPartialsKeptApart ==
  ASSUME IInv, [Next]_vars
  PROVE  PartialsKeptApart'
<1> USE ParametersAssumption
<1>1. TypeOK /\ HoldsSpec /\ CallsCanSimulate /\ PartialsKeptApart
  BY DEF IInv
<1>2. CASE UNCHANGED partial
  BY <1>1, <1>2 DEF PartialsKeptApart
<1>3. ASSUME NEW c \in calls, ChunkWrite(c)
      PROVE  PartialsKeptApart'
  <2>1. /\ Gen(c.read) \in Generations
        /\ c.unit \in Units
        /\ c.unit <= c.read.unitCount
    BY <1>1, <1>3, SpecFields
    DEF TypeOK, ChunkCalls, ChunkWrite, CallsCanSimulate
  <2> QED
    BY <1>1, <1>3, <2>1 DEF TypeOK, ChunkWrite, PartialsKeptApart, Gen
<1>4. ASSUME NEW g \in Runs, RunPutPartial(g)
      PROVE  PartialsKeptApart'
  <2>1. /\ Gen(stored[g]) \in Generations
        /\ stored[g].unitCount \in 0 .. MaxUnits
    BY <1>1, <1>4, SpecFields DEF TypeOK, HoldsSpec, RunPutPartial, Writers
  <2>2. nextUnit[g] \in Units /\ nextUnit[g] <= stored[g].unitCount
    BY <1>1, <1>4, <2>1 DEF TypeOK, RunPutPartial, Units
  <2> QED
    BY <1>1, <1>4, <2>1, <2>2
    DEF TypeOK, RunPutPartial, PartialsKeptApart, Gen
<1> QED
  BY <1>2, <1>3, <1>4, PartialWrites

\* A partial once written stays, though another may replace it.
LEMMA PartialsStay ==
  ASSUME IInv, [Next]_vars,
         NEW g \in Generations, NEW u \in Units, partial[g][u] # None
  PROVE  partial'[g][u] # None
<1>1. TypeOK /\ HoldsSpec
  BY DEF IInv
<1>2. CASE UNCHANGED partial
  BY <1>2
<1>3. ASSUME NEW c \in calls, ChunkWrite(c)
      PROVE  partial'[g][u] # None
  BY <1>1, <1>3 DEF TypeOK, ChunkWrite
<1>4. ASSUME NEW h \in Runs, RunPutPartial(h)
      PROVE  partial'[g][u] # None
  BY <1>1, <1>4 DEF TypeOK, HoldsSpec, RunPutPartial
<1> QED
  BY <1>2, <1>3, <1>4, PartialWrites

LEMMA StepReadyToReduce ==
  ASSUME IInv, TypeOK', [Next]_vars
  PROVE  ReadyToReduce'
<1> USE ParametersAssumption
<1>1. TypeOK /\ HoldsSpec /\ ReadyToReduce
  BY DEF IInv
<1> SUFFICES ASSUME NEW d \in Dispatchers, pc'[d] = "reduce",
                    NEW u \in 1 .. stored'[d].unitCount
             PROVE  partial'[Gen(stored'[d])][u] # None
  BY DEF ReadyToReduce, Gen
<1>2. \/ pc[d] = "reduce" /\ stored'[d] = stored[d]
      \/ FanOut(d)
      \/ Recheck(d)
  <2>1. CASE ReadContext(d) \/ ReadSpec(d) \/ BuildSpec(d) \/ PutSpec(d)
               \/ ReadReduced(d) \/ AlreadyReduced(d) \/ NotReduced(d)
               \/ LeavePending(d) \/ Reduce(d) \/ PutReduced(d)
               \/ PutReducedGen(d) \/ Begin(d) \/ DispatcherDies(d)
    BY <1>1, <2>1
    DEF TypeOK, ReadContext, ReadSpec, BuildSpec, PutSpec, ReadReduced,
        AlreadyReduced, NotReduced, LeavePending, Reduce, PutReduced,
        PutReducedGen, Begin, DispatcherDies, Goto, Return, Writers
  <2> QED
    BY <1>1, <2>1, DispatcherMemory DEF DispatcherStep
<1>3. CASE pc[d] = "reduce" /\ stored'[d] = stored[d]
  <2>1. /\ Gen(stored[d]) \in Generations
        /\ stored[d].unitCount \in 0 .. MaxUnits
    BY <1>1, <1>3, SpecFields DEF TypeOK, HoldsSpec, Writers
  <2>2. u \in Units /\ partial[Gen(stored[d])][u] # None
    BY <1>1, <1>3, <2>1 DEF ReadyToReduce, Units
  <2> QED
    BY <1>3, <2>1, <2>2, PartialsStay
<1>4. CASE FanOut(d) \/ Recheck(d)
  <2>1. PendingUnits(stored[d]) = {}
    BY <1>1, <1>4 DEF TypeOK, FanOut, Recheck, Goto, Writers
  <2> QED
    BY <1>4, <2>1 DEF PendingUnits, FanOut, Recheck, rows, Gen
<1> QED
  BY <1>2, <1>3, <1>4

\* What Reduce assembles is whole: every partial is there, and apart.
LEMMA ReduceIsWhole ==
  ASSUME IInv, NEW d \in Dispatchers, Reduce(d)
  PROVE  briefing'[d] # None /\ IsWhole(briefing'[d])
<1> USE ParametersAssumption
<1>1. TypeOK /\ HoldsSpec /\ ReadyToReduce /\ PartialsKeptApart
  BY DEF IInv
<1> DEFINE s == stored[d]
           b == [spec  |-> s,
                 parts |-> [u \in Units |->
                              IF u <= s.unitCount THEN partial[Gen(s)][u] ELSE None]]
<1>2. briefing'[d] = b
  BY <1>1 DEF TypeOK, Reduce
<1>3. /\ pc[d] = "reduce"
      /\ s \in SimSpecs
      /\ Gen(s) \in Generations
      /\ s.unitCount \in 0 .. MaxUnits
  BY <1>1, SpecFields DEF TypeOK, HoldsSpec, Reduce, Goto, Writers
<1>4. b \in Briefings
  BY <1>1, <1>3 DEF TypeOK, Briefings
<1>5. IsWhole(b)
  <2> SUFFICES ASSUME NEW u \in 1 .. s.unitCount
               PROVE  /\ b.parts[u] # None
                      /\ Gen(b.parts[u]) = Gen(s)
                      /\ u <= b.parts[u].unitCount
    BY DEF IsWhole
  <2>1. u \in Units /\ b.parts[u] = partial[Gen(s)][u]
    BY <1>3 DEF Units
  <2>2. partial[Gen(s)][u] # None
    BY <1>1, <1>3 DEF ReadyToReduce
  <2> QED
    BY <1>1, <1>3, <2>1, <2>2 DEF PartialsKeptApart
<1> QED
  BY <1>2, <1>4, <1>5

LEMMA StepAssembledIsWhole ==
  ASSUME IInv, TypeOK', [Next]_vars
  PROVE  AssembledIsWhole'
<1> USE ParametersAssumption
<1>1. TypeOK /\ AssembledIsWhole
  BY DEF IInv
<1> SUFFICES ASSUME NEW d \in Dispatchers, pc'[d] = "putReduced"
             PROVE  briefing'[d] # None /\ IsWhole(briefing'[d])
  BY DEF AssembledIsWhole, IsWhole, Gen
<1>2. \/ pc[d] = "putReduced" /\ briefing'[d] = briefing[d]
      \/ Reduce(d)
  <2>1. CASE ReadContext(d) \/ ReadSpec(d) \/ BuildSpec(d) \/ PutSpec(d)
               \/ ReadReduced(d) \/ AlreadyReduced(d) \/ NotReduced(d)
               \/ FanOut(d) \/ Recheck(d) \/ LeavePending(d)
               \/ PutReduced(d) \/ PutReducedGen(d) \/ Begin(d)
               \/ DispatcherDies(d)
    BY <1>1, <2>1
    DEF TypeOK, ReadContext, ReadSpec, BuildSpec, PutSpec, ReadReduced,
        AlreadyReduced, NotReduced, FanOut, Recheck, LeavePending, PutReduced,
        PutReducedGen, Begin, DispatcherDies, Goto, Return, Writers
  <2> QED
    BY <1>1, <2>1, DispatcherMemory DEF DispatcherStep
<1>3. CASE pc[d] = "putReduced" /\ briefing'[d] = briefing[d]
  BY <1>1, <1>3 DEF AssembledIsWhole
<1>4. CASE Reduce(d)
  BY <1>4, ReduceIsWhole
<1> QED
  BY <1>2, <1>3, <1>4

\* What a run publishes is whole: it reduces the partials it just simulated.
LEMMA RunReduceIsWhole ==
  ASSUME IInv, NEW g \in Runs, RunPutReduced(g)
  PROVE  reduced' # None /\ IsWhole(reduced')
<1> USE ParametersAssumption
<1>1. TypeOK /\ HoldsSpec
  BY DEF IInv
<1> DEFINE s == stored[g]
           b == [spec  |-> s,
                 parts |-> [u \in Units |-> IF u <= s.unitCount THEN s ELSE None]]
<1>2. s \in SimSpecs /\ s # None /\ s.unitCount \in 0 .. MaxUnits
  BY <1>1, SpecFields DEF TypeOK, HoldsSpec, RunPutReduced, Goto, Writers
<1>3. b \in Briefings
  BY <1>2 DEF Briefings
<1>4. IsWhole(b)
  BY <1>2 DEF IsWhole, Units
<1> QED
  BY <1>3, <1>4 DEF RunPutReduced

LEMMA StepPreparedIsWhole ==
  ASSUME IInv, [Next]_vars
  PROVE  PreparedIsWhole'
<1> SUFFICES ASSUME reduced' # None
             PROVE  IsWhole(reduced')
  BY DEF PreparedIsWhole, IsWhole, Gen
<1>1. PreparedIsWhole /\ AssembledIsWhole
  BY DEF IInv
<1>2. CASE UNCHANGED reduced
  BY <1>1, <1>2 DEF PreparedIsWhole
<1>3. ASSUME NEW d \in Dispatchers, PutReduced(d)
      PROVE  IsWhole(reduced')
  BY <1>1, <1>3 DEF AssembledIsWhole, PutReduced, Goto
<1>4. ASSUME NEW g \in Runs, RunPutReduced(g)
      PROVE  IsWhole(reduced')
  BY <1>4, RunReduceIsWhole
<1> QED
  BY <1>2, <1>3, <1>4, ReducedWrites

LEMMA StepIInv == IInv /\ [Next]_vars => IInv'
<1> SUFFICES ASSUME IInv, [Next]_vars PROVE IInv'
  OBVIOUS
<1>1. TypeOK'
  BY StepTypeOK
<1> QED
  BY <1>1, StepHoldsSpec, StepCallsCanSimulate, StepReadyToReduce,
     StepAssembledIsWhole, StepPartialsKeptApart, StepPreparedIsWhole
  DEF IInv

-----------------------------------------------------------------------------

LEMMA Invariance == Spec => []IInv
<1> QED
  BY InitIInv, StepIInv, PTL DEF Spec

\* Every row and every invocation's memory holds what its schema allows.
THEOREM TypeCorrect == Spec => []TypeOK
<1>1. IInv => TypeOK
  BY DEF IInv
<1> QED
  BY <1>1, Invariance, PTL

\* Whatever the hash and however late a chunk writes, a row under a generation
\* was simulated from a spec of that generation that has the candidate.
THEOREM KeptApart == Spec => []PartialsKeptApart
<1>1. IInv => PartialsKeptApart
  BY DEF IInv
<1> QED
  BY <1>1, Invariance, PTL

\* The prepared briefing that send-briefing delivers is whole, for any number
\* of overlapping dispatchers, chunks and runs, and of faults.
THEOREM Whole == Spec => []PreparedIsWhole
<1>1. IInv => PreparedIsWhole
  BY DEF IInv
<1> QED
  BY <1>1, Invariance, PTL

-----------------------------------------------------------------------------
(* One heavy stage per invocation: the place tells the stages behind it.   *)

StagesBehind ==
  \A d \in Dispatchers :
    /\ pc[d] \in {"idle", "readContext", "readSpec", "buildSpec"}
         => stages[d] = {}
    /\ pc[d] = "putSpec" => stages[d] = {"spec"}
    /\ pc[d] \in {"readReduced", "readReducedGen", "fanOut", "await", "reduce"}
         => stages[d] = {}
    /\ pc[d] \in {"putReduced", "putReducedGen"} => stages[d] = {"reduce"}

LEMMA StepStagesBehind ==
  ASSUME TypeOK, TypeOK', StagesBehind, [Next]_vars
  PROVE  StagesBehind'
<1> USE ParametersAssumption
<1> SUFFICES ASSUME NEW d \in Dispatchers
             PROVE  /\ pc'[d] \in {"idle", "readContext", "readSpec", "buildSpec"}
                         => stages'[d] = {}
                    /\ pc'[d] = "putSpec" => stages'[d] = {"spec"}
                    /\ pc'[d] \in {"readReduced", "readReducedGen", "fanOut",
                                   "await", "reduce"} => stages'[d] = {}
                    /\ pc'[d] \in {"putReduced", "putReducedGen"}
                         => stages'[d] = {"reduce"}
  BY DEF StagesBehind
<1>1. CASE UNCHANGED <<pc[d], stored[d], briefing[d], stages[d]>>
  BY <1>1 DEF StagesBehind
<1>2. CASE Begin(d) \/ ReadContext(d) \/ ReadSpec(d) \/ ReadReduced(d)
             \/ NotReduced(d) \/ FanOut(d) \/ Recheck(d) \/ PutReduced(d)
  BY <1>2
  DEF TypeOK, StagesBehind, Begin, ReadContext, ReadSpec, ReadReduced,
      NotReduced, FanOut, Recheck, PutReduced, Goto, Writers
<1>3. CASE BuildSpec(d)
  BY <1>3 DEF TypeOK, StagesBehind, BuildSpec, Goto, Writers
<1>4. CASE Reduce(d)
  BY <1>4 DEF TypeOK, StagesBehind, Reduce, Goto, Writers
<1>5. CASE PutSpec(d) \/ AlreadyReduced(d) \/ LeavePending(d)
             \/ PutReducedGen(d) \/ DispatcherDies(d)
  BY <1>5
  DEF TypeOK, PutSpec, AlreadyReduced, LeavePending, PutReducedGen,
      DispatcherDies, Return, Writers
<1> QED
  BY <1>1, <1>2, <1>3, <1>4, <1>5, DispatcherMemory DEF DispatcherStep

\* The HARD RULE of the dispatcher: an invocation never both builds the spec
\* and reduces, wherever it is killed and whatever it finds in D1.
THEOREM OneStage == Spec => []OneStagePerTick
<1>1. Init => StagesBehind
  BY ParametersAssumption DEF Init, StagesBehind, Writers
<1>2. TypeOK /\ TypeOK' /\ StagesBehind /\ [Next]_vars => StagesBehind'
  BY StepStagesBehind
<1>3. TypeOK /\ StagesBehind => OneStagePerTick
  <2>1. "spec" \in {"spec", "reduce"} /\ "reduce" \in {"spec", "reduce"}
    OBVIOUS
  <2>2. ASSUME TypeOK, StagesBehind, NEW d \in Dispatchers
        PROVE  "spec" \notin stages[d] \/ "reduce" \notin stages[d]
    BY <2>2 DEF TypeOK, StagesBehind, DispatcherPCs
  <2> QED
    BY <2>1, <2>2 DEF OneStagePerTick
<1> QED
  BY <1>1, <1>2, <1>3, TypeCorrect, PTL DEF Spec

-----------------------------------------------------------------------------
(* The rows implement the promise of PreparedBriefing.                     *)

\* Whoever holds a spec finds one on record, and so does a reader of the
\* prepared briefing.
SpecOnRecord ==
  /\ \A d \in Dispatchers :
       pc[d] \notin {"idle", "readContext", "readSpec", "buildSpec", "putSpec"}
         => spec # None
  /\ \A g \in Runs : pc[g] \in {"simulate", "putReducedGen"} => spec # None
  /\ reduced # None => spec # None

\* The spec of the date may be replaced, never removed.
LEMMA SpecStays ==
  ASSUME IInv, [Next]_vars, spec # None
  PROVE  spec' # None
<1> USE ParametersAssumption
<1>1. TypeOK /\ HoldsSpec
  BY DEF IInv
<1>2. ASSUME NEW d \in Dispatchers, PutSpec(d) PROVE spec' # None
  BY <1>1, <1>2 DEF HoldsSpec, PutSpec
<1>3. ASSUME NEW g \in Runs, RunPutSpec(g) PROVE spec' # None
  BY <1>3 DEF RunPutSpec, BuiltBy
<1> QED
  BY <1>2, <1>3, SpecWrites

LEMMA StepSpecOnRecord ==
  ASSUME IInv, SpecOnRecord, [Next]_vars
  PROVE  SpecOnRecord'
<1> USE ParametersAssumption
<1>1. TypeOK /\ HoldsSpec
  BY DEF IInv
<1>2. CASE spec # None
  BY <1>2, SpecStays DEF SpecOnRecord
<1>3. CASE spec = None
  <2>1. ASSUME NEW d \in Dispatchers,
               pc'[d] \notin {"idle", "readContext", "readSpec", "buildSpec",
                              "putSpec"}
        PROVE  spec' # None
    <3>1. pc[d] \in {"idle", "readContext", "readSpec", "buildSpec", "putSpec"}
      BY <1>1, <1>3 DEF TypeOK, SpecOnRecord, DispatcherPCs
    <3>2. CASE Begin(d) \/ ReadContext(d) \/ ReadSpec(d) \/ BuildSpec(d)
                 \/ PutSpec(d) \/ DispatcherDies(d)
      BY <1>1, <1>3, <2>1, <3>2
      DEF TypeOK, Begin, ReadContext, ReadSpec, BuildSpec, PutSpec,
          DispatcherDies, Goto, Return, Writers
    <3>3. CASE ReadReduced(d) \/ AlreadyReduced(d) \/ NotReduced(d) \/ FanOut(d)
                 \/ Recheck(d) \/ LeavePending(d) \/ Reduce(d) \/ PutReduced(d)
                 \/ PutReducedGen(d)
      BY <3>1, <3>3
      DEF ReadReduced, AlreadyReduced, NotReduced, FanOut, Recheck,
          LeavePending, Reduce, PutReduced, PutReducedGen, Goto
    <3> QED
      BY <1>1, <2>1, <3>1, <3>2, <3>3, DispatcherMemory DEF DispatcherStep
  <2>2. ASSUME NEW g \in Runs, pc'[g] \in {"simulate", "putReducedGen"}
        PROVE  spec' # None
    <3>1. pc[g] \notin {"simulate", "putReducedGen"}
      BY <1>3 DEF SpecOnRecord
    <3>2. CASE RunPutSpec(g)
      BY <3>2 DEF RunPutSpec, BuiltBy
    <3>3. CASE RunCompute(g) \/ RunPutPartial(g) \/ RunPutReduced(g)
                 \/ RunPutReducedGen(g) \/ RunDies(g)
      BY <1>1, <2>2, <3>1, <3>3
      DEF TypeOK, RunCompute, RunPutPartial, RunPutReduced, RunPutReducedGen,
          RunDies, Goto, Writers
    <3> QED
      BY <1>1, <2>2, <3>1, <3>2, <3>3, RunMemory DEF RunStep
  <2>3. reduced' = reduced
    BY <1>3, ReducedWrites
    DEF SpecOnRecord, PutReduced, RunPutReduced, Goto
  <2> QED
    BY <1>3, <2>1, <2>2, <2>3 DEF SpecOnRecord
<1> QED
  BY <1>2, <1>3

LEMMA StepPrepared ==
  ASSUME IInv, SpecOnRecord, [Next]_vars, TypeOK'
  PROVE  [Prepared!Next]_<<IF reduced # None THEN "prepared"
                           ELSE IF spec # None THEN "specBuilt" ELSE "noSpec",
                           reduced>>
<1> USE ParametersAssumption
<1>1. TypeOK
  BY DEF IInv
<1>2. ASSUME UNCHANGED reduced
      PROVE  \/ UNCHANGED <<IF reduced # None THEN "prepared"
                            ELSE IF spec # None THEN "specBuilt" ELSE "noSpec",
                            reduced>>
             \/ Prepared!BuildSpec
  BY <1>2, SpecStays DEF Prepared!BuildSpec
<1>3. ASSUME reduced' # None, spec # None
      PROVE  Prepared!Publish
  <2>1. IsWhole(reduced') /\ reduced' \in Briefings
    BY <1>3, StepPreparedIsWhole DEF PreparedIsWhole, TypeOK, IsWhole, Gen
  <2> QED
    BY <1>3, <2>1 DEF Prepared!Publish
<1>4. ASSUME NEW d \in Dispatchers, PutReduced(d)
      PROVE  reduced' # None /\ spec # None
  BY <1>4 DEF IInv, AssembledIsWhole, SpecOnRecord, PutReduced, Goto
<1>5. ASSUME NEW g \in Runs, RunPutReduced(g)
      PROVE  reduced' # None /\ spec # None
  BY <1>5, RunReduceIsWhole DEF SpecOnRecord, RunPutReduced, Goto
<1> QED
  BY <1>2, <1>3, <1>4, <1>5, ReducedWrites DEF Prepared!Next

\* However the invocations interleave, their rows implement the safety half of
\* the promise: no spec, a spec, a prepared briefing, never back, always whole.
THEOREM ImplementsPrepared == Spec => Prepared!Spec
<1>1. Init => SpecOnRecord /\ Prepared!Init
  BY ParametersAssumption
  DEF Init, SpecOnRecord, Prepared!Init, Writers
<1>2. IInv /\ SpecOnRecord /\ [Next]_vars => SpecOnRecord'
  BY StepSpecOnRecord
<1>3. IInv /\ SpecOnRecord /\ [Next]_vars /\ TypeOK'
        => [Prepared!Next]_<<IF reduced # None THEN "prepared"
                             ELSE IF spec # None THEN "specBuilt" ELSE "noSpec",
                             reduced>>
  BY StepPrepared
<1>4. IInv => TypeOK
  BY DEF IInv
<1> QED
  BY <1>1, <1>2, <1>3, <1>4, Invariance, PTL DEF Spec, Prepared!Spec

-----------------------------------------------------------------------------
(***************************************************************************)
(* About the specs of a day: every writer puts at most one, so that a      *)
(* briefing mixes the specs of different writers at worst.  The inductive  *)
(* invariant is the one above with OneSpecEach.                            *)
(***************************************************************************)

OfBriefing(b, s) == b # None /\ (b.spec = s \/ \E u \in Units : b.parts[u] = s)

\* A spec was put: it is on record, somebody read or put it, or something was
\* simulated from it.  A spec that a dispatcher has built was not put yet.
InMemory(s) ==
  \/ \E d \in Dispatchers : pc[d] # "putSpec" /\ stored[d] = s
  \/ \E g \in Runs : stored[g] = s
InCalls(s)    == \E c \in calls : c.read = s
InPartials(s) == \E g \in Generations, u \in Units : partial[g][u] = s
InBriefings(s) ==
  \/ \E d \in Dispatchers : OfBriefing(briefing[d], s)
  \/ OfBriefing(reduced, s)

WasPut(s) == s = spec \/ InMemory(s) \/ InCalls(s) \/ InPartials(s) \/ InBriefings(s)

\* A writer that may still put a spec.
Undecided(w) ==
  IF w \in Dispatchers THEN pc[w] \in {"buildSpec", "putSpec"}
                       ELSE pc[w] \in {"idle", "putSpec"}

\* One spec of each writer was put, none of one that may still put one, and none at
\* all while there is none on record.
OneSpecEach ==
  /\ \A s, t \in SimSpecs : WasPut(s) /\ WasPut(t) /\ s.by = t.by => s = t
  /\ \A w \in Writers, s \in SimSpecs : Undecided(w) /\ WasPut(s) => s.by # w
  /\ spec = None => \A s \in SimSpecs : ~WasPut(s)
  /\ \A d \in Dispatchers : pc[d] = "putSpec" => stored[d].by = d

-----------------------------------------------------------------------------
(* What a step adds to the specs that were put: the one it puts.           *)

\* What chunks have read they read from the record.
LEMMA CallWrites ==
  ASSUME TypeOK, [Next]_vars, NEW c \in calls'
  PROVE  c.read = None \/ c.read = spec \/ \E b \in calls : b.read = c.read
<1>1. CASE c \in calls
  BY <1>1
<1>2. ASSUME NEW d \in Dispatchers, FanOut(d), c \notin calls PROVE c.read = None
  BY <1>2 DEF FanOut
<1>3. ASSUME NEW d \in Dispatchers, DispatcherDies(d)
      PROVE  \E b \in calls : b.read = c.read
  <2>1. PICK b \in calls : c = IF b.by = d THEN [b EXCEPT !.by = None] ELSE b
    BY <1>3 DEF DispatcherDies
  <2> QED
    BY <2>1 DEF TypeOK, ChunkCalls
<1>4. ASSUME NEW b \in calls, ChunkRead(b), c \notin calls PROVE c.read = spec
  BY <1>4 DEF TypeOK, ChunkCalls, ChunkRead
<1>5. CASE calls' \subseteq calls
  BY <1>5
<1>6. \/ calls' \subseteq calls
      \/ \E d \in Dispatchers : FanOut(d) \/ DispatcherDies(d)
      \/ \E b \in calls : ChunkRead(b)
  BY DEF Next, vars, rows, RefreshContext, TickPrecompute, ForcePrecompute,
         Begin, DispatcherStep, ReadContext, ReadSpec, BuildSpec, PutSpec,
         ReadReduced, AlreadyReduced, NotReduced, Recheck, LeavePending, Reduce,
         PutReduced, PutReducedGen, ChunkStep, ChunkRefused, ChunkWrite, ChunkDies,
         RunCompute, RunStep, RunPutSpec, RunPutPartial, RunPutReduced,
         RunPutReducedGen, RunDies
<1> QED
  BY <1>1, <1>2, <1>3, <1>4, <1>5, <1>6

LEMMA StepInMemory ==
  ASSUME IInv, [Next]_vars, NEW s \in SimSpecs, InMemory(s)'
  PROVE  InMemory(s) \/ s = spec \/ s = spec'
<1> USE ParametersAssumption DEF Writers
<1>1. TypeOK /\ s # None
  BY SpecFields DEF IInv
<1>2. ASSUME NEW d \in Dispatchers, pc'[d] # "putSpec", stored'[d] = s
      PROVE  (pc[d] # "putSpec" /\ stored[d] = s) \/ s = spec
  <2>1. CASE UNCHANGED <<pc[d], stored[d], briefing[d], stages[d]>>
    BY <1>2, <2>1
  <2>2. CASE Begin(d) \/ ReadContext(d) \/ ReadReduced(d) \/ NotReduced(d)
               \/ FanOut(d) \/ Recheck(d) \/ Reduce(d) \/ PutReduced(d)
    BY <1>2, <2>2
    DEF Begin, ReadContext, ReadReduced, NotReduced, FanOut, Recheck, Reduce,
        PutReduced, Goto
  <2>3. CASE ReadSpec(d)
    BY <1>1, <1>2, <2>3 DEF TypeOK, ReadSpec
  <2>4. CASE BuildSpec(d)
    BY <1>1, <1>2, <2>4 DEF TypeOK, BuildSpec, Goto
  <2>5. CASE PutSpec(d) \/ AlreadyReduced(d) \/ LeavePending(d)
               \/ PutReducedGen(d) \/ DispatcherDies(d)
    BY <1>1, <1>2, <2>5
    DEF TypeOK, PutSpec, AlreadyReduced, LeavePending, PutReducedGen,
        DispatcherDies, Return
  <2> QED
    BY <2>1, <2>2, <2>3, <2>4, <2>5, DispatcherMemory, <1>1 DEF DispatcherStep
<1>3. ASSUME NEW g \in Runs, stored'[g] = s
      PROVE  stored[g] = s \/ s = spec'
  <2>1. CASE UNCHANGED <<pc[g], stored[g]>>
    BY <1>3, <2>1
  <2>2. CASE RunPutSpec(g)
    BY <1>1, <1>3, <2>2 DEF TypeOK, RunPutSpec
  <2>3. CASE RunCompute(g) \/ RunPutPartial(g) \/ RunPutReduced(g)
               \/ RunPutReducedGen(g) \/ RunDies(g)
    BY <1>3, <2>3
    DEF RunCompute, RunPutPartial, RunPutReduced, RunPutReducedGen, RunDies
  <2> QED
    BY <1>1, <2>1, <2>2, <2>3, RunMemory DEF RunStep
<1> QED
  BY <1>2, <1>3 DEF InMemory

LEMMA StepInPartials ==
  ASSUME IInv, [Next]_vars, NEW s \in SimSpecs, InPartials(s)'
  PROVE  WasPut(s)
<1> USE ParametersAssumption
<1>1. TypeOK
  BY DEF IInv
<1> SUFFICES ASSUME NEW g \in Generations, NEW u \in Units, partial'[g][u] = s
             PROVE  WasPut(s)
  BY DEF InPartials
<1>2. CASE UNCHANGED partial
  BY <1>2 DEF WasPut, InPartials
<1>3. ASSUME NEW c \in calls, ChunkWrite(c) PROVE WasPut(s)
  <2>1. partial'[g][u] = partial[g][u] \/ partial'[g][u] = c.read
    BY <1>1, <1>3 DEF TypeOK, ChunkWrite
  <2> QED
    BY <1>3, <2>1 DEF WasPut, InPartials, InCalls
<1>4. ASSUME NEW h \in Runs, RunPutPartial(h) PROVE WasPut(s)
  <2>1. partial'[g][u] = partial[g][u] \/ partial'[g][u] = stored[h]
    BY <1>1, <1>4 DEF TypeOK, RunPutPartial
  <2> QED
    BY <1>4, <2>1 DEF WasPut, InPartials, InMemory
<1> QED
  BY <1>2, <1>3, <1>4, PartialWrites

LEMMA StepInBriefings ==
  ASSUME IInv, [Next]_vars, NEW s \in SimSpecs, InBriefings(s)'
  PROVE  WasPut(s)
<1> USE ParametersAssumption
<1>1. TypeOK /\ s # None /\ s.unitCount \in 0 .. MaxUnits
  BY SpecFields DEF IInv
<1>2. ASSUME NEW d \in Dispatchers, OfBriefing(briefing'[d], s)
      PROVE  WasPut(s)
  <2>1. CASE UNCHANGED briefing[d]
    BY <1>2, <2>1 DEF WasPut, InBriefings, OfBriefing
  <2>2. CASE Reduce(d)
    <3> DEFINE held == stored[d]
               parts == [u \in Units |-> IF u <= held.unitCount
                                           THEN partial[Gen(held)][u] ELSE None]
    <3>1. briefing'[d] = [spec |-> held, parts |-> parts]
      BY <1>1, <2>2 DEF TypeOK, Reduce
    <3>2. pc[d] = "reduce" /\ held # None /\ held \in SimSpecs
      BY <1>1, <2>2 DEF IInv, HoldsSpec, TypeOK, Reduce, Goto, Writers
    <3>3. Gen(held) \in Generations
      BY <3>2, SpecFields
    <3>4. CASE held = s
      BY <3>2, <3>4 DEF WasPut, InMemory
    <3>5. ASSUME NEW u \in Units, parts[u] = s PROVE WasPut(s)
      BY <1>1, <3>3, <3>5 DEF WasPut, InPartials
    <3> QED
      BY <1>2, <3>1, <3>4, <3>5 DEF OfBriefing
  <2>3. CASE UNCHANGED briefing \/ briefing'[d] = None
    BY <1>2, <2>1, <2>3 DEF OfBriefing
  <2>4. \/ UNCHANGED briefing[d]
        \/ Reduce(d)
        \/ UNCHANGED briefing \/ briefing'[d] = None
    <3>1. CASE DispatcherStep(d)
      BY <1>1, <3>1
      DEF TypeOK, DispatcherStep, ReadContext, ReadSpec, BuildSpec, PutSpec,
          ReadReduced, AlreadyReduced, NotReduced, FanOut, Recheck, LeavePending,
          PutReduced, PutReducedGen, Return
    <3>2. CASE Begin(d) \/ DispatcherDies(d)
      BY <1>1, <3>2 DEF TypeOK, Begin, DispatcherDies, Return
    <3> QED
      BY <1>1, <3>1, <3>2, DispatcherMemory
  <2> QED
    BY <2>1, <2>2, <2>3, <2>4
<1>3. ASSUME OfBriefing(reduced', s)
      PROVE  WasPut(s)
  <2>1. CASE UNCHANGED reduced
    BY <1>3, <2>1 DEF WasPut, InBriefings
  <2>2. ASSUME NEW d \in Dispatchers, PutReduced(d) PROVE WasPut(s)
    BY <1>3, <2>2 DEF WasPut, InBriefings, PutReduced
  <2>3. ASSUME NEW g \in Runs, RunPutReduced(g) PROVE WasPut(s)
    <3>1. s = stored[g]
      BY <1>1, <1>3, <2>3 DEF RunPutReduced, OfBriefing
    <3> QED
      BY <3>1 DEF WasPut, InMemory
  <2> QED
    BY <2>1, <2>2, <2>3, ReducedWrites
<1> QED
  BY <1>2, <1>3 DEF InBriefings

LEMMA OnlyPutSpecs ==
  ASSUME IInv, [Next]_vars, NEW s \in SimSpecs, WasPut(s)'
  PROVE  WasPut(s) \/ s = spec'
<1>1. s # None
  BY SpecFields
<1>2. CASE InCalls(s)'
  BY <1>1, <1>2, CallWrites DEF IInv, InCalls, WasPut
<1>3. CASE InMemory(s)'
  BY <1>3, StepInMemory DEF WasPut
<1> QED
  BY <1>2, <1>3, StepInPartials, StepInBriefings DEF WasPut

-----------------------------------------------------------------------------
(* The invariant is inductive.                                             *)

\* Who puts a spec puts one of his own, and may still do so.
LEMMA PutsItsOwn ==
  ASSUME IInv, OneSpecEach, [Next]_vars, spec' # spec
  PROVE  /\ spec' \in SimSpecs
         /\ \E w \in Writers :
              /\ spec'.by = w
              /\ Undecided(w) /\ ~Undecided(w)'
<1> USE ParametersAssumption DEF Writers, Undecided
<1>1. TypeOK /\ HoldsSpec
  BY DEF IInv
<1>2. ASSUME NEW d \in Dispatchers, PutSpec(d)
      PROVE  /\ spec' \in SimSpecs /\ spec'.by = d
             /\ pc[d] = "putSpec" /\ pc'[d] = "idle"
  BY <1>1, <1>2 DEF TypeOK, HoldsSpec, OneSpecEach, PutSpec, Return
<1>3. ASSUME NEW g \in Runs, RunPutSpec(g)
      PROVE  /\ spec' \in SimSpecs /\ spec'.by = g
             /\ pc[g] = "putSpec" /\ pc'[g] = "simulate"
  BY <1>1, <1>3 DEF TypeOK, RunPutSpec, BuiltBy, Goto
<1> QED
  BY <1>2, <1>3, SpecWrites

\* A writer that decided does not become undecided again while a spec is on record.
LEMMA StaysDecided ==
  ASSUME IInv, [Next]_vars, NEW w \in Writers, Undecided(w)'
  PROVE  Undecided(w) \/ (spec = None /\ spec' = None)
<1> USE ParametersAssumption DEF Writers
<1>1. TypeOK
  BY DEF IInv
<1>2. CASE w \in Dispatchers
  <2>1. CASE UNCHANGED <<pc[w], stored[w], briefing[w], stages[w]>>
    BY <1>2, <2>1 DEF Undecided
  <2>2. CASE ReadSpec(w)
    BY <1>1, <1>2, <2>2 DEF TypeOK, Undecided, ReadSpec, Goto, rows
  <2>3. CASE BuildSpec(w)
    BY <1>2, <2>3 DEF Undecided, BuildSpec, Goto
  <2>4. CASE Begin(w) \/ ReadContext(w) \/ ReadReduced(w) \/ NotReduced(w)
               \/ FanOut(w) \/ Recheck(w) \/ Reduce(w) \/ PutReduced(w)
    BY <1>1, <1>2, <2>4
    DEF TypeOK, Undecided, Begin, ReadContext, ReadReduced, NotReduced, FanOut,
        Recheck, Reduce, PutReduced, Goto
  <2>5. CASE PutSpec(w) \/ AlreadyReduced(w) \/ LeavePending(w)
               \/ PutReducedGen(w) \/ DispatcherDies(w)
    BY <1>1, <1>2, <2>5
    DEF TypeOK, Undecided, PutSpec, AlreadyReduced, LeavePending, PutReducedGen,
        DispatcherDies, Return
  <2> QED
    BY <1>1, <1>2, <2>1, <2>2, <2>3, <2>4, <2>5, DispatcherMemory DEF DispatcherStep
<1>3. CASE w \in Runs
  <2>1. w \notin Dispatchers
    BY <1>3
  <2>2. CASE UNCHANGED <<pc[w], stored[w]>>
    BY <2>1, <2>2 DEF Undecided
  <2>3. CASE RunCompute(w) \/ RunPutSpec(w) \/ RunPutReduced(w)
               \/ RunPutReducedGen(w) \/ RunDies(w) \/ RunPutPartial(w)
    BY <1>1, <2>1, <2>3
    DEF TypeOK, Undecided, RunCompute, RunPutSpec, RunPutReduced, RunPutReducedGen,
        RunDies, RunPutPartial, Goto
  <2> QED
    BY <1>1, <1>3, <2>2, <2>3, RunMemory DEF RunStep
<1> QED
  BY <1>2, <1>3

LEMMA StepOneSpecEach ==
  ASSUME IInv, OneSpecEach, [Next]_vars
  PROVE  OneSpecEach'
<1> USE ParametersAssumption
<1>1. TypeOK
  BY DEF IInv
<1>2. ASSUME NEW s \in SimSpecs, WasPut(s)'
      PROVE  \/ WasPut(s)
             \/ /\ s = spec' /\ Undecided(s.by) /\ ~Undecided(s.by)'
                /\ s.by \in Writers
  BY <1>2, OnlyPutSpecs, PutsItsOwn DEF WasPut
<1>3. ASSUME NEW s \in SimSpecs, NEW t \in SimSpecs, WasPut(s)', WasPut(t)', s.by = t.by
      PROVE  s = t
  BY <1>2, <1>3 DEF OneSpecEach
<1>4. ASSUME NEW w \in Writers, NEW s \in SimSpecs, Undecided(w)', WasPut(s)'
      PROVE  s.by # w
  <2>1. CASE Undecided(w)
    BY <1>2, <1>4, <2>1 DEF OneSpecEach
  <2>2. CASE spec = None /\ spec' = None
    BY <1>2, <1>4, <2>2, SpecFields DEF OneSpecEach
  <2> QED
    BY <1>4, <2>1, <2>2, StaysDecided
<1>5. ASSUME spec' = None, NEW s \in SimSpecs PROVE ~WasPut(s)'
  <2>1. spec = None /\ s # None
    BY <1>5, SpecStays, SpecFields
  <2> QED
    BY <1>5, <2>1, OnlyPutSpecs DEF OneSpecEach
<1>6. ASSUME NEW d \in Dispatchers, pc'[d] = "putSpec" PROVE stored'[d].by = d
  <2>1. CASE UNCHANGED <<pc[d], stored[d], briefing[d], stages[d]>>
    BY <1>6, <2>1 DEF OneSpecEach
  <2>2. CASE BuildSpec(d)
    BY <1>1, <1>6, <2>2 DEF TypeOK, BuildSpec, BuiltBy, Writers
  <2>3. CASE Begin(d) \/ ReadContext(d) \/ ReadSpec(d) \/ ReadReduced(d) \/ NotReduced(d)
               \/ FanOut(d) \/ Recheck(d) \/ Reduce(d) \/ PutReduced(d)
    BY <1>1, <1>6, <2>3
    DEF TypeOK, Begin, ReadContext, ReadSpec, ReadReduced, NotReduced, FanOut,
        Recheck, Reduce, PutReduced, Goto, Writers
  <2>4. CASE PutSpec(d) \/ AlreadyReduced(d) \/ LeavePending(d)
               \/ PutReducedGen(d) \/ DispatcherDies(d)
    BY <1>1, <1>6, <2>4
    DEF TypeOK, PutSpec, AlreadyReduced, LeavePending, PutReducedGen,
        DispatcherDies, Return, Writers
  <2> QED
    BY <1>1, <2>1, <2>2, <2>3, <2>4, DispatcherMemory DEF DispatcherStep
<1> QED
  BY <1>3, <1>4, <1>5, <1>6 DEF OneSpecEach

LEMMA InitOneSpecEach == Init => OneSpecEach
<1> SUFFICES ASSUME Init PROVE OneSpecEach
  OBVIOUS
<1>1. ASSUME NEW s \in SimSpecs PROVE ~WasPut(s)
  BY SpecFields
  DEF Init, WasPut, InMemory, InCalls, InPartials, InBriefings, OfBriefing, Writers
<1>2. \A d \in Dispatchers : pc[d] # "putSpec"
  BY DEF Init, Writers
<1> QED
  BY <1>1, <1>2 DEF OneSpecEach

LEMMA SpecsInvariance == Spec => [](IInv /\ OneSpecEach)
<1>1. IInv /\ OneSpecEach /\ [Next]_vars => OneSpecEach'
  BY StepOneSpecEach
<1> QED
  BY <1>1, InitOneSpecEach, Invariance, PTL DEF Spec

-----------------------------------------------------------------------------

\* A briefing sums a partial of another spec only where that is another writer's:
\* no writer, however often it dies and whatever is refreshed, mixes specs of its own.
THEOREM MixedAcross == Spec => []MixedOnlyAcrossWriters
<1>1. IInv /\ OneSpecEach => MixedOnlyAcrossWriters
  <2> SUFFICES ASSUME IInv, OneSpecEach, reduced # None,
                      NEW u \in 1 .. reduced.spec.unitCount,
                      reduced.parts[u] # reduced.spec
               PROVE  reduced.parts[u].by # reduced.spec.by
    BY DEF MixedOnlyAcrossWriters
  <2> USE ParametersAssumption
  <2>1. reduced \in Briefings /\ IsWhole(reduced)
    BY DEF IInv, TypeOK, PreparedIsWhole
  <2>2. reduced.spec \in SimSpecs /\ u \in Units
    BY <2>1, SpecFields DEF Briefings, Units
  <2>3. reduced.parts[u] \in SimSpecs
    BY <2>1, <2>2 DEF Briefings, IsWhole
  <2>4. WasPut(reduced.spec) /\ WasPut(reduced.parts[u])
    BY <2>2 DEF WasPut, InBriefings, OfBriefing
  <2> QED
    BY <2>2, <2>3, <2>4 DEF OneSpecEach
<1> QED
  BY <1>1, SpecsInvariance, PTL

\* The spec of the date is pinned: no writer ever replaces one of its own.
THEOREM Pinned == Spec => SpecPinned
<1>1. IInv /\ OneSpecEach /\ [Next]_vars
        => [(spec # None /\ spec' # spec) => spec'.by # spec.by]_vars
  <2> SUFFICES ASSUME IInv, OneSpecEach, [Next]_vars, spec # None, spec' # spec
               PROVE  spec'.by # spec.by
    OBVIOUS
  <2>1. spec \in SimSpecs /\ WasPut(spec)
    BY DEF IInv, TypeOK, WasPut
  <2> QED
    BY <2>1, PutsItsOwn DEF OneSpecEach
<1> QED
  BY <1>1, SpecsInvariance, PTL DEF Spec, SpecPinned
=============================================================================
