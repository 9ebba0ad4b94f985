----------------------------- MODULE Calibration -----------------------------
(***************************************************************************)
(* The loop that records what the engine predicted of each matchup week,   *)
(* closes the week with what came of it, and fits the engine's volatility  *)
(* to the closed weeks.  Two processes share the table of retrospectives   *)
(* and the cache without a lock: the tick of the Worker's cron (record,    *)
(* then close out) and the run of the GitHub Actions job, of which there   *)
(* is one at a time (close out, sweep, then record).  A part that fails is *)
(* skipped; a process may end at any step.                                 *)
(*                                                                         *)
(* A day is a date of Eastern time.  It begins in the night, in which      *)
(* Yahoo turns to the next matchup week some time after midnight; ticks    *)
(* come at 12 to 23 UTC, by which time it has.  Workflow runs are          *)
(* scheduled in those hours too, but may be dispatched by hand at night.   *)
(*                                                                         *)
(* A prediction stands for the counters of the baseline simulation: the    *)
(* week it is about, the days whose totals were already banked, and the    *)
(* logarithm of the volatility scale of the lines it was simulated with.   *)
(***************************************************************************)
EXTENDS Integers, FiniteSets, FiniteSetsExt, Sequences, SequencesExt

CONSTANTS
  DaysPerWeek,
  LastWeek,        \* bound: weeks of the season
  TicksPerDay,     \* bound: ticks of a day
  MaxFaults,       \* bound: failures, kills and days without a tick
  NightRuns,       \* whether a run may be dispatched at night
  MinWeeks,        \* VOLATILITY_SCALE_MIN_WEEKS
  Values,          \* the swept values, by their logarithm, in order
  TrueVolatility,  \* of the league (logarithm)
  NoiseFloor,      \* the Brier score of a week predicted as well as can be
  None

Processes == {"tick", "run"}
Weeks     == 1 .. LastWeek
Days      == 0 .. DaysPerWeek * LastWeek - 1
WeekOf(d) == d \div DaysPerWeek + 1
Scales    == {Values[i] : i \in DOMAIN Values}

Predictions == [week : Weeks, banked : 0 .. DaysPerWeek, volatility : Scales]
Specs       == [day : Days, prediction : Predictions]
Retros      == [prediction : Predictions, closed : BOOLEAN]

ASSUME ParametersAssumption ==
  /\ DaysPerWeek \in Nat \ {0} /\ LastWeek \in Nat \ {0}
  /\ TicksPerDay \in Nat /\ MaxFaults \in Nat /\ NightRuns \in BOOLEAN
  /\ MinWeeks \in Nat \ {0} /\ NoiseFloor \in Nat \ {0}
  /\ TrueVolatility \in Int
  /\ Values \in Seq(Int) /\ 0 \in Scales
  /\ None \notin Specs \cup Retros \cup Int

\* A week is not given up before it had a day without a failure.
ASSUME FaultsAreRare == MaxFaults < DaysPerWeek

VARIABLES
  day, night,  \* the Eastern date, and whether it is still night
  yahooWeek,   \* the matchup week in Yahoo's answers
  spec,        \* the spec stored last, under the key of its day
  retros,      \* the table of retrospectives
  scale,       \* VOLATILITY_SCALE_CACHE_KEY: [scale, weeks], or None
  sentOn,      \* the day of the last briefing on record as sent
  pc,          \* where each process stands
  week,        \* the week of the snapshot it works with
  held,        \* the spec, retrospective or scale it is going to store
  ticks,       \* ticks of the day so far
  faults,      \* faults so far
  early        \* history: the weeks a run began in before Yahoo turned to them

clock   == <<day, night, yahooWeek, ticks>>
store   == <<spec, retros, scale, sentOn>>
memory  == <<pc, week, held>>
vars    == <<clock, store, memory, faults, early>>

Init ==
  /\ day = 0 /\ night = FALSE /\ yahooWeek = 1
  /\ spec = None
  /\ retros = [w \in Weeks |-> None]
  /\ scale = None
  /\ sentOn = None
  /\ pc = [p \in Processes |-> "idle"]
  /\ week = [p \in Processes |-> None]
  /\ held = [p \in Processes |-> None]
  /\ ticks = 0
  /\ faults = 0
  /\ early = {}

-----------------------------------------------------------------------------
(* CalibrationHarness.ts and what it takes from the engine.                *)

\* loadVolatilityScale
VolatilityScale == IF scale = None THEN 0 ELSE scale.scale

\* prepareSimJob: the lines are scaled before the baseline is simulated, and
\* what is stored of them is scaled.
preparedSpec ==
  [day |-> day,
   prediction |-> [week |-> yahooWeek, banked |-> day % DaysPerWeek,
                   volatility |-> VolatilityScale]]

\* Variant the checks must reject: the newest spec, whatever its date.
NewestSpec(d) == spec

\* The row under simSpecKey of a date.
specOf(d) == IF spec # None /\ spec.day = d THEN spec ELSE None

\* buildRetrospective
buildRetrospective(s) == [prediction |-> s.prediction, closed |-> FALSE]

isClosedOut(retro) == retro # None /\ retro.closed

\* Variant the checks must reject: open weeks count.
AnyWeek(table) == {w \in Weeks : table[w] # None}

closedWeeks(table) == {w \in Weeks : isClosedOut(table[w])}

\* sweepCoefficient re-simulates the stored lines, whose volatility it
\* multiplies, at the stored seed and without banked totals.
Resimulated(prediction, value) ==
  [prediction EXCEPT !.banked = 0, !.volatility = @ + value]

\* The Brier score grows with the distance between the volatility simulated
\* and the volatility of the league (mathematics of the engine, not modelled).
Brier(volatility) ==
  NoiseFloor + (volatility - TrueVolatility) * (volatility - TrueVolatility)

sweep(table, value) ==
  MapThenSumSet(LAMBDA w : Brier(Resimulated(table[w].prediction, value).volatility),
                closedWeeks(table))

\* The first of the values with the lowest score.
bestValue(table) ==
  LET least == Min({sweep(table, v) : v \in Scales})
  IN  Values[SelectInSeq(Values, LAMBDA v : sweep(table, v) = least)]

\* Variant the checks must reject: the gain is compounded and has no limits.
CompoundedUpdate(table) ==
  LET best == bestValue(table)
  IN  IF Cardinality(closedWeeks(table)) < MinWeeks \/ best = 0
        THEN None
        ELSE [scale |-> VolatilityScale + best, weeks |-> Cardinality(closedWeeks(table))]

\* computeVolatilityScaleUpdate: the values lie within the limits of the scale.
computeUpdate(table) ==
  LET weeks    == Cardinality(closedWeeks(table))
      baseline == sweep(table, 0)
      best     == bestValue(table)
  IN  IF weeks < MinWeeks \/ 20 * (baseline - sweep(table, best)) < baseline
        THEN None
        ELSE [scale |-> best, weeks |-> weeks]

-----------------------------------------------------------------------------
(* Steps of a process.                                                     *)

\* The parts in their order: dispatchRoutine, and calibrationBestEffort.
After(p, part) ==
  IF p = "tick"
    THEN CASE part = "record" -> "closeOut" [] part = "closeOut" -> "idle"
    ELSE CASE part = "closeOut" -> "sweep" [] part = "sweep" -> "record"
           [] part = "record" -> "idle"

Goto(p, from, to) ==
  /\ pc[p] = from
  /\ pc' = [pc EXCEPT ![p] = to]

Leaves(p, from, to) ==
  /\ Goto(p, from, to)
  /\ week' = [week EXCEPT ![p] = None]
  /\ held' = [held EXCEPT ![p] = None]

\* The scheduler's task of the tick may have built the spec or sent the day's
\* briefing, or neither.
TickStarts ==
  /\ ~night
  /\ ticks < TicksPerDay
  /\ ticks' = ticks + 1
  /\ \E next \in {"build", "record"} : Goto("tick", "idle", next)
  /\ sentOn' \in {sentOn, day}
  /\ UNCHANGED <<day, night, yahooWeek, spec, retros, scale, week, held, faults, early>>

RunStarts ==
  /\ night => NightRuns
  /\ sentOn # day
  /\ Goto("run", "idle", "build")
  /\ early' = early \cup ({WeekOf(day)} \ {yahooWeek})
  /\ UNCHANGED <<clock, store, week, held, faults>>

Build(p) ==
  /\ Goto(p, "build", "putSpec")
  /\ held' = [held EXCEPT ![p] = preparedSpec]
  /\ UNCHANGED <<clock, store, week, faults, early>>

PutSpec(p) ==
  /\ Leaves(p, "putSpec", IF p = "tick" THEN "record" ELSE "deliver")
  /\ spec' = held[p]
  /\ UNCHANGED <<clock, retros, scale, sentOn, faults, early>>

\* The run calibrates only after it sent the briefing itself.
Deliver ==
  /\ Goto("run", "deliver", "closeOut")
  /\ sentOn' = day
  /\ UNCHANGED <<clock, spec, retros, scale, week, held, faults, early>>

\* recordCurrentWeekPrediction: the snapshot, then the spec of the date.
RecordSnapshot(p) ==
  /\ Goto(p, "record", "recordSpec")
  /\ week' = [week EXCEPT ![p] = yahooWeek]
  /\ UNCHANGED <<clock, store, held, faults, early>>

RecordFinds(p, stored) ==
  /\ stored # None
  /\ Goto(p, "recordSpec", "upsert")
  /\ held' = [held EXCEPT ![p] = buildRetrospective(stored)]
  /\ UNCHANGED <<clock, store, week, faults, early>>

RecordFindsNone(p, stored) ==
  /\ stored = None
  /\ Leaves(p, "recordSpec", After(p, "record"))
  /\ UNCHANGED <<clock, store, faults, early>>

RecordSpec(p) == RecordFinds(p, specOf(day)) \/ RecordFindsNone(p, specOf(day))

\* record: the upsert.
Upsert(p) ==
  /\ Leaves(p, "upsert", After(p, "record"))
  /\ retros' = [retros EXCEPT ![week[p]] = held[p]]
  /\ UNCHANGED <<clock, spec, scale, sentOn, faults, early>>

\* Variant the checks must reject: the week that is being played.
ThisWeek(w) == w

\* closeOutPreviousWeek: the snapshot, the guards, then Yahoo's totals.
previousWeek(w) == w - 1

CloseOutSnapshot(p) ==
  /\ Goto(p, "closeOut", "closeOutLoad")
  /\ week' = [week EXCEPT ![p] = previousWeek(yahooWeek)]
  /\ UNCHANGED <<clock, store, held, faults, early>>

\* Variant the checks must reject: the first week is left out.
CloseableLater(w) == w > 1 /\ retros[w] # None /\ ~isClosedOut(retros[w])

Closeable(w) == w >= 1 /\ retros[w] # None /\ ~isClosedOut(retros[w])

CloseOutBegins(p, w) ==
  /\ Closeable(w)
  /\ Goto(p, "closeOutLoad", "totals")
  /\ UNCHANGED <<clock, store, week, held, faults, early>>

CloseOutNeedless(p, w) ==
  /\ ~Closeable(w)
  /\ Leaves(p, "closeOutLoad", After(p, "closeOut"))
  /\ UNCHANGED <<clock, store, faults, early>>

CloseOutLoad(p) ==
  pc[p] = "closeOutLoad" /\ (CloseOutBegins(p, week[p]) \/ CloseOutNeedless(p, week[p]))

\* Yahoo answers with the totals of the week.
Totals(p) ==
  /\ Goto(p, "totals", "reload")
  /\ UNCHANGED <<clock, store, week, held, faults, early>>

\* harness.closeOut loads the week again and adds the outcomes to it.
Reload(p) ==
  /\ Goto(p, "reload", "upsertClosed")
  /\ held' = [held EXCEPT ![p] = [retros[week[p]] EXCEPT !.closed = TRUE]]
  /\ UNCHANGED <<clock, store, week, faults, early>>

UpsertClosed(p) ==
  /\ Leaves(p, "upsertClosed", After(p, "closeOut"))
  /\ retros' = [retros EXCEPT ![week[p]] = held[p]]
  /\ UNCHANGED <<clock, spec, scale, sentOn, faults, early>>

\* sweepAndPersistVolatilityScale
SweepFinds(update) ==
  /\ update # None
  /\ Goto("run", "sweep", "putScale")
  /\ held' = [held EXCEPT !["run"] = update]
  /\ UNCHANGED <<clock, store, week, faults, early>>

SweepFindsNone(update) ==
  /\ update = None
  /\ Goto("run", "sweep", After("run", "sweep"))
  /\ UNCHANGED <<clock, store, week, held, faults, early>>

Sweep == pc["run"] = "sweep" /\ LET update == computeUpdate(retros)
                                IN  SweepFinds(update) \/ SweepFindsNone(update)

PutScale ==
  /\ Leaves("run", "putScale", After("run", "sweep"))
  /\ scale' = held["run"]
  /\ UNCHANGED <<clock, spec, retros, sentOn, faults, early>>

-----------------------------------------------------------------------------
(* Faults and the calendar.                                                *)

\* The part of the loop a process is in, if any.
Part(at) ==
  CASE at \in {"record", "recordSpec", "upsert"} -> "record"
    [] at \in {"closeOut", "closeOutLoad", "totals", "reload", "upsertClosed"} -> "closeOut"
    [] at \in {"sweep", "putScale"} -> "sweep"
    [] OTHER -> None

Fault == faults < MaxFaults /\ faults' = faults + 1

\* An error, or an answer of Yahoo's without the week's totals: the part is
\* left and the next one begins.
Fails(p) ==
  /\ Fault
  /\ Part(pc[p]) # None
  /\ Leaves(p, pc[p], After(p, Part(pc[p])))
  /\ UNCHANGED <<clock, store, early>>

Dies(p) ==
  /\ Fault
  /\ pc[p] # "idle"
  /\ Leaves(p, pc[p], "idle")
  /\ UNCHANGED <<clock, store, early>>

AllIdle == \A p \in Processes : pc[p] = "idle"

\* Midnight: no tick comes late and no run lasts long enough to be at work.
\* A day without a tick is a fault.
NextDay ==
  /\ ~night
  /\ AllIdle
  /\ IF ticks = 0 THEN Fault ELSE UNCHANGED faults
  /\ day + 1 \in Days
  /\ day' = day + 1
  /\ night' = TRUE
  /\ ticks' = 0
  /\ UNCHANGED <<yahooWeek, store, memory, early>>

YahooTurns ==
  /\ night
  /\ yahooWeek # WeekOf(day)
  /\ yahooWeek' = WeekOf(day)
  /\ UNCHANGED <<day, night, ticks, store, memory, faults, early>>

Morning ==
  /\ night
  /\ yahooWeek = WeekOf(day)
  /\ AllIdle
  /\ night' = FALSE
  /\ UNCHANGED <<day, yahooWeek, ticks, store, memory, faults, early>>

Step(p) ==
  \/ Build(p) \/ PutSpec(p)
  \/ RecordSnapshot(p) \/ RecordSpec(p) \/ Upsert(p)
  \/ CloseOutSnapshot(p) \/ CloseOutLoad(p) \/ Totals(p) \/ Reload(p) \/ UpsertClosed(p)

Calendar == NextDay \/ YahooTurns \/ Morning

Next ==
  \/ TickStarts \/ RunStarts
  \/ \E p \in Processes : Step(p) \/ Fails(p) \/ Dies(p)
  \/ Deliver \/ Sweep \/ PutScale
  \/ Calendar

Spec == Init /\ [][Next]_vars

\* Cron starts a tick, what has begun goes on, and time passes; no run is
\* certain to start or to be spared.
Fairness ==
  /\ WF_vars(TickStarts) /\ WF_vars(Calendar)
  /\ \A p \in Processes : WF_vars(Step(p))
  /\ WF_vars(Deliver) /\ WF_vars(Sweep) /\ WF_vars(PutScale)

LiveSpec == Spec /\ Fairness

-----------------------------------------------------------------------------
(* Properties.                                                             *)

\* The rows and memories have their types.
TypeOK ==
  /\ day \in Days /\ night \in BOOLEAN /\ yahooWeek \in Weeks
  /\ spec \in Specs \cup {None}
  /\ retros \in [Weeks -> Retros \cup {None}]
  /\ scale \in [scale : Scales, weeks : 0 .. LastWeek] \cup {None}
  /\ sentOn \in Days \cup {None}
  /\ week \in [Processes -> 0 .. LastWeek \cup {None}]
  /\ \A p \in Processes :
       /\ pc[p] = "putSpec" => held[p] \in Specs
       /\ pc[p] \in {"upsert", "upsertClosed"} => held[p] \in Retros
  /\ pc["run"] = "putScale" => held["run"] \in [scale : Scales, weeks : Weeks]
  /\ ticks \in 0 .. TicksPerDay
  /\ faults \in 0 .. MaxFaults
  /\ early \in SUBSET Weeks

\* Book: however ticks and runs overlap, fail and end, a week is recorded by who
\* began while it was played, closed in the week after it with the prediction it
\* had then, never written again, and never left open (calibration.ts;
\* CalibrationHarness.closeOut).
Page(retro) ==
  CASE retro = None -> None
    [] isClosedOut(retro) -> [state |-> "closed", prediction |-> retro.prediction]
    [] OTHER -> [state |-> "open", prediction |-> retro.prediction]

BookPages == [state : {"open", "closed"}, prediction : Predictions]

ASSUME BlankIsNoPage == None \notin BookPages

Book == INSTANCE WeeklyBook WITH
  current <- yahooWeek, book <- [w \in Weeks |-> Page(retros[w])], Blank <- None

BookKept == Book!Spec

\* The prediction recorded for a week was simulated from that week's matchup
\* (calibration.ts:20-22), although recordCurrentWeekPrediction joins the spec of a
\* date with a week it reads apart; except that a run of the night in which the
\* week begins may find Yahoo still at the week before.
PredictionOfItsWeek ==
  \A w \in Weeks \ early : retros[w] # None => retros[w].prediction.week = w

\* A scale on record rests on MinWeeks weeks or more, and on no week that is not
\* closed now: what the sweep loaded and what it stored later agree.
ScaleIsEarned ==
  scale # None =>
    /\ scale.weeks >= MinWeeks
    /\ scale.weeks <= Cardinality({w \in Weeks : isClosedOut(retros[w])})

\* A recorded week is closed, unless it is the last of the season: no overlap and no
\* fault of a day leaves it open for good.
RecordedWeekCloses ==
  \A w \in Weeks \ {LastWeek} : retros[w] # None ~> isClosedOut(retros[w])

\* docs/engine-followups.md:148-149, the sweep "re-simulates stored weeks under a
\* global multiplier and returns the Brier-minimizing value": no other value of the
\* scale would have fitted the closed weeks, simulated with it, better than the one
\* that is put.
ScaleFitsTheWeeks ==
  [][PutScale =>
       LET Misfit(value) == MapThenSumSet(LAMBDA w : Brier(value), closedWeeks(retros))
       IN  \A v \in Scales : Misfit(scale'.scale) <= Misfit(v)]_vars
=============================================================================
