--------------------------- MODULE CalibrationProofs ---------------------------
(***************************************************************************)
(* Proofs that a week's page holds the prediction of that week, although a *)
(* spec is found by its date and joined with a week that is read apart;    *)
(* and that ticks and runs, however they overlap and fail, keep the weekly *)
(* book and put no scale that the closed weeks have not earned.            *)
(***************************************************************************)
EXTENDS Calibration, FoldLemmas

(***************************************************************************)
(* The inductive invariant.  By day Yahoo's week is the calendar's, so     *)
(* that whatever is under way is about that week.  By night only a run can *)
(* be at work, and its date's spec may be about the week before; if it     *)
(* began before Yahoo turned, the week is among those that are "early".    *)
(***************************************************************************)

Places ==
  {"idle", "build", "putSpec", "deliver", "record", "recordSpec", "upsert", "closeOut",
   "closeOutLoad", "totals", "reload", "upsertClosed", "sweep", "putScale"}

Shape ==
  /\ pc \in [Processes -> Places]
  /\ pc["tick"] \notin {"deliver", "sweep", "putScale"}
  /\ week = [p \in Processes |-> week[p]]
  /\ held = [p \in Processes |-> held[p]]
  /\ retros = [w \in Weeks |-> retros[w]]
  /\ day \in Int

Turned == yahooWeek = WeekOf(day)

Nights ==
  /\ ~night => Turned
  /\ night => pc["tick"] = "idle"
  /\ pc["run"] # "idle" /\ ~Turned => WeekOf(day) \in early

Right(w, prediction) == prediction.week = w \/ w \in early

\* A spec of the day is about the week Yahoo is at, or was built before it turned.
OfTheDay(s) ==
  /\ s.prediction.week = yahooWeek \/ (Turned /\ yahooWeek \in early)
  /\ ~Turned => WeekOf(day) \in early

SpecIsOfItsDay ==
  spec # None => spec.day <= day /\ spec.day \in Int /\ (spec.day = day => OfTheDay(spec))

Recorded(w, retro) ==
  /\ retro = [prediction |-> retro.prediction, closed |-> retro.closed]
  /\ Right(w, retro.prediction)

Memory(p) ==
  /\ pc[p] = "putSpec" => held[p].day = day /\ OfTheDay(held[p])
  /\ pc[p] = "recordSpec" =>
       /\ ~night => week[p] = yahooWeek
       /\ spec # None /\ spec.day = day => Right(week[p], spec.prediction)
  /\ pc[p] = "upsert" => Recorded(week[p], held[p])
  /\ pc[p] \in {"totals", "reload"} /\ week[p] \in Weeks => Recorded(week[p], retros[week[p]])
  /\ pc[p] = "upsertClosed" /\ week[p] \in Weeks => Recorded(week[p], held[p])

Table == \A w \in Weeks : retros[w] = None \/ Recorded(w, retros[w])

IInv == Shape /\ Nights /\ SpecIsOfItsDay /\ (\A p \in Processes : Memory(p)) /\ Table

-----------------------------------------------------------------------------

LEMMA InitIInv == Init => IInv
<1> SUFFICES ASSUME Init PROVE IInv
  OBVIOUS
<1>1. Turned
  <2>1. 0 \div DaysPerWeek = 0
    BY ParametersAssumption
  <2> QED
    BY <2>1 DEF Init, Turned, WeekOf
<1>2. Shape
  BY DEF Init, Shape, Places, Processes
<1> QED
  BY <1>1, <1>2 DEF Init, IInv, Nights, SpecIsOfItsDay, Memory, Table, Processes

\* A process that does not act keeps what it knows, while the calendar and both rows stay.
LEMMA OthersRemember ==
  ASSUME NEW q \in Processes, Memory(q),
         pc'[q] = pc[q], week'[q] = week[q], held'[q] = held[q],
         UNCHANGED <<day, night, yahooWeek, spec, retros>>, early \subseteq early'
  PROVE  Memory(q)'
BY DEF Memory, OfTheDay, Turned, Recorded, Right, WeekOf

\* A step of one process that leaves the calendar and both rows alone.
LEMMA QuietStep ==
  ASSUME IInv, NEW p \in Processes, NEW to \in Places,
         p = "tick" => to \notin {"deliver", "sweep", "putScale"},
         pc[p] # "idle", pc' = [pc EXCEPT ![p] = to],
         \E x : week' = [week EXCEPT ![p] = x],
         \E x : held' = [held EXCEPT ![p] = x],
         UNCHANGED <<clock, spec, retros, early>>,
         Memory(p)'
  PROVE  IInv'
<1>1. Shape'
  BY DEF IInv, Shape, Processes, clock
<1>2. Nights'
  BY DEF IInv, Shape, Nights, Turned, WeekOf, Processes, clock
<1>3. ASSUME NEW q \in Processes, q # p
      PROVE  Memory(q)'
  <2>1. pc'[q] = pc[q] /\ week'[q] = week[q] /\ held'[q] = held[q]
    BY <1>3 DEF IInv, Shape
  <2> QED
    BY <2>1, OthersRemember DEF IInv, clock
<1>4. SpecIsOfItsDay' /\ Table'
  BY DEF IInv, SpecIsOfItsDay, Table, OfTheDay, Turned, Recorded, Right, WeekOf, clock
<1> QED
  BY <1>1, <1>2, <1>3, <1>4 DEF IInv

\* A process writes a page of which it holds what may be recorded.
LEMMA TableWrite ==
  ASSUME IInv, NEW p \in Processes, NEW to \in Places,
         to \notin {"deliver", "putScale"} /\ (p = "tick" => to # "sweep"),
         pc[p] # "idle", Leaves(p, pc[p], to),
         retros' = [retros EXCEPT ![week[p]] = held[p]],
         week[p] \in Weeks => Recorded(week[p], held[p]),
         UNCHANGED <<clock, spec, early>>,
         to \in {"record", "closeOut", "sweep", "idle"}
  PROVE  IInv'
<1>1. Shape'
  BY DEF IInv, Shape, Processes, clock, Leaves, Goto
<1>2. Nights'
  BY DEF IInv, Shape, Nights, Turned, WeekOf, Processes, clock, Leaves, Goto
<1>3. \A w \in Weeks : Recorded(w, retros[w]) => Recorded(w, retros'[w])
  BY DEF IInv, Shape
<1>4. ASSUME NEW q \in Processes PROVE Memory(q)'
  <2>1. CASE q = p
    BY <2>1 DEF IInv, Shape, Memory, Leaves, Goto
  <2>2. CASE q # p
    <3>1. pc'[q] = pc[q] /\ week'[q] = week[q] /\ held'[q] = held[q] /\ Memory(q)
      BY <2>2 DEF IInv, Shape, Leaves, Goto
    <3>2. pc'[q] \in {"totals", "reload"} /\ week'[q] \in Weeks =>
            Recorded(week'[q], retros'[week'[q]])
      BY <1>3, <3>1 DEF Memory
    <3> QED
      BY <3>1, <3>2 DEF Memory, OfTheDay, Turned, Recorded, Right, WeekOf, clock
  <2> QED
    BY <2>1, <2>2
<1>5. SpecIsOfItsDay'
  BY DEF IInv, SpecIsOfItsDay, OfTheDay, Turned, WeekOf, clock
<1>6. Table'
  <2>1. \A w \in Weeks : retros'[w] = None \/ Recorded(w, retros'[w])
    BY DEF IInv, Shape, Table
  <2> QED
    BY <2>1 DEF Table, Recorded, Right
<1> QED
  BY <1>1, <1>2, <1>4, <1>5, <1>6 DEF IInv

-----------------------------------------------------------------------------
(* The steps of a process.                                                 *)

LEMMA AfterParts ==
  /\ After("tick", "record") = "closeOut" /\ After("tick", "closeOut") = "idle"
  /\ After("run", "closeOut") = "sweep" /\ After("run", "sweep") = "record"
  /\ After("run", "record") = "idle"
BY DEF After

LEMMA TickBegins == IInv /\ TickStarts => IInv'
<1> SUFFICES ASSUME IInv, TickStarts PROVE IInv'
  OBVIOUS
<1>1. PICK next \in {"build", "record"} : Goto("tick", "idle", next)
  BY DEF TickStarts
<1>2. UNCHANGED <<day, night, yahooWeek, spec, retros, week, held, early>> /\ ~night
  BY DEF TickStarts
<1>3. Shape' /\ Nights'
  BY <1>1, <1>2 DEF IInv, Shape, Nights, Turned, WeekOf, Goto, Places, Processes
<1>4. Memory("tick")'
  BY <1>1 DEF Memory, Goto, IInv, Shape, Processes
<1>5. Memory("run")'
  BY <1>1, <1>2, OthersRemember DEF IInv, Shape, Goto, Processes
<1>6. SpecIsOfItsDay' /\ Table'
  BY <1>2 DEF IInv, SpecIsOfItsDay, Table, OfTheDay, Turned, Recorded, Right, WeekOf
<1> QED
  BY <1>3, <1>4, <1>5, <1>6 DEF IInv, Processes

LEMMA RunBegins == IInv /\ RunStarts => IInv'
<1> SUFFICES ASSUME IInv, RunStarts PROVE IInv'
  OBVIOUS
<1>1. /\ Goto("run", "idle", "build")
      /\ early' = early \cup ({WeekOf(day)} \ {yahooWeek})
      /\ UNCHANGED <<day, night, yahooWeek, spec, retros, week, held>>
  BY DEF RunStarts, clock, store
<1>2. Shape' /\ Nights'
  BY <1>1 DEF IInv, Shape, Nights, Turned, WeekOf, Goto, Places, Processes
<1>3. Memory("run")'
  BY <1>1 DEF Memory, Goto, IInv, Shape, Processes
<1>4. Memory("tick")'
  BY <1>1, OthersRemember DEF IInv, Shape, Goto, Processes
<1>5. SpecIsOfItsDay' /\ Table'
  BY <1>1 DEF IInv, SpecIsOfItsDay, Table, OfTheDay, Turned, Recorded, Right, WeekOf
<1> QED
  BY <1>2, <1>3, <1>4, <1>5 DEF IInv, Processes

\* Processes that are not idle by night, before Yahoo turned, are runs that are early.
LEMMA OnlyEarlyRuns ==
  ASSUME IInv, NEW p \in Processes, pc[p] # "idle", ~Turned
  PROVE  p = "run" /\ WeekOf(day) \in early
BY DEF IInv, Nights, Processes

LEMMA BuildStep ==
  ASSUME IInv, NEW p \in Processes, Build(p)
  PROVE  IInv'
<1>1. UNCHANGED <<clock, spec, retros, early, week>>
  BY DEF Build, store
<1>2. held'[p] = preparedSpec /\ pc'[p] = "putSpec"
  BY DEF Build, Goto, IInv, Shape
<1>3. preparedSpec.day = day /\ preparedSpec.prediction.week = yahooWeek
  BY DEF preparedSpec
<1>4. ~Turned => WeekOf(day) \in early
  BY OnlyEarlyRuns DEF Build, Goto
<1>5. Memory(p)'
  <2>1. OfTheDay(preparedSpec)
    BY <1>3, <1>4 DEF OfTheDay
  <2>2. held'[p].day = day' /\ OfTheDay(held[p])'
    BY <1>1, <1>2, <1>3, <2>1 DEF OfTheDay, Turned, WeekOf, clock
  <2> QED
    BY <1>2, <2>2 DEF Memory
<1>6. (\E x : week' = [week EXCEPT ![p] = x]) /\ (\E x : held' = [held EXCEPT ![p] = x])
  BY <1>1 DEF Build, IInv, Shape
<1> QED
  BY <1>1, <1>5, <1>6, QuietStep DEF Build, Goto, Places

LEMMA PutSpecStep ==
  ASSUME IInv, NEW p \in Processes, PutSpec(p)
  PROVE  IInv'
<1>1. /\ UNCHANGED <<day, night, yahooWeek, retros, early>>
      /\ spec' = held[p] /\ pc[p] = "putSpec"
      /\ pc' = [pc EXCEPT ![p] = IF p = "tick" THEN "record" ELSE "deliver"]
      /\ week' = [week EXCEPT ![p] = None] /\ held' = [held EXCEPT ![p] = None]
  BY DEF PutSpec, Leaves, Goto, clock
<1>2. held[p].day = day /\ OfTheDay(held[p])
  BY <1>1 DEF IInv, Memory
<1>3. Shape' /\ Nights'
  BY <1>1 DEF IInv, Shape, Nights, Turned, WeekOf, Places, Processes
<1>4. SpecIsOfItsDay' /\ Table'
  BY <1>1, <1>2 DEF IInv, Shape, SpecIsOfItsDay, Table, OfTheDay, Turned, Recorded, Right, WeekOf
<1>5. ASSUME NEW q \in Processes PROVE Memory(q)'
  <2>1. CASE q = p
    BY <1>1, <2>1 DEF IInv, Shape, Memory
  <2>2. CASE q # p
    <3>1. pc'[q] = pc[q] /\ week'[q] = week[q] /\ held'[q] = held[q] /\ Memory(q)
      BY <1>1, <2>2 DEF IInv, Shape
    <3>2. pc[q] = "recordSpec" => week[q] = yahooWeek /\ Turned
      <4>1. pc[q] # "idle" => ~night
        BY <1>1, <2>2 DEF IInv, Nights, Processes
      <4> QED
        BY <3>1, <4>1 DEF Memory, IInv, Nights
    <3>3. pc[q] = "recordSpec" => Right(week[q], held[p].prediction)
      BY <1>2, <3>2 DEF Right, OfTheDay
    <3> QED
      BY <1>1, <3>1, <3>2, <3>3 DEF Memory, OfTheDay, Turned, Recorded, Right, WeekOf
  <2> QED
    BY <2>1, <2>2
<1> QED
  BY <1>3, <1>4, <1>5 DEF IInv

LEMMA DeliverStep == IInv /\ Deliver => IInv'
<1> SUFFICES ASSUME IInv, Deliver PROVE IInv'
  OBVIOUS
<1>1. pc["run"] = "deliver" /\ pc' = [pc EXCEPT !["run"] = "closeOut"]
      /\ UNCHANGED <<clock, spec, retros, early, week, held>>
  BY DEF Deliver, Goto
<1>2. Memory("run")'
  BY <1>1 DEF Memory, IInv, Shape, Processes
<1>3. (\E x : week' = [week EXCEPT !["run"] = x]) /\ (\E x : held' = [held EXCEPT !["run"] = x])
  BY <1>1 DEF IInv, Shape, Processes
<1> QED
  BY <1>1, <1>2, <1>3, QuietStep DEF Places, Processes

LEMMA RecordSnapshotStep ==
  ASSUME IInv, NEW p \in Processes, RecordSnapshot(p)
  PROVE  IInv'
<1>1. /\ pc[p] = "record" /\ pc' = [pc EXCEPT ![p] = "recordSpec"]
      /\ week' = [week EXCEPT ![p] = yahooWeek]
      /\ UNCHANGED <<clock, spec, retros, early, held>>
  BY DEF RecordSnapshot, Goto, store
<1>2. pc'[p] = "recordSpec" /\ week'[p] = yahooWeek
  BY <1>1 DEF IInv, Shape
<1>3. spec # None /\ spec.day = day => Right(yahooWeek, spec.prediction)
  BY DEF IInv, SpecIsOfItsDay, OfTheDay, Right
<1>4. Memory(p)'
  BY <1>1, <1>2, <1>3 DEF Memory, Right, clock
<1>5. \E x : held' = [held EXCEPT ![p] = x]
  BY <1>1 DEF IInv, Shape
<1> QED
  BY <1>1, <1>4, <1>5, QuietStep DEF Places

LEMMA RecordFindsStep ==
  ASSUME IInv, NEW p \in Processes, RecordFinds(p, specOf(day))
  PROVE  IInv'
<1>1. /\ pc[p] = "recordSpec" /\ pc' = [pc EXCEPT ![p] = "upsert"]
      /\ held' = [held EXCEPT ![p] = buildRetrospective(spec)]
      /\ spec # None /\ spec.day = day
      /\ UNCHANGED <<clock, spec, retros, early, week>>
  BY DEF RecordFinds, Goto, store, specOf
<1>2. Right(week[p], spec.prediction)
  BY <1>1 DEF IInv, Memory
<1>3. pc'[p] = "upsert" /\ held'[p] = buildRetrospective(spec) /\ week'[p] = week[p]
  BY <1>1 DEF IInv, Shape
<1>4. Recorded(week[p], buildRetrospective(spec))
  BY <1>2 DEF Recorded, buildRetrospective
<1>5. Memory(p)'
  BY <1>1, <1>3, <1>4 DEF Memory, Recorded, Right
<1>6. \E x : week' = [week EXCEPT ![p] = x]
  BY <1>1 DEF IInv, Shape
<1> QED
  BY <1>1, <1>5, <1>6, QuietStep DEF Places

\* A process leaves a part with nothing to write.
LEMMA LeavesPart ==
  ASSUME IInv, NEW p \in Processes, pc[p] # "idle",
         NEW to \in {"idle", "record", "closeOut", "sweep"},
         p = "tick" => to # "sweep",
         Leaves(p, pc[p], to), UNCHANGED <<clock, spec, retros, early>>
  PROVE  IInv'
<1>1. /\ pc' = [pc EXCEPT ![p] = to]
      /\ week' = [week EXCEPT ![p] = None] /\ held' = [held EXCEPT ![p] = None]
  BY DEF Leaves, Goto
<1>2. Memory(p)'
  BY <1>1 DEF IInv, Shape, Memory
<1> QED
  BY <1>1, <1>2, QuietStep DEF Places

\* Where a process goes after a part it is in.
LEMMA AfterIsPlace ==
  ASSUME NEW p \in Processes
  PROVE  /\ After(p, "record") \in {"closeOut", "idle"}
         /\ After(p, "closeOut") \in {"idle", "sweep"}
         /\ p = "tick" => After(p, "closeOut") = "idle"
BY AfterParts DEF Processes

LEMMA RecordFindsNoneStep ==
  ASSUME IInv, NEW p \in Processes, RecordFindsNone(p, specOf(day))
  PROVE  IInv'
<1>1. pc[p] = "recordSpec" /\ Leaves(p, pc[p], After(p, "record"))
      /\ UNCHANGED <<clock, spec, retros, early>>
  BY DEF RecordFindsNone, Leaves, Goto, store
<1> QED
  BY <1>1, AfterIsPlace, LeavesPart

LEMMA UpsertStep ==
  ASSUME IInv, NEW p \in Processes, Upsert(p)
  PROVE  IInv'
<1>1. /\ pc[p] = "upsert" /\ Leaves(p, pc[p], After(p, "record"))
      /\ retros' = [retros EXCEPT ![week[p]] = held[p]]
      /\ UNCHANGED <<clock, spec, early>>
  BY DEF Upsert, Leaves, Goto
<1>2. Recorded(week[p], held[p])
  BY <1>1 DEF IInv, Memory
<1>3. /\ After(p, "record") \in Places \ {"deliver", "putScale"}
      /\ p = "tick" => After(p, "record") # "sweep"
      /\ After(p, "record") \in {"record", "closeOut", "sweep", "idle"}
  BY AfterIsPlace DEF Places
<1> QED
  BY <1>1, <1>2, <1>3, TableWrite

LEMMA CloseOutSnapshotStep ==
  ASSUME IInv, NEW p \in Processes, CloseOutSnapshot(p)
  PROVE  IInv'
<1>1. /\ pc[p] = "closeOut" /\ pc' = [pc EXCEPT ![p] = "closeOutLoad"]
      /\ week' = [week EXCEPT ![p] = previousWeek(yahooWeek)]
      /\ UNCHANGED <<clock, spec, retros, early, held>>
  BY DEF CloseOutSnapshot, Goto, store
<1>2. Memory(p)'
  BY <1>1 DEF IInv, Shape, Memory
<1>3. \E x : held' = [held EXCEPT ![p] = x]
  BY <1>1 DEF IInv, Shape
<1> QED
  BY <1>1, <1>2, <1>3, QuietStep DEF Places

LEMMA CloseOutLoadStep ==
  ASSUME IInv, NEW p \in Processes, CloseOutLoad(p)
  PROVE  IInv'
<1>1. CASE CloseOutBegins(p, week[p])
  <2>1. /\ pc[p] = "closeOutLoad" /\ pc' = [pc EXCEPT ![p] = "totals"]
        /\ retros[week[p]] # None
        /\ UNCHANGED <<clock, spec, retros, early, week, held>>
    BY <1>1 DEF CloseOutBegins, Closeable, Goto, store
  <2>2. pc'[p] = "totals" /\ week'[p] = week[p] /\ retros' = retros
    BY <2>1 DEF IInv, Shape
  <2>3. week[p] \in Weeks => Recorded(week[p], retros[week[p]])
    BY <2>1 DEF IInv, Table
  <2>4. Memory(p)'
    BY <2>1, <2>2, <2>3 DEF Memory, Recorded, Right
  <2>5. (\E x : week' = [week EXCEPT ![p] = x]) /\ (\E x : held' = [held EXCEPT ![p] = x])
    BY <2>1 DEF IInv, Shape
  <2> QED
    BY <2>1, <2>4, <2>5, QuietStep DEF Places
<1>2. CASE CloseOutNeedless(p, week[p])
  <2>1. pc[p] = "closeOutLoad" /\ Leaves(p, pc[p], After(p, "closeOut"))
        /\ UNCHANGED <<clock, spec, retros, early>>
    BY <1>2 DEF CloseOutNeedless, Leaves, Goto, store
  <2> QED
    BY <2>1, AfterIsPlace, LeavesPart
<1> QED
  BY <1>1, <1>2 DEF CloseOutLoad

LEMMA TotalsStep ==
  ASSUME IInv, NEW p \in Processes, Totals(p)
  PROVE  IInv'
<1>1. /\ pc[p] = "totals" /\ pc' = [pc EXCEPT ![p] = "reload"]
      /\ UNCHANGED <<clock, spec, retros, early, week, held>>
  BY DEF Totals, Goto, store
<1>2. pc'[p] = "reload"
  BY <1>1 DEF IInv, Shape
<1>3. Memory(p)'
  BY <1>1, <1>2 DEF IInv, Memory, Recorded, Right
<1>4. (\E x : week' = [week EXCEPT ![p] = x]) /\ (\E x : held' = [held EXCEPT ![p] = x])
  BY <1>1 DEF IInv, Shape
<1> QED
  BY <1>1, <1>3, <1>4, QuietStep DEF Places

\* Closing a page leaves its prediction.
LEMMA ClosedPage ==
  ASSUME NEW retro, retro = [prediction |-> retro.prediction, closed |-> retro.closed]
  PROVE  [retro EXCEPT !.closed = TRUE] = [prediction |-> retro.prediction, closed |-> TRUE]
<1> DEFINE Pages == [prediction : {retro.prediction}, closed : {retro.closed, TRUE}]
<1>1. retro \in Pages
  OBVIOUS
<1>2. [retro EXCEPT !.closed = TRUE] \in Pages
  BY <1>1
<1>3. \A page \in Pages : page = [prediction |-> retro.prediction, closed |-> page.closed]
  OBVIOUS
<1>4. [retro EXCEPT !.closed = TRUE].closed = TRUE
  BY <1>1
<1> QED
  BY <1>2, <1>3, <1>4

LEMMA ReloadStep ==
  ASSUME IInv, NEW p \in Processes, Reload(p)
  PROVE  IInv'
<1> DEFINE closed == [retros[week[p]] EXCEPT !.closed = TRUE]
<1>1. /\ pc[p] = "reload" /\ pc' = [pc EXCEPT ![p] = "upsertClosed"]
      /\ held' = [held EXCEPT ![p] = closed]
      /\ UNCHANGED <<clock, spec, retros, early, week>>
  BY DEF Reload, Goto, store
<1>2. pc'[p] = "upsertClosed" /\ held'[p] = closed
  BY <1>1 DEF IInv, Shape
<1>3. week[p] \in Weeks => Recorded(week[p], closed)
  <2>1. week[p] \in Weeks => Recorded(week[p], retros[week[p]])
    BY <1>1 DEF IInv, Memory
  <2>2. week[p] \in Weeks =>
          closed = [prediction |-> retros[week[p]].prediction, closed |-> TRUE]
    BY <2>1, ClosedPage DEF Recorded
  <2> HIDE DEF closed
  <2> QED
    BY <2>1, <2>2 DEF Recorded
<1> HIDE DEF closed
<1>4. Memory(p)'
  BY <1>1, <1>2, <1>3 DEF Memory, Recorded, Right
<1>5. \E x : week' = [week EXCEPT ![p] = x]
  BY <1>1 DEF IInv, Shape
<1> QED
  BY <1>1, <1>4, <1>5, QuietStep DEF Places

LEMMA UpsertClosedStep ==
  ASSUME IInv, NEW p \in Processes, UpsertClosed(p)
  PROVE  IInv'
<1>1. /\ pc[p] = "upsertClosed" /\ Leaves(p, pc[p], After(p, "closeOut"))
      /\ retros' = [retros EXCEPT ![week[p]] = held[p]]
      /\ UNCHANGED <<clock, spec, early>>
  BY DEF UpsertClosed, Leaves, Goto
<1>2. week[p] \in Weeks => Recorded(week[p], held[p])
  BY <1>1 DEF IInv, Memory
<1>3. /\ After(p, "closeOut") \in Places \ {"deliver", "putScale"}
      /\ p = "tick" => After(p, "closeOut") # "sweep"
      /\ After(p, "closeOut") \in {"record", "closeOut", "sweep", "idle"}
  BY AfterIsPlace DEF Places
<1> QED
  BY <1>1, <1>2, <1>3, TableWrite

LEMMA SweepStep == IInv /\ Sweep => IInv'
<1> SUFFICES ASSUME IInv, Sweep PROVE IInv'
  OBVIOUS
<1>1. \E x : held' = [held EXCEPT !["run"] = x]
  <2>1. CASE held' = held
    <3>1. held' = [held EXCEPT !["run"] = held["run"]]
      BY <2>1 DEF IInv, Shape, Processes
    <3> QED
      BY <3>1
  <2>2. CASE held' = [held EXCEPT !["run"] = computeUpdate(retros)]
    BY <2>2
  <2> QED
    BY <2>1, <2>2 DEF Sweep, SweepFinds, SweepFindsNone
<1>2. PICK to \in {"putScale", "record"} :
        /\ pc["run"] = "sweep" /\ pc' = [pc EXCEPT !["run"] = to]
        /\ UNCHANGED <<clock, spec, retros, early, week>>
  BY AfterParts DEF Sweep, SweepFinds, SweepFindsNone, Goto, store
<1>3. Memory("run")'
  BY <1>2 DEF IInv, Shape, Memory, Processes
<1>4. \E x : week' = [week EXCEPT !["run"] = x]
  BY <1>2 DEF IInv, Shape, Processes
<1> QED
  BY <1>1, <1>2, <1>3, <1>4, QuietStep DEF Places, Processes

LEMMA PutScaleStep == IInv /\ PutScale => IInv'
<1> SUFFICES ASSUME IInv, PutScale PROVE IInv'
  OBVIOUS
<1>1. pc["run"] = "putScale" /\ Leaves("run", pc["run"], "record")
      /\ UNCHANGED <<clock, spec, retros, early>>
  BY AfterParts DEF PutScale, Leaves, Goto
<1> QED
  BY <1>1, LeavesPart DEF Processes

LEMMA FailsStep ==
  ASSUME IInv, NEW p \in Processes, Fails(p)
  PROVE  IInv'
<1>1. Leaves(p, pc[p], After(p, Part(pc[p]))) /\ UNCHANGED <<clock, spec, retros, early>>
  BY DEF Fails, store
<1>2. pc[p] # "idle" /\ Part(pc[p]) \in {"record", "closeOut", "sweep"}
      /\ (Part(pc[p]) = "sweep" => p = "run")
  BY DEF Fails, Part, IInv, Shape, Places, Processes
<1>3. After(p, Part(pc[p])) \in {"idle", "record", "closeOut", "sweep"}
      /\ (p = "tick" => After(p, Part(pc[p])) # "sweep")
  BY <1>2, AfterIsPlace, AfterParts
<1> QED
  BY <1>1, <1>2, <1>3, LeavesPart

LEMMA DiesStep ==
  ASSUME IInv, NEW p \in Processes, Dies(p)
  PROVE  IInv'
<1>1. pc[p] # "idle" /\ Leaves(p, pc[p], "idle") /\ UNCHANGED <<clock, spec, retros, early>>
  BY DEF Dies, store
<1> QED
  BY <1>1, LeavesPart

-----------------------------------------------------------------------------
(* The calendar.                                                           *)

LEMMA NextDayStep == IInv /\ NextDay => IInv'
<1> SUFFICES ASSUME IInv, NextDay PROVE IInv'
  OBVIOUS
<1>1. /\ \A p \in Processes : pc[p] = "idle"
      /\ day' = day + 1 /\ night' = TRUE
      /\ UNCHANGED <<yahooWeek, spec, retros, pc, week, held, early>>
  BY DEF NextDay, AllIdle, store, memory
<1>2. Shape' /\ Nights'
  BY <1>1 DEF IInv, Shape, Nights, Processes
<1>3. SpecIsOfItsDay'
  BY <1>1 DEF IInv, SpecIsOfItsDay, Shape
<1>4. (\A p \in Processes : Memory(p))'
  BY <1>1 DEF Memory
<1>5. Table'
  BY <1>1 DEF IInv, Table, Recorded, Right
<1> QED
  BY <1>2, <1>3, <1>4, <1>5 DEF IInv

LEMMA YahooTurnsStep == IInv /\ YahooTurns => IInv'
<1> SUFFICES ASSUME IInv, YahooTurns PROVE IInv'
  OBVIOUS
<1>1. /\ ~Turned /\ night /\ night' = night /\ yahooWeek' = WeekOf(day)
      /\ UNCHANGED <<day, spec, retros, pc, week, held, early>>
  BY DEF YahooTurns, store, memory, Turned
<1>2. yahooWeek' = WeekOf(day)' /\ Turned'
  BY <1>1 DEF Turned, WeekOf
<1>3. Shape' /\ Nights'
  BY <1>1, <1>2 DEF IInv, Shape, Nights
<1>4. SpecIsOfItsDay'
  BY <1>1, <1>2 DEF IInv, SpecIsOfItsDay, OfTheDay
<1>5. ASSUME NEW p \in Processes PROVE Memory(p)'
  <2>1. pc[p] = "putSpec" => OfTheDay(held[p])'
    BY <1>1, <1>2, OnlyEarlyRuns DEF OfTheDay
  <2>2. pc[p] = "putSpec" => held[p].day = day
    BY DEF IInv, Memory
  <2>3. Memory(p)
    BY DEF IInv
  <2> QED
    BY <1>1, <2>1, <2>2, <2>3 DEF Memory, Recorded, Right
<1>6. Table'
  BY <1>1 DEF IInv, Table, Recorded, Right
<1> QED
  BY <1>3, <1>4, <1>5, <1>6 DEF IInv

LEMMA MorningStep == IInv /\ Morning => IInv'
<1> SUFFICES ASSUME IInv, Morning PROVE IInv'
  OBVIOUS
<1>1. /\ Turned /\ \A p \in Processes : pc[p] = "idle"
      /\ UNCHANGED <<day, yahooWeek, spec, retros, pc, week, held, early>>
  BY DEF Morning, store, memory, Turned, AllIdle
<1>2. Shape' /\ Nights'
  BY <1>1 DEF IInv, Shape, Nights, Turned, WeekOf, Processes
<1>3. SpecIsOfItsDay' /\ Table'
  BY <1>1 DEF IInv, SpecIsOfItsDay, Table, OfTheDay, Turned, Recorded, Right, WeekOf
<1>4. (\A p \in Processes : Memory(p))'
  BY <1>1 DEF Memory
<1> QED
  BY <1>2, <1>3, <1>4 DEF IInv

LEMMA StutterStep == IInv /\ UNCHANGED vars => IInv'
<1> SUFFICES ASSUME IInv, UNCHANGED vars PROVE IInv'
  OBVIOUS
<1>1. UNCHANGED <<day, night, yahooWeek, spec, retros, pc, week, held, early>>
  BY DEF vars, clock, store, memory
<1>2. Shape' /\ Nights'
  BY <1>1 DEF IInv, Shape, Nights, Turned, WeekOf
<1>3. SpecIsOfItsDay' /\ Table'
  BY <1>1 DEF IInv, SpecIsOfItsDay, Table, OfTheDay, Turned, Recorded, Right, WeekOf
<1>4. (\A p \in Processes : Memory(p))'
  BY <1>1, OthersRemember DEF IInv
<1> QED
  BY <1>2, <1>3, <1>4 DEF IInv

-----------------------------------------------------------------------------

LEMMA NextIInv == IInv /\ [Next]_vars => IInv'
<1> SUFFICES ASSUME IInv, [Next]_vars PROVE IInv'
  OBVIOUS
<1>1. CASE TickStarts \/ RunStarts
  BY <1>1, TickBegins, RunBegins
<1>2. ASSUME NEW p \in Processes, Step(p)
      PROVE  IInv'
  BY <1>2, BuildStep, PutSpecStep, RecordSnapshotStep, RecordFindsStep, RecordFindsNoneStep,
     UpsertStep, CloseOutSnapshotStep, CloseOutLoadStep, TotalsStep, ReloadStep,
     UpsertClosedStep DEF Step, RecordSpec
<1>3. ASSUME NEW p \in Processes, Fails(p) \/ Dies(p)
      PROVE  IInv'
  BY <1>3, FailsStep, DiesStep
<1>4. CASE Deliver \/ Sweep \/ PutScale
  BY <1>4, DeliverStep, SweepStep, PutScaleStep
<1>5. CASE Calendar
  BY <1>5, NextDayStep, YahooTurnsStep, MorningStep DEF Calendar
<1>6. CASE UNCHANGED vars
  BY <1>6, StutterStep
<1> QED
  BY <1>1, <1>2, <1>3, <1>4, <1>5, <1>6 DEF Next

\* What is recorded for a week was simulated from that week's matchup, unless a
\* run began in the night before Yahoo turned to it: for every number of weeks,
\* days, ticks and faults, however the two processes overlap (calibration.ts,
\* recordCurrentWeekPrediction and closeOutPreviousWeek).
THEOREM OfItsWeek == Spec => []PredictionOfItsWeek
<1>1. IInv => PredictionOfItsWeek
  BY DEF IInv, Table, Recorded, Right, PredictionOfItsWeek
<1> QED
  BY <1>1, InitIInv, NextIInv, PTL DEF Spec

-----------------------------------------------------------------------------
(* The calendar in numbers.                                                *)

\* Weeks of the calendar are DaysPerWeek days long.
LEMMA WeekOfDay ==
  ASSUME NEW d \in Days
  PROVE  /\ WeekOf(d) \in Weeks
         /\ (WeekOf(d) - 1) * DaysPerWeek <= d
         /\ d < WeekOf(d) * DaysPerWeek
<1> DEFINE q == d \div DaysPerWeek
<1>1. DaysPerWeek \in Nat /\ DaysPerWeek > 0 /\ LastWeek \in Nat /\ LastWeek > 0
  BY ParametersAssumption
<1>2. d \in Nat /\ d < DaysPerWeek * LastWeek
  BY <1>1 DEF Days
<1>3. q \in Nat /\ q * DaysPerWeek <= d /\ d < (q + 1) * DaysPerWeek
  BY <1>1, <1>2
<1>4. q + 1 <= LastWeek
  <2>1. SUFFICES ASSUME q >= LastWeek PROVE FALSE
    BY <1>1, <1>3
  <2> HIDE DEF q
  <2>2. q * DaysPerWeek >= LastWeek * DaysPerWeek
    BY <1>1, <1>3, <2>1
  <2> QED
    BY <1>1, <1>2, <1>3, <2>2
<1> HIDE DEF q
<1> QED
  BY <1>1, <1>3, <1>4 DEF WeekOf, Weeks, q

\* A day of a week is of no other.
LEMMA OneWeek ==
  ASSUME NEW d \in Days, NEW w \in Weeks,
         (w - 1) * DaysPerWeek <= d, d < w * DaysPerWeek
  PROVE  WeekOf(d) = w
<1> DEFINE q == WeekOf(d)
<1>1. DaysPerWeek \in Nat /\ DaysPerWeek > 0
  BY ParametersAssumption
<1>2. q \in Int /\ w \in Int /\ d \in Int
      /\ (q - 1) * DaysPerWeek <= d /\ d < q * DaysPerWeek
  BY <1>1, WeekOfDay, ParametersAssumption DEF Weeks, Days
<1> HIDE DEF q
<1>3. ASSUME q < w PROVE FALSE
  <2>1. q * DaysPerWeek <= (w - 1) * DaysPerWeek
    BY <1>1, <1>2, <1>3
  <2> QED
    BY <1>1, <1>2, <2>1
<1>4. ASSUME w < q PROVE FALSE
  <2>1. w * DaysPerWeek <= (q - 1) * DaysPerWeek
    BY <1>1, <1>2, <1>4
  <2> QED
    BY <1>1, <1>2, <2>1
<1> QED
  BY <1>2, <1>3, <1>4 DEF q

-----------------------------------------------------------------------------
(* What the sweep computes.                                                *)

Tables == [Weeks -> Retros \cup {None}]

LEMMA FiniteWeeks ==
  ASSUME NEW table \in Tables
  PROVE  /\ IsFiniteSet(closedWeeks(table))
         /\ Cardinality(closedWeeks(table)) \in 0 .. LastWeek
<1>1. LastWeek \in Nat
  BY ParametersAssumption
<1>2. IsFiniteSet(Weeks) /\ Cardinality(Weeks) = LastWeek
  BY <1>1, FS_Interval DEF Weeks
<1>3. closedWeeks(table) \in SUBSET Weeks
  BY DEF closedWeeks
<1>4. IsFiniteSet(closedWeeks(table)) /\ Cardinality(closedWeeks(table)) <= LastWeek
  BY <1>2, <1>3, FS_Subset
<1> QED
  BY <1>1, <1>4, FS_CardinalityType

LEMMA BrierIsPositive ==
  ASSUME NEW volatility \in Int
  PROVE  Brier(volatility) \in Nat \ {0}
<1>1. NoiseFloor \in Nat \ {0} /\ TrueVolatility \in Int
  BY ParametersAssumption
<1>2. \A x \in Int : x * x \in Nat
  OBVIOUS
<1>3. volatility - TrueVolatility \in Int
  BY <1>1
<1> QED
  BY <1>1, <1>2, <1>3 DEF Brier

LEMMA ResimulatedVolatility ==
  ASSUME NEW prediction \in Predictions, NEW value,
         prediction.volatility + value \in Int
  PROVE  Resimulated(prediction, value).volatility = prediction.volatility + value
<1> DEFINE P == [week : Weeks, banked : Int, volatility : Int]
<1>1. prediction \in P
  BY ParametersAssumption DEF Predictions, Scales
<1>2. [prediction EXCEPT !.banked = 0] \in P
  BY <1>1
<1> QED
  BY <1>1 DEF Resimulated

\* The score of a value is a sum over the closed weeks, which are finitely many.
LEMMA SweepIsNumber ==
  ASSUME NEW table \in Tables, NEW value \in Scales
  PROVE  sweep(table, value) \in Nat
<1> DEFINE S == closedWeeks(table)
           score(w) == Brier(Resimulated(table[w].prediction, value).volatility)
           first(s) == CHOOSE w \in s : TRUE
           Sum(g) == g = [s \in SUBSET S |-> IF s = {} THEN 0
                                             ELSE score(first(s)) + g[s \ {first(s)}]]
           total == CHOOSE g : Sum(g)
           pick == [s \in SUBSET S |-> first(s)]
           step == [w \in S |-> [n \in Nat |-> score(w) + n]]
<1>1. sweep(table, value) = total[S]
  BY DEF sweep, MapThenSumSet, MapThenFoldSet
<1>2. \A w \in S : score(w) \in Nat
  <2>1. Scales \subseteq Int
    BY ParametersAssumption DEF Scales
  <2>3. value \in Int
    BY <2>1
  <2>2. ASSUME NEW w \in S PROVE score(w) \in Nat
    <3>1. table[w] \in Retros
      BY DEF closedWeeks, isClosedOut, Tables
    <3>2. table[w].prediction.volatility + value \in Int
      <4>1. table[w].prediction \in Predictions
        BY <3>1 DEF Retros
      <4>2. table[w].prediction.volatility \in Scales
        BY <4>1 DEF Predictions
      <4>3. table[w].prediction.volatility \in Int
        BY <2>1, <4>2
      <4> QED
        BY <2>3, <4>3
    <3>3. Resimulated(table[w].prediction, value).volatility
            = table[w].prediction.volatility + value
      BY <3>1, <3>2, ResimulatedVolatility DEF Retros
    <3> QED
      BY <3>2, <3>3, BrierIsPositive
  <2> QED
    BY <2>2
<1>3. IsFiniteSet(S)
  BY FiniteWeeks
<1>4. \A s \in SUBSET S : s # {} => first(s) \in s
  OBVIOUS
<1> HIDE DEF S, score, first
<1>5. \E g : Sum(g)
  <2>1. \A s \in SUBSET S : s # {} => pick[s] \in s
    BY <1>4
  <2>2. \A w \in S : \A n \in Nat : step[w][n] \in Nat
    BY <1>2
  <2>3. PICK g \in [SUBSET S -> Nat] : IsFold(g, S, 0, pick, step)
    <3> HIDE DEF pick, step
    <3> QED
      BY <1>3, <2>1, <2>2, FoldExists DEF HasFold
  <2>4. \A s \in SUBSET S : s # {} => step[pick[s]][g[s \ {pick[s]}]] = score(first(s)) + g[s \ {first(s)}]
    BY <1>4
  <2>5. g = [s \in SUBSET S |-> IF s = {} THEN 0 ELSE score(first(s)) + g[s \ {first(s)}]]
    BY <2>3, <2>4 DEF IsFold
  <2> QED
    BY <2>5
<1>6. Sum(total)
  BY <1>5
<1> HIDE DEF total
<1>7. \A s \in SUBSET S : total[s] \in Nat
  <2> DEFINE B == {s \in SUBSET S : total[s] \in Nat}
  <2>1. {} \in B
    BY <1>6
  <2>2. \A s \in SUBSET S : s # {} => pick[s] \in s
    BY <1>4
  <2>3. \A s \in SUBSET S : s # {} /\ s \ {pick[s]} \in B => s \in B
    <3>1. \A s \in SUBSET S : s # {} => total[s] = score(first(s)) + total[s \ {first(s)}]
      BY <1>6
    <3> QED
      BY <1>2, <1>4, <3>1
  <2> HIDE DEF B, pick
  <2>4. \A s \in SUBSET S : s \in B
    BY <1>3, <2>1, <2>2, <2>3, FoldInduction
  <2> QED
    BY <2>4 DEF B
<1> QED
  BY <1>1, <1>7

\* The best of the values is one of them.
LEMMA BestValueIsScale ==
  ASSUME NEW table \in Tables
  PROVE  bestValue(table) \in Scales
<1> DEFINE scores == {sweep(table, v) : v \in Scales}
           fits   == {i \in 1 .. Len(Values) : sweep(table, Values[i]) = Min(scores)}
<1>1. Scales # {} /\ Values \in Seq(Int)
  BY ParametersAssumption
<1>2. Min(scores) \in scores
  <2>1. scores \in SUBSET Nat /\ scores # {}
    BY <1>1, SweepIsNumber
  <2>2. PICK x \in scores : \A y \in scores : x <= y
    <3> HIDE DEF scores
    <3> QED
      BY <2>1, LeastNatural
  <2> HIDE DEF scores
  <2> QED
    BY <2>2 DEF Min
<1>0. DOMAIN Values = 1 .. Len(Values)
  BY <1>1
<1>3. fits # {}
  <2>1. PICK v \in Scales : Min(scores) = sweep(table, v)
    BY <1>2
  <2>2. PICK i \in 1 .. Len(Values) : v = Values[i]
    BY <1>0, <2>1 DEF Scales
  <2> QED
    BY <2>1, <2>2
<1>4. Min(fits) \in fits
  <2>1. fits \in SUBSET Nat
    BY <1>1
  <2>2. PICK x \in fits : \A y \in fits : x <= y
    <3> HIDE DEF fits
    <3> QED
      BY <1>3, <2>1, LeastNatural
  <2> HIDE DEF fits
  <2> QED
    BY <2>2 DEF Min
<1>5. bestValue(table) = Values[Min(fits)]
  BY <1>3 DEF bestValue, SelectInSeq
<1> QED
  BY <1>0, <1>4, <1>5 DEF Scales

\* What the sweep puts rests on MinWeeks closed weeks, and they are closed.
LEMMA UpdateIsEarned ==
  ASSUME NEW table \in Tables, computeUpdate(table) # None
  PROVE  /\ computeUpdate(table) \in [scale : Scales, weeks : Weeks]
         /\ computeUpdate(table).weeks >= MinWeeks
         /\ computeUpdate(table).weeks = Cardinality(closedWeeks(table))
<1> DEFINE n == Cardinality(closedWeeks(table))
<1>1. n \in 0 .. LastWeek /\ MinWeeks \in Nat \ {0} /\ LastWeek \in Nat
  BY FiniteWeeks, ParametersAssumption
<1>2. ~(n < MinWeeks) /\ computeUpdate(table) = [scale |-> bestValue(table), weeks |-> n]
  BY DEF computeUpdate
<1> HIDE DEF n
<1>3. n \in Weeks /\ n >= MinWeeks
  BY <1>1, <1>2 DEF Weeks
<1> QED
  BY <1>2, <1>3, BestValueIsScale DEF n

-----------------------------------------------------------------------------
(* The invariant of the book.  By day a process records the week that is   *)
(* played and closes the one before it; late in the night of a turn a run  *)
(* may still record the week that is over.  As long as the page of the     *)
(* week before is open, every day of the week has cost a fault, of which   *)
(* there are fewer than days.                                              *)

Recording == {"recordSpec", "upsert"}
Closing   == {"totals", "reload", "upsertClosed"}

PageOpen(w) == retros[w] # None /\ ~retros[w].closed

\* The night in which Yahoo turned.
Late == night /\ Turned /\ day = (yahooWeek - 1) * DaysPerWeek

TickOver == IF ~night /\ ticks > 0 /\ pc["tick"] = "idle" THEN 1 ELSE 0

Rows ==
  /\ day \in Days /\ night \in BOOLEAN /\ yahooWeek \in Weeks
  /\ spec \in Specs \cup {None}
  /\ retros \in Tables
  /\ scale \in [scale : Scales, weeks : 0 .. LastWeek] \cup {None}
  /\ sentOn \in Days \cup {None}
  /\ ticks \in 0 .. TicksPerDay
  /\ faults \in 0 .. MaxFaults
  /\ early \in SUBSET Weeks

EarnedBy(update, table) ==
  update.weeks >= MinWeeks /\ update.weeks <= Cardinality(closedWeeks(table))

Holds(p) ==
  /\ week[p] \in 0 .. LastWeek \cup {None}
  /\ pc[p] = "putSpec" => held[p] \in Specs
  /\ pc[p] \in {"upsert", "upsertClosed"} => held[p] \in Retros
  /\ pc[p] = "putScale" =>
       held[p] \in [scale : Scales, weeks : Weeks] /\ EarnedBy(held[p], retros)

Records(p) ==
  /\ pc[p] \in Recording =>
       /\ week[p] \in Weeks
       /\ week[p] = yahooWeek \/ (Late /\ week[p] = yahooWeek - 1)
       /\ ~isClosedOut(retros[week[p]])
  /\ pc[p] = "upsert" => ~held[p].closed

Closes(p) ==
  /\ pc[p] = "closeOutLoad" =>
       \/ week[p] = yahooWeek - 1
       \/ Late /\ week[p] = yahooWeek - 2 /\ ~Closeable(week[p])
  /\ pc[p] \in Closing =>
       week[p] = yahooWeek - 1 /\ week[p] \in Weeks /\ Turned /\ retros[week[p]] # None
  /\ pc[p] = "upsertClosed" =>
       held[p].closed /\ held[p].prediction = retros[week[p]].prediction

Work(p) == Holds(p) /\ Records(p) /\ Closes(p)

OnTime ==
  /\ Turned \/ day = yahooWeek * DaysPerWeek
  /\ night => ticks = 0
  /\ \A w \in Weeks : isClosedOut(retros[w]) => w < yahooWeek
  /\ yahooWeek - 1 \in Weeks /\ PageOpen(yahooWeek - 1) =>
       faults >= day - (yahooWeek - 1) * DaysPerWeek + TickOver

BookInv == Rows /\ OnTime /\ ScaleIsEarned /\ \A p \in Processes : Work(p)

LEMMA BookInvTypes == IInv /\ BookInv => TypeOK
<1> SUFFICES ASSUME IInv, BookInv PROVE TypeOK
  OBVIOUS
<1>1. week \in [Processes -> 0 .. LastWeek \cup {None}]
  BY DEF IInv, Shape, BookInv, Work, Holds
<1>2. \A p \in Processes :
        /\ pc[p] = "putSpec" => held[p] \in Specs
        /\ pc[p] \in {"upsert", "upsertClosed"} => held[p] \in Retros
  BY DEF BookInv, Work, Holds
<1>3. pc["run"] = "putScale" => held["run"] \in [scale : Scales, weeks : Weeks]
  BY DEF BookInv, Work, Holds, Processes
<1> QED
  BY <1>1, <1>2, <1>3 DEF TypeOK, BookInv, Rows, Tables

LEMMA Numbers ==
  /\ DaysPerWeek \in Nat \ {0} /\ LastWeek \in Nat \ {0} /\ MaxFaults \in Nat
  /\ MaxFaults < DaysPerWeek /\ TicksPerDay \in Nat
  /\ Days \subseteq Nat /\ Weeks \subseteq Nat \ {0}
  /\ \A w \in Weeks : w * DaysPerWeek \in Nat /\ (w - 1) * DaysPerWeek \in Nat
                      /\ w * DaysPerWeek - (w - 1) * DaysPerWeek = DaysPerWeek
BY ParametersAssumption, FaultsAreRare DEF Days, Weeks

LEMMA InitBook == Init => BookInv
<1> SUFFICES ASSUME Init PROVE BookInv
  OBVIOUS
<1>1. 1 \in Weeks /\ 0 \in Days
  <2>1. DaysPerWeek * LastWeek > 0
    BY ParametersAssumption
  <2> QED
    BY <2>1, ParametersAssumption DEF Weeks, Days
<1>2. Rows
  <2>1. retros \in Tables
    BY DEF Init, Tables
  <2>2. 0 \in 0 .. TicksPerDay /\ 0 \in 0 .. MaxFaults
    BY Numbers
  <2> QED
    BY <1>1, <2>1, <2>2 DEF Init, Rows
<1>3. \A w \in Weeks : retros[w] = None
  BY DEF Init
<1>4. OnTime /\ ScaleIsEarned
  <2>1. WeekOf(0) = 1
    BY <1>1, OneWeek, Numbers
  <2>2. Turned /\ ~night /\ scale = None
    BY <2>1 DEF Init, Turned
  <2> QED
    BY <1>3, <2>2 DEF OnTime, ScaleIsEarned, PageOpen, isClosedOut
<1>5. \A p \in Processes : Work(p)
  BY DEF Init, Work, Holds, Records, Closes, Recording, Closing
<1> QED
  BY <1>2, <1>4, <1>5 DEF BookInv

\* Before Yahoo turned, the page of the week before is not open.
LEMMA NotOpenBeforeTurn ==
  ASSUME BookInv, ~Turned, yahooWeek - 1 \in Weeks
  PROVE  ~PageOpen(yahooWeek - 1)
<1>1. TickOver \in {0, 1}
  BY DEF TickOver
<1>2. day - (yahooWeek - 1) * DaysPerWeek = DaysPerWeek
  BY Numbers DEF BookInv, OnTime, Rows
<1>3. faults \in Nat /\ faults <= MaxFaults
  BY Numbers DEF BookInv, Rows
<1> QED
  BY <1>1, <1>2, <1>3, Numbers DEF BookInv, OnTime

\* What a process works with stays good while the calendar and the table stay.
LEMMA WorkGoesOn ==
  ASSUME NEW q \in Processes, Work(q),
         pc'[q] = pc[q], week'[q] = week[q], held'[q] = held[q],
         UNCHANGED <<day, night, yahooWeek, retros>>
  PROVE  Work(q)'
<1>1. Late' <=> Late
  BY DEF Late, Turned, WeekOf
<1>2. Holds(q)'
  BY DEF Work, Holds, EarnedBy
<1>3. Records(q)'
  BY <1>1 DEF Work, Records
<1>4. Closes(q)'
  BY <1>1 DEF Work, Closes, Turned, WeekOf, Closeable
<1> QED
  BY <1>2, <1>3, <1>4 DEF Work

\* A step of a process that leaves the calendar and the table alone.
LEMMA QuietBook ==
  ASSUME IInv, BookInv, NEW p \in Processes,
         \E x : pc' = [pc EXCEPT ![p] = x],
         \E x : week' = [week EXCEPT ![p] = x],
         \E x : held' = [held EXCEPT ![p] = x],
         UNCHANGED <<day, night, yahooWeek, retros>>,
         Rows', ScaleIsEarned', Work(p)',
         night => ticks' = 0,
         \/ TickOver' = 0 /\ faults' = faults
         \/ TickOver' = TickOver /\ faults' >= faults
         \/ TickOver' \in {0, 1} /\ faults' = faults + 1
         \/ yahooWeek - 1 \in Weeks => ~PageOpen(yahooWeek - 1)
  PROVE  BookInv'
<1>1. ASSUME NEW q \in Processes, q # p
      PROVE  Work(q)'
  <2>1. pc'[q] = pc[q] /\ week'[q] = week[q] /\ held'[q] = held[q]
    BY <1>1 DEF IInv, Shape
  <2>2. Work(q)
    BY DEF BookInv
  <2> QED
    BY <2>1, <2>2, WorkGoesOn
<1>2. OnTime'
  <2>1. TickOver \in {0, 1} /\ day \in Nat /\ faults \in Nat /\ faults' \in Nat
    BY Numbers DEF TickOver, BookInv, Rows
  <2>2. (Turned \/ day = yahooWeek * DaysPerWeek)'
    BY DEF BookInv, OnTime, Turned, WeekOf
  <2>3. (\A w \in Weeks : isClosedOut(retros[w]) => w < yahooWeek)'
    BY DEF BookInv, OnTime
  <2>4. (yahooWeek - 1 \in Weeks /\ PageOpen(yahooWeek - 1) =>
           faults >= day - (yahooWeek - 1) * DaysPerWeek + TickOver)'
    <3> DEFINE late == day - (yahooWeek - 1) * DaysPerWeek
    <3>1. late \in Int /\ late' = late
      BY <2>1, Numbers DEF BookInv, Rows
    <3>2. SUFFICES ASSUME yahooWeek - 1 \in Weeks, PageOpen(yahooWeek - 1)
                   PROVE  faults' >= late + TickOver'
      BY <3>1 DEF PageOpen
    <3>3. faults >= late + TickOver
      BY <3>2 DEF BookInv, OnTime
    <3> HIDE DEF late
    <3> QED
      BY <2>1, <3>1, <3>2, <3>3
  <2>5. (night => ticks = 0)'
    OBVIOUS
  <2> QED
    BY <2>2, <2>3, <2>4, <2>5 DEF OnTime
<1> QED
  BY <1>1, <1>2 DEF BookInv

-----------------------------------------------------------------------------
(* The steps of a process that leave the calendar and the table alone.     *)

Idlest == {"idle", "build", "deliver", "record", "closeOut", "sweep"}

LEMMA StepBook ==
  ASSUME IInv, BookInv, NEW p \in Processes, NEW to, pc[p] # "idle",
         pc' = [pc EXCEPT ![p] = to],
         \E x : week' = [week EXCEPT ![p] = x],
         \E x : held' = [held EXCEPT ![p] = x],
         UNCHANGED <<clock, retros>>,
         Rows', ScaleIsEarned', Work(p)',
         \/ to # "idle" /\ faults' = faults
         \/ p = "run" /\ faults' = faults
         \/ (yahooWeek - 1 \in Weeks => ~PageOpen(yahooWeek - 1)) /\ faults' = faults
         \/ faults' = faults + 1
  PROVE  BookInv'
<1>1. UNCHANGED <<day, night, yahooWeek, retros, ticks>> /\ (night => ticks' = 0)
  BY DEF clock, BookInv, OnTime
<1>2. faults \in Nat /\ TickOver' \in {0, 1}
  BY Numbers DEF BookInv, Rows, TickOver
<1>3. CASE p = "run"
  <2>1. pc'["tick"] = pc["tick"]
    BY <1>3 DEF IInv, Shape, Processes
  <2>2. TickOver' = TickOver
    BY <1>1, <2>1 DEF TickOver
  <2>3. faults' = faults \/ faults' = faults + 1 \/ (yahooWeek - 1 \in Weeks => ~PageOpen(yahooWeek - 1))
    OBVIOUS
  <2>4. \/ TickOver' = TickOver /\ faults' >= faults
        \/ yahooWeek - 1 \in Weeks => ~PageOpen(yahooWeek - 1)
    BY <1>2, <2>2, <2>3
  <2> QED
    BY <1>1, <2>4, QuietBook
<1>4. CASE p = "tick"
  <2>1. pc'["tick"] = to
    BY <1>4 DEF IInv, Shape, Processes
  <2>2. to # "idle" => TickOver' = 0
    BY <2>1 DEF TickOver
  <2> QED
    BY <1>1, <1>2, <1>4, <2>2, QuietBook
<1> QED
  BY <1>3, <1>4 DEF Processes

\* Who has left a part holds nothing.
LEMMA NothingHeld ==
  ASSUME IInv, NEW p \in Processes, NEW from, NEW to \in Idlest, Leaves(p, from, to)
  PROVE  /\ Work(p)'
         /\ pc[p] = from /\ pc' = [pc EXCEPT ![p] = to]
         /\ \E x : week' = [week EXCEPT ![p] = x]
         /\ \E x : held' = [held EXCEPT ![p] = x]
<1>1. pc'[p] = to /\ week'[p] = None
  BY DEF IInv, Shape, Leaves, Goto
<1>2. to \notin Recording \cup Closing \cup {"closeOutLoad", "putSpec", "putScale"}
  BY DEF Idlest, Recording, Closing
<1> QED
  BY <1>1, <1>2 DEF Work, Holds, Records, Closes, Leaves, Goto, Recording, Closing

LEMMA BuildBook ==
  ASSUME NEW p \in Processes, IInv, BookInv, Build(p)
  PROVE  BookInv'
<1>1. /\ pc[p] = "build" /\ pc' = [pc EXCEPT ![p] = "putSpec"]
      /\ held' = [held EXCEPT ![p] = preparedSpec]
      /\ UNCHANGED <<clock, store, week, faults, early>>
  BY DEF Build, Goto
<1>2. UNCHANGED <<day, night, yahooWeek, ticks, spec, retros, scale, sentOn>>
  BY <1>1 DEF clock, store
<1>3. preparedSpec \in Specs
  <2>1. VolatilityScale \in Scales
    BY ParametersAssumption DEF BookInv, Rows, VolatilityScale
  <2>2. day % DaysPerWeek \in 0 .. DaysPerWeek
    BY Numbers DEF BookInv, Rows
  <2> QED
    BY <2>1, <2>2 DEF BookInv, Rows, preparedSpec, Specs, Predictions
<1>4. Rows' /\ ScaleIsEarned'
  BY <1>1, <1>2 DEF BookInv, Rows, ScaleIsEarned
<1>5. Work(p)'
  <2>1. pc'[p] = "putSpec" /\ held'[p] = preparedSpec /\ week'[p] = week[p]
    BY <1>1 DEF IInv, Shape
  <2> QED
    BY <1>3, <2>1 DEF BookInv, Work, Holds, Records, Closes, Recording, Closing
<1>6. \E x : week' = [week EXCEPT ![p] = x]
  BY <1>1 DEF IInv, Shape
<1> QED
  BY <1>1, <1>2, <1>4, <1>5, <1>6, StepBook

LEMMA PutSpecBook ==
  ASSUME NEW p \in Processes, IInv, BookInv, PutSpec(p)
  PROVE  BookInv'
<1> DEFINE to == IF p = "tick" THEN "record" ELSE "deliver"
<1>1. /\ Leaves(p, "putSpec", to) /\ spec' = held[p]
      /\ UNCHANGED <<clock, retros, scale, sentOn, faults, early>>
  BY DEF PutSpec
<1>2. to \in Idlest /\ to # "idle"
  BY DEF Idlest
<1> HIDE DEF to
<1>3. Work(p)' /\ pc[p] = "putSpec" /\ pc' = [pc EXCEPT ![p] = to]
      /\ (\E x : week' = [week EXCEPT ![p] = x])
      /\ (\E x : held' = [held EXCEPT ![p] = x])
  BY <1>1, <1>2, NothingHeld
<1>4. held[p] \in Specs
  BY <1>3 DEF BookInv, Work, Holds
<1>5. Rows' /\ ScaleIsEarned'
  BY <1>1, <1>4 DEF BookInv, Rows, ScaleIsEarned, clock
<1> QED
  BY <1>1, <1>2, <1>3, <1>5, StepBook

LEMMA DeliverBook == IInv /\ BookInv /\ Deliver => BookInv'
<1> SUFFICES ASSUME IInv, BookInv, Deliver PROVE BookInv'
  OBVIOUS
<1>1. /\ pc["run"] = "deliver" /\ pc' = [pc EXCEPT !["run"] = "closeOut"]
      /\ sentOn' = day
      /\ UNCHANGED <<clock, spec, retros, scale, week, held, faults, early>>
  BY DEF Deliver, Goto
<1>2. Rows' /\ ScaleIsEarned'
  BY <1>1 DEF BookInv, Rows, ScaleIsEarned, clock
<1>3. (\E x : week' = [week EXCEPT !["run"] = x])
      /\ (\E x : held' = [held EXCEPT !["run"] = x])
  BY <1>1 DEF IInv, Shape
<1>4. pc'["run"] = "closeOut" /\ week'["run"] = week["run"] /\ "run" \in Processes
  BY <1>1 DEF IInv, Shape, Processes
<1>5. Work("run")'
  BY <1>4 DEF BookInv, Work, Holds, Records, Closes, Recording, Closing
<1> QED
  BY <1>1, <1>2, <1>3, <1>4, <1>5, StepBook

LEMMA RowsStay ==
  ASSUME BookInv, UNCHANGED <<clock, store, early>>, faults' \in 0 .. MaxFaults
  PROVE  Rows' /\ ScaleIsEarned'
BY DEF BookInv, Rows, ScaleIsEarned, clock, store

LEMMA MemoryStays ==
  ASSUME IInv, NEW p \in Processes
  PROVE  /\ week' = week => \E x : week' = [week EXCEPT ![p] = x]
         /\ held' = held => \E x : held' = [held EXCEPT ![p] = x]
BY DEF IInv, Shape

LEMMA FaultsStay == BookInv /\ UNCHANGED faults => faults' \in 0 .. MaxFaults
BY DEF BookInv, Rows

LEMMA RecordSnapshotBook ==
  ASSUME NEW p \in Processes, IInv, BookInv, RecordSnapshot(p)
  PROVE  BookInv'
<1>1. /\ pc[p] = "record" /\ pc' = [pc EXCEPT ![p] = "recordSpec"]
      /\ week' = [week EXCEPT ![p] = yahooWeek]
      /\ UNCHANGED <<clock, store, held, faults, early>>
  BY DEF RecordSnapshot, Goto
<1>2. Rows' /\ ScaleIsEarned' /\ (\E x : held' = [held EXCEPT ![p] = x])
  BY <1>1, RowsStay, MemoryStays, FaultsStay
<1>3. pc'[p] = "recordSpec" /\ week'[p] = yahooWeek /\ held'[p] = held[p]
  BY <1>1 DEF IInv, Shape
<1>4. yahooWeek \in Weeks /\ yahooWeek \in 0 .. LastWeek /\ ~isClosedOut(retros[yahooWeek])
  BY Numbers DEF BookInv, Rows, OnTime, Weeks
<1>5. UNCHANGED <<yahooWeek, retros>>
  BY <1>1 DEF clock, store
<1>6. Work(p)'
  BY <1>3, <1>4, <1>5 DEF Work, Holds, Records, Closes, Recording, Closing
<1> QED
  BY <1>1, <1>2, <1>6, StepBook DEF store

LEMMA RecordFindsBook ==
  ASSUME NEW p \in Processes, IInv, BookInv, RecordFinds(p, specOf(day))
  PROVE  BookInv'
<1>1. /\ pc[p] = "recordSpec" /\ pc' = [pc EXCEPT ![p] = "upsert"]
      /\ specOf(day) # None
      /\ held' = [held EXCEPT ![p] = buildRetrospective(specOf(day))]
      /\ UNCHANGED <<clock, store, week, faults, early>>
  BY DEF RecordFinds, Goto
<1>2. Rows' /\ ScaleIsEarned' /\ (\E x : week' = [week EXCEPT ![p] = x])
  BY <1>1, RowsStay, MemoryStays, FaultsStay
<1>3. pc'[p] = "upsert" /\ week'[p] = week[p] /\ held'[p] = buildRetrospective(specOf(day))
  BY <1>1 DEF IInv, Shape
<1>4. specOf(day) \in Specs
  BY <1>1 DEF specOf, BookInv, Rows
<1>5. buildRetrospective(specOf(day)) \in Retros /\ ~buildRetrospective(specOf(day)).closed
  BY <1>4 DEF buildRetrospective, Specs, Retros
<1>6. UNCHANGED <<day, night, yahooWeek, retros>>
  BY <1>1 DEF clock, store
<1>7. Late' <=> Late
  BY <1>6 DEF Late, Turned, WeekOf
<1>8. Holds(p) /\ Records(p)
  BY DEF BookInv, Work
<1>9. Holds(p)' /\ Closes(p)'
  BY <1>3, <1>5, <1>8 DEF Holds, Closes, Closing
<1>10. Records(p)'
  BY <1>1, <1>3, <1>5, <1>6, <1>7, <1>8 DEF Records, Recording
<1> QED
  BY <1>1, <1>2, <1>9, <1>10, StepBook DEF store, Work

LEMMA RecordFindsNoneBook ==
  ASSUME NEW p \in Processes, NEW stored, IInv, BookInv, RecordFindsNone(p, stored)
  PROVE  BookInv'
<1> DEFINE to == After(p, "record")
<1>1. Leaves(p, "recordSpec", to) /\ UNCHANGED <<clock, store, faults, early>>
  BY DEF RecordFindsNone
<1>2. to \in Idlest /\ (p = "tick" => to # "idle")
  BY AfterParts DEF Idlest, Processes
<1> HIDE DEF to
<1>3. /\ Work(p)' /\ pc[p] = "recordSpec" /\ pc' = [pc EXCEPT ![p] = to]
      /\ \E x : week' = [week EXCEPT ![p] = x]
      /\ \E x : held' = [held EXCEPT ![p] = x]
  BY <1>1, <1>2, NothingHeld
<1>4. Rows' /\ ScaleIsEarned'
  BY <1>1, RowsStay, FaultsStay
<1>5. to # "idle" \/ p = "run"
  BY <1>2 DEF Processes
<1> QED
  BY <1>1, <1>3, <1>4, <1>5, StepBook DEF store

LEMMA CloseOutSnapshotBook ==
  ASSUME NEW p \in Processes, IInv, BookInv, CloseOutSnapshot(p)
  PROVE  BookInv'
<1>1. /\ pc[p] = "closeOut" /\ pc' = [pc EXCEPT ![p] = "closeOutLoad"]
      /\ week' = [week EXCEPT ![p] = yahooWeek - 1]
      /\ UNCHANGED <<clock, store, held, faults, early>>
  BY DEF CloseOutSnapshot, Goto, previousWeek
<1>2. Rows' /\ ScaleIsEarned' /\ (\E x : held' = [held EXCEPT ![p] = x])
  BY <1>1, RowsStay, MemoryStays, FaultsStay
<1>3. pc'[p] = "closeOutLoad" /\ week'[p] = yahooWeek - 1 /\ held'[p] = held[p]
  BY <1>1 DEF IInv, Shape
<1>4. yahooWeek' = yahooWeek /\ yahooWeek - 1 \in 0 .. LastWeek
  BY <1>1, Numbers DEF clock, BookInv, Rows, Weeks
<1>5. Work(p)'
  BY <1>3, <1>4 DEF Work, Holds, Records, Closes, Recording, Closing
<1> QED
  BY <1>1, <1>2, <1>5, StepBook DEF store

LEMMA CloseOutNeedlessBook ==
  ASSUME NEW p \in Processes, IInv, BookInv, pc[p] = "closeOutLoad",
         CloseOutNeedless(p, week[p])
  PROVE  BookInv'
<1> DEFINE to == After(p, "closeOut")
<1>1. Leaves(p, "closeOutLoad", to) /\ UNCHANGED <<clock, store, faults, early>>
  BY DEF CloseOutNeedless
<1>2. to \in Idlest
  BY AfterParts DEF Idlest, Processes
<1> HIDE DEF to
<1>3. /\ Work(p)' /\ pc[p] = "closeOutLoad" /\ pc' = [pc EXCEPT ![p] = to]
      /\ \E x : week' = [week EXCEPT ![p] = x]
      /\ \E x : held' = [held EXCEPT ![p] = x]
  BY <1>1, <1>2, NothingHeld
<1>4. Rows' /\ ScaleIsEarned'
  BY <1>1, RowsStay, FaultsStay
<1>5. p = "run" \/ (yahooWeek - 1 \in Weeks => ~PageOpen(yahooWeek - 1))
  <2>1. SUFFICES ASSUME p = "tick", yahooWeek - 1 \in Weeks
                 PROVE  ~PageOpen(yahooWeek - 1)
    BY DEF Processes
  <2>2. ~night
    BY <2>1 DEF IInv, Nights
  <2>3. week[p] = yahooWeek - 1
    BY <2>2 DEF BookInv, Work, Closes, Late
  <2>4. ~Closeable(yahooWeek - 1) /\ yahooWeek - 1 >= 1
    BY <2>1, <2>3 DEF CloseOutNeedless, Weeks
  <2> QED
    BY <2>4 DEF Closeable, isClosedOut, PageOpen
<1> QED
  BY <1>1, <1>3, <1>4, <1>5, StepBook DEF store

\* A week that is closed out is the week before, and Yahoo has turned.
LEMMA CloseOutBeginsBook ==
  ASSUME NEW p \in Processes, IInv, BookInv, pc[p] = "closeOutLoad",
         CloseOutBegins(p, week[p])
  PROVE  BookInv'
<1>1. /\ pc[p] = "closeOutLoad" /\ pc' = [pc EXCEPT ![p] = "totals"]
      /\ Closeable(week[p])
      /\ UNCHANGED <<clock, store, week, held, faults, early>>
  BY DEF CloseOutBegins, Goto
<1>2. /\ Rows' /\ ScaleIsEarned'
      /\ \E x : week' = [week EXCEPT ![p] = x]
      /\ \E x : held' = [held EXCEPT ![p] = x]
  BY <1>1, RowsStay, MemoryStays, FaultsStay
<1>3. week[p] = yahooWeek - 1
  BY <1>1 DEF BookInv, Work, Closes
<1>4. yahooWeek - 1 \in Weeks
  BY <1>1, <1>3, Numbers DEF Closeable, Weeks, BookInv, Rows
<1>5. PageOpen(yahooWeek - 1)
  BY <1>1, <1>3 DEF Closeable, isClosedOut, PageOpen
<1>6. Turned
  BY <1>4, <1>5, NotOpenBeforeTurn
<1>7. pc'[p] = "totals" /\ week'[p] = yahooWeek - 1 /\ retros' = retros
      /\ yahooWeek' = yahooWeek /\ Turned'
  BY <1>1, <1>3, <1>6 DEF IInv, Shape, clock, store, Turned, WeekOf
<1>8. yahooWeek - 1 \in 0 .. LastWeek
  BY <1>4, Numbers DEF Weeks
<1>9. Work(p)'
  BY <1>4, <1>5, <1>7, <1>8 DEF Work, Holds, Records, Closes, Recording, Closing, PageOpen
<1> QED
  BY <1>1, <1>2, <1>9, StepBook DEF store

LEMMA TotalsBook ==
  ASSUME NEW p \in Processes, IInv, BookInv, Totals(p)
  PROVE  BookInv'
<1>1. /\ pc[p] = "totals" /\ pc' = [pc EXCEPT ![p] = "reload"]
      /\ UNCHANGED <<clock, store, week, held, faults, early>>
  BY DEF Totals, Goto
<1>2. /\ Rows' /\ ScaleIsEarned'
      /\ \E x : week' = [week EXCEPT ![p] = x]
      /\ \E x : held' = [held EXCEPT ![p] = x]
  BY <1>1, RowsStay, MemoryStays, FaultsStay
<1>3. pc'[p] = "reload" /\ week'[p] = week[p] /\ retros' = retros
      /\ yahooWeek' = yahooWeek /\ (Turned => Turned')
  BY <1>1 DEF IInv, Shape, clock, store, Turned, WeekOf
<1>4. Work(p)'
  BY <1>1, <1>3 DEF BookInv, Work, Holds, Records, Closes, Recording, Closing
<1> QED
  BY <1>1, <1>2, <1>4, StepBook DEF store

LEMMA ReloadBook ==
  ASSUME NEW p \in Processes, IInv, BookInv, Reload(p)
  PROVE  BookInv'
<1> DEFINE page == [retros[week[p]] EXCEPT !.closed = TRUE]
<1>1. /\ pc[p] = "reload" /\ pc' = [pc EXCEPT ![p] = "upsertClosed"]
      /\ held' = [held EXCEPT ![p] = page]
      /\ UNCHANGED <<clock, store, week, faults, early>>
  BY DEF Reload, Goto
<1>2. /\ Rows' /\ ScaleIsEarned'
      /\ \E x : week' = [week EXCEPT ![p] = x]
  BY <1>1, RowsStay, MemoryStays, FaultsStay
<1>3. pc'[p] = "upsertClosed" /\ week'[p] = week[p] /\ held'[p] = page /\ retros' = retros
      /\ yahooWeek' = yahooWeek /\ (Turned => Turned')
  BY <1>1 DEF IInv, Shape, clock, store, Turned, WeekOf
<1>4. retros[week[p]] \in Retros
  BY <1>1 DEF BookInv, Rows, Tables, Work, Closes, Closing
<1>5. page \in Retros /\ page.closed /\ page.prediction = retros[week[p]].prediction
  <2>1. retros[week[p]] = [prediction |-> retros[week[p]].prediction,
                           closed |-> retros[week[p]].closed]
    BY <1>4 DEF Retros
  <2>2. page = [prediction |-> retros[week[p]].prediction, closed |-> TRUE]
    BY <2>1, ClosedPage
  <2> QED
    BY <1>4, <2>2 DEF Retros
<1> HIDE DEF page
<1>6. Work(p)'
  BY <1>1, <1>3, <1>5 DEF BookInv, Work, Holds, Records, Closes, Recording, Closing
<1> QED
  BY <1>1, <1>2, <1>6, StepBook DEF store

LEMMA SweepBook == IInv /\ BookInv /\ Sweep => BookInv'
<1> SUFFICES ASSUME IInv, BookInv, Sweep PROVE BookInv'
  OBVIOUS
<1> DEFINE update == computeUpdate(retros)
<1>1. SweepFinds(update) \/ SweepFindsNone(update)
  BY DEF Sweep
<1>0. "run" \in Processes
  BY DEF Processes
<1>2. CASE SweepFinds(update)
  <2>1. /\ pc["run"] = "sweep" /\ pc' = [pc EXCEPT !["run"] = "putScale"]
        /\ update # None /\ held' = [held EXCEPT !["run"] = update]
        /\ UNCHANGED <<clock, store, week, faults, early>>
    BY <1>2 DEF SweepFinds, Goto
  <2>2. /\ Rows' /\ ScaleIsEarned'
        /\ \E x : week' = [week EXCEPT !["run"] = x]
    BY <1>0, <2>1, RowsStay, MemoryStays, FaultsStay
  <2>3. retros \in Tables
    BY DEF BookInv, Rows
  <2>4. update \in [scale : Scales, weeks : Weeks] /\ EarnedBy(update, retros)
    <3>1. /\ update \in [scale : Scales, weeks : Weeks]
          /\ update.weeks >= MinWeeks
          /\ update.weeks = Cardinality(closedWeeks(retros))
      BY <2>1, <2>3, UpdateIsEarned
    <3>2. update.weeks \in Nat
      BY <3>1, Numbers
    <3> HIDE DEF update
    <3> QED
      BY <3>1, <3>2 DEF EarnedBy
  <2> HIDE DEF update
  <2>5. pc'["run"] = "putScale" /\ week'["run"] = week["run"] /\ held'["run"] = update
        /\ retros' = retros
    BY <1>0, <2>1 DEF IInv, Shape, store
  <2>6. Work("run")'
    BY <1>0, <2>4, <2>5 DEF BookInv, Work, Holds, Records, Closes, Recording, Closing
  <2> QED
    BY <1>0, <2>1, <2>2, <2>6, StepBook DEF store
<1>3. CASE SweepFindsNone(update)
  <2>1. /\ pc["run"] = "sweep" /\ pc' = [pc EXCEPT !["run"] = "record"]
        /\ UNCHANGED <<clock, store, week, held, faults, early>>
    BY <1>3, AfterParts DEF SweepFindsNone, Goto
  <2>2. /\ Rows' /\ ScaleIsEarned'
        /\ \E x : week' = [week EXCEPT !["run"] = x]
        /\ \E x : held' = [held EXCEPT !["run"] = x]
    BY <1>0, <2>1, RowsStay, MemoryStays, FaultsStay
  <2>3. pc'["run"] = "record" /\ week'["run"] = week["run"]
    BY <1>0, <2>1 DEF IInv, Shape
  <2>4. Work("run")'
    BY <1>0, <2>3 DEF BookInv, Work, Holds, Records, Closes, Recording, Closing
  <2> QED
    BY <1>0, <2>1, <2>2, <2>4, StepBook DEF store
<1> QED
  BY <1>1, <1>2, <1>3

LEMMA PutScaleBook == IInv /\ BookInv /\ PutScale => BookInv'
<1> SUFFICES ASSUME IInv, BookInv, PutScale PROVE BookInv'
  OBVIOUS
<1>0. "run" \in Processes /\ "record" \in Idlest
  BY DEF Processes, Idlest
<1>1. /\ Leaves("run", "putScale", "record") /\ scale' = held["run"]
      /\ UNCHANGED <<clock, spec, retros, sentOn, faults, early>>
  BY AfterParts DEF PutScale
<1>2. Work("run")' /\ pc["run"] = "putScale" /\ pc' = [pc EXCEPT !["run"] = "record"]
      /\ (\E x : week' = [week EXCEPT !["run"] = x])
      /\ (\E x : held' = [held EXCEPT !["run"] = x])
  BY <1>0, <1>1, NothingHeld
<1>3. held["run"] \in [scale : Scales, weeks : Weeks] /\ EarnedBy(held["run"], retros)
  BY <1>0, <1>2 DEF BookInv, Work, Holds
<1>4. Rows'
  <2>1. held["run"] \in [scale : Scales, weeks : 0 .. LastWeek]
    BY <1>3, Numbers DEF Weeks
  <2> QED
    BY <1>1, <2>1 DEF BookInv, Rows, clock
<1>5. ScaleIsEarned'
  BY <1>1, <1>3 DEF ScaleIsEarned, EarnedBy, closedWeeks
<1> QED
  BY <1>0, <1>1, <1>2, <1>4, <1>5, StepBook

\* A failure counts, wherever it leaves the process.
LEMMA FaultBook ==
  ASSUME IInv, BookInv, Fault, NEW p \in Processes, NEW to \in Idlest,
         pc[p] # "idle", Leaves(p, pc[p], to), UNCHANGED <<clock, store, early>>
  PROVE  BookInv'
<1>1. faults' = faults + 1 /\ faults' \in 0 .. MaxFaults
  BY Numbers DEF Fault, BookInv, Rows
<1>2. /\ Work(p)' /\ pc' = [pc EXCEPT ![p] = to]
      /\ \E x : week' = [week EXCEPT ![p] = x]
      /\ \E x : held' = [held EXCEPT ![p] = x]
  BY NothingHeld
<1>3. Rows' /\ ScaleIsEarned'
  BY <1>1, RowsStay
<1> QED
  BY <1>1, <1>2, <1>3, StepBook DEF store

LEMMA FailsBook ==
  ASSUME NEW p \in Processes, IInv, BookInv, Fails(p) \/ Dies(p)
  PROVE  BookInv'
<1>1. CASE Fails(p)
  <2>1. Part(pc[p]) \in {"record", "closeOut", "sweep"}
    BY <1>1 DEF Fails, Part
  <2>2. p = "tick" => Part(pc[p]) # "sweep"
    BY <1>1 DEF IInv, Shape, Part, Fails
  <2>3. pc[p] # "idle"
    BY <2>1, <1>1 DEF Part, Fails
  <2>4. After(p, Part(pc[p])) \in Idlest
    BY <2>1, <2>2, AfterParts DEF Processes, Idlest
  <2> QED
    BY <1>1, <2>3, <2>4, FaultBook DEF Fails
<1>2. CASE Dies(p)
  BY <1>2, FaultBook DEF Dies, Idlest
<1> QED
  BY <1>1, <1>2

-----------------------------------------------------------------------------
(* A process begins.                                                       *)

LEMMA TickStartsBook == IInv /\ BookInv /\ TickStarts => BookInv'
<1> SUFFICES ASSUME IInv, BookInv, TickStarts PROVE BookInv'
  OBVIOUS
<1>0. "tick" \in Processes
  BY DEF Processes
<1>1. PICK next \in {"build", "record"} : Goto("tick", "idle", next)
  BY DEF TickStarts
<1>2. /\ ~night /\ ticks < TicksPerDay /\ ticks' = ticks + 1
      /\ sentOn' \in {sentOn, day}
      /\ UNCHANGED <<day, night, yahooWeek, spec, retros, scale, week, held, faults, early>>
  BY DEF TickStarts
<1>3. pc'["tick"] = next /\ pc' = [pc EXCEPT !["tick"] = next]
      /\ week'["tick"] = week["tick"]
  BY <1>0, <1>1, <1>2 DEF IInv, Shape, Goto
<1>4. Rows' /\ ScaleIsEarned'
  <2>1. ticks' \in 0 .. TicksPerDay
    BY <1>2, Numbers DEF BookInv, Rows
  <2> QED
    BY <1>2, <2>1 DEF BookInv, Rows, ScaleIsEarned
<1>5. Work("tick")'
  BY <1>0, <1>3 DEF BookInv, Work, Holds, Records, Closes, Recording, Closing
<1>6. TickOver' = 0
  BY <1>1, <1>3 DEF TickOver
<1>7. (\E x : week' = [week EXCEPT !["tick"] = x])
      /\ (\E x : held' = [held EXCEPT !["tick"] = x])
  BY <1>0, <1>2, MemoryStays
<1>8. \E x : pc' = [pc EXCEPT !["tick"] = x]
  BY <1>3
<1> QED
  BY <1>0, <1>2, <1>4, <1>5, <1>6, <1>7, <1>8, QuietBook

LEMMA RunStartsBook == IInv /\ BookInv /\ RunStarts => BookInv'
<1> SUFFICES ASSUME IInv, BookInv, RunStarts PROVE BookInv'
  OBVIOUS
<1>0. "run" \in Processes
  BY DEF Processes
<1>1. /\ pc' = [pc EXCEPT !["run"] = "build"]
      /\ early' = early \cup ({WeekOf(day)} \ {yahooWeek})
      /\ UNCHANGED <<day, night, yahooWeek, ticks, spec, retros, scale, sentOn, week, held, faults>>
  BY DEF RunStarts, Goto, clock, store
<1>2. pc'["run"] = "build" /\ pc'["tick"] = pc["tick"] /\ week'["run"] = week["run"]
  BY <1>0, <1>1 DEF IInv, Shape, Processes
<1>3. Rows' /\ ScaleIsEarned'
  <2>1. WeekOf(day) \in Weeks
    BY WeekOfDay DEF BookInv, Rows
  <2>2. early' \in SUBSET Weeks
    BY <1>1, <2>1 DEF BookInv, Rows
  <2> QED
    BY <1>1, <2>2 DEF BookInv, Rows, ScaleIsEarned
<1>4. Work("run")'
  BY <1>0, <1>2 DEF BookInv, Work, Holds, Records, Closes, Recording, Closing
<1>5. TickOver' = TickOver /\ faults' >= faults
  BY <1>1, <1>2, Numbers DEF TickOver, BookInv, Rows
<1>6. (\E x : week' = [week EXCEPT !["run"] = x])
      /\ (\E x : held' = [held EXCEPT !["run"] = x])
      /\ (\E x : pc' = [pc EXCEPT !["run"] = x])
  BY <1>0, <1>1, MemoryStays
<1>7. night => ticks' = 0
  BY <1>1 DEF BookInv, OnTime
<1> QED
  BY <1>0, <1>1, <1>3, <1>4, <1>5, <1>6, <1>7, QuietBook

-----------------------------------------------------------------------------
(* A page is written.  By night only a run is at work, so that two          *)
(* processes are at work by day only; then who records writes the week      *)
(* that is played, and who closes writes the one before.                    *)

RecordsPage(w, row) ==
  /\ ~row.closed /\ ~isClosedOut(retros[w])
  /\ w = yahooWeek \/ (Late /\ w = yahooWeek - 1)

ClosesPage(w, row) ==
  row.closed /\ w = yahooWeek - 1 /\ row.prediction = retros[w].prediction

LEMMA ClosedStayClosed ==
  ASSUME BookInv, NEW w \in Weeks, NEW row \in Retros,
         retros' = [retros EXCEPT ![w] = row],
         RecordsPage(w, row) \/ ClosesPage(w, row)
  PROVE  /\ retros' \in Tables
         /\ Cardinality(closedWeeks(retros)) <= Cardinality(closedWeeks(retros'))
         /\ Cardinality(closedWeeks(retros)) \in Nat /\ Cardinality(closedWeeks(retros')) \in Nat
<1>1. retros \in Tables
  BY DEF BookInv, Rows
<1>2. retros' \in Tables
  BY <1>1 DEF Tables
<1>3. closedWeeks(retros) \subseteq closedWeeks(retros')
  <2>1. \A v \in Weeks : retros'[v] = IF v = w THEN row ELSE retros[v]
    BY <1>1 DEF Tables
  <2>2. row # None
    BY ParametersAssumption
  <2>3. isClosedOut(retros[w]) => isClosedOut(row)
    BY <2>2 DEF isClosedOut, RecordsPage, ClosesPage
  <2>4. \A v \in Weeks : isClosedOut(retros[v]) => isClosedOut(retros'[v])
    BY <2>1, <2>3
  <2> QED
    BY <2>4 DEF closedWeeks
<1>4. IsFiniteSet(closedWeeks(retros')) /\ Cardinality(closedWeeks(retros')) \in Nat
      /\ Cardinality(closedWeeks(retros)) \in Nat
  BY <1>1, <1>2, FiniteWeeks, Numbers
<1> QED
  BY <1>2, <1>3, <1>4, FS_Subset

LEMMA PageWritten ==
  ASSUME IInv, BookInv, NEW p \in Processes, NEW to \in Idlest, NEW w \in Weeks, NEW row \in Retros,
         pc[p] # "idle", Leaves(p, pc[p], to),
         retros' = [retros EXCEPT ![w] = row],
         UNCHANGED <<clock, spec, scale, sentOn, faults, early>>,
         (RecordsPage(w, row) /\ (p = "tick" => to # "idle")) \/ ClosesPage(w, row)
  PROVE  BookInv'
<1>0. \A n \in Weeks : n \in Int
  BY Numbers
<1>1. retros' \in Tables
  BY ClosedStayClosed
<1>2. UNCHANGED <<day, night, yahooWeek, ticks, spec, scale, sentOn, faults, early>>
  BY DEF clock
<1>3. Rows'
  BY <1>1, <1>2 DEF BookInv, Rows
<1>4. \A n \in Int : n <= Cardinality(closedWeeks(retros)) => n <= Cardinality(closedWeeks(retros'))
  <2> DEFINE was == Cardinality(closedWeeks(retros))
             is  == Cardinality(closedWeeks(retros'))
  <2>1. was <= is /\ was \in Nat /\ is \in Nat
    BY ClosedStayClosed
  <2> HIDE DEF was, is
  <2>2. \A n \in Int : n <= was => n <= is
    BY <2>1
  <2> QED
    BY <2>2 DEF was, is
<1>5. ScaleIsEarned'
  <2>1. SUFFICES ASSUME scale # None PROVE EarnedBy(scale, retros')
    BY <1>2 DEF ScaleIsEarned, EarnedBy, closedWeeks
  <2>2. EarnedBy(scale, retros) /\ scale.weeks \in Int
    BY <2>1 DEF BookInv, Rows, ScaleIsEarned, EarnedBy, closedWeeks
  <2> QED
    BY <1>4, <2>2 DEF EarnedBy
<1>6. \A v \in Weeks : retros'[v] = IF v = w THEN row ELSE retros[v]
  BY DEF BookInv, Rows, Tables
<1>7. yahooWeek \in Weeks /\ yahooWeek \in Int /\ w \in Int /\ row # None
  BY Numbers, ParametersAssumption DEF BookInv, Rows
<1>8. ASSUME NEW q \in Processes, q # p
      PROVE  Work(q)'
  <2>1. pc'[q] = pc[q] /\ week'[q] = week[q] /\ held'[q] = held[q]
    BY <1>8 DEF IInv, Shape, Leaves, Goto
  <2>2. Work(q)
    BY DEF BookInv
  <2>3. pc[q] = "idle" \/ ~night
    BY <1>8 DEF IInv, Nights, Processes
  <2>4. Holds(q)'
    <3>1. ASSUME pc[q] = "putScale" PROVE EarnedBy(held[q], retros')
      <4>1. held[q] \in [scale : Scales, weeks : Weeks] /\ EarnedBy(held[q], retros)
        BY <2>2, <3>1 DEF Work, Holds
      <4>0. held[q].weeks \in Weeks
        BY <4>1
      <4>2. held[q].weeks \in Int
        BY <1>0, <4>0
      <4>3. held[q].weeks >= MinWeeks /\ held[q].weeks <= Cardinality(closedWeeks(retros))
        BY <4>1 DEF EarnedBy
      <4>4. held[q].weeks <= Cardinality(closedWeeks(retros'))
        BY <1>4, <4>2, <4>3
      <4> QED
        BY <4>3, <4>4 DEF EarnedBy
    <3> QED
      BY <2>1, <2>2, <3>1 DEF Work, Holds
  <2>5. CASE pc[q] = "idle"
    BY <2>1, <2>4, <2>5 DEF Work, Records, Closes, Recording, Closing
  <2>6. CASE ~night
    <3>1. ~Late /\ ~Late'
      BY <1>2, <2>6 DEF Late
    <3>2. Turned' <=> Turned
      BY <1>2 DEF Turned, WeekOf
    <3>3. Records(q)'
      <4>1. pc[q] \in Recording => week[q] = yahooWeek /\ ~isClosedOut(retros[yahooWeek])
        BY <2>2, <3>1 DEF Work, Records
      <4>2. ~isClosedOut(retros[yahooWeek]) => ~isClosedOut(retros'[yahooWeek])
        BY <1>6, <1>7 DEF isClosedOut, RecordsPage, ClosesPage
      <4> QED
        BY <1>2, <1>7, <2>1, <2>2, <4>1, <4>2 DEF Work, Records
    <3>4. Closes(q)'
      <4>1. pc[q] = "closeOutLoad" => week[q] = yahooWeek - 1
        BY <2>2, <3>1 DEF Work, Closes
      <4>2. pc[q] \in Closing =>
              /\ week[q] = yahooWeek - 1 /\ week[q] \in Weeks /\ Turned
              /\ retros'[week[q]] # None
              /\ retros'[week[q]].prediction = retros[week[q]].prediction
        BY <1>6, <1>7, <2>2, <3>1 DEF Work, Closes, RecordsPage, ClosesPage
      <4> QED
        BY <1>2, <2>1, <2>2, <3>2, <4>1, <4>2 DEF Work, Closes, Closing
    <3> QED
      BY <2>4, <3>3, <3>4 DEF Work
  <2> QED
    BY <2>3, <2>5, <2>6
<1>9. Work(p)'
  BY NothingHeld
<1>10. OnTime'
  <2>1. (Turned \/ day = yahooWeek * DaysPerWeek)' /\ (night => ticks = 0)'
    BY <1>2 DEF BookInv, OnTime, Turned, WeekOf
  <2>2. (\A v \in Weeks : isClosedOut(retros[v]) => v < yahooWeek)'
    BY <1>2, <1>6, <1>7 DEF BookInv, OnTime, isClosedOut, RecordsPage, ClosesPage
  <2>3. (yahooWeek - 1 \in Weeks /\ PageOpen(yahooWeek - 1) =>
           faults >= day - (yahooWeek - 1) * DaysPerWeek + TickOver)'
    <3>1. SUFFICES ASSUME yahooWeek - 1 \in Weeks,
                          retros'[yahooWeek - 1] # None, ~retros'[yahooWeek - 1].closed
                   PROVE  faults >= day - (yahooWeek - 1) * DaysPerWeek + TickOver'
      BY <1>2 DEF PageOpen
    <3>2. RecordsPage(w, row) /\ (p = "tick" => to # "idle")
      BY <1>6, <3>1 DEF ClosesPage
    <3>3. faults \in Nat /\ day \in Int
      BY Numbers DEF BookInv, Rows
    <3>4. CASE Late
      <4>1. TickOver' = 0 /\ day = (yahooWeek - 1) * DaysPerWeek
        BY <1>2, <3>4 DEF Late, TickOver
      <4> QED
        BY <3>3, <4>1
    <3>5. CASE ~Late
      <4>1. w = yahooWeek
        BY <3>2, <3>5 DEF RecordsPage
      <4>2. PageOpen(yahooWeek - 1)
        BY <1>6, <1>7, <3>1, <4>1 DEF PageOpen
      <4>3. faults >= day - (yahooWeek - 1) * DaysPerWeek + TickOver
        BY <3>1, <4>2 DEF BookInv, OnTime
      <4>4. TickOver' = 0 \/ TickOver' = TickOver
        BY <1>2, <3>2 DEF TickOver, IInv, Shape, Leaves, Goto, Processes
      <4>5. TickOver \in {0, 1} /\ (yahooWeek - 1) * DaysPerWeek \in Int
        BY <1>7, Numbers DEF TickOver
      <4> QED
        BY <3>3, <4>3, <4>4, <4>5
    <3> QED
      BY <3>4, <3>5
  <2> QED
    BY <2>1, <2>2, <2>3 DEF OnTime
<1> QED
  BY <1>3, <1>5, <1>8, <1>9, <1>10 DEF BookInv

LEMMA UpsertBook ==
  ASSUME NEW p \in Processes, IInv, BookInv, Upsert(p)
  PROVE  BookInv' /\ week[p] \in Weeks /\ held[p] \in Retros /\ RecordsPage(week[p], held[p])
<1>1. Leaves(p, pc[p], After(p, "record")) /\ pc[p] = "upsert"
      /\ retros' = [retros EXCEPT ![week[p]] = held[p]]
      /\ UNCHANGED <<clock, spec, scale, sentOn, faults, early>>
  BY DEF Upsert, Leaves, Goto
<1>2. week[p] \in Weeks /\ held[p] \in Retros /\ RecordsPage(week[p], held[p])
  BY <1>1 DEF BookInv, Work, Holds, Records, Recording, RecordsPage
<1>3. After(p, "record") \in Idlest /\ (p = "tick" => After(p, "record") # "idle")
  BY AfterParts DEF Idlest, Processes
<1> QED
  BY <1>1, <1>2, <1>3, PageWritten

LEMMA UpsertClosedBook ==
  ASSUME NEW p \in Processes, IInv, BookInv, UpsertClosed(p)
  PROVE  BookInv' /\ week[p] \in Weeks /\ held[p] \in Retros /\ ClosesPage(week[p], held[p])
<1>1. Leaves(p, pc[p], After(p, "closeOut")) /\ pc[p] = "upsertClosed"
      /\ retros' = [retros EXCEPT ![week[p]] = held[p]]
      /\ UNCHANGED <<clock, spec, scale, sentOn, faults, early>>
  BY DEF UpsertClosed, Leaves, Goto
<1>2. week[p] \in Weeks /\ held[p] \in Retros /\ ClosesPage(week[p], held[p])
  BY <1>1 DEF BookInv, Work, Holds, Closes, Closing, ClosesPage
<1>3. After(p, "closeOut") \in Idlest
  BY AfterParts DEF Idlest, Processes
<1> QED
  BY <1>1, <1>2, <1>3, PageWritten

-----------------------------------------------------------------------------
(* The calendar, and the whole next-state relation.                        *)

\* An idle process keeps no more than a week or none.
LEMMA IdleWork ==
  ASSUME NEW p \in Processes, pc[p] = "idle", Work(p), UNCHANGED memory
  PROVE  Work(p)'
BY DEF Work, Holds, Records, Closes, Recording, Closing, memory

LEMMA NextDayBook == IInv /\ BookInv /\ NextDay => BookInv'
<1> SUFFICES ASSUME IInv, BookInv, NextDay PROVE BookInv'
  OBVIOUS
<1>1. /\ ~night /\ night' = TRUE /\ AllIdle
      /\ day + 1 \in Days /\ day' = day + 1 /\ ticks' = 0
      /\ ticks = 0 => Fault
      /\ ticks # 0 => faults' = faults
      /\ UNCHANGED <<yahooWeek, store, memory, early>>
  BY DEF NextDay
<1>2. day \in Int /\ faults \in Nat /\ ticks \in Nat /\ yahooWeek \in Weeks /\ yahooWeek \in Int
  BY Numbers DEF BookInv, Rows
<1>3. faults' \in 0 .. MaxFaults /\ (ticks = 0 => faults' = faults + 1)
  BY <1>1, Numbers DEF Fault, BookInv, Rows
<1>4. Rows'
  BY <1>1, <1>3, Numbers DEF BookInv, Rows, store
<1>5. \A p \in Processes : Work(p)'
  BY <1>1, IdleWork DEF BookInv, AllIdle
<1>6. ScaleIsEarned'
  BY <1>1 DEF BookInv, ScaleIsEarned, store
<1>7. WeekOf(day) = yahooWeek
  BY <1>1 DEF IInv, Nights, Turned
<1>8. day + 1 = yahooWeek * DaysPerWeek \/ WeekOf(day + 1) = yahooWeek
  <2>1. day \in Days /\ yahooWeek * DaysPerWeek \in Int /\ (yahooWeek - 1) * DaysPerWeek \in Int
    BY <1>2, Numbers DEF BookInv, Rows
  <2>2. (yahooWeek - 1) * DaysPerWeek <= day /\ day < yahooWeek * DaysPerWeek
    BY <1>7, <2>1, WeekOfDay
  <2>3. (yahooWeek - 1) * DaysPerWeek <= day + 1
    BY <1>2, <2>1, <2>2
  <2>4. day + 1 < yahooWeek * DaysPerWeek \/ day + 1 = yahooWeek * DaysPerWeek
    BY <1>2, <2>1, <2>2
  <2> QED
    BY <1>1, <1>2, <2>3, <2>4, OneWeek
<1>9. OnTime'
  <2>1. (Turned \/ day = yahooWeek * DaysPerWeek)'
    BY <1>1, <1>8 DEF Turned, WeekOf
  <2>2. (\A w \in Weeks : isClosedOut(retros[w]) => w < yahooWeek)'
    BY <1>1 DEF BookInv, OnTime, store
  <2>3. (yahooWeek - 1 \in Weeks /\ PageOpen(yahooWeek - 1) =>
           faults >= day - (yahooWeek - 1) * DaysPerWeek + TickOver)'
    <3> DEFINE turn == (yahooWeek - 1) * DaysPerWeek
    <3>1. turn' = turn /\ turn \in Int
      BY <1>1, <1>2, Numbers
    <3>2. yahooWeek' = yahooWeek /\ PageOpen(yahooWeek - 1)' = PageOpen(yahooWeek - 1)
      BY <1>1 DEF PageOpen, store
    <3>3. SUFFICES ASSUME yahooWeek - 1 \in Weeks, PageOpen(yahooWeek - 1)
                   PROVE  faults' >= day' - turn' + TickOver'
      BY <3>2
    <3>4. faults >= day - turn + TickOver
      BY <3>3 DEF BookInv, OnTime
    <3>5. TickOver' = 0 /\ TickOver = IF ticks = 0 THEN 0 ELSE 1
      BY <1>1, <1>2 DEF TickOver, AllIdle, Processes
    <3> HIDE DEF turn
    <3> QED
      BY <1>1, <1>2, <1>3, <3>1, <3>4, <3>5
  <2> QED
    BY <1>1, <2>1, <2>2, <2>3 DEF OnTime
<1> QED
  BY <1>4, <1>5, <1>6, <1>9 DEF BookInv

\* Yahoo turns to the next week, on its first day.
LEMMA TheNextWeek ==
  ASSUME BookInv, ~Turned
  PROVE  /\ WeekOf(day) = yahooWeek + 1 /\ WeekOf(day) \in Weeks
         /\ day = yahooWeek * DaysPerWeek
<1>1. day = yahooWeek * DaysPerWeek /\ day \in Days /\ yahooWeek \in Int
  BY Numbers DEF BookInv, OnTime, Rows
<1> DEFINE n == WeekOf(day)
<1>2. n \in Weeks /\ (n - 1) * DaysPerWeek <= day /\ day < n * DaysPerWeek
  BY <1>1, WeekOfDay
<1> HIDE DEF n
<1>3. n \in Int /\ DaysPerWeek \in Nat \ {0}
  BY <1>2, ParametersAssumption DEF Weeks
<1>4. ASSUME n <= yahooWeek PROVE FALSE
  <2>1. n * DaysPerWeek <= yahooWeek * DaysPerWeek
    BY <1>1, <1>3, <1>4
  <2> QED
    BY <1>1, <1>2, <1>3, <2>1
<1>5. ASSUME n > yahooWeek + 1 PROVE FALSE
  <2>1. (yahooWeek + 1) * DaysPerWeek <= (n - 1) * DaysPerWeek
    BY <1>1, <1>3, <1>5
  <2> QED
    BY <1>1, <1>2, <1>3, <2>1
<1>6. n = yahooWeek + 1
  BY <1>1, <1>3, <1>4, <1>5
<1> QED
  BY <1>1, <1>2, <1>6 DEF n

LEMMA YahooTurnsBook == IInv /\ BookInv /\ YahooTurns => BookInv'
<1> SUFFICES ASSUME IInv, BookInv, YahooTurns PROVE BookInv'
  OBVIOUS
<1>1. /\ night /\ ~Turned /\ yahooWeek' = WeekOf(day)
      /\ UNCHANGED <<day, night, ticks, store, memory, faults, early>>
  BY DEF YahooTurns, Turned
<1>2. yahooWeek' = yahooWeek + 1 /\ yahooWeek' \in Weeks /\ day = yahooWeek * DaysPerWeek
  BY <1>1, TheNextWeek
<1>3. yahooWeek \in Weeks /\ yahooWeek \in Int /\ yahooWeek' - 1 = yahooWeek /\ day \in Int
      /\ faults \in Nat
  BY <1>2, Numbers DEF BookInv, Rows
<1>4. Turned' /\ Late' /\ ~Late
  BY <1>1, <1>2, <1>3 DEF Turned, WeekOf, Late
<1>5. Rows' /\ ScaleIsEarned'
  BY <1>1, <1>2 DEF BookInv, Rows, ScaleIsEarned, store
<1>6. ASSUME NEW p \in Processes
      PROVE  Work(p)'
  <2>1. Work(p)
    BY DEF BookInv
  <2>2. Holds(p)'
    BY <1>1, <2>1 DEF Work, Holds, EarnedBy, store, memory
  <2>3. Records(p)'
    <3>1. pc[p] \in Recording => week[p] = yahooWeek
      BY <1>4, <2>1 DEF Work, Records
    <3> QED
      BY <1>1, <1>3, <1>4, <2>1, <3>1 DEF Work, Records, store, memory
  <2>4. Closes(p)'
    <3>1. pc[p] \notin Closing
      BY <1>1, <2>1 DEF Work, Closes
    <3>2. pc[p] = "closeOutLoad" => week[p] = yahooWeek' - 2 /\ ~Closeable(week[p])
      <4>1. SUFFICES ASSUME pc[p] = "closeOutLoad"
                     PROVE  week[p] = yahooWeek' - 2 /\ ~Closeable(week[p])
        OBVIOUS
      <4>2. week[p] = yahooWeek - 1
        BY <1>4, <2>1, <4>1 DEF Work, Closes
      <4>3. yahooWeek - 1 >= 1 => yahooWeek - 1 \in Weeks
        BY <1>3, Numbers DEF Weeks
      <4>4. yahooWeek - 1 \in Weeks => ~PageOpen(yahooWeek - 1)
        BY <1>1, NotOpenBeforeTurn
      <4>5. ~Closeable(yahooWeek - 1)
        BY <4>3, <4>4 DEF Closeable, isClosedOut, PageOpen
      <4> QED
        BY <1>2, <1>3, <4>2, <4>5
    <3> QED
      BY <1>1, <1>4, <3>1, <3>2 DEF Closes, Closing, Closeable, isClosedOut, store, memory
  <2> QED
    BY <2>2, <2>3, <2>4 DEF Work
<1>7. OnTime'
  <2>1. (\A w \in Weeks : isClosedOut(retros[w]) => w < yahooWeek)'
    BY <1>1, <1>2, <1>3, Numbers DEF BookInv, OnTime, store
  <2>2. faults' >= day' - (yahooWeek' - 1) * DaysPerWeek + TickOver'
    BY <1>1, <1>2, <1>3 DEF TickOver
  <2>3. night' => ticks' = 0
    BY <1>1 DEF BookInv, OnTime
  <2> QED
    BY <1>4, <2>1, <2>2, <2>3 DEF OnTime
<1> QED
  BY <1>5, <1>6, <1>7 DEF BookInv

LEMMA MorningBook == IInv /\ BookInv /\ Morning => BookInv'
<1> SUFFICES ASSUME IInv, BookInv, Morning PROVE BookInv'
  OBVIOUS
<1>1. /\ night /\ ~night' /\ AllIdle
      /\ UNCHANGED <<day, yahooWeek, ticks, store, memory, faults, early>>
  BY DEF Morning
<1>2. Rows' /\ ScaleIsEarned'
  BY <1>1 DEF BookInv, Rows, ScaleIsEarned, store, Morning
<1>3. \A p \in Processes : Work(p)'
  BY <1>1, IdleWork DEF BookInv, AllIdle
<1>4. TickOver = 0 /\ TickOver' = 0
  BY <1>1 DEF BookInv, OnTime, TickOver
<1>5. OnTime'
  <2>1. (yahooWeek - 1 \in Weeks /\ PageOpen(yahooWeek - 1) =>
           faults >= day - (yahooWeek - 1) * DaysPerWeek + TickOver)'
    BY <1>1, <1>4 DEF BookInv, OnTime, PageOpen, store
  <2> QED
    BY <1>1, <2>1 DEF BookInv, OnTime, Turned, WeekOf, store
<1> QED
  BY <1>2, <1>3, <1>5 DEF BookInv

LEMMA StutterBook == IInv /\ BookInv /\ UNCHANGED vars => BookInv'
<1> SUFFICES ASSUME IInv, BookInv, UNCHANGED vars PROVE BookInv'
  OBVIOUS
<1>1. UNCHANGED <<day, night, yahooWeek, ticks, spec, retros, scale, sentOn, pc, week, held, faults, early>>
  BY DEF vars, clock, store, memory
<1>2. Rows' /\ ScaleIsEarned'
  BY <1>1 DEF BookInv, Rows, ScaleIsEarned
<1>3. \A p \in Processes : Work(p)'
  BY <1>1, WorkGoesOn DEF BookInv
<1>4. TickOver' = TickOver
  BY <1>1 DEF TickOver
<1>5. OnTime'
  <2>1. (yahooWeek - 1 \in Weeks /\ PageOpen(yahooWeek - 1) =>
           faults >= day - (yahooWeek - 1) * DaysPerWeek + TickOver)'
    BY <1>1, <1>4 DEF BookInv, OnTime, PageOpen
  <2> QED
    BY <1>1, <2>1 DEF BookInv, OnTime, Turned, WeekOf
<1> QED
  BY <1>2, <1>3, <1>5 DEF BookInv

LEMMA NextBook == IInv /\ BookInv /\ [Next]_vars => BookInv'
<1> SUFFICES ASSUME IInv, BookInv, [Next]_vars PROVE BookInv'
  OBVIOUS
<1>1. CASE TickStarts \/ RunStarts
  BY <1>1, TickStartsBook, RunStartsBook
<1>2. ASSUME NEW p \in Processes, Step(p)
      PROVE  BookInv'
  <2>1. CASE Build(p) \/ PutSpec(p)
    BY <2>1, BuildBook, PutSpecBook
  <2>2. CASE RecordSnapshot(p) \/ RecordSpec(p)
    BY <2>2, RecordSnapshotBook, RecordFindsBook, RecordFindsNoneBook DEF RecordSpec
  <2>3. CASE CloseOutSnapshot(p) \/ Totals(p) \/ Reload(p)
    BY <2>3, CloseOutSnapshotBook, TotalsBook, ReloadBook
  <2>4. CASE CloseOutLoad(p)
    BY <2>4, CloseOutBeginsBook, CloseOutNeedlessBook DEF CloseOutLoad
  <2>5. CASE Upsert(p) \/ UpsertClosed(p)
    BY <2>5, UpsertBook, UpsertClosedBook
  <2> QED
    BY <1>2, <2>1, <2>2, <2>3, <2>4, <2>5 DEF Step
<1>3. ASSUME NEW p \in Processes, Fails(p) \/ Dies(p)
      PROVE  BookInv'
  BY <1>3, FailsBook
<1>4. CASE Deliver \/ Sweep \/ PutScale
  BY <1>4, DeliverBook, SweepBook, PutScaleBook
<1>5. CASE Calendar
  BY <1>5, NextDayBook, YahooTurnsBook, MorningBook DEF Calendar
<1>6. CASE UNCHANGED vars
  BY <1>6, StutterBook
<1> QED
  BY <1>1, <1>2, <1>3, <1>4, <1>5, <1>6 DEF Next

\* The rows and memories have their types, for every season and every number of
\* ticks and faults.
THEOREM WellTyped == Spec => []TypeOK
<1> QED
  BY InitIInv, NextIInv, InitBook, NextBook, BookInvTypes, PTL DEF Spec

\* A scale on record rests on MinWeeks weeks that are closed, although the table it
\* was fitted to may have been written since it was read.
THEOREM EarnedScale == Spec => []ScaleIsEarned
<1>1. BookInv => ScaleIsEarned
  BY DEF BookInv
<1> QED
  BY <1>1, InitIInv, NextIInv, InitBook, NextBook, PTL DEF Spec

-----------------------------------------------------------------------------
(* The table keeps the book.                                               *)

Shown == [w \in Weeks |-> Page(retros[w])]

LEMMA PageOf ==
  ASSUME NEW retro \in Retros \cup {None}
  PROVE  /\ retro = None => Page(retro) = None
         /\ retro # None /\ retro.closed =>
              Page(retro) = [state |-> "closed", prediction |-> retro.prediction]
         /\ retro # None /\ ~retro.closed =>
              Page(retro) = [state |-> "open", prediction |-> retro.prediction]
         /\ retro # None => retro.prediction \in Predictions /\ retro.closed \in BOOLEAN
BY DEF Page, isClosedOut, Retros

LEMMA BookOpens == Init => Book!Init
<1> SUFFICES ASSUME Init PROVE Book!Init
  OBVIOUS
<1>1. \A w \in Weeks : Page(retros[w]) = None
  BY PageOf DEF Init
<1> QED
  BY <1>1 DEF Init, Book!Init

LEMMA BookLies ==
  ASSUME UNCHANGED <<yahooWeek, retros>>
  PROVE  UNCHANGED <<yahooWeek, Shown>>
BY DEF Shown

LEMMA BookWritten ==
  ASSUME BookInv, NEW w \in Weeks, NEW row \in Retros, RecordsPage(w, row),
         retros' = [retros EXCEPT ![w] = row], yahooWeek' = yahooWeek
  PROVE  Book!Write(w)
<1>1. retros \in Tables /\ row # None /\ row.prediction \in Predictions /\ ~row.closed
  BY ParametersAssumption DEF BookInv, Rows, RecordsPage, Retros
<1>2. Page(row) = [state |-> "open", prediction |-> row.prediction]
  BY <1>1, PageOf
<1>3. Page(retros[w]) = None
      \/ \E p \in Predictions : Page(retros[w]) = [state |-> "open", prediction |-> p]
  BY <1>1, PageOf DEF Tables, RecordsPage, isClosedOut
<1>4. [v \in Weeks |-> Page(retros'[v])] = [Shown EXCEPT ![w] = Page(row)]
  BY <1>1 DEF Shown, Tables
<1>5. Shown[w] = Page(retros[w])
  BY DEF Shown
<1>6. w \in {yahooWeek - 1, yahooWeek}
  BY DEF RecordsPage
<1>7. Shown[w] = None \/ \E p \in Predictions : Shown[w] = Book!Open(p)
  BY <1>3, <1>5 DEF Book!Open
<1>8. \E p \in Predictions : Shown' = [Shown EXCEPT ![w] = Book!Open(p)]
  BY <1>1, <1>2, <1>4 DEF Book!Open, Shown
<1> QED
  BY <1>6, <1>7, <1>8 DEF Book!Write, Shown

LEMMA BookClosed ==
  ASSUME BookInv, NEW w \in Weeks, NEW row \in Retros, ClosesPage(w, row), retros[w] # None,
         retros' = [retros EXCEPT ![w] = row], yahooWeek' = yahooWeek
  PROVE  Book!Close(w) \/ UNCHANGED <<yahooWeek, Shown>>
<1>1. retros \in Tables /\ row # None /\ row.closed
      /\ row.prediction = retros[w].prediction /\ row.prediction \in Predictions
  BY ParametersAssumption DEF BookInv, Rows, ClosesPage, Retros
<1>2. Page(row) = [state |-> "closed", prediction |-> row.prediction]
  BY <1>1, PageOf
<1>3. Shown' = [Shown EXCEPT ![w] = Page(row)]
  BY <1>1 DEF Shown, Tables
<1>4. Shown[w] = Page(retros[w]) /\ retros[w] \in Retros
  BY <1>1 DEF Shown, Tables
<1>5. CASE retros[w].closed
  <2>1. Page(retros[w]) = Page(row)
    BY <1>1, <1>2, <1>4, <1>5, PageOf
  <2>2. Shown' = Shown
    BY <1>3, <1>4, <2>1 DEF Shown
  <2> QED
    BY <2>2
<1>6. CASE ~retros[w].closed
  <2>1. Shown[w] = Book!Open(row.prediction)
    BY <1>1, <1>4, <1>6, PageOf DEF Book!Open
  <2>2. Shown' = [Shown EXCEPT ![w] = Book!Closed(row.prediction)]
    BY <1>2, <1>3 DEF Book!Closed
  <2>3. w = yahooWeek - 1
    BY DEF ClosesPage
  <2> QED
    BY <1>1, <2>1, <2>2, <2>3 DEF Book!Close, Shown
<1> QED
  BY <1>5, <1>6

LEMMA BookMovesOn == BookInv /\ YahooTurns => Book!MoveOn
<1> SUFFICES ASSUME BookInv, YahooTurns PROVE Book!MoveOn
  OBVIOUS
<1>1. ~Turned /\ yahooWeek' = WeekOf(day) /\ retros' = retros
  BY DEF YahooTurns, Turned, store
<1>2. yahooWeek' = yahooWeek + 1 /\ yahooWeek + 1 \in Weeks
  BY <1>1, TheNextWeek
<1>3. ASSUME yahooWeek - 1 \in Weeks
      PROVE  \A p \in Predictions : Shown[yahooWeek - 1] # Book!Open(p)
  <2> DEFINE retro == retros[yahooWeek - 1]
  <2>1. retro = None \/ retro.closed
    BY <1>1, <1>3, NotOpenBeforeTurn DEF PageOpen
  <2>2. retro \in Retros \cup {None} /\ Shown[yahooWeek - 1] = Page(retro)
    BY <1>3 DEF BookInv, Rows, Tables, Shown
  <2> HIDE DEF retro
  <2>3. Page(retro) = None \/ Page(retro).state = "closed"
    BY <2>1, <2>2, PageOf
  <2>4. \A p \in Predictions : Book!Open(p) # None /\ Book!Open(p).state = "open"
    BY BlankIsNoPage DEF Book!Open, BookPages
  <2> QED
    BY <2>2, <2>3, <2>4
<1>4. Shown' = Shown
  BY <1>1 DEF Shown
<1> QED
  BY <1>2, <1>3, <1>4 DEF Book!MoveOn, Shown

\* Every other action leaves the book where it lies.
LEMMA BookStep == IInv /\ BookInv /\ [Next]_vars => Book!Next \/ UNCHANGED <<yahooWeek, Shown>>
<1> SUFFICES ASSUME IInv, BookInv, [Next]_vars
             PROVE  Book!Next \/ UNCHANGED <<yahooWeek, Shown>>
  OBVIOUS
<1>1. CASE TickStarts \/ RunStarts
  BY <1>1, BookLies DEF TickStarts, RunStarts, clock, store
<1>2. ASSUME NEW p \in Processes, Step(p)
      PROVE  Book!Next \/ UNCHANGED <<yahooWeek, Shown>>
  <2>1. CASE Build(p) \/ PutSpec(p)
    BY <2>1, BookLies DEF Build, PutSpec, clock, store
  <2>2. CASE RecordSnapshot(p) \/ RecordSpec(p)
    BY <2>2, BookLies DEF RecordSnapshot, RecordSpec, RecordFinds, RecordFindsNone, clock, store
  <2>3. CASE CloseOutSnapshot(p) \/ CloseOutLoad(p) \/ Totals(p) \/ Reload(p)
    BY <2>3, BookLies
       DEF CloseOutSnapshot, CloseOutLoad, CloseOutBegins, CloseOutNeedless, Totals, Reload,
           clock, store
  <2>4. CASE Upsert(p)
    <3>1. /\ week[p] \in Weeks /\ held[p] \in Retros /\ RecordsPage(week[p], held[p])
          /\ retros' = [retros EXCEPT ![week[p]] = held[p]] /\ yahooWeek' = yahooWeek
      BY <2>4, UpsertBook DEF Upsert, clock
    <3>2. Book!Write(week[p])
      BY <3>1, BookWritten
    <3> QED
      BY <3>1, <3>2 DEF Book!Next
  <2>5. CASE UpsertClosed(p)
    <3>1. /\ week[p] \in Weeks /\ held[p] \in Retros /\ ClosesPage(week[p], held[p])
          /\ retros' = [retros EXCEPT ![week[p]] = held[p]] /\ yahooWeek' = yahooWeek
      BY <2>5, UpsertClosedBook DEF UpsertClosed, clock
    <3>2. retros[week[p]] # None
      BY <2>5 DEF BookInv, Work, Closes, Closing, UpsertClosed, Leaves, Goto
    <3>3. Book!Close(week[p]) \/ UNCHANGED <<yahooWeek, Shown>>
      BY <3>1, <3>2, BookClosed
    <3> QED
      BY <3>1, <3>3 DEF Book!Next
  <2> QED
    BY <1>2, <2>1, <2>2, <2>3, <2>4, <2>5 DEF Step
<1>3. ASSUME NEW p \in Processes, Fails(p) \/ Dies(p)
      PROVE  UNCHANGED <<yahooWeek, Shown>>
  BY <1>3, BookLies DEF Fails, Dies, clock, store
<1>4. CASE Deliver \/ Sweep \/ PutScale
  BY <1>4, BookLies DEF Deliver, Sweep, SweepFinds, SweepFindsNone, PutScale, clock, store
<1>5. CASE Calendar
  <2>1. CASE YahooTurns
    BY <2>1, BookMovesOn DEF Book!Next
  <2>2. CASE NextDay \/ Morning
    BY <2>2, BookLies DEF NextDay, Morning, store
  <2> QED
    BY <1>5, <2>1, <2>2 DEF Calendar
<1>6. CASE UNCHANGED vars
  BY <1>6, BookLies DEF vars, clock, store
<1> QED
  BY <1>1, <1>2, <1>3, <1>4, <1>5, <1>6 DEF Next

\* However ticks and runs overlap, fail and end, the table of retrospectives keeps the
\* weekly book: every step writes the page of the week that is played, closes the page
\* of the week before with its prediction, moves on from a page that is not open, or
\* leaves the book alone (calibration.ts; CalibrationHarness.closeOut).
THEOREM KeepsTheBook == Spec => BookKept
<1>1. Init => Book!Init
  BY BookOpens
<1>2. IInv /\ BookInv /\ [Next]_vars
        => [Book!Next]_<<yahooWeek, [w \in Weeks |-> Page(retros[w])]>>
  BY BookStep DEF Shown
<1> QED
  BY <1>1, <1>2, InitIInv, NextIInv, InitBook, NextBook, PTL DEF Spec, BookKept, Book!Spec
=============================================================================
