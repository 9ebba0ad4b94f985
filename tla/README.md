# Fantasy GM: TLA+ models and proofs

Fantasy GM (`src/src`) manages a fantasy baseball team: once a day it computes a
briefing from Yahoo's league data and public projections, sends it to a Telegram
chat, and optionally writes safe lineup moves to Yahoo. It runs as

* a Cloudflare Worker with one cron (`0 12-23 * * *`) and admin HTTP routes,
* a second Worker for the heavy simulation chunks, and
* a GitHub Actions job (two cron slots a day) that does the whole day's work in
  one process.

They share nothing but rows of one D1 database, each read and written on its own,
without transactions. This directory models that concurrency.

## Inventory

| Component | State it keeps | Operations | Correct when | Model |
|---|---|---|---|---|
| Precompute pipeline: `Scheduler.runPrecompute`, `SimChunk`, `SimJob`, first half of `scripts/daily-briefing.ts` | spec, partials (by unit and generation), reduced artifact, generation marker, all keyed by the Eastern date | build the spec, fan out chunks, simulate a chunk, reduce; the workflow's own computation | nothing partial or stale is published, stages advance in order and to the end in spite of deaths | `SimPipeline` |
| Delivery: `deliverPreparedBriefing`, `deliverManagerBriefing`, `ManagerHealth`, resend and recovery routes, second half of `daily-briefing.ts` | last briefing, last delivery report, last success and daily run count of `send-briefing` | send, forced send, resend, recover, the workflow's delivery | the day is marked only after a delivery, verdicts on health are true, failures leave retries | `BriefingDelivery` |
| Scheduler: `dueTask`, `selectDueTask`, `runTask` | last success and run count of five tasks, write status | one task per tick | the briefing goes out by the end of the day, limits hold | `SchedulerDay` |
| Alerts: `routines/dispatch.ts` | a marker per kind and date | dead-man watchdog, tick-error alert | a day without a briefing is not silent | `SchedulerDay` |
| Tokens: `YahooOAuth`, `WorkerAdmin` | one row of tokens in KV, an access token in each remote process | get, refresh, log in, hand out, reuse | the stored refresh token stays one that Yahoo accepts, no request carries an expired token | `YahooTokens` |
| Calibration: `CalibrationHarness`, `routines/calibration.ts` | one row per week, the volatility scale | record, close out, sweep | a week's prediction is that week's, a week closes once and stays closed, the scale rests on closed weeks | `Calibration` |
| Lineup: `DailyLineupAdvisor`, `YahooLineupExecutor`, the `apply-lineup` task, admin route and OAuth callback | Yahoo's roster; the manager write status | propose moves, put them, verify, probe write access | a list fits the roster it was made for, a write helps and benches nobody who plays, a refusal is blamed on what caused it | `LineupMoves`, `LineupWrites` |
| Start/sit advice: `DecisionEngine.optimizeLineup`, `ManagerBriefing.buildLineupAlerts` | advice stored with the day's spec | optimize, filter, follow | swaps can be made together, each helps, advice and writes come to rest | `LineupAdvice` |
| Transactions: `TransactionPlanner`, `ManagerBriefing.buildYahooApplyPlan`, `LeagueState` (open slots, adds) | the week's adds | plan, show one, regenerate, carry out | a plan can be carried out, covers scarce positions, adds end, slots fill | `WeeklyAdds` |
| `ApiCache` | rows of JSON with a timestamp | get (with a maximum age), put | - | rows of the modules |
| Admin routes (`worker.ts`) | - | run a task, resend, recover, apply, decide, D1 proxy, OAuth callback | - | in part |
| `ProjectionModel`, `ProjectionData`, `WeeklyProjections`, `TradeEval`, `SeasonStrategy`, `StandingsHistory`, the rest of `DecisionEngine` | cached downloads | floating-point numerics over one snapshot | - | only as steps that write rows |
| The rest of `ManagerBriefing`, notifiers, CLI, `YahooClient`, `PlayerIdentity`, `Db`, `infra` | - | formatting, HTTP, decoding, wiring | - | not modelled |
| `legacy/`, `repos/` | - | the former application; vendored sources | - | not modelled |

What is hard in this code: invocations overlap (tick, admin request, chunk,
workflow run) and interleave at each get and put; a Worker is killed when it
exceeds its CPU limit, at any point; Telegram's, Yahoo's and KV's answers may be
lost; every retry is a later tick that has only the rows to go by; the tasks
compete for one slot an hour; and the roster at Yahoo has other writers (the
manager, and this program's own routes) between the read that a decision rests on
and the write. `PROJECT.json` lists each such hazard at the line where it bites,
with the properties that watch it.

How the parts interact. The tick (`dispatchRoutine`) runs one task of the
scheduler (`SchedulerDay`); the tasks are the pipeline (`SimPipeline`), the send
(`BriefingDelivery`) and the lineup write (`LineupWrites`); then it records and
closes weeks (`Calibration`). All of them get tokens from `YahooTokens`. The
pipeline's spec carries the advice of `LineupAdvice` and the report that
`WeeklyAdds` plans from. Each module models one of these interfaces with every
process that reaches it, and takes the others as choices: `SchedulerDay` has the
outcomes of a task, `SimPipeline` and `BriefingDelivery` its steps; `Calibration`
has `Deliver` as a step and the other senders as a choice of `TickStarts`;
`LineupAdvice` is composed with `LineupWrites`, whose roster it shares.

## The modules

| Module | What it is |
|---|---|
| `PreparedBriefing` | abstract: what the computation of a day's briefing promises |
| `SimPipeline` | the dispatchers, chunks and workflow runs that compute it |
| `SimPipelineProofs` | theorems about `SimPipeline` |
| `DailyDelivery` | abstract: what the delivery of a day's briefing promises |
| `BriefingDelivery` | the senders that deliver, record and recover it |
| `BriefingDeliveryProofs` | theorems about `BriefingDelivery` |
| `SchedulerDay`, `SchedulerDayProofs` | one day of ticks: selection, outcomes, alerts; theorems |
| `YahooTokens`, `YahooTokensProofs` | custody of the OAuth tokens; theorems |
| `WeeklyBook` | abstract: what the table of retrospectives promises |
| `Calibration`, `CalibrationProofs` | the recording, closing and fitting of weeks; theorems |
| `LineupMoves` | from a roster to the list of moves: pure functions |
| `LineupWrites` | the three writers of the roster, Yahoo and the manager |
| `LineupAdvice` | start/sit advice, followed beside those writers |
| `LineupProofs` | theorems about the three lineup modules |
| `WeeklyAdds`, `WeeklyAddsProofs` | a week's transactions; theorems |
| `FoldLemmas` | lemmas about folds, lists and sums that several proofs need |
| `MC...` | the constants of the checked instances |

Definitions marked as variants ("Variant the checks must reject") are plausible
bugs. They are not part of any specification; each shows that a property fails
when the definition it stands beside is replaced by it.

### SimPipeline

The rows of one date are `spec`, `partial[gen][unit]`, `reduced` and
`reducedGen`, and `contextAt` stands for the last success of `refresh-context`.
`pc` says between which two accesses to D1 an invocation stands, `stored`,
`seenContext` and `briefing` are its local variables. A simulated partial is
represented by the spec whose roster and candidate it was simulated from, which
is all that the properties tell apart. Each `yield*` on the cache is an action:
`ReadContext`, `ReadSpec`, `BuildSpec`/`PutSpec` (stage 1), `ReadReduced`,
`AlreadyReduced`/`NotReduced`, `FanOut`, `Recheck`/`LeavePending` (stage 2),
`Reduce`, `PutReduced`, `PutReducedGen` (stage 3). A chunk call is a record in
`calls` that reads the spec of its own moment (`ChunkRead`, `ChunkRefused`) and
writes under that spec's generation (`ChunkWrite`). It outlives its dispatcher.
`Run...` are the workflow's puts. Three scans are atomic: the list of pending
units and the sum of the partials read one row after the other in the code; rows
are never deleted, so a complete scan is right at its end, and a unit that a scan
misses is simulated once more, which the model's interleavings include. The sum
taken at one moment leaves out sums that mix two writers' partials of one
generation read at two moments; they are still partials of that generation.

### BriefingDelivery

A briefing is the number of its publication, 0 for one of an earlier day.
`Workers` run `runTask("send-briefing")` (`CanRun` to `Mark`) and the admin
deliveries (`Resend`, `Recover...`), `Runs` the workflow's. `PostFailed` is a
refusal or a lost acknowledgement: the chat may have received the message all the
same. `Dies` ends an invocation between any two accesses. The precompute task
shows only as `Publish`. `task` tells a counted send from a forced one, and a
forced one that a recovery started (`regenerate`) from an operator's.

### SchedulerDay

Time goes in half hours: ticks at even moments, workflow runs between. The tick's
exact second varies, so an age of exactly one hour (the period of the cron and
the limit of the context's age) may or may not have been reached; a tick that
finds the context of the tick before too old counts as a disturbance, like a
failed or killed one or a fan-out that leaves units pending. `Wishes` is
`selectDueTask`'s list of conditions in their order. Ticks are atomic with
respect to other invocations here, since the other two modules interleave them.

### YahooTokens

`kv` is the one row of tokens. A call of `getAccessToken` is `WorkerCalls` or
`JobCalls`, then `Get`, and if the tokens are not usable `YahooRotates` or
`YahooKeeps` (or `YahooRefuses`), `Receive` (`toStoredTokens`), `Put`, and the use
of the token; each is a step of its own, so calls interleave as they do without a
lock. `Login` is the OAuth callback, which goes through the same `Receive` and
`Put`. `Dies` ends a call at any step and remembers in `lost` the refresh token it
held. Time is a clock that no call outlasts by more than `MaxDelay` (a Worker's
request is short); an access token is its expiry at Yahoo, and `expiresAt` is what
the code computed when the answer came. Whether Yahoo rotates refresh tokens is
its own choice, made once (`rotates`); if it does not, its answer may leave the
refresh token out.

### Calibration

`retros` is the table, `spec` the newest spec, `scale` the volatility scale.
`record` and `closeOut` are split at each read and write
(`RecordSnapshot`, `RecordSpec`, `Upsert`; `CloseOutSnapshot`, `CloseOutLoad`,
`Totals`, `Reload`, `UpsertClosed`), since Yahoo's week, the spec of the date and
the table are read apart. A part that fails is left (`Fails`) and the next one
begins, as `calibrationBestEffort` has it. The calendar matters: a day begins in
the night, Yahoo turns to the new week some time after midnight, the ticks come
after that, and a run may be dispatched before (`early` remembers this). A
prediction is reduced to its week, its banked days and the logarithm of its
volatility, and the sweep's Brier score to a distance of volatilities, so that
`Calibration` can tell a factor from an absolute scale and nothing finer.

### LineupMoves, LineupWrites, LineupAdvice

`LineupMoves` is `buildDailyLineupReport` and `buildYahooLineupExecutionMoves` as
functions of a roster (a position and a status for each player) and of the
league's slots, in the code's order of players and slots, and what Yahoo makes of
a list (`After`, `Acceptable`: counts, eligibility, IL only for the injured). A filter of
the code is a set of players here, and `SortedBy` puts a set in the order in which
the code goes through it (`InOrder`, that of Yahoo's answer; `BestFirst`, that of
the scores).
`LineupWrites` adds the writers: cron, admin route and OAuth callback read, put
and reread; the callback goes on to write everybody where he was
(`verifyWriteAccessForDate`). Any failure becomes "unauthorized", which keeps the
cron away until the row is ignored. `refused` remembers what Yahoo objected to.
`LineupAdvice` extends it: the optimal lineup by the code's search over slots
(`search`, `optimalAssignments`), which the spec shows with the pairing of starts and
sits (`recommendations`), the filter of the briefing, and a manager who may follow an
alert whenever he reads it. The search fills the scarcest place first, each by anyone
who is eligible and left, and keeps the first of the best complete lineups; `Lineups`
says without a search what lineups there are, and `LineupIsBest` compares the two.
Names and texts are left out, and so is the NA slot.

### WeeklyAdds

A report ranks the free agents that `selectSimCandidates` leaves: the first by the
season's worth and then by the week's, 20 of up to 200 in the code
(`MAX_SIMULATED_ADD_CANDIDATES`, `DEFAULT_FREE_AGENT_COUNT`), whatever slots are
open. `planTransactions` is `Entries` (free agents with their drops and edges), their
order (`Before`, `rankIn`), `Rejected` and `timingFor`; `ManagerBriefing` takes
from it by confidence and capacity (`confidenceFor`, `capacityScoped`,
`Precedes`) the one transaction that is shown. `report` is the day's decision
report, made by other projections or rosters than those the plan meets; the planner
weighs today's lines by the category weights of that report (`replacementValue`). The
situation of the categories, which the planner weighs, is a choice of `Situations`
for every plan; `Quiet` is one without alarms. Between plan and `Follow` players
are moved, dropped and hurt, projections and weights change, slots are filled, and the day or
the week ends. Yahoo's rules for a transaction are `Accepted` and `Landings`.

## What is checked

| Run | Instance | Shows |
|---|---|---|
| `pipeline` | 1 dispatcher, 1 workflow run, 2 units, 1 refresh, 1 fault, fairness | `TypeOK`, `OneStagePerTick`, `PartialsKeptApart`, `PreparedIsWhole`, `MixedOnlyAcrossWriters`, `SpecPinned`; the rows implement `PreparedBriefing`, liveness included |
| `senders` | tick, request and run, 1 publication, 1 fault, limit 2, fairness | `TypeOK`, `LimitKept`, `HealthyVerdictIsTrue`, `BudgetNotBurnt`, `DeliveredInOrder`; the senders implement `DailyDelivery`, liveness included |
| `day` | the twelve ticks of a day, a pregame window from 14 or from 22 UTC on, 1 run, up to 3 disturbances | limits (`TypeOK`), `SentByDayEnd` with up to 2 of them, `NoSilentDay` with all |
| `tokens` | a Worker call, a remote job and a login, lifetime 4, buffer 2, 2 tokens issued, 1 lost | `TypeOK`, `Custody`, `WorkerTokenAlive`, `RemoteTokenAlive` |
| `season` | 3 weeks of 2 days, a tick a day, runs by day and night, 1 fault, fairness | `TypeOK`, `PredictionOfItsWeek`, `ScaleIsEarned`, `RecordedWeekCloses`; the table implements `WeeklyBook` (`BookKept`) |
| `advice` | 4 players, one injured at first, cron, manager, 1 change, 1 fault, fairness | `AdviceTypeOK`, `TakenTogether`, `AdviceHelps`, `LineupIsBest`, `BothSettle` |
| `overtaken` | 3 players, one unfit at first, admin route and callback, either scope, 1 change, 1 fault | `RefusalExplained`, `WriteHelps`, `StartersKept` |
| `adds` | 7 players, a slot of each kind, 3 candidates, 2 projections, 4 rosters, limit 2, 1 change, fairness | `TypeOK`, `PlanFits`, `ScarceKept`, `RosterImproves`, `ChurnEnds`, `SlotsFill` |
| `mixed` | as `pipeline`, one context time | violated: `PartialsMatchCandidates` |
| `scale` | as `season`, by day, four values | violated: `ScaleFitsTheWeeks` |
| `blame` | 3 players of any health, cron, no fault | violated: `UnauthorizedIsYahoos` |
| `reserve` | 7 players, an open bench, limit 6 | violated: `ReserveKept` |

Bounds, and why they are enough. Two units are the fewest for which one may be
present and the other missing; a dispatcher and a run overlap in every way the
rows allow, since an invocation keeps no memory of its predecessors and the next
tick's dispatcher meets the chunks of the one that died; one refresh makes two
generations. In `senders` one fault separates a post from its report or a report
from its mark; each death between count and mark takes one of the day's sends,
so the limit must exceed the faults (12 in production). `day` has the production
limits and hours, and an early and a late game day. In `tokens` two issued
tokens let a refresh and a login cross, or two refreshes; the clock runs past
one lifetime. A season of three weeks has a first, an inner and a last one; a
week of two days has one with a fault and one without. Four players are the
fewest with two bench players and two starters, one of whom has to change place.
Seven players give each slot of `adds` an owner and leave three free agents, or more
where places are open. Three candidates are more than the two adds of a week, and
fewer than the four or five free agents of the open rosters: as with the code's 20, 6 and
200, free agents who could fill an open slot are left out of the report, and entries
that are rejected crowd out others.
`Lifetime` and `RemoteCache` are the code's 60 and 50 minutes, `Buffer` its 60
seconds (`EXPIRY_BUFFER_MS`), and `MaxDelay` the seconds from an answer's making to
its receipt, or from a token's choice to its use. The values keep the order that the assumptions
`BufferCoversDelays` and `FreshOutlivesCache` name (the buffer covers two delays of up
to half a minute); with units so coarse the buffer is two.

`season`, `scale` and `overtaken` say `CHECK_DEADLOCK FALSE`: a season ends, and
routes that nobody calls again stop. Elsewhere nothing stops.

Fairness. A dispatcher's or sender's own steps are weakly fair: an invocation that
is not killed goes on. So are `TickPrecompute` and `TickSelects`: the cron keeps
ticking and selecting a task that is due. Nothing is assumed of admin requests,
refreshes and workflow runs before they start. That the selection reaches the send
among its competitors is not assumed of a real day: `SentByDayEnd` shows it tick by
tick. `Calibration`: the cron starts a tick, what has begun goes on, time passes;
runs owe nothing. `LineupWrites`: the cron comes daily, an invocation goes on, by a
step or by a failing request, and an "unauthorized" status expires after its 30
days; in `LineupAdvice` days pass, a spec and a briefing are made, and the
manager, who follows what he reads, is an assumption about him, not about the
code. (`[]<>(spec # None)` is the weak fairness of `BuildSpec`, in a form that TLC
evaluates without computing the optimal lineup of every state.) `WeeklyAdds` likewise: a report a day, days that pass, a lineup that is
kept, and a manager who follows what the plan marks "act"; strong fairness is used
where days go by in between. Faults and unprompted changes are bounded, so they
end.

What `day` found. A due briefing wants a context at most an hour old, which is
the period of the cron, so while a briefing is due every second tick goes to
`refresh-context` (and a drift of a few seconds can make it every tick). A
matinee day uses its ticks as follows: projections, spec, context, reduce, context,
lineup, context, send. Two lost ticks still fit into the day; with three TLC finds
a day without a briefing. `send-briefing` is therefore retried at every second
tick at best, not at each of the twelve.

### Findings

* `mixed`: the generation of a spec is a hash of its context time only, which a
  Worker and a workflow run read from the same row. Their specs have their own
  candidates and share their partials' keys; a reduce then sums, for candidate i,
  a partial simulated from the other spec's candidate i. `MixedOnlyAcrossWriters`
  (checked and proved) says that this is the only way it happens.
* `scale`: the recorded lines were multiplied by the scale in force; the sweep
  multiplies them again, and its best factor is stored as the absolute scale.
* `blame`: a failed read of the roster, or a list that Yahoo refuses because it
  activates a player from IL to a place that is not free, is recorded as a refused
  authorization, and the cron writes no lineup for 30 days.
* `reserve`: the reserve is recomputed from the adds that are left and an open
  place on the bench is exempt from it, so five adds can be spent on a Monday.

Seen while reading the code, without a run of their own:

* pipeline: the artifact and its generation marker are two puts. A dispatcher that reduces an
  older spec may put its artifact after a workflow run's, and its marker before the
  run's; or it reads a marker that is not its own, puts its artifact after the run's
  and dies before its marker. The older briefing is left under the newer marker, and a
  later dispatcher takes it for the job's own, which `Scheduler.ts:317-318` excludes.
  What is published so is still whole (`PreparedIsWhole`).
* transactions: the free agents of a report are chosen without a look at the open slots. With a
  catcher hurt, outfielders whom nobody needs may take the places of the free catchers,
  and the slot stays open for weeks; `docs/strategy.md:264` asks for an urgent add.
  `SlotsFill` says what holds: a slot does not stay open while one of the report's
  first entries, as many as the week has adds, could fill it.
* pipeline: a workflow run that dies after its delivery and before
  its mark is repeated by the retry slot; `forceRegenerate=1` sends the prepared
  row again; resending a row a second time is what
  `tests/phase4/scheduler.test.ts:111` asks for.
* tokens: `remoteAccessToken` keeps a token for 50 minutes although the Worker may
  have handed it out late in its life.
* calibration: a run dispatched in the night a week begins records the old week's
  prediction under the new one (`early` excludes it from `PredictionOfItsWeek`);
  the replay of a stored week leaves out the totals already banked
  (`CalibrationHarness.ts:371`).
* scheduler: the marks of `refresh-context` and `refresh-projections` are put
  although `layerCached` may have answered from rows of up to 90 minutes and 20
  hours, while `selectDueTask` judges ages of 1 and 12 hours.
* lineup: a healthy IL player is sent directly to a playing position without a
  look at the free places in combination; the final reread only reports; the probe
  of write access puts back positions a later change has replaced; an
  improvement that needs a starter to change places is shown in the optimal
  lineup and never recommended (`DecisionEngine.ts:1005`, and the name of the test
  at `decision-engine.test.ts:1125`); rule 4 of `docs/manager-decision-rules.md`
  asks for more than `isProjectionMoveApplicable` does, and
  `manager-briefing.test.ts:368` tests the latter; advice computed before a bench
  player got hurt may start him; `replacementOptions` may list several fillers for
  one slot; an apply plan lists transaction steps while it says it is paused.
* transactions: an add that drops an active starter may leave no legal place for
  the added player (excepted in `PlanFits`); rejected entries use up the places
  that are looked at (hence `Reached` in `SlotsFill`), and on a
  weekend the last add is one to hold even for an open slot, so that `SlotsFill` fails
  with a limit of one; the best add
  can be rejected for lack of an urgency guardrail while a weaker one passes for
  having been put off; several steps can name one drop or one slot; waiver
  claims are unreachable, and so is the guard for `reserve-adds`; the scarce
  protection does not look at health; weeks and days are those of UTC.

## What is proved

Each theorem holds for every value of the constants that satisfies the module's
named assumptions. An `IInv` is the inductive invariant of its module.

| Module | Theorems (property) |
|---|---|
| `SimPipelineProofs` | `TypeCorrect` (`TypeOK`), `KeptApart` (`PartialsKeptApart`), `Whole` (`PreparedIsWhole`), `OneStage` (`OneStagePerTick`), `ImplementsPrepared` (`Spec => Prepared!Spec`), `MixedAcross` (`MixedOnlyAcrossWriters`), `Pinned` (`SpecPinned`) |
| `BriefingDeliveryProofs` | `TypeCorrect` (`TypeOK`), `VerdictIsTrue` (`HealthyVerdictIsTrue`), `InOrder` (`DeliveredInOrder`), `NotBurnt` (`BudgetNotBurnt`), `WithinTheLimit` (`LimitKept`) |
| `SchedulerDayProofs` | `WithinLimits` (`TypeOK`), `SentInTime` (`SentByDayEnd`), `NeverSilent` (`NoSilentDay`) |
| `YahooTokensProofs` | `TypeCorrect` (`TypeOK`), `InGoodHands` (`Custody`), `WorkersAlive` (`WorkerTokenAlive`), `RemotesAlive` (`RemoteTokenAlive`) |
| `CalibrationProofs` | `WellTyped` (`TypeOK`), `OfItsWeek` (`PredictionOfItsWeek`), `EarnedScale` (`ScaleIsEarned`), `KeepsTheBook` (`BookKept`) |
| `LineupProofs` | `ListsAreLegal` (`RefusalExplained`), `WritesHelp` (`WriteHelps`), `StartersStay` (`StartersKept`), `AdviceTyped` (`AdviceTypeOK`), `AlertsAreTakenTogether` (`TakenTogether`), `AlertsHelp` (`AdviceHelps`), `OptimalIsBest` (`LineupIsBest`) |
| `WeeklyAddsProofs` | `TypeCorrect` (`TypeOK`), `PlansFit` (`PlanFits`), `ScarceStaysCovered` (`ScarceKept`), `AddsImprove` (`RosterImproves`) |

* `SimPipeline`: `PreparedIsWhole` is not inductive, since a dispatcher publishes
  what it summed long before. `IInv` adds what each place of the program may rely
  on: `HoldsSpec` (past `readSpec` an invocation holds a spec), `CallsCanSimulate`
  (a chunk that has read a spec has a unit of it), `ReadyToReduce` (at `reduce`,
  no unit of the held spec is pending, which stays true because partials are never
  removed: `PartialsStay`) and `AssembledIsWhole`. `ImplementsPrepared` needs
  `StagesBehind` and `SpecOnRecord` besides. For the last two theorems there is
  `OneSpecEach`: whoever holds or waits to put a spec of its own has put none
  before, and every partial in the rows, calls or memories names a spec that was
  put; two specs of one writer in one generation are then the same.
* `BriefingDelivery`: `IInv` is `Types`, `Knows` (what a sender past a step may
  rely on: past a delivery that succeeded the chat has the briefing it holds; past
  a read, it holds what was on record then) and `RowsAgree` (a report of success
  names a briefing the chat received). `NotBurnt` counts: every sender that is
  going to count has a post that was acknowledged and not yet counted, of its own,
  so that the count never overtakes the posts, although counts get lost.
  `WithinTheLimit` counts those who will put a count without another look at the
  limit (`Committed`): at the limit their number only falls, and each makes room by
  what he puts (`LimitInv`). A late put takes back what was counted since its read;
  when it brings the count below the limit, others begin, while a higher count may
  still be on its way (TLC finds three Workers that exceed a limit of 5 by more than
  their number). So the history variable `reopened` tells how often the day was
  reopened, and the bound grows with it.
* `SchedulerDay`: limits follow from the guard of each selection within its tick
  (`WithinLimit`); `NoSilentDay` from `AlertsTried`, what the markers and the hour
  say of alerts that were posted. `SentInTime` weighs the ticks that are left
  against the work that is (`Suffices`): projections, spec and reduction take a
  tick each before the briefing is due; from then on each of them, the lineup and
  the send take two, since the context they want has to be fetched first, less one
  while the context is fresh; a disturbance takes two. `Balance` shows that no tick
  loses more room than it does work. The assumption `RoomInTheDay` says that this
  holds at the first tick of a day; with the production hours it is tight for two
  disturbances, and TLC finds the day that three of them spoil.
* `YahooTokens`: `Custody` needs to know of each refresh token who holds it:
  `Issued` (tokens are numbered by issue), `Owned` (a token that is in flight is
  its holder's alone) and the case that a token was presented twice.
  `WorkerTokenAlive` rests on `Punctual`, `StoredPunctual` and `CachePunctual`,
  which bound a token's true expiry by what the code computed, and on
  `BufferCoversDelays`; `RemoteTokenAlive` on `FreshOutlivesCache` as well.
* `Calibration`: whatever is under way by day is about the week Yahoo is at, since
  nothing is under way when a day begins (`Nights`); by night only a run is, whose
  spec may be of the old week, and then the new week is among the early ones
  (`OfTheDay`). `Memory` carries this from spec to page. `BookInv` adds what the
  refinement of `WeeklyBook` needs (`Work`, `OnTime`): a process holds the table as
  it was or a page of it that is closed by now, late in the night of a turn a run
  may still write the old week's page, and a page that is open after its week has
  cost a fault on every day since. With fewer faults than a week has days
  (`FaultsAreRare`) it is closed before the book moves on. `ScaleIsEarned` is a
  part of it: closed pages stay closed, so that what a sweep counted is there when
  it puts the scale.
* `Lineup`: `buildMoves` is a fold of `addMove` over the advisor's proposals, and
  they are folds, prefixes and filters of lists of players. `BuiltFrom` follows the
  fold along its partial results: nobody moves twice and a playing position
  receives one player (`Once`), and a move whose player and place nothing before it
  took is in the list (`Certain`). `WhoMoves` says who is moved where by each kind
  of move. From these `LegalList` counts each slot: the bench receives no more than
  it has room for, the IL no more than that and those who leave it, and a playing
  position one player, into an open place or for a starter who goes to the IL. A
  writer puts what it made from the roster it read (`WritesInv`), whatever happened
  in between; so `StartersKept` rests on what Yahoo accepts and on the kind of the
  move, and the other two on the roster being the same. `Recommended` follows the
  pairing of starts and sits likewise: no player is in two swaps and each is for the
  better, whatever lineup the search returned. `SwapFits` keeps the slots as full as
  they were, and `WorthGrows` says that a player adds his score to any sum.
  `OptimalIsBest` follows the search place by place: the partial lineups that reach a
  place are the ways to fill the places before it (`Searched`, `LineupsAreFillings`),
  and the last fold keeps one worth no less than any of them (`BestOfAll`). The fold
  needs one to begin with: there is one because every starter has a place that he may
  take (`InPlace`), which the writers keep, as Yahoo accepts no other change.
* `WeeklyAdds`: the roster fits its slots, and the plan on record is good for the
  roster and the adds it was made for (`GoodPlan`). From the plan's roster to
  today's, `ScarceKept` needs only that those who covered still do. A good plan also
  drops someone worth less than its add by the projections and weights it was made by
  (`EdgeIsPositive`). That does not depend on the roster, so `RosterImproves` holds
  whatever was done since: at every level of value the roster keeps its count, at some
  it gains. This is the measure behind `ChurnEnds`, whose liveness TLC checks.

Only model-checked: liveness (the live halves of the refinements,
`RecordedWeekCloses`, `BothSettle`, `ChurnEnds`, `SlotsFill`), which is out of the
prover's reach. `PartialsMatchCandidates`, `ScaleFitsTheWeeks`,
`UnauthorizedIsYahoos` and `ReserveKept` do not hold of the code.

## Not modelled

* The statistics: projections, simulation, category odds, trade values and season
  strategy are floating-point functions of one snapshot; a finite model says
  nothing of them. They appear as steps that write rows, or as the numbers a
  decision compares.
* Projection downloads and their cache layers (`ProjectionData.layerCached`,
  chunked rows and maximum ages of `ApiCache`).
* Rendering and message splitting, HTTP and payload decoding, the CLI, the D1
  proxy, read-only routes, and declarations of resources.
* `legacy/` is not built, and `repos/` are vendored third-party sources; they make
  up nearly all the lines of this repository.

## What could come next

1. `ProjectionCache`: ages, stale fallbacks and chunked rows, against the
   scheduler's idea of freshness (see the divergence above).
2. `SimulationUnits`: rosters of units and iterations of chunks (`DecisionEngine`), against reference definitions.
3. The measure behind `BothSettle` (what falls with every write and every swap), stated
   as an action property like `RosterImproves`, which the prover could reach.

## Running

    tlc -config SimPipeline_day.cfg MCSimPipeline
    tlc -config BriefingDelivery_senders.cfg MCBriefingDelivery
    tlc -config SchedulerDay_day.cfg MCSchedulerDay
    tlc -config YahooTokens_tokens.cfg MCYahooTokens
    tlc -config Calibration_season.cfg MCCalibration
    tlc -config LineupAdvice_advice.cfg MCLineupAdvice
    tlc -config LineupWrites_overtaken.cfg MCLineupWrites
    tlc -config WeeklyAdds_adds.cfg MCWeeklyAdds
    tlapm SimPipelineProofs.tla        (and each other ...Proofs.tla)

`PROJECT.json` names every run with its configuration, every variant with the
property it breaks, and for every definition the lines of source it models.
