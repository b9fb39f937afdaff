# Formal models of the tick-data trading agent

The repository simulates how generated trading strategies would have executed
on tick data of a stock exchange, and runs a loop that lets a language model
write strategies, backtests them and feeds the result back.  The models here
cover the parts whose correctness depends on the *order* of things: orders with
latencies, two sets of books, raw data that becomes market states, and research
loops with many ways out.

- `*.tla` without a prefix are models, `MC*.tla` give them constants for TLC,
  `*Proofs.tla` and `DataTheorems.tla` hold proofs, `*.cfg` are the TLC runs.
- Paths below are relative to `src/src/` unless they start with `docs`, `tests`
  or name a Markdown file at the top of the repository.

## 1. Inventory

### Parts and how they interact

A run is one Python thread.  Nothing is concurrent; what interleaves is
simulated time: a child order has a submit latency, a cancel latency, and a
strategy that sees the market with a delay.  Several loops visit the same
mutable order objects within one tick.

```
strategy_loop/loop_runner  --code-->  code_strategy  --signal-->  layer2 (targets, caps)
      ^    |                                                         |
 feedback  +--> memory_store (JSON files)                  layer3 (parent order)
      |                                                              |
 summary <-- layer6 (ledger, metrics) <-- layer7 pipeline_runner --> layer4 (slice, place, cancel/replace)
                      ^                        |                     |
                      +---- fill_simulator <---+---- layer5 (book, matching, queue, latency, halts)
                                 |
                                 +--> layer5/bookkeeper   (cash, lots)   and   layer6/pnl_ledger
```

| Component | State | Operations | Hard behaviour | What makes it correct |
|---|---|---|---|---|
| Backtest loop `layer7_validation/pipeline_runner.py` | active parent orders, open children per symbol, last submission, history | one iteration per state: observe, micro-events, process open orders, signal, parent order, slice | two clocks (true and observed), orders that outlive the tick, the same child in several lists | no overfill, lists agree, no order survives its parent |
| Fill simulator `layer7_validation/fill_simulator.py` | `_cancel_pending_count`, queue fields of each child | simulate fills, request / finalise cancels, record fills | a child trades while its cancel is in flight; submits not yet at the venue | cancels are timely, the counter is exact, fills are accounted once |
| Cancel/replace, timing, guardrails, placement (`layer4_execution/`) | none of their own | decide per child; when to slice; which policy | decided on the observed clock | a child with a request in flight is never decided on again |
| Queue models, matching, book, fees, latency (`layer5_simulator/`, `layer7_validation/queue_models/`) | queue ahead per child | advance the queue, cap and match | own fills do not deplete the book; rounding | nothing fills before the queue ahead is consumed |
| Micro-events `layer5_simulator/micro_events.py` | halts, VI | detect, tell whether tradable, cancel on a halt | an event lasts one tick or many | nothing trades during a halt |
| Bookkeeper `layer5_simulator/bookkeeper.py` | cash, positions, FIFO lots of both directions | record a fill | flips, partial lots | money is conserved, lots add up to positions |
| P&L ledger `layer6_evaluator/pnl_ledger.py` | average cost per symbol, entries | record a fill, mark to market, report | four cases of the average price | it agrees with the bookkeeper |
| Signals and positions (`code_strategy.py`, `layer1_signal/`, `layer2_position/`, `layer3_order/`) | the strategy's own position flag | signal → target → caps → delta → order type | the flag changes whatever is filled; caps applied in sequence | the account follows the flag, the caps hold together |
| Research loop `strategy_loop/loop_runner.py` (`run`) | attempts, best code, stuck counter, prompt memory, result | generate, gate, filter, backtest, judge, remember, validate out of sample | ten ways out of an iteration | a reported pass is backed by evidence; what the next prompt hears is what happened |
| Spec-centric loop (`run_spec_centric`) and `memory_store.py` | plan, strategy and global files | plan, review, code attempts, routing | crashes between and inside file writes, later sessions | the files tell what happened |
| Threshold search `strategy_loop/threshold_optimizer.py`, `distribution_filter.py` | five best values, the trials so far | inject values, backtest growing prefixes, prune, keep the best | a trial ends in four ways; a pruner compares it with earlier ones | the result is one candidate with all its numbers |
| Plan rules `spec_schema.py`, `spec_review.py`, `precode_eval.py` | none | review, effective features, score | one plan read by three sets of rules | a plan that passes can be coded |
| Slicing and scheduling (`slicing_policy.py`, `order_scheduler.py`) | none of their own | plan slices, child quantity, windows to avoid | integer rounding, windows that overlap | every share is planned once |
| Data layer `data/layer0_data/` | the feature pipeline's averages and previous values; VI and halt flags | read files, clean, align with trades, resample, build states, detect events | equal and missing times, rows dropped between two rules, one builder for many days | a state holds what was known at its time, of its own day |
| Monitoring `monitoring/`, execution metrics | event bus, counters | record, verify, report | verifiers with assumptions of their own | verdicts and reports match the orders |
| Risk and turnover statistics, reports, configuration, utilities, prompts | — | statistics, output, parsing, text | — | — |

`PROJECT.json` lists each with its files, what is modelled of it, and the
hazards at their lines.

### What is hard to test here

- Children that are partly filled, being cancelled, replaced and sliced anew at
  once; every path has to keep the committed quantity within the parent's.
- A counter (`_cancel_pending_count`) changed at six places and clamped at zero,
  so that drift never shows as a negative number.
- Two cost methods written side by side and read by different consumers.
- Loops with many exits that each have to update several variables together.
- JSON files rewritten in place.
- A strategy that flips its own position flag whatever is filled.
- A queue position that is advanced from two sources (trades and depth) which
  overlap.
- Cleaning, joining and resampling rules whose order matters for rows with equal
  times.

## 2. Modules

| Module | Models | Used by |
|---|---|---|
| `Shares` | the sum of quantities over a list of orders, as the number of single shares (no recursion, so that it can be proved about) | `OrderLifecycle` |
| `OrderLifecycle` | the loop of `PipelineRunner.run` for one symbol, with everything it calls that changes an order | `MCOrderLifecycle`, `OrderLifecycleProofs` |
| `Selections` | the elements of a sequence at some of its positions: list comprehensions with a condition, masks of a data frame | `Cleaning`, `Features`, `Matching`, `Monitoring`, `SpecRules`, `ThresholdSearch` |
| `DataTheorems` | facts about sums, folds, traces, selections, ranks and sums of fractions brought to one denominator | every module of proofs |
| `OrderLifecycleProofs` | its safety properties, proved for all constants | — |
| `Fractions` | exact rational arithmetic for the average price | `Accounting` |
| `FifoAccount` | abstract: an account of single shares that leave first-in first-out | `Accounting` (refinement) |
| `Accounting` | `Bookkeeper` and `PnLLedger`, written together by `record_fills` | `MCAccounting`, `AccountingProofs` |
| `AccountingProofs` | all its invariants, proved for all constants | — |
| `Feedback` | summaries of several symbols merged, diagnosis, severity and verdict | both loops |
| `StrategyLoop` | `LoopRunner.run` | `MCStrategyLoop`, `StrategyLoopProofs` |
| `ThresholdSearch` | `optimize_code_thresholds`, `_optimize_code`, the distribution filter | `MCStrategyLoop` |
| `StrategyLoopProofs` | all its invariants, proved for all constants; what a search returns, for all studies | — |
| `SpecLoop` | `LoopRunner.run_spec_centric` over the files of `MemoryStore`, with crashes and later sessions | `MCSpecLoop`, `SpecLoopProofs` |
| `SpecRules` | effective features of a plan, `review_spec`, `evaluate_spec`; `PlanHolds`, what a reviewed plan promises | `MCSpecLoop`, `SpecLoopProofs` |
| `SpecLoopProofs` | what it leaves on disk and how its loops start, for all constants; what the review guarantees, for all plans | — |
| `Rounding` | Python's rounding (half to even, towards zero, up) | `RiskCaps`, `Matching`, `ThresholdSearch`, `SpecRules` |
| `RiskCaps` | `RiskCaps`, `ExposureController`, `TurnoverBudget` over a book of any symbols | `SignalPosition` |
| `OrderRouting` | delta, typing, constraints, urgency, `OrderScheduler` | `SignalPosition` |
| `SignalPosition` | from the observed state to the parent order and the account: strategy flag, target, caps, throttle, delayed view | `MCSignalPosition`, `SignalPositionProofs` |
| `SignalPositionProofs` | all its invariants for all constants; the caps for all books, the schedule for all orders | — |
| `Matching` | snapshot, book, `MatchingEngine`, fees, slippage | `QueueGate`, `Venue` |
| `QueueGate` | the queue models and the gate of `FillSimulator` | `Venue` |
| `Slicing` | placement policies and slicing policies | `Venue` |
| `Monitoring` | event bus, verifiers, reporters | `Venue` |
| `RunReports` | `ExecutionMetrics` and the simulator's diagnostic counters | `Venue` |
| `Venue` | the instrumented `FillSimulator` at work on the children of one order | `MCVenue`, `VenueProofs` |
| `VenueProofs` | the matching, the queue discipline and the slicing, proved for all constants | — |
| `Cleaning`, `Synchronizing`, `Features`, `MicroEvents` | `DataCleaner`, `DataSynchronizer`, `FeaturePipeline`, `MicroEventHandler` | `DataLayer` |
| `DataLayer` | files, dates and calendar, `MarketStateBuilder` and the event handler over a range of days | `MCDataLayer`, `DataLayerProofs` |
| `DataLayerProofs` | states, features, blocks and the two cleaners, proved for all constants | — |

### OrderLifecycle

`pc` names the loop that is running and `todo` the children it has still to
visit, so that every loop body is a step of its own and may meet what the one
before it did.

| Variable | Code |
|---|---|
| `now`, `Observed` | the true state's timestamp; `_lookup_observed_state` |
| `parent`, `child`, `n` | `_active_parent_orders[symbol]` and its `child_orders` |
| `open` | `_open_child_orders[symbol]` |
| `todo`, `exec` | the loop variables of `process_open_orders` and `simulate_fills`; `executable_children` |
| `pending` | `FillSimulator._cancel_pending_count` |
| `halted`, `market` | `MicroEventHandler._halt_active`; the state and its events |
| `lastSent` | `_last_child_submission` |

| Action | Code |
|---|---|
| `Tick` | the head of the iteration in `run` |
| `OpenAllFinalized`, `OpenNotActionable`, `OpenActionable` | the three ways through the first half of `_process_open_orders` |
| `DecideKeep`, `DecideCancel`, `DecideReplace` | one turn of its loop over cancel/replace decisions |
| `FillCancelled` … `FillMatched` | one turn of the loop of `simulate_fills`, one action per way out |
| `FillDone` | `_sync_open_children` and the removal of a finished parent |
| `CreateParentOrder`, `SliceOrder`, `SliceNothing`, `SkipTick`, `NoOrder` | the rest of the iteration |

The market is an input: whether the state is tradable and has a mid price, a VI
event, how far a child's price is from the best quote (in three classes), and
how much it matches.  Prices themselves do not appear.  Other abstractions:

- One symbol.  The loop handles symbols one at a time; what they share is the
  counter `pending` and the account.
- States are `TickMs` apart.  Irregular states and the pruned history are in
  `SignalPosition`, the sub-tick arrival rule with prices and queues in `Venue`.
- Decisions are applied as they are made; the code decides all first.  A
  decision reads only its own child, so this is the same.  Children are visited
  in list order although the code runs those in flight first: their committed
  quantities are disjoint, so the order does not matter to any property.
- As `_setup_components` builds them, the timing logic has the interval and
  deadline triggers only, guardrails only the limit on open orders, and the
  action after too many reprices is to keep.  `MaxReprices >= MaxChild` stands
  for no limit.
- A VI can be raised on any tradable tick, more often than the detector would.
- `MaxChild`, `MaxQty`, `MaxTime` bound the model.  `n < MaxChild` in
  `DecideReplace` and `SliceOrder` is a bound, not a guard of the code: at the
  bound the loop leaves without that child.

### Accounting

One action per fill direction and one for a mark, each writing both sets of
books as `record_fills` does.  Average prices are exact fractions; the code
uses floats.  The matching loops over lots are folds that mirror their bodies.
The ledger's `mark_to_market` has no caller under `src/src` (only tests use it);
it is modelled as a call with the bookkeeper's position.  `fills` is the
bookkeeper's own history, from which `compute_realized_pnl` and the attribution
work the realised profit out again.  Slippage and impact columns,
`close_position` (tests only) and `reset` are left out.

`FifoAccount` states what the bookkeeper promises: single shares in a queue.
`ImplementsFifo` is the refinement `shares <- the lots unrolled`.

### StrategyLoop, Feedback and ThresholdSearch

A strategy is the number of the iteration that generated it.  One action per
way out of an iteration (`Skip`, `Filtered`, `Evaluated`, `FeedbackRaises`) and
of the stop condition (`StopWithoutOos`, `OosPasses`, `OosFails`, `OosRaises`).
What a backtest can report is the constant `Summaries`, per symbol; merging and
judging are the controller's, with its thresholds as exact ratios.  The lists
of prose (insights, failure patterns, suggestions) and `strategy_info.json` are
left out.  `for` bounds the loop, so there is no liveness to state.

What the gate, the search and the filter do with a code is inside `Skip` and
`Filtered`, as any outcome.  `ThresholdSearch` has the rules: a study is a fold
of `Try` over its trials, a trial a fold of `AfterStage` over its stages, with
the values and the backtest summaries of each trial given.  The sampler is an
input; the pruner is optuna's (external, from its settings and documentation:
the median of the completed trials at the same step).  Returns and drawdowns
are whole basis points.

### SpecLoop and SpecRules

The outer loop over plans, the inner loop over attempts, and between them the
files.  A step that writes a file ends right after the write, so `Crash` can
come between any two writes; `Tear` leaves the file half written that the next
step would write.  `StartSession` begins a new session on the same directory:
local variables start afresh, files stay.  A torn global file makes the next
attempt raise (`GlobalUnreadable`); a torn plan file is skipped by
`load_planner_memory` and never read otherwise; a torn strategy file is never
read.  The loop lets a plan meet any outcome of review and score; `SpecRules`
has their rules, with features, parameters and conditions by name, scores as
exact ratios and the recorded score rounded as in the code.
The prompt memory is that of `StrategyLoop` and is not repeated.

### SignalPosition, RiskCaps, OrderRouting

`Read` appends a state to the history and prunes it, `WorkOpen` fills any part
of what is working.  `Blocked` (a parent is still active) and `NoDecision` end
the iteration; `Decide` takes the strategy's answer to the state it observes
(delayed, from the pruned history) and makes of it a signal, a capped and
throttled target, a delta, a typed and constrained order, which `FirstFills`
may fill at once.  How much fills is an input (`OrderLifecycle` and `Venue` have
the rest).  `last` records what the latest decision was made of, for the
properties.  Values that the code scales by configuration (10 % of the account
per symbol, a throttle of half the account) are scaled down with the account.
The portfolio state estimator and the hold rules are left out: no caller in the
pipeline uses the one or enables the others.

### Venue, with Matching, QueueGate, Slicing, Monitoring and RunReports

`OrderLifecycle` takes any fill a match could give; here it is computed.  A
state of the market is a snapshot and a tape (price to traded volume).

| Action | Code |
|---|---|
| `Submit`, `NoSlice` | `_slice_order` and the matching of the new child in the same state |
| `NextState` | `_process_open_orders` in an actionable state: due cancels, new requests, `simulate_fills` |
| `HaltedState` | the same in a state that is not actionable |

`Match`, `JoinQueue`, `Advanced`, `Ready`, `CapFill` are the code's functions of
the same names or those named beside them.  A fill is its quantity and its
whole cost, so no average price is rounded; queue volumes are in `Units` per
share so that half of a drop is a whole number.  `bus` holds the events of the
instrumented simulator and `diag` the counters of the plain one.  Replacements
are in `OrderLifecycle` only.  Snapshots do not lose what a child takes, as in
the code.

### DataLayer, with Cleaning, Synchronizing, Features and MicroEvents

`LoadDay` turns the raw rows and trades of one file layout into a clean, joined,
possibly resampled day; `BuildState` makes the next state of it with its
features and gives it to the event handler; `EndDay` goes on to the next date
of the range with the same builder.  Times count half seconds: before the open,
twice in the regular session, after the close.  A row's receive time may be
missing, its file unreadable.  Float features are exact integers or fractions;
volatility and the features that restate one column are left out.  `range`
holds the dates still to build as a set that `LoadDay` takes the least of; the
trades of a day may come in any order, as the code does not sort them.

## 3. Runs

Each configuration uses small values around the places where cases differ.

| Run | Checks | Bounds and why they are enough |
|---|---|---|
| `order_lifecycle` | `TypeOK`, `NoOverfill`, `FillAccounting`, `OpenInSync`, `PendingCountExact`, `CancelTimely`, `FinalChildrenStay`, `TimeoutsKeepTime` | three children (original, replacement, new slice) of up to three shares over four ticks; latencies of zero and of more than one tick; a delay below a tick; a timeout reached within the run |
| `accounting` | `TypeOK`, `LotsMatchPosition`, `NavIdentity`, `ReportAgreesWithNav`, `RealizedProfitsAgree`, `ImplementsFifo` | four entries are the shortest history with two lots, a partial close and a flip; two symbols (symmetric), two prices |
| `signal_position` | `TypeOK`, `HeldMeetsDecision`, `HistoryReachesBack`; over all small inputs `CapsLeaveOnlyNet`, `ScheduleIsComplete` | lots of two shares, so that orders are rounded; four states with gaps above and below the delay: an entry, an exit, a rejected or throttled order and a pruned history; books of two symbols that break every cap alone and together; up to seven shares in five slices around three windows |
| `venue` | `QueueDiscipline`, `MonitorVerdicts`; over all small inputs `MatchesAreSound`, `SlicesAreComplete` | two children over three states; five snapshots so that a resting order is passed, crossed, left without a level and joined, one of them with an empty side, at which nothing is matched; latencies above and below a tick, jitter below zero; no queue, a probabilistic and a pro-rata one; a fee tolerance that a sale of one share stays within and one of two shares does not; schedules of up to four states, whose spacing gives TWAP one slice, one per state, and some number between |
| `data_layer` | `StatesAreFaithful`, `CleanersAgree`, `FeaturesAreOfTheDay`, `BlocksAreExact` | three dates with a holiday; days of up to four rows with equal, missing and unordered times, bad rows, an outlier, trades in the row or beside it; no, fine and coarse resampling; every detector fires, and lifts over night |
| `strategy_loop` | `TypeOK`, `PassIsEarned`, `BestIsMostProfitable`, `StuckIsExact`, `FeedbackIsLatest`; over all small studies `SearchKeepsBest` | four iterations overflow both windows; six summaries on two symbols reach every diagnosis but one (no fills after a signal, which routes like the other parametric ones); studies of two and three trials over two and three stages, with every kind of invalid stage, pruned early, late and never |
| `spec_loop` | `PassedPlanHasStrategy`, `ReturnedPassIsOnDisk`, `OutcomeMatchesStrategies`, `LoopsStartFresh`, `ClosedPlansStay`; over all small plans `ReviewedPlansHold` | two sessions of two plans of two attempts, at most three strategy files; four kinds of judgement; plans of up to two entry conditions and derived features with every error and warning of the review |
| `ioc_rests`, `replacement_queue`, `exit_goes_short`, `multi_symbol_report`, `oos_exception` | one claim of a comment or a document each, which TLC refutes | see section 5 |

Deadlock checking is on in every run; where a model may end it stutters in a
named action (`Finished`, `Full`, `Returned`, `AllSessionsOver`, `Ended`).

What the less obvious properties say, in short:

- `TimeoutsKeepTime`: a timeout is measured between two observed states, while
  the order lives on the true clock.  No order times out before its true age has
  reached the timeout, and none is later than the observation delay, rounded up
  to whole ticks.  The mutant reads the true clock in one of the two places.
- `HeldMeetsDecision`: what is held and what is working is, to a lot, the target
  of the last order that was sent; rounding never takes it across zero from the
  target; and the target never passes the cap.
- `CapsLeaveOnlyNet`: of the caps applied once in sequence only the net one can
  be exceeded afterwards, and only because a later cap shrank one side; the
  others are kept up to the rounding to whole shares.
- `MatchesAreSound`: one match, at any state with a mid price, stays within its
  limit, the depth and the tape.  It says nothing of two children that take the
  same depth: the code matches each against the snapshot as recorded.
- `QueueDiscipline`: no share of the queue ahead vanishes that no trade and no
  unexplained drop of the level accounts for, and a gated order fills only
  through an open gate.
- `MonitorVerdicts`: exactly which runs the verifiers complain of, and the
  reports and counters against the orders themselves.
- `StatesAreFaithful`: every state is some raw row, complete, of a valid time of
  its day, and with the trades known by then (or within its bucket).
- `CleanersAgree`: where the two cleaners may differ, and only there.
- `FeaturesAreOfTheDay`: features are those a fresh pipeline gives for the day.
- `BlocksAreExact`: what is blocked is what the jumps between states say.
- `SearchKeepsBest`: the search hands on the best candidate that went through
  every stage, with the numbers of its run on all the data; pruning at the last
  stage loses nothing; search and filter agree on entry frequencies.
- `ReviewedPlansHold`: a plan that passes its review comes down to known raw
  features and declared parameters in one way, and its score is that of what
  its conditions use.
- `ScheduleIsComplete`: no share of a schedule is lost when slices are carried
  out of avoided windows.  The runner has no call of `split_schedule`.

`venue` and `spec_loop` list no type invariant: `MonitorVerdicts` relates every
report, counter and record of a child to the others, and the types of
`SpecLoop` are the first conjunct of `Base`, which is proved.

**Liveness and fairness.**  No run states liveness and no specification assumes
fairness.  The code is one thread that waits for nothing.  The loops of the
models are Python `for` loops over lists fixed before they begin; the `while`
loops of the bookkeeper and the attribution end a lot or the quantity on every
turn.  Beyond that the code promises nothing: a parent may stay active to the
end of the data.

## 4. Proofs

All properties of the seven passing runs but one (named at the end of
this section) are proved for every value of the constants.  The assumptions on
the constants are in the modules that declare them, and TLC evaluates them in
the runs:

- `LifecycleAssumption`, `LoopAssumption`, `AccountingAssumption`: constants are
  naturals or sets of naturals, symbols are finitely many, prices and filled
  quantities are positive.
- `FeedbackAssumption`: symbols are finitely many, summaries have their type.
- `DecisionAssumption`: in addition, states are at least a tick apart (the tick
  is the canonical interval the retention length is computed from), a mid price
  exceeds the half spread, and `MinQty > 0`: the runner builds
  `OrderConstraints()` with its default of one (`pipeline_runner.py:752`,
  `order_constraints.py:45`).  With zero an order of no shares could be sent.
- The other modules' assumptions (`CapsAssumption`, `RoutingAssumption`,
  `MatchingAssumption`, `QueueAssumption`, `SlicingAssumption`, `VenueAssumption`,
  `CleaningAssumption`, `SynchronizingAssumption`, `DataLayerAssumption`): limits,
  fees, latencies and windows are naturals, books and tapes hold priced levels,
  days hold rows.

**OrderLifecycle.**  Any number of children, any quantity, latency set, policy
and length of the run.

| Theorem | Property |
|---|---|
| `TypeCorrect` | `TypeOK` |
| `StructureAlways` | what the lists of the running loops hold |
| `NeverOverfilled` | `NoOverfill` |
| `FillsAccounted` | `FillAccounting` |
| `OpenChildrenInSync` | `OpenInSync` |
| `PendingCountNeverDrifts` | `PendingCountExact` |
| `CancelsAreTimely` | `CancelTimely` |
| `TimeoutsAreOnTime` | `TimeoutsKeepTime` |
| `FinalChildrenNeverChange` | `FinalChildrenStay` |

None of these is inductive alone.  The inductive invariant is built in layers,
each of which may use the ones before it:

1. `Typed`: `TypeOK`, and no child has filled more than its quantity.
2. `Structure`: positions beyond `n` are empty; what is in `todo`, `exec` and
   `open` is a live child that this loop has not finished with.  Without it a
   loop could visit a cancelled child again, and a sliced child could overwrite
   an existing one.
3. `NoOverfill`: the committed quantity `InFlight` is a sum over all children.
   `DataTheorems` gives what changing one or two of its terms does; a
   replacement keeps the sum since it moves the rest from one term to another.
4. `FillAccounting`, over the same sum.
5. `ListInSync`: while a loop runs, `open` may lag behind; it is made up for
   before the next tick.
6. `RequestsCounted`: the counter is exact *and* a child still to be decided on
   has no request, without which `DecideCancel` could count one twice.
7. `Stamped`: every child that exists was requested at a state, no later than
   now and in whole ticks from it; the observed state is behind the true one by
   the delay rounded up to ticks (`ObservedLag`), so that the two clocks differ
   by less than `Delay + TickMs`.
8. `CancelAhead`: during an iteration a due cancel can only belong to a child
   the running loop has yet to visit.

**Accounting.**  Any number of symbols and fills, any prices, quantities and
fees.

| Theorem | Property |
|---|---|
| `TypeCorrect` | `TypeOK` |
| `LotsAlwaysMatch` | `LotsMatchPosition` |
| `NavAlwaysAccountedFor` | `NavIdentity` |
| `ReportAlwaysAgreesWithNav` | `ReportAgreesWithNav` |
| `RealizedProfitsAlwaysAgree` | `RealizedProfitsAgree` |
| `ImplementsFifoAccount` | `ImplementsFifo` (refinement) |

- The matching loop first: `Realised` says that closing `q` shares takes exactly
  `q` shares out of the queue, and that the profit is their proceeds less what
  they cost.  The four ways a fill is booked (`Open…Accounted`, `Close…`,
  `Cover…`) rest on it.
- `CashInv` is what makes `NavIdentity` inductive, which speaks of prices and not
  of cash: every payment is for an open lot, has been realised, or was a fee.
- `LedgerInv` is the same for the average cost, whose fractions differ from
  entry to entry: there is a denominator `d` over which the profits the ledger
  has realised are the cash that came in and the average cost of what is open.
  A fill multiplies `d` by the size of the position.  `Worth(f, d, x)` (the
  fraction `f` is `x / d`) keeps all of this in whole numbers, where products
  of unknowns can be rearranged by four small lemmas.
- `LastEntryInv` and `SilentInv` tie the report to the books: its open profit is
  that of the last entry, and a symbol without entry holds nothing.
- `ReplayInv`: the position, lots and profits worked out again from the fills
  (`compute_realized_pnl`) are those kept as it goes.
- `AttributedInv`: while no prefix of a symbol's fills sums to a short position,
  the attribution's one queue is the bookkeeper's long queue.  A sale then
  never asks for more than is held, which is where the two would part.
- The refinement is proved step by step: every fill is a `Fifo!Trade`, a mark a
  stutter.  `Standing` is what one turn of the matching loop keeps: of the shares
  unrolled so far, those served have left from the front and earned their own
  profit, and the loop passes a lot only when all before it is gone
  (`UnitsServed`, `UnitsRealised`).  `Requeued` is then the same statement for
  each of the four accounting paths; when a short is covered and flipped, one of
  the two queues is empty, so that their order does not matter.  `FillTurns` gets
  the new direction from what is left in the queue.

**SignalPosition.**  Any configuration the assumption allows.

| Theorem | Property |
|---|---|
| `TypeCorrect` | `TypeOK` |
| `HeldAlwaysMeetsDecision` | `HeldMeetsDecision` |
| `HistoryAlwaysReachesBack` | `HistoryReachesBack` |

- That rounding never crosses zero is not inductive: a position of half a lot
  would let an order, rounded down to lots, leave the account on the other side
  of its target.  `PositionInv` adds that the settled position (held and working) is one of
  whole lots, since only whole lots are ever ordered.
- `HistoryInv`: while states are dropped the history is full, and its states are
  at least a tick apart; then the oldest is `(n - 1)` ticks old, and the retention
  length was rounded up so that this is at least the delay.
- Along one run it is enough that each cap moves the target towards zero and the
  throttle moves it towards the position.

The rules the run checks over small inputs hold for all inputs:

| Theorem | Says | Instance |
|---|---|---|
| `CapsKeepLimits`, `BudgetKept`, `DilutionChangesNothing` | the limits after the caps, the turnover after a throttle and the concentration after a dilution, for a book of any finite set of symbols, any prices and any account | `CapsAlwaysLeaveOnlyNet` for `CapsLeaveOnlyNet` |
| `ScheduleIsWhole` | a parent order of any quantity, starting at any time, in any number of slices | `ScheduleAlwaysComplete` for `ScheduleIsComplete` |

- A cap multiplies every position by one ratio and rounds it to whole shares.
  Each rounding is off by half a share at most, so a sum over the book is off by
  `Slack`, half of one share of each symbol; a sum over any finite set is bounded
  term by term (`SumMonotone`).  The single cap rounds towards zero and needs no
  slack.
- `Shrunk` (each position is between zero and the one before) goes through all
  four caps, and keeps what an earlier cap has achieved, except for the net.
- The schedule's base slices sum to the remaining quantity; avoiding the two
  windows merges slices, which keeps the sum, and leaves the starts in order.

**StrategyLoop.**  Any number of iterations, symbols and summaries.

| Theorem | Property |
|---|---|
| `TypeCorrect` | `TypeOK` |
| `PassAlwaysEarned` | `PassIsEarned` |
| `FeedbackAlwaysLatest` | `FeedbackIsLatest` |
| `StuckAlwaysExact` | `StuckIsExact` |
| `BestAlwaysMostProfitable` | `BestIsMostProfitable` |

The invariant adds that nothing is reported while the loop runs and that at the
stop condition this iteration's strategy is saved as passed; `Counted`, that the
counter there is already zero; and `Ranked`, that strategies are saved in the
order of their iterations and the best net P&L is that of the first which nothing
saved exceeds, whether it was a profit or not.

| Theorem | Says | Instance |
|---|---|---|
| `SearchIsSound` | what is handed on, for any code with a constant and any study: any number of trials over any number of stages, any summaries, any settings of the pruner (`IsStudy`) | `SearchAlwaysKeepsBest` for `SearchKeepsBest` |
| `StagesAlwaysRight` | the stages of any data and any list of prefixes | the same |
| `FrequencyAlwaysAgrees` | search and filter on any answers and any sample | the same |

- `IsStudy` asks that a stage which is valid scores above the penalty of an
  invalid one (`_FREQ_PENALTY`, -10^6 basis points: the initial cash lost a
  hundred times over); the code would not hand on a candidate at or below it.
- A trial is the trace of `AfterStage` over its stages.  `IsOutcome` says what is
  known after `m` of them: what was reported, that all but the last stage were
  valid, and what the trial has earned.  At the end `TrialIs` has what the study
  needs: an unpruned trial is valid exactly if every stage was, and its result is
  then the one on all the data.
- A trial pruned at its last stage is `Beaten` by an earlier one.  The pruner
  compares with a median, so one of the values it was taken from is larger
  (`PrunedBelow`); `Sorted` puts the element with `k - 1` before it at place `k`,
  which exists and is unique by the facts on ranks (`RanksTaken`, `SortedSound`).
  A report above the penalty at the last stage belongs to a candidate that was
  kept.
- The study is the trace of `Try`; `Found` says that the best so far is one of
  the kept candidates, with its own numbers, and that none scores more.

**SpecLoop.**  Any number of sessions, plans per session, attempts per plan,
symbols and summaries, with crashes anywhere.

| Theorem | Property |
|---|---|
| `PlansClosedOnce` | `ClosedPlansStay` |
| `PassedPlanIsBacked` | `PassedPlanHasStrategy` |
| `ReturnIsOnDisk` | `ReturnedPassIsOnDisk` |
| `BothLoopsStartFresh` | `LoopsStartFresh` |
| `OutcomeAlwaysMatches` | `OutcomeMatchesStrategies` |

The invariant has four layers.  `Base`: the state is well formed but for the
amounts; plan files come in order, no more of them than iterations begun, so
that a planned iteration always finds a new one (`NewPlanIsNew`); the current
plan's record is open until the loop leaves it.  From it `PlanSteps`: a step
leaves the plan files alone, writes a new one, or updates the current, open one.
`Evidence`: the strategy being routed is on disk with its judgement, and passed
plans are fewer than sessions until this session passes.  `Fresh`: what the
inner loop remembers is about the current plan, and an abandoned plan has been
told of before the loop moves on.  `Scored`: place by place, which strategies of
the current plan are on disk, that none but the last was a structural failure or a
pass, and that none has a better net P&L than the best one remembered.

| Theorem | Says | Instance |
|---|---|---|
| `ReviewedPlanHolds` | what the review promises (`PlanHolds`), for a plan with any names and any number of conditions, parameters and derived features (`IsPlan`) | `ReviewAlwaysHolds` for `ReviewedPlansHold` |

A plan is made of sequences whose elements are of any kind, since the rules only
compare names.  `MeaningIsOne` says that a condition of a valid plan has one
meaning, made of known raw features; `Trimmed` keeps exactly the elements a
condition uses, so that the sets behind the review and the scores are the same.

**Venue.**  Any books, tapes, latencies, queue models and policies, any number of
children and states.

| Theorem | Property |
|---|---|
| `MatchingIsSound` | `MatchesAreSound` |
| `QueueIsDisciplined` | `QueueDiscipline` |
| `SlicesAlwaysComplete` | `SlicesAreComplete`, an instance of `SchedulesAreWhole` (any quantity, any number and spacing of states, any depths) |

- A walk over the levels of a book is the trace of a fold: what it has taken is
  bounded level by level, and its cost by the limit times what it has taken.
- `QueueDiscipline` speaks of the event bus, and a step of the simulator appends
  to it what the loop over the children has done.  `LogIsSound` relates the two:
  the last tick of a child on the bus is where that child's queue is, each tick
  takes from the one before no more than its trades and its unexplained drop,
  and a gated fill has an open tick of the same state.  The simulator's loop is
  a recursive function; it is shown to exist first (`IterationExists`), then
  each turn is shown to keep the relation for the child it works on and to leave
  the others alone.  The ticks of a child that the bus filters out are not
  there to be compared: for such a child the second half is only claimed when
  `Kept(id)`.
- Each slicer has a lemma (`TwapWhole`, `VwapWhole`, `PovWhole`,
  `AlmgrenChrissWhole`).  TWAP and VWAP round positions of the horizon; two of
  them stay apart because they are more than one whole state apart before
  rounding.  The trajectory gives the shares its rounding left over to the
  largest remainders: `FirstRanks` (of `DataTheorems`) says that of any finite list exactly the first
  `k` ranks are given, whatever the ties.  POV puts what the depths could not
  take into its last slice.

**DataLayer.**  Any days, trades, calendar, layouts and frequencies.

| Theorem | Property |
|---|---|
| `HandlerIsExact` | `BlocksAreExact` |
| `FeaturesAreFresh` | `FeaturesAreOfTheDay` |
| `StatesSound` (with `SpreadLimited`) | `StatesAreFaithful` |
| `CleanersAlwaysAgree` (with `SpreadLimited`, `RowsArePadded`) | `CleanersAgree` |

- `HandlerIsExact`: `Handled` is what one state does to the handler; the
  invariant says which of the states before is the last that could have changed
  each flag.
- `FeaturesAreFresh`: the pipeline the builder carries from state to state is the
  fold of the states so far from an empty one; the lookback only cuts what the
  windows do not reach (`Lookback >= LongWindow`, as configured).
- `StatesSound`: the rows of a day are followed through cleaning, joining and
  resampling (`StatesInv`); a resampled row is the last of its bucket.
  `SpreadLimited == MaxSpreadBps < 20000` is needed because 20000 basis points is
  the spread of a row without any bid (`(ask - 0) / (ask / 2)`): with a larger
  limit `DataCleaner` would keep such rows.  The default is 500
  (`cleaning.py`).
- `CleanersAlwaysAgree`: one row after the other is judged alike (`JudgedAlike`):
  a good snapshot comes from a fit row, and a fit row that is not too wide gives
  a good snapshot.  `clean` keeps of each time the first or last fit row
  (`SingleChosen`), `clean_snapshots` the first or last good snapshot
  (`DistinctThose`, from the trace of its loop), and the two can only differ
  where the fit row that stays is not good.  `RowsArePadded` says what the feed
  does with the columns it has no level for: they come behind the priced levels
  and hold no volume that decides.  Without it the cleaners do differ: `clean`
  counts the volume of a level without a price, a snapshot does not have it.

**Sums and folds.**  The community modules define their folds by a recursive
function that is CHOSEN, so nothing is known of it until one is shown to exist,
and induction over data is out of the prover's reach.  `DataTheorems` does
without: a set of *counterexamples* that is not empty has one of least
cardinality (`SmallestSet`, from the least natural of a set of naturals), and
the recursion leads from it to a smaller one.  `FoldExists` shows in this way
that the function exists for any step, `FoldLeftExists` and `FoldLeftTrace`
turn a fold over a sequence into its *trace*, a function from
`0 .. n` that starts with the base and takes one step per element.  From there a
fact about a loop over lots, entries or fills is one about neighbouring values
of its trace, once more by a least counterexample (`UpTo`).  `FoldExists` needs
the step as a function, so each fold of `Accounting` gets its trace from a lemma of
its own (`StartedTrace`, `RealiseTrace`, `RebuiltTrace`, …).  `OfSymbol` is written as a
fold for this reason: nothing can be proved about `SelectSeq`.

`At` of `Selections` is a recursive function of the positions instead of the
community modules' `SelectSeq` for the same reason (`AtMembers`, `AtKept`), and
`Sorted` of `ThresholdSearch` is written with ranks instead of `SortSeq`.

**Model-checked only:**

- `MonitorVerdicts`: it relates every report, verdict and counter to the whole
  history of every child, so its invariant is one per reporter; it has not been
  carried through.

## 5. Where code and comments disagree

- **An IOC order rests after a partial fill** (`ioc_rests`).  Only an IOC child
  that matches nothing is cancelled.
- **A replaced passive order skips the queue** (`replacement_queue`).  The
  replacement is built without `placement_policy`, which the queue gate reads;
  it happens when `PassivePlacement` is configured and the signal gives no
  placement hint.
- **An exit goes short** (`exit_goes_short`).  `code_strategy.py:12` says -1
  closes the position; the answer becomes a signal of score -1 and the target
  builder sizes it as it sizes an entry.  TLC buys 4, exits, and holds -4.
- **With several open symbols the report's unrealised P&L is that of one**
  (`multi_symbol_report`).  Runs over one symbol are not affected.
- **An exception in the out-of-sample backtest is a pass** (`oos_exception`),
  against the table of end conditions in `PIPELINE.md`.

Noticed while reading and not checked by a run: `memory_store.py:29` lists the
outcomes `pass`, `fail` and `no_code_pass`, while the loop writes `spec_invalid`,
`precode_rejected`, `structural_fail`, `no_code_pass` and `pass`;
`append_insights` says it removes duplicates but keeps those within the new list;
`risk_caps.py:183` says constraints are applied until all are met, the code
applies each once; `cancel_orders_on_halt` names VI events and does not test for
them; the comment at `loop_runner.py:309` calls the stuck counter one of
iterations, but skipped iterations are not counted.

More of the same, by part:

*Signals and positions.*  The net cap may be exceeded again after the
leverage cap.  An account worth nothing or less skips the single and leverage
caps.  `split_schedule` carries an avoided slice to the slice before it, the
comment says the next one; an order that starts in the closing window gets a
slice in its past.  The scheduling hint and the limit price of the parent are
recorded but not used by the slicing.

*Venue.*  One trade both drains the queue ahead and fills the order behind it in
the same state.  A price level that disappears is replaced by the nearest one,
and an order inside the spread queues behind the best level.
`layer4_execution/README.md:53` says the queue is initialised when the order is
submitted, the code does it at the first simulation after arrival.  TWAP, VWAP
and Almgren-Chriss are asked for one state at a time and so send everything
that is not in flight at once.  The fee verifier's default tax for KOSPI is 20
basis points, the fee model's 18 (and the other way round for KOSDAQ), so every
large enough sale fails verification; `MonitorVerdicts` says exactly which.  The
queue verifier takes a gate that shuts again for an error although
`ready_to_match` does so whenever the price leaves the order.  The queue report
averages over an event that is emitted on every gated state.  A child cancelled
after a partial fill counts both as cancelled and as partial.  Shortfall is
measured from the arrival price of the last parent of a symbol.

*Accounting.*  `daily_pnl` sums the unrealised P&L of entries that each cover
the whole position, so an open position counts once per fill; it has no caller.
The attribution's realised profit knows no short positions.

*Research.*  The threshold search never tries the code as it was written, so the
tuned code may do worse than the original.  It scores on the first symbol only.
It counts the signals of a backtest, exits included, while the filter asks
without a position; the filter's bounds can be configured, the search's cannot.
The -10^6 of an invalid trial lowers the median the pruner compares with, and a
trial pruned before the last stage might have been the best.  A plan whose only
conditions are on derived features without inputs passes its review although
it uses no feature of the market; its score can still be high enough.

*Data.*  The production path builds states without trades.  A resampled state
carries its bucket's start, so it shows up to one bucket of the future; trades
stay attached to later states until newer ones push them out, and matching and
queue count them again.  Trades with an empty frame raise a `KeyError`.  An
unreadable file is skipped without a word, leaving a partial day.  A VI blocks
only the state that raises it, and one still active at the close hides a jump
at the next open.

## 6. Plan

Everything of the first plan is written but the syntax checks of the hard gate
as predicates and `OrderLifecycle` over several symbols at once.  Worth adding
after that: an inductive invariant for `MonitorVerdicts`; errors of the file
system in `SpecLoop`; market VWAP and timing score over the history of states.

### Not modelled

- Risk, turnover and selection statistics, attribution but for its realised
  profit: floating-point formulas over a finished run, without control.
- Configuration parsing, component construction, HTML and JSON reports,
  reproducibility hashes, logging, LLM transport: input and output; the
  configured values are the constants of the models.
- Prompt builders, LLM client, code sandbox, goal decomposer: text and code
  analysis; to the loops they are a source of candidate strategies.  The range
  that the threshold search gives each constant is its input.
- The Almgren-Chriss trajectory (hyperbolic functions).  The runner asks it for
  one state, where it returns everything.

## 7. Running

```
tlc -workers 2 -config order_lifecycle.cfg MCOrderLifecycle.tla   # one to three minutes each
tlc -workers 2 -config accounting.cfg      MCAccounting.tla
tlc -workers 2 -config signal_position.cfg MCSignalPosition.tla
tlc -workers 2 -config venue.cfg           MCVenue.tla
tlc -workers 2 -config data_layer.cfg      MCDataLayer.tla
tlc -workers 2 -config strategy_loop.cfg   MCStrategyLoop.tla
tlc -workers 2 -config spec_loop.cfg       MCSpecLoop.tla
tlapm DataTheorems.tla                 # the lemmas the others share
tlapm OrderLifecycleProofs.tla
tlapm AccountingProofs.tla
tlapm SignalPositionProofs.tla
tlapm StrategyLoopProofs.tla
tlapm SpecLoopProofs.tla
tlapm VenueProofs.tla
tlapm DataLayerProofs.tla
```

Definitions marked `mutant` are never used by a specification.  Each replaces
the definition of the same stem by what a plausible bug would make of it, and
shows that a property notices.
