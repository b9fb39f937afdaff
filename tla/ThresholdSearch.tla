-------------------------- MODULE ThresholdSearch --------------------------
(***************************************************************************)
(* The search for better constants of a generated strategy, between its    *)
(* hard gate and its backtest: optimize_code_thresholds as LoopRunner      *)
(* calls it, and the filter on entry frequencies that the tuned code meets *)
(* next.  A trial injects values into the code and backtests it on growing *)
(* prefixes of the data; a pruner may end it after each of them.           *)
(*                                                                         *)
(* A code is the sequence of its UPPER_CASE assignments; a trial is        *)
(* [values, compiles, runs], with the backtest summary of every stage.     *)
(* Values come from a sampler within a range per name, an input here.      *)
(* Returns and drawdowns are in basis points of the initial cash.          *)
(***************************************************************************)
EXTENDS Integers, FiniteSets, Sequences, SequencesExt, Rounding, Selections

Penalty == -1000000
NoEntry == [signals |-> 0, states |-> 1]

-----------------------------------------------------------------------------
(* How often a strategy may enter: between 1 in 1000 states and 1 in 2 *)

Allowed(f) == f.states <= 1000 * f.signals /\ 2 * f.signals <= f.states

Entries(answers) == Cardinality({k \in DOMAIN answers : answers[k] = "enter"})

\* The distribution filter asks the strategy, without a position, at each of
\* the first states; an answer is "enter", "wait" or "raise".
PassesFilter(answers, size) ==
  LET sample == SubSeq(answers, 1, Least(size, Len(answers)))
  IN /\ sample # << >>
     /\ "raise" \notin ToSet(sample)
     /\ Allowed([signals |-> Entries(sample), states |-> Len(sample)])

-----------------------------------------------------------------------------
(* Candidates *)

\* extract_code_params, without the ranges
Names(code) == {code[k].name : k \in DOMAIN code}

\* Every assignment of a named constant is rewritten, also a repeated one.
Inject(code, values) ==
  [k \in DOMAIN code |-> IF code[k].name \in DOMAIN values
                         THEN [code[k] EXCEPT !.value = values[code[k].name]] ELSE code[k]]

-----------------------------------------------------------------------------
(* Stages: growing prefixes of the data, in tenths of it *)

DefaultStages == << 2, 5, 10 >>

\* In ascending order; equal numbers come in any order.
Sorted(values) ==
  LET below(i) == {j \in DOMAIN values : values[j] < values[i] \/ (values[j] = values[i] /\ j > i)}
  IN [k \in DOMAIN values |-> values[CHOOSE i \in DOMAIN values : Cardinality(below(i)) = k - 1]]

\* Prefixes that are no numbers are dropped like those below zero.
StagesOf(raw) ==
  LET kept   == At(raw, {k \in DOMAIN raw : raw[k] > 0})
      chosen == IF kept = << >> THEN DefaultStages ELSE [k \in DOMAIN kept |-> Least(kept[k], 10)]
      sorted == Sorted(chosen)
  IN IF Last(sorted) < 10 THEN Append(sorted, 10) ELSE sorted

\* Number of states in each stage.
StageSizes(states, raw) ==
  IF states = 0 THEN << >>
  ELSE [k \in DOMAIN StagesOf(raw) |->
          Least(states, Greatest(1, Ceiling(states * StagesOf(raw)[k], 10)))]

-----------------------------------------------------------------------------
(* One trial *)

InvalidAt(f) == [valid |-> FALSE, score |-> Penalty, net |-> 0, mdd |-> 0, freq |-> f]

\* A summary is [ok, states, signals, net, mdd]; ok is false if the run raised.
EvaluatedStage(s, lambda) ==
  LET freq == [signals |-> s.signals, states |-> s.states]
  IN IF ~s.ok \/ s.states <= 0 \/ s.signals <= 0 THEN InvalidAt(NoEntry)
     ELSE IF ~Allowed(freq) THEN InvalidAt(freq)
     ELSE [valid |-> TRUE, score |-> s.net - lambda * s.mdd, net |-> s.net, mdd |-> s.mdd, freq |-> freq]

\* optuna's MedianPruner: the best value a trial has reported so far is below
\* the median of what the completed trials reported at the same step.
TwiceMedian(values) ==
  LET sorted == Sorted(values)
  IN sorted[(Len(sorted) + 1) \div 2] + sorted[Len(sorted) \div 2 + 1]

ShouldPrune(conf, reports, done) ==
  LET complete == At(done, {k \in DOMAIN done : ~done[k].pruned})
      here     == At(complete, {k \in DOMAIN complete : Len(complete[k].reports) >= Len(reports)})
      best     == FoldLeft(Greatest, reports[1], reports)
  IN /\ Len(complete) >= conf.startup /\ Len(reports) > conf.warmup
     /\ here # << >>
     /\ 2 * best < TwiceMedian([k \in DOMAIN here |-> here[k].reports[Len(reports)]])

EvalAfter_LastValid(o, e) == IF e.valid THEN e ELSE o.eval    \* mutant

\* What a trial has earned after a stage: an invalid one takes it all back.
EvalAfter(o, e) == e

\* An invalid stage ends the trial as a completed one, after its report.
AfterStage(conf, o, s, done) ==
  LET e       == EvaluatedStage(s, conf.lambda)
      reports == Append(o.reports, e.score)
  IN IF o.ended THEN o
     ELSE IF conf.pruning /\ ShouldPrune(conf, reports, done)
     THEN [o EXCEPT !.reports = reports, !.pruned = TRUE, !.ended = TRUE]
     ELSE [o EXCEPT !.reports = reports, !.eval = EvalAfter(o, e), !.ended = ~e.valid]

Unrun == [reports |-> << >>, eval |-> InvalidAt(NoEntry), pruned |-> FALSE, ended |-> FALSE]

\* objective: code that does not compile, or no data or cash to run it with,
\* completes the trial without a report.
RunTrial(conf, trial, done) ==
  IF ~trial.compiles \/ conf.states = 0 \/ conf.cash <= 0 THEN Unrun
  ELSE FoldLeft(LAMBDA o, s : AfterStage(conf, o, s, done), Unrun, trial.runs)

-----------------------------------------------------------------------------
(* The search *)

AsWritten(code) ==
  [code |-> code, score |-> Penalty, net |-> 0, mdd |-> 0, freq |-> NoEntry]

With(code, e) ==
  [code |-> code, score |-> e.score, net |-> e.net, mdd |-> e.mdd, freq |-> e.freq]

\* One trial of the study: its outcome, and the best candidate so far.
Try(conf, code, study, trial) ==
  LET o == RunTrial(conf, trial, study.done)
      valid == ~o.pruned /\ o.eval.valid
  IN [done |-> Append(study.done, o),
      seen |-> study.seen \/ valid,
      best |-> IF valid /\ o.eval.score > study.best.score
               THEN With(Inject(code, trial.values), o.eval) ELSE study.best]

Study(conf, code, trials) ==
  FoldLeft(LAMBDA study, trial : Try(conf, code, study, trial),
           [done |-> << >>, seen |-> FALSE, best |-> AsWritten(code)], trials)

\* The code's own evaluation, when there is nothing to search.
EvaluatedOnce(conf, run) ==
  IF conf.states = 0 \/ conf.cash <= 0 THEN InvalidAt(NoEntry) ELSE EvaluatedStage(run, conf.lambda)

\* optimize_code_thresholds; `asIs` is the backtest of the code as written.
Tuned(conf, code, asIs, trials) ==
  IF trials = << >> \/ Names(code) = {} THEN With(code, EvaluatedOnce(conf, asIs))
  ELSE LET study == Study(conf, code, trials)
       IN IF study.seen THEN study.best ELSE AsWritten(code)

\* LoopRunner._optimize_code: any failure leaves the code as it is.
TunedCode(conf, code, asIs, trials) ==
  IF conf.fails THEN code ELSE Tuned(conf, code, asIs, trials).code
=============================================================================
