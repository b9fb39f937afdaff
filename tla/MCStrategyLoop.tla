--------------------------- MODULE MCStrategyLoop ---------------------------
(***************************************************************************)
(* Constant values for checking StrategyLoop with TLC: summaries of one    *)
(* symbol around the thresholds of the controller; and the search that     *)
(* tunes each strategy on every small study, checked once.                 *)
(***************************************************************************)
EXTENDS StrategyLoop, ThresholdSearch

Report(signals, holding, gross, commission) ==
  [signals |-> signals, states |-> 2000, fills |-> signals, holding |-> holding,
   gross |-> gross, commission |-> commission, costs |-> 0]

MCSummaries ==
  {Report(0, 0, 0, 0), Report(2, 20, -1, 0), Report(2, 20, 1, 2), Report(2, 20, 2, 1), Report(40, 10, 3, 1),
   Report(60, 20, 3, 1)}

-----------------------------------------------------------------------------
(* Small studies *)

Untouched == pc = "next" /\ records = << >> /\ ~hasOos

Run(signals, net, mdd) == [ok |-> TRUE, states |-> 2000, signals |-> signals, net |-> net, mdd |-> mdd]
Raised == [Run(2, 9, 0) EXCEPT !.ok = FALSE]

Low    == Run(2, -1, 2)
Middle == Run(1000, 2, 1)
High   == Run(2, 4, 1)
Bad    == {Raised, Run(0, 9, 0), Run(1, 9, 0), Run(1001, 9, 0)}

\* A constant assigned twice, and another one.
Code == << [name |-> "A", value |-> 0], [name |-> "B", value |-> 0], [name |-> "A", value |-> 0] >>

Trial(k, compiles, runs) == [values |-> [name \in {"A", "B"} |-> k], compiles |-> compiles, runs |-> runs]

\* Two trials with every kind of failure, and three over two or three stages.
TwoTrials ==
  LET runs == [1 .. 2 -> Bad \cup {Low, High}]
  IN {<< Trial(1, compiles, a), Trial(2, TRUE, b) >> : compiles \in BOOLEAN, a \in runs, b \in runs}
ThreeTrials ==
  LET short == [1 .. 2 -> {Raised, Low, Middle, High}]
      long  == [1 .. 3 -> {Low, High}]
      study(first, last) == {<< Trial(1, TRUE, a), Trial(2, TRUE, b), Trial(3, TRUE, c) >> :
                               a \in first, b \in first, c \in last}
  IN study(short, short) \cup study(long, [1 .. 3 -> {Raised, Low, High}])

\* Early and late pruning, none, and a search that fails.
Conf(startup, pruning, fails) ==
  [states |-> 2000, cash |-> 1, lambda |-> 1, warmup |-> 1,
   startup |-> startup, pruning |-> pruning, fails |-> fails]
Confs == {Conf(1, TRUE, FALSE), Conf(2, TRUE, FALSE), Conf(1, FALSE, FALSE), Conf(1, TRUE, TRUE)}

\* What the search hands on, and the numbers it reports with it.
BestIsFound(conf, code, asIs, trials) ==
  LET found == Tuned(conf, code, asIs, trials)
      after == TunedCode(conf, code, asIs, trials)
      done  == Study(conf, code, trials).done
      full(k)  == EvaluatedStage(Last(trials[k].runs), conf.lambda)
      sound(k) == /\ trials[k].compiles /\ conf.states # 0 /\ conf.cash > 0
                  /\ \A i \in DOMAIN trials[k].runs : EvaluatedStage(trials[k].runs[i], conf.lambda).valid
      sounds == {k \in DOMAIN trials : sound(k)}
      kept   == {k \in sounds : ~done[k].pruned}
      late   == {k \in sounds \ kept : Len(done[k].reports) = Len(trials[k].runs)}
  IN /\ IF conf.fails \/ kept = {} THEN after = code
        ELSE \E k \in kept : /\ after = Inject(code, trials[k].values)
                              /\ found = With(after, full(k))
                              /\ \A j \in kept : full(j).score <= full(k).score
     /\ \A k \in late : full(k).score < found.score
     /\ ~conf.pruning => \A k \in sounds : full(k).score <= found.score

\* The last stage is all the data and no stage is empty.
StagesAreRight(states, raw) ==
  LET sizes == StageSizes(states, raw)
  IN /\ sizes[1] > 0 /\ Last(sizes) = states
     /\ \A k \in 2 .. Len(sizes) : sizes[k - 1] <= sizes[k]

\* A strategy that enters where it is asked to is judged alike by the search and
\* by the filter it meets next; the filter sees nothing beyond its sample.
FrequencyAgrees(answers, size) ==
  LET run == [ok |-> "raise" \notin ToSet(answers), states |-> Len(answers), signals |-> Entries(answers),
              net |-> 0, mdd |-> 0]
  IN /\ size >= Len(answers) => (PassesFilter(answers, size) <=> EvaluatedStage(run, 1).valid)
     /\ \A more \in {"enter", "raise"} :
          Len(answers) >= size =>
            (PassesFilter(Append(answers, more), size) <=> PassesFilter(answers, size))

\* The result of a search is one candidate with all its numbers: the one with
\* the best score on the whole data among those that went through every stage,
\* or the code as written if none did.  Pruning in the last stage never costs
\* the best candidate; without pruning no candidate is lost at all.  Stages and
\* entry frequencies mean the same to the search as to the backtest after it.
\* (optimize_code_thresholds, _run_stage_objective, check_code_entry_frequency)
SearchKeepsBest ==
  Untouched =>
    /\ \A conf \in Confs, trials \in TwoTrials \cup ThreeTrials : BestIsFound(conf, Code, Low, trials)
    /\ \A states \in 1 .. 6, raw \in SeqOf({-1, 1, 5, 8, 15}, 3) : StagesAreRight(states, raw)
    /\ \A answers \in SeqOf({"enter", "wait", "raise"}, 5) \ {<< >>}, size \in 1 .. 5 :
         FrequencyAgrees(answers, size)
=============================================================================
