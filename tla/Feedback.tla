------------------------------ MODULE Feedback ------------------------------
(***************************************************************************)
(* How a backtest of a generated strategy is judged: the summaries of the  *)
(* symbols are merged, and the controller derives diagnosis, severity and  *)
(* verdict from the merged numbers.  The language model only adds prose.   *)
(*                                                                         *)
(* Counts and money are integers.  Rates are compared by multiplying out,  *)
(* so that the thresholds are exact: 0.0005 is 1 in 2000, 0.05 1 in 20.    *)
(***************************************************************************)
EXTENDS Integers, FiniteSets, Functions

CONSTANTS
  Symbols,    \* symbols a strategy is backtested on
  Summaries   \* what the backtest of one symbol can report

Summary == [signals : Nat, states : Nat \ {0}, fills : Nat, holding : Nat,
            gross : Int, commission : Nat, costs : Nat]

ASSUME FeedbackAssumption ==
  /\ IsFiniteSet(Symbols) /\ Symbols # {}
  /\ Summaries \subseteq Summary

\* _aggregate_summaries: counts and money are added up; the holding period is
\* an average, kept here as the sum over the symbols.
Aggregate(s) ==
  LET sum(f) == SumFunction([x \in Symbols |-> s[x][f]])
  IN [f \in {"signals", "states", "fills", "holding", "gross", "commission", "costs"} |-> sum(f)]

\* What _run_backtest_multi_code can return when no symbol fails.
Backtests == {Aggregate(s) : s \in [Symbols -> Summaries]}

NetPnl(m) == m.gross - m.commission

\* avg_holding_period >= ticks;  lo / 2000 <= entry_frequency <= hi / 2000
HeldAtLeast(m, ticks)    == m.holding >= ticks * Cardinality(Symbols)
FrequencyIn(m, lo, hi)   == lo * m.states <= 2000 * m.signals /\ 2000 * m.signals <= hi * m.states

\* The diagnosis, in the strict order of the controller.
Diagnosis(m) ==
  IF m.signals = 0                           THEN "no_trades"
  ELSE IF m.fills = 0                        THEN "no_fills_after_signal"
  ELSE IF ~FrequencyIn(m, 0, 100)            THEN "overtrading"
  ELSE IF ~HeldAtLeast(m, 10)                THEN "exit_too_short"
  ELSE IF m.gross <= 0                       THEN "signal_negative_before_cost"
  ELSE IF m.commission + m.costs > m.gross   THEN "fee_dominated"
  ELSE "inconclusive"

\* No change of parameters can help: another idea is needed.
Structural(m) ==
  \/ Diagnosis(m) = "signal_negative_before_cost"
  \/ Diagnosis(m) = "fee_dominated" /\ HeldAtLeast(m, 20) /\ FrequencyIn(m, 2, 40)

CanPass(m) ==
  /\ NetPnl(m) > 0
  /\ HeldAtLeast(m, 10) /\ FrequencyIn(m, 1, 40)
  /\ Diagnosis(m) = "inconclusive"

Verdict(m) == IF CanPass(m) THEN "pass" ELSE IF Structural(m) THEN "fail" ELSE "retry"

\* What the loops keep of the feedback.
Judged(m) == [net |-> NetPnl(m), verdict |-> Verdict(m), structural |-> Structural(m)]
Judgements == {Judged(m) : m \in Backtests}
=============================================================================
