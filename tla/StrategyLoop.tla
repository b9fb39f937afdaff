---------------------------- MODULE StrategyLoop ----------------------------
(***************************************************************************)
(* LoopRunner.run: generate a strategy, check it, backtest it in sample,   *)
(* judge it, remember what happened, and validate a passing one out of     *)
(* sample.  Every way out of an iteration is an action.  A strategy is     *)
(* known by the number of the iteration that generated it.                 *)
(*                                                                         *)
(* pc: "next" the top of the loop, "stop" its stop condition, "over" the   *)
(* result is returned, "raised" an exception left run().                   *)
(***************************************************************************)
EXTENDS Feedback, Sequences, SequencesExt

CONSTANTS
  Iterations,     \* n_iterations
  MaxFailures,    \* rag_memory.max_failures
  MaxSuccesses    \* rag_memory.max_successes

ASSUME LoopAssumption ==
  /\ Iterations \in Nat
  /\ MaxFailures \in Nat \ {0} /\ MaxSuccesses \in Nat \ {0}

VARIABLES
  pc,
  hasOos,       \* date_ranges.has_oos
  records,      \* result.iterations
  attempts,     \* session_attempts
  previous,     \* previous_feedback
  best,         \* best_net_pnl and best_code_so_far
  stuck,        \* consecutive_non_pass
  failures,     \* RagMemoryV1._failures
  successes,    \* RagMemoryV1._successes
  saved,        \* MemoryStore: strategies/{run_id}.json
  result        \* verdict, best_run_id, oos_verdict, oos_backtest_summary

session == <<attempts, previous, best, stuck, failures, successes, saved>>
vars == <<pc, hasOos, records, attempts, previous, best, stuck, failures, successes, saved, result>>

None == 0
Strategy == 1 .. Iterations

\* The iteration that is running, or the one that just ended.
Current == Len(records) + 1
Ended   == Len(records)

Init ==
  /\ pc = "next"
  /\ hasOos \in BOOLEAN
  /\ records = << >> /\ attempts = << >>
  /\ previous = [of |-> None, verdict |-> "none"]
  /\ best = [seen |-> FALSE, net |-> 0, code |-> None]
  /\ stuck = 0
  /\ failures = << >> /\ successes = << >>
  /\ saved = {}
  /\ result = [verdict |-> "no_pass", best |-> None, oos |-> "no_oos",
               summary |-> [of |-> None, net |-> 0]]

-----------------------------------------------------------------------------
(* One iteration up to its record *)

More == pc = "next" /\ Current \in Strategy

\* The model fails to answer, the code fails the gate, or a backtest fails on
\* some symbol: the iteration is recorded and nothing is learnt from it.
Skip ==
  /\ More
  /\ \E reason \in {"llm_error", "hard_gate_fail", "backtest_error"} :
       records' = Append(records, [end |-> reason, net |-> 0])
  /\ UNCHANGED <<pc, hasOos, session, result>>

\* The distribution filter rejects the code before its backtest.
Filtered ==
  /\ More
  /\ records' = Append(records, [end |-> "dist_filter", net |-> 0])
  /\ attempts' = Append(attempts, [of |-> Current, verdict |-> "dist_filter", net |-> 0])
  /\ previous' = [of |-> Current, verdict |-> "retry"]
  /\ stuck' = stuck + 1
  /\ UNCHANGED <<pc, hasOos, best, failures, successes, saved, result>>

\* A window of the last k entries.
LastOf_All(seq, k) == seq    \* mutant

LastOf(seq, k) == IF Len(seq) <= k THEN seq ELSE SubSeq(seq, Len(seq) - k + 1, Len(seq))

\* RagMemoryV1.add
Remember(j) ==
  IF j.verdict = "pass"
  THEN successes' = LastOf(Append(successes, Current), MaxSuccesses) /\ UNCHANGED failures
  ELSE failures' = LastOf(Append(failures, Current), MaxFailures) /\ UNCHANGED successes

\* The best net P&L so far, and its code if it made money.
BetterOf_AnyProfit(j) ==    \* mutant
  IF j.net > 0 THEN [seen |-> TRUE, net |-> j.net, code |-> Current] ELSE best

BetterOf(j) ==
  IF ~best.seen \/ j.net > best.net
  THEN [seen |-> TRUE, net |-> j.net, code |-> IF j.net > 0 THEN Current ELSE None]
  ELSE best

\* mutant: the counter starts again only from the next non-passing iteration
StuckAfter_NoReset(j) == IF j.verdict = "pass" THEN stuck ELSE stuck + 1

StuckAfter(j) == IF j.verdict = "pass" THEN 0 ELSE stuck + 1

\* Backtested, judged, saved and remembered.
Evaluated ==
  /\ More
  /\ \E j \in Judgements :
       /\ records' = Append(records, [end |-> j.verdict, net |-> j.net])
       /\ attempts' = Append(attempts, [of |-> Current, verdict |-> j.verdict, net |-> j.net])
       /\ saved' = saved \cup {[of |-> Current, verdict |-> j.verdict, net |-> j.net]}
       /\ previous' = [of |-> Current, verdict |-> j.verdict]
       /\ best' = BetterOf(j)
       /\ stuck' = StuckAfter(j)
       /\ Remember(j)
       /\ pc' = IF j.verdict = "pass" THEN "stop" ELSE "next"
  /\ UNCHANGED <<hasOos, result>>

\* The feedback call is not guarded: its exception ends the session.
FeedbackRaises ==
  /\ More
  /\ pc' = "raised"
  /\ UNCHANGED <<hasOos, records, session, result>>

-----------------------------------------------------------------------------
(* The stop condition, for a strategy that passed in sample *)

StopWithoutOos ==
  /\ pc = "stop" /\ ~hasOos
  /\ result' = [result EXCEPT !.verdict = "pass", !.best = Ended]
  /\ pc' = "over"
  /\ UNCHANGED <<hasOos, records, session>>

\* The out-of-sample backtest makes money.
OosPassed_Even(net) == net >= 0    \* mutant

OosPassed(net) == net > 0

OosPasses ==
  /\ pc = "stop" /\ hasOos
  /\ \E j \in Judgements :
       /\ OosPassed(j.net)
       /\ result' = [verdict |-> "pass", best |-> Ended, oos |-> "pass_oos",
                     summary |-> [of |-> Ended, net |-> j.net]]
  /\ pc' = "over"
  /\ UNCHANGED <<hasOos, records, session>>

\* The feedback a failed validation leaves for the next iteration.
Retry_Passed == [of |-> Ended, verdict |-> "pass"]    \* mutant

Retry == [of |-> Ended, verdict |-> "retry"]

\* It loses money, or the distribution filter rejects it out of sample; then
\* the summary stays that of an earlier validation.
OosFails ==
  /\ pc = "stop" /\ hasOos
  /\ \/ \E j \in Judgements :
          /\ ~OosPassed(j.net)
          /\ result' = [result EXCEPT !.oos = "fail_oos", !.summary = [of |-> Ended, net |-> j.net]]
     \/ result' = [result EXCEPT !.oos = "fail_oos"]
  /\ previous' = Retry
  /\ stuck' = stuck + 1
  /\ pc' = "next"
  /\ UNCHANGED <<hasOos, records, attempts, best, failures, successes, saved>>

\* The out-of-sample backtest raises.
OosRaises ==
  /\ pc = "stop" /\ hasOos
  /\ result' = [result EXCEPT !.verdict = "pass", !.best = Ended, !.oos = "no_oos"]
  /\ pc' = "over"
  /\ UNCHANGED <<hasOos, records, session>>

Exhausted ==
  /\ pc = "next" /\ Current \notin Strategy
  /\ pc' = "over"
  /\ UNCHANGED <<hasOos, records, session, result>>

Returned == pc \in {"over", "raised"} /\ UNCHANGED vars

Next ==
  \/ Skip \/ Filtered \/ Evaluated \/ FeedbackRaises
  \/ StopWithoutOos \/ OosPasses \/ OosFails \/ OosRaises
  \/ Exhausted \/ Returned

Spec == Init /\ [][Next]_vars

-----------------------------------------------------------------------------
(* Invariants *)

Verdicts == {"pass", "fail", "retry"}
Windowed(seq, k) == Len(seq) <= k /\ ToSet(seq) \subseteq Strategy

\* The state of a session is well formed.
TypeOK ==
  /\ pc \in {"next", "stop", "over", "raised"}
  /\ hasOos \in BOOLEAN
  /\ ToSet(records) \subseteq
       [end : Verdicts \cup {"llm_error", "hard_gate_fail", "backtest_error", "dist_filter"}, net : Int]
  /\ ToSet(attempts) \subseteq [of : Strategy, verdict : Verdicts \cup {"dist_filter"}, net : Int]
  /\ previous \in [of : Strategy \cup {None}, verdict : Verdicts \cup {"none"}]
  /\ best \in [seen : BOOLEAN, net : Int, code : Strategy \cup {None}]
  /\ stuck \in Nat
  /\ Windowed(failures, MaxFailures) /\ Windowed(successes, MaxSuccesses)
  /\ saved \subseteq [of : Strategy, verdict : Verdicts, net : Int]
  /\ result.verdict \in {"pass", "no_pass"} /\ result.best \in Strategy \cup {None}
  /\ result.oos \in {"no_oos", "pass_oos", "fail_oos"}

\* A session that reports a pass names a strategy whose saved record passed and
\* made money in sample; one that reports an out-of-sample pass carries the
\* summary of that very strategy, and it made money too.
PassIsEarned ==
  /\ result.verdict = "pass" =>
       \E s \in saved : s.of = result.best /\ s.verdict = "pass" /\ s.net > 0
  /\ result.oos = "pass_oos" =>
       /\ result.verdict = "pass"
       /\ result.summary.of = result.best /\ result.summary.net > 0

\* The code offered as the best one so far is the first that made the largest
\* profit of all evaluated strategies, and there is one as soon as any made a profit.
BestIsMostProfitable ==
  /\ (best.code # None) <=> \E s \in saved : s.net > 0
  /\ best.code # None =>
       \E s \in saved : /\ s.of = best.code /\ s.net = best.net
                        /\ \A t \in saved : t.net < s.net \/ (t.net = s.net /\ s.of <= t.of)

\* At the top of the loop the stuck counter is the number of attempts since the
\* last one that passed in sample; that one counts as well, since the loop only
\* goes on after it when its validation failed.
StuckIsExact ==
  pc = "next" =>
    LET passed == {k \in DOMAIN attempts : attempts[k].verdict = "pass"}
    IN stuck = IF passed = {} THEN Len(attempts)
               ELSE Cardinality({k \in DOMAIN attempts : \A p \in passed : p <= k})

\* The next prompt repeats the feedback of the last attempt, and never a pass.
FeedbackIsLatest ==
  pc = "next" =>
    IF attempts = << >> THEN previous.of = None
    ELSE previous.of = Last(attempts).of /\ previous.verdict \in {"retry", "fail"}

(* Claims of the documentation that the code does not keep *)

\* The table of loop end conditions: with an out-of-sample range configured, a
\* pass ends the loop only when the out-of-sample backtest passed as well.
PassNeedsOos == result.verdict = "pass" /\ hasOos => result.oos = "pass_oos"
=============================================================================
