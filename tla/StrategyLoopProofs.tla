------------------------- MODULE StrategyLoopProofs -------------------------
(***************************************************************************)
(* Proofs about StrategyLoop, for any number of iterations, any windows    *)
(* and any summaries the backtests may report.                             *)
(***************************************************************************)
EXTENDS MCStrategyLoop, SequenceTheorems, DataTheorems

-----------------------------------------------------------------------------
(* The judgement of a backtest, for any symbols and any summaries *)

\* The merged summary is a summary: counts and money add up to integers.
LEMMA AggregateTyped ==
  ASSUME NEW m \in Backtests
  PROVE  m.signals \in Int /\ m.states \in Int /\ m.fills \in Int /\ m.holding \in Int
         /\ m.gross \in Int /\ m.commission \in Int /\ m.costs \in Int
<1>1. PICK s \in [Symbols -> Summaries] : m = Aggregate(s)
  BY DEF Backtests
<1> DEFINE Fields == {"signals", "states", "fills", "holding", "gross", "commission", "costs"}
<1>2. ASSUME NEW f \in Fields
      PROVE  m[f] \in Int
  <2> DEFINE terms == [x \in Symbols |-> s[x][f]]
  <2>1. \A x \in Symbols : s[x] \in Summary
    BY FeedbackAssumption
  <2>2. \A x \in Symbols : terms[x] \in Int
    BY <1>2, <2>1 DEF Summary
  <2>3. DOMAIN terms = Symbols
    OBVIOUS
  <2>4. m[f] = SumFunctionOnSet(terms, DOMAIN terms)
    BY <1>1, <1>2, Zenon DEF Aggregate, SumFunction
  <2> HIDE DEF terms
  <2>5. SumFunctionOnSet(terms, Symbols) \in Int
    BY <2>2, FeedbackAssumption, SumInt
  <2>6. QED
    BY <2>3, <2>4, <2>5
<1>3. QED
  BY <1>2

\* The controller passes only what made money in sample, and never what it
\* calls a structural failure.
LEMMA JudgementTyped ==
  ASSUME NEW j \in Judgements
  PROVE  /\ j \in [net : Int, verdict : {"pass", "fail", "retry"}, structural : BOOLEAN]
         /\ j.verdict = "pass" => j.net > 0 /\ ~j.structural
         /\ j.verdict = "fail" => j.structural
<1>1. PICK m \in Backtests : j = Judged(m)
  BY DEF Judgements
<1>2. j = [net |-> NetPnl(m), verdict |-> Verdict(m), structural |-> Structural(m)]
  BY <1>1 DEF Judged
<1>3. NetPnl(m) \in Int
  BY AggregateTyped DEF NetPnl
<1>4. Verdict(m) \in {"pass", "fail", "retry"} /\ Structural(m) \in BOOLEAN
  BY DEF Verdict, Structural
<1>5. Verdict(m) = "pass" => NetPnl(m) > 0 /\ ~Structural(m)
  BY DEF Verdict, CanPass, Structural
<1>6. Verdict(m) = "fail" => Structural(m)
  BY DEF Verdict
<1>7. QED
  BY <1>2, <1>3, <1>4, <1>5, <1>6

-----------------------------------------------------------------------------

Ends == Verdicts \cup {"llm_error", "hard_gate_fail", "backtest_error", "dist_filter"}
Record == [end : Ends, net : Int]
Attempt == [of : Strategy, verdict : Verdicts \cup {"dist_filter"}, net : Int]

\* The state that is reported and fed back is well formed.
Typed ==
  /\ pc \in {"next", "stop", "over", "raised"}
  /\ records \in Seq(Record)
  /\ Len(records) <= Iterations
  /\ attempts \in Seq(Attempt)
  /\ previous \in [of : Strategy \cup {None}, verdict : Verdicts \cup {"none"}]
  /\ result \in [verdict : {"pass", "no_pass"}, best : Strategy \cup {None},
                 oos : {"no_oos", "pass_oos", "fail_oos"},
                 summary : [of : Strategy \cup {None}, net : Int]]

\* While the loop runs nothing has been reported.
NothingReported ==
  pc \in {"next", "stop"} => result.verdict = "no_pass" /\ result.oos # "pass_oos"

\* At the stop condition the strategy of this iteration is saved as passed.
StopIsEarned ==
  pc = "stop" =>
    /\ Ended \in Strategy
    /\ \E s \in saved : s.of = Ended /\ s.verdict = "pass" /\ s.net > 0
    /\ attempts # << >> /\ Last(attempts).of = Ended

Inv == Typed /\ NothingReported /\ StopIsEarned /\ PassIsEarned /\ FeedbackIsLatest

-----------------------------------------------------------------------------
(* The judgement *)

\* The controller passes only what made money in sample, and a verdict is one
\* of three.
LEMMA PassMakesMoney ==
  ASSUME NEW j \in Judgements
  PROVE  /\ j.verdict \in Verdicts
         /\ j.verdict = "pass" => j.net > 0
         /\ j.net \in Int
BY JudgementTyped DEF Verdicts

\* The last entry of a grown sequence is the new one.
LEMMA LastOfAppend ==
  ASSUME NEW S, NEW seq \in Seq(S), NEW x \in S
  PROVE  /\ Append(seq, x) \in Seq(S)
         /\ Append(seq, x) # << >>
         /\ Len(Append(seq, x)) = Len(seq) + 1
         /\ Last(Append(seq, x)) = x
BY DEF Last

-----------------------------------------------------------------------------
(* The invariant *)

\* The loop starts with nothing reported and nothing heard.
LEMMA InvInit == Init => Inv
<1> SUFFICES ASSUME Init PROVE Inv
  OBVIOUS
<1>1. Typed
  BY LoopAssumption DEF Init, Typed, None, Attempt, Strategy, Verdicts
<1> QED
  BY <1>1 DEF Init, Inv, NothingReported, StopIsEarned, PassIsEarned, FeedbackIsLatest, None

\* An iteration that is skipped or filtered, or whose feedback call raises,
\* reports nothing.
LEMMA InvSkipped ==
  Inv /\ (Skip \/ Filtered \/ FeedbackRaises) => Inv'
<1> SUFFICES ASSUME Inv, Skip \/ Filtered \/ FeedbackRaises PROVE Inv'
  OBVIOUS
<1>0. /\ 0 \in Int /\ Len(records) \in Nat /\ Iterations \in Nat
      /\ records \in Seq(Record) /\ attempts \in Seq(Attempt)
  BY LoopAssumption, LenProperties DEF Inv, Typed
<1>1. CASE Skip
  <2>1. PICK reason \in {"llm_error", "hard_gate_fail", "backtest_error"} : records' = Append(records, [end |-> reason, net |-> 0])
    BY <1>1 DEF Skip
  <2>2. records' \in Seq(Record) /\ Len(records') = Len(records) + 1
    BY <2>1, <1>0, LastOfAppend DEF Inv, Typed, Record, Ends
  <2>3. Len(records') <= Iterations
    BY <2>2, <1>0, <1>1 DEF Skip, More, Current, Strategy
  <2> QED
    BY <2>2, <2>3, <1>1 DEF Skip, More, Inv, Typed, NothingReported, StopIsEarned, PassIsEarned,
       FeedbackIsLatest, session
<1>2. CASE Filtered
  <2> DEFINE r == [end |-> "dist_filter", net |-> 0]
             a == [of |-> Current, verdict |-> "dist_filter", net |-> 0]
  <2>1. Current \in Strategy /\ pc = "next" /\ pc' = "next"
    BY <1>2 DEF Filtered, More
  <2>2. r \in Record /\ a \in Attempt
    BY <2>1, <1>0 DEF Attempt, Record, Ends
  <2>append. records' = Append(records, r) /\ attempts' = Append(attempts, a)
    BY <1>2 DEF Filtered
  <2> HIDE DEF r, a
  <2>3. records' \in Seq(Record) /\ Len(records') = Len(records) + 1
    BY <2>2, <2>append, <1>0, LastOfAppend
  <2>4. attempts' \in Seq(Attempt) /\ attempts' # << >> /\ Last(attempts') = a
    BY <2>2, <2>append, <1>0, LastOfAppend
  <2> USE DEF r, a
  <2>5. Len(records') <= Iterations
    BY <2>1, <2>3, <1>0 DEF Current, Strategy
  <2>6. previous' = [of |-> Current, verdict |-> "retry"] /\ result' = result /\ saved' = saved
    BY <1>2 DEF Filtered
  <2>7. Typed'
    BY <2>1, <2>3, <2>4, <2>5, <2>6 DEF Inv, Typed, Verdicts
  <2>8. FeedbackIsLatest'
    BY <2>4, <2>6 DEF FeedbackIsLatest
  <2> QED
    BY <2>1, <2>6, <2>7, <2>8 DEF Inv, NothingReported, StopIsEarned, PassIsEarned
<1>3. CASE FeedbackRaises
  BY <1>3 DEF FeedbackRaises, Inv, Typed, NothingReported, StopIsEarned, PassIsEarned,
     FeedbackIsLatest, session
<1> QED
  BY <1>1, <1>2, <1>3

\* An evaluated strategy reports nothing yet; if it passed, its saved record is
\* what the stop condition will rest on.
LEMMA InvEvaluated == Inv /\ Evaluated => Inv'
<1> SUFFICES ASSUME Inv, Evaluated PROVE Inv'
  OBVIOUS
<1>0. /\ 0 \in Int /\ Len(records) \in Nat /\ Iterations \in Nat
      /\ records \in Seq(Record) /\ attempts \in Seq(Attempt)
  BY LoopAssumption, LenProperties DEF Inv, Typed
<1>1. Current \in Strategy /\ pc = "next" /\ result' = result
  BY DEF Evaluated, More
<1>2. PICK j \in Judgements :
        /\ records' = Append(records, [end |-> j.verdict, net |-> j.net])
        /\ attempts' = Append(attempts, [of |-> Current, verdict |-> j.verdict, net |-> j.net])
        /\ saved' = saved \cup {[of |-> Current, verdict |-> j.verdict, net |-> j.net]}
        /\ previous' = [of |-> Current, verdict |-> j.verdict]
        /\ pc' = IF j.verdict = "pass" THEN "stop" ELSE "next"
  BY DEF Evaluated
<1> DEFINE r == [end |-> j.verdict, net |-> j.net]
           a == [of |-> Current, verdict |-> j.verdict, net |-> j.net]
<1>3. j.verdict \in Verdicts /\ j.net \in Int /\ (j.verdict = "pass" => j.net > 0)
  BY PassMakesMoney
<1>4. r \in Record /\ a \in Attempt
  BY <1>1, <1>3 DEF Record, Ends, Attempt
<1>append. records' = Append(records, r) /\ attempts' = Append(attempts, a)
  BY <1>2
<1> HIDE DEF r, a
<1>5. records' \in Seq(Record) /\ Len(records') = Len(records) + 1
  BY <1>0, <1>4, <1>append, LastOfAppend
<1>6. attempts' \in Seq(Attempt) /\ attempts' # << >> /\ Last(attempts') = a
  BY <1>0, <1>4, <1>append, LastOfAppend
<1> USE DEF r, a
<1>7. Len(records') <= Iterations /\ Ended' = Current
  BY <1>0, <1>1, <1>5 DEF Current, Strategy, Ended
<1>8. Typed'
  <2>1. pc' \in {"next", "stop"}
    BY <1>2
  <2>2. previous' \in [of : Strategy \cup {None}, verdict : Verdicts \cup {"none"}]
    BY <1>1, <1>2, <1>3
  <2> QED
    BY <1>1, <1>5, <1>6, <1>7, <2>1, <2>2 DEF Inv, Typed
<1>9. NothingReported' /\ PassIsEarned'
  BY <1>1, <1>2 DEF Inv, NothingReported, PassIsEarned
<1>10. StopIsEarned'
  <2> SUFFICES ASSUME pc' = "stop"
               PROVE  /\ Ended' \in Strategy
                      /\ \E s \in saved' : s.of = Ended' /\ s.verdict = "pass" /\ s.net > 0
                      /\ attempts' # << >> /\ Last(attempts').of = Ended'
    BY DEF StopIsEarned
  <2>1. j.verdict = "pass" /\ a \in saved' /\ a.of = Current /\ a.verdict = "pass" /\ a.net > 0
    BY <1>2, <1>3
  <2> QED
    BY <1>1, <1>6, <1>7, <2>1
<1>11. FeedbackIsLatest'
  <2> SUFFICES ASSUME pc' = "next"
               PROVE  previous'.of = Last(attempts').of /\ previous'.verdict \in {"retry", "fail"}
    BY <1>6 DEF FeedbackIsLatest
  <2>1. j.verdict # "pass"
    BY <1>2
  <2> QED
    BY <1>2, <1>3, <1>6, <2>1 DEF Verdicts
<1> QED
  BY <1>8, <1>9, <1>10, <1>11 DEF Inv

\* The stop condition: a pass is reported for the strategy just saved, and a
\* failed validation leaves a retry as the latest feedback.
LEMMA InvStop ==
  Inv /\ (StopWithoutOos \/ OosPasses \/ OosFails \/ OosRaises) => Inv'
<1> SUFFICES ASSUME Inv, StopWithoutOos \/ OosPasses \/ OosFails \/ OosRaises PROVE Inv'
  OBVIOUS
<1>1. /\ pc = "stop" /\ Ended \in Strategy
      /\ \E s \in saved : s.of = Ended /\ s.verdict = "pass" /\ s.net > 0
      /\ attempts # << >> /\ Last(attempts).of = Ended
      /\ result.verdict = "no_pass" /\ result.oos # "pass_oos"
      /\ records' = records /\ attempts' = attempts /\ saved' = saved
  BY DEF Inv, StopIsEarned, NothingReported, StopWithoutOos, OosPasses, OosFails, OosRaises, session
<1>2. CASE StopWithoutOos
  BY <1>1, <1>2 DEF StopWithoutOos, session, Inv, Typed, NothingReported, StopIsEarned, PassIsEarned,
     FeedbackIsLatest
<1>3. CASE OosPasses
  <2>1. PICK j \in Judgements :
          /\ j.net > 0
          /\ result' = [verdict |-> "pass", best |-> Ended, oos |-> "pass_oos",
                        summary |-> [of |-> Ended, net |-> j.net]]
    BY <1>3 DEF OosPasses, OosPassed
  <2>2. j.net \in Int
    BY PassMakesMoney
  <2>3. pc' = "over" /\ previous' = previous
    BY <1>3 DEF OosPasses, session
  <2>4. Typed'
    BY <1>1, <2>1, <2>2, <2>3 DEF Inv, Typed
  <2>5. PassIsEarned'
    BY <1>1, <2>1 DEF PassIsEarned
  <2> QED
    BY <2>3, <2>4, <2>5 DEF Inv, NothingReported, StopIsEarned, FeedbackIsLatest
<1>4. CASE OosFails
  <2>1. result' \in [verdict : {"no_pass"}, best : Strategy \cup {None}, oos : {"fail_oos"},
                     summary : [of : Strategy \cup {None}, net : Int]]
    <3>1. CASE \E j \in Judgements : result' = [result EXCEPT !.oos = "fail_oos",
                                                  !.summary = [of |-> Ended, net |-> j.net]]
      <4>1. PICK j \in Judgements : result' = [result EXCEPT !.oos = "fail_oos",
                                                  !.summary = [of |-> Ended, net |-> j.net]]
        BY <3>1
      <4>2. j.net \in Int
        BY PassMakesMoney
      <4> QED
        BY <1>1, <4>1, <4>2 DEF Inv, Typed
    <3>2. CASE result' = [result EXCEPT !.oos = "fail_oos"]
      BY <1>1, <3>2 DEF Inv, Typed
    <3> QED
      BY <1>4, <3>1, <3>2 DEF OosFails
  <2>2. pc' = "next" /\ previous' = [of |-> Ended, verdict |-> "retry"]
    BY <1>4 DEF OosFails, Retry
  <2>3. Typed'
    BY <1>1, <2>1, <2>2 DEF Inv, Typed, Verdicts
  <2>4. FeedbackIsLatest'
    BY <1>1, <2>2 DEF FeedbackIsLatest
  <2> QED
    BY <2>1, <2>2, <2>3, <2>4 DEF Inv, NothingReported, StopIsEarned, PassIsEarned
<1>5. CASE OosRaises
  <2>1. result' = [result EXCEPT !.verdict = "pass", !.best = Ended, !.oos = "no_oos"]
        /\ pc' = "over" /\ previous' = previous
    BY <1>5 DEF OosRaises, session
  <2>2. result'.verdict = "pass" /\ result'.best = Ended /\ result'.oos = "no_oos"
    BY <2>1 DEF Inv, Typed
  <2>3. Typed'
    BY <1>1, <2>1 DEF Inv, Typed
  <2> QED
    BY <1>1, <2>1, <2>2, <2>3 DEF Inv, NothingReported, StopIsEarned, PassIsEarned, FeedbackIsLatest
<1> QED
  BY <1>2, <1>3, <1>4, <1>5

\* Every step of the loop keeps the invariant.
LEMMA InvStep == Inv /\ [Next]_vars => Inv'
<1> SUFFICES ASSUME Inv, [Next]_vars PROVE Inv'
  OBVIOUS
<1>1. CASE Skip \/ Filtered \/ FeedbackRaises
  BY <1>1, InvSkipped
<1>2. CASE Evaluated
  BY <1>2, InvEvaluated
<1>3. CASE StopWithoutOos \/ OosPasses \/ OosFails \/ OosRaises
  BY <1>3, InvStop
<1>4. CASE Exhausted
  BY <1>4 DEF Exhausted, session, Inv, Typed, NothingReported, StopIsEarned, PassIsEarned,
     FeedbackIsLatest
<1>5. CASE UNCHANGED vars
  BY <1>5 DEF vars, Inv, Typed, NothingReported, StopIsEarned, PassIsEarned, FeedbackIsLatest, Ended
<1> QED
  BY <1>1, <1>2, <1>3, <1>4, <1>5 DEF Next, Returned

\* The invariant holds throughout, in a session of any length.
THEOREM InvAlways == Spec => []Inv
BY InvInit, InvStep, PTL DEF Spec

\* A session that reports a pass names a strategy saved as passed with a profit
\* in sample, and an out-of-sample pass carries that strategy's own profit.
THEOREM PassAlwaysEarned == Spec => []PassIsEarned
<1>1. Inv => PassIsEarned
  BY DEF Inv
<1> QED
  BY <1>1, InvAlways, PTL

\* The next prompt repeats the feedback of the last attempt, and never a pass.
THEOREM FeedbackAlwaysLatest == Spec => []FeedbackIsLatest
<1>1. Inv => FeedbackIsLatest
  BY DEF Inv
<1> QED
  BY <1>1, InvAlways, PTL

-----------------------------------------------------------------------------
(* The counter, the windows and the best code *)

\* Positions of the attempts that passed, those since the last of them, and what
\* the counter says of a list of attempts.
PassedOf(seq) == {k \in DOMAIN seq : seq[k].verdict = "pass"}
SinceOf(seq)  == {k \in DOMAIN seq : \A p \in PassedOf(seq) : p <= k}
StuckOf(seq)  == IF PassedOf(seq) = {} THEN Len(seq) ELSE Cardinality(SinceOf(seq))

\* At the stop condition the counter was just reset, and the attempt that did
\* so is the only one since the last pass.
Counted ==
  /\ stuck \in Nat
  /\ pc = "next" => stuck = StuckOf(attempts)
  /\ pc = "stop" => stuck = 0 /\ StuckOf(attempts) = 1

\* The two windows of the memory.
Remembered ==
  /\ failures \in Seq(Strategy) /\ Len(failures) <= MaxFailures
  /\ successes \in Seq(Strategy) /\ Len(successes) <= MaxSuccesses

Saved == [of : Strategy, verdict : Verdicts, net : Int]

\* Strategies are saved in the order of their iterations, and the best net P&L
\* is that of the first which nothing saved exceeds; only a profit keeps code.
Ranked ==
  /\ saved \subseteq Saved
  /\ \A s \in saved : s.of <= Ended
  /\ best \in [seen : BOOLEAN, net : Int, code : Strategy \cup {None}]
  /\ ~best.seen => saved = {} /\ best.code = None
  /\ best.seen =>
       \E s \in saved :
         /\ s.net = best.net
         /\ best.code = IF best.net > 0 THEN s.of ELSE None
         /\ \A t \in saved : t.net < s.net \/ (t.net = s.net /\ s.of <= t.of)

Book == Counted /\ Remembered /\ Ranked
BookInv == Inv /\ hasOos \in BOOLEAN /\ Book

\* An attempt that did not pass is one more since the last that did.
LEMMA StuckGrows ==
  ASSUME NEW seq \in Seq(Attempt), NEW a \in Attempt, a.verdict # "pass"
  PROVE  StuckOf(Append(seq, a)) = StuckOf(seq) + 1
<1> DEFINE n == Len(seq)
           new == Append(seq, a)
<1>1. /\ n \in Nat /\ DOMAIN seq = 1 .. n /\ DOMAIN new = 1 .. n + 1
      /\ Len(new) = n + 1
      /\ \A k \in 1 .. n : new[k] = seq[k]
      /\ new[n + 1] = a
  BY AppendProperties, LenProperties
<1> HIDE DEF n, new
<1>2. PassedOf(new) = PassedOf(seq)
  BY <1>1 DEF PassedOf
<1>3. SinceOf(new) = SinceOf(seq) \cup {n + 1} /\ n + 1 \notin SinceOf(seq)
  <2>1. \A p \in PassedOf(seq) : p \in 1 .. n
    BY <1>1 DEF PassedOf
  <2> QED
    BY <1>1, <1>2, <2>1 DEF SinceOf
<1>4. IsFiniteSet(SinceOf(seq))
  <2>1. IsFiniteSet(1 .. n) /\ SinceOf(seq) \subseteq 1 .. n
    BY <1>1, FS_Interval DEF SinceOf
  <2> QED
    BY <2>1, FS_Subset
<1>5. Cardinality(SinceOf(new)) = Cardinality(SinceOf(seq)) + 1
  BY <1>3, <1>4, FS_AddElement
<1>6. StuckOf(seq) = IF PassedOf(seq) = {} THEN n ELSE Cardinality(SinceOf(seq))
  BY DEF StuckOf, n
<1> QED
  BY <1>1, <1>2, <1>5, <1>6 DEF StuckOf, new

\* An attempt that passes is the only one since the last that did.
LEMMA StuckRestarts ==
  ASSUME NEW seq \in Seq(Attempt), NEW a \in Attempt, a.verdict = "pass"
  PROVE  StuckOf(Append(seq, a)) = 1
<1> DEFINE n == Len(seq)
           new == Append(seq, a)
<1>1. /\ n \in Nat /\ DOMAIN new = 1 .. n + 1
      /\ new[n + 1] = a
  BY AppendProperties, LenProperties
<1> HIDE DEF n, new
<1>2. n + 1 \in PassedOf(new) /\ \A p \in PassedOf(new) : p <= n + 1
  BY <1>1 DEF PassedOf
<1>3. SinceOf(new) = {n + 1}
  BY <1>1, <1>2 DEF SinceOf
<1>4. Cardinality(SinceOf(new)) = 1
  BY <1>3, FS_Singleton
<1> QED
  BY <1>2, <1>4 DEF StuckOf, new

\* A window is no longer than its size and holds nothing new.
LEMMA LastOfTyped ==
  ASSUME NEW S, NEW seq \in Seq(S), NEW k \in Nat
  PROVE  LastOf(seq, k) \in Seq(S) /\ Len(LastOf(seq, k)) <= k
<1>1. Len(seq) \in Nat /\ \A i \in 1 .. Len(seq) : seq[i] \in S
  BY LenProperties, ElementOfSeq
<1>2. CASE Len(seq) <= k
  BY <1>2 DEF LastOf
<1>3. CASE ~(Len(seq) <= k)
  <2> DEFINE m == Len(seq) - k + 1
  <2>1. m \in Int /\ Len(seq) \in Int /\ \A i \in m .. Len(seq) : seq[i] \in S
    BY <1>1, <1>3
  <2>2. /\ SubSeq(seq, m, Len(seq)) \in Seq(S)
        /\ Len(SubSeq(seq, m, Len(seq))) = IF m <= Len(seq) THEN Len(seq) - m + 1 ELSE 0
    BY <2>1, SubSeqProperties
  <2>3. Len(SubSeq(seq, m, Len(seq))) <= k
    BY <1>1, <2>2
  <2> QED
    BY <1>3, <2>2, <2>3 DEF LastOf
<1> QED
  BY <1>2, <1>3

\* Nothing is attempted, remembered or saved yet.
LEMMA BookInit == Init => BookInv
<1> SUFFICES ASSUME Init PROVE BookInv
  OBVIOUS
<1>1. Counted
  <2>1. PassedOf(<< >>) = {} /\ Len(<< >>) = 0
    BY DEF PassedOf
  <2> QED
    BY <2>1 DEF Init, Counted, StuckOf
<1>2. Remembered /\ Ranked
  BY LoopAssumption DEF Init, Remembered, Ranked, Ended
<1> QED
  BY <1>1, <1>2, InvInit DEF Init, BookInv, Book

\* Iterations that are not judged leave the ranking as it is.
LEMMA RankedStays ==
  ASSUME Ranked, Ended \in Nat, Ended' \in Nat, Ended <= Ended', UNCHANGED <<best, saved>>
  PROVE  Ranked'
BY DEF Ranked, Saved, Strategy

\* An iteration that is not judged adds at most a filtered attempt.
LEMMA BookSkipped ==
  BookInv /\ (Skip \/ Filtered \/ FeedbackRaises) => Book'
<1> SUFFICES ASSUME BookInv, Skip \/ Filtered \/ FeedbackRaises PROVE Book'
  OBVIOUS
<1>0. /\ records \in Seq(Record) /\ attempts \in Seq(Attempt) /\ Ended \in Nat
      /\ pc = "next" /\ Current \in Strategy
      /\ UNCHANGED <<best, saved, failures, successes>>
  BY LenProperties DEF BookInv, Inv, Typed, Ended, Skip, Filtered, FeedbackRaises, More, session
<1>1. Remembered'
  BY <1>0 DEF BookInv, Book, Remembered
<1>2. Ended' \in Nat /\ Ended <= Ended'
  <2>1. CASE Skip
    <3>1. PICK reason \in {"llm_error", "hard_gate_fail", "backtest_error"} :
            records' = Append(records, [end |-> reason, net |-> 0])
      BY <2>1 DEF Skip
    <3>2. [end |-> reason, net |-> 0] \in Record
      BY DEF Record, Ends
    <3> QED
      BY <1>0, <3>1, <3>2, AppendProperties DEF Ended
  <2>2. CASE Filtered
    <3>1. records' = Append(records, [end |-> "dist_filter", net |-> 0])
      BY <2>2 DEF Filtered
    <3>2. [end |-> "dist_filter", net |-> 0] \in Record
      BY DEF Record, Ends
    <3> QED
      BY <1>0, <3>1, <3>2, AppendProperties DEF Ended
  <2>3. CASE FeedbackRaises
    BY <1>0, <2>3 DEF FeedbackRaises, Ended
  <2> QED
    BY <2>1, <2>2, <2>3
<1>3. Ranked'
  BY <1>0, <1>2, RankedStays DEF BookInv, Book
<1>4. Counted'
  <2>1. CASE Skip \/ FeedbackRaises
    BY <1>0, <2>1 DEF Skip, FeedbackRaises, session, BookInv, Book, Counted
  <2>2. CASE Filtered
    <3> DEFINE a == [of |-> Current, verdict |-> "dist_filter", net |-> 0]
    <3>1. /\ a \in Attempt /\ a.verdict # "pass"
          /\ attempts' = Append(attempts, a) /\ stuck' = stuck + 1 /\ pc' = "next"
      BY <1>0, <2>2 DEF Filtered, Attempt
    <3> HIDE DEF a
    <3>2. StuckOf(attempts') = StuckOf(attempts) + 1
      BY <1>0, <3>1, StuckGrows
    <3> QED
      BY <1>0, <3>1, <3>2 DEF BookInv, Book, Counted
  <2> QED
    BY <2>1, <2>2
<1> QED
  BY <1>1, <1>3, <1>4 DEF Book

\* A judged strategy is counted, remembered and ranked.
LEMMA BookEvaluated == BookInv /\ Evaluated => Book'
<1> SUFFICES ASSUME BookInv, Evaluated PROVE Book'
  OBVIOUS
<1>0. /\ records \in Seq(Record) /\ attempts \in Seq(Attempt) /\ Ended \in Nat
      /\ pc = "next" /\ Current \in Strategy /\ Current = Ended + 1
  BY LenProperties DEF BookInv, Inv, Typed, Ended, Current, Evaluated, More
<1>1. PICK j \in Judgements :
        /\ records' = Append(records, [end |-> j.verdict, net |-> j.net])
        /\ attempts' = Append(attempts, [of |-> Current, verdict |-> j.verdict, net |-> j.net])
        /\ saved' = saved \cup {[of |-> Current, verdict |-> j.verdict, net |-> j.net]}
        /\ best' = BetterOf(j)
        /\ stuck' = StuckAfter(j)
        /\ Remember(j)
        /\ pc' = IF j.verdict = "pass" THEN "stop" ELSE "next"
  BY DEF Evaluated
<1> DEFINE a == [of |-> Current, verdict |-> j.verdict, net |-> j.net]
           r == [end |-> j.verdict, net |-> j.net]
<1>2. j.verdict \in Verdicts /\ j.net \in Int
  BY PassMakesMoney
<1>3. /\ a \in Attempt /\ a \in Saved /\ r \in Record
      /\ a.of = Current /\ a.verdict = j.verdict /\ a.net = j.net
  BY <1>0, <1>2 DEF Attempt, Saved, Record, Ends
<1>4. /\ attempts' = Append(attempts, a) /\ saved' = saved \cup {a} /\ records' = Append(records, r)
  BY <1>1
<1> HIDE DEF a, r
<1>5. Ended' = Current
  BY <1>0, <1>3, <1>4, AppendProperties DEF Ended, Current
<1>6. Counted'
  <2>1. CASE j.verdict = "pass"
    BY <1>0, <1>1, <1>3, <1>4, <2>1, StuckRestarts DEF StuckAfter, Counted
  <2>2. CASE j.verdict # "pass"
    <3>1. StuckOf(attempts') = StuckOf(attempts) + 1
      BY <1>0, <1>3, <1>4, <2>2, StuckGrows
    <3> QED
      BY <1>0, <1>1, <2>2, <3>1 DEF StuckAfter, BookInv, Book, Counted
  <2> QED
    BY <2>1, <2>2
<1>7. Remembered'
  <2>1. \A seq \in Seq(Strategy) : Append(seq, Current) \in Seq(Strategy)
    BY <1>0, AppendProperties
  <2>2. MaxFailures \in Nat /\ MaxSuccesses \in Nat
    BY LoopAssumption
  <2>3. CASE j.verdict = "pass"
    <3>1. successes' = LastOf(Append(successes, Current), MaxSuccesses) /\ failures' = failures
      BY <1>1, <2>3 DEF Remember
    <3> QED
      BY <2>1, <2>2, <3>1, LastOfTyped DEF BookInv, Book, Remembered
  <2>4. CASE j.verdict # "pass"
    <3>1. failures' = LastOf(Append(failures, Current), MaxFailures) /\ successes' = successes
      BY <1>1, <2>4 DEF Remember
    <3> QED
      BY <2>1, <2>2, <3>1, LastOfTyped DEF BookInv, Book, Remembered
  <2> QED
    BY <2>3, <2>4
<1>8. Ranked'
  <2>1. Ranked /\ saved \subseteq Saved /\ \A s \in saved : s.of \in Nat /\ s.net \in Int /\ s.of < Current
    BY <1>0 DEF BookInv, Book, Ranked, Saved, Strategy
  <2>2. saved' \subseteq Saved /\ \A s \in saved' : s.of <= Ended'
    BY <1>0, <1>3, <1>4, <1>5, <2>1 DEF Strategy
  <2>3. CASE ~best.seen \/ j.net > best.net
    <3>1. best' = [seen |-> TRUE, net |-> j.net, code |-> IF j.net > 0 THEN Current ELSE None]
      BY <1>1, <2>3 DEF BetterOf
    <3>2. \A t \in saved : t.net < j.net
      <4>1. CASE ~best.seen
        BY <2>1, <4>1 DEF Ranked
      <4>2. CASE best.seen
        <5>1. j.net > best.net /\ best.net \in Int
          BY <2>1, <2>3, <4>2 DEF Ranked
        <5>2. \A t \in saved : t.net <= best.net
          BY <2>1, <4>2 DEF Ranked
        <5> QED
          BY <1>2, <2>1, <5>1, <5>2
      <4> QED
        BY <2>1, <4>1, <4>2 DEF Ranked
    <3>3. \A t \in saved' : t.net < a.net \/ (t.net = a.net /\ a.of <= t.of)
      BY <1>0, <1>3, <1>4, <3>2 DEF Strategy
    <3>4. best' \in [seen : BOOLEAN, net : Int, code : Strategy \cup {None}]
      BY <1>0, <1>2, <3>1
    <3>5. \E s \in saved' :
            /\ s.net = best'.net
            /\ best'.code = IF best'.net > 0 THEN s.of ELSE None
            /\ \A t \in saved' : t.net < s.net \/ (t.net = s.net /\ s.of <= t.of)
      BY <1>3, <1>4, <3>1, <3>3
    <3> QED
      BY <2>2, <3>1, <3>4, <3>5 DEF Ranked
  <2>4. CASE best.seen /\ ~(j.net > best.net)
    <3>1. best' = best
      BY <1>1, <2>4 DEF BetterOf
    <3>2. PICK s \in saved :
            /\ s.net = best.net
            /\ best.code = IF best.net > 0 THEN s.of ELSE None
            /\ \A t \in saved : t.net < s.net \/ (t.net = s.net /\ s.of <= t.of)
      BY <2>1, <2>4 DEF Ranked
    <3>3. a.net < s.net \/ (a.net = s.net /\ s.of <= a.of)
      BY <1>0, <1>2, <1>3, <2>1, <2>4, <3>2 DEF Strategy
    <3>4. \A t \in saved' : t.net < s.net \/ (t.net = s.net /\ s.of <= t.of)
      BY <1>4, <3>2, <3>3
    <3>5. \E u \in saved' :
            /\ u.net = best'.net
            /\ best'.code = IF best'.net > 0 THEN u.of ELSE None
            /\ \A t \in saved' : t.net < u.net \/ (t.net = u.net /\ u.of <= t.of)
      BY <1>4, <3>1, <3>2, <3>4
    <3> QED
      BY <2>1, <2>2, <2>4, <3>1, <3>5 DEF Ranked
  <2> QED
    BY <2>1, <2>3, <2>4 DEF Ranked
<1> QED
  BY <1>6, <1>7, <1>8 DEF Book

\* A failed validation is the second reason to count the attempt that passed.
LEMMA BookStop ==
  BookInv /\ (StopWithoutOos \/ OosPasses \/ OosFails \/ OosRaises) => Book'
<1> SUFFICES ASSUME BookInv, StopWithoutOos \/ OosPasses \/ OosFails \/ OosRaises PROVE Book'
  OBVIOUS
<1>1. /\ pc = "stop" /\ records \in Seq(Record) /\ Ended \in Nat
      /\ UNCHANGED <<records, attempts, best, failures, successes, saved>>
  BY LenProperties DEF BookInv, Inv, Typed, Ended, StopWithoutOos, OosPasses, OosFails, OosRaises, session
<1>2. Ended' = Ended
  BY <1>1 DEF Ended
<1>3. Remembered' /\ Ranked'
  BY <1>1, <1>2, RankedStays DEF BookInv, Book, Remembered
<1>4. Counted'
  <2>1. stuck = 0 /\ StuckOf(attempts) = 1
    BY <1>1 DEF BookInv, Book, Counted
  <2>2. CASE OosFails
    <3>1. pc' = "next" /\ stuck' = stuck + 1
      BY <2>2 DEF OosFails
    <3> QED
      BY <1>1, <2>1, <3>1 DEF Counted
  <2>3. CASE StopWithoutOos \/ OosPasses \/ OosRaises
    BY <2>1, <2>3 DEF StopWithoutOos, OosPasses, OosRaises, session, Counted
  <2> QED
    BY <2>2, <2>3
<1> QED
  BY <1>3, <1>4 DEF Book

LEMMA BookStep == BookInv /\ [Next]_vars => BookInv'
<1> SUFFICES ASSUME BookInv, [Next]_vars PROVE BookInv'
  OBVIOUS
<1>1. Inv'
  BY InvStep DEF BookInv
<1>2. hasOos' = hasOos
  BY DEF Next, vars, Skip, Filtered, Evaluated, FeedbackRaises, StopWithoutOos, OosPasses, OosFails,
     OosRaises, Exhausted, Returned
<1>3. Book'
  <2>1. CASE Exhausted \/ UNCHANGED vars
    <3>1. /\ UNCHANGED <<records, attempts, best, stuck, failures, successes, saved>>
          /\ pc' = pc \/ pc' = "over"
      BY <2>1 DEF Exhausted, session, vars
    <3> QED
      BY <3>1 DEF BookInv, Book, Counted, Remembered, Ranked, Ended
  <2> QED
    BY <2>1, BookSkipped, BookEvaluated, BookStop DEF Next, Returned
<1> QED
  BY <1>1, <1>2, <1>3 DEF BookInv

LEMMA BookAlways == Spec => []BookInv
BY BookInit, BookStep, PTL DEF Spec

\* The state of a session stays well formed: net P&L is a number, the windows
\* of the memory keep to their sizes and everything saved is of an iteration.
THEOREM TypeCorrect == Spec => []TypeOK
<1>1. BookInv => TypeOK
  <2> SUFFICES ASSUME BookInv PROVE TypeOK
    OBVIOUS
  <2>1. \A S : \A seq \in Seq(S) : ToSet(seq) \subseteq S
    BY ElementOfSeq, LenProperties DEF ToSet
  <2>2. ToSet(records) \subseteq Record /\ ToSet(attempts) \subseteq Attempt
    BY <2>1 DEF BookInv, Inv, Typed
  <2>3. Windowed(failures, MaxFailures) /\ Windowed(successes, MaxSuccesses)
    BY <2>1 DEF BookInv, Book, Remembered, Windowed
  <2> QED
    BY <2>2, <2>3 DEF BookInv, Inv, Typed, Book, Counted, Ranked, Saved, Record, Attempt, Ends, TypeOK
<1> QED
  BY <1>1, BookAlways, PTL

\* At the top of the loop the counter that asks for another idea is the number
\* of attempts since the last one that passed in sample.
THEOREM StuckAlwaysExact == Spec => []StuckIsExact
<1>1. BookInv => StuckIsExact
  BY DEF BookInv, Book, Counted, StuckOf, PassedOf, SinceOf, StuckIsExact
<1> QED
  BY <1>1, BookAlways, PTL

\* The code offered as the best is the first that made the largest profit of all
\* evaluated strategies, and there is one as soon as any made a profit.
THEOREM BestAlwaysMostProfitable == Spec => []BestIsMostProfitable
<1>1. BookInv => BestIsMostProfitable
  <2> SUFFICES ASSUME BookInv PROVE BestIsMostProfitable
    OBVIOUS
  <2>1. Ranked /\ \A s \in saved : s.of \in Strategy /\ s.net \in Int
    BY DEF BookInv, Book, Ranked, Saved
  <2>2. None \notin Strategy
    BY DEF None, Strategy
  <2>3. CASE ~best.seen
    BY <2>1, <2>3 DEF Ranked, BestIsMostProfitable
  <2>4. CASE best.seen
    <3>1. PICK s \in saved :
            /\ s.net = best.net
            /\ best.code = IF best.net > 0 THEN s.of ELSE None
            /\ \A t \in saved : t.net < s.net \/ (t.net = s.net /\ s.of <= t.of)
      BY <2>1, <2>4 DEF Ranked
    <3>2. (best.code # None) <=> best.net > 0
      BY <2>1, <2>2, <3>1
    <3>3. (\E t \in saved : t.net > 0) <=> best.net > 0
      BY <2>1, <3>1
    <3> QED
      BY <3>1, <3>2, <3>3 DEF BestIsMostProfitable
  <2> QED
    BY <2>1, <2>3, <2>4 DEF Ranked
<1> QED
  BY <1>1, BookAlways, PTL

-----------------------------------------------------------------------------
(* The search for better constants *)

LEMMA SortedSound ==
  ASSUME NEW values \in Seq(Int)
  PROVE  /\ Sorted(values) \in Seq(Int) /\ Len(Sorted(values)) = Len(values)
         /\ \A k \in 1 .. Len(values) : \E i \in 1 .. Len(values) : Sorted(values)[k] = values[i]
         /\ \A k, l \in 1 .. Len(values) : k <= l => Sorted(values)[k] <= Sorted(values)[l]
<1> DEFINE n == Len(values)
           S == DOMAIN values
           part == [i \in 1 .. n |-> 0 - values[i]]
           below(i) == {j \in S : values[j] < values[i] \/ (values[j] = values[i] /\ j > i)}
           at == [k \in S |-> CHOOSE i \in S : Cardinality(below(i)) = k - 1]
           sorted == Sorted(values)
<1>1. n \in Nat /\ S = 1 .. n /\ \A i \in 1 .. n : values[i] \in Int
  BY LenProperties, ElementOfSeq
<1>2. sorted = [k \in S |-> values[CHOOSE i \in S : Cardinality(below(i)) = k - 1]]
  BY Zenon DEF Sorted
<1> HIDE DEF n, S
<1>3. \A i \in 1 .. n : part[i] = 0 - values[i] /\ part[i] \in Int
  BY <1>1
<1> HIDE DEF part
<1>4. \A i \in 1 .. n : below(i) = Above(part, n, i)
  BY <1>1, <1>3 DEF Above
<1> HIDE DEF below
<1>5. ASSUME NEW k \in 1 .. n
      PROVE  at[k] \in 1 .. n /\ Cardinality(below(at[k])) = k - 1
  <2>1. k - 1 \in 0 .. n - 1
    BY <1>1
  <2>2. \E i \in 1 .. n : Cardinality(Above(part, n, i)) = k - 1
    <3>1. \A h \in 0 .. n - 1 : \E i \in 1 .. n : Cardinality(Above(part, n, i)) = h
      BY <1>1, <1>3, RanksTaken
    <3> QED
      BY <2>1, <3>1, Zenon
  <2>3. \E i \in S : Cardinality(below(i)) = k - 1
    BY <1>1, <1>4, <2>2
  <2>4. at[k] = CHOOSE i \in S : Cardinality(below(i)) = k - 1
    BY <1>1
  <2> QED
    BY <1>1, <2>3, <2>4, Zenon
<1>6. \A k \in 1 .. n : sorted[k] = values[at[k]]
  BY <1>1, <1>2
<1>7. sorted = [k \in 1 .. n |-> sorted[k]]
  BY <1>1, <1>2
<1> HIDE DEF at, sorted
<1>8. \A k \in 1 .. n : sorted[k] \in Int
  BY <1>1, <1>5, <1>6
<1>9. sorted \in Seq(Int) /\ Len(sorted) = n
  BY <1>1, <1>7, <1>8, SequenceOf
<1>10. ASSUME NEW k \in 1 .. n, NEW l \in 1 .. n, k < l
       PROVE  sorted[k] <= sorted[l]
  <2> DEFINE a == at[k]
             b == at[l]
  <2>1. a \in 1 .. n /\ b \in 1 .. n /\ sorted[k] = values[a] /\ sorted[l] = values[b]
    BY <1>5, <1>6
  <2>2. Cardinality(Above(part, n, a)) = k - 1 /\ Cardinality(Above(part, n, b)) = l - 1
    BY <1>4, <1>5, <2>1
  <2> HIDE DEF a, b
  <2>3. b \notin Above(part, n, a)
    <3>1. b \in Above(part, n, a) => Cardinality(Above(part, n, b)) < Cardinality(Above(part, n, a))
      BY <1>1, <1>3, <2>1, RankBelow
    <3> QED
      BY <1>1, <1>10, <2>2, <3>1
  <2>4. ~(part[b] > part[a])
    BY <2>1, <2>3 DEF Above
  <2>5. values[a] \in Int /\ values[b] \in Int /\ part[a] = 0 - values[a] /\ part[b] = 0 - values[b]
    BY <1>1, <1>3, <2>1
  <2> QED
    BY <2>1, <2>4, <2>5
<1>11. \A k, l \in 1 .. n : k <= l => sorted[k] <= sorted[l]
  <2> TAKE k, l \in 1 .. n
  <2>1. k \in Int /\ l \in Int /\ sorted[k] \in Int
    BY <1>1, <1>8
  <2> QED
    BY <1>10, <2>1
<1>12. \A k \in 1 .. n : \E i \in 1 .. n : sorted[k] = values[i]
  BY <1>5, <1>6
<1> QED
  BY <1>9, <1>11, <1>12 DEF n, sorted

\* The stages: growing tenths of the data, of which the last is all of it.
LEMMA StagesOfSound ==
  ASSUME NEW raw \in Seq(Int)
  PROVE  LET stages == StagesOf(raw) IN
         /\ stages \in Seq(1 .. 10) /\ Len(stages) > 0 /\ stages[Len(stages)] = 10
         /\ \A k, l \in 1 .. Len(stages) : k <= l => stages[k] <= stages[l]
<1> DEFINE T == 1 .. 10
           kept   == At(raw, {k \in DOMAIN raw : raw[k] > 0})
           capped == [k \in DOMAIN kept |-> Least(kept[k], 10)]
           chosen == IF kept = << >> THEN DefaultStages ELSE capped
           sorted == Sorted(chosen)
           stages == StagesOf(raw)
           n == Len(sorted)
<1>1. stages = IF sorted[n] < 10 THEN Append(sorted, 10) ELSE sorted
  BY Zenon DEF StagesOf, Last
<1>2. kept \in Seq(Int) /\ \A k \in 1 .. Len(kept) : kept[k] \in Int /\ kept[k] > 0
  <2> DEFINE positive == {k \in DOMAIN raw : raw[k] > 0}
  <2>1. DOMAIN raw = 1 .. Len(raw) /\ \A k \in 1 .. Len(raw) : k \in positive => raw[k] > 0
    BY LenProperties
  <2> HIDE DEF positive
  <2>2. \A k \in 1 .. Len(At(raw, positive)) : \E i \in 1 .. Len(raw) : i \in positive /\ At(raw, positive)[k] = raw[i]
    BY AtMembers
  <2>3. At(raw, positive) \in Seq(Int)
    BY AtTyped
  <2>4. \A k \in 1 .. Len(At(raw, positive)) : At(raw, positive)[k] \in Int /\ At(raw, positive)[k] > 0
    BY <2>1, <2>2, <2>3, ElementOfSeq
  <2> QED
    BY <2>3, <2>4 DEF positive
<1> HIDE DEF kept
<1>3. Len(kept) \in Nat /\ DOMAIN kept = 1 .. Len(kept)
  BY <1>2, LenProperties
<1>4. capped \in Seq(T) /\ Len(capped) = Len(kept)
  <2>1. \A k \in 1 .. Len(kept) : capped[k] \in T
    <3>1. \A v \in Int : v > 0 => Least(v, 10) \in T
      BY DEF Least
    <3>2. \A k \in 1 .. Len(kept) : capped[k] = Least(kept[k], 10)
      BY <1>3
    <3> HIDE DEF capped, T
    <3> QED
      BY <1>2, <3>1, <3>2
  <2>2. capped = [k \in 1 .. Len(kept) |-> capped[k]]
    BY <1>3
  <2> HIDE DEF capped, T
  <2> QED
    BY <1>3, <2>1, <2>2, SequenceOf
<1>5. DefaultStages \in Seq(T) /\ Len(DefaultStages) = 3
  BY DEF DefaultStages
<1>6. chosen \in Seq(T) /\ Len(chosen) \in Nat \ {0}
  <2>1. kept # << >> => Len(kept) # 0
    BY <1>2, EmptySeq
  <2>2. CASE kept = << >>
    <3>1. chosen = DefaultStages
      BY <2>2
    <3> HIDE DEF chosen, T
    <3> QED
      BY <1>5, <3>1
  <2>3. CASE kept # << >>
    <3>1. chosen = capped
      BY <2>3
    <3> HIDE DEF chosen, capped, T
    <3> QED
      BY <1>3, <1>4, <2>1, <2>3, <3>1
  <2> QED
    BY <2>2, <2>3
<1> HIDE DEF chosen
<1>7. Len(chosen) \in Nat /\ \A k \in 1 .. Len(chosen) : chosen[k] \in T
  BY <1>6, LenProperties, ElementOfSeq
<1>8. chosen \in Seq(Int)
  <2>1. chosen = [k \in 1 .. Len(chosen) |-> chosen[k]]
    BY <1>6, LenProperties
  <2>2. \A k \in 1 .. Len(chosen) : chosen[k] \in Int
    BY <1>7
  <2> QED
    BY <1>7, <2>1, <2>2, SequenceOf
<1>9. /\ sorted \in Seq(Int) /\ n = Len(chosen)
      /\ \A k \in 1 .. Len(chosen) : \E i \in 1 .. Len(chosen) : sorted[k] = chosen[i]
      /\ \A k, l \in 1 .. Len(chosen) : k <= l => sorted[k] <= sorted[l]
  BY <1>8, SortedSound
<1> HIDE DEF sorted, n
<1>10. n \in Nat /\ n > 0 /\ \A k \in 1 .. n : sorted[k] \in T
  BY <1>6, <1>7, <1>9
<1>11. \A k, l \in 1 .. n : k <= l => sorted[k] <= sorted[l]
  BY <1>9
<1>12. sorted \in Seq(T)
  <2>1. sorted = [k \in 1 .. n |-> sorted[k]]
    BY <1>9, LenProperties DEF n
  <2> HIDE DEF T
  <2> QED
    BY <1>10, <2>1, SequenceOf
<1>13. CASE sorted[n] < 10
  <2> DEFINE more == Append(sorted, 10)
  <2>1. more \in Seq(T) /\ Len(more) = n + 1 /\ more[n + 1] = 10 /\ \A k \in 1 .. n : more[k] = sorted[k]
    <3>1. 10 \in T
      OBVIOUS
    <3> HIDE DEF T
    <3> QED
      BY <1>12, <3>1, AppendProperties DEF n
  <2> HIDE DEF more
  <2>2. ASSUME NEW k \in 1 .. n + 1, NEW l \in 1 .. n + 1, k <= l
        PROVE  more[k] <= more[l]
    <3>1. CASE l = n + 1
      BY <1>10, <2>1, <3>1
    <3>2. CASE l # n + 1
      <4>1. l \in 1 .. n /\ k \in 1 .. n
        BY <1>10, <2>2, <3>2
      <4> QED
        BY <1>11, <2>1, <2>2, <4>1
    <3> QED
      BY <3>1, <3>2
  <2>3. stages = more
    BY <1>1, <1>13 DEF more
  <2> HIDE DEF stages
  <2>4. stages \in Seq(T) /\ Len(stages) > 0 /\ stages[Len(stages)] = 10
        /\ \A k, l \in 1 .. Len(stages) : k <= l => stages[k] <= stages[l]
    BY <1>10, <2>1, <2>2, <2>3
  <2> QED
    BY <2>4 DEF stages
<1>14. CASE ~(sorted[n] < 10)
  <2>1. stages = sorted /\ sorted[n] = 10
    <3>1. n \in 1 .. n
      BY <1>10
    <3>2. sorted[n] \in T
      BY <1>10, <3>1
    <3> QED
      BY <1>1, <1>14, <3>2
  <2> HIDE DEF stages
  <2>2. stages \in Seq(T) /\ Len(stages) > 0 /\ stages[Len(stages)] = 10
        /\ \A k, l \in 1 .. Len(stages) : k <= l => stages[k] <= stages[l]
    BY <1>10, <1>11, <1>12, <2>1 DEF n
  <2> QED
    BY <2>2 DEF stages
<1> QED
  BY <1>13, <1>14

LEMMA CeilingMonotone ==
  ASSUME NEW a \in Int, NEW b \in Int, a <= b
  PROVE  Ceiling(a, 10) \in Int /\ Ceiling(a, 10) <= Ceiling(b, 10)
BY DEF Ceiling

LEMMA CeilingOfTenfold ==
  ASSUME NEW a \in Nat
  PROVE  Ceiling(a * 10, 10) = a
BY DEF Ceiling

LEMMA ProductGrows ==
  ASSUME NEW s \in Nat, NEW p \in Nat, NEW q \in Nat, p <= q
  PROVE  s * p \in Nat /\ s * p <= s * q
<1>1. q - p \in Nat /\ s * (q - p) \in Nat
  OBVIOUS
<1>2. s * q = s * p + s * (q - p)
  OBVIOUS
<1>3. s * p \in Nat /\ s * q \in Nat
  OBVIOUS
<1> QED
  BY <1>1, <1>2, <1>3

\* For any data and any list of stages the last stage is all the data, and no
\* stage is empty or smaller than the one before.  (_normalize_stage_prefixes)
THEOREM StagesAlwaysRight ==
  ASSUME NEW states \in Nat \ {0}, NEW raw \in Seq(Int)
  PROVE  StagesAreRight(states, raw)
<1> DEFINE stages == StagesOf(raw)
           n == Len(stages)
           size(p) == Least(states, Greatest(1, Ceiling(states * p, 10)))
           sizes == StageSizes(states, raw)
<1>1. stages \in Seq(1 .. 10) /\ n > 0 /\ stages[n] = 10
      /\ \A k, l \in 1 .. n : k <= l => stages[k] <= stages[l]
  BY StagesOfSound
<1>2. sizes = [k \in DOMAIN stages |-> size(stages[k])]
  BY Zenon DEF StageSizes
<1> HIDE DEF stages, n
<1>3. n \in Nat /\ DOMAIN stages = 1 .. n /\ \A k \in 1 .. n : stages[k] \in 1 .. 10
  BY <1>1, LenProperties, ElementOfSeq DEF n
<1>4. ASSUME NEW p \in 1 .. 10
      PROVE  size(p) \in Nat /\ size(p) > 0
  <2> DEFINE c == Ceiling(states * p, 10)
  <2>1. c \in Int
    <3>1. states * p \in Int
      OBVIOUS
    <3> QED
      BY <3>1, CeilingMonotone
  <2> HIDE DEF c
  <2>2. size(p) = Least(states, Greatest(1, c))
    BY DEF c
  <2> HIDE DEF size
  <2> QED
    BY <2>1, <2>2 DEF Least, Greatest
<1>5. ASSUME NEW p \in 1 .. 10, NEW q \in 1 .. 10, p <= q
      PROVE  size(p) <= size(q)
  <2> DEFINE c == Ceiling(states * p, 10)
             d == Ceiling(states * q, 10)
  <2>1. c \in Int /\ d \in Int /\ c <= d
    <3> DEFINE a == states * p
               b == states * q
    <3>1. a \in Int /\ b \in Int /\ a <= b
      BY <1>5, ProductGrows
    <3> HIDE DEF a, b
    <3>2. Ceiling(a, 10) \in Int /\ Ceiling(b, 10) \in Int /\ Ceiling(a, 10) <= Ceiling(b, 10)
      BY <3>1, CeilingMonotone
    <3> QED
      BY <3>2 DEF a, b
  <2> HIDE DEF c, d
  <2>2. size(p) = Least(states, Greatest(1, c)) /\ size(q) = Least(states, Greatest(1, d))
    BY DEF c, d
  <2> HIDE DEF size
  <2> QED
    BY <2>1, <2>2 DEF Least, Greatest
<1>6. size(10) = states
  <2>1. Ceiling(states * 10, 10) = states
    BY CeilingOfTenfold
  <2> QED
    BY <2>1 DEF Least, Greatest
<1> HIDE DEF size
<1>7. \A k \in 1 .. n : sizes[k] = size(stages[k])
  BY <1>2, <1>3
<1>8. sizes \in Seq(Nat) /\ Len(sizes) = n
  <2>1. sizes = [k \in 1 .. n |-> sizes[k]]
    BY <1>2, <1>3
  <2>2. \A k \in 1 .. n : sizes[k] \in Nat
    BY <1>3, <1>4, <1>7
  <2> HIDE DEF sizes
  <2> QED
    BY <1>3, <2>1, <2>2, SequenceOf
<1> HIDE DEF sizes
<1>9. sizes[1] > 0
  <2>1. 1 \in 1 .. n
    BY <1>1, <1>3
  <2>2. stages[1] \in 1 .. 10 /\ sizes[1] = size(stages[1])
    BY <1>3, <1>7, <2>1
  <2> QED
    BY <1>4, <2>2
<1>10. sizes[n] = states
  BY <1>1, <1>3, <1>6, <1>7
<1>11. ASSUME NEW k \in 2 .. n
       PROVE  sizes[k - 1] <= sizes[k]
  <2>1. k - 1 \in 1 .. n /\ k \in 1 .. n /\ k - 1 <= k
    BY <1>3
  <2>2. stages[k - 1] \in 1 .. 10 /\ stages[k] \in 1 .. 10 /\ stages[k - 1] <= stages[k]
    BY <1>1, <1>3, <2>1
  <2> QED
    BY <1>5, <1>7, <2>1, <2>2
<1> QED
  BY <1>8, <1>9, <1>10, <1>11 DEF StagesAreRight, Last, sizes

\* The answers of a strategy that is asked whether it enters.
Answer == {"enter", "wait", "raise"}

LEMMA EntriesCounted ==
  ASSUME NEW answers \in Seq(Answer)
  PROVE  Entries(answers) \in Nat
<1> DEFINE entries == {k \in DOMAIN answers : answers[k] = "enter"}
<1>1. entries \subseteq 1 .. Len(answers) /\ Len(answers) \in Nat
  BY LenProperties
<1> HIDE DEF entries
<1>2. IsFiniteSet(entries)
  <2>1. IsFiniteSet(1 .. Len(answers))
    BY <1>1, FS_Interval
  <2> QED
    BY <1>1, <2>1, FS_Subset
<1>3. Cardinality(entries) \in Nat
  BY <1>2, FS_CardinalityType
<1> QED
  BY <1>3 DEF Entries, entries

\* The first answers, of which the filter sees no more than its sample.
LEMMA SampleOf ==
  ASSUME NEW answers \in Seq(Answer), NEW size \in Nat \ {0}
  PROVE  /\ size >= Len(answers) => SubSeq(answers, 1, Least(size, Len(answers))) = answers
         /\ \A more \in Answer : size <= Len(answers) =>
              SubSeq(Append(answers, more), 1, Least(size, Len(Append(answers, more))))
                = SubSeq(answers, 1, Least(size, Len(answers)))
<1> DEFINE n == Len(answers)
<1>1. n \in Nat
  BY LenProperties
<1>2. ASSUME size >= n
      PROVE  SubSeq(answers, 1, Least(size, n)) = answers
  <2> DEFINE some == SubSeq(answers, 1, n)
  <2>1. Least(size, n) = n
    BY <1>1, <1>2 DEF Least
  <2>2. some \in Seq(Answer) /\ Len(some) = n /\ \A i \in 1 .. n : some[i] = answers[i]
    BY <1>1, SubSeqProperties
  <2> HIDE DEF some
  <2>3. some = answers
    BY <2>2, SeqEqual
  <2> QED
    BY <2>1, <2>3 DEF some
<1>3. ASSUME NEW more \in Answer, size <= n
      PROVE  SubSeq(Append(answers, more), 1, Least(size, Len(Append(answers, more))))
                = SubSeq(answers, 1, Least(size, n))
  <2> DEFINE longer == Append(answers, more)
             a == SubSeq(longer, 1, size)
             b == SubSeq(answers, 1, size)
  <2>1. longer \in Seq(Answer) /\ Len(longer) = n + 1 /\ \A i \in 1 .. n : longer[i] = answers[i]
    BY AppendProperties
  <2> HIDE DEF longer
  <2>2. Least(size, n) = size /\ Least(size, Len(longer)) = size
    BY <1>1, <1>3, <2>1 DEF Least
  <2>3. a \in Seq(Answer) /\ Len(a) = size /\ \A i \in 1 .. size : a[i] = longer[i]
    BY <1>1, <1>3, <2>1, SubSeqProperties
  <2>4. b \in Seq(Answer) /\ Len(b) = size /\ \A i \in 1 .. size : b[i] = answers[i]
    BY <1>1, <1>3, SubSeqProperties
  <2> HIDE DEF a, b
  <2>5. \A i \in 1 .. size : a[i] = b[i]
    BY <1>1, <1>3, <2>1, <2>3, <2>4
  <2>6. a = b
    BY <2>3, <2>4, <2>5, SeqEqual
  <2> QED
    BY <2>2, <2>6 DEF a, b, longer
<1> QED
  BY <1>2, <1>3

\* For any answers of a strategy the search and the filter after it agree on
\* how often it enters.  (check_code_entry_frequency, _evaluate_stage_summary)
THEOREM FrequencyAlwaysAgrees ==
  ASSUME NEW answers \in Seq(Answer), answers # << >>, NEW size \in Nat \ {0}
  PROVE  FrequencyAgrees(answers, size)
<1> DEFINE n == Len(answers)
           e == Entries(answers)
           quiet == "raise" \notin ToSet(answers)
           freq == [signals |-> e, states |-> n]
           run == [ok |-> quiet, states |-> n, signals |-> e, net |-> 0, mdd |-> 0]
<1>1. n \in Nat \ {0} /\ e \in Nat
  <2>1. n \in Nat /\ n # 0
    BY LenProperties, EmptySeq
  <2> QED
    BY <2>1, EntriesCounted
<1>2. ASSUME size >= n
      PROVE  PassesFilter(answers, size) <=> EvaluatedStage(run, 1).valid
  <2>1. PassesFilter(answers, size) <=> quiet /\ Allowed(freq)
    <3>1. SubSeq(answers, 1, Least(size, n)) = answers
      BY <1>2, SampleOf
    <3> QED
      BY <3>1 DEF PassesFilter
  <2>2. Allowed(freq) => e > 0
    BY <1>1 DEF Allowed
  <2>3. run.ok = quiet /\ run.states = n /\ run.signals = e
    OBVIOUS
  <2>4. EvaluatedStage(run, 1) =
          IF ~quiet \/ n <= 0 \/ e <= 0 THEN InvalidAt(NoEntry)
          ELSE IF ~Allowed(freq) THEN InvalidAt(freq)
          ELSE [valid |-> TRUE, score |-> run.net - 1 * run.mdd, net |-> run.net, mdd |-> run.mdd, freq |-> freq]
    BY <2>3, Zenon DEF EvaluatedStage
  <2> HIDE DEF run, freq, quiet, e, n
  <2>5. \A f : ~InvalidAt(f).valid
    BY DEF InvalidAt
  <2>6. ~(n <= 0)
    BY <1>1
  <2>7. e > 0 <=> ~(e <= 0)
    BY <1>1
  <2>8. EvaluatedStage(run, 1).valid <=> quiet /\ ~(e <= 0) /\ Allowed(freq)
    BY <2>4, <2>5, <2>6
  <2> QED
    BY <2>1, <2>2, <2>7, <2>8
<1>3. ASSUME NEW more \in {"enter", "raise"}, n >= size
      PROVE  PassesFilter(Append(answers, more), size) <=> PassesFilter(answers, size)
  <2>1. more \in Answer /\ size <= n
    BY <1>1, <1>3 DEF Answer
  <2>2. SubSeq(Append(answers, more), 1, Least(size, Len(Append(answers, more)))) = SubSeq(answers, 1, Least(size, n))
    BY <2>1, SampleOf
  <2> QED
    BY <2>2, Zenon DEF PassesFilter
<1>4. FrequencyAgrees(answers, size) <=>
        /\ size >= n => (PassesFilter(answers, size) <=> EvaluatedStage(run, 1).valid)
        /\ \A more \in {"enter", "raise"} :
             n >= size => (PassesFilter(Append(answers, more), size) <=> PassesFilter(answers, size))
  BY Zenon DEF FrequencyAgrees
<1> QED
  BY <1>2, <1>3, <1>4

\* What a trial consists of, and what is known of it afterwards.
StageRun == [ok : BOOLEAN, states : Int, signals : Int, net : Int, mdd : Int]
StageFreq == [signals : Int, states : Int]
StageEval == [valid : BOOLEAN, score : Int, net : Int, mdd : Int, freq : StageFreq]
Outcome == [reports : Seq(Int), eval : StageEval, pruned : BOOLEAN, ended : BOOLEAN]

LEMMA PenaltyTyped == Penalty \in Int
BY DEF Penalty

LEMMA InvalidTyped ==
  ASSUME NEW f \in StageFreq
  PROVE  InvalidAt(f) \in StageEval /\ ~InvalidAt(f).valid /\ InvalidAt(f).score = Penalty
BY PenaltyTyped DEF InvalidAt, StageEval

LEMMA NoEntryTyped == NoEntry \in StageFreq
BY DEF NoEntry, StageFreq

LEMMA StageTyped ==
  ASSUME NEW s \in StageRun, NEW lambda \in Int
  PROVE  /\ EvaluatedStage(s, lambda) \in StageEval
         /\ ~EvaluatedStage(s, lambda).valid => EvaluatedStage(s, lambda).score = Penalty
<1> DEFINE e == EvaluatedStage(s, lambda)
           freq == [signals |-> s.signals, states |-> s.states]
           good == [valid |-> TRUE, score |-> s.net - lambda * s.mdd, net |-> s.net, mdd |-> s.mdd, freq |-> freq]
<1>1. e = InvalidAt(NoEntry) \/ e = InvalidAt(freq) \/ e = good
  BY Zenon DEF EvaluatedStage
<1>2. freq \in StageFreq
  BY DEF StageFreq, StageRun
<1>3. good \in StageEval /\ good.valid
  <2> DEFINE score == s.net - lambda * s.mdd
  <2>1. score \in Int /\ s.net \in Int /\ s.mdd \in Int
    BY DEF StageRun
  <2> HIDE DEF score, freq
  <2>2. [valid |-> TRUE, score |-> score, net |-> s.net, mdd |-> s.mdd, freq |-> freq] \in StageEval
    BY <1>2, <2>1 DEF StageEval
  <2> QED
    BY <2>2 DEF score
<1> HIDE DEF e, freq, good
<1>4. e \in StageEval /\ (~e.valid => e.score = Penalty)
  BY <1>1, <1>2, <1>3, InvalidTyped, NoEntryTyped
<1> QED
  BY <1>4 DEF e

\* The best report is at least the last one.
LEMMA BestReport ==
  ASSUME NEW reports \in Seq(Int), Len(reports) > 0
  PROVE  /\ FoldLeft(Greatest, reports[1], reports) \in Int
         /\ FoldLeft(Greatest, reports[1], reports) >= reports[Len(reports)]
<1> DEFINE n == Len(reports)
           A == Int
           start == reports[1]
           G == [p \in (1 .. n) \X A |-> Greatest(p[2], reports[p[1]])]
           IsIter(g) == g = [t \in SUBSET (1 .. n) |->
             IF t = {} THEN start ELSE Greatest(g[t \ {Max(t)}], reports[Max(t)])]
           iter == CHOOSE g : IsIter(g)
<1>1. n \in Nat \ {0} /\ DOMAIN reports = 1 .. n /\ \A i \in 1 .. n : reports[i] \in A
  BY LenProperties, ElementOfSeq
<1>2. FoldLeft(Greatest, start, reports) = iter[1 .. n]
  <2>1. FoldLeft(Greatest, start, reports) = (CHOOSE g : g = [t \in SUBSET (DOMAIN reports) |->
          IF t = {} THEN start ELSE Greatest(g[t \ {Max(t)}], reports[Max(t)])])[DOMAIN reports]
    BY Zenon DEF FoldLeft, MapThenFoldSet
  <2> QED
    BY <1>1, <2>1, Zenon
<1>3. start \in A
  BY <1>1
<1> HIDE DEF n, start
<1>4. ASSUME NEW i \in 1 .. n, NEW a \in A
      PROVE  G[<<i, a>>] = Greatest(a, reports[i])
  OBVIOUS
<1> HIDE DEF G
<1>5. ASSUME NEW i \in 1 .. n, NEW a \in A
      PROVE  Greatest(a, reports[i]) \in A /\ Greatest(a, reports[i]) >= reports[i]
  BY <1>1 DEF Greatest
<1> HIDE DEF A
<1>6. Keeps(G, 1 .. n, A)
  <2>1. ASSUME NEW i \in 1 .. n, NEW a \in A
        PROVE  G[<<i, a>>] \in A
    BY <1>4, <1>5, Zenon
  <2> QED
    BY <2>1, Zenon DEF Keeps
<1>7. \E g : IsIter(g)
  <2>1. PICK g \in [SUBSET (1 .. n) -> A] : IsLeftFold(G, start, n, g)
    BY <1>1, <1>3, <1>6, FoldLeftExists
  <2>2. ASSUME NEW t \in SUBSET (1 .. n)
        PROVE  g[t] = IF t = {} THEN start ELSE Greatest(g[t \ {Max(t)}], reports[Max(t)])
    <3>1. t # {} => Max(t) \in 1 .. n
      BY <1>1, LargestChosen
    <3>2. g[t \ {Max(t)}] \in A
      OBVIOUS
    <3> QED
      BY <1>4, <2>1, <3>1, <3>2 DEF IsLeftFold
  <2> QED
    BY <2>2
<1>8. IsIter(iter)
  BY <1>7
<1> HIDE DEF iter
<1>9. iter[{}] = start
  BY <1>8
<1>10. ASSUME NEW k \in 1 .. n, iter[1 .. k - 1] \in A
       PROVE  iter[1 .. k] = G[<<k, iter[1 .. k - 1]>>]
  <2>1. k \in Nat \ {0} /\ 1 .. k \in SUBSET (1 .. n)
    BY <1>1
  <2>2. iter[1 .. k] = Greatest(iter[(1 .. k) \ {Max(1 .. k)}], reports[Max(1 .. k)])
    BY <1>8, <2>1, LargestOfPrefix
  <2>3. Max(1 .. k) = k /\ (1 .. k) \ {k} = 1 .. k - 1
    BY <2>1, LargestOfPrefix
  <2>4. iter[1 .. k] = Greatest(iter[1 .. k - 1], reports[k])
    BY <2>2, <2>3, Zenon
  <2> QED
    BY <1>4, <1>10, <2>4, Zenon
<1>11. PICK H : IsTrace(G, A, start, n, H) /\ H[n] = iter[1 .. n]
  <2>1. StepsOn(G, A, n, iter)
    BY <1>10, Zenon DEF StepsOn
  <2> QED
    BY <1>1, <1>3, <1>6, <1>9, <2>1, FoldLeftTrace
<1>12. H[n] = Greatest(H[n - 1], reports[n]) /\ H[n - 1] \in A
  <2>1. n \in 1 .. n /\ n - 1 \in 0 .. n
    BY <1>1
  <2>2. H[n - 1] \in A /\ H[n] = G[<<n, H[n - 1]>>]
    BY <1>11, <2>1 DEF IsTrace
  <2> QED
    BY <1>4, <2>1, <2>2
<1>13. H[n] \in A /\ H[n] >= reports[n]
  <2>1. n \in 1 .. n
    BY <1>1
  <2> QED
    BY <1>5, <1>12, <2>1
<1> QED
  BY <1>2, <1>11, <1>13 DEF n, A, start

\* A trial is only pruned below a completed one that came as far.
LEMMA PrunedBelow ==
  ASSUME NEW conf, NEW reports \in Seq(Int), Len(reports) > 0, NEW done \in Seq(Outcome),
         ShouldPrune(conf, reports, done)
  PROVE  \E j \in 1 .. Len(done) : /\ ~done[j].pruned /\ Len(done[j].reports) >= Len(reports)
                                   /\ done[j].reports[Len(reports)] > reports[Len(reports)]
<1> DEFINE n == Len(reports)
           finished == {k \in DOMAIN done : ~done[k].pruned}
           complete == At(done, finished)
           reaching == {k \in DOMAIN complete : Len(complete[k].reports) >= n}
           here   == At(complete, reaching)
           top    == FoldLeft(Greatest, reports[1], reports)
           values == [k \in DOMAIN here |-> here[k].reports[n]]
           sorted == Sorted(values)
           m == Len(sorted)
<1>1. here # << >> /\ 2 * top < TwiceMedian(values)
  BY Zenon DEF ShouldPrune
<1>2. TwiceMedian(values) = sorted[(m + 1) \div 2] + sorted[m \div 2 + 1]
  BY Zenon DEF TwiceMedian
<1>3. top \in Int /\ top >= reports[n]
  BY BestReport
<1>4. n \in Nat /\ DOMAIN done = 1 .. Len(done) /\ n > 0 /\ reports[n] \in Int
  <2>1. n \in Nat /\ DOMAIN done = 1 .. Len(done)
    BY LenProperties
  <2> QED
    BY <2>1, ElementOfSeq
<1>5. \A k \in DOMAIN done : k \in finished => ~done[k].pruned
  OBVIOUS
<1> HIDE DEF finished, n, top, m
<1>6. complete \in Seq(Outcome) /\ \A k \in DOMAIN complete : \E j \in DOMAIN done : j \in finished /\ complete[k] = done[j]
  <2>1. complete \in Seq(Outcome)
    BY AtTyped
  <2>2. DOMAIN complete = 1 .. Len(complete)
    BY <2>1, LenProperties
  <2>3. \A k \in 1 .. Len(complete) : \E j \in 1 .. Len(done) : j \in finished /\ complete[k] = done[j]
    BY AtMembers
  <2> HIDE DEF complete
  <2> QED
    BY <1>4, <2>1, <2>2, <2>3
<1>7. \A k \in DOMAIN complete : k \in reaching => Len(complete[k].reports) >= n
  OBVIOUS
<1> HIDE DEF complete, reaching
<1>8. here \in Seq(Outcome) /\ \A k \in DOMAIN here : \E j \in DOMAIN complete : j \in reaching /\ here[k] = complete[j]
  <2>1. here \in Seq(Outcome)
    BY <1>6, AtTyped
  <2>2. DOMAIN here = 1 .. Len(here) /\ DOMAIN complete = 1 .. Len(complete)
    BY <1>6, <2>1, LenProperties
  <2>3. \A k \in 1 .. Len(here) : \E j \in 1 .. Len(complete) : j \in reaching /\ here[k] = complete[j]
    BY <1>6, AtMembers
  <2> HIDE DEF here
  <2> QED
    BY <1>6, <2>1, <2>2, <2>3
<1> HIDE DEF here
<1>9. \A k \in DOMAIN here : \E j \in 1 .. Len(done) :
         ~done[j].pruned /\ Len(done[j].reports) >= n /\ values[k] = done[j].reports[n]
  <2> SUFFICES ASSUME NEW k \in DOMAIN here
               PROVE  \E j \in 1 .. Len(done) :
                        ~done[j].pruned /\ Len(done[j].reports) >= n /\ values[k] = done[j].reports[n]
    OBVIOUS
  <2>1. values[k] = here[k].reports[n]
    OBVIOUS
  <2> HIDE DEF values
  <2>2. PICK i \in DOMAIN complete : i \in reaching /\ here[k] = complete[i]
    BY <1>8
  <2>3. PICK j \in DOMAIN done : j \in finished /\ complete[i] = done[j]
    BY <1>6
  <2> QED
    BY <1>4, <1>5, <1>7, <2>1, <2>2, <2>3
<1>10. \A j \in 1 .. Len(done) : Len(done[j].reports) >= n => done[j].reports[n] \in Int
  <2> SUFFICES ASSUME NEW j \in 1 .. Len(done), Len(done[j].reports) >= n
               PROVE  done[j].reports[n] \in Int
    OBVIOUS
  <2>1. done[j].reports \in Seq(Int)
    <3>1. done[j] \in Outcome
      BY ElementOfSeq
    <3> QED
      BY <3>1 DEF Outcome
  <2>2. n \in 1 .. Len(done[j].reports)
    BY <1>4, <2>1, LenProperties
  <2> QED
    BY <2>1, <2>2, ElementOfSeq
<1>11. Len(here) \in Nat \ {0} /\ DOMAIN here = 1 .. Len(here)
  BY <1>1, <1>8, LenProperties, EmptySeq
<1>12. values \in Seq(Int) /\ Len(values) = Len(here)
  <2>1. \A k \in 1 .. Len(here) : values[k] \in Int
    BY <1>9, <1>10, <1>11
  <2>2. values = [k \in 1 .. Len(here) |-> values[k]]
    BY <1>11
  <2> HIDE DEF values
  <2> QED
    BY <1>11, <2>1, <2>2, SequenceOf
<1> HIDE DEF values
<1>13. /\ sorted \in Seq(Int) /\ m = Len(here)
       /\ \A k \in 1 .. m : \E i \in 1 .. Len(here) : sorted[k] = values[i]
  BY <1>12, SortedSound DEF m
<1> HIDE DEF sorted
<1>14. (m + 1) \div 2 \in 1 .. m /\ m \div 2 + 1 \in 1 .. m
  <2>1. \A i \in Nat \ {0} : (i + 1) \div 2 \in 1 .. i /\ i \div 2 + 1 \in 1 .. i
    OBVIOUS
  <2>2. m \in Nat \ {0}
    BY <1>11, <1>13
  <2> QED
    BY <2>1, <2>2
<1> DEFINE a == (m + 1) \div 2
           b == m \div 2 + 1
<1>15. \E k \in 1 .. m : sorted[k] > top
  <2>1. a \in 1 .. m /\ b \in 1 .. m /\ 2 * top < sorted[a] + sorted[b]
    BY <1>1, <1>2, <1>14
  <2> HIDE DEF a, b
  <2>2. sorted[a] \in Int /\ sorted[b] \in Int
    BY <1>13, <2>1, ElementOfSeq DEF m
  <2>3. sorted[a] > top \/ sorted[b] > top
    BY <1>3, <2>1, <2>2
  <2> QED
    BY <2>1, <2>3
<1>16. PICK i \in 1 .. Len(here) : values[i] > top
  BY <1>13, <1>15
<1>17. PICK j \in 1 .. Len(done) : ~done[j].pruned /\ Len(done[j].reports) >= n /\ values[i] = done[j].reports[n]
  BY <1>9, <1>11
<1>18. done[j].reports[n] > reports[n]
  BY <1>3, <1>4, <1>10, <1>16, <1>17
<1> QED
  BY <1>17, <1>18 DEF n

\* What is known of a trial after its first m stages, whose results are E:
\* what it reported, whether it was pruned for it, and what it has earned.
Reported(E, o, m) ==
  /\ Len(o.reports) <= m
  /\ \A i \in 1 .. Len(o.reports) : o.reports[i] = E[i].score
  /\ \A i \in 1 .. Len(o.reports) - 1 : E[i].valid
  /\ ~o.ended => Len(o.reports) = m /\ (m > 0 => E[m].valid)
Earned(E, o) ==
  ~o.pruned => /\ Len(o.reports) = 0 => o.eval = InvalidAt(NoEntry) /\ ~o.ended
               /\ Len(o.reports) > 0 => o.eval = E[Len(o.reports)] /\ (o.ended => ~o.eval.valid)
Pruned(conf, o, done) ==
  o.pruned => o.ended /\ conf.pruning /\ Len(o.reports) > 0 /\ ShouldPrune(conf, o.reports, done)
IsOutcome(conf, E, done, m, o) ==
  o \in Outcome /\ Reported(E, o, m) /\ Earned(E, o) /\ Pruned(conf, o, done)

LEMMA UnrunTyped ==
  ASSUME NEW conf, NEW E, NEW done
  PROVE  IsOutcome(conf, E, done, 0, Unrun)
<1> DEFINE none == InvalidAt(NoEntry)
<1>1. none \in StageEval
  BY NoEntryTyped, InvalidTyped
<1>2. Unrun = [reports |-> << >>, eval |-> none, pruned |-> FALSE, ended |-> FALSE]
  BY DEF Unrun
<1>3. << >> \in Seq(Int) /\ Len(<< >>) = 0
  BY EmptySeq
<1> HIDE DEF none
<1>4. Unrun \in Outcome
  BY <1>1, <1>2, <1>3 DEF Outcome
<1>5. Unrun.reports = << >> /\ Unrun.eval = none /\ ~Unrun.pruned /\ ~Unrun.ended
  BY <1>2
<1> QED
  BY <1>3, <1>4, <1>5 DEF IsOutcome, Reported, Earned, Pruned, none

LEMMA StageTaken ==
  ASSUME NEW conf, NEW done, NEW E, NEW m \in Nat \ {0}, NEW s, NEW o, NEW e \in StageEval,
         E[m] = e, e = EvaluatedStage(s, conf.lambda), IsOutcome(conf, E, done, m - 1, o)
  PROVE  IsOutcome(conf, E, done, m, AfterStage(conf, o, s, done))
<1> DEFINE reports == Append(o.reports, e.score)
           cut  == [o EXCEPT !.reports = reports, !.pruned = TRUE, !.ended = TRUE]
           went == [o EXCEPT !.reports = reports, !.eval = e, !.ended = ~e.valid]
           p == AfterStage(conf, o, s, done)
<1>1. p = IF o.ended THEN o
          ELSE IF conf.pruning /\ ShouldPrune(conf, reports, done) THEN cut ELSE went
  BY Zenon DEF AfterStage, EvalAfter
<1>2. o \in Outcome /\ Reported(E, o, m - 1) /\ Earned(E, o) /\ Pruned(conf, o, done)
  BY DEF IsOutcome
<1> DEFINE l == Len(o.reports)
<1>3. o.reports \in Seq(Int) /\ l \in Nat /\ o.pruned \in BOOLEAN /\ o.ended \in BOOLEAN /\ o.eval \in StageEval
  BY <1>2, LenProperties DEF Outcome
<1>4. e.score \in Int /\ e.valid \in BOOLEAN
  BY DEF StageEval
<1>5. /\ reports \in Seq(Int) /\ Len(reports) = l + 1 /\ reports[l + 1] = e.score
      /\ \A i \in 1 .. l : reports[i] = o.reports[i]
  BY <1>3, <1>4, AppendProperties
<1> HIDE DEF reports
<1>6. CASE o.ended
  <2>1. p = o
    BY <1>1, <1>6
  <2>2. Reported(E, o, m)
    BY <1>2, <1>3, <1>6 DEF Reported
  <2> HIDE DEF p
  <2> QED
    BY <1>2, <2>1, <2>2 DEF IsOutcome, p
<1>7. CASE ~o.ended
  <2>1. /\ l = m - 1 /\ \A i \in 1 .. l : o.reports[i] = E[i].score
        /\ \A i \in 1 .. l : E[i].valid
    <3>1. /\ l = m - 1 /\ \A i \in 1 .. l : o.reports[i] = E[i].score
          /\ \A i \in 1 .. l - 1 : E[i].valid
          /\ m - 1 > 0 => E[m - 1].valid
      BY <1>2, <1>7 DEF Reported
    <3> HIDE DEF l
    <3> QED
      BY <1>3, <3>1
  <2>2. ~o.pruned
    BY <1>2, <1>7 DEF Pruned
  <2> HIDE DEF l
  <2>3. Len(reports) = m /\ (\A i \in 1 .. m : reports[i] = E[i].score) /\ \A i \in 1 .. m - 1 : E[i].valid
    <3>1. ASSUME NEW i \in 1 .. m
          PROVE  reports[i] = E[i].score
      BY <1>3, <1>5, <2>1
    <3> QED
      BY <1>3, <1>5, <2>1, <3>1
  <2>4. CASE conf.pruning /\ ShouldPrune(conf, reports, done)
    <3>1. p = cut
      BY <1>1, <1>7, <2>4
    <3>2. cut \in Outcome /\ cut.reports = reports /\ cut.pruned = TRUE /\ cut.ended = TRUE
      BY <1>2, <1>5 DEF Outcome
    <3> HIDE DEF cut, p
    <3>3. Reported(E, cut, m) /\ Earned(E, cut) /\ Pruned(conf, cut, done)
      BY <2>3, <2>4, <3>2 DEF Reported, Earned, Pruned
    <3> QED
      BY <3>1, <3>2, <3>3 DEF IsOutcome, p
  <2>5. CASE ~(conf.pruning /\ ShouldPrune(conf, reports, done))
    <3>1. p = went
      BY <1>1, <1>7, <2>5
    <3>2. /\ went \in Outcome /\ went.reports = reports /\ went.pruned = o.pruned
          /\ went.ended = ~e.valid /\ went.eval = e
      BY <1>2, <1>3, <1>4, <1>5 DEF Outcome
    <3> HIDE DEF went, p
    <3>3. went.ended <=> ~e.valid
      BY <1>4, <3>2, Zenon
    <3>4. Reported(E, went, m)
      BY <2>3, <3>2, <3>3 DEF Reported
    <3>5. Earned(E, went)
      BY <2>3, <3>2, <3>3 DEF Earned
    <3>6. Pruned(conf, went, done)
      BY <2>2, <3>2 DEF Pruned
    <3> QED
      BY <3>1, <3>2, <3>4, <3>5, <3>6 DEF IsOutcome, p
  <2> QED
    BY <2>4, <2>5
<1> QED
  BY <1>3, <1>6, <1>7

LEMMA AfterStageTyped ==
  ASSUME NEW conf, conf.lambda \in Int, NEW done, NEW s \in StageRun, NEW o \in Outcome
  PROVE  AfterStage(conf, o, s, done) \in Outcome
<1> DEFINE e == EvaluatedStage(s, conf.lambda)
           reports == Append(o.reports, e.score)
           cut  == [o EXCEPT !.reports = reports, !.pruned = TRUE, !.ended = TRUE]
           went == [o EXCEPT !.reports = reports, !.eval = e, !.ended = ~e.valid]
           p == AfterStage(conf, o, s, done)
<1>1. p = o \/ p = cut \/ p = went
  BY Zenon DEF AfterStage, EvalAfter
<1>2. e \in StageEval
  BY StageTyped
<1> HIDE DEF e, p
<1>3. reports \in Seq(Int)
  <2>1. o.reports \in Seq(Int) /\ e.score \in Int
    BY <1>2 DEF Outcome, StageEval
  <2> QED
    BY <2>1, AppendProperties
<1> HIDE DEF reports
<1>4. cut \in Outcome /\ went \in Outcome
  BY <1>2, <1>3 DEF Outcome
<1> QED
  BY <1>1, <1>4 DEF p

\* The results of a trial's stages.
Evals(conf, runs) == [i \in 1 .. Len(runs) |-> EvaluatedStage(runs[i], conf.lambda)]

\* A trial that runs takes its stages in turn.
Stages(conf, done, runs) == FoldLeft(LAMBDA o, s : AfterStage(conf, o, s, done), Unrun, runs)

LEMMA TrialRuns ==
  ASSUME NEW conf, conf.lambda \in Int, NEW done, NEW runs \in Seq(StageRun)
  PROVE  IsOutcome(conf, Evals(conf, runs), done, Len(runs), Stages(conf, done, runs))
<1> DEFINE n == Len(runs)
           A == Outcome
           start == Unrun
           E == Evals(conf, runs)
           after(o, s) == AfterStage(conf, o, s, done)
           G == [p \in (1 .. n) \X A |-> after(p[2], runs[p[1]])]
           IsIter(g) == g = [t \in SUBSET (1 .. n) |->
             IF t = {} THEN start ELSE after(g[t \ {Max(t)}], runs[Max(t)])]
           iter == CHOOSE g : IsIter(g)
           ran == Stages(conf, done, runs)
<1>1. n \in Nat /\ DOMAIN runs = 1 .. n /\ \A i \in 1 .. n : runs[i] \in StageRun
  BY LenProperties, ElementOfSeq
<1>2. ran = iter[1 .. n]
  <2>1. ran = (CHOOSE g : g = [t \in SUBSET (DOMAIN runs) |->
          IF t = {} THEN start ELSE after(g[t \ {Max(t)}], runs[Max(t)])])[DOMAIN runs]
    BY Zenon DEF Stages, FoldLeft, MapThenFoldSet
  <2> QED
    BY <1>1, <2>1, Zenon
<1>3. start \in A /\ IsOutcome(conf, E, done, 0, start)
  BY UnrunTyped DEF IsOutcome
<1>4. E = [i \in 1 .. n |-> EvaluatedStage(runs[i], conf.lambda)]
  BY DEF Evals
<1> HIDE DEF n, start, E, ran
<1>5. ASSUME NEW i \in 1 .. n, NEW a \in A
      PROVE  G[<<i, a>>] = after(a, runs[i])
  OBVIOUS
<1> HIDE DEF G
<1>6. ASSUME NEW i \in 1 .. n, NEW a \in A
      PROVE  after(a, runs[i]) \in A
  BY <1>1, AfterStageTyped
<1>7. ASSUME NEW i \in 1 .. n, NEW a \in A, IsOutcome(conf, E, done, i - 1, a)
      PROVE  IsOutcome(conf, E, done, i, after(a, runs[i]))
  <2> DEFINE e == EvaluatedStage(runs[i], conf.lambda)
  <2>1. e \in StageEval /\ E[i] = e /\ i \in Nat \ {0}
    BY <1>1, <1>4, StageTyped
  <2>2. e = EvaluatedStage(runs[i], conf.lambda)
    OBVIOUS
  <2> HIDE DEF e
  <2> QED
    BY <1>7, <2>1, <2>2, StageTaken
<1> HIDE DEF A, after
<1>8. Keeps(G, 1 .. n, A)
  <2>1. ASSUME NEW i \in 1 .. n, NEW a \in A
        PROVE  G[<<i, a>>] \in A
    BY <1>5, <1>6, Zenon
  <2> QED
    BY <2>1, Zenon DEF Keeps
<1>9. \E g : IsIter(g)
  <2>1. PICK g \in [SUBSET (1 .. n) -> A] : IsLeftFold(G, start, n, g)
    BY <1>1, <1>3, <1>8, FoldLeftExists
  <2>2. ASSUME NEW t \in SUBSET (1 .. n)
        PROVE  g[t] = IF t = {} THEN start ELSE after(g[t \ {Max(t)}], runs[Max(t)])
    <3>1. t # {} => Max(t) \in 1 .. n
      BY <1>1, LargestChosen
    <3>2. g[t \ {Max(t)}] \in A
      OBVIOUS
    <3> QED
      BY <1>5, <2>1, <3>1, <3>2 DEF IsLeftFold
  <2> QED
    BY <2>2
<1>10. IsIter(iter)
  BY <1>9
<1> HIDE DEF iter
<1>11. iter[{}] = start
  BY <1>10
<1>12. ASSUME NEW k \in 1 .. n, iter[1 .. k - 1] \in A
       PROVE  iter[1 .. k] = G[<<k, iter[1 .. k - 1]>>]
  <2>1. k \in Nat \ {0} /\ 1 .. k \in SUBSET (1 .. n)
    BY <1>1
  <2>2. iter[1 .. k] = after(iter[(1 .. k) \ {Max(1 .. k)}], runs[Max(1 .. k)])
    BY <1>10, <2>1, LargestOfPrefix
  <2>3. Max(1 .. k) = k /\ (1 .. k) \ {k} = 1 .. k - 1
    BY <2>1, LargestOfPrefix
  <2>4. iter[1 .. k] = after(iter[1 .. k - 1], runs[k])
    BY <2>2, <2>3, Zenon
  <2> QED
    BY <1>5, <1>12, <2>4, Zenon
<1>13. PICK H : IsTrace(G, A, start, n, H) /\ H[n] = iter[1 .. n]
  <2>1. StepsOn(G, A, n, iter)
    BY <1>12, Zenon DEF StepsOn
  <2> QED
    BY <1>1, <1>3, <1>8, <1>11, <2>1, FoldLeftTrace
<1> DEFINE Good == {k \in 0 .. n : IsOutcome(conf, E, done, k, H[k])}
<1>14. 0 \in Good
  BY <1>1, <1>3, <1>13 DEF IsTrace
<1>15. ASSUME NEW k \in 1 .. n, k - 1 \in Good
       PROVE  k \in Good
  <2>1. k - 1 \in 0 .. n /\ k \in 0 .. n
    BY <1>1
  <2>2. H[k - 1] \in A /\ H[k] = G[<<k, H[k - 1]>>]
    BY <1>13, <2>1 DEF IsTrace
  <2>3. H[k] = after(H[k - 1], runs[k])
    BY <1>5, <2>2
  <2>4. IsOutcome(conf, E, done, k, H[k])
    BY <1>7, <1>15, <2>2, <2>3
  <2> QED
    BY <2>1, <2>4
<1> HIDE DEF Good
<1>16. \A k \in 0 .. n : k \in Good
  BY <1>1, <1>14, <1>15, UpTo
<1>17. n \in Good
  BY <1>1, <1>16
<1>18. IsOutcome(conf, E, done, n, ran)
  BY <1>2, <1>13, <1>17 DEF Good
<1> QED
  BY <1>18 DEF n, E, ran

\* A trial that went through every stage, and its result on the whole data.
Sound(conf, trial) ==
  /\ trial.compiles /\ conf.states # 0 /\ conf.cash > 0
  /\ \A i \in DOMAIN trial.runs : EvaluatedStage(trial.runs[i], conf.lambda).valid
Full(conf, trial) == EvaluatedStage(Last(trial.runs), conf.lambda)

\* One of the first m trials completed the n-th stage with more than x.
Beaten(done, m, n, x) ==
  \E j \in 1 .. m : ~done[j].pruned /\ Len(done[j].reports) >= n /\ done[j].reports[n] > x

\* What a trial of n stages comes to, after m others: what it has earned if it
\* was not pruned, why it was pruned, and what its last report means.
Completes(conf, trial, o) ==
  ~o.pruned => (o.eval.valid <=> Sound(conf, trial)) /\ (o.eval.valid => o.eval = Full(conf, trial))
Loses(conf, trial, n, done, m, o) ==
  o.pruned => /\ conf.pruning
              /\ Sound(conf, trial) /\ Len(o.reports) = n => Beaten(done, m, n, Full(conf, trial).score)
Reports(conf, trial, n, o) ==
  ~o.pruned /\ Len(o.reports) >= n /\ o.reports[n] > Penalty =>
    Sound(conf, trial) /\ o.reports[n] = Full(conf, trial).score
TrialIs(conf, trial, n, done, m, o) ==
  Completes(conf, trial, o) /\ Loses(conf, trial, n, done, m, o) /\ Reports(conf, trial, n, o)

LEMMA TrialComesTo ==
  ASSUME NEW conf, conf.lambda \in Int, conf.cash \in Int, NEW n \in Nat \ {0},
         NEW trial, trial.runs \in Seq(StageRun), Len(trial.runs) = n, NEW done \in Seq(Outcome)
  PROVE  /\ RunTrial(conf, trial, done) \in Outcome
         /\ TrialIs(conf, trial, n, done, Len(done), RunTrial(conf, trial, done))
<1> DEFINE runs == trial.runs
           E == Evals(conf, runs)
           o == RunTrial(conf, trial, done)
           full == Full(conf, trial)
           starts == trial.compiles /\ conf.states # 0 /\ conf.cash > 0
           sound == Sound(conf, trial)
           l == Len(o.reports)
<1>1. DOMAIN runs = 1 .. n /\ \A i \in 1 .. n : runs[i] \in StageRun
  BY LenProperties, ElementOfSeq
<1>2. ASSUME NEW i \in 1 .. n
      PROVE  /\ E[i] = EvaluatedStage(runs[i], conf.lambda)
             /\ E[i] \in StageEval /\ (~E[i].valid => E[i].score = Penalty)
  <2>1. E[i] = EvaluatedStage(runs[i], conf.lambda)
    BY DEF Evals
  <2> QED
    BY <1>1, <2>1, StageTyped
<1>3. E[n] = full
  <2>1. Last(runs) = runs[n]
    BY DEF Last
  <2> QED
    BY <1>2, <2>1 DEF Full
<1>4. sound <=> starts /\ \A i \in 1 .. n : E[i].valid
  BY <1>1, <1>2 DEF Sound
<1>5. CASE ~starts
  <2>0. ~trial.compiles \/ conf.states = 0 \/ conf.cash <= 0
    BY <1>5
  <2>1. o = Unrun
    BY <2>0, Zenon DEF RunTrial
  <2>2. IsOutcome(conf, E, done, 0, Unrun)
    BY UnrunTyped
  <2>3. Unrun.reports = << >> /\ Unrun.eval = InvalidAt(NoEntry) /\ ~Unrun.pruned
    BY DEF Unrun
  <2>4. ~InvalidAt(NoEntry).valid
    BY NoEntryTyped, InvalidTyped
  <2>5. ~sound
    BY <1>4, <1>5
  <2> HIDE DEF o, sound
  <2>6. o \in Outcome /\ Len(o.reports) = 0 /\ ~o.pruned /\ ~o.eval.valid
    BY <2>1, <2>2, <2>3, <2>4, EmptySeq DEF IsOutcome
  <2>7. TrialIs(conf, trial, n, done, Len(done), o)
    BY <2>5, <2>6 DEF TrialIs, Completes, Loses, Reports, sound
  <2> QED
    BY <2>6, <2>7 DEF o
<1>6. CASE starts
  <2>0. ~(~trial.compiles \/ conf.states = 0 \/ conf.cash <= 0)
    BY <1>6
  <2>1. o = Stages(conf, done, runs)
    BY <2>0, Zenon DEF RunTrial, Stages
  <2>2. IsOutcome(conf, E, done, n, o)
    BY <2>1, TrialRuns
  <2> HIDE DEF E, o, full, sound
  <2>3. o \in Outcome /\ Reported(E, o, n) /\ Earned(E, o) /\ Pruned(conf, o, done)
    BY <2>2 DEF IsOutcome
  <2>4. o.reports \in Seq(Int) /\ l \in Nat /\ o.ended \in BOOLEAN /\ o.pruned \in BOOLEAN
    BY <2>3, LenProperties DEF Outcome
  <2> HIDE DEF l
  <2>5. /\ l <= n /\ (\A i \in 1 .. l : o.reports[i] = E[i].score)
        /\ (\A i \in 1 .. l - 1 : E[i].valid)
        /\ ~o.ended => l = n /\ E[n].valid
    BY <2>3 DEF Reported, l
  <2>6. sound <=> \A i \in 1 .. n : E[i].valid
    BY <1>4, <1>6
  <2>7. l = n /\ E[n].valid => sound
    <3>1. ASSUME l = n, E[n].valid, NEW i \in 1 .. n
          PROVE  E[i].valid
      <4>1. i = n \/ i \in 1 .. n - 1
        OBVIOUS
      <4> QED
        BY <2>5, <3>1, <4>1
    <3> QED
      BY <2>6, <3>1
  <2>8. Completes(conf, trial, o)
    <3> SUFFICES ASSUME ~o.pruned
                 PROVE  (o.eval.valid <=> sound) /\ (o.eval.valid => o.eval = full)
      BY DEF Completes, sound, full
    <3>1. CASE l = 0
      <4>1. o.eval = InvalidAt(NoEntry) /\ ~o.ended
        BY <2>3, <3>1 DEF Earned, l
      <4>2. FALSE
        BY <2>5, <3>1, <4>1
      <4> QED
        BY <4>2
    <3>2. CASE l > 0
      <4>1. o.eval = E[l] /\ (o.ended => ~o.eval.valid)
        BY <2>3, <3>2 DEF Earned, l
      <4>2. o.eval.valid => l = n /\ E[n].valid
        BY <2>5, <4>1
      <4>3. l \in 1 .. n
        BY <2>4, <2>5, <3>2
      <4>4. sound => o.eval.valid
        BY <2>6, <4>1, <4>3
      <4> QED
        BY <1>3, <2>7, <4>1, <4>2, <4>4
    <3> QED
      BY <2>4, <3>1, <3>2
  <2>9. Loses(conf, trial, n, done, Len(done), o)
    <3> SUFFICES ASSUME o.pruned
                 PROVE  conf.pruning /\ (sound /\ l = n => Beaten(done, Len(done), n, full.score))
      BY DEF Loses, sound, full, l
    <3>1. conf.pruning /\ l > 0 /\ ShouldPrune(conf, o.reports, done)
      BY <2>3 DEF Pruned, l
    <3>2. \E j \in 1 .. Len(done) : /\ ~done[j].pruned /\ Len(done[j].reports) >= l
                                    /\ done[j].reports[l] > o.reports[l]
      BY <2>4, <3>1, PrunedBelow DEF l
    <3>3. l = n => o.reports[n] = full.score
      BY <1>3, <2>5
    <3> QED
      BY <3>1, <3>2, <3>3 DEF Beaten
  <2>10. Reports(conf, trial, n, o)
    <3> SUFFICES ASSUME l >= n, o.reports[n] > Penalty
                 PROVE  sound /\ o.reports[n] = full.score
      BY DEF Reports, sound, full, l
    <3>1. l = n /\ n \in 1 .. n
      BY <2>4, <2>5
    <3>2. o.reports[n] = E[n].score
      BY <2>5, <3>1
    <3>3. E[n].valid
      BY <1>2, <3>1, <3>2, PenaltyTyped
    <3> QED
      BY <1>3, <2>7, <3>1, <3>2, <3>3
  <2> QED
    BY <2>3, <2>8, <2>9, <2>10 DEF TrialIs, o
<1> QED
  BY <1>5, <1>6

\* What is known of a study after its first m trials.
Kept(conf, trials, done, k) == Sound(conf, trials[k]) /\ ~done[k].pruned
History(conf, trials, n, done, m) ==
  Len(done) = m /\ \A k \in 1 .. m : TrialIs(conf, trials[k], n, done, k - 1, done[k])
Best(conf, code, trials, done, m, top, k) ==
  /\ Kept(conf, trials, done, k) /\ top = With(Inject(code, trials[k].values), Full(conf, trials[k]))
  /\ \A j \in 1 .. m : Kept(conf, trials, done, j) => Full(conf, trials[j]).score <= Full(conf, trials[k]).score
Found(conf, code, trials, m, study) ==
  IF study.seen THEN \E k \in 1 .. m : Best(conf, code, trials, study.done, m, study.best, k)
  ELSE study.best = AsWritten(code) /\ \A k \in 1 .. m : ~Kept(conf, trials, study.done, k)

Codes(code, trials) == {code} \cup {Inject(code, trials[k].values) : k \in 1 .. Len(trials)}
Candidates(code, trials) ==
  [code : Codes(code, trials), score : Int, net : Int, mdd : Int, freq : StageFreq]
Studies(code, trials) == [done : Seq(Outcome), seen : BOOLEAN, best : Candidates(code, trials)]

\* Trials of the same stages, whose scores are above the penalty.
SearchedWith(conf, n, trial) ==
  /\ trial.runs \in Seq(StageRun) /\ Len(trial.runs) = n
  /\ \A i \in 1 .. n : EvaluatedStage(trial.runs[i], conf.lambda).valid =>
                         EvaluatedStage(trial.runs[i], conf.lambda).score > Penalty
IsStudy(conf, trials, n) ==
  /\ conf.lambda \in Int /\ conf.cash \in Int /\ n \in Nat \ {0}
  /\ \E X : trials \in Seq(X)
  /\ \A k \in 1 .. Len(trials) : SearchedWith(conf, n, trials[k])

LEMMA FullTyped ==
  ASSUME NEW conf, conf.lambda \in Int, NEW n \in Nat \ {0}, NEW trial, SearchedWith(conf, n, trial)
  PROVE  Full(conf, trial) \in StageEval
         /\ (Sound(conf, trial) => Full(conf, trial).valid /\ Full(conf, trial).score > Penalty)
<1>1. Last(trial.runs) = trial.runs[n] /\ n \in 1 .. n /\ DOMAIN trial.runs = 1 .. n
  BY LenProperties DEF Last, SearchedWith
<1>2. trial.runs[n] \in StageRun
  BY <1>1, ElementOfSeq DEF SearchedWith
<1>3. Full(conf, trial) = EvaluatedStage(trial.runs[n], conf.lambda)
  BY <1>1 DEF Full
<1>4. Full(conf, trial) \in StageEval
  BY <1>2, <1>3, StageTyped
<1>5. Sound(conf, trial) => Full(conf, trial).valid
  BY <1>1, <1>3 DEF Sound
<1>6. Full(conf, trial).valid => Full(conf, trial).score > Penalty
  BY <1>1, <1>3 DEF SearchedWith
<1> QED
  BY <1>4, <1>5, <1>6

LEMMA AppendedAlike ==
  ASSUME NEW X, NEW seq \in Seq(X), NEW x \in X
  PROVE  /\ Append(seq, x) \in Seq(X) /\ Len(Append(seq, x)) = Len(seq) + 1
         /\ Append(seq, x)[Len(seq) + 1] = x
         /\ \A i \in 1 .. Len(seq) : Append(seq, x)[i] = seq[i]
BY AppendProperties

LEMMA TryTyped ==
  ASSUME NEW conf, NEW code, NEW trials, NEW n, IsStudy(conf, trials, n),
         NEW k \in 1 .. Len(trials), NEW study \in Studies(code, trials)
  PROVE  Try(conf, code, study, trials[k]) \in Studies(code, trials)
<1> DEFINE o == RunTrial(conf, trials[k], study.done)
           done == Append(study.done, o)
           seen == study.seen \/ (~o.pruned /\ o.eval.valid)
           more == With(Inject(code, trials[k].values), o.eval)
           top == IF (~o.pruned /\ o.eval.valid) /\ o.eval.score > study.best.score THEN more ELSE study.best
           p == Try(conf, code, study, trials[k])
<1>1. p = [done |-> done, seen |-> seen, best |-> top]
  BY Zenon DEF Try
<1>2. o \in Outcome
  <2>1. study.done \in Seq(Outcome)
    BY DEF Studies
  <2>2. SearchedWith(conf, n, trials[k]) /\ conf.lambda \in Int /\ conf.cash \in Int /\ n \in Nat \ {0}
    BY DEF IsStudy
  <2> QED
    BY <2>1, <2>2, TrialComesTo DEF SearchedWith
<1> HIDE DEF o, p
<1>3. done \in Seq(Outcome)
  <2>1. study.done \in Seq(Outcome)
    BY DEF Studies
  <2> QED
    BY <1>2, <2>1, AppendedAlike
<1>4. seen \in BOOLEAN
  <2>1. study.seen \in BOOLEAN
    BY DEF Studies
  <2> QED
    BY <2>1, Zenon
<1>5. top \in Candidates(code, trials)
  <2>1. study.best \in Candidates(code, trials)
    BY DEF Studies
  <2>2. Inject(code, trials[k].values) \in Codes(code, trials)
    BY DEF Codes
  <2>3. o.eval \in StageEval
    BY <1>2 DEF Outcome
  <2> DEFINE c == Inject(code, trials[k].values)
             e == o.eval
  <2> HIDE DEF c, e
  <2>4. With(c, e) \in Candidates(code, trials)
    BY <2>2, <2>3 DEF With, Candidates, StageEval, c, e
  <2>5. top = more \/ top = study.best
    OBVIOUS
  <2> QED
    BY <2>1, <2>4, <2>5 DEF c, e
<1> HIDE DEF done, seen, top
<1> QED
  BY <1>1, <1>3, <1>4, <1>5 DEF Studies, p

StudyIs(conf, code, trials, n, m, study) ==
  History(conf, trials, n, study.done, m) /\ Found(conf, code, trials, m, study)

LEMMA FreshStudy ==
  ASSUME NEW conf, NEW code, NEW trials, NEW n, NEW top, top = AsWritten(code)
  PROVE  /\ [done |-> << >>, seen |-> FALSE, best |-> top] \in Studies(code, trials)
         /\ StudyIs(conf, code, trials, n, 0, [done |-> << >>, seen |-> FALSE, best |-> top])
<1> DEFINE start == [done |-> << >>, seen |-> FALSE, best |-> top]
<1>1. top \in Candidates(code, trials)
  BY NoEntryTyped, PenaltyTyped DEF AsWritten, Candidates, Codes
<1>2. << >> \in Seq(Outcome) /\ Len(<< >>) = 0
  BY EmptySeq
<1>3. start \in Studies(code, trials)
  BY <1>1, <1>2 DEF Studies
<1>4. start.done = << >> /\ ~start.seen /\ start.best = top
  OBVIOUS
<1> HIDE DEF start
<1>5. StudyIs(conf, code, trials, n, 0, start)
  BY <1>2, <1>4 DEF StudyIs, History, Found
<1> QED
  BY <1>3, <1>5 DEF start

LEMMA TrialTried ==
  ASSUME NEW conf, NEW code, NEW trials, NEW n, IsStudy(conf, trials, n),
         NEW m \in 1 .. Len(trials), NEW study \in Studies(code, trials),
         StudyIs(conf, code, trials, n, m - 1, study)
  PROVE  StudyIs(conf, code, trials, n, m, Try(conf, code, study, trials[m]))
<1> DEFINE trial == trials[m]
           o == RunTrial(conf, trial, study.done)
           done == Append(study.done, o)
           valid == ~o.pruned /\ o.eval.valid
           better == valid /\ o.eval.score > study.best.score
           top == IF better THEN With(Inject(code, trial.values), o.eval) ELSE study.best
           p == Try(conf, code, study, trial)
           full(k) == Full(conf, trials[k])
           was(k) == Kept(conf, trials, study.done, k)
           is(k) == Kept(conf, trials, done, k)
<1>1. p = [done |-> done, seen |-> study.seen \/ valid, best |-> top]
  BY Zenon DEF Try
<1>2. /\ conf.lambda \in Int /\ conf.cash \in Int /\ n \in Nat \ {0}
      /\ \A k \in 1 .. Len(trials) : SearchedWith(conf, n, trials[k])
  BY DEF IsStudy
<1>3. study.done \in Seq(Outcome) /\ study.seen \in BOOLEAN /\ study.best.score \in Int
  BY DEF Studies, Candidates
<1>4. Len(study.done) = m - 1 /\ \A k \in 1 .. m - 1 : TrialIs(conf, trials[k], n, study.done, k - 1, study.done[k])
  BY DEF StudyIs, History
<1>5. o \in Outcome /\ TrialIs(conf, trial, n, study.done, m - 1, o)
  BY <1>2, <1>3, <1>4, TrialComesTo DEF SearchedWith
<1>6. Len(trials) \in Nat /\ m \in Nat /\ m > 0 /\ 1 .. m \subseteq 1 .. Len(trials)
  <2>1. Len(trials) \in Nat
    BY LenProperties DEF IsStudy
  <2> QED
    BY <2>1
<1> HIDE DEF o
<1>7. /\ done \in Seq(Outcome) /\ Len(done) = m /\ done[m] = o
      /\ \A k \in 1 .. m - 1 : done[k] = study.done[k]
  <2>1. /\ done \in Seq(Outcome) /\ Len(done) = Len(study.done) + 1 /\ done[Len(study.done) + 1] = o
        /\ \A k \in 1 .. Len(study.done) : done[k] = study.done[k]
    BY <1>3, <1>5, AppendedAlike
  <2> HIDE DEF done
  <2> QED
    BY <1>4, <1>6, <2>1
<1> HIDE DEF done
<1>8. ASSUME NEW k \in 1 .. m, NEW q, TrialIs(conf, trials[k], n, study.done, k - 1, q)
      PROVE  TrialIs(conf, trials[k], n, done, k - 1, q)
  <2>1. \A x : Beaten(study.done, k - 1, n, x) => Beaten(done, k - 1, n, x)
    <3>1. \A j \in 1 .. k - 1 : done[j] = study.done[j]
      BY <1>6, <1>7
    <3> QED
      BY <3>1 DEF Beaten
  <2>2. Loses(conf, trials[k], n, study.done, k - 1, q) => Loses(conf, trials[k], n, done, k - 1, q)
    BY <2>1 DEF Loses
  <2> QED
    BY <1>8, <2>2 DEF TrialIs
<1>9. History(conf, trials, n, done, m)
  <2>1. ASSUME NEW k \in 1 .. m
        PROVE  TrialIs(conf, trials[k], n, done, k - 1, done[k])
    <3>1. CASE k = m
      <4>1. TrialIs(conf, trials[k], n, study.done, k - 1, o)
        BY <1>5, <3>1
      <4> QED
        BY <1>7, <1>8, <3>1, <4>1
    <3>2. CASE k # m
      <4>1. k \in 1 .. m - 1
        BY <1>6, <3>2
      <4>2. TrialIs(conf, trials[k], n, study.done, k - 1, study.done[k])
        BY <1>4, <4>1
      <4> QED
        BY <1>7, <1>8, <4>1, <4>2
    <3> QED
      BY <3>1, <3>2
  <2> QED
    BY <1>7, <2>1 DEF History
<1>10. \A k \in 1 .. m - 1 : is(k) <=> was(k)
  BY <1>7 DEF Kept
<1>11. (is(m) <=> valid) /\ (valid => o.eval = full(m))
  BY <1>5, <1>7 DEF Kept, TrialIs, Completes
<1>12. \A k \in 1 .. m : full(k) \in StageEval /\ full(k).score \in Int /\ (is(k) => full(k).score > Penalty)
  <2> SUFFICES ASSUME NEW k \in 1 .. m
               PROVE  full(k) \in StageEval /\ full(k).score \in Int /\ (is(k) => full(k).score > Penalty)
    OBVIOUS
  <2>1. SearchedWith(conf, n, trials[k])
    BY <1>2, <1>6
  <2>2. full(k) \in StageEval /\ (Sound(conf, trials[k]) => full(k).score > Penalty)
    BY <1>2, <2>1, FullTyped
  <2> QED
    BY <2>2 DEF StageEval, Kept
<1>13. Found(conf, code, trials, m - 1, study)
  BY DEF StudyIs
<1>14. m \in 1 .. m /\ \A k \in 1 .. m : k = m \/ k \in 1 .. m - 1
  BY <1>6
<1>15. 1 .. m - 1 \subseteq 1 .. m
  BY <1>6
<1>16. p.done = done /\ p.seen = (study.seen \/ valid) /\ p.best = top
  BY <1>1
<1> HIDE DEF p, full, is, was
<1>17. CASE better
  <2>1. valid /\ top = With(Inject(code, trials[m].values), full(m)) /\ full(m).score > study.best.score
    BY <1>11, <1>17
  <2>2. \A j \in 1 .. m - 1 : was(j) => full(j).score <= study.best.score
    <3>1. CASE study.seen
      <4>1. PICK k \in 1 .. m - 1 : Best(conf, code, trials, study.done, m - 1, study.best, k)
        BY <1>13, <3>1 DEF Found
      <4>2. study.best.score = full(k).score
        BY <4>1 DEF Best, With, full
      <4> QED
        BY <4>1, <4>2 DEF Best, full, was
    <3>2. CASE ~study.seen
      BY <1>13, <3>2 DEF Found, was
    <3> QED
      BY <3>1, <3>2
  <2>3. \A j \in 1 .. m : is(j) => full(j).score <= full(m).score
    <3> SUFFICES ASSUME NEW j \in 1 .. m, is(j)
                 PROVE  full(j).score <= full(m).score
      OBVIOUS
    <3>1. CASE j = m
      BY <1>12, <3>1
    <3>2. CASE j # m
      <4>1. j \in 1 .. m - 1
        BY <1>14, <3>2
      <4>2. full(j).score <= study.best.score
        BY <1>10, <2>2, <4>1
      <4>3. full(j).score \in Int /\ full(m).score \in Int
        BY <1>12, <1>14
      <4> QED
        BY <1>3, <2>1, <4>2, <4>3
    <3> QED
      BY <3>1, <3>2
  <2>4. Best(conf, code, trials, done, m, top, m)
    BY <1>11, <2>1, <2>3 DEF Best, full, is
  <2>5. Found(conf, code, trials, m, p)
    BY <1>14, <1>16, <2>1, <2>4 DEF Found
  <2> QED
    BY <1>9, <1>16, <2>5 DEF StudyIs, p
<1>18. CASE ~better
  <2>1. top = study.best
    BY <1>18
  <2>2. CASE study.seen
    <3>1. PICK k \in 1 .. m - 1 : Best(conf, code, trials, study.done, m - 1, study.best, k)
      BY <1>13, <2>2 DEF Found
    <3>2. study.best.score = full(k).score /\ was(k)
      BY <3>1 DEF Best, With, full, was
    <3>3. \A j \in 1 .. m : is(j) => full(j).score <= full(k).score
      <4> SUFFICES ASSUME NEW j \in 1 .. m, is(j)
                   PROVE  full(j).score <= full(k).score
        OBVIOUS
      <4>1. CASE j = m
        <5>1. valid /\ ~(full(m).score > study.best.score)
          BY <1>11, <1>18, <4>1
        <5>2. full(m).score \in Int
          BY <1>12, <1>14
        <5> QED
          BY <1>3, <3>2, <4>1, <5>1, <5>2
      <4>2. CASE j # m
        <5>1. j \in 1 .. m - 1
          BY <1>14, <4>2
        <5> QED
          BY <1>10, <3>1, <5>1 DEF Best, full, was
      <4> QED
        BY <4>1, <4>2
    <3>4. Best(conf, code, trials, done, m, top, k)
      BY <1>10, <2>1, <3>1, <3>2, <3>3 DEF Best, full, is
    <3>5. k \in 1 .. m
      BY <1>15
    <3>6. Found(conf, code, trials, m, p)
      BY <1>16, <2>2, <3>4, <3>5 DEF Found
    <3> QED
      BY <1>9, <1>16, <3>6 DEF StudyIs, p
  <2>3. CASE ~study.seen
    <3>1. study.best = AsWritten(code) /\ \A k \in 1 .. m - 1 : ~was(k)
      BY <1>13, <2>3 DEF Found, was
    <3>2. study.best.score = Penalty
      BY <3>1 DEF AsWritten
    <3>3. ~valid
      <4>1. valid => full(m).score > Penalty /\ o.eval = full(m)
        BY <1>11, <1>12, <1>14
      <4> QED
        BY <1>18, <3>2, <4>1
    <3>4. \A k \in 1 .. m : ~is(k)
      BY <1>10, <1>11, <1>14, <3>1, <3>3
    <3>5. Found(conf, code, trials, m, p)
      BY <1>16, <2>1, <2>3, <3>1, <3>3, <3>4 DEF Found, is
    <3> QED
      BY <1>9, <1>16, <3>5 DEF StudyIs, p
  <2> QED
    BY <1>3, <2>2, <2>3
<1> QED
  BY <1>17, <1>18

\* A study tries its trials in turn.
LEMMA StudyComesTo ==
  ASSUME NEW conf, NEW code, NEW trials, NEW n, IsStudy(conf, trials, n)
  PROVE  /\ Study(conf, code, trials) \in Studies(code, trials)
         /\ StudyIs(conf, code, trials, n, Len(trials), Study(conf, code, trials))
<1> DEFINE l == Len(trials)
           A == Studies(code, trials)
           none == AsWritten(code)
           start == [done |-> << >>, seen |-> FALSE, best |-> none]
           tried(a, t) == Try(conf, code, a, t)
           holds(k, a) == StudyIs(conf, code, trials, n, k, a)
           G == [p \in (1 .. l) \X A |-> tried(p[2], trials[p[1]])]
           IsIter(g) == g = [t \in SUBSET (1 .. l) |->
             IF t = {} THEN start ELSE tried(g[t \ {Max(t)}], trials[Max(t)])]
           iter == CHOOSE g : IsIter(g)
           all == Study(conf, code, trials)
<1>1. l \in Nat /\ DOMAIN trials = 1 .. l
  BY LenProperties DEF IsStudy
<1>2. all = iter[1 .. l]
  <2>1. all = (CHOOSE g : g = [t \in SUBSET (DOMAIN trials) |->
          IF t = {} THEN start ELSE tried(g[t \ {Max(t)}], trials[Max(t)])])[DOMAIN trials]
    BY Zenon DEF Study, FoldLeft, MapThenFoldSet
  <2> QED
    BY <1>1, <2>1, Zenon
<1>3. start \in A /\ holds(0, start)
  <2> HIDE DEF none
  <2> SUFFICES none = AsWritten(code)
    BY FreshStudy
  <2> QED
    BY DEF none
<1> HIDE DEF l, start, all
<1>4. ASSUME NEW i \in 1 .. l, NEW a \in A
      PROVE  G[<<i, a>>] = tried(a, trials[i])
  OBVIOUS
<1> HIDE DEF G
<1>5. ASSUME NEW i \in 1 .. l, NEW a \in A
      PROVE  tried(a, trials[i]) \in A
  BY TryTyped DEF l
<1>6. ASSUME NEW i \in 1 .. l, NEW a \in A, holds(i - 1, a)
      PROVE  holds(i, tried(a, trials[i]))
  BY <1>6, TrialTried DEF l
<1> HIDE DEF A, tried, holds
<1>7. Keeps(G, 1 .. l, A)
  <2>1. ASSUME NEW i \in 1 .. l, NEW a \in A
        PROVE  G[<<i, a>>] \in A
    BY <1>4, <1>5, Zenon
  <2> QED
    BY <2>1, Zenon DEF Keeps
<1>8. \E g : IsIter(g)
  <2>1. PICK g \in [SUBSET (1 .. l) -> A] : IsLeftFold(G, start, l, g)
    BY <1>1, <1>3, <1>7, FoldLeftExists
  <2>2. ASSUME NEW t \in SUBSET (1 .. l)
        PROVE  g[t] = IF t = {} THEN start ELSE tried(g[t \ {Max(t)}], trials[Max(t)])
    <3>1. t # {} => Max(t) \in 1 .. l
      BY <1>1, LargestChosen
    <3>2. g[t \ {Max(t)}] \in A
      OBVIOUS
    <3> QED
      BY <1>4, <2>1, <3>1, <3>2 DEF IsLeftFold
  <2> QED
    BY <2>2
<1>9. IsIter(iter)
  BY <1>8
<1> HIDE DEF iter
<1>10. iter[{}] = start
  BY <1>9
<1>11. ASSUME NEW k \in 1 .. l, iter[1 .. k - 1] \in A
       PROVE  iter[1 .. k] = G[<<k, iter[1 .. k - 1]>>]
  <2>1. k \in Nat \ {0} /\ 1 .. k \in SUBSET (1 .. l)
    BY <1>1
  <2>2. iter[1 .. k] = tried(iter[(1 .. k) \ {Max(1 .. k)}], trials[Max(1 .. k)])
    BY <1>9, <2>1, LargestOfPrefix
  <2>3. Max(1 .. k) = k /\ (1 .. k) \ {k} = 1 .. k - 1
    BY <2>1, LargestOfPrefix
  <2>4. iter[1 .. k] = tried(iter[1 .. k - 1], trials[k])
    BY <2>2, <2>3, Zenon
  <2> QED
    BY <1>4, <1>11, <2>4, Zenon
<1>12. PICK H : IsTrace(G, A, start, l, H) /\ H[l] = iter[1 .. l]
  <2>1. StepsOn(G, A, l, iter)
    BY <1>11, Zenon DEF StepsOn
  <2> QED
    BY <1>1, <1>3, <1>7, <1>10, <2>1, FoldLeftTrace
<1> DEFINE Good == {k \in 0 .. l : holds(k, H[k])}
<1>13. 0 \in Good
  BY <1>1, <1>3, <1>12 DEF IsTrace
<1>14. ASSUME NEW k \in 1 .. l, k - 1 \in Good
       PROVE  k \in Good
  <2>1. k - 1 \in 0 .. l /\ k \in 0 .. l
    BY <1>1
  <2>2. H[k - 1] \in A /\ H[k] = G[<<k, H[k - 1]>>]
    BY <1>12, <2>1 DEF IsTrace
  <2>3. H[k] = tried(H[k - 1], trials[k])
    BY <1>4, <2>2
  <2>4. holds(k, H[k])
    BY <1>6, <1>14, <2>2, <2>3
  <2> QED
    BY <2>1, <2>4
<1> HIDE DEF Good
<1>15. \A k \in 0 .. l : k \in Good
  BY <1>1, <1>13, <1>14, UpTo
<1>16. l \in Good /\ H[l] \in A
  BY <1>1, <1>12, <1>15 DEF IsTrace
<1>17. all \in A /\ holds(l, all)
  BY <1>2, <1>12, <1>16 DEF Good
<1> QED
  BY <1>17 DEF l, all, A, holds

\* The search returns one candidate with all its numbers, the best of those
\* that went through every stage, for any trials of any number of stages.
\* (optimize_code_thresholds)
THEOREM SearchIsSound ==
  ASSUME NEW conf, NEW code, Names(code) # {}, NEW asIs, NEW trials, NEW n, IsStudy(conf, trials, n)
  PROVE  BestIsFound(conf, code, asIs, trials)
<1> DEFINE study == Study(conf, code, trials)
           done  == study.done
           found == Tuned(conf, code, asIs, trials)
           after == TunedCode(conf, code, asIs, trials)
           l == Len(trials)
           full(k)  == Full(conf, trials[k])
           sound(k) == Sound(conf, trials[k])
           sounds == {k \in DOMAIN trials : sound(k)}
           kept   == {k \in sounds : ~done[k].pruned}
           late   == {k \in sounds \ kept : Len(done[k].reports) = Len(trials[k].runs)}
           right  == IF conf.fails \/ kept = {} THEN after = code
                     ELSE \E k \in kept : /\ after = Inject(code, trials[k].values)
                                           /\ found = With(after, full(k))
                                           /\ \A j \in kept : full(j).score <= full(k).score
           beaten == \A k \in late : full(k).score < found.score
           entire == ~conf.pruning => \A k \in sounds : full(k).score <= found.score
<1>1. l \in Nat /\ DOMAIN trials = 1 .. l
  BY LenProperties DEF IsStudy
<1>2. /\ conf.lambda \in Int /\ n \in Nat \ {0}
      /\ \A k \in 1 .. l : SearchedWith(conf, n, trials[k])
  BY DEF IsStudy
<1>3. study \in Studies(code, trials) /\ History(conf, trials, n, done, l) /\ Found(conf, code, trials, l, study)
  BY StudyComesTo DEF StudyIs
<1>4. \A k \in 1 .. l : full(k).score \in Int /\ (sound(k) => full(k).score > Penalty)
  <2> SUFFICES ASSUME NEW k \in 1 .. l
               PROVE  full(k).score \in Int /\ (sound(k) => full(k).score > Penalty)
    OBVIOUS
  <2>1. full(k) \in StageEval /\ (sound(k) => full(k).score > Penalty)
    BY <1>2, FullTyped
  <2> QED
    BY <2>1 DEF StageEval
<1>5. /\ trials = << >> => found = With(code, EvaluatedOnce(conf, asIs))
      /\ trials # << >> => found = IF study.seen THEN study.best ELSE AsWritten(code)
  BY Zenon DEF Tuned
<1>6. /\ conf.fails => after = code
      /\ ~conf.fails => after = found.code
  BY Zenon DEF TunedCode
<1>7. \A k \in 1 .. l : k \in kept <=> Kept(conf, trials, done, k)
  BY <1>1 DEF Kept
<1>8. kept \subseteq 1 .. l /\ sounds \subseteq 1 .. l
  BY <1>1
<1>9. \A k \in late : sound(k) /\ k \in 1 .. l /\ done[k].pruned /\ Len(done[k].reports) = n
  BY <1>1, <1>2 DEF SearchedWith
<1>10. \A k \in sounds : sound(k) /\ (~done[k].pruned => k \in kept)
  OBVIOUS
<1>11. trials = << >> => l = 0
  BY EmptySeq
<1>12. study.seen \in BOOLEAN
  BY <1>3 DEF Studies
<1>13. right /\ beaten /\ entire => BestIsFound(conf, code, asIs, trials)
  BY Zenon DEF BestIsFound, Full, Sound
<1> HIDE DEF study, found, after, l, kept, late, sounds
<1>14. ASSUME NEW j \in late
       PROVE  \E i \in kept : full(i).score > full(j).score
  <2>1. sound(j) /\ j \in 1 .. l /\ done[j].pruned /\ Len(done[j].reports) = n
    BY <1>9
  <2>2. TrialIs(conf, trials[j], n, done, j - 1, done[j])
    BY <1>3, <2>1 DEF History
  <2>3. PICK i \in 1 .. j - 1 : /\ ~done[i].pruned /\ Len(done[i].reports) >= n
                                /\ done[i].reports[n] > full(j).score
    BY <2>1, <2>2 DEF TrialIs, Loses, Beaten
  <2>4. i \in 1 .. l
    BY <1>1, <2>1
  <2>5. TrialIs(conf, trials[i], n, done, i - 1, done[i])
    BY <1>3, <2>4 DEF History
  <2>6. done[i].reports[n] \in Int
    <3>1. done \in Seq(Outcome) /\ Len(done) = l
      BY <1>3 DEF Studies, History
    <3>2. done[i] \in Outcome
      BY <2>4, <3>1, ElementOfSeq
    <3>3. done[i].reports \in Seq(Int)
      BY <3>2 DEF Outcome
    <3>4. n \in 1 .. Len(done[i].reports)
      BY <1>2, <2>3, <3>3, LenProperties
    <3> QED
      BY <3>3, <3>4, ElementOfSeq
  <2>7. full(j).score \in Int /\ full(j).score > Penalty
    BY <1>4, <2>1
  <2>8. done[i].reports[n] > Penalty
    BY <2>3, <2>6, <2>7, PenaltyTyped
  <2>9. sound(i) /\ done[i].reports[n] = full(i).score
    BY <2>3, <2>5, <2>8 DEF TrialIs, Reports
  <2>10. i \in kept
    BY <1>7, <2>3, <2>4, <2>9 DEF Kept
  <2> QED
    BY <2>3, <2>9, <2>10
<1>15. CASE study.seen
  <2>1. PICK k \in 1 .. l : Best(conf, code, trials, done, l, study.best, k)
    BY <1>3, <1>15 DEF Found
  <2>2. found = study.best
    <3>1. trials # << >>
      BY <1>11, <2>1
    <3> QED
      BY <1>5, <1>15, <3>1
  <2>3. /\ k \in kept /\ found = With(Inject(code, trials[k].values), full(k))
        /\ \A j \in kept : full(j).score <= full(k).score
    BY <1>7, <1>8, <2>1, <2>2 DEF Best
  <2>4. found.code = Inject(code, trials[k].values) /\ found.score = full(k).score
    BY <2>3 DEF With
  <2>5. right
    <3>1. CASE conf.fails
      BY <1>6, <3>1
    <3>2. CASE ~conf.fails
      <4>1. after = Inject(code, trials[k].values)
        BY <1>6, <2>4, <3>2
      <4>2. found = With(after, full(k))
        BY <2>3, <4>1
      <4> HIDE DEF full
      <4> QED
        BY <2>3, <3>2, <4>1, <4>2
    <3> QED
      BY <3>1, <3>2
  <2>6. ASSUME NEW j \in late
        PROVE  full(j).score < found.score
    <3>1. PICK i \in kept : full(i).score > full(j).score
      BY <1>14
    <3>2. full(i).score <= full(k).score
      BY <2>3
    <3>3. full(i).score \in Int /\ full(j).score \in Int /\ full(k).score \in Int
      BY <1>4, <1>8, <1>9
    <3> HIDE DEF full
    <3> QED
      BY <2>4, <3>1, <3>2, <3>3
  <2>7. ASSUME ~conf.pruning, NEW j \in sounds
        PROVE  full(j).score <= found.score
    <3>1. TrialIs(conf, trials[j], n, done, j - 1, done[j])
      BY <1>3, <1>8, <2>7 DEF History
    <3>2. j \in kept
      BY <1>10, <2>7, <3>1 DEF TrialIs, Loses
    <3> QED
      BY <2>3, <2>4, <3>2
  <2> QED
    BY <1>13, <2>5, <2>6, <2>7
<1>16. CASE ~study.seen
  <2>1. kept = {}
    BY <1>3, <1>7, <1>8, <1>16 DEF Found
  <2>2. after = code
    <3>1. found.code = code
      <4>1. With(code, EvaluatedOnce(conf, asIs)).code = code /\ AsWritten(code).code = code
        BY DEF With, AsWritten
      <4> QED
        BY <1>5, <1>16, <4>1
    <3> QED
      BY <1>6, <3>1
  <2>3. right
    BY <2>1, <2>2
  <2>4. late = {}
    BY <1>14, <2>1
  <2>5. ~conf.pruning => sounds = {}
    BY <1>3, <1>8, <1>10, <2>1 DEF History, TrialIs, Loses
  <2> QED
    BY <1>13, <2>3, <2>4, <2>5
<1> QED
  BY <1>12, <1>15, <1>16

-----------------------------------------------------------------------------
(* The studies of the instance *)

SmallRun(s) == s \in StageRun /\ s.net >= -1 /\ s.mdd <= 2
SmallRuns == {s \in StageRun : SmallRun(s)}

LEMMA RunsAreSmall ==
  Bad \subseteq SmallRuns /\ Low \in SmallRuns /\ Middle \in SmallRuns /\ High \in SmallRuns /\ Raised \in SmallRuns
<1>1. ASSUME NEW signals \in Nat, NEW net \in Int, NEW mdd \in Int, net >= -1, mdd <= 2
      PROVE  Run(signals, net, mdd) \in SmallRuns
  <2> DEFINE r == [ok |-> TRUE, states |-> 2000, signals |-> signals, net |-> net, mdd |-> mdd]
  <2>1. r \in StageRun /\ r.net = net /\ r.mdd = mdd
    BY DEF StageRun
  <2>2. Run(signals, net, mdd) = r
    BY DEF Run
  <2> HIDE DEF r
  <2> QED
    BY <1>1, <2>1, <2>2 DEF SmallRuns, SmallRun
<1>2. Raised \in SmallRuns
  <2> DEFINE ran == Run(2, 9, 0)
  <2>1. ran \in SmallRuns
    BY <1>1
  <2> HIDE DEF ran
  <2>2. [ran EXCEPT !.ok = FALSE] \in SmallRuns
    BY <2>1 DEF SmallRuns, SmallRun, StageRun
  <2> QED
    BY <2>2 DEF Raised, ran
<1>3. Run(0, 9, 0) \in SmallRuns /\ Run(1, 9, 0) \in SmallRuns /\ Run(1001, 9, 0) \in SmallRuns
  BY <1>1
<1>4. Low \in SmallRuns /\ Middle \in SmallRuns /\ High \in SmallRuns
  BY <1>1 DEF Low, Middle, High
<1> QED
  BY <1>2, <1>3, <1>4 DEF Bad

LEMMA PenaltyLow == Penalty < -3
BY DEF Penalty

LEMMA SmallScore ==
  ASSUME NEW s \in SmallRuns, EvaluatedStage(s, 1).valid
  PROVE  EvaluatedStage(s, 1).score > Penalty
<1> DEFINE e == EvaluatedStage(s, 1)
           freq == [signals |-> s.signals, states |-> s.states]
           good == [valid |-> TRUE, score |-> s.net - 1 * s.mdd, net |-> s.net, mdd |-> s.mdd, freq |-> freq]
<1>1. e = InvalidAt(NoEntry) \/ e = InvalidAt(freq) \/ e = good
  BY Zenon DEF EvaluatedStage
<1>2. ~InvalidAt(NoEntry).valid /\ ~InvalidAt(freq).valid
  BY DEF InvalidAt
<1>3. e.score = s.net - 1 * s.mdd
  BY <1>1, <1>2
<1>4. s.net \in Int /\ s.mdd \in Int /\ s.net >= -1 /\ s.mdd <= 2
  BY DEF SmallRuns, SmallRun, StageRun
<1> HIDE DEF e
<1>5. e.score > -4
  BY <1>3, <1>4
<1>6. e.score \in Int
  BY <1>3, <1>4
<1> QED
  BY <1>5, <1>6, PenaltyLow, PenaltyTyped DEF e

\* Trials over n stages of such runs.
SmallTrial(n, trial) == trial.runs \in [1 .. n -> SmallRuns]

LEMMA SmallTrialSearched ==
  ASSUME NEW conf \in Confs, NEW n \in Nat \ {0}, NEW trial, SmallTrial(n, trial)
  PROVE  SearchedWith(conf, n, trial)
<1>1. trial.runs \in [1 .. n -> StageRun]
  BY DEF SmallTrial, SmallRuns
<1>2. trial.runs \in Seq(StageRun) /\ Len(trial.runs) = n
  BY <1>1, SeqOfFunction
<1>3. conf.lambda = 1
  BY DEF Confs, Conf
<1>4. \A i \in 1 .. n : trial.runs[i] \in SmallRuns
  BY DEF SmallTrial
<1> QED
  BY <1>2, <1>3, <1>4, SmallScore DEF SearchedWith

LEMMA SmallStudiesAreStudies ==
  ASSUME NEW conf \in Confs, NEW trials \in TwoTrials \cup ThreeTrials
  PROVE  \E n : IsStudy(conf, trials, n)
<1> DEFINE all == [1 .. 2 -> SmallRuns] \cup [1 .. 3 -> SmallRuns]
<1>1. conf.lambda \in Int /\ conf.cash \in Int
  BY DEF Confs, Conf
<1>2. ASSUME NEW k, NEW compiles, NEW n, NEW runs \in [1 .. n -> SmallRuns]
      PROVE  SmallTrial(n, Trial(k, compiles, runs))
  BY DEF SmallTrial, Trial
<1>3. ASSUME NEW n \in Nat \ {0}, NEW a, NEW b, SmallTrial(n, a), SmallTrial(n, b)
      PROVE  IsStudy(conf, << a, b >>, n)
  <2>1. << a, b >> \in Seq({a, b}) /\ Len(<< a, b >>) = 2
    OBVIOUS
  <2>2. SearchedWith(conf, n, a) /\ SearchedWith(conf, n, b)
    BY <1>3, SmallTrialSearched
  <2>3. \A k \in 1 .. 2 : << a, b >>[k] = a \/ << a, b >>[k] = b
    OBVIOUS
  <2>4. \A k \in 1 .. 2 : SearchedWith(conf, n, << a, b >>[k])
    BY <2>2, <2>3
  <2> QED
    BY <1>1, <2>1, <2>4 DEF IsStudy
<1>4. ASSUME NEW n \in Nat \ {0}, NEW a, NEW b, NEW c, SmallTrial(n, a), SmallTrial(n, b), SmallTrial(n, c)
      PROVE  IsStudy(conf, << a, b, c >>, n)
  <2>1. << a, b, c >> \in Seq({a, b, c}) /\ Len(<< a, b, c >>) = 3
    OBVIOUS
  <2>2. SearchedWith(conf, n, a) /\ SearchedWith(conf, n, b) /\ SearchedWith(conf, n, c)
    BY <1>4, SmallTrialSearched
  <2>3. \A k \in 1 .. 3 : << a, b, c >>[k] = a \/ << a, b, c >>[k] = b \/ << a, b, c >>[k] = c
    OBVIOUS
  <2>4. \A k \in 1 .. 3 : SearchedWith(conf, n, << a, b, c >>[k])
    BY <2>2, <2>3
  <2> QED
    BY <1>1, <2>1, <2>4 DEF IsStudy
<1>5. CASE trials \in TwoTrials
  <2> DEFINE runs == [1 .. 2 -> Bad \cup {Low, High}]
             first(compiles, a) == Trial(1, compiles, a)
             second(b) == Trial(2, TRUE, b)
             two == {<< first(compiles, a), second(b) >> : compiles \in BOOLEAN, a \in runs, b \in runs}
  <2>1. runs \subseteq [1 .. 2 -> SmallRuns]
    <3>1. Bad \cup {Low, High} \subseteq SmallRuns
      BY RunsAreSmall
    <3> QED
      BY <3>1
  <2>2. TwoTrials = two
    BY DEF TwoTrials
  <2> HIDE DEF two
  <2>3. trials \in two
    BY <1>5, <2>2
  <2> HIDE DEF runs
  <2>4. \A compiles, a, b : a \in runs /\ b \in runs =>
          SmallTrial(2, first(compiles, a)) /\ SmallTrial(2, second(b))
    BY <1>2, <2>1
  <2> HIDE DEF first, second
  <2>5. PICK compiles \in BOOLEAN, a \in runs, b \in runs : trials = << first(compiles, a), second(b) >>
    BY <2>3 DEF two
  <2>6. SmallTrial(2, first(compiles, a)) /\ SmallTrial(2, second(b)) /\ 2 \in Nat \ {0}
    BY <2>4
  <2>7. IsStudy(conf, << first(compiles, a), second(b) >>, 2)
    BY <1>3, <2>6
  <2> QED
    BY <2>5, <2>7
<1>6. CASE trials \in ThreeTrials
  <2> DEFINE short == [1 .. 2 -> {Raised, Low, Middle, High}]
             long  == [1 .. 3 -> {Low, High}]
             late  == [1 .. 3 -> {Raised, Low, High}]
             trial(k, a) == Trial(k, TRUE, a)
             study(some, last) == {<< trial(1, a), trial(2, b), trial(3, c) >> : a \in some, b \in some, c \in last}
             both == study(short, short) \cup study(long, late)
  <2>1. short \subseteq [1 .. 2 -> SmallRuns] /\ long \subseteq [1 .. 3 -> SmallRuns]
        /\ late \subseteq [1 .. 3 -> SmallRuns]
    <3>1. {Raised, Low, Middle, High} \subseteq SmallRuns /\ {Low, High} \subseteq SmallRuns
          /\ {Raised, Low, High} \subseteq SmallRuns
      BY RunsAreSmall
    <3> QED
      BY <3>1
  <2>2. ThreeTrials = both
    BY DEF ThreeTrials
  <2> HIDE DEF study
  <2>3. trials \in study(short, short) \/ trials \in study(long, late)
    BY <1>6, <2>2
  <2> HIDE DEF short, long, late
  <2>4. \A n, k, a : a \in [1 .. n -> SmallRuns] => SmallTrial(n, trial(k, a))
    BY <1>2
  <2> HIDE DEF trial
  <2>5. ASSUME NEW n \in Nat \ {0}, NEW some \in SUBSET [1 .. n -> SmallRuns],
               NEW last \in SUBSET [1 .. n -> SmallRuns], trials \in study(some, last)
        PROVE  IsStudy(conf, trials, n)
    <3>1. PICK a \in some, b \in some, c \in last : trials = << trial(1, a), trial(2, b), trial(3, c) >>
      BY <2>5 DEF study
    <3>2. SmallTrial(n, trial(1, a)) /\ SmallTrial(n, trial(2, b)) /\ SmallTrial(n, trial(3, c))
      BY <2>4
    <3> QED
      BY <1>4, <3>1, <3>2
  <2>6. CASE trials \in study(short, short)
    <3>1. 2 \in Nat \ {0}
      OBVIOUS
    <3>2. IsStudy(conf, trials, 2)
      BY <2>1, <2>5, <2>6, <3>1
    <3> QED
      BY <3>2
  <2>7. CASE trials \in study(long, late)
    <3>1. 3 \in Nat \ {0}
      OBVIOUS
    <3>2. IsStudy(conf, trials, 3)
      BY <2>1, <2>5, <2>7, <3>1
    <3> QED
      BY <3>2
  <2> QED
    BY <2>3, <2>6, <2>7
<1> QED
  BY <1>5, <1>6

\* What SearchKeepsBest checks on its small studies holds of all of them.
\* (optimize_code_thresholds, _run_stage_objective, check_code_entry_frequency)
THEOREM SearchAlwaysKeepsBest == Spec => []SearchKeepsBest
<1>1. \A conf \in Confs, trials \in TwoTrials \cup ThreeTrials : BestIsFound(conf, Code, Low, trials)
  <2> SUFFICES ASSUME NEW conf \in Confs, NEW trials \in TwoTrials \cup ThreeTrials
               PROVE  BestIsFound(conf, Code, Low, trials)
    OBVIOUS
  <2>1. PICK n : IsStudy(conf, trials, n)
    BY SmallStudiesAreStudies
  <2>2. Names(Code) # {}
    <3>1. 1 \in DOMAIN Code
      BY DEF Code
    <3> QED
      BY <3>1 DEF Names
  <2> QED
    BY <2>1, <2>2, SearchIsSound
<1>2. \A Y, m : m \in Nat => SeqOf(Y, m) \subseteq Seq(Y)
  <2> SUFFICES ASSUME NEW Y, NEW m \in Nat, NEW s \in SeqOf(Y, m)
               PROVE  s \in Seq(Y)
    OBVIOUS
  <2>1. PICK k \in 0 .. m : s \in [1 .. k -> Y]
    BY DEF SeqOf
  <2> QED
    BY <2>1, SeqDef
<1>3. \A states \in 1 .. 6, raw \in SeqOf({-1, 1, 5, 8, 15}, 3) : StagesAreRight(states, raw)
  <2> SUFFICES ASSUME NEW states \in 1 .. 6, NEW raw \in SeqOf({-1, 1, 5, 8, 15}, 3)
               PROVE  StagesAreRight(states, raw)
    OBVIOUS
  <2>1. raw \in Seq({-1, 1, 5, 8, 15})
    BY <1>2
  <2>2. raw \in Seq(Int) /\ states \in Nat \ {0}
    BY <2>1
  <2> QED
    BY <2>2, StagesAlwaysRight
<1>4. \A answers \in SeqOf({"enter", "wait", "raise"}, 5) \ {<< >>}, size \in 1 .. 5 :
        FrequencyAgrees(answers, size)
  <2> SUFFICES ASSUME NEW answers \in SeqOf({"enter", "wait", "raise"}, 5) \ {<< >>}, NEW size \in 1 .. 5
               PROVE  FrequencyAgrees(answers, size)
    OBVIOUS
  <2>1. answers \in Seq(Answer) /\ answers # << >>
    BY <1>2 DEF Answer
  <2>2. size \in Nat \ {0}
    OBVIOUS
  <2> QED
    BY <2>1, <2>2, FrequencyAlwaysAgrees
<1>5. SearchKeepsBest
  BY <1>1, <1>3, <1>4 DEF SearchKeepsBest
<1> QED
  BY <1>5, PTL
=============================================================================
