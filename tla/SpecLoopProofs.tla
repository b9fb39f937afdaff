--------------------------- MODULE SpecLoopProofs ---------------------------
(***************************************************************************)
(* Proofs about SpecLoop, for any number of sessions, plans and attempts,  *)
(* any summaries the backtests may report, and crashes anywhere; and about *)
(* SpecRules, for any plan that passes its review.                         *)
(***************************************************************************)
EXTENDS MCSpecLoop, SequenceTheorems, DataTheorems

-----------------------------------------------------------------------------
(* The judgement of a backtest, for any symbols and any summaries *)

\* The merged summary is a summary: counts and money add up to integers.
LEMMA AggregateTyped ==
  ASSUME NEW m \in Backtests
  PROVE  m.signals \in Int /\ m.states \in Int /\ m.fills \in Int /\ m.holding \in Int
         /\ m.gross \in Int /\ m.commission \in Int /\ m.costs \in Int
<1>1. PICK s \in [Symbols -> Summaries] : m = Aggregate(s)
  BY DEF Backtests
<1> DEFINE Names == {"signals", "states", "fills", "holding", "gross", "commission", "costs"}
<1>2. ASSUME NEW f \in Names
      PROVE  m[f] \in Int
  <2> DEFINE terms == [x \in Symbols |-> s[x][f]]
  <2>1. \A x \in Symbols : s[x] \in Summary
    BY FeedbackAssumption
  <2>2. \A x \in Symbols : terms[x] \in Int
    BY <1>2, <2>1 DEF Summary
  <2>3. DOMAIN terms = Symbols
    OBVIOUS
  <2>4. m[f] = SumFunctionOnSet(terms, DOMAIN terms)
    BY <1>1, <1>2, Zenon DEF Aggregate, SumFunction
  <2> HIDE DEF terms
  <2>5. SumFunctionOnSet(terms, Symbols) \in Int
    BY <2>2, FeedbackAssumption, SumInt
  <2>6. QED
    BY <2>3, <2>4, <2>5
<1>3. QED
  BY <1>2

\* The controller passes only what made money in sample, and never what it
\* calls a structural failure.
LEMMA JudgementTyped ==
  ASSUME NEW j \in Judgements
  PROVE  /\ j \in [net : Int, verdict : {"pass", "fail", "retry"}, structural : BOOLEAN]
         /\ j.verdict = "pass" => j.net > 0 /\ ~j.structural
         /\ j.verdict = "fail" => j.structural
<1>1. PICK m \in Backtests : j = Judged(m)
  BY DEF Judgements
<1>2. j = [net |-> NetPnl(m), verdict |-> Verdict(m), structural |-> Structural(m)]
  BY <1>1 DEF Judged
<1>3. NetPnl(m) \in Int
  BY AggregateTyped DEF NetPnl
<1>4. Verdict(m) \in {"pass", "fail", "retry"} /\ Structural(m) \in BOOLEAN
  BY DEF Verdict, Structural
<1>5. Verdict(m) = "pass" => NetPnl(m) > 0 /\ ~Structural(m)
  BY DEF Verdict, CanPass, Structural
<1>6. Verdict(m) = "fail" => Structural(m)
  BY DEF Verdict
<1>7. QED
  BY <1>2, <1>3, <1>4, <1>5, <1>6

-----------------------------------------------------------------------------

Verdicts == {"pass", "fail", "retry"}
Judgement == [net : Int, verdict : Verdicts \cup {"none"}, structural : BOOLEAN]
Strategy == [plan : Plan, attempt : 1 .. MaxAttempts, net : Int, verdict : Verdicts,
             structural : BOOLEAN]
PlanRecord == [outcome : Outcomes, net : Int]
\* Ranges of the counters: iteration and attempt, the iteration the planner was
\* told about, the attempt fed back.
Iteration == 1 .. MaxPlans + 1
Try == 1 .. MaxAttempts + 1
ToldOf == 0 .. MaxPlans
Earlier == 0 .. MaxAttempts
Attempt == [plan : Plan \cup {NoPlan}, attempt : Earlier]
Whys == {"none", "planner_failed", "spec_invalid", "precode_rejected", "structural",
         "oos_failed", "no_code_pass"}
Local == [iter : Iteration, plan : Plan \cup {NoPlan},
          feedback : [of : ToldOf, why : Whys],
          verdict : {"no_pass", "pass"}, bestRun : Attempt,
          oos : {"no_oos", "pass_oos", "fail_oos"}, attempt : Try,
          tried : Seq(Attempt), best : [seen : BOOLEAN, net : Int],
          previous : Earlier, fails : Nat,
          outcome : {"no_code_pass", "structural_fail", "pass"}, judged : Judgement]

Fields == {"iter", "plan", "feedback", "verdict", "bestRun", "oos", "attempt", "tried", "best",
           "previous", "fails", "outcome", "judged"}

OfPlan == {"review", "code", "learn", "route", "close"}

\* The state is well formed.
Typed ==
  /\ pc \in {"plan", "over", "raised", "down"} \cup OfPlan
  /\ run \in Local
  /\ sessions \in 1 .. MaxSessions
  /\ plans \in [Plan -> PlanRecord]
  /\ strategies \subseteq Strategy
  /\ global \in {"absent", "good", "torn"}

\* Plan files are created in order, at most one per iteration of a session, so
\* that there is always a new one to write.
Budget == (sessions - 1) * MaxPlans +
            (IF Ended THEN MaxPlans ELSE IF pc = "plan" THEN run.iter - 1 ELSE run.iter)
InOrder == \E k \in 0 .. Budget : \A p \in Plan : plans[p] = NoRecord <=> k < p

\* What the current plan's file says while it is worked on.
CurrentPlan ==
  /\ pc \in OfPlan => run.plan \in Plan /\ run.iter <= MaxPlans
  /\ pc \in OfPlan \ {"close"} => plans[run.plan].outcome = "no_code_pass"
  /\ pc \in {"code", "learn", "route"} => run.outcome = "no_code_pass"
  /\ pc \in {"learn", "route"} => run.attempt <= MaxAttempts
  /\ pc = "close" /\ run.outcome = "no_code_pass" => plans[run.plan].outcome = "no_code_pass"
  /\ pc = "close" => plans[run.plan].outcome # "absent"

Base == Typed /\ InOrder /\ CurrentPlan

-----------------------------------------------------------------------------
(* The judgement, and numbers of plans *)

\* The controller passes only what made money in sample.
LEMMA JudgementFacts ==
  ASSUME NEW j \in Judgements
  PROVE  /\ j \in Judgement
         /\ j.verdict \in Verdicts
         /\ j.verdict = "pass" => j.net > 0
BY JudgementTyped DEF Judgement, Verdicts

\* The plans of the sessions so far are not more than all.
LEMMA PlansOfSessions ==
  ASSUME NEW s \in 1 .. MaxSessions
  PROVE  /\ s * MaxPlans \in Nat /\ (s - 1) * MaxPlans \in Nat
         /\ (s - 1) * MaxPlans + MaxPlans = s * MaxPlans
         /\ s * MaxPlans <= MaxPlans * MaxSessions
<1>1. MaxPlans \in Nat /\ MaxSessions \in Nat
  BY SpecLoopAssumption
<1>2. (MaxSessions - s) * MaxPlans \in Nat
  BY <1>1
<1>3. (MaxSessions - s) * MaxPlans = MaxSessions * MaxPlans - s * MaxPlans
  BY <1>1
<1> QED
  BY <1>1, <1>2, <1>3

\* While there is an iteration left, the next plan is a new one.
LEMMA NewPlanIsNew ==
  ASSUME Base, Planning
  PROVE  \E k \in 0 .. Budget : /\ NewPlan = k + 1 /\ NewPlan \in Plan
                                /\ plans[NewPlan] = NoRecord
                                /\ \A p \in Plan : plans[p] = NoRecord <=> k < p
<1>1. PICK k \in 0 .. Budget : \A p \in Plan : plans[p] = NoRecord <=> k < p
  BY DEF Base, InOrder
<1>2. Budget = (sessions - 1) * MaxPlans + (run.iter - 1) /\ run.iter \in 1 .. MaxPlans
  BY SpecLoopAssumption DEF Planning, Budget, Ended, Base, Typed, Local, Iteration
<1>3. sessions * MaxPlans \in Nat /\ (sessions - 1) * MaxPlans \in Nat /\ MaxPlans * MaxSessions \in Nat
      /\ (sessions - 1) * MaxPlans + MaxPlans <= MaxPlans * MaxSessions
  BY PlansOfSessions, SpecLoopAssumption DEF Base, Typed
<1>4. k + 1 <= MaxPlans * MaxSessions /\ k \in Nat
  BY <1>1, <1>2, <1>3, SpecLoopAssumption
<1>5. k + 1 \in Plan /\ plans[k + 1] = NoRecord
  BY <1>1, <1>3, <1>4 DEF Plan
<1>6. \A p \in Plan : p \in Nat
  BY DEF Plan
<1>7. \A p \in Plan : (plans[p] = NoRecord /\ \A q \in Plan : plans[q] = NoRecord => p <= q) <=> p = k + 1
  BY <1>1, <1>4, <1>5, <1>6
<1>8. NewPlan = k + 1
  BY <1>5, <1>7 DEF NewPlan
<1> QED
  BY <1>1, <1>5, <1>8

-----------------------------------------------------------------------------
(* The state is well formed *)

\* What an update of one plan file leaves.
LEMMA PlanWritten ==
  ASSUME Typed, NEW p \in Plan, NEW rec \in PlanRecord, plans' = [plans EXCEPT ![p] = rec]
  PROVE  /\ plans' \in [Plan -> PlanRecord]
         /\ plans'[p] = rec
         /\ \A q \in Plan : q # p => plans'[q] = plans[q]
BY DEF Typed

\* Records the loop writes; the best net P&L so far is a number.
LEMMA RecordsTyped ==
  ASSUME Typed
  PROVE  /\ BestNet \in Int /\ run.best.net \in Int /\ 0 \in Int
         /\ \A o \in Outcomes, n \in Int : Record(o, n) \in PlanRecord
         /\ Torn \in PlanRecord /\ NoRecord \in PlanRecord
<1>1. 0 \in Int
  OBVIOUS
<1>2. run.best.net \in Int
  BY DEF Typed, Local
<1> QED
  BY <1>1, <1>2 DEF BestNet, Record, PlanRecord, Torn, NoRecord, Outcomes, Closed

\* A new session starts well formed.
LEMMA FreshTyped == Session0 \in Local
<1>1. 0 \in Int /\ 1 \in Iteration /\ 0 \in ToldOf /\ 1 \in Try /\ 0 \in Earlier
  BY SpecLoopAssumption DEF Iteration, ToldOf, Try, Earlier
<1>2. << >> \in Seq(Attempt)
  OBVIOUS
<1>3. NoRun \in Attempt /\ Unseen \in [seen : BOOLEAN, net : Int] /\ NoJudgement \in Judgement
  BY <1>1 DEF NoRun, Attempt, Unseen, NoJudgement, Judgement
<1> QED
  BY <1>1, <1>2, <1>3 DEF Session0, Local, NoPlan, Whys

\* The counters of a session stay within their bounds.
LEMMA CountersTyped ==
  ASSUME Base
  PROVE  /\ Planning \/ pc \in OfPlan => run.iter + 1 \in Iteration /\ run.iter \in ToldOf
         /\ pc \in OfPlan => run.plan \in Plan
         /\ Coding \/ pc \in {"learn", "route"} =>
              /\ run.attempt + 1 \in Try /\ run.attempt \in Earlier /\ run.attempt \in 1 .. MaxAttempts
              /\ Here \in Attempt /\ Append(run.tried, Here) \in Seq(Attempt)
<1>0. /\ MaxPlans \in Nat /\ MaxAttempts \in Nat
      /\ run.iter \in Iteration /\ run.attempt \in Try /\ run.tried \in Seq(Attempt)
  BY SpecLoopAssumption DEF Base, Typed, Local
<1>1. Planning \/ pc \in OfPlan => run.iter + 1 \in Iteration /\ run.iter \in ToldOf
  BY <1>0 DEF Base, CurrentPlan, Planning, Iteration, ToldOf
<1>2. pc \in OfPlan => run.plan \in Plan
  BY DEF Base, CurrentPlan
<1>3. Coding \/ pc \in {"learn", "route"} =>
        run.attempt + 1 \in Try /\ run.attempt \in Earlier /\ run.attempt \in 1 .. MaxAttempts
  BY <1>0 DEF Base, CurrentPlan, Coding, Try, Earlier
<1>4. Coding \/ pc \in {"learn", "route"} => Here \in Attempt
  BY <1>2, <1>3 DEF Here, Attempt, Coding, OfPlan
<1> QED
  BY <1>0, <1>1, <1>2, <1>3, <1>4

\* The steps of the outer loop keep the session's variables well formed.
LEMMA PlanLoopTyped ==
  ASSUME Base, PlanLoop
  PROVE  run' \in Local
<1>0. run \in Local
  BY DEF Base, Typed
<1>1. Planning \/ pc \in OfPlan => NextPlan(run) \in Local
  BY <1>0, CountersTyped DEF NextPlan, Local, NoPlan
<1>2. ASSUME NEW why \in Whys, Planning \/ pc \in OfPlan
      PROVE  NextPlan(Told(run, why)) \in Local
  <2>1. Told(run, why) \in Local
    BY <1>0, <1>2, CountersTyped DEF Told, Local
  <2>2. Told(run, why).iter = run.iter
    BY <1>0 DEF Told, Local
  <2> QED
    BY <1>2, <2>1, <2>2, CountersTyped DEF NextPlan, Local, NoPlan
<1>3. CASE PlannerFails \/ SpecInvalid \/ PrecodeRejected \/ CloseUnpassed
  BY <1>2, <1>3 DEF PlannerFails, SpecInvalid, PrecodeRejected, CloseUnpassed, Whys, OfPlan
<1>4. CASE SavePlan
  BY <1>0, <1>4, NewPlanIsNew DEF SavePlan, Local
<1>5. CASE CloseAbandoned
  BY <1>1, <1>5 DEF CloseAbandoned, OfPlan
<1>6. CASE StartCoding
  <2>1. << >> \in Seq(Attempt) /\ Unseen \in [seen : BOOLEAN, net : Int] /\ NoJudgement \in Judgement
        /\ 1 \in Try /\ 0 \in Earlier
    BY SpecLoopAssumption DEF Unseen, NoJudgement, Judgement, Try, Earlier
  <2>2. FreshFor(run) \in Local
    BY <1>0, <2>1 DEF FreshFor, Local
  <2> QED
    BY <1>6, <2>2 DEF StartCoding
<1>7. CASE PlansExhausted \/ ClosePassed
  BY <1>0, <1>7 DEF PlansExhausted, ClosePassed
<1> QED
  BY <1>3, <1>4, <1>5, <1>6, <1>7 DEF PlanLoop

\* So do those of the inner loop.
LEMMA CodeLoopTyped ==
  ASSUME Base, CodeLoop
  PROVE  run' \in Local
<1>0. run \in Local /\ run.fails \in Nat /\ run.fails + 1 \in Nat
  BY DEF Base, Typed, Local
<1>1. CASE GlobalUnreadable \/ FeedbackRaises
  BY <1>1, FreshTyped DEF GlobalUnreadable, FeedbackRaises
<1>2. CASE Skip
  BY <1>0, <1>2, CountersTyped DEF Skip, Local
<1>3. CASE Filtered
  BY <1>0, <1>3, CountersTyped DEF Filtered, Local
<1>4. CASE SaveStrategy
  BY <1>0, <1>4, JudgementFacts DEF SaveStrategy, Local
<1>5. CASE Learn
  <2>1. run.judged.net \in Int /\ run' = Learnt(run, run.judged) /\ pc = "learn"
    BY <1>0, <1>5 DEF Learn, Local, Judgement
  <2>2. [seen |-> TRUE, net |-> run.judged.net] \in [seen : BOOLEAN, net : Int]
    BY <2>1
  <2> QED
    BY <1>0, <2>1, <2>2, CountersTyped DEF Learnt, Local
<1>6. CASE StructuralFails \/ OosFails
  <2>1. \A why \in Whys : Abandoned(run, why) \in Local
    BY <1>0, <1>6, CountersTyped DEF StructuralFails, OosFails, Abandoned, Told, Local, OfPlan
  <2>2. \A r \in Local : [r EXCEPT !.oos = "fail_oos"] \in Local
    BY DEF Local
  <2>3. "structural" \in Whys /\ "oos_failed" \in Whys
    BY DEF Whys
  <2> QED
    BY <1>6, <2>1, <2>2, <2>3 DEF StructuralFails, OosFails
<1>7. CASE StopWithoutOos \/ OosPasses \/ OosRaises
  <2>1. \A oos \in {"no_oos", "pass_oos", "fail_oos"} : PassedWith(oos) \in Local
    BY <1>0, <1>7, CountersTyped DEF StopWithoutOos, OosPasses, OosRaises, PassedWith, Local
  <2> QED
    BY <1>0, <1>7, <2>1 DEF StopWithoutOos, OosPasses, OosRaises, Local
<1>8. CASE TryAgain
  BY <1>0, <1>8, CountersTyped DEF TryAgain, Local
<1>9. CASE AttemptsExhausted
  BY <1>0, <1>9 DEF AttemptsExhausted
<1> QED
  BY <1>1, <1>2, <1>3, <1>4, <1>5, <1>6, <1>7, <1>8, <1>9 DEF CodeLoop
\* The session's variables are those of run_spec_centric.
LEMMA FieldsOfRun == Base => DOMAIN run = Fields /\ DOMAIN run.feedback = {"of", "why"}
BY DEF Base, Typed, Local, Fields

\* What the helpers of the actions change, and what they leave.
LEMMA NextPlanHelper ==
  ASSUME Base
  PROVE  /\ NextPlan(run).iter = run.iter + 1
         /\ NextPlan(run).verdict = run.verdict
         /\ NextPlan(run).bestRun = run.bestRun
         /\ NextPlan(run).feedback = run.feedback
         /\ \A why : /\ NextPlan(Told(run, why)).iter = run.iter + 1
                    /\ NextPlan(Told(run, why)).verdict = run.verdict
                    /\ NextPlan(Told(run, why)).bestRun = run.bestRun
                    /\ NextPlan(Told(run, why)).feedback.of = run.iter
BY FieldsOfRun DEF NextPlan, Told, Fields

LEMMA FreshHelper ==
  ASSUME Base
  PROVE  /\ FreshFor(run).iter = run.iter /\ FreshFor(run).plan = run.plan
         /\ FreshFor(run).verdict = run.verdict /\ FreshFor(run).bestRun = run.bestRun
         /\ FreshFor(run).attempt = 1 /\ FreshFor(run).tried = << >> /\ FreshFor(run).best = Unseen
         /\ FreshFor(run).previous = 0 /\ FreshFor(run).fails = 0
         /\ FreshFor(run).outcome = "no_code_pass"
BY FieldsOfRun DEF FreshFor, Fields

LEMMA AbandonedHelper ==
  ASSUME Base, NEW why, NEW r, r = Abandoned(run, why) \/ r = [Abandoned(run, why) EXCEPT !.oos = "fail_oos"]
  PROVE  /\ r.iter = run.iter /\ r.plan = run.plan /\ r.verdict = run.verdict /\ r.bestRun = run.bestRun
         /\ r.feedback.of = run.iter /\ r.outcome = "structural_fail"
<1> DEFINE a == Abandoned(run, why)
<1>1. /\ a.iter = run.iter /\ a.plan = run.plan /\ a.verdict = run.verdict /\ a.bestRun = run.bestRun
      /\ a.feedback.of = run.iter /\ a.outcome = "structural_fail" /\ DOMAIN a = Fields
  BY FieldsOfRun DEF Abandoned, Told, Fields
<1> HIDE DEF a
<1>2. r = a \/ r = [a EXCEPT !.oos = "fail_oos"]
  BY DEF a
<1> QED
  BY <1>1, <1>2 DEF Fields

LEMMA PassedHelper ==
  ASSUME Base, NEW oos
  PROVE  /\ PassedWith(oos).iter = run.iter /\ PassedWith(oos).plan = run.plan
         /\ PassedWith(oos).verdict = "pass" /\ PassedWith(oos).outcome = "pass"
         /\ PassedWith(oos).bestRun = Here
BY FieldsOfRun DEF PassedWith, Fields

-----------------------------------------------------------------------------
(* What a step does to the plan files *)

Creates(rec) == Planning /\ rec.outcome # "pass" /\ plans' = [plans EXCEPT ![NewPlan] = rec]
Updates(rec) ==
  /\ pc \in OfPlan /\ run.plan \in Plan /\ plans[run.plan].outcome = "no_code_pass"
  /\ rec.outcome = "pass" => pc = "route" /\ Passes /\ pc' = "close" /\ run'.verdict = "pass"
  /\ plans' = [plans EXCEPT ![run.plan] = rec]

\* A step leaves the plans alone, writes a new one, or updates the current one,
\* which is still open.  It is recorded as passed only when it has passed.
LEMMA PlanSteps ==
  ASSUME Base, Next
  PROVE  \/ plans' = plans
         \/ \E rec \in PlanRecord : rec.outcome # "absent" /\ (Creates(rec) \/ Updates(rec))
<1>0. /\ \A o \in Outcomes, n \in Int : Record(o, n) \in PlanRecord /\ Record(o, n).outcome = o
      /\ BestNet \in Int /\ run.best.net \in Int /\ 0 \in Int
      /\ Torn \in PlanRecord /\ Torn.outcome = "torn"
      /\ {"spec_invalid", "precode_rejected", "structural_fail", "pass", "no_code_pass"} \subseteq Outcomes
  BY RecordsTyped DEF Base, Record, Torn, Outcomes, Closed
<1>1. pc \in OfPlan \ {"close"} \/ (pc = "close" /\ StillOpen)
        => pc \in OfPlan /\ run.plan \in Plan /\ plans[run.plan].outcome = "no_code_pass"
  BY DEF Base, CurrentPlan, StillOpen, OfPlan
<1>2. CASE SpecInvalid
  BY <1>0, <1>2 DEF SpecInvalid, Creates
<1>3. CASE SavePlan
  BY <1>0, <1>3 DEF SavePlan, Creates
<1>4. CASE PrecodeRejected
  BY <1>0, <1>1, <1>4 DEF PrecodeRejected, UpdatePlan, Updates, OfPlan
<1>5. CASE CloseUnpassed
  BY <1>0, <1>1, <1>5 DEF CloseUnpassed, UpdatePlan, Updates, OfPlan
<1>6. CASE StructuralFails \/ OosFails
  BY <1>0, <1>1, <1>6 DEF StructuralFails, OosFails, UpdatePlan, Updates, OfPlan
<1>7. CASE StopWithoutOos \/ OosRaises
  <2>1. run'.verdict = "pass"
    BY <1>7 DEF StopWithoutOos, OosRaises, PassedWith, Base, Typed, Local
  <2> QED
    BY <1>0, <1>1, <1>7, <2>1 DEF StopWithoutOos, OosRaises, UpdatePlan, Updates, OfPlan
<1>8. CASE OosPasses
  <2>1. run'.verdict = "pass"
    BY <1>8 DEF OosPasses, PassedWith, Base, Typed, Local
  <2>2. PICK j \in Judgements : UpdatePlan("pass", j.net)
    BY <1>8 DEF OosPasses
  <2>3. j.net \in Int
    BY JudgementTyped
  <2> QED
    BY <1>0, <1>1, <1>8, <2>1, <2>2, <2>3 DEF OosPasses, UpdatePlan, Updates, OfPlan
<1>9. CASE Crash
  <2>1. CASE Planning /\ plans' = [plans EXCEPT ![NewPlan] = Torn]
    BY <1>0, <2>1 DEF Creates
  <2>2. CASE /\ plans' = [plans EXCEPT ![run.plan] = Torn]
             /\ (pc \in OfPlan \ {"close"} \/ (pc = "close" /\ StillOpen))
    BY <1>0, <1>1, <2>2 DEF Updates
  <2>3. CASE plans' = plans
    BY <2>3
  <2>4. \/ plans' = plans
        \/ Planning /\ plans' = [plans EXCEPT ![NewPlan] = Torn]
        \/ /\ plans' = [plans EXCEPT ![run.plan] = Torn]
           /\ (pc \in OfPlan \ {"close"} \/ (pc = "close" /\ StillOpen))
    <3>1. ASSUME Tear
          PROVE  \/ plans' = plans
                 \/ Planning /\ plans' = [plans EXCEPT ![NewPlan] = Torn]
                 \/ /\ plans' = [plans EXCEPT ![run.plan] = Torn]
                    /\ (pc \in OfPlan \ {"close"} \/ (pc = "close" /\ StillOpen))
      <4>1. CASE pc = "plan" /\ run.iter <= MaxPlans /\ plans' = [plans EXCEPT ![NewPlan] = Torn]
        BY <4>1 DEF Planning
      <4>2. CASE /\ pc \in {"review", "route"} \/ (pc = "close" /\ StillOpen)
                 /\ plans' = [plans EXCEPT ![run.plan] = Torn]
        BY <4>2 DEF OfPlan
      <4>3. CASE plans' = plans
        BY <4>3
      <4> QED
        BY <3>1, <4>1, <4>2, <4>3 DEF Tear
    <3> QED
      BY <1>9, <3>1 DEF Crash
  <2> QED
    BY <2>1, <2>2, <2>3, <2>4
<1>10. CASE \/ PlannerFails \/ StartCoding \/ PlansExhausted \/ ClosePassed \/ CloseAbandoned
            \/ GlobalUnreadable \/ Skip \/ Filtered \/ FeedbackRaises \/ SaveStrategy \/ Learn
            \/ TryAgain \/ AttemptsExhausted \/ StartSession \/ AllSessionsOver
  BY <1>10 DEF PlannerFails, StartCoding, PlansExhausted, ClosePassed, CloseAbandoned, GlobalUnreadable,
     Skip, Filtered, FeedbackRaises, SaveStrategy, Learn, TryAgain, AttemptsExhausted, StartSession,
     AllSessionsOver, disk, vars
<1> QED
  BY <1>2, <1>3, <1>4, <1>5, <1>6, <1>7, <1>8, <1>9, <1>10 DEF Next, PlanLoop, CodeLoop

\* What became of a plan is recorded once.  (ClosedPlansStay, one step.)
LEMMA ClosedStay ==
  ASSUME Base, Next
  PROVE  \A p \in Plan : plans[p].outcome \in Closed => plans'[p] = plans[p]
<1>1. CASE plans' = plans
  BY <1>1
<1>2. ASSUME NEW rec, Creates(rec)
      PROVE  \A p \in Plan : plans[p].outcome \in Closed => plans'[p] = plans[p]
  <2>1. plans[NewPlan].outcome = "absent"
    BY <1>2, NewPlanIsNew DEF Creates, NoRecord
  <2> QED
    BY <1>2, <2>1 DEF Creates, Closed, Base, Typed
<1>3. ASSUME NEW rec, Updates(rec)
      PROVE  \A p \in Plan : plans[p].outcome \in Closed => plans'[p] = plans[p]
  BY <1>3 DEF Updates, Closed, Base, Typed
<1> QED
  BY <1>1, <1>2, <1>3, PlanSteps
-----------------------------------------------------------------------------
(* The plan files come in order *)

\* The plans a session may have written are bounded by the iterations it has
\* begun; a step that writes a new one begins, or ends, an iteration.
LEMMA BudgetSteps ==
  ASSUME Base, Next, run' \in Local, sessions' \in 1 .. MaxSessions
  PROVE  /\ Budget \in Nat /\ Budget' \in Nat /\ Budget <= Budget'
         /\ \A rec : Creates(rec) => Budget + 1 <= Budget'
<1>1. /\ MaxPlans \in Nat /\ run.iter \in 1 .. MaxPlans + 1 /\ run'.iter \in 1 .. MaxPlans + 1
      /\ sessions \in Nat /\ (sessions - 1) * MaxPlans \in Nat /\ (sessions' - 1) * MaxPlans \in Nat
      /\ (sessions - 1) * MaxPlans + MaxPlans = sessions * MaxPlans
  <2>1. run.iter \in 1 .. MaxPlans + 1 /\ run'.iter \in 1 .. MaxPlans + 1
    BY DEF Base, Typed, Local, Iteration
  <2>2. sessions \in 1 .. MaxSessions
    BY DEF Base, Typed
  <2>3. (sessions - 1) * MaxPlans \in Nat /\ (sessions - 1) * MaxPlans + MaxPlans = sessions * MaxPlans
    BY <2>2, PlansOfSessions
  <2>4. (sessions' - 1) * MaxPlans \in Nat
    BY PlansOfSessions
  <2>5. MaxPlans \in Nat /\ sessions \in Nat
    BY <2>2, SpecLoopAssumption
  <2> QED
    BY <2>1, <2>3, <2>4, <2>5
<1> DEFINE used == (sessions - 1) * MaxPlans
<1>2. Budget \in Nat /\ Budget' \in Nat
  BY <1>1 DEF Budget
<1>3. pc \in OfPlan => run.iter <= MaxPlans
  BY DEF Base, CurrentPlan
<1>4. CASE StartSession
  <2>1. sessions' - 1 = sessions /\ Ended /\ ~Ended' /\ pc' = "plan" /\ run'.iter = 1
    BY <1>1, <1>4 DEF StartSession, Session0, Ended
  <2>2. ~Planning
    BY <2>1 DEF Planning, Ended
  <2>3. Budget = used + MaxPlans
    BY <2>1 DEF Budget
  <2>4. Budget' = (sessions' - 1) * MaxPlans + 0
    BY <2>1 DEF Budget
  <2>5. Budget' = used + MaxPlans
    <3>1. (sessions' - 1) * MaxPlans = sessions * MaxPlans
      BY <2>1
    <3>2. sessions * MaxPlans \in Nat
      BY <1>1, <3>1
    <3>3. Budget' = sessions * MaxPlans
      BY <2>4, <3>1, <3>2
    <3> QED
      BY <1>1, <3>3
  <2> QED
    BY <1>2, <2>2, <2>3, <2>5 DEF Creates
<1>5. CASE AllSessionsOver
  BY <1>1, <1>2, <1>5 DEF AllSessionsOver, vars, Budget, Ended, Creates, Planning
<1>6. CASE Crash \/ GlobalUnreadable \/ FeedbackRaises \/ ClosePassed \/ PlansExhausted
  <2>1. sessions' = sessions /\ Ended' /\ ~Ended
    BY <1>6 DEF Crash, GlobalUnreadable, FeedbackRaises, ClosePassed, PlansExhausted, Coding, Ended, disk
  <2>2. Budget' = used + MaxPlans
    BY <2>1 DEF Budget
  <2>3. pc = "plan" => Budget = used + (run.iter - 1)
    BY <2>1 DEF Budget
  <2>4. pc # "plan" => Budget = used + run.iter /\ run.iter <= MaxPlans
    BY <1>3, <2>1 DEF Budget, Ended, OfPlan, Base, Typed
  <2>5. Planning => run.iter <= MaxPlans /\ pc = "plan"
    BY DEF Planning
  <2> HIDE DEF used
  <2>6. used \in Nat
    BY <1>1 DEF used
  <2> QED
    BY <1>1, <1>2, <2>2, <2>3, <2>4, <2>5, <2>6 DEF Creates
<1>7. CASE PlannerFails \/ SpecInvalid \/ SavePlan
  <2>1. pc = "plan" /\ sessions' = sessions /\ ~Ended /\ ~Ended'
    BY <1>7 DEF PlannerFails, SpecInvalid, SavePlan, Planning, Ended
  <2>2. run'.iter + (IF pc' = "plan" THEN 0 ELSE 1) = run.iter + 1
    <3>1. CASE PlannerFails
      <4>1. run' = NextPlan(Told(run, "planner_failed")) /\ pc' = "plan"
        BY <2>1, <3>1 DEF PlannerFails
      <4> QED
        BY <1>1, <4>1, NextPlanHelper
    <3>2. CASE SpecInvalid
      <4>1. run' = NextPlan(Told(run, "spec_invalid")) /\ pc' = "plan"
        BY <2>1, <3>2 DEF SpecInvalid
      <4> QED
        BY <1>1, <4>1, NextPlanHelper
    <3>3. CASE SavePlan
      BY <1>1, <3>3, FieldsOfRun DEF SavePlan, Fields
    <3> QED
      BY <1>7, <3>1, <3>2, <3>3
  <2> QED
    BY <1>1, <1>2, <2>1, <2>2 DEF Budget
<1>8. CASE \/ PrecodeRejected \/ StartCoding \/ CloseUnpassed \/ CloseAbandoned \/ Skip \/ Filtered
           \/ SaveStrategy \/ Learn \/ StructuralFails \/ StopWithoutOos \/ OosPasses \/ OosFails
           \/ OosRaises \/ TryAgain \/ AttemptsExhausted
  <2>1. pc \in OfPlan /\ sessions' = sessions /\ ~Ended /\ ~Ended' /\ ~Planning /\ pc # "plan"
    BY <1>8 DEF PrecodeRejected, StartCoding, CloseUnpassed, CloseAbandoned, Skip, Filtered,
       SaveStrategy, Learn, StructuralFails, StopWithoutOos, OosPasses, OosFails, OosRaises, TryAgain,
       AttemptsExhausted, Coding, OfPlan, Ended, Planning
  <2>2. run'.iter = run.iter + (IF pc' = "plan" THEN 1 ELSE 0)
    <3>1. CASE PrecodeRejected \/ CloseUnpassed \/ CloseAbandoned
      <4>1. pc' = "plan" /\ (run' = NextPlan(run) \/ \E why : run' = NextPlan(Told(run, why)))
        BY <3>1 DEF PrecodeRejected, CloseUnpassed, CloseAbandoned
      <4>2. NextPlan(run).iter = run.iter + 1
        BY NextPlanHelper
      <4>3. \A why : NextPlan(Told(run, why)).iter = run.iter + 1
        BY NextPlanHelper
      <4> QED
        BY <4>1, <4>2, <4>3
    <3>2. CASE StructuralFails \/ StopWithoutOos \/ OosPasses \/ OosFails \/ OosRaises
      <4>1. pc' = "close" /\ \/ \E why : \/ run' = Abandoned(run, why)
                                         \/ run' = [Abandoned(run, why) EXCEPT !.oos = "fail_oos"]
                             \/ \E oos : run' = PassedWith(oos)
        BY <3>2 DEF StructuralFails, StopWithoutOos, OosPasses, OosFails, OosRaises
      <4>2. run'.iter = run.iter
        BY <4>1, AbandonedHelper, PassedHelper
      <4> QED
        BY <1>1, <4>1, <4>2
    <3>3. CASE StartCoding \/ Skip \/ Filtered \/ SaveStrategy \/ Learn \/ TryAgain \/ AttemptsExhausted
      <4>1. pc' # "plan"
        BY <3>3 DEF StartCoding, Skip, Filtered, SaveStrategy, Learn, TryAgain, AttemptsExhausted, Coding
      <4>2. run'.iter = run.iter
        <5>1. StartCoding => run'.iter = run.iter
          BY FreshHelper DEF StartCoding
        <5>2. Skip \/ Filtered => run'.iter = run.iter
          BY FieldsOfRun DEF Skip, Filtered, Fields
        <5>3. SaveStrategy => run'.iter = run.iter
          BY FieldsOfRun DEF SaveStrategy, Fields
        <5>4. Learn => run'.iter = run.iter
          BY FieldsOfRun DEF Learn, Learnt, Fields
        <5>5. TryAgain \/ AttemptsExhausted => run'.iter = run.iter
          BY FieldsOfRun DEF TryAgain, AttemptsExhausted, Fields
        <5> QED
          BY <3>3, <5>1, <5>2, <5>3, <5>4, <5>5
      <4> QED
        BY <1>1, <4>1, <4>2
    <3> QED
      BY <1>8, <3>1, <3>2, <3>3
  <2> QED
    BY <1>1, <1>2, <2>1, <2>2 DEF Budget, Creates
<1> QED
  BY <1>4, <1>5, <1>6, <1>7, <1>8 DEF Next, PlanLoop, CodeLoop

\* So a new plan is always the next one.
LEMMA InOrderKept ==
  ASSUME Base, Next, run' \in Local, sessions' \in 1 .. MaxSessions
  PROVE  InOrder'
<1>1. PICK k \in 0 .. Budget : \A p \in Plan : plans[p] = NoRecord <=> k < p
  BY DEF Base, InOrder
<1>2. CASE plans' = plans
  BY <1>1, <1>2, BudgetSteps DEF InOrder
<1>3. ASSUME NEW rec, rec.outcome # "absent", Updates(rec)
      PROVE  InOrder'
  <2>1. \A p \in Plan : plans'[p] = NoRecord <=> plans[p] = NoRecord
    BY <1>3 DEF Updates, NoRecord, Base, Typed
  <2> QED
    BY <1>1, <2>1, BudgetSteps DEF InOrder
<1>4. ASSUME NEW rec, rec.outcome # "absent", Creates(rec)
      PROVE  InOrder'
  <2>1. PICK n \in 0 .. Budget : NewPlan = n + 1 /\ NewPlan \in Plan
                               /\ \A p \in Plan : plans[p] = NoRecord <=> n < p
    BY <1>4, NewPlanIsNew DEF Creates
  <2>2. \A p \in Plan : p \in Int
    BY DEF Plan
  <2>3. \A p \in Plan : plans'[p] = NoRecord <=> n + 1 < p
    BY <1>4, <2>1, <2>2 DEF Creates, NoRecord, Base, Typed
  <2>4. n + 1 \in 0 .. Budget'
    BY <1>4, <2>1, BudgetSteps
  <2> QED
    BY <2>3, <2>4 DEF InOrder
<1> QED
  BY <1>2, <1>3, <1>4, PlanSteps
-----------------------------------------------------------------------------
(* Base is inductive *)

LEMMA BaseInit == Init => Base
<1> SUFFICES ASSUME Init PROVE Base
  OBVIOUS
<1>1. Typed
  <2>1. run \in Local
    BY FreshTyped DEF Init
  <2>2. sessions \in 1 .. MaxSessions
    BY SpecLoopAssumption DEF Init
  <2>3. NoRecord \in PlanRecord
    BY DEF NoRecord, PlanRecord, Outcomes
  <2> QED
    BY <2>1, <2>2, <2>3 DEF Init, Typed
<1>2. InOrder
  <2>1. Budget = 0
    BY SpecLoopAssumption DEF Init, Budget, Ended, Session0
  <2>2. \A p \in Plan : 0 < p /\ plans[p] = NoRecord
    BY DEF Init, Plan
  <2> QED
    BY <2>1, <2>2 DEF InOrder
<1>3. CurrentPlan
  BY DEF Init, CurrentPlan, OfPlan
<1> QED
  BY <1>1, <1>2, <1>3 DEF Base

LEMMA TypedKept == Base /\ Next => Typed'
<1> SUFFICES ASSUME Base, Next PROVE Typed'
  OBVIOUS
<1>0. Typed
  BY DEF Base
<1>1. run' \in Local
  <2>1. PlanLoop \/ CodeLoop => run' \in Local
    BY PlanLoopTyped, CodeLoopTyped
  <2>2. Crash \/ StartSession => run' \in Local
    BY FreshTyped DEF Crash, StartSession
  <2>3. AllSessionsOver => run' \in Local
    BY <1>0 DEF AllSessionsOver, vars, Typed
  <2> QED
    BY <2>1, <2>2, <2>3 DEF Next
<1>2. plans' \in [Plan -> PlanRecord]
  BY <1>0, PlanSteps, PlanWritten, NewPlanIsNew DEF Creates, Updates, Typed
<1>3. /\ pc' \in {"plan", "over", "raised", "down"} \cup OfPlan
      /\ sessions' \in 1 .. MaxSessions
      /\ global' \in {"absent", "good", "torn"}
  <2>1. CASE PlanLoop
    BY <1>0, <2>1 DEF PlanLoop, PlannerFails, SpecInvalid, SavePlan, PrecodeRejected, StartCoding,
       PlansExhausted, ClosePassed, CloseUnpassed, CloseAbandoned, disk, Typed, OfPlan
  <2>2. CASE CodeLoop
    BY <1>0, <2>2 DEF CodeLoop, GlobalUnreadable, Skip, Filtered, FeedbackRaises, SaveStrategy, Learn,
       StructuralFails, StopWithoutOos, OosPasses, OosFails, OosRaises, TryAgain, AttemptsExhausted,
       disk, Typed, OfPlan
  <2>3. CASE Crash
    BY <1>0, <2>3 DEF Crash, Tear, Typed
  <2>4. CASE StartSession
    BY <1>0, <2>4, SpecLoopAssumption DEF StartSession, disk, Typed
  <2>5. CASE AllSessionsOver
    BY <1>0, <2>5 DEF AllSessionsOver, vars, Typed
  <2> QED
    BY <2>1, <2>2, <2>3, <2>4, <2>5 DEF Next
<1>4. strategies' \subseteq Strategy
  <2>1. CASE SaveStrategy
    <3>1. PICK j \in Judgements :
            strategies' = strategies \cup {[plan |-> run.plan, attempt |-> run.attempt, net |-> j.net,
                                            verdict |-> j.verdict, structural |-> j.structural]}
      BY <2>1 DEF SaveStrategy
    <3>2. run.plan \in Plan /\ run.attempt \in 1 .. MaxAttempts
      BY <2>1, CountersTyped DEF SaveStrategy, Coding, OfPlan
    <3>3. j.net \in Int /\ j.verdict \in Verdicts /\ j.structural \in BOOLEAN
      BY JudgementFacts DEF Judgement
    <3> QED
      BY <1>0, <3>1, <3>2, <3>3 DEF Typed, Strategy
  <2>2. ~SaveStrategy => strategies' = strategies
    BY DEF Next, PlanLoop, PlannerFails, SpecInvalid, SavePlan, PrecodeRejected, StartCoding,
       PlansExhausted, ClosePassed, CloseUnpassed, CloseAbandoned, CodeLoop, GlobalUnreadable, Skip, Filtered,
       FeedbackRaises, Learn, StructuralFails, StopWithoutOos, OosPasses, OosFails, OosRaises, TryAgain,
       AttemptsExhausted, Crash, StartSession, AllSessionsOver, disk, vars
  <2> QED
    BY <1>0, <2>1, <2>2 DEF Typed
<1> QED
  BY <1>1, <1>2, <1>3, <1>4 DEF Typed

LEMMA CurrentPlanKept == Base /\ Next => CurrentPlan'
<1> SUFFICES ASSUME Base, Next PROVE CurrentPlan'
  OBVIOUS
<1>0. Typed /\ CurrentPlan
  BY DEF Base
<1>1. ASSUME pc' \notin OfPlan PROVE CurrentPlan'
  BY <1>1 DEF CurrentPlan, OfPlan
<1>2. CASE SavePlan
  <2>1. /\ pc' = "review" /\ run'.plan = NewPlan /\ NewPlan \in Plan /\ run'.iter = run.iter
        /\ run.iter <= MaxPlans
    BY <1>2, NewPlanIsNew, FieldsOfRun DEF SavePlan, Planning, Fields
  <2>2. plans'[NewPlan].outcome = "no_code_pass"
    BY <1>0, <1>2, <2>1 DEF SavePlan, Record, Typed
  <2> QED
    BY <2>1, <2>2 DEF CurrentPlan, OfPlan
<1>3. CASE StartCoding
  <2>1. pc = "review" /\ pc' = "code" /\ plans' = plans /\ run' = FreshFor(run)
    BY <1>3 DEF StartCoding, disk
  <2> QED
    BY <1>0, <2>1, FreshHelper DEF CurrentPlan, OfPlan
<1>4. CASE Skip \/ Filtered
  <2>1. /\ pc = "code" /\ pc' = "code" /\ plans' = plans
        /\ run'.plan = run.plan /\ run'.iter = run.iter /\ run'.outcome = run.outcome
    BY <1>4, FieldsOfRun DEF Skip, Filtered, Coding, disk, Fields
  <2> QED
    BY <1>0, <2>1 DEF CurrentPlan, OfPlan
<1>5. CASE SaveStrategy
  <2>1. /\ pc = "code" /\ pc' = "learn" /\ plans' = plans /\ run.attempt <= MaxAttempts
        /\ run'.plan = run.plan /\ run'.iter = run.iter /\ run'.outcome = run.outcome
        /\ run'.attempt = run.attempt
    BY <1>5, FieldsOfRun DEF SaveStrategy, Coding, Fields
  <2> QED
    BY <1>0, <2>1 DEF CurrentPlan, OfPlan
<1>6. CASE Learn
  <2>1. /\ pc = "learn" /\ pc' = "route" /\ plans' = plans
        /\ run'.plan = run.plan /\ run'.iter = run.iter /\ run'.outcome = run.outcome
        /\ run'.attempt = run.attempt
    BY <1>6, FieldsOfRun DEF Learn, Learnt, Fields
  <2> QED
    BY <1>0, <2>1 DEF CurrentPlan, OfPlan
<1>7. CASE StructuralFails \/ OosFails
  <2>1. /\ pc = "route" /\ pc' = "close"
        /\ plans' = [plans EXCEPT ![run.plan] = Record("structural_fail", BestNet)]
        /\ \E why : run' = Abandoned(run, why) \/ run' = [Abandoned(run, why) EXCEPT !.oos = "fail_oos"]
    BY <1>7 DEF StructuralFails, OosFails, UpdatePlan
  <2>2. run'.plan = run.plan /\ run'.iter = run.iter /\ run'.outcome = "structural_fail"
    BY <2>1, AbandonedHelper
  <2>3. run.plan \in Plan /\ run.iter <= MaxPlans
    BY <1>0, <2>1 DEF CurrentPlan, OfPlan
  <2>4. plans'[run.plan].outcome = "structural_fail"
    BY <1>0, <2>1, <2>3 DEF Record, Typed
  <2> QED
    BY <2>1, <2>2, <2>3, <2>4 DEF CurrentPlan, OfPlan
<1>8. CASE StopWithoutOos \/ OosPasses \/ OosRaises
  <2>1. /\ pc = "route" /\ pc' = "close"
        /\ \E net : plans' = [plans EXCEPT ![run.plan] = Record("pass", net)]
        /\ \E oos : run' = PassedWith(oos)
    BY <1>8 DEF StopWithoutOos, OosPasses, OosRaises, UpdatePlan
  <2>2. run'.plan = run.plan /\ run'.iter = run.iter /\ run'.outcome = "pass"
    BY <2>1, PassedHelper
  <2>3. run.plan \in Plan /\ run.iter <= MaxPlans
    BY <1>0, <2>1 DEF CurrentPlan, OfPlan
  <2>4. plans'[run.plan].outcome = "pass"
    BY <1>0, <2>1, <2>3 DEF Record, Typed
  <2> QED
    BY <2>1, <2>2, <2>3, <2>4 DEF CurrentPlan, OfPlan
<1>9. CASE TryAgain \/ AttemptsExhausted
  <2>1. /\ pc \in {"code", "route"} /\ pc' \in {"code", "close"} /\ plans' = plans
        /\ run'.plan = run.plan /\ run'.iter = run.iter /\ run'.outcome = run.outcome
    BY <1>9, FieldsOfRun DEF TryAgain, AttemptsExhausted, disk, Fields
  <2> QED
    BY <1>0, <2>1 DEF CurrentPlan, OfPlan
<1>10. CASE AllSessionsOver
  BY <1>0, <1>10 DEF AllSessionsOver, Ended, vars, CurrentPlan, OfPlan
<1>11. CASE \/ PlannerFails \/ SpecInvalid \/ PrecodeRejected \/ CloseUnpassed \/ CloseAbandoned
            \/ PlansExhausted \/ ClosePassed \/ GlobalUnreadable \/ FeedbackRaises \/ Crash \/ StartSession
  <2>1. pc' \notin OfPlan
    BY <1>11 DEF PlannerFails, SpecInvalid, PrecodeRejected, CloseUnpassed, CloseAbandoned, PlansExhausted,
       ClosePassed, GlobalUnreadable, FeedbackRaises, Crash, StartSession, Planning, OfPlan
  <2> QED
    BY <1>1, <2>1
<1> QED
  BY <1>2, <1>3, <1>4, <1>5, <1>6, <1>7, <1>8, <1>9, <1>10, <1>11 DEF Next, PlanLoop, CodeLoop

LEMMA BaseKept == Base /\ [Next]_vars => Base'
<1>1. Base /\ Next => Base'
  BY TypedKept, CurrentPlanKept, InOrderKept DEF Base, Typed
<1>2. Base /\ UNCHANGED vars => Base'
  BY DEF Base, Typed, InOrder, Budget, CurrentPlan, Ended, vars
<1> QED
  BY <1>1, <1>2

LEMMA BaseInvariant == Spec => []Base
BY BaseInit, BaseKept, PTL DEF Spec

\* What became of a plan is recorded once, whatever crashes.
\* (update_plan_outcome, save_plan)
THEOREM PlansClosedOnce == Spec => ClosedPlansStay
<1>1. Base /\ [Next]_vars => [\A p \in Plan : plans[p].outcome \in Closed => plans'[p] = plans[p]]_vars
  BY ClosedStay
<1> QED
  BY <1>1, BaseInvariant, PTL DEF Spec, ClosedPlansStay
-----------------------------------------------------------------------------
(* What passed is on disk *)

\* The strategy file of attempt a at plan p, with this judgement.
OnDisk(p, a, j) ==
  \E s \in strategies : s.plan = p /\ s.attempt = a /\ s.net = j.net /\ s.verdict = j.verdict

\* After an evaluation the strategy that is routed is on disk.
JudgedIsSaved ==
  pc \in {"learn", "route"} =>
    /\ OnDisk(run.plan, run.attempt, run.judged)
    /\ run.judged.verdict = "pass" => run.judged.net > 0

PassedPlans == {p \in Plan : plans[p].outcome = "pass"}

\* A session that has passed names its run, and is about to end.
SessionPassed ==
  /\ IF run.verdict = "pass"
     THEN /\ pc \in {"close", "over"}
          /\ run.bestRun.plan \in PassedPlans
          /\ \E s \in Saved(run.bestRun.plan) : s.attempt = run.bestRun.attempt /\ s.verdict = "pass"
     ELSE run.bestRun = NoRun
  /\ pc = "close" /\ run.outcome = "pass" => run.verdict = "pass"
  /\ Cardinality(PassedPlans) <= IF Ended \/ run.verdict = "pass" THEN sessions ELSE sessions - 1

Evidence == Base /\ JudgedIsSaved /\ PassedPlanHasStrategy /\ SessionPassed

LEMMA EvidenceInit == Init => Evidence
<1> SUFFICES ASSUME Init PROVE Evidence
  OBVIOUS
<1>1. Base
  BY BaseInit
<1>2. JudgedIsSaved
  BY DEF Init, JudgedIsSaved
<1>3. PassedPlanHasStrategy
  BY DEF Init, PassedPlanHasStrategy, NoRecord
<1>4. PassedPlans = {}
  BY DEF Init, PassedPlans, NoRecord
<1>5. Cardinality(PassedPlans) = 0
  BY <1>4, FS_EmptySet
<1>6. run.verdict = "no_pass" /\ run.bestRun = NoRun /\ sessions = 1 /\ pc = "plan"
  BY DEF Init, Session0
<1> QED
  BY <1>1, <1>2, <1>3, <1>5, <1>6 DEF Evidence, SessionPassed

\* Strategy files are never taken away, and only an evaluation adds one.
LEMMA StrategiesStay ==
  ASSUME Next
  PROVE  strategies \subseteq strategies' /\ (~SaveStrategy => strategies' = strategies)
<1>1. CASE SaveStrategy
  BY <1>1 DEF SaveStrategy
<1>2. ~SaveStrategy => strategies' = strategies
  BY DEF Next, PlanLoop, PlannerFails, SpecInvalid, SavePlan, PrecodeRejected, StartCoding,
     PlansExhausted, ClosePassed, CloseUnpassed, CloseAbandoned, CodeLoop, GlobalUnreadable, Skip, Filtered,
     FeedbackRaises, Learn, StructuralFails, StopWithoutOos, OosPasses, OosFails, OosRaises, TryAgain,
     AttemptsExhausted, Crash, StartSession, AllSessionsOver, disk, vars
<1> QED
  BY <1>1, <1>2

LEMMA JudgedKept == Evidence /\ Next => JudgedIsSaved'
<1> SUFFICES ASSUME Evidence, Next PROVE JudgedIsSaved'
  OBVIOUS
<1>0. Base /\ JudgedIsSaved
  BY DEF Evidence
<1>1. CASE SaveStrategy
  <2>1. PICK j \in Judgements :
          /\ strategies' = strategies \cup {[plan |-> run.plan, attempt |-> run.attempt, net |-> j.net,
                                             verdict |-> j.verdict, structural |-> j.structural]}
          /\ run' = [run EXCEPT !.judged = j]
    BY <1>1 DEF SaveStrategy
  <2>2. run'.plan = run.plan /\ run'.attempt = run.attempt /\ run'.judged = j
    BY <1>0, <2>1, FieldsOfRun DEF Fields
  <2>3. OnDisk(run.plan, run.attempt, j)'
    <3> DEFINE s == [plan |-> run.plan, attempt |-> run.attempt, net |-> j.net,
                     verdict |-> j.verdict, structural |-> j.structural]
    <3>1. s \in strategies'
      BY <2>1
    <3>2. s.plan = run'.plan /\ s.attempt = run'.attempt /\ s.net = j.net /\ s.verdict = j.verdict
      BY <2>2
    <3> HIDE DEF s
    <3> QED
      BY <3>1, <3>2 DEF OnDisk
  <2> QED
    BY <2>2, <2>3, JudgementFacts DEF JudgedIsSaved, OnDisk
<1>2. CASE Learn
  <2>1. run'.plan = run.plan /\ run'.attempt = run.attempt /\ run'.judged = run.judged
    BY <1>0, <1>2, FieldsOfRun DEF Learn, Learnt, Fields
  <2>2. pc = "learn" /\ strategies' = strategies
    BY <1>2 DEF Learn
  <2> QED
    BY <1>0, <2>1, <2>2 DEF JudgedIsSaved, OnDisk
<1>3. CASE pc' \notin {"learn", "route"}
  BY <1>3 DEF JudgedIsSaved
<1>4. CASE AllSessionsOver
  BY <1>0, <1>4 DEF AllSessionsOver, vars, Ended, JudgedIsSaved
<1>5. \/ SaveStrategy \/ Learn \/ AllSessionsOver
      \/ pc' \notin {"learn", "route"}
  <2>1. PlanLoop => pc' \notin {"learn", "route"}
    BY DEF PlanLoop, PlannerFails, SpecInvalid, SavePlan, PrecodeRejected, StartCoding,
       PlansExhausted, ClosePassed, CloseUnpassed, CloseAbandoned, Planning
  <2>2. CodeLoop => SaveStrategy \/ Learn \/ pc' \notin {"learn", "route"}
    BY DEF CodeLoop, GlobalUnreadable, Skip, Filtered, FeedbackRaises, Coding,
       StructuralFails, StopWithoutOos, OosPasses, OosFails, OosRaises, TryAgain, AttemptsExhausted
  <2>3. Crash \/ StartSession => pc' \notin {"learn", "route"}
    BY DEF Crash, StartSession
  <2> QED
    BY <2>1, <2>2, <2>3 DEF Next
<1> QED
  BY <1>1, <1>2, <1>3, <1>4, <1>5

LEMMA EvidenceOfPlans == Evidence /\ Next => PassedPlanHasStrategy'
<1> SUFFICES ASSUME Evidence, Next PROVE PassedPlanHasStrategy'
  OBVIOUS
<1>0. Base /\ Typed /\ JudgedIsSaved /\ PassedPlanHasStrategy /\ strategies \subseteq strategies'
  BY StrategiesStay DEF Evidence, Base
<1>1. \A p \in Plan : plans[p].outcome # "absent" => plans'[p].outcome # "absent"
  <2>1. CASE plans' = plans
    BY <2>1
  <2>2. ASSUME NEW rec, rec.outcome # "absent", Creates(rec) \/ Updates(rec)
        PROVE  \A p \in Plan : plans[p].outcome # "absent" => plans'[p].outcome # "absent"
    BY <1>0, <2>2 DEF Creates, Updates, Typed
  <2> QED
    BY <1>0, <2>1, <2>2, PlanSteps
<1>2. \A s \in strategies' : s.plan \in Plan /\ plans'[s.plan].outcome # "absent"
  <2>1. \A s \in strategies : s.plan \in Plan /\ plans'[s.plan].outcome # "absent"
    BY <1>0, <1>1 DEF PassedPlanHasStrategy, Typed, Strategy
  <2>2. CASE SaveStrategy
    <3>1. \A s \in strategies' : s \in strategies \/ s.plan = run.plan
      BY <2>2 DEF SaveStrategy
    <3>2. pc = "code" /\ plans' = plans
      BY <2>2 DEF SaveStrategy, Coding
    <3>3. run.plan \in Plan /\ plans[run.plan].outcome = "no_code_pass"
      BY <1>0, <3>2 DEF Base, CurrentPlan, OfPlan
    <3> QED
      BY <2>1, <3>1, <3>2, <3>3
  <2> QED
    BY <2>1, <2>2, StrategiesStay
<1>3. ASSUME NEW p \in Plan, plans'[p].outcome = "pass"
      PROVE  \E s \in strategies' : s.plan = p /\ s.verdict = "pass" /\ s.net > 0
  <2>1. CASE plans[p].outcome = "pass"
    BY <1>0, <2>1 DEF PassedPlanHasStrategy, Saved
  <2>2. CASE plans[p].outcome # "pass"
    <3>1. PICK rec \in PlanRecord : Creates(rec) \/ Updates(rec)
      BY <1>0, <1>3, <2>2, PlanSteps
    <3>2. ~Creates(rec)
      BY <1>0, <1>3, <2>2 DEF Creates, Typed
    <3>3. p = run.plan /\ rec.outcome = "pass" /\ pc = "route" /\ Passes
      BY <1>0, <1>3, <2>2, <3>1, <3>2 DEF Updates, Typed
    <3> QED
      BY <1>0, <3>3 DEF JudgedIsSaved, OnDisk, Passes
  <2> QED
    BY <2>1, <2>2
<1> QED
  BY <1>2, <1>3 DEF PassedPlanHasStrategy, Saved
\* A step adds at most one passed plan, when the session passes.
LEMMA PassedSteps ==
  ASSUME Base, Next
  PROVE  /\ Cardinality(PassedPlans) \in Nat
         /\ \/ PassedPlans' = PassedPlans
            \/ /\ Cardinality(PassedPlans') = Cardinality(PassedPlans) + 1
               /\ pc = "route" /\ pc' = "close" /\ run'.verdict = "pass"
<1>1. IsFiniteSet(Plan)
  <2>1. MaxPlans * MaxSessions \in Nat
    BY SpecLoopAssumption
  <2> QED
    BY <2>1, FS_Interval DEF Plan
<1>2. IsFiniteSet(PassedPlans)
  BY <1>1, FS_Subset DEF PassedPlans
<1>3. CASE plans' = plans
  BY <1>2, <1>3, FS_CardinalityType DEF PassedPlans
<1>4. ASSUME NEW rec, Creates(rec)
      PROVE  PassedPlans' = PassedPlans
  <2>1. plans[NewPlan].outcome # "pass" /\ NewPlan \in Plan
    BY <1>4, NewPlanIsNew DEF Creates, NoRecord
  <2> QED
    BY <1>4, <2>1 DEF Creates, PassedPlans, Base, Typed
<1>5. ASSUME NEW rec, Updates(rec), rec.outcome # "pass"
      PROVE  PassedPlans' = PassedPlans
  BY <1>5 DEF Updates, PassedPlans, Base, Typed
<1>6. ASSUME NEW rec, Updates(rec), rec.outcome = "pass"
      PROVE  Cardinality(PassedPlans') = Cardinality(PassedPlans) + 1
  <2>1. run.plan \notin PassedPlans /\ PassedPlans' = PassedPlans \cup {run.plan}
    BY <1>6 DEF Updates, PassedPlans, Base, Typed
  <2> QED
    BY <1>2, <2>1, FS_AddElement
<1> QED
  BY <1>2, <1>3, <1>4, <1>5, <1>6, PlanSteps, FS_CardinalityType DEF Updates

\* Whatever leaves the session's verdict and best run alone leaves what was
\* proved of them.
LEMMA SessionGoesOn ==
  ASSUME Evidence, Next, run.verdict # "pass", run'.verdict = run.verdict, run'.bestRun = run.bestRun,
         sessions' = sessions, ~Ended, pc' = "close" => run'.outcome # "pass"
  PROVE  SessionPassed'
<1>1. PassedPlans' = PassedPlans /\ Cardinality(PassedPlans) \in Nat
  BY PassedSteps DEF Evidence
<1>2. sessions \in Nat /\ Cardinality(PassedPlans) <= sessions - 1 /\ run.bestRun = NoRun
  BY SpecLoopAssumption DEF Evidence, SessionPassed, Base, Typed
<1> QED
  BY <1>1, <1>2 DEF SessionPassed

LEMMA SessionPassedKept == Evidence /\ Next => SessionPassed'
<1> SUFFICES ASSUME Evidence, Next PROVE SessionPassed'
  OBVIOUS
<1>0. Base /\ Typed /\ CurrentPlan /\ JudgedIsSaved /\ SessionPassed /\ strategies \subseteq strategies'
  BY StrategiesStay DEF Evidence, Base
<1>1. Cardinality(PassedPlans) \in Nat /\ sessions \in Nat /\ Cardinality(PassedPlans) <= sessions
  BY <1>0, PassedSteps, SpecLoopAssumption DEF SessionPassed, Typed
<1>2. pc \in {"plan", "review", "code", "learn", "route"} => run.verdict # "pass" /\ ~Ended
  BY <1>0 DEF SessionPassed, Ended
<1>3. CASE PlannerFails \/ SpecInvalid \/ PrecodeRejected \/ CloseUnpassed \/ CloseAbandoned
  <2>1. /\ pc \in {"plan", "review", "close"} /\ run.verdict # "pass" /\ pc' = "plan" /\ sessions' = sessions
        /\ run' = NextPlan(run) \/ \E why : run' = NextPlan(Told(run, why))
    BY <1>2, <1>3 DEF PlannerFails, SpecInvalid, PrecodeRejected, CloseUnpassed, CloseAbandoned, Planning,
       StillOpen
  <2>2. run'.verdict = run.verdict /\ run'.bestRun = run.bestRun
    BY <1>0, <2>1, NextPlanHelper
  <2> QED
    BY <2>1, <2>2, SessionGoesOn DEF Ended
<1>4. CASE SavePlan \/ StartCoding
  <2>1. pc \in {"plan", "review"} /\ pc' # "close" /\ sessions' = sessions
    BY <1>4 DEF SavePlan, StartCoding, Planning
  <2>2. run'.verdict = run.verdict /\ run'.bestRun = run.bestRun
    <3>1. SavePlan => run'.verdict = run.verdict /\ run'.bestRun = run.bestRun
      BY <1>0, FieldsOfRun DEF SavePlan, Fields
    <3>2. StartCoding => run'.verdict = run.verdict /\ run'.bestRun = run.bestRun
      BY <1>0, FreshHelper DEF StartCoding
    <3> QED
      BY <1>4, <3>1, <3>2
  <2> QED
    BY <1>2, <2>1, <2>2, SessionGoesOn
<1>5. CASE PlansExhausted
  <2>1. pc = "plan" /\ pc' = "over" /\ run' = run /\ sessions' = sessions
    BY <1>5 DEF PlansExhausted
  <2> QED
    BY <1>2, <2>1, SessionGoesOn
<1>6. CASE Skip \/ Filtered \/ SaveStrategy \/ Learn \/ TryAgain
  <2>1. pc \in {"code", "learn", "route"} /\ pc' # "close" /\ sessions' = sessions
    BY <1>6 DEF Skip, Filtered, SaveStrategy, Learn, TryAgain, Coding
  <2>2. run'.verdict = run.verdict /\ run'.bestRun = run.bestRun
    <3>1. Skip \/ Filtered => run'.verdict = run.verdict /\ run'.bestRun = run.bestRun
      BY <1>0, FieldsOfRun DEF Skip, Filtered, Fields
    <3>2. SaveStrategy => run'.verdict = run.verdict /\ run'.bestRun = run.bestRun
      BY <1>0, FieldsOfRun DEF SaveStrategy, Fields
    <3>3. Learn \/ TryAgain => run'.verdict = run.verdict /\ run'.bestRun = run.bestRun
      BY <1>0, FieldsOfRun DEF Learn, Learnt, TryAgain, Fields
    <3> QED
      BY <1>6, <3>1, <3>2, <3>3
  <2> QED
    BY <1>2, <2>1, <2>2, SessionGoesOn
<1>7. CASE AttemptsExhausted
  <2>1. pc = "code" /\ run' = run /\ sessions' = sessions /\ run.outcome = "no_code_pass"
    BY <1>0, <1>7 DEF AttemptsExhausted, CurrentPlan
  <2> QED
    BY <1>2, <2>1, SessionGoesOn
<1>8. CASE StructuralFails \/ OosFails
  <2>1. /\ pc = "route" /\ sessions' = sessions
        /\ \E why : run' = Abandoned(run, why) \/ run' = [Abandoned(run, why) EXCEPT !.oos = "fail_oos"]
    BY <1>8 DEF StructuralFails, OosFails
  <2>2. run'.verdict = run.verdict /\ run'.bestRun = run.bestRun /\ run'.outcome = "structural_fail"
    BY <1>0, <2>1, AbandonedHelper
  <2> QED
    BY <1>2, <2>1, <2>2, SessionGoesOn
<1>9. CASE StopWithoutOos \/ OosPasses \/ OosRaises
  <2>1. /\ pc = "route" /\ pc' = "close" /\ Passes /\ sessions' = sessions /\ strategies' = strategies
        /\ \E net : plans' = [plans EXCEPT ![run.plan] = Record("pass", net)]
        /\ \E oos : run' = PassedWith(oos)
    BY <1>9 DEF StopWithoutOos, OosPasses, OosRaises, UpdatePlan
  <2>2. run'.verdict = "pass" /\ run'.bestRun = Here
    BY <1>0, <2>1, PassedHelper
  <2>3. run.plan \in Plan /\ run.plan \in PassedPlans'
    BY <1>0, <2>1 DEF CurrentPlan, OfPlan, PassedPlans, Record, Typed
  <2>4. \E s \in strategies' : s.plan = run.plan /\ s.attempt = run.attempt /\ s.verdict = "pass"
    BY <1>0, <2>1 DEF JudgedIsSaved, OnDisk, Passes
  <2>5. Cardinality(PassedPlans') <= sessions
    <3>1. Cardinality(PassedPlans) <= sessions - 1
      BY <1>0, <1>2, <2>1 DEF SessionPassed
    <3> QED
      BY <1>0, <1>1, <3>1, PassedSteps
  <2> QED
    BY <2>1, <2>2, <2>3, <2>4, <2>5 DEF SessionPassed, Saved, Here
<1>10. CASE ClosePassed
  <2>1. pc' = "over" /\ run' = run /\ plans' = plans /\ strategies' = strategies /\ sessions' = sessions
        /\ run.verdict = "pass"
    BY <1>10 DEF ClosePassed, disk
  <2> QED
    BY <1>0, <2>1 DEF SessionPassed, PassedPlans, Saved, Ended
<1>11. CASE GlobalUnreadable \/ FeedbackRaises \/ Crash \/ StartSession
  <2>1. /\ run' = Session0 /\ pc' # "close"
        /\ (Ended' /\ sessions' = sessions) \/ (~Ended' /\ sessions' = sessions + 1)
    BY <1>11 DEF GlobalUnreadable, FeedbackRaises, Crash, StartSession, Ended
  <2>2. run'.verdict = "no_pass" /\ run'.bestRun = NoRun
    BY <2>1 DEF Session0
  <2>3. PassedPlans' = PassedPlans
    BY <1>0, <2>2, PassedSteps
  <2> QED
    BY <1>1, <2>1, <2>2, <2>3 DEF SessionPassed
<1>12. CASE AllSessionsOver
  BY <1>0, <1>12 DEF AllSessionsOver, vars, SessionPassed, PassedPlans, Saved, Ended
<1> QED
  BY <1>3, <1>4, <1>5, <1>6, <1>7, <1>8, <1>9, <1>10, <1>11, <1>12 DEF Next, PlanLoop, CodeLoop

LEMMA EvidenceKept == Evidence /\ [Next]_vars => Evidence'
<1>1. Evidence /\ Next => Evidence'
  BY BaseKept, JudgedKept, EvidenceOfPlans, SessionPassedKept DEF Evidence
<1>2. Evidence /\ UNCHANGED vars => Evidence'
  <2> SUFFICES ASSUME Evidence, UNCHANGED vars PROVE Evidence'
    OBVIOUS
  <2>1. Base'
    BY BaseKept DEF Evidence
  <2>2. JudgedIsSaved' /\ PassedPlanHasStrategy' /\ SessionPassed'
    BY DEF Evidence, vars, JudgedIsSaved, OnDisk, PassedPlanHasStrategy, SessionPassed, PassedPlans,
       Saved, Ended
  <2> QED
    BY <2>1, <2>2 DEF Evidence
<1> QED
  BY <1>1, <1>2

\* Whenever the process dies, a plan recorded as passed has a strategy on disk
\* that passed with a profit.
\* (run_spec_centric: save_strategy before update_plan_outcome)
THEOREM PassedPlanIsBacked == Spec => []PassedPlanHasStrategy
<1>1. Evidence => PassedPlanHasStrategy
  BY DEF Evidence
<1> QED
  BY <1>1, EvidenceInit, EvidenceKept, PTL DEF Spec

\* A session that returns a pass names a run that is on disk and whose plan is
\* recorded as passed, and there are never more passed plans than sessions.
\* (run_spec_centric, the return)
THEOREM ReturnIsOnDisk == Spec => []ReturnedPassIsOnDisk
<1>1. Evidence => ReturnedPassIsOnDisk
  <2> SUFFICES ASSUME Evidence PROVE ReturnedPassIsOnDisk
    OBVIOUS
  <2>1. Cardinality(PassedPlans) \in Nat
    <3>1. MaxPlans * MaxSessions \in Nat
      BY SpecLoopAssumption
    <3>2. IsFiniteSet(PassedPlans)
      BY <3>1, FS_Interval, FS_Subset DEF Plan, PassedPlans
    <3> QED
      BY <3>2, FS_CardinalityType
  <2>2. sessions \in Nat
    BY SpecLoopAssumption DEF Evidence, Base, Typed
  <2>3. Cardinality({p \in Plan : plans[p].outcome = "pass"}) <= sessions
    BY <2>1, <2>2 DEF Evidence, SessionPassed, PassedPlans
  <2>4. pc = "over" =>
          IF run.verdict = "pass"
          THEN /\ plans[run.bestRun.plan].outcome = "pass"
               /\ \E s \in Saved(run.bestRun.plan) : s.attempt = run.bestRun.attempt /\ s.verdict = "pass"
          ELSE run.bestRun = NoRun
    BY DEF Evidence, SessionPassed, PassedPlans
  <2> QED
    BY <2>3, <2>4 DEF ReturnedPassIsOnDisk
<1> QED
  BY <1>1, EvidenceInit, EvidenceKept, PTL DEF Spec
-----------------------------------------------------------------------------
(* Each loop starts from the right place *)

\* What the inner loop remembers is about the current plan.
Remembered(r, files) ==
  /\ \A k \in DOMAIN r.tried : r.tried[k].plan = r.plan
  /\ r.best.seen => \E s \in files : s.plan = r.plan /\ s.net = r.best.net
  /\ r.previous = IF r.tried = << >> THEN 0 ELSE Last(r.tried).attempt

Fresh ==
  /\ pc = "plan" => run.feedback.of = run.iter - 1
  /\ pc = "close" /\ run.outcome = "structural_fail" => run.feedback.of = run.iter
  /\ pc \in {"code", "learn"} => run.fails = run.attempt - 1
  /\ pc = "route" /\ ~Passes => run.fails = run.attempt
  /\ pc \in {"code", "learn", "route"} => Remembered(run, strategies)

FreshInv == Evidence /\ Fresh

\* What a grown sequence of attempts holds.
LEMMA TriedGrows ==
  ASSUME NEW tried \in Seq(Attempt), NEW a \in Attempt
  PROVE  /\ Append(tried, a) # << >> /\ Last(Append(tried, a)) = a
         /\ \A k \in DOMAIN Append(tried, a) : k \in DOMAIN tried \/ Append(tried, a)[k] = a
         /\ \A k \in DOMAIN tried : Append(tried, a)[k] = tried[k]
BY DEF Last

LEMMA FreshInit == Init => FreshInv
<1>1. Init => Fresh
  BY DEF Init, Fresh, Session0
<1> QED
  BY <1>1, EvidenceInit DEF FreshInv

LEMMA FreshKept == FreshInv /\ Next => Fresh'
<1> SUFFICES ASSUME FreshInv, Next PROVE Fresh'
  OBVIOUS
<1>0. /\ Base /\ CurrentPlan /\ JudgedIsSaved /\ SessionPassed /\ Fresh
      /\ strategies \subseteq strategies'
      /\ run.iter \in Nat /\ run.attempt \in Nat /\ run.fails \in Nat
  BY StrategiesStay, SpecLoopAssumption DEF FreshInv, Evidence, Base, Typed, Local, Iteration, Try
<1>1. CASE PlannerFails \/ SpecInvalid \/ PrecodeRejected \/ CloseUnpassed
  <2>1. pc' = "plan" /\ \E why : run' = NextPlan(Told(run, why))
    BY <1>1 DEF PlannerFails, SpecInvalid, PrecodeRejected, CloseUnpassed, Planning
  <2>2. run'.feedback.of = run'.iter - 1
    BY <1>0, <2>1, NextPlanHelper
  <2> QED
    BY <2>1, <2>2 DEF Fresh
<1>2. CASE CloseAbandoned
  <2>1. /\ pc = "close" /\ pc' = "plan" /\ run' = NextPlan(run) /\ run.verdict # "pass"
        /\ run.outcome # "no_code_pass"
    BY <1>2 DEF CloseAbandoned, StillOpen
  <2>2. run.outcome = "structural_fail"
    BY <1>0, <2>1 DEF SessionPassed, Base, Typed, Local
  <2>3. run'.feedback.of = run'.iter - 1
    BY <1>0, <2>1, <2>2, NextPlanHelper DEF Fresh
  <2> QED
    BY <2>1, <2>3 DEF Fresh
<1>3. CASE StartCoding
  <2>1. pc' = "code" /\ run' = FreshFor(run)
    BY <1>3 DEF StartCoding
  <2>2. Remembered(run', strategies') /\ run'.fails = run'.attempt - 1
    BY <1>0, <2>1, FreshHelper DEF Remembered, Unseen
  <2> QED
    BY <2>1, <2>2 DEF Fresh
<1>4. CASE Skip
  <2>1. /\ pc = "code" /\ pc' = "code" /\ strategies' = strategies
        /\ run'.plan = run.plan /\ run'.tried = run.tried /\ run'.best = run.best
        /\ run'.previous = run.previous /\ run'.attempt = run.attempt + 1 /\ run'.fails = run.fails + 1
    BY <1>0, <1>4, FieldsOfRun DEF Skip, Coding, disk, Fields
  <2>2. Remembered(run', strategies')
    BY <1>0, <2>1 DEF Fresh, Remembered
  <2>3. run'.fails = run'.attempt - 1
    BY <1>0, <2>1 DEF Fresh
  <2> QED
    BY <2>1, <2>2, <2>3 DEF Fresh
<1>5. CASE Filtered \/ Learn
  <2>1. /\ pc \in {"code", "learn"} /\ strategies' = strategies /\ Here \in Attempt
        /\ run.tried \in Seq(Attempt) /\ (pc = "code" => Coding)
    BY <1>0, <1>5, CountersTyped DEF Filtered, Learn, Coding, disk, Base, Typed, Local
  <2>2. run'.tried = Append(run.tried, Here) /\ run'.plan = run.plan /\ run'.previous = run.attempt
    <3>1. CASE Filtered
      BY <1>0, <3>1, FieldsOfRun DEF Filtered, Fields
    <3>2. CASE Learn
      BY <1>0, <3>2, FieldsOfRun DEF Learn, Learnt, Fields
    <3> QED
      BY <1>5, <3>1, <3>2
  <2>3. run'.best.seen => \E s \in strategies' : s.plan = run'.plan /\ s.net = run'.best.net
    <3>0. run.best.seen => \E s \in strategies : s.plan = run.plan /\ s.net = run.best.net
      BY <1>0, <2>1 DEF Fresh, Remembered
    <3>1. CASE Filtered
      <4>1. run'.best = run.best
        BY <1>0, <3>1, FieldsOfRun DEF Filtered, Fields
      <4> QED
        BY <2>1, <2>2, <3>0, <4>1
    <3>2. CASE Learn
      <4>1. run'.best = run.best \/ run'.best = [seen |-> TRUE, net |-> run.judged.net]
        BY <1>0, <3>2, FieldsOfRun DEF Learn, Learnt, Fields
      <4>2. \E s \in strategies : s.plan = run.plan /\ s.net = run.judged.net
        BY <1>0, <3>2 DEF Learn, JudgedIsSaved, OnDisk
      <4> QED
        BY <2>1, <2>2, <3>0, <4>1, <4>2
    <3> QED
      BY <1>5, <3>1, <3>2
  <2>4. Remembered(run', strategies')
    <3>1. \A k \in DOMAIN run.tried : run.tried[k].plan = run.plan
      BY <1>0, <2>1 DEF Fresh, Remembered
    <3>2. Here.plan = run.plan /\ Here.attempt = run.attempt
      BY DEF Here
    <3> QED
      BY <2>1, <2>2, <2>3, <3>1, <3>2, TriedGrows DEF Remembered
  <2>5. CASE Filtered
    <3>1. pc = "code" /\ pc' = "code" /\ run'.attempt = run.attempt + 1 /\ run'.fails = run.fails + 1
      BY <1>0, <2>5, FieldsOfRun DEF Filtered, Coding, Fields
    <3>2. run'.fails = run'.attempt - 1
      BY <1>0, <3>1 DEF Fresh
    <3> QED
      BY <2>4, <3>1, <3>2 DEF Fresh
  <2>6. CASE Learn
    <3>1. pc = "learn" /\ pc' = "route" /\ run'.attempt = run.attempt /\ run'.judged = run.judged
      BY <1>0, <2>6, FieldsOfRun DEF Learn, Learnt, Fields
    <3>2. run.judged.verdict # "pass" => run'.fails = run.fails + 1
      BY <1>0, <2>6, FieldsOfRun DEF Learn, Learnt, Fields
    <3>3. (~Passes)' => run'.fails = run'.attempt
      BY <1>0, <3>1, <3>2 DEF Fresh, Passes
    <3> QED
      BY <2>4, <3>1, <3>3 DEF Fresh
  <2> QED
    BY <1>5, <2>5, <2>6
<1>6. CASE SaveStrategy
  <2>1. /\ pc = "code" /\ pc' = "learn"
        /\ run'.plan = run.plan /\ run'.tried = run.tried /\ run'.best = run.best
        /\ run'.previous = run.previous /\ run'.attempt = run.attempt /\ run'.fails = run.fails
    BY <1>0, <1>6, FieldsOfRun DEF SaveStrategy, Coding, Fields
  <2>2. Remembered(run', strategies')
    BY <1>0, <2>1 DEF Fresh, Remembered
  <2> QED
    BY <1>0, <2>1, <2>2 DEF Fresh
<1>7. CASE TryAgain
  <2>1. /\ pc = "route" /\ pc' = "code" /\ ~Passes /\ strategies' = strategies
        /\ run'.plan = run.plan /\ run'.tried = run.tried /\ run'.best = run.best
        /\ run'.previous = run.previous /\ run'.attempt = run.attempt + 1 /\ run'.fails = run.fails
    BY <1>0, <1>7, FieldsOfRun DEF TryAgain, disk, Fields
  <2>2. Remembered(run', strategies')
    BY <1>0, <2>1 DEF Fresh, Remembered
  <2>3. run'.fails = run'.attempt - 1
    BY <1>0, <2>1 DEF Fresh
  <2> QED
    BY <2>1, <2>2, <2>3 DEF Fresh
<1>8. CASE StructuralFails \/ OosFails
  <2>1. /\ pc' = "close"
        /\ \E why : run' = Abandoned(run, why) \/ run' = [Abandoned(run, why) EXCEPT !.oos = "fail_oos"]
    BY <1>8 DEF StructuralFails, OosFails
  <2>2. run'.feedback.of = run'.iter
    BY <1>0, <2>1, AbandonedHelper
  <2> QED
    BY <2>1, <2>2 DEF Fresh
<1>9. CASE StopWithoutOos \/ OosPasses \/ OosRaises
  <2>1. pc' = "close" /\ \E oos : run' = PassedWith(oos)
    BY <1>9 DEF StopWithoutOos, OosPasses, OosRaises
  <2>2. run'.outcome = "pass"
    BY <1>0, <2>1, PassedHelper
  <2> QED
    BY <2>1, <2>2 DEF Fresh
<1>10. CASE AttemptsExhausted
  <2>1. pc' = "close" /\ run' = run /\ run.outcome = "no_code_pass"
    BY <1>0, <1>10 DEF AttemptsExhausted, CurrentPlan
  <2> QED
    BY <2>1 DEF Fresh
<1>11. CASE StartSession
  <2>1. pc' = "plan" /\ run'.feedback.of = 0 /\ run'.iter = 1
    BY <1>11 DEF StartSession, Session0
  <2> QED
    BY <2>1 DEF Fresh
<1>12. CASE SavePlan \/ PlansExhausted \/ ClosePassed \/ GlobalUnreadable \/ FeedbackRaises \/ Crash
  <2>1. pc' \in {"review", "over", "raised", "down"}
    BY <1>12 DEF SavePlan, PlansExhausted, ClosePassed, GlobalUnreadable, FeedbackRaises, Crash
  <2> QED
    BY <2>1 DEF Fresh
<1>13. CASE AllSessionsOver
  BY <1>0, <1>13 DEF AllSessionsOver, vars, Fresh, Passes
<1> QED
  BY <1>1, <1>2, <1>3, <1>4, <1>5, <1>6, <1>7, <1>8, <1>9, <1>10, <1>11, <1>12, <1>13
     DEF Next, PlanLoop, CodeLoop

LEMMA FreshInvKept == FreshInv /\ [Next]_vars => FreshInv'
<1>1. FreshInv /\ Next => FreshInv'
  BY EvidenceKept, FreshKept DEF FreshInv
<1>2. FreshInv /\ UNCHANGED vars => Fresh'
  BY DEF FreshInv, vars, Fresh, Passes
<1> QED
  BY <1>1, <1>2, EvidenceKept DEF FreshInv

\* The planner is told about the iteration that has just failed, whichever way
\* it failed, and coding a plan starts from nothing: attempts, best result and
\* feedback of the inner loop are this plan's.
\* (run_spec_centric: previous_plan_feedback and the locals of the inner loop)
THEOREM BothLoopsStartFresh == Spec => []LoopsStartFresh
<1>1. FreshInv => LoopsStartFresh
  BY DEF FreshInv, Fresh, Remembered, LoopsStartFresh, Saved
<1> QED
  BY <1>1, FreshInit, FreshInvKept, PTL DEF Spec

-----------------------------------------------------------------------------
(* What a plan's file says of its strategies *)

\* Neither a structural failure nor a pass: another attempt may follow.
Harmless(s) == ~s.structural /\ s.verdict # "pass"
Alike(s, j) == s.net = j.net /\ s.verdict = j.verdict /\ s.structural = j.structural
NotBetter(s, best) == best.seen /\ s.net <= best.net

\* Place by place, what is on disk of the current plan: nothing before coding,
\* harmless strategies that were all learnt from at each attempt, and then the
\* one that was judged last.
Scored ==
  /\ pc = "review" => Saved(run.plan) = {}
  /\ pc = "code"  => \A s \in Saved(run.plan) : Harmless(s) /\ NotBetter(s, run.best)
  /\ pc = "learn" => /\ \E s \in Saved(run.plan) : Alike(s, run.judged)
                     /\ \A s \in Saved(run.plan) :
                          Alike(s, run.judged) \/ (Harmless(s) /\ NotBetter(s, run.best))
  /\ pc = "route" => /\ \E s \in Saved(run.plan) : Alike(s, run.judged)
                     /\ \A s \in Saved(run.plan) :
                          /\ Alike(s, run.judged) \/ Harmless(s)
                          /\ NotBetter(s, run.best)

ScoredInv == FreshInv /\ Scored /\ OutcomeMatchesStrategies

LEMMA ScoredInit == Init => ScoredInv
BY FreshInit DEF ScoredInv, Init, Scored, OutcomeMatchesStrategies

\* Coding a plan: a new plan has no strategy, and an attempt adds at most one.
LEMMA ScoredCoding ==
  ScoredInv /\ (SavePlan \/ StartCoding \/ Skip \/ Filtered \/ SaveStrategy \/ Learn \/ TryAgain)
    => Scored' /\ pc' # "close"
<1> SUFFICES ASSUME ScoredInv,
                    SavePlan \/ StartCoding \/ Skip \/ Filtered \/ SaveStrategy \/ Learn \/ TryAgain
             PROVE  Scored' /\ pc' # "close"
  OBVIOUS
<1>0. Base /\ PassedPlanHasStrategy /\ Scored /\ DOMAIN run = Fields
      /\ strategies \subseteq Strategy /\ run.best.net \in Int /\ run.judged \in Judgement
  BY FieldsOfRun DEF ScoredInv, FreshInv, Evidence, Base, Typed, Local
<1>1. CASE SavePlan
  <2>1. Planning /\ pc' = "review" /\ run'.plan = NewPlan /\ strategies' = strategies
    BY <1>0, <1>1 DEF SavePlan, Fields
  <2>2. plans[NewPlan] = NoRecord
    BY <1>0, <2>1, NewPlanIsNew
  <2>3. Saved(NewPlan) = {}
    BY <1>0, <2>2 DEF PassedPlanHasStrategy, Saved, NoRecord
  <2> QED
    BY <2>1, <2>3 DEF Scored, Saved
<1>2. CASE StartCoding
  <2>1. pc = "review" /\ pc' = "code" /\ run'.plan = run.plan /\ strategies' = strategies
    BY <1>0, <1>2, FreshHelper DEF StartCoding, disk
  <2> QED
    BY <1>0, <2>1 DEF Scored, Saved
<1>3. CASE Skip \/ Filtered
  <2>1. /\ pc = "code" /\ pc' = "code" /\ strategies' = strategies
        /\ run'.plan = run.plan /\ run'.best = run.best
    BY <1>0, <1>3 DEF Skip, Filtered, Coding, disk, Fields
  <2> QED
    BY <1>0, <2>1 DEF Scored, Saved
<1>4. CASE SaveStrategy
  <2>1. PICK j \in Judgements :
          /\ strategies' = strategies \cup {[plan |-> run.plan, attempt |-> run.attempt, net |-> j.net,
                                             verdict |-> j.verdict, structural |-> j.structural]}
          /\ run' = [run EXCEPT !.judged = j]
    BY <1>4 DEF SaveStrategy
  <2> DEFINE new == [plan |-> run.plan, attempt |-> run.attempt, net |-> j.net,
                     verdict |-> j.verdict, structural |-> j.structural]
  <2>2. new.plan = run.plan /\ Alike(new, j) /\ strategies' = strategies \cup {new}
    BY <2>1 DEF Alike
  <2> HIDE DEF new
  <2>3. pc = "code" /\ pc' = "learn" /\ run'.plan = run.plan /\ run'.judged = j /\ run'.best = run.best
    BY <1>0, <1>4, <2>1 DEF SaveStrategy, Coding, Fields
  <2>4. new \in Saved(run.plan)' /\ \A s \in Saved(run.plan)' : s = new \/ s \in Saved(run.plan)
    BY <2>2, <2>3 DEF Saved
  <2> QED
    BY <1>0, <2>2, <2>3, <2>4 DEF Scored
<1>5. CASE Learn
  <2>1. /\ pc = "learn" /\ pc' = "route" /\ strategies' = strategies
        /\ run'.plan = run.plan /\ run'.judged = run.judged
        /\ run'.best = IF ~run.best.seen \/ run.judged.net > run.best.net
                       THEN [seen |-> TRUE, net |-> run.judged.net] ELSE run.best
    BY <1>0, <1>5 DEF Learn, Learnt, Fields
  <2>2. \A s \in Saved(run.plan) : s.net \in Int /\ run.judged.net \in Int
    BY <1>0 DEF Saved, Strategy, Judgement
  <2>3. Saved(run.plan)' = Saved(run.plan)
    BY <2>1 DEF Saved
  <2>4. ASSUME NEW s \in Saved(run.plan)
        PROVE  (Alike(s, run.judged) \/ Harmless(s)) /\ NotBetter(s, run'.best)
    BY <1>0, <2>1, <2>2, <2>4 DEF Scored, Alike, NotBetter
  <2> QED
    BY <1>0, <2>1, <2>3, <2>4 DEF Scored
<1>6. CASE TryAgain
  <2>1. /\ pc = "route" /\ pc' = "code" /\ strategies' = strategies
        /\ run'.plan = run.plan /\ run'.best = run.best
        /\ ~run.judged.structural /\ run.judged.verdict # "pass"
    BY <1>0, <1>6 DEF TryAgain, Passes, disk, Fields
  <2> QED
    BY <1>0, <2>1 DEF Scored, Saved, Alike, Harmless
<1> QED
  BY <1>1, <1>2, <1>3, <1>4, <1>5, <1>6

\* Leaving the attempts: the record that is written is about what is on disk.
LEMMA ScoredClosing ==
  ScoredInv /\ (StructuralFails \/ StopWithoutOos \/ OosPasses \/ OosFails \/ OosRaises \/ AttemptsExhausted)
    => pc' = "close" /\ OutcomeMatchesStrategies'
<1> SUFFICES ASSUME ScoredInv,
                    StructuralFails \/ StopWithoutOos \/ OosPasses \/ OosFails \/ OosRaises
                      \/ AttemptsExhausted
             PROVE  pc' = "close" /\ OutcomeMatchesStrategies'
  OBVIOUS
<1>0. /\ Base /\ Fresh /\ Scored /\ DOMAIN run = Fields
      /\ strategies \subseteq Strategy /\ run.best.net \in Int
      /\ plans \in [Plan -> PlanRecord]
      /\ strategies' = strategies
  BY FieldsOfRun DEF ScoredInv, FreshInv, Evidence, Base, Typed, Local, StructuralFails, StopWithoutOos,
     OosPasses, OosFails, OosRaises, AttemptsExhausted, disk
<1> DEFINE failed == \E s \in Saved(run.plan) : s.structural \/ s.verdict = "pass"
<1>1. ASSUME run'.plan = run.plan
      PROVE  Saved(run.plan)' = Saved(run.plan)
  BY <1>0, <1>1 DEF Saved
<1>2. CASE AttemptsExhausted
  <2>1. pc = "code" /\ pc' = "close" /\ run' = run /\ run.outcome = "no_code_pass"
    BY <1>0, <1>2 DEF AttemptsExhausted, Base, CurrentPlan
  <2>2. ~failed
    BY <1>0, <2>1 DEF Scored, Harmless
  <2> QED
    BY <1>1, <2>1, <2>2 DEF OutcomeMatchesStrategies
<1>3. CASE StopWithoutOos \/ OosPasses \/ OosRaises
  <2>1. /\ pc = "route" /\ pc' = "close" /\ run.judged.verdict = "pass"
        /\ \E oos : run' = PassedWith(oos)
    BY <1>3 DEF StopWithoutOos, OosPasses, OosRaises, Passes
  <2>2. run'.plan = run.plan /\ run'.outcome = "pass"
    BY <1>0, <2>1, PassedHelper
  <2>3. failed
    BY <1>0, <2>1 DEF Scored, Alike
  <2> QED
    BY <1>1, <2>1, <2>2, <2>3 DEF OutcomeMatchesStrategies
<1>4. CASE StructuralFails \/ OosFails
  <2>1. /\ pc = "route" /\ pc' = "close"
        /\ run.judged.structural \/ run.judged.verdict = "pass"
        /\ \E why : run' = Abandoned(run, why) \/ run' = [Abandoned(run, why) EXCEPT !.oos = "fail_oos"]
        /\ plans' = [plans EXCEPT ![run.plan] = Record("structural_fail", BestNet)]
    BY <1>4 DEF StructuralFails, OosFails, Passes, UpdatePlan
  <2>2. run'.plan = run.plan /\ run'.outcome = "structural_fail"
    BY <1>0, <2>1, AbandonedHelper
  <2>3. failed
    BY <1>0, <2>1 DEF Scored, Alike
  <2>4. plans'[run.plan] = [outcome |-> "structural_fail", net |-> BestNet]
    BY <1>0, <2>1 DEF Base, CurrentPlan, OfPlan, Record
  <2>5. \A s \in Saved(run.plan) : s.net \in Int /\ s.net <= run.best.net
    BY <1>0, <2>1 DEF Scored, NotBetter, Saved, Strategy
  <2>6. \A s \in Saved(run.plan) : s.net <= BestNet
    BY <1>0, <2>1, <2>5 DEF BestNet, Scored, NotBetter
  <2>7. BestNet = 0 \/ \E s \in Saved(run.plan) : s.net = BestNet
    <3>1. run.best.seen => \E s \in Saved(run.plan) : s.net = run.best.net
      BY <1>0, <2>1 DEF Fresh, Remembered, Saved
    <3> QED
      BY <3>1 DEF BestNet
  <2> QED
    BY <1>1, <2>1, <2>2, <2>3, <2>4, <2>6, <2>7 DEF OutcomeMatchesStrategies
<1> QED
  BY <1>2, <1>3, <1>4

LEMMA ScoredKept == ScoredInv /\ [Next]_vars => ScoredInv'
<1> SUFFICES ASSUME ScoredInv, [Next]_vars PROVE ScoredInv'
  OBVIOUS
<1>1. FreshInv'
  BY FreshInvKept DEF ScoredInv
<1>2. CASE SavePlan \/ StartCoding \/ Skip \/ Filtered \/ SaveStrategy \/ Learn \/ TryAgain
  BY <1>1, <1>2, ScoredCoding DEF ScoredInv, OutcomeMatchesStrategies
<1>3. CASE StructuralFails \/ StopWithoutOos \/ OosPasses \/ OosFails \/ OosRaises \/ AttemptsExhausted
  BY <1>1, <1>3, ScoredClosing DEF ScoredInv, Scored
<1>4. CASE PlannerFails \/ SpecInvalid \/ PrecodeRejected \/ PlansExhausted \/ ClosePassed \/ CloseUnpassed
           \/ CloseAbandoned \/ GlobalUnreadable \/ FeedbackRaises \/ Crash \/ StartSession
  <2>1. pc' \in {"plan", "over", "raised", "down"}
    BY <1>4 DEF PlannerFails, SpecInvalid, PrecodeRejected, PlansExhausted, ClosePassed, CloseUnpassed,
       CloseAbandoned, GlobalUnreadable, FeedbackRaises, Crash, StartSession, Planning
  <2> QED
    BY <1>1, <2>1 DEF ScoredInv, Scored, OutcomeMatchesStrategies
<1>5. CASE UNCHANGED vars
  BY <1>1, <1>5 DEF vars, ScoredInv, Scored, OutcomeMatchesStrategies, Saved
<1> QED
  BY <1>2, <1>3, <1>4, <1>5 DEF Next, PlanLoop, CodeLoop, AllSessionsOver

\* When the loop leaves a plan, its file tells what happened to it: it failed
\* structurally exactly if a strategy of it did, in or out of sample, and the net
\* P&L recorded is the best of its own strategies.
\* (run_spec_centric: plan_outcome, best_net_pnl_for_plan, update_plan_outcome)
THEOREM OutcomeAlwaysMatches == Spec => []OutcomeMatchesStrategies
<1>1. ScoredInv => OutcomeMatchesStrategies
  BY DEF ScoredInv
<1> QED
  BY <1>1, ScoredInit, ScoredKept, PTL DEF Spec

-----------------------------------------------------------------------------
(* The review of a plan, for every plan *)

LEMMA RoundedAtLeast ==
  ASSUME NEW a \in Int, NEW b \in Nat \ {0}, NEW k \in Int, a >= k * b
  PROVE  Rounded(a, b) \in Int /\ Rounded(a, b) >= k
<1> DEFINE q == a \div b
<1>1. q \in Int /\ q >= k
  <2>1. a = b * q + (a % b) /\ a % b \in Nat /\ a % b < b /\ q \in Int
    BY SMT
  <2> HIDE DEF q
  <2>2. b * (q + 1) > a
    BY <2>1
  <2>3. CASE q + 1 <= k
    <3>1. b * (q + 1) <= b * k
      BY <2>1, <2>3
    <3>2. b * k = k * b
      OBVIOUS
    <3> QED
      BY <2>1, <2>2, <3>1, <3>2
  <2> QED
    BY <2>1, <2>3
<1>2. Rounded(a, b) = q \/ Rounded(a, b) = q + 1
  BY DEF Rounded
<1> HIDE DEF q
<1> QED
  BY <1>1, <1>2

\* A plan as the loop reads it: any conditions, parameters and derived features.
IsPlan(s) ==
  \E X : s \in [current : BOOLEAN, archetype : {None} \cup Nat, entry : Seq(X), exit : Seq(X), exitTicks : Int,
                params : Seq(X), derived : Seq(X), used : SUBSET X]

\* A name stands for one element of a list.
LEMMA NameIsKey ==
  ASSUME NEW seq, NamesAreUnique(seq), NEW d \in ToSet(seq), NEW e \in ToSet(seq), d.name = e.name
  PROVE  d = e
BY DEF NamesAreUnique, ToSet

\* What a condition comes down to, when it is known.
LEMMA MeaningIsOne ==
  ASSUME NEW s, IsValid(s), NEW c \in Conditions(s)
  PROVE  \E m : Meanings(s, c) = {m} /\ m \subseteq Effective(s) \cap Builtin
<1>1. SourceIsKnown(s, c) /\ DerivedAreSound(s)
  BY DEF IsValid
<1>2. CASE c.kind = "feature" /\ c.source \in Builtin
  <2>1. Meanings(s, c) = {{c.source}}
    BY <1>2 DEF Meanings
  <2>2. c.source \in SourcesOf(s, "feature")
    BY <1>2 DEF SourcesOf
  <2>3. {c.source} \subseteq Effective(s) \cap Builtin
    BY <1>2, <2>2 DEF Effective
  <2> QED
    BY <2>1, <2>3
<1>3. CASE c.kind = "derived_feature" /\ c.source \in DerivedNames(s)
  <2>1. PICK d \in ToSet(s.derived) : c.source = d.name
    BY <1>3 DEF DerivedNames
  <2>2. \A e \in ToSet(s.derived) : e.name = c.source <=> e = d
    BY <1>1, <2>1, NameIsKey DEF DerivedAreSound
  <2>3. {d.inputs} = {f.inputs : f \in {e \in ToSet(s.derived) : e.name = c.source}}
    BY <2>1, <2>2
  <2>4. Meanings(s, c) = {d.inputs}
    BY <1>3, <2>3 DEF Meanings
  <2>5. c.source \in SourcesOf(s, "derived_feature")
    BY <1>3 DEF SourcesOf
  <2>6. d.inputs \subseteq Effective(s)
    BY <2>1, <2>5 DEF Effective, InputsOf
  <2>7. d.inputs \subseteq Builtin
    BY <1>1, <2>1 DEF DerivedAreSound
  <2> QED
    BY <2>4, <2>6, <2>7
<1> QED
  BY <1>1, <1>2, <1>3 DEF SourceIsKnown

LEMMA FeatureIsKnown ==
  ASSUME NEW s, IsValid(s)
  PROVE  SourcesOf(s, "feature") \subseteq Builtin /\ InputsOf(ToSet(s.derived)) \subseteq Builtin
<1>1. SourcesOf(s, "feature") \subseteq Builtin
  <2>1. \A c \in Conditions(s) : SourceIsKnown(s, c)
    BY DEF IsValid
  <2> QED
    BY <2>1 DEF SourcesOf, SourceIsKnown
<1>2. InputsOf(ToSet(s.derived)) \subseteq Builtin
  <2>1. \A d \in ToSet(s.derived) : d.inputs \subseteq Builtin
    BY DEF IsValid, DerivedAreSound
  <2> QED
    BY <2>1 DEF InputsOf
<1> QED
  BY <1>1, <1>2

LEMMA EffectiveIsKnown ==
  ASSUME NEW s, IsValid(s)
  PROVE  Effective(s) \subseteq Builtin
<1>1. InputsOf({d \in ToSet(s.derived) : d.name \in SourcesOf(s, "derived_feature")})
        \subseteq InputsOf(ToSet(s.derived))
  BY DEF InputsOf
<1> QED
  BY <1>1, FeatureIsKnown DEF Effective

\* The effective features are what the conditions come down to.
LEMMA EffectiveIsMeant ==
  ASSUME NEW s, IsValid(s)
  PROVE  Effective(s) = UNION UNION {Meanings(s, c) : c \in Conditions(s)}
<1>1. ASSUME NEW x \in Effective(s)
      PROVE  \E c \in Conditions(s) : \E m \in Meanings(s, c) : x \in m
  <2>1. CASE x \in SourcesOf(s, "feature")
    <3>1. PICK c \in Conditions(s) : c.kind = "feature" /\ c.source = x
      BY <2>1 DEF SourcesOf
    <3>2. {x} \in Meanings(s, c)
      BY <3>1 DEF Meanings
    <3> QED
      BY <3>1, <3>2
  <2>2. CASE x \in InputsOf({d \in ToSet(s.derived) : d.name \in SourcesOf(s, "derived_feature")})
    <3>1. PICK d \in ToSet(s.derived) : d.name \in SourcesOf(s, "derived_feature") /\ x \in d.inputs
      BY <2>2 DEF InputsOf
    <3>2. PICK c \in Conditions(s) : c.kind = "derived_feature" /\ c.source = d.name
      BY <3>1 DEF SourcesOf
    <3>3. d.inputs \in Meanings(s, c)
      BY <3>1, <3>2 DEF Meanings
    <3> QED
      BY <3>1, <3>2, <3>3
  <2> QED
    BY <2>1, <2>2 DEF Effective
<1>2. \A c \in Conditions(s) : \A m \in Meanings(s, c) : m \subseteq Effective(s)
  BY MeaningIsOne
<1> QED
  BY <1>1, <1>2

LEMMA PlanIsDefinite ==
  ASSUME NEW s, IsValid(s)
  PROVE  IsDefinite(s)
<1>1. ASSUME NEW c \in Conditions(s)
      PROVE  Cardinality(Meanings(s, c)) = 1 /\ UNION Meanings(s, c) \subseteq Effective(s) \cap Builtin
  <2>1. PICK m : Meanings(s, c) = {m} /\ m \subseteq Effective(s) \cap Builtin
    BY MeaningIsOne
  <2>2. Cardinality({m}) = 1
    BY FS_Singleton
  <2> QED
    BY <2>1, <2>2
<1>2. ASSUME NEW c \in Conditions(s), s.current
      PROVE  Cardinality({k \in DOMAIN s.params : s.params[k].name = c.param}) = 1
  <2>1. c.param \in {p.name : p \in ToSet(s.params)} /\ NamesAreUnique(s.params)
    BY <1>2 DEF IsValid, IsLinked
  <2>2. PICK k \in DOMAIN s.params : s.params[k].name = c.param
    BY <2>1 DEF ToSet
  <2>3. {i \in DOMAIN s.params : s.params[i].name = c.param} = {k}
    BY <2>1, <2>2 DEF NamesAreUnique
  <2>4. Cardinality({k}) = 1
    BY FS_Singleton
  <2> QED
    BY <2>3, <2>4
<1>3. AllReferenced(s) \subseteq Builtin
  <2>1. s.used \subseteq Builtin
    BY DEF IsValid
  <2> QED
    BY <2>1, FeatureIsKnown DEF AllReferenced
<1> QED
  BY <1>1, <1>2, <1>3, EffectiveIsMeant DEF IsDefinite

LEMMA BothFinite ==
  ASSUME NEW S, NEW T, IsFiniteSet(S), IsFiniteSet(T)
  PROVE  IsFiniteSet(S \cup T)
BY FS_Union

\* A set that is written down, of at most five elements.
IsListed(S) == \E a, b, c, d, e : S = {a, b, c, d, e}

LEMMA ListedIsFinite ==
  ASSUME NEW S, IsListed(S)
  PROVE  IsFiniteSet(S) /\ Cardinality(S) \in Nat \ {0}
<1> PICK a, b, c, d, e : S = {a, b, c, d, e}
  BY DEF IsListed
<1>1. {a, b, c, d, e} = (({a} \cup {b}) \cup ({c} \cup {d})) \cup {e}
  OBVIOUS
<1>2. IsFiniteSet({a} \cup {b}) /\ IsFiniteSet({c} \cup {d}) /\ IsFiniteSet({e})
  BY FS_Singleton, BothFinite
<1>3. IsFiniteSet(({a} \cup {b}) \cup ({c} \cup {d}))
  BY <1>2, BothFinite
<1>4. IsFiniteSet({a, b, c, d, e})
  BY <1>1, <1>2, <1>3, BothFinite
<1>5. {a, b, c, d, e} # {}
  OBVIOUS
<1> QED
  BY <1>4, <1>5, FS_CardinalityType, FS_EmptySet

LEMMA CanonicalIsFinite ==
  /\ DOMAIN Canonical = 1 .. 4
  /\ \A a \in DOMAIN Canonical : IsFiniteSet(Canonical[a]) /\ Cardinality(Canonical[a]) \in Nat \ {0}
<1>1. DOMAIN Canonical = 1 .. 4
  BY DEF Canonical
<1>2. ASSUME NEW a \in 1 .. 4
      PROVE  IsFiniteSet(Canonical[a]) /\ Cardinality(Canonical[a]) \in Nat \ {0}
  <2>1. IsListed(Canonical[1])
    BY Zenon DEF Canonical, IsListed
  <2>2. IsListed(Canonical[2])
    BY Zenon DEF Canonical, IsListed
  <2>3. IsListed(Canonical[3])
    BY Zenon DEF Canonical, IsListed
  <2>4. IsListed(Canonical[4])
    BY Zenon DEF Canonical, IsListed
  <2>5. a = 1 \/ a = 2 \/ a = 3 \/ a = 4
    OBVIOUS
  <2>6. IsListed(Canonical[a])
    BY <2>1, <2>2, <2>3, <2>4, <2>5
  <2> QED
    BY <2>6, ListedIsFinite
<1> QED
  BY <1>1, <1>2

LEMMA BuiltinIsFinite == IsFiniteSet(Builtin)
<1>1. UNION ToSet(Canonical) = ((Canonical[1] \cup Canonical[2]) \cup Canonical[3]) \cup Canonical[4]
  BY CanonicalIsFinite DEF ToSet
<1>2. \A a \in 1 .. 4 : IsFiniteSet(Canonical[a])
  BY CanonicalIsFinite
<1>3. IsFiniteSet(Canonical[1] \cup Canonical[2])
  BY <1>2, BothFinite
<1>4. IsFiniteSet((Canonical[1] \cup Canonical[2]) \cup Canonical[3])
  BY <1>2, <1>3, BothFinite
<1>5. IsFiniteSet(UNION ToSet(Canonical))
  BY <1>1, <1>2, <1>4, BothFinite
<1>6. IsFiniteSet(CostFeatures)
  <2>1. CostFeatures = {"spread_bps", "spread_bps_ema", "price_impact_buy_bps", "price_impact_sell_bps",
                        "price_impact_sell_bps"}
    BY DEF CostFeatures
  <2> QED
    BY <2>1, ListedIsFinite DEF IsListed
<1>7. IsFiniteSet({"mid_price"})
  BY FS_Singleton
<1> DEFINE S == CostFeatures
           T == {"mid_price"}
           U == UNION ToSet(Canonical)
<1>8. Builtin = (S \cup T) \cup U
  BY Zenon DEF Builtin
<1>9. IsFiniteSet(S) /\ IsFiniteSet(T) /\ IsFiniteSet(U)
  BY <1>5, <1>6, <1>7
<1> HIDE DEF S, T, U
<1>10. IsFiniteSet(S \cup T)
  BY <1>9, BothFinite
<1> QED
  BY <1>8, <1>9, <1>10, BothFinite

\* A score: a fraction that is not negative.
Score == {f \in Fraction : f.num >= 0}

LEMMA RatioIsScore ==
  ASSUME NEW i \in Nat, NEW k \in Nat \ {0}
  PROVE  Ratio(i, k) \in Score /\ Ratio(i, k).num = i /\ Ratio(i, k).den = k
BY DEF Ratio, Score, Fraction

LEMMA HalvesScore ==
  ASSUME NEW a \in BOOLEAN, NEW b \in BOOLEAN
  PROVE  Halves(a, b) \in Score /\ (IsOne(Halves(a, b)) <=> a /\ b)
BY DEF Halves, Ratio, Score, Fraction, IsOne

\* The features a valid plan uses are all known, so the first score is full.
LEMMA FeaturesScore ==
  ASSUME NEW s, IsValid(s)
  PROVE  FeatureValidity(s) \in Score /\ (IsOne(FeatureValidity(s)) <=> Effective(s) # {})
<1> DEFINE E == Effective(s)
<1>1. E \subseteq Builtin
  BY EffectiveIsKnown
<1>2. IsFiniteSet(E) /\ Cardinality(E) \in Nat /\ (E # {} => Cardinality(E) # 0)
  BY <1>1, BuiltinIsFinite, FS_Subset, FS_CardinalityType, FS_EmptySet
<1>3. E \cap Builtin = E
  BY <1>1
<1>4. CASE E = {}
  <2>1. FeatureValidity(s) = Whole(0)
    BY <1>4 DEF FeatureValidity
  <2> QED
    BY <1>4, <2>1 DEF Whole, Score, Fraction, IsOne
<1>5. CASE E # {}
  <2>1. FeatureValidity(s) = Ratio(Cardinality(E), Cardinality(E))
    BY <1>3, <1>5 DEF FeatureValidity
  <2> QED
    BY <1>2, <1>5, <2>1, RatioIsScore DEF IsOne
<1> QED
  BY <1>4, <1>5

LEMMA AlignmentScore ==
  ASSUME NEW s, IsValid(s)
  PROVE  ArchetypeAlignment(s) \in Score
<1>1. CASE s.archetype \notin DOMAIN Canonical
  BY <1>1, RatioIsScore DEF ArchetypeAlignment
<1>2. CASE s.archetype \in DOMAIN Canonical
  <2> DEFINE C == Canonical[s.archetype]
  <2>1. IsFiniteSet(C) /\ Cardinality(C) \in Nat \ {0}
    BY <1>2, CanonicalIsFinite
  <2>2. Cardinality(Effective(s) \cap C) \in Nat
    BY <2>1, FS_Subset, FS_CardinalityType
  <2>3. ArchetypeAlignment(s) = Ratio(Cardinality(Effective(s) \cap C), Cardinality(C))
    BY <1>2 DEF ArchetypeAlignment
  <2> HIDE DEF C
  <2> QED
    BY <2>1, <2>2, <2>3, RatioIsScore
<1> QED
  BY <1>1, <1>2

LEMMA ParametersScore ==
  ASSUME NEW s, IsPlan(s)
  PROVE  /\ ParamOptunability(s) \in Score
         /\ IsOne(ParamOptunability(s)) <=>
              s.params # << >> /\ \A p \in ToSet(s.params) : p.upper /\ p.ordered
<1>1. PICK X : s.params \in Seq(X)
  BY DEF IsPlan
<1> DEFINE n == Len(s.params)
           K == {k \in DOMAIN s.params : s.params[k].upper /\ s.params[k].ordered}
<1>2. n \in Nat /\ DOMAIN s.params = 1 .. n /\ (s.params # << >> => n # 0)
  BY <1>1, LenProperties, EmptySeq
<1>3. IsFiniteSet(1 .. n) /\ Cardinality(1 .. n) = n
  BY <1>2, FS_Interval
<1>4. K \subseteq 1 .. n
  BY <1>2
<1>5. Cardinality(K) \in Nat /\ (Cardinality(K) = n <=> K = 1 .. n)
  BY <1>3, <1>4, FS_Subset, FS_CardinalityType
<1>6. K = 1 .. n <=> \A p \in ToSet(s.params) : p.upper /\ p.ordered
  BY <1>2 DEF ToSet
<1>7. CASE s.params = << >>
  <2>1. ParamOptunability(s) = Ratio(1, 2)
    BY <1>7 DEF ParamOptunability
  <2> QED
    BY <1>7, <2>1, RatioIsScore DEF IsOne
<1>8. CASE s.params # << >>
  <2>1. ParamOptunability(s) = Ratio(Cardinality(K), n)
    BY <1>8 DEF ParamOptunability
  <2> HIDE DEF K, n
  <2> QED
    BY <1>2, <1>5, <1>6, <1>8, <2>1, RatioIsScore DEF IsOne
<1> QED
  BY <1>7, <1>8

\* A full score means there is nothing to warn of.
LEMMA PlanScoresMatch ==
  ASSUME NEW s, IsPlan(s), IsValid(s)
  PROVE  ScoresMatchWarnings(s)
<1>1. IsOne(FeatureValidity(s)) <=> Effective(s) # {}
  BY FeaturesScore
<1>2. IsOne(ExitCompleteness(s)) <=> Warnings(s) \cap {ShortExit, NoSignalExit} = {}
  <2>1. s.exitTicks \in Int /\ s.exitTicks > 0
    BY DEF IsPlan, IsValid
  <2>2. IsOne(ExitCompleteness(s)) <=> s.exitTicks >= 5 /\ s.exit # << >>
    <3>1. (s.exitTicks >= 5) \in BOOLEAN /\ (s.exit # << >>) \in BOOLEAN
      OBVIOUS
    <3> QED
      BY <3>1, HalvesScore, Zenon DEF ExitCompleteness
  <2>3. /\ ShortExit \in Warnings(s) <=> s.exitTicks \in 1 .. 4
        /\ NoSignalExit \in Warnings(s) <=> s.exit = << >>
    BY DEF Warnings, ShortExit, NoSignalExit, LowerCase, EmptyRange, Unlinked
  <2> QED
    BY <2>1, <2>2, <2>3
<1>3. IsOne(ParamOptunability(s)) <=> s.params # << >> /\ Warnings(s) \cap {LowerCase, EmptyRange} = {}
  <2>1. /\ LowerCase \in Warnings(s) <=> \E p \in ToSet(s.params) : ~p.upper
        /\ EmptyRange \in Warnings(s) <=> \E p \in ToSet(s.params) : ~p.ordered
    BY DEF Warnings, ShortExit, NoSignalExit, LowerCase, EmptyRange, Unlinked
  <2> QED
    BY <2>1, ParametersScore
<1> QED
  BY <1>1, <1>2, <1>3 DEF ScoresMatchWarnings

\* What remains of the declarations when those no condition uses are left out.
LEMMA TrimmedDeclares ==
  ASSUME NEW s, IsPlan(s), NamesAreUnique(s.derived)
  PROVE  /\ ToSet(Trimmed(s).derived) = {d \in ToSet(s.derived) : d.name \in SourcesOf(s, "derived_feature")}
         /\ NamesAreUnique(Trimmed(s).derived)
<1>1. PICK X : s \in [current : BOOLEAN, archetype : {None} \cup Nat, entry : Seq(X), exit : Seq(X), exitTicks : Int,
                      params : Seq(X), derived : Seq(X), used : SUBSET X]
  BY DEF IsPlan
<1> DEFINE whole == s.derived
           used  == SourcesOf(s, "derived_feature")
           kept  == {i \in DOMAIN whole : whole[i].name \in used}
           some  == At(whole, kept)
<1>2. whole \in Seq(X) /\ Trimmed(s).derived = some
  BY <1>1 DEF Trimmed
<1>3. some \in Seq(X)
  BY <1>2, AtTyped
<1>4. DOMAIN whole = 1 .. Len(whole) /\ DOMAIN some = 1 .. Len(some) /\ Len(whole) \in Nat /\ Len(some) \in Nat
  BY <1>2, <1>3, LenProperties
<1>5. PICK place : Places(whole, Len(whole), kept, some, place)
  BY <1>2, AtPlaces
<1> HIDE DEF some, used
<1>6. ToSet(some) = {d \in ToSet(whole) : d.name \in used}
  <2>1. ASSUME NEW k \in 1 .. Len(some)
        PROVE  some[k] \in ToSet(whole) /\ some[k].name \in used
    <3>1. place[k] \in kept /\ some[k] = whole[place[k]]
      BY <1>5 DEF Places
    <3> QED
      BY <3>1 DEF ToSet
  <2>2. ASSUME NEW i \in 1 .. Len(whole), whole[i].name \in used
        PROVE  whole[i] \in ToSet(some)
    <3>1. i \in kept
      BY <1>4, <2>2
    <3>2. PICK k \in 1 .. Len(some) : place[k] = i
      BY <1>5, <3>1 DEF Places
    <3>3. some[k] = whole[i]
      BY <1>5, <3>2 DEF Places
    <3> QED
      BY <1>4, <3>3 DEF ToSet
  <2> QED
    BY <1>4, <2>1, <2>2 DEF ToSet
<1>7. NamesAreUnique(some)
  <2> SUFFICES ASSUME NEW i \in 1 .. Len(some), NEW k \in 1 .. Len(some), some[i].name = some[k].name
               PROVE  i = k
    BY <1>4 DEF NamesAreUnique
  <2>1. /\ place[i] \in 1 .. Len(whole) /\ some[i] = whole[place[i]]
        /\ place[k] \in 1 .. Len(whole) /\ some[k] = whole[place[k]]
    BY <1>5 DEF Places
  <2>2. place[i] = place[k]
    BY <1>4, <2>1 DEF NamesAreUnique
  <2>3. /\ i < k => place[i] < place[k]
        /\ k < i => place[k] < place[i]
    BY <1>5 DEF Places
  <2> QED
    BY <1>4, <2>1, <2>2, <2>3
<1> QED
  BY <1>2, <1>6, <1>7 DEF used

\* Everything else of the plan is as it was.
LEMMA TrimmedKeeps ==
  ASSUME NEW s, IsPlan(s)
  PROVE  /\ Trimmed(s).entry = s.entry /\ Trimmed(s).exit = s.exit /\ Trimmed(s).params = s.params
         /\ Trimmed(s).exitTicks = s.exitTicks /\ Trimmed(s).archetype = s.archetype
         /\ Trimmed(s).current = s.current /\ Trimmed(s).used = {}
         /\ Conditions(Trimmed(s)) = Conditions(s)
         /\ \A kind : SourcesOf(Trimmed(s), kind) = SourcesOf(s, kind)
<1>1. PICK X : s \in [current : BOOLEAN, archetype : {None} \cup Nat, entry : Seq(X), exit : Seq(X), exitTicks : Int,
                      params : Seq(X), derived : Seq(X), used : SUBSET X]
  BY DEF IsPlan
<1> DEFINE t == Trimmed(s)
<1>2. /\ t.entry = s.entry /\ t.exit = s.exit /\ t.params = s.params
      /\ t.exitTicks = s.exitTicks /\ t.archetype = s.archetype /\ t.current = s.current /\ t.used = {}
  BY <1>1 DEF Trimmed
<1> HIDE DEF t
<1>3. Conditions(t) = Conditions(s)
  BY <1>2 DEF Conditions
<1>4. \A kind : SourcesOf(t, kind) = SourcesOf(s, kind)
  BY <1>3 DEF SourcesOf
<1> QED
  BY <1>2, <1>3, <1>4 DEF t

\* Declarations that no condition uses change neither the review nor the scores.
LEMMA PlanCountsConditions ==
  ASSUME NEW s, IsPlan(s), IsValid(s)
  PROVE  OnlyConditionsCount(s)
<1> DEFINE t == Trimmed(s)
           used == SourcesOf(s, "derived_feature")
<1>1. DerivedAreSound(s) /\ NamesAreUnique(s.derived)
  BY DEF IsValid, DerivedAreSound
<1>2. ToSet(t.derived) = {d \in ToSet(s.derived) : d.name \in used} /\ NamesAreUnique(t.derived)
  BY <1>1, TrimmedDeclares
<1>3. /\ t.entry = s.entry /\ t.exit = s.exit /\ t.params = s.params
      /\ t.exitTicks = s.exitTicks /\ t.archetype = s.archetype /\ t.current = s.current /\ t.used = {}
  BY TrimmedKeeps
<1>4. Conditions(t) = Conditions(s)
  BY TrimmedKeeps
<1>5. SourcesOf(t, "feature") = SourcesOf(s, "feature") /\ SourcesOf(t, "derived_feature") = used
  BY TrimmedKeeps
<1> HIDE DEF t
<1>6. DerivedAreSound(t)
  BY <1>1, <1>2 DEF DerivedAreSound
<1>7. ASSUME NEW c \in Conditions(s)
      PROVE  c.op \in Operators /\ SourceIsKnown(t, c) /\ IsLinked(t, c)
  <2>1. c.op \in Operators /\ SourceIsKnown(s, c) /\ IsLinked(s, c)
    BY DEF IsValid
  <2>2. IsLinked(t, c)
    BY <1>3, <2>1 DEF IsLinked
  <2>3. c.kind = "derived_feature" /\ c.source \in DerivedNames(s) => c.source \in DerivedNames(t)
    <3> SUFFICES ASSUME c.kind = "derived_feature", c.source \in DerivedNames(s)
                 PROVE  c.source \in DerivedNames(t)
      OBVIOUS
    <3>1. c.source \in used
      BY DEF SourcesOf
    <3>2. PICK d \in ToSet(s.derived) : d.name = c.source
      BY DEF DerivedNames
    <3> QED
      BY <1>2, <3>1, <3>2 DEF DerivedNames
  <2> QED
    BY <2>1, <2>2, <2>3 DEF SourceIsKnown
<1>8. IsValid(t)
  BY <1>3, <1>4, <1>6, <1>7 DEF IsValid
<1>9. Effective(t) = Effective(s)
  <2>1. {d \in ToSet(t.derived) : d.name \in used} = {d \in ToSet(s.derived) : d.name \in used}
    BY <1>2
  <2> QED
    BY <1>5, <2>1 DEF Effective
<1>10. Scores(t) = Scores(s)
  <2>1. FeatureValidity(t) = FeatureValidity(s)
    BY <1>9, Zenon DEF FeatureValidity
  <2>2. EconomicPlausibility(t) = EconomicPlausibility(s)
    BY <1>3, <1>9, Zenon DEF EconomicPlausibility
  <2>3. ExitCompleteness(t) = ExitCompleteness(s)
    BY <1>3, Zenon DEF ExitCompleteness
  <2>4. ParamOptunability(t) = ParamOptunability(s)
    BY <1>3, Zenon DEF ParamOptunability
  <2>5. ArchetypeAlignment(t) = ArchetypeAlignment(s)
    BY <1>3, <1>9, Zenon DEF ArchetypeAlignment
  <2> QED
    BY <2>1, <2>2, <2>3, <2>4, <2>5, Zenon DEF Scores
<1> QED
  BY <1>8, <1>10 DEF OnlyConditionsCount, t

\* A fraction of at least k.
AtLeast(f, k) == f.num >= k * f.den

LEMMA AtLeastPlus ==
  ASSUME NEW f \in Fraction, NEW g \in Fraction, NEW i \in Nat, NEW k \in Nat, AtLeast(f, i), AtLeast(g, k)
  PROVE  AtLeast(f ++ g, i + k)
<1> DEFINE a == f.num
           b == f.den
           c == g.num
           d == g.den
<1>1. a \in Int /\ b \in Nat \ {0} /\ c \in Int /\ d \in Nat \ {0} /\ a >= i * b /\ c >= k * d
  BY DEF Fraction, AtLeast
<1>2. CASE b = d
  <2>1. (f ++ g).num = a + c /\ (f ++ g).den = b
    BY <1>2 DEF ++, Fraction
  <2>2. (i + k) * b = i * b + k * b
    BY <1>1
  <2> HIDE DEF a, b, c, d
  <2> QED
    BY <1>1, <1>2, <2>1, <2>2 DEF AtLeast
<1>3. CASE b # d
  <2>1. (f ++ g).num = a * d + c * b /\ (f ++ g).den = b * d
    BY <1>3 DEF ++, Fraction
  <2> HIDE DEF a, b, c, d
  <2>2. a * d >= (i * b) * d
    BY <1>1
  <2>3. c * b >= (k * d) * b
    BY <1>1
  <2>4. (i + k) * (b * d) = (i * b) * d + (k * d) * b
    BY <1>1
  <2>5. a * d + c * b >= (i + k) * (b * d)
    BY <1>1, <2>2, <2>3, <2>4
  <2> QED
    BY <2>1, <2>5 DEF AtLeast
<1> QED
  BY <1>2, <1>3

\* A clean current plan that uses some feature has three full scores of five.
LEMMA CleanIsEnough ==
  ASSUME NEW s, IsPlan(s), IsValid(s), s.current, Effective(s) # {}, Warnings(s) = {}
  PROVE  Overall(s) \in Fraction /\ AtLeast(Times(5, Overall(s)), 3)
<1> DEFINE v == FeatureValidity(s)
           e == EconomicPlausibility(s)
           x == ExitCompleteness(s)
           p == ParamOptunability(s)
           a == ArchetypeAlignment(s)
           five == Scores(s)
<1>1. ScoresMatchWarnings(s)
  BY PlanScoresMatch
<1>2. v \in Fraction /\ AtLeast(v, 1)
  <2>1. v \in Score /\ IsOne(v)
    BY FeaturesScore
  <2> HIDE DEF v
  <2> QED
    BY <2>1 DEF Score, Fraction, IsOne, AtLeast
<1>3. x \in Fraction /\ AtLeast(x, 1)
  <2>1. x \in Score
    <3>1. (s.exitTicks >= 5) \in BOOLEAN /\ (s.exit # << >>) \in BOOLEAN
      OBVIOUS
    <3> QED
      BY <3>1, HalvesScore, Zenon DEF ExitCompleteness
  <2>2. IsOne(x)
    BY <1>1 DEF ScoresMatchWarnings
  <2> HIDE DEF x
  <2> QED
    BY <2>1, <2>2 DEF Score, Fraction, IsOne, AtLeast
<1>4. p \in Fraction /\ AtLeast(p, 1)
  <2>1. s.params # << >>
    <3>1. PICK X : s.entry \in Seq(X) /\ s.params \in Seq(X)
      BY DEF IsPlan
    <3>2. s.entry # << >> /\ DOMAIN s.entry = 1 .. Len(s.entry) /\ Len(s.entry) \in Nat
      BY <3>1, LenProperties DEF IsValid
    <3>3. 1 \in DOMAIN s.entry
      BY <3>1, <3>2, EmptySeq
    <3>4. s.entry[1] \in Conditions(s)
      BY <3>3 DEF Conditions, ToSet
    <3>5. s.entry[1].param \in {q.name : q \in ToSet(s.params)}
      BY <3>4 DEF IsValid, IsLinked
    <3>6. ToSet(<< >>) = {}
      BY DEF ToSet
    <3> QED
      BY <3>5, <3>6
  <2>2. p \in Score
    BY ParametersScore
  <2>3. IsOne(p)
    BY <1>1, <2>1 DEF ScoresMatchWarnings
  <2> HIDE DEF p
  <2> QED
    BY <2>2, <2>3 DEF Score, Fraction, IsOne, AtLeast
<1>5. e \in Fraction /\ AtLeast(e, 0)
  <2>1. e \in Score
    <3>1. (s.archetype # None) \in BOOLEAN /\ (Effective(s) \cap CostFeatures # {}) \in BOOLEAN
      OBVIOUS
    <3> QED
      BY <3>1, HalvesScore, Zenon DEF EconomicPlausibility
  <2> HIDE DEF e
  <2> QED
    BY <2>1 DEF Score, Fraction, AtLeast
<1>6. a \in Fraction /\ AtLeast(a, 0)
  <2>1. a \in Score
    BY AlignmentScore
  <2> HIDE DEF a
  <2> QED
    BY <2>1 DEF Score, Fraction, AtLeast
<1>7. five = << v, e, x, p, a >>
  BY Zenon DEF Scores
<1> HIDE DEF v, e, x, p, a
<1>8. five \in Seq(Fraction) /\ Len(five) = 5
      /\ five[1] = v /\ five[2] = e /\ five[3] = x /\ five[4] = p /\ five[5] = a
  BY <1>2, <1>3, <1>4, <1>5, <1>6, <1>7
<1>9. Overall(s) = Over(FoldLeft(++, Whole(0), five), 5)
  BY Zenon DEF Overall
<1> HIDE DEF five
<1>10. PICK H \in [0 .. 5 -> Fraction] :
         /\ H[0] = Whole(0)
         /\ \A k \in 1 .. 5 : H[k] = H[k - 1] ++ five[k]
         /\ FoldLeft(++, Whole(0), five) = H[5]
  BY <1>8, FractionsTrace
<1>11. H[0] \in Fraction /\ H[1] \in Fraction /\ H[2] \in Fraction /\ H[3] \in Fraction /\ H[4] \in Fraction
       /\ H[5] \in Fraction
  BY <1>10
<1>12. H[1] = H[0] ++ v /\ H[2] = H[1] ++ e /\ H[3] = H[2] ++ x /\ H[4] = H[3] ++ p /\ H[5] = H[4] ++ a
  BY <1>8, <1>10
<1>13. AtLeast(H[0], 0)
  BY <1>10 DEF AtLeast, Whole
<1>14. AtLeast(H[1], 0 + 1)
  BY <1>2, <1>11, <1>12, <1>13, AtLeastPlus
<1>15. AtLeast(H[2], 1 + 0)
  BY <1>5, <1>11, <1>12, <1>14, AtLeastPlus
<1>16. AtLeast(H[3], 1 + 1)
  BY <1>3, <1>11, <1>12, <1>15, AtLeastPlus
<1>17. AtLeast(H[4], 2 + 1)
  BY <1>4, <1>11, <1>12, <1>16, AtLeastPlus
<1>18. AtLeast(H[5], 3 + 0)
  BY <1>6, <1>11, <1>12, <1>17, AtLeastPlus
<1> DEFINE sum == H[5]
<1>19. sum \in Fraction /\ AtLeast(sum, 3) /\ Overall(s) = Over(sum, 5)
  BY <1>9, <1>10, <1>11, <1>18
<1> HIDE DEF sum
<1>20. Overall(s) \in Fraction
  BY <1>19 DEF Over, Fraction
<1>21. Overall(s).num = sum.num /\ Overall(s).den = sum.den * 5 /\ sum.num \in Int /\ sum.den \in Nat \ {0}
  BY <1>19 DEF Over, Fraction
<1>22. Times(5, Overall(s)).num = 5 * sum.num /\ Times(5, Overall(s)).den = sum.den * 5
  BY <1>20, <1>21 DEF Times, Fraction
<1> QED
  BY <1>19, <1>20, <1>21, <1>22 DEF AtLeast

\* A clean plan reaches the threshold of its promise and the loop's own.
LEMMA PlanIsCoded ==
  ASSUME NEW s, IsPlan(s), IsValid(s)
  PROVE  CleanIsCoded(s)
<1> SUFFICES ASSUME s.current, Effective(s) # {}, Warnings(s) = {}
             PROVE  IsCoded(s, Ratio(1, 2))
  BY DEF CleanIsCoded
<1> DEFINE o == Overall(s)
           n == o.num
           d == o.den
<1>1. n \in Int /\ d \in Nat \ {0} /\ 5 * n >= 3 * d
  <2>1. o \in Fraction /\ AtLeast(Times(5, o), 3)
    BY CleanIsEnough
  <2> HIDE DEF o
  <2>2. Times(5, o).num = 5 * o.num /\ Times(5, o).den = o.den
    BY <2>1 DEF Times, Fraction
  <2> QED
    BY <2>1, <2>2 DEF Fraction, AtLeast
<1>2. Go(s) <=> 2 * n >= d
  BY Zenon DEF Go
<1>3. Recorded(s) = Rounded(10000 * n, d)
  BY Zenon DEF Recorded
<1>4. Ratio(1, 2).num = 1 /\ Ratio(1, 2).den = 2
  BY DEF Ratio
<1> HIDE DEF n, d, o
<1>5. 10000 * n \in Int /\ 10000 * n >= 5000 * d
  BY <1>1
<1>6. Rounded(10000 * n, d) \in Int /\ Rounded(10000 * n, d) >= 5000
  BY <1>1, <1>5, RoundedAtLeast
<1> QED
  BY <1>1, <1>2, <1>3, <1>4, <1>6 DEF IsCoded

\* Every plan that passes its review keeps what the review promises: its
\* conditions come down to known features in a single way, its scores match its
\* warnings, idle declarations count for nothing, and a clean plan is coded.
\* (review_spec, evaluate_spec, effective_condition_features)
THEOREM ReviewedPlanHolds ==
  \A s : IsPlan(s) /\ IsValid(s) => PlanHolds(s)
BY PlanIsDefinite, PlanScoresMatch, PlanCountsConditions, PlanIsCoded DEF PlanHolds

IsList(seq) == \E Y : seq \in Seq(Y)

LEMMA ShortLists ==
  /\ IsList(<< >>)
  /\ \A b : IsList(<< b >>)
  /\ \A b, c : IsList(<< b, c >>)
  /\ \A b, c, d : IsList(<< b, c, d >>)
<1>1. << >> \in Seq({})
  OBVIOUS
<1>2. \A b : << b >> \in Seq({b})
  OBVIOUS
<1>3. \A b, c : << b, c >> \in Seq({b, c})
  OBVIOUS
<1>4. \A b, c, d : << b, c, d >> \in Seq({b, c, d})
  OBVIOUS
<1> QED
  BY <1>1, <1>2, <1>3, <1>4, Zenon DEF IsList

\* The plans of the instance are plans.
LEMMA SmallPlansArePlans == \A s \in SmallPlans : IsPlan(s)
<1> SUFFICES ASSUME NEW s \in SmallPlans
             PROVE  IsPlan(s)
  OBVIOUS
<1>1. s \in [current : BOOLEAN, archetype : {None, 1, 5}, entry : Entries, exit : Exits, exitTicks : {0, 4, 5},
               params : Params, derived : DerivedLists, used : {{}, {"nonsense"}, {"spread_bps"}}]
  BY DEF SmallPlans
<1>2. IsList(s.entry)
  <2> DEFINE wrong == [Cond("feature", "spread_bps", "P") EXCEPT !.op = "=>"]
             first == Cond("feature", "order_imbalance", "Q")
  <2>1. s.entry = << >> \/ s.entry = << wrong >> \/ (\E c : s.entry = << c >>)
        \/ (\E c : s.entry = << first, c >>)
    BY <1>1 DEF Entries
  <2> HIDE DEF wrong, first
  <2> QED
    BY <2>1, ShortLists
<1>3. IsList(s.exit)
  <2>1. s.exit = << >> \/ (\E c : s.exit = << c >>)
    BY <1>1 DEF Exits
  <2> QED
    BY <2>1, ShortLists
<1>4. IsList(s.params)
  <2>1. s.params \in Params
    BY <1>1
  <2>2. s.params = << >> \/ (\E c : s.params = << c >>) \/ (\E b, c : s.params = << b, c >>)
        \/ (\E b, c, d : s.params = << b, c, d >>)
    BY <2>1 DEF Params
  <2> QED
    BY <2>2, ShortLists
<1>5. IsList(s.derived)
  <2>1. s.derived \in DerivedLists
    BY <1>1
  <2>2. \A Y, n : s.derived \in SeqOf(Y, n) /\ n \in Nat => IsList(s.derived)
    <3> SUFFICES ASSUME NEW Y, NEW n \in Nat, s.derived \in SeqOf(Y, n)
                 PROVE  IsList(s.derived)
      OBVIOUS
    <3>1. PICK m \in 0 .. n : s.derived \in [1 .. m -> Y]
      BY DEF SeqOf
    <3>2. s.derived \in Seq(Y)
      BY <3>1, SeqDef
    <3> QED
      BY <3>2 DEF IsList
  <2> QED
    BY <2>1, <2>2, ShortLists DEF DerivedLists
<1>6. PICK A : s.entry \in Seq(A)
  BY <1>2 DEF IsList
<1>7. PICK B : s.exit \in Seq(B)
  BY <1>3 DEF IsList
<1>8. PICK C : s.params \in Seq(C)
  BY <1>4 DEF IsList
<1>9. PICK D : s.derived \in Seq(D)
  BY <1>5 DEF IsList
<1> DEFINE X == (A \cup B) \cup (C \cup D) \cup s.used
<1>10. A \subseteq X /\ B \subseteq X /\ C \subseteq X /\ D \subseteq X /\ s.used \subseteq X
  OBVIOUS
<1> HIDE DEF X
<1>11. s.entry \in Seq(X) /\ s.exit \in Seq(X) /\ s.params \in Seq(X) /\ s.derived \in Seq(X)
  BY <1>6, <1>7, <1>8, <1>9, <1>10
<1>12. s \in [current : BOOLEAN, archetype : {None} \cup Nat, entry : Seq(X), exit : Seq(X), exitTicks : Int,
              params : Seq(X), derived : Seq(X), used : SUBSET X]
  BY <1>1, <1>10, <1>11 DEF None
<1> QED
  BY <1>12 DEF IsPlan

\* What ReviewedPlansHold checks on its small plans holds of every plan.
\* (review_spec, evaluate_spec)
THEOREM ReviewAlwaysHolds == Spec => []ReviewedPlansHold
<1>1. ReviewedPlansHold
  BY ReviewedPlanHolds, SmallPlansArePlans DEF ReviewedPlansHold
<1>2. QED
  BY <1>1, PTL
=============================================================================
