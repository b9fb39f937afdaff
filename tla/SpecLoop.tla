------------------------------ MODULE SpecLoop ------------------------------
(***************************************************************************)
(* LoopRunner.run_spec_centric over the files of MemoryStore: an outer     *)
(* loop over plans, an inner loop over attempts to code a plan, and the    *)
(* plan, strategy and global files they leave for later sessions.  The     *)
(* process may stop between any two file writes, or inside one, and a      *)
(* later session starts over on the files it finds.                        *)
(*                                                                         *)
(* pc: "plan" top of the outer loop, "review" the plan is on disk, "code"  *)
(* top of the inner loop, "learn" the strategy file is written, "route"    *)
(* the tests after an evaluation, "close" after the inner loop; "over",    *)
(* "raised" and "down" say how the session ended.                          *)
(*                                                                         *)
(* Prose (plan texts, suggestions, issues) is left out: the global file    *)
(* is only readable or not.  RagMemoryV1 is modelled in StrategyLoop.      *)
(***************************************************************************)
EXTENDS Feedback, Sequences, SequencesExt

CONSTANTS
  MaxPlans,      \* max_plan_iterations
  MaxAttempts,   \* max_code_attempts
  MaxSessions,   \* bound: sessions on one memory directory
  MaxStrategies  \* bound: strategy files

ASSUME SpecLoopAssumption ==
  /\ MaxPlans \in Nat \ {0} /\ MaxAttempts \in Nat \ {0}
  /\ MaxSessions \in Nat \ {0} /\ MaxStrategies \in Nat

Plan == 1 .. MaxPlans * MaxSessions    \* plan_id, in the order of creation
NoPlan == 0

VARIABLES
  pc,
  hasOos,       \* date_ranges.has_oos
  run,          \* the local variables of run_spec_centric
  sessions,     \* sessions started so far
  plans,        \* plans/{plan_id}.json
  strategies,   \* strategies/{run_id}.json
  global        \* global_memory.json: "absent", "good" or "torn"

disk == <<plans, strategies, global>>
vars == <<pc, hasOos, run, sessions, plans, strategies, global>>

-----------------------------------------------------------------------------
\* Outcomes a finished plan can be left with.
Closed == {"spec_invalid", "precode_rejected", "structural_fail", "pass"}

NoRecord == [outcome |-> "absent", net |-> 0]
Torn     == [outcome |-> "torn", net |-> 0]
Record(outcome, net) == [outcome |-> outcome, net |-> net]

NoRun == [plan |-> NoPlan, attempt |-> 0]
NoJudgement == [net |-> 0, verdict |-> "none", structural |-> FALSE]

Unseen == [seen |-> FALSE, net |-> 0]

Session0 == [iter |-> 1, plan |-> NoPlan, feedback |-> [of |-> 0, why |-> "none"],
             verdict |-> "no_pass", bestRun |-> NoRun, oos |-> "no_oos",
             attempt |-> 1, tried |-> << >>, best |-> Unseen, previous |-> 0, fails |-> 0,
             outcome |-> "no_code_pass", judged |-> NoJudgement]

Init ==
  /\ pc = "plan"
  /\ hasOos \in BOOLEAN
  /\ run = Session0
  /\ sessions = 1
  /\ plans = [p \in Plan |-> NoRecord]
  /\ strategies = {}
  /\ global = "absent"

-----------------------------------------------------------------------------
(* The outer loop *)

NewPlan == CHOOSE p \in Plan :
             plans[p] = NoRecord /\ \A q \in Plan : plans[q] = NoRecord => p <= q

\* previous_plan_feedback: what the next planner call is told.
Told(r, why) == [r EXCEPT !.feedback = [of |-> run.iter, why |-> why]]
NextPlan(r)  == [r EXCEPT !.iter = @ + 1, !.plan = NoPlan]

Planning == pc = "plan" /\ run.iter <= MaxPlans

\* The planner does not answer, or not with a spec.
PlannerFails ==
  /\ Planning
  /\ run' = NextPlan(Told(run, "planner_failed"))
  /\ UNCHANGED <<pc, hasOos, sessions, disk>>

SpecInvalid ==
  /\ Planning
  /\ plans' = [plans EXCEPT ![NewPlan] = Record("spec_invalid", 0)]
  /\ run' = NextPlan(Told(run, "spec_invalid"))
  /\ UNCHANGED <<pc, hasOos, sessions, strategies, global>>

\* A valid plan is saved before it is known what becomes of it.
SavePlan ==
  /\ Planning
  /\ plans' = [plans EXCEPT ![NewPlan] = Record("no_code_pass", 0)]
  /\ run' = [run EXCEPT !.plan = NewPlan]
  /\ pc' = "review"
  /\ UNCHANGED <<hasOos, sessions, strategies, global>>

\* update_plan_outcome for the current plan
UpdatePlan(outcome, net) == plans' = [plans EXCEPT ![run.plan] = Record(outcome, net)]

PrecodeRejected ==
  /\ pc = "review"
  /\ UpdatePlan("precode_rejected", 0)
  /\ run' = NextPlan(Told(run, "precode_rejected"))
  /\ pc' = "plan"
  /\ UNCHANGED <<hasOos, sessions, strategies, global>>

\* The variables of the inner loop start afresh: code_attempts,
\* best_code_for_plan, previous_code_feedback, ...
FreshFor(r) ==
  [r EXCEPT !.attempt = 1, !.tried = << >>, !.best = Unseen, !.previous = 0, !.fails = 0,
            !.outcome = "no_code_pass", !.judged = NoJudgement]

StartCoding ==
  /\ pc = "review"
  /\ run' = FreshFor(run)
  /\ pc' = "code"
  /\ UNCHANGED <<hasOos, sessions, disk>>

PlansExhausted ==
  /\ pc = "plan" /\ run.iter > MaxPlans
  /\ pc' = "over"
  /\ UNCHANGED <<hasOos, run, sessions, disk>>

-----------------------------------------------------------------------------
(* The inner loop *)

Here == [plan |-> run.plan, attempt |-> run.attempt]

\* Each attempt reads the global file first, outside any handler.
GlobalUnreadable ==
  /\ pc = "code" /\ run.attempt <= MaxAttempts /\ global = "torn"
  /\ pc' = "raised"
  /\ run' = Session0
  /\ UNCHANGED <<hasOos, sessions, disk>>

Coding == pc = "code" /\ run.attempt <= MaxAttempts /\ global # "torn"

\* No code, rejected code, or a backtest that raises.
Skip ==
  /\ Coding
  /\ run' = [run EXCEPT !.attempt = @ + 1, !.fails = @ + 1]
  /\ UNCHANGED <<pc, hasOos, sessions, disk>>

Filtered ==
  /\ Coding
  /\ run' = [run EXCEPT !.tried = Append(@, Here), !.previous = run.attempt,
                        !.attempt = @ + 1, !.fails = @ + 1]
  /\ UNCHANGED <<pc, hasOos, sessions, disk>>

FeedbackRaises ==
  /\ Coding
  /\ pc' = "raised"
  /\ run' = Session0
  /\ UNCHANGED <<hasOos, sessions, disk>>

\* Evaluated: the strategy file is written first.
SaveStrategy ==
  /\ Coding /\ Cardinality(strategies) < MaxStrategies
  /\ \E j \in Judgements :
       /\ strategies' = strategies \cup {[plan |-> run.plan, attempt |-> run.attempt,
                                          net |-> j.net, verdict |-> j.verdict,
                                          structural |-> j.structural]}
       /\ run' = [run EXCEPT !.judged = j]
  /\ pc' = "learn"
  /\ UNCHANGED <<hasOos, sessions, plans, global>>

\* The tracking of the attempts for this plan.
Learnt(r, j) ==
  [r EXCEPT !.tried     = Append(@, Here),
            !.best      = IF ~@.seen \/ j.net > @.net THEN [seen |-> TRUE, net |-> j.net] ELSE @,
            !.fails     = IF j.verdict = "pass" THEN 0 ELSE @ + 1,
            !.previous  = r.attempt]

\* append_insights and append_failure_patterns rewrite the global file if there
\* is anything to add.
Learn ==
  /\ pc = "learn"
  /\ global' \in {global, "good"}
  /\ run' = Learnt(run, run.judged)
  /\ pc' = "route"
  /\ UNCHANGED <<hasOos, sessions, plans, strategies>>

-----------------------------------------------------------------------------
(* Routing after an evaluation *)

Passes_IfProfitable == run.judged.net > 0    \* mutant

Passes == run.judged.verdict = "pass"

BestNet_IsLast == IF run.judged.net > 0 THEN run.judged.net ELSE 0    \* mutant

\* max(best_net_pnl_for_plan, 0.0)
BestNet == IF run.best.seen /\ run.best.net > 0 THEN run.best.net ELSE 0

\* The plan is given up: no more attempts.
Abandoned_Silently(r, why) == [r EXCEPT !.outcome = "structural_fail"]    \* mutant

Abandoned(r, why) == [Told(r, why) EXCEPT !.outcome = "structural_fail"]

StructuralFails ==
  /\ pc = "route" /\ run.judged.structural /\ ~Passes
  /\ run' = Abandoned(run, "structural")
  /\ UpdatePlan("structural_fail", BestNet)
  /\ pc' = "close"
  /\ UNCHANGED <<hasOos, sessions, strategies, global>>

PassedWith_IsOnly(oos) == [run EXCEPT !.bestRun = Here, !.outcome = "pass", !.oos = oos]    \* mutant

PassedWith(oos) ==
  [run EXCEPT !.verdict = "pass", !.bestRun = Here, !.outcome = "pass", !.oos = oos]

StopWithoutOos ==
  /\ pc = "route" /\ Passes /\ ~hasOos
  /\ run' = PassedWith(run.oos)
  /\ UpdatePlan("pass", run.best.net)
  /\ pc' = "close"
  /\ UNCHANGED <<hasOos, sessions, strategies, global>>

OosPasses ==
  /\ pc = "route" /\ Passes /\ hasOos
  /\ run' = PassedWith("pass_oos")
  /\ \E j \in Judgements : j.net > 0 /\ UpdatePlan("pass", j.net)
  /\ pc' = "close"
  /\ UNCHANGED <<hasOos, sessions, strategies, global>>

\* The out-of-sample backtest loses money or its distribution filter rejects.
OosFails ==
  /\ pc = "route" /\ Passes /\ hasOos
  /\ run' = [Abandoned(run, "oos_failed") EXCEPT !.oos = "fail_oos"]
  /\ UpdatePlan("structural_fail", BestNet)
  /\ pc' = "close"
  /\ UNCHANGED <<hasOos, sessions, strategies, global>>

\* The out-of-sample backtest raises: taken as passed.
OosRaises ==
  /\ pc = "route" /\ Passes /\ hasOos
  /\ run' = PassedWith("no_oos")
  /\ UpdatePlan("pass", run.best.net)
  /\ pc' = "close"
  /\ UNCHANGED <<hasOos, sessions, strategies, global>>

TryAgain ==
  /\ pc = "route" /\ ~Passes /\ ~run.judged.structural
  /\ run' = [run EXCEPT !.attempt = @ + 1]
  /\ pc' = "code"
  /\ UNCHANGED <<hasOos, sessions, disk>>

AttemptsExhausted ==
  /\ pc = "code" /\ run.attempt > MaxAttempts
  /\ pc' = "close"
  /\ UNCHANGED <<hasOos, run, sessions, disk>>

\* After the inner loop.
ClosePassed ==
  /\ pc = "close" /\ run.verdict = "pass"
  /\ pc' = "over"
  /\ UNCHANGED <<hasOos, run, sessions, disk>>

StillOpen_Always == run.verdict # "pass"    \* mutant

StillOpen == run.verdict # "pass" /\ run.outcome = "no_code_pass"

CloseUnpassed ==
  /\ pc = "close" /\ StillOpen
  /\ UpdatePlan("no_code_pass", BestNet)
  /\ run' = NextPlan(Told(run, "no_code_pass"))
  /\ pc' = "plan"
  /\ UNCHANGED <<hasOos, sessions, strategies, global>>

CloseAbandoned ==
  /\ pc = "close" /\ run.verdict # "pass" /\ ~StillOpen
  /\ run' = NextPlan(run)
  /\ pc' = "plan"
  /\ UNCHANGED <<hasOos, sessions, disk>>

-----------------------------------------------------------------------------
(* Crashes and sessions *)

Ended == pc \in {"over", "raised", "down"}

\* Files are rewritten in place: a crash inside a write leaves the file that
\* the next step writes unreadable.  A torn strategy file is never read.
Tear ==
  \/ /\ pc = "plan" /\ run.iter <= MaxPlans
     /\ plans' = [plans EXCEPT ![NewPlan] = Torn]
     /\ UNCHANGED global
  \/ /\ \/ pc = "review"
        \/ pc = "route" /\ (run.judged.structural \/ Passes)
        \/ pc = "close" /\ StillOpen
     /\ plans' = [plans EXCEPT ![run.plan] = Torn]
     /\ UNCHANGED global
  \/ /\ pc = "learn" /\ global' = "torn"
     /\ UNCHANGED plans

Crash ==
  /\ ~Ended
  /\ Tear \/ UNCHANGED <<plans, global>>
  /\ pc' = "down"
  /\ run' = Session0
  /\ UNCHANGED <<hasOos, sessions, strategies>>

\* Another session on the same memory directory.
StartSession ==
  /\ Ended /\ sessions < MaxSessions
  /\ sessions' = sessions + 1
  /\ run' = Session0
  /\ pc' = "plan"
  /\ UNCHANGED <<hasOos, disk>>

AllSessionsOver == Ended /\ sessions = MaxSessions /\ UNCHANGED vars

PlanLoop ==
  \/ PlannerFails \/ SpecInvalid \/ SavePlan \/ PrecodeRejected \/ StartCoding \/ PlansExhausted
  \/ ClosePassed \/ CloseUnpassed \/ CloseAbandoned

CodeLoop ==
  \/ GlobalUnreadable \/ Skip \/ Filtered \/ FeedbackRaises \/ SaveStrategy \/ Learn
  \/ StructuralFails \/ StopWithoutOos \/ OosPasses \/ OosFails \/ OosRaises
  \/ TryAgain \/ AttemptsExhausted

Next == PlanLoop \/ CodeLoop \/ Crash \/ StartSession \/ AllSessionsOver

Spec == Init /\ [][Next]_vars

-----------------------------------------------------------------------------
(* Invariants *)

Outcomes == Closed \cup {"absent", "torn", "no_code_pass"}

Saved(p) == {s \in strategies : s.plan = p}

\* Whenever the process dies, a plan recorded as passed has a strategy on disk
\* that passed with a profit, and every strategy belongs to a recorded plan.
PassedPlanHasStrategy ==
  /\ \A p \in Plan : plans[p].outcome = "pass" =>
       \E s \in Saved(p) : s.verdict = "pass" /\ s.net > 0
  /\ \A s \in strategies : plans[s.plan].outcome # "absent"

\* A session that returns a pass names a run that is on disk, passed, and whose
\* plan is recorded as passed; one that returns none names none.  A pass ends
\* its session: there are never more passed plans than sessions.
ReturnedPassIsOnDisk ==
  /\ pc = "over" =>
       IF run.verdict = "pass"
       THEN /\ plans[run.bestRun.plan].outcome = "pass"
            /\ \E s \in Saved(run.bestRun.plan) : s.attempt = run.bestRun.attempt /\ s.verdict = "pass"
       ELSE run.bestRun = NoRun
  /\ Cardinality({p \in Plan : plans[p].outcome = "pass"}) <= sessions

\* When the loop leaves a plan, its file tells what happened to it: it failed
\* structurally exactly if a strategy of it did, in or out of sample, and the net
\* P&L recorded is the best of its own strategies.
OutcomeMatchesStrategies ==
  pc = "close" =>
    LET failed == \E s \in Saved(run.plan) : s.structural \/ s.verdict = "pass"
    IN /\ run.outcome = "no_code_pass" <=> ~failed
       /\ run.outcome = "structural_fail" =>
            /\ plans[run.plan].outcome = "structural_fail"
            /\ \A s \in Saved(run.plan) : s.net <= plans[run.plan].net
            /\ plans[run.plan].net = 0 \/ \E s \in Saved(run.plan) : s.net = plans[run.plan].net

\* Both loops start from the right place.  The planner is told about the plan
\* iteration that has just failed, whichever way it failed; coding a plan starts
\* from nothing: attempts, best result and feedback of the inner loop are this
\* plan's, and every attempt but a pass has been counted.
LoopsStartFresh ==
  /\ pc = "plan" => run.feedback.of = run.iter - 1
  /\ pc = "code" =>
       /\ run.fails = run.attempt - 1
       /\ \A k \in DOMAIN run.tried : run.tried[k].plan = run.plan
       /\ run.best.seen => \E s \in Saved(run.plan) : s.net = run.best.net
       /\ run.previous = IF run.tried = << >> THEN 0 ELSE Last(run.tried).attempt

(* Action properties *)

\* What became of a plan is recorded once: no later step, session or crash
\* changes the record of a closed plan.
ClosedPlansStay ==
  [][\A p \in Plan : plans[p].outcome \in Closed => plans'[p] = plans[p]]_vars
=============================================================================
