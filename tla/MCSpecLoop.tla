----------------------------- MODULE MCSpecLoop -----------------------------
(***************************************************************************)
(* Constant values for checking SpecLoop with TLC, and the rules that let  *)
(* a plan into its inner loop on every small plan, checked once.           *)
(***************************************************************************)
EXTENDS SpecLoop, SpecRules

Report(holding, gross, commission) ==
  [signals |-> 2, states |-> 2000, fills |-> 2, holding |-> holding,
   gross |-> gross, commission |-> commission, costs |-> 0]

\* Structural with a loss, parametric with a loss, parametric with a profit, passing.
MCSummaries == {Report(20, -1, 0), Report(9, -1, 0), Report(9, 2, 0), Report(20, 1, 0)}

-----------------------------------------------------------------------------
(* Small plans *)

Untouched == pc = "plan" /\ run.iter = 1 /\ sessions = 1 /\ plans[1] = NoRecord /\ ~hasOos

Cond(kind, source, param) == [kind |-> kind, source |-> source, op |-> ">", param |-> param]

Some == {Cond("feature", "spread_bps", "P"), Cond("feature", "nonsense", "P"), Cond("spread", "mid_price", "P"),
         Cond("derived_feature", "d", "P"), Cond("derived_feature", "d", NoParam)}
Entries == {<< >>, << [Cond("feature", "spread_bps", "P") EXCEPT !.op = "=>"] >>}
             \cup {<< c >> : c \in Some} \cup {<< Cond("feature", "order_imbalance", "Q"), c >> : c \in Some}
Exits == {<< >>, << Cond("feature", "mid_price", NoParam) >>, << Cond("derived_feature", "e", "Q") >>}

Derived(name, inputs) == [name |-> name, inputs |-> inputs]
DerivedLists ==
  SeqOf({Derived("d", {"order_imbalance"}), Derived("d", {}), Derived("e", {"spread_bps", "mid_price"})}, 2)
  \cup {<< Derived("mid_price", {}) >>, << Derived("d", {"nonsense"}) >>}

Param(name, upper, ordered) == [name |-> name, upper |-> upper, ordered |-> ordered]
P == Param("P", TRUE, TRUE)
Params == {<< >>, << P >>, << P, P >>, << P, Param("Q", TRUE, TRUE) >>, << P, Param("Q", TRUE, FALSE) >>,
           << Param("P", FALSE, TRUE), Param("Q", FALSE, FALSE), Param("R", TRUE, TRUE) >>}

SmallPlans ==
  [current : BOOLEAN, archetype : {None, 1, 5}, entry : Entries, exit : Exits, exitTicks : {0, 4, 5},
   params : Params, derived : DerivedLists, used : {{}, {"nonsense"}, {"spread_bps"}}]

\* A plan that passes its review can be worked out: every condition comes down
\* to raw features in a single way, every threshold of a current plan to one
\* parameter, and nothing unknown is mentioned.  Its scores agree with the
\* warnings of the review and do not move when declarations that no condition
\* uses are added; a current plan that uses some feature and earns no warning
\* is always coded.
\* (review_spec, evaluate_spec, effective_condition_features)
ReviewedPlansHold ==
  Untouched => \A s \in SmallPlans : IsValid(s) => PlanHolds(s)
=============================================================================
