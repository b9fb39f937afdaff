----------------------------- MODULE SpecRules -----------------------------
(***************************************************************************)
(* What run_spec_centric asks of a planned strategy before any code is     *)
(* written: the review of its structure (spec_review) and the score of its *)
(* promise (precode_eval).                                                 *)
(*                                                                         *)
(* A plan is [current, archetype, entry, exit, exitTicks, params, derived, *)
(* used]; a condition is [kind, source, op, param], a parameter            *)
(* [name, upper, ordered] (its name in upper case, its range not empty), a *)
(* derived feature [name, inputs].  `current` is a version that starts     *)
(* with 2.3.  Thresholds and formulas decide nothing here.                 *)
(***************************************************************************)
EXTENDS Integers, FiniteSets, Sequences, SequencesExt, Fractions, Rounding, Selections

None == 0
NoParam == "none"

CostFeatures == {"spread_bps", "spread_bps_ema", "price_impact_buy_bps", "price_impact_sell_bps"}

\* The features each archetype is known by.
Canonical == <<
  {"order_imbalance", "order_imbalance_ema", "trade_flow_imbalance", "order_imbalance_delta", "spread_bps"},
  {"spread_bps", "spread_bps_ema", "order_imbalance_delta", "depth_imbalance_ema", "price_impact_buy_bps"},
  {"trade_flow_imbalance", "trade_flow_imbalance_ema", "order_imbalance_delta", "depth_imbalance",
   "volume_surprise"},
  {"depth_imbalance", "depth_imbalance_ema", "trade_flow_imbalance", "trade_flow_imbalance_ema",
   "price_impact_buy_bps"} >>

\* Those, and one for all that no rule names.
Builtin == CostFeatures \cup {"mid_price"} \cup UNION ToSet(Canonical)

Operators == {">", ">=", "<", "<=", "==", "!="}

-----------------------------------------------------------------------------
(* The plan *)

Conditions(s) == ToSet(s.entry) \cup ToSet(s.exit)
DerivedNames(s) == {d.name : d \in ToSet(s.derived)}
SourcesOf(s, kind) == {c.source : c \in {d \in Conditions(s) : d.kind = kind}}
InputsOf(ds) == UNION {d.inputs : d \in ds}

\* All raw features a plan mentions.
AllReferenced(s) == s.used \cup SourcesOf(s, "feature") \cup InputsOf(ToSet(s.derived))

\* Those that can make a difference to an entry or an exit.
Effective_AllDerived(s) == SourcesOf(s, "feature") \cup InputsOf(ToSet(s.derived))    \* mutant

Effective(s) ==
  SourcesOf(s, "feature")
  \cup InputsOf({d \in ToSet(s.derived) : d.name \in SourcesOf(s, "derived_feature")})

-----------------------------------------------------------------------------
(* review_spec *)

NamesAreUnique(seq) ==
  \A i, k \in DOMAIN seq : seq[i].name = seq[k].name => i = k

DerivedAreSound(s) ==
  /\ NamesAreUnique(s.derived)
  /\ \A d \in ToSet(s.derived) : d.name \notin Builtin /\ d.inputs \subseteq Builtin

SourceIsKnown(s, c) ==
  \/ c.kind = "feature" /\ c.source \in Builtin
  \/ c.kind = "derived_feature" /\ c.source \in DerivedNames(s)

\* Every threshold names its parameter; plans of older versions may leave it out.
IsLinked(s, c) ==
  IF c.param = NoParam THEN ~s.current ELSE c.param \in {p.name : p \in ToSet(s.params)}

IsValid(s) ==
  /\ DerivedAreSound(s)
  /\ s.entry # << >>
  /\ \A c \in Conditions(s) : c.op \in Operators /\ SourceIsKnown(s, c) /\ IsLinked(s, c)
  /\ s.exitTicks > 0
  /\ s.used \subseteq Builtin
  /\ NamesAreUnique(s.params)
  /\ s.archetype \in {None} \cup DOMAIN Canonical

\* Warnings do not make a plan invalid.
ShortExit == "exit_time_ticks is very short"
NoSignalExit == "exit_signal_conditions is empty"
LowerCase == "not UPPER_CASE"
EmptyRange == "invalid range"
Unlinked == "no threshold_param"

Warnings(s) ==
       {w \in {ShortExit} : s.exitTicks \in 1 .. 4}
  \cup {w \in {NoSignalExit} : s.exit = << >>}
  \cup {w \in {LowerCase} : \E p \in ToSet(s.params) : ~p.upper}
  \cup {w \in {EmptyRange} : \E p \in ToSet(s.params) : ~p.ordered}
  \cup {w \in {Unlinked} : ~s.current /\ \E c \in Conditions(s) : c.param = NoParam}

-----------------------------------------------------------------------------
(* evaluate_spec: five scores between 0 and 1, and their mean *)

Ratio(i, k) == [num |-> i, den |-> k]
Halves(a, b) == Ratio((IF a THEN 1 ELSE 0) + (IF b THEN 1 ELSE 0), 2)

FeatureValidity(s) ==
  IF Effective(s) = {} THEN Whole(0)
  ELSE Ratio(Cardinality(Effective(s) \cap Builtin), Cardinality(Effective(s)))

EconomicPlausibility(s) == Halves(s.archetype # None, Effective(s) \cap CostFeatures # {})

ExitCompleteness(s) == Halves(s.exitTicks >= 5, s.exit # << >>)

ParamOptunability(s) ==
  IF s.params = << >> THEN Ratio(1, 2)
  ELSE Ratio(Cardinality({k \in DOMAIN s.params : s.params[k].upper /\ s.params[k].ordered}), Len(s.params))

ArchetypeAlignment(s) ==
  IF s.archetype \notin DOMAIN Canonical THEN Ratio(1, 2)
  ELSE Ratio(Cardinality(Effective(s) \cap Canonical[s.archetype]), Cardinality(Canonical[s.archetype]))

Scores(s) ==
  << FeatureValidity(s), EconomicPlausibility(s), ExitCompleteness(s), ParamOptunability(s), ArchetypeAlignment(s) >>

Overall(s) == Over(FoldLeft(++, Whole(0), Scores(s)), 5)

Go(s) == 2 * Overall(s).num >= Overall(s).den

\* The score is recorded with four decimals.
Recorded(s) == Rounded(10000 * Overall(s).num, Overall(s).den)

\* The plan is coded: what is recorded also reaches the loop's own threshold.
IsCoded(s, threshold) ==
  IsValid(s) /\ Go(s) /\ 10000 * threshold.num <= Recorded(s) * threshold.den

-----------------------------------------------------------------------------
(* What a plan that passes its review is worth *)

\* What a condition comes down to: the sets of raw features it may stand for.
Meanings(s, c) ==
  IF c.kind = "feature" THEN {{c.source}} ELSE {d.inputs : d \in {e \in ToSet(s.derived) : e.name = c.source}}

\* Every condition comes down to known raw features in a single way, every
\* threshold of a current plan to one parameter, and nothing unknown is mentioned.
IsDefinite(s) ==
  /\ \A c \in Conditions(s) :
       /\ Cardinality(Meanings(s, c)) = 1
       /\ UNION Meanings(s, c) \subseteq Effective(s) \cap Builtin
       /\ s.current => Cardinality({k \in DOMAIN s.params : s.params[k].name = c.param}) = 1
  /\ Effective(s) = UNION UNION {Meanings(s, c) : c \in Conditions(s)}
  /\ AllReferenced(s) \subseteq Builtin

IsOne(f) == f.num = f.den

\* A full score means there is nothing to warn of.
ScoresMatchWarnings(s) ==
  LET warned(ws) == Warnings(s) \cap ws # {}
  IN /\ IsOne(FeatureValidity(s)) <=> Effective(s) # {}
     /\ IsOne(ExitCompleteness(s)) <=> ~warned({ShortExit, NoSignalExit})
     /\ IsOne(ParamOptunability(s)) <=> s.params # << >> /\ ~warned({LowerCase, EmptyRange})

\* The plan without what its conditions do not use.
Trimmed(s) ==
  [s EXCEPT !.used = {},
            !.derived = At(@, {i \in DOMAIN @ : @[i].name \in SourcesOf(s, "derived_feature")})]

\* Declarations that no condition uses move neither the review nor the scores.
OnlyConditionsCount(s) == IsValid(Trimmed(s)) /\ Scores(Trimmed(s)) = Scores(s)

\* A current plan that uses some feature and earns no warning is coded.
CleanIsCoded(s) ==
  s.current /\ Effective(s) # {} /\ Warnings(s) = {} => IsCoded(s, Ratio(1, 2))

PlanHolds(s) == IsDefinite(s) /\ ScoresMatchWarnings(s) /\ OnlyConditionsCount(s) /\ CleanIsCoded(s)
=============================================================================
