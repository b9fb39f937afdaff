--------------------------- MODULE SignalPosition ---------------------------
(***************************************************************************)
(* The decision path of one symbol in PipelineRunner.run: the history of   *)
(* states and the delayed one the strategy is shown, CodeStrategy with its *)
(* own in-position flag, TargetBuilder with RiskCaps and TurnoverBudget,   *)
(* and the parent order sent for the difference.  The account changes only *)
(* by fills of the active parent, and the strategy is asked only when no   *)
(* parent is active, so flag and account may part; this module says when.  *)
(*                                                                         *)
(* OrderLifecycle models how a parent is worked.  Here a tick fills any    *)
(* part of it, twice: the open children, then those just sliced.  pc is    *)
(* the place in the loop body: "read", "work", "decide" or "first".        *)
(***************************************************************************)
EXTENDS RiskCaps, OrderRouting

CONSTANTS
  Gaps,         \* distances between consecutive states
  Tick,         \* canonical tick interval
  Delay,        \* effective decision delay
  SafetyTicks,  \* _HISTORY_SAFETY_TICKS
  MinHistory,   \* _HISTORY_MIN_LEN
  Lookback,     \* _strategy_runtime_lookback_ticks
  Mids,         \* mid prices
  HalfSpread,   \* best ask - mid = mid - best bid
  Mode,         \* TargetBuilder._mode
  MaxPosition,  \* TargetBuilder._max_position
  DefaultSize,  \* TargetBuilder._default_size
  InitialCash,  \* Bookkeeper initial cash
  MaxStates     \* bound: states of the run

ASSUME DecisionAssumption ==
  /\ Tick \in Nat \ {0} /\ Gaps \subseteq Nat /\ \A g \in Gaps : g >= Tick
  /\ Delay \in Nat /\ SafetyTicks \in Nat /\ MinHistory \in Nat \ {0} /\ Lookback \in Nat
  /\ HalfSpread \in Nat /\ Mids \subseteq Nat /\ \A m \in Mids : m > HalfSpread
  /\ Mode \in {"signal_proportional", "fixed_size", "Kelly"}
  /\ MaxPosition \in Nat /\ DefaultSize \in Nat /\ InitialCash \in Nat /\ MaxStates \in Nat
  /\ MinQty > 0    \* PipelineRunner keeps OrderConstraints' default of one

VARIABLES
  pc,      \* place in the loop body
  seen,    \* states read so far
  history, \* _state_history of the symbol: the retained states
  flag,    \* CodeStrategy._in_position
  parent,  \* the entry of _active_parent_orders, or NoParent
  cash,    \* Bookkeeper cash
  held,    \* Bookkeeper position
  last     \* the latest signal: what was decided on it and what became of it

vars == <<pc, seen, history, flag, parent, cash, held, last>>

-----------------------------------------------------------------------------
(* States of the market and what the strategy sees of them *)

Observation == [ts : Nat, bid : Nat, ask : Nat, tradable : BOOLEAN, session : Sessions]

NoParent == [side |-> "none", qty |-> 0, filled |-> 0]
NoSignal == [action |-> "none", fate |-> "none", target |-> 0, from |-> 0, capped |-> 0,
             mid |-> 0, value |-> 0]

Active == parent # NoParent
Signed(p, q) == IF p.side = "BUY" THEN q ELSE -q
Working == IF Active THEN Signed(parent, parent.qty - parent.filled) ELSE 0

MaxHistory_NoExtra ==    \* mutant
  Greatest(MinHistory, Ceiling(Delay, Tick) + Lookback + SafetyTicks)

\* _compute_history_retention_len
MaxHistory == Greatest(MinHistory, Ceiling(Delay, Tick) + 1 + Lookback + SafetyTicks)

\* _accumulate_state
Retained(h) == SubSeq(h, Greatest(1, Len(h) - MaxHistory + 1), Len(h))

Now == history[Len(history)]

\* _lookup_observed_state
Observed ==
  LET old == {i \in DOMAIN history : history[i].ts <= Now.ts - Delay}
  IN IF old = {} THEN history[1] ELSE history[CHOOSE i \in old : \A j \in old : j <= i]

\* is_tradable, when no micro-event was raised.
Actionable == Now.tradable

Mid(obs) == (obs.bid + obs.ask) \div 2

-----------------------------------------------------------------------------
(* Signal, target and order *)

\* CodeStrategy.generate_signal: the score of what the code answered, in
\* hundredths, or 0 when there is no signal.
Score(answer) ==
  IF answer = "buy" /\ ~flag THEN 100
  ELSE IF answer = "close" /\ flag THEN -100
  ELSE 0

\* _compute_size, with full confidence.
TargetSize(score) ==
  CASE Mode = "fixed_size" -> DefaultSize
    [] Mode = "signal_proportional" -> Greatest(DefaultSize, Rounded(MaxPosition * Abs(score), 100))
    [] Mode = "Kelly" -> Greatest(DefaultSize, Rounded(MaxPosition * Abs(score), 200))

\* The books of this decision hold the one symbol.
BookOf(q) == [s \in {"symbol"} |-> q]

\* Bookkeeper.state.nav at the observed mid price
NavAt(obs) == cash + held * Mid(obs)

\* TargetBuilder.build
CappedTarget(score, obs) ==
  ApplyCaps(BookOf(Sgn(score) * TargetSize(score)), BookOf(Mid(obs)), NavAt(obs))["symbol"]

\* _compute_target_delta, before the difference is taken.
ThrottledTarget(score, obs) ==
  Throttle(BookOf(held), BookOf(CappedTarget(score, obs)), BookOf(Mid(obs)), NavAt(obs))["symbol"]

\* _create_parent_order
CreateParent(delta, score, obs) ==
  LET bare   == ToParent(delta, Abs(score), obs)
      type   == DetermineType(bare, obs.ts)
      priced == [bare EXCEPT !.type = type[1], !.tif = type[2],
                             !.limit = LimitPrice(bare, obs, type[1])]
  IN ApplyAll(priced, obs)

-----------------------------------------------------------------------------
Init ==
  /\ pc = "read"
  /\ seen = 0
  /\ history = << >>
  /\ flag = FALSE
  /\ parent = NoParent
  /\ cash = InitialCash
  /\ held = 0
  /\ last = NoSignal

\* The next state is read and added to the history, and the oldest are dropped.
Read ==
  /\ pc = "read"
  /\ seen < MaxStates
  /\ \E gap \in Gaps, m \in Mids, ok \in BOOLEAN :
       history' = Retained(Append(history,
         [ts |-> IF seen = 0 THEN SessionOpen ELSE Now.ts + gap, bid |-> m - HalfSpread,
          ask |-> m + HalfSpread, tradable |-> ok, session |-> IF ok THEN "regular" ELSE "halted"]))
  /\ seen' = seen + 1
  /\ pc' = "work"
  /\ UNCHANGED <<flag, parent, cash, held, last>>

FillUpTo_KeptWhenDone(limit) ==    \* mutant
  \E q \in 0 .. limit, price \in {Now.bid, Now.ask} :
    /\ held' = held + Signed(parent, q)
    /\ cash' = cash - Signed(parent, q) * price
    /\ parent' = [parent EXCEPT !.filled = @ + q]

\* Part of the active parent is filled: the bookkeeper is told, and a parent
\* that is complete is no longer active.
FillUpTo(limit) ==
  \E q \in 0 .. limit, price \in {Now.bid, Now.ask} :
    /\ held' = held + Signed(parent, q)
    /\ cash' = cash - Signed(parent, q) * price
    /\ parent' = IF parent.filled + q = parent.qty THEN NoParent
                 ELSE [parent EXCEPT !.filled = @ + q]

\* _process_open_orders; the state is then either acted on or passed over.
WorkOpen ==
  /\ pc = "work"
  /\ IF Active /\ Actionable THEN FillUpTo(parent.qty - parent.filled)
     ELSE UNCHANGED <<parent, cash, held>>
  /\ pc' = IF Actionable THEN "decide" ELSE "read"
  /\ UNCHANGED <<seen, history, flag, last>>

\* The strategy is not asked while a parent is active.
Blocked ==
  /\ pc = "decide"
  /\ Active
  /\ pc' = "first"
  /\ UNCHANGED <<seen, history, flag, parent, cash, held, last>>

\* The code answers nothing, fails, or asks for what its flag rules out.
NoDecision ==
  /\ pc = "decide"
  /\ ~Active
  /\ \E answer \in {"buy", "close", "none"} : Score(answer) = 0
  /\ pc' = "read"
  /\ UNCHANGED <<seen, history, flag, parent, cash, held, last>>

\* The flag follows the signal at once, whatever becomes of the order.
Decide ==
  /\ pc = "decide"
  /\ ~Active
  /\ \E answer \in {"buy", "close"} :
       LET score  == Score(answer)
           capped == CappedTarget(score, Observed)
           target == ThrottledTarget(score, Observed)
           order  == CreateParent(Delta(target, held), score, Observed)
           sent   == target # held /\ ~order.rejected
       IN /\ score # 0
          /\ flag' = (score > 0)
          /\ parent' = IF sent THEN order ELSE NoParent
          /\ last' = [action |-> IF score > 0 THEN "entry" ELSE "exit",
                      fate |-> IF sent THEN "sent" ELSE IF target = held THEN "idle" ELSE "rejected",
                      target |-> target, from |-> held, capped |-> capped,
                      mid |-> Mid(Observed), value |-> NavAt(Observed)]
          /\ pc' = IF sent THEN "first" ELSE "read"
  /\ UNCHANGED <<seen, history, cash, held>>

\* The children just sliced are simulated against the true state.
FirstFills ==
  /\ pc = "first"
  /\ FillUpTo(parent.qty - parent.filled)
  /\ pc' = "read"
  /\ UNCHANGED <<seen, history, flag, last>>

Finished ==
  /\ pc = "read"
  /\ seen = MaxStates
  /\ UNCHANGED vars

Next == Read \/ WorkOpen \/ Blocked \/ NoDecision \/ Decide \/ FirstFills \/ Finished

Spec == Init /\ [][Next]_vars
-----------------------------------------------------------------------------
TypeOK ==
  /\ pc \in {"read", "work", "decide", "first"}
  /\ seen \in 0 .. MaxStates
  /\ \A i \in DOMAIN history : history[i] \in Observation
  /\ flag \in BOOLEAN
  /\ Active => /\ parent.side \in {"BUY", "SELL"} /\ ~parent.rejected
               /\ parent.qty \in Nat \ {0} /\ parent.filled \in 0 .. parent.qty - 1
  /\ cash \in Int /\ held \in Int

\* The account is where the latest decision sends it, less what the active
\* parent has still to fill, and rounding to lots never takes it across zero from
\* there; a decision that led to no order moved nothing.  And what is decided is
\* worth at most the single-position share of the portfolio value, or lies
\* between the position and such a target when the turnover budget cut the
\* trade; a worthless account has no such limit.
\* (run: target, caps, throttle, delta, parent order, fills and bookkeeper
\* agree on shares; RiskCaps.apply, TurnoverBudget.throttle)
HeldMeetsDecision ==
  /\ last.fate = "sent" => /\ Abs(last.target - (held + Working)) < Greatest(1, LotSize)
                           /\ last.target >= 0 => held + Working >= 0
                           /\ last.target <= 0 => held + Working <= 0
  /\ last.fate \in {"idle", "rejected"} => held = last.from /\ ~Active
  /\ last.fate = "none" => held = 0 /\ ~Active
  /\ last.action # "none" /\ last.value > 0 =>
       /\ 100 * Abs(last.capped) * last.mid <= SinglePct * last.value
       /\ \/ last.from <= last.target /\ last.target <= last.capped
          \/ last.capped <= last.target /\ last.target <= last.from

\* Once states have been dropped, the retained history still reaches back to
\* the state the delay asks for.  (_compute_history_retention_len,
\* _accumulate_state, _lookup_observed_state)
HistoryReachesBack ==
  Len(history) \in 1 .. seen - 1 => history[1].ts <= Now.ts - Delay

(* A claim of the comments that the code does not keep *)

\* "-1: closes the position (valid only when in_position=True)": once the order
\* of an exit that no budget cut is filled, the account holds nothing.  The code
\* sizes the target of an exit as it sizes that of an entry, with the other sign.
\* (CodeStrategy.generate_signal, TargetBuilder.build)
ExitClosesPosition ==
  last.action = "exit" /\ last.fate = "sent" /\ last.target = last.capped /\ ~Active => held = 0
=============================================================================
