---------------------------- MODULE OrderRouting ----------------------------
(***************************************************************************)
(* From a change of position to a parent order: DeltaComputer (side,       *)
(* quantity, deadline), OrderTyper (type, time in force, limit price),     *)
(* OrderScheduler (hint and time slices) and OrderConstraints (the         *)
(* exchange's rules, which may reject).  Urgency is in hundredths.         *)
(***************************************************************************)
EXTENDS Rounding, Sequences, SequencesExt

CONSTANTS
  SessionOpen, SessionClose,  \* 09:00 and 15:30
  AvoidOpen, AvoidClose,      \* time avoided after the open and before the close
  LotSize,                    \* OrderConstraints._lot_size
  MinQty,                     \* OrderConstraints._min_qty
  BandPct,                    \* OrderConstraints._price_band_pct
  LargeNotional               \* the notional above which VWAP is suggested

ASSUME RoutingAssumption ==
  /\ SessionOpen \in Nat /\ SessionClose \in Nat /\ SessionOpen < SessionClose
  /\ AvoidOpen \in Nat /\ AvoidClose \in Nat
  /\ AvoidOpen + AvoidClose < SessionClose - SessionOpen
  /\ LotSize \in Nat /\ MinQty \in Nat /\ BandPct \in 0 .. 100
  /\ LargeNotional \in Nat

NoDeadline == -1
NoLimit    == -1
HighUrgency == 70      \* aggressive_threshold and _HIGH_URGENCY_THRESHOLD

Sessions == {"regular", "pre", "post", "halted", "closed"}

-----------------------------------------------------------------------------
(* DeltaComputer *)

Delta_HeldForgotten(target, held) == target    \* mutant

\* compute, for one symbol.
Delta(target, held) == target - held

\* _infer_session_end
SessionEnd(obs) ==
  IF obs.session \in {"halted", "closed", "post"} \/ obs.ts >= SessionClose
  THEN NoDeadline ELSE SessionClose

\* to_parent_order
ToParent(delta, urgency, obs) ==
  [side |-> IF delta > 0 THEN "BUY" ELSE "SELL", qty |-> Abs(delta), filled |-> 0,
   urgency |-> urgency, start |-> obs.ts, end |-> SessionEnd(obs),
   type |-> "LIMIT", tif |-> "DAY", limit |-> NoLimit, rejected |-> FALSE]

-----------------------------------------------------------------------------
(* OrderTyper *)

\* The time left is below pct hundredths of the execution window.
LateInWindow(p, ts, pct) ==
  LET window == p.end - p.start
  IN /\ p.end # NoDeadline
     /\ window > 0 => 100 * Greatest(0, window - (ts - p.start)) < pct * window

\* set_tif, for a LIMIT order.
SetTif(p, ts) == IF p.urgency > HighUrgency \/ LateInWindow(p, ts, 15) THEN "IOC" ELSE "DAY"

\* determine_type
DetermineType(p, ts) ==
  IF LateInWindow(p, ts, 10) THEN <<"MARKET", "DAY">>
  ELSE IF p.urgency > HighUrgency THEN <<"LIMIT_IOC", "IOC">>
  ELSE <<"LIMIT", SetTif(p, ts)>>

\* determine_limit_price, in hundredths: the far touch and a share of the
\* spread beyond it.
LimitPrice(p, obs, type) ==
  LET beyond == (obs.ask - obs.bid) * p.urgency
  IN IF type = "MARKET" THEN NoLimit
     ELSE IF p.side = "BUY" THEN 100 * obs.ask + beyond
     ELSE Greatest(0, 100 * obs.bid - beyond)

-----------------------------------------------------------------------------
(* OrderConstraints *)

RoundQty(qty) == IF LotSize = 0 THEN qty ELSE (qty \div LotSize) * LotSize

\* apply_price_band around the mid price, then to the tick (of one).
BandedPrice(obs, price) ==
  LET twiceMid == obs.bid + obs.ask
      lower == twiceMid * (100 - BandPct)
      upper == twiceMid * (100 + BandPct)
  IN Rounded(Greatest(lower, Least(upper, 2 * price)), 200)

Reject(p) == [p EXCEPT !.rejected = TRUE]

\* apply_all
ApplyAll(p, obs) ==
  LET lots == [p EXCEPT !.qty = RoundQty(@)]
  IN IF ~obs.tradable \/ obs.session \in {"halted", "closed"} THEN Reject(p)
     ELSE IF lots.qty < MinQty THEN Reject(lots)
     ELSE IF p.limit = NoLimit THEN lots
     ELSE [lots EXCEPT !.limit = BandedPrice(obs, @)]

-----------------------------------------------------------------------------
(* OrderScheduler *)

\* _build_avoid_windows, earliest first, and _build_preferred_windows: what
\* they leave of the session.
AvoidWindows ==
  << <<SessionOpen, SessionOpen + AvoidOpen>>, <<SessionClose - AvoidClose, SessionClose>> >>

AfterWindow(acc, w) ==
  [cursor |-> Greatest(acc.cursor, w[2]),
   out    |-> IF acc.cursor < w[1] THEN Append(acc.out, <<acc.cursor, w[1]>>) ELSE acc.out]

PreferredWindows ==
  LET rest == FoldLeft(AfterWindow, [cursor |-> SessionOpen, out |-> << >>], AvoidWindows)
  IN IF rest.cursor < SessionClose THEN Append(rest.out, <<rest.cursor, SessionClose>>)
     ELSE rest.out

\* _select_algo
SelectAlgo(p, obs) ==
  IF p.urgency > HighUrgency THEN "IS"
  ELSE IF p.qty * (obs.bid + obs.ask) > 2 * LargeNotional THEN "VWAP" ELSE "TWAP"

\* create_hint; the participation rate grows with urgency, in hundredths of a
\* percent, up to the parent's own limit of 10 percent.
CreateHint(p, obs) ==
  [rate |-> Least(500 + 20 * p.urgency, 1000), algo |-> SelectAlgo(p, obs),
   avoid |-> AvoidWindows, preferred |-> PreferredWindows,
   market |-> p.urgency > HighUrgency, deadline |-> p.end]

Remaining(p) == p.qty - p.filled

\* Slice i of n; times are in n-ths, so that interval and start stay integers.
SliceTime(p, n, i) == n * p.start + i * (p.end - p.start)
SliceQty(p, n, i) == Remaining(p) \div n + (IF i < Remaining(p) % n THEN 1 ELSE 0)

\* _in_avoid_window, for a time in n-ths; both ends count.
InAvoidWindow(t, n) ==
  \E k \in DOMAIN AvoidWindows : n * AvoidWindows[k][1] <= t /\ t <= n * AvoidWindows[k][2]

PutSlice_Skipped(p, n, out, i) ==    \* mutant
  IF InAvoidWindow(SliceTime(p, n, i), n) \/ SliceQty(p, n, i) = 0 THEN out
  ELSE Append(out, [at |-> SliceTime(p, n, i), qty |-> SliceQty(p, n, i)])

\* A slice that would fall in an avoided window joins the one before it, or
\* waits for the first preferred window.
PutSlice(p, n, out, i) ==
  LET avoided == InAvoidWindow(SliceTime(p, n, i), n)
      qty == SliceQty(p, n, i)
  IN IF avoided /\ out # << >> THEN [out EXCEPT ![Len(out)].qty = @ + qty]
     ELSE IF avoided THEN << [at |-> n * PreferredWindows[1][1], qty |-> qty] >>
     ELSE IF qty > 0 THEN Append(out, [at |-> SliceTime(p, n, i), qty |-> qty])
     ELSE out

\* split_schedule: n equal slices.
SplitSchedule(p, n) ==
  IF Remaining(p) <= 0 THEN << >>
  ELSE IF p.end = NoDeadline \/ p.end <= p.start THEN << [at |-> n * p.start, qty |-> Remaining(p)] >>
  ELSE FoldLeft(LAMBDA out, i : PutSlice(p, n, out, i), << >>, [k \in 1 .. n |-> k - 1])

-----------------------------------------------------------------------------
(* What a schedule promises *)

\* In n-ths, like the times of the slices.
OutsideWindows(t, n) ==
  \A k \in DOMAIN AvoidWindows : t <= n * AvoidWindows[k][1] \/ t >= n * AvoidWindows[k][2]

\* Every remaining share is in one of at most n slices, in time order, none of
\* them inside an avoided window or, unless the order comes too near the close
\* for any slice, before its start.
ScheduleHolds(p, n) ==
  LET slices == SplitSchedule(p, n)
  IN /\ SumFunction([i \in DOMAIN slices |-> slices[i].qty]) = Remaining(p)
     /\ Len(slices) <= n
     /\ \A i, k \in DOMAIN slices : i <= k => slices[i].at <= slices[k].at
     /\ \A i \in DOMAIN slices :
          /\ slices[i].qty > 0 /\ OutsideWindows(slices[i].at, n)
          /\ slices[i].at >= n * p.start \/ p.start >= SessionClose - AvoidClose
=============================================================================
