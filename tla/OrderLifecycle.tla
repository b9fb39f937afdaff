--------------------------- MODULE OrderLifecycle ---------------------------
(***************************************************************************)
(* The order lifecycle of one symbol inside the backtest loop: the main    *)
(* loop of PipelineRunner.run, its open-order processing and slicing, and  *)
(* FillSimulator's submit / cancel latency gating, queue gate and fills.   *)
(*                                                                         *)
(* The program is one thread, so a step is a step of the loop: pc says     *)
(* which loop is running and todo which children it has still to visit.    *)
(*                                                                         *)
(*   "tick"   the next state is to be read          (Tick)                 *)
(*   "open"   _process_open_orders begins           (Open...)              *)
(*   "decide" its loop over cancel/replace actions  (Decide...)            *)
(*   "fill"   simulate_fills, called from there     (Fill...)              *)
(*   "route"  the rest of the iteration: signal, parent order, slicing     *)
(*   "first"  simulate_fills for the child just sliced (Fill...)           *)
(*                                                                         *)
(* Market data is abstracted to what the control tells apart: whether the  *)
(* state is tradable, has a mid price and raises a VI event, how far a     *)
(* child's price is from the best quote, whether a child is marketable,    *)
(* whether the queue ahead of it is consumed, and how much it matches.     *)
(***************************************************************************)
EXTENDS Integers, FiniteSets, Shares

CONSTANTS
  MaxChild,       \* bound: children one parent order may create
  MaxQty,         \* bound: largest parent quantity
  MaxTime,        \* bound: timestamp of the last state of the run
  TickMs,         \* canonical tick interval, the distance between states
  Delay,          \* market_data_delay_ms + decision_compute_ms
  SubmitLatency,  \* values sample_submit_and_ack_latency can return
  CancelLatency,  \* values sample_cancel_latency can return
  Interval,       \* TimingLogic.interval_seconds
  Deadline,       \* parent.end_time - deadline_urgency_seconds
  Timeout,        \* timeout_seconds, or cancel_after_ticks in time units
  MaxReprices,    \* the max_reprices hint; MaxChild or more stands for no hint
  MaxOpen,        \* SafetyGuardrails.max_open_orders
  Style,          \* the configured placement policy's name
  Modes           \* placement_mode hints a signal may carry ("none": no hint)

Child == 1 .. MaxChild

Policies == {"PassivePlacement", "AggressivePlacement", "SpreadAdaptivePlacement"}
PassiveModes == {"passive_join", "passive_only"}
ModeHints == PassiveModes \cup {"none", "aggressive_cross", "adaptive"}

ASSUME LifecycleAssumption ==
  /\ MaxChild \in Nat \ {0}
  /\ MaxQty \in Nat \ {0}
  /\ MaxTime \in Nat
  /\ TickMs \in Nat \ {0}
  /\ Delay \in Nat
  /\ SubmitLatency \subseteq Nat /\ SubmitLatency # {}
  /\ CancelLatency \subseteq Nat /\ CancelLatency # {}
  /\ Interval \in Nat /\ Deadline \in Nat /\ Timeout \in Nat
  /\ MaxReprices \in Nat /\ MaxOpen \in Nat
  /\ Style \in Policies
  /\ Modes \subseteq ModeHints

VARIABLES
  pc,        \* where the loop iteration is
  now,       \* timestamp of the true state
  market,    \* the true state, and the micro-events it raised
  halted,    \* MicroEventHandler._halt_active
  parent,    \* the symbol's entry of _active_parent_orders, or the last one
  child,     \* parent.child_orders, by position in the list
  n,         \* len(parent.child_orders)
  open,      \* the symbol's entry of _open_child_orders
  todo,      \* children the running loop has still to visit
  exec,      \* executable_children
  pending,   \* FillSimulator._cancel_pending_count
  lastSent   \* _last_child_submission of the symbol

vars == <<pc, now, market, halted, parent, child, n, open, todo, exec, pending, lastSent>>

-----------------------------------------------------------------------------
(* Orders *)

NoTime == -1

ActiveStatus == {"OPEN", "PARTIAL", "PENDING"}
FinalStatus  == {"FILLED", "CANCELLED"}

\* A position of child_orders not used yet.
NoChild == [status |-> "NONE", qty |-> 0, filled |-> 0, tif |-> "DAY", policy |-> "none",
            passive |-> FALSE, pending |-> FALSE, arrival |-> 0, cancelAt |-> 0,
            submitAt |-> 0, requested |-> 0, reprices |-> 0, queued |-> FALSE, rested |-> FALSE]

NoParent == [active |-> FALSE, total |-> 0, filled |-> 0, mode |-> "none"]

IsActive(c)     == child[c].status \in ActiveStatus
Remaining(c)    == child[c].qty - child[c].filled
ParentRemaining == parent.total - parent.filled
\* _sync_open_children
ActiveChildren  == {c \in Child : IsActive(c)}

\* Quantity committed to active children: in_flight_qty of _slice_order.
InFlightOf(ch) ==
  [c \in Child |-> IF ch[c].status \in ActiveStatus THEN ch[c].qty - ch[c].filled ELSE 0]
FilledOf(ch) == [c \in Child |-> ch[c].filled]
InFlight == Total(InFlightOf(child))

-----------------------------------------------------------------------------
(* Time and market *)

\* _lookup_observed_state: the latest state at or before now - Delay, else
\* the earliest one (at time 0).
Observed_NoFallback == ((now - Delay) \div TickMs) * TickMs    \* mutant

Observed == IF now < Delay THEN 0 ELSE ((now - Delay) \div TickMs) * TickMs

\* is_tradable
Actionable == market.tradable /\ ~market.halt /\ ~market.vi

\* finalize_cancel_if_due holds for this child
CancelDue(c) == child[c].pending /\ now >= child[c].cancelAt

\* The venue has not seen the order yet.  An arrival less than one canonical
\* tick ahead counts as arrived.
NotArrived(c) == now < child[c].arrival /\ child[c].arrival - now >= TickMs

Cancelled_StatusKept(ch) == [ch EXCEPT !.pending = FALSE]    \* mutant

Cancelled(ch) == [ch EXCEPT !.status = "CANCELLED", !.pending = FALSE]

\* What _clear_cancel_pending takes off the counter for a child, and for k of them.
Cleared(c) == IF child[c].pending THEN 1 ELSE 0
PendingLess(k) == IF pending > k THEN pending - k ELSE 0

\* The child the running loop visits next, the earliest in the list, and what
\* it has left to visit after it.
IsNext(c) == c \in todo /\ \A d \in todo : c <= d

Rest(c) == todo \ {c}

-----------------------------------------------------------------------------
Init ==
  /\ pc = "route"
  /\ now = 0
  /\ market \in [tradable : BOOLEAN, halt : {FALSE}, vi : {FALSE}, mid : BOOLEAN]
  /\ halted = FALSE
  /\ parent = NoParent
  /\ child = [c \in Child |-> NoChild]
  /\ n = 0
  /\ open = {}
  /\ todo = {}
  /\ exec = {}
  /\ pending = 0
  /\ lastSent = NoTime

(* One state of the data: history, observed state and micro-events.  A halt
   event is raised on the transition to untradable only; VI detection runs on
   tradable states only. *)
Tick ==
  /\ pc = "tick"
  /\ now + TickMs <= MaxTime
  /\ now' = now + TickMs
  /\ \E tradable, vi, mid \in BOOLEAN :
       /\ vi => tradable
       /\ market' = [tradable |-> tradable, halt |-> ~tradable /\ ~halted, vi |-> vi, mid |-> mid]
       /\ halted' = ~tradable
  /\ pc' = IF parent.active /\ open # {} THEN "open" ELSE "route"
  /\ UNCHANGED <<parent, child, n, open, todo, exec, pending, lastSent>>

-----------------------------------------------------------------------------
(* _process_open_orders *)

\* mutants: the halt test before the due cancels; a finalized child kept in the list
Due_IfActionable == {c \in open : CancelDue(c) /\ Actionable}
Live_All == open

Due  == {c \in open : CancelDue(c)}
Live == open \ Due
Finalized == [c \in Child |-> IF c \in Due THEN Cancelled(child[c]) ELSE child[c]]

\* Every open child had a due cancel.
OpenAllFinalized ==
  /\ pc = "open"
  /\ Live = {}
  /\ child' = Finalized
  /\ pending' = PendingLess(Cardinality(Due))
  /\ open' = ActiveChildren'
  /\ pc' = "route"
  /\ UNCHANGED <<now, market, halted, parent, n, todo, exec, lastSent>>

\* register_cancel_request: the child stays executable until the cancel is effective.
CancelRequested(c, lat) == [child[c] EXCEPT !.pending = TRUE, !.cancelAt = now + lat]

\* The children a halt asks to cancel, unless a request is in flight.
HaltCancels == IF market.halt THEN {c \in Live : ~child[c].pending} ELSE {}

\* The state is not actionable: nothing trades, and the tick that raises the
\* halt requests the cancel of every live child.
OpenNotActionable ==
  /\ pc = "open"
  /\ Live # {} /\ ~Actionable
  /\ \E lat \in [HaltCancels -> CancelLatency] :
       child' = [c \in Child |->
                   IF c \in HaltCancels THEN CancelRequested(c, lat[c]) ELSE Finalized[c]]
  /\ pending' = PendingLess(Cardinality(Due)) + Cardinality(HaltCancels)
  /\ open' = ActiveChildren'
  /\ pc' = "route"
  /\ UNCHANGED <<now, market, halted, parent, n, todo, exec, lastSent>>

Candidates_WithPending == {c \in Live : child[c].status # "PENDING"}    \* mutant

Candidates == {c \in Live : ~child[c].pending /\ child[c].status # "PENDING"}

\* decision_candidates are decided on; in-flight submits and cancels only run.
OpenActionable ==
  /\ pc = "open"
  /\ Live # {} /\ Actionable
  /\ child' = Finalized
  /\ pending' = PendingLess(Cardinality(Due))
  /\ todo' = Candidates
  /\ exec' = Live \ Candidates
  /\ pc' = "decide"
  /\ UNCHANGED <<now, market, halted, parent, n, open, lastSent>>

-----------------------------------------------------------------------------
(* CancelReplaceLogic.process_open_orders, one child at a time.  away is the
   child's distance from the best quote in the observed state: "near" (up to
   stale_levels), "stale", "far" (more than twice that). *)

TimedOut_TrueClock(c) == now - child[c].submitAt >= Timeout    \* mutant

TimedOut(c) == Observed - child[c].submitAt >= Timeout

Decision(c, away, adverse) ==
  CASE TimedOut(c) /\ parent.mode \in PassiveModes /\ away = "near" ->
         "keep"    \* and should_replace finds it near
    [] TimedOut(c) /\ ~(parent.mode \in PassiveModes /\ away = "near") -> "cancel"
    [] ~TimedOut(c) /\ (adverse \/ away = "far") -> "cancel"
    [] ~TimedOut(c) /\ ~adverse /\ away = "stale" /\ child[c].reprices < MaxReprices -> "replace"
    [] OTHER -> "keep"

DecideKeep(c) ==
  /\ \E away \in {"near", "stale", "far"}, adverse \in BOOLEAN : Decision(c, away, adverse) = "keep"
  /\ exec' = exec \cup {c}
  /\ UNCHANGED <<child, n, pending, lastSent>>

\* _request_cancel_child
DecideCancel(c) ==
  /\ \E away \in {"near", "stale", "far"}, adverse \in BOOLEAN : Decision(c, away, adverse) = "cancel"
  /\ \E lat \in CancelLatency :
       child' = [child EXCEPT ![c] = CancelRequested(c, lat)]
  /\ pending' = pending + 1
  /\ exec' = exec \cup {c}
  /\ UNCHANGED <<n, lastSent>>

\* The new child of _replace_child_order takes the rest of the quantity, with a
\* submit latency of its own.  It inherits the hints but no placement_policy.
Replacement(c, lat) ==
  [NoChild EXCEPT !.status = "PENDING", !.qty = Remaining(c), !.tif = child[c].tif,
                  !.passive = child[c].passive, !.arrival = now + lat,
                  !.submitAt = Observed, !.requested = now, !.reprices = child[c].reprices + 1]

\* _replace_child_order: the old child is cancelled at once.
DecideReplace(c) ==
  /\ \E away \in {"near", "stale", "far"}, adverse \in BOOLEAN : Decision(c, away, adverse) = "replace"
  /\ n < MaxChild
  /\ \E lat \in SubmitLatency :
       child' = [child EXCEPT ![c] = Cancelled(@), ![n + 1] = Replacement(c, lat)]
  /\ n' = n + 1
  /\ exec' = exec \cup {n + 1}
  /\ lastSent' = Observed
  /\ UNCHANGED pending

Decide ==
  /\ pc = "decide"
  /\ \E c \in todo :
       /\ IsNext(c)
       /\ todo' = Rest(c)
       /\ DecideKeep(c) \/ DecideCancel(c) \/ DecideReplace(c)
  /\ UNCHANGED <<pc, now, market, halted, parent, open>>

\* simulate_fills(parent, executable_children); without a mid it visits none.
DecideDone ==
  /\ pc = "decide" /\ todo = {}
  /\ todo' = IF market.mid THEN exec ELSE {}
  /\ exec' = {}
  /\ pc' = "fill"
  /\ UNCHANGED <<now, market, halted, parent, child, n, open, pending, lastSent>>

-----------------------------------------------------------------------------
(* FillSimulator.simulate_fills: the loop body, one action per way out.     *)

InFillLoop == pc \in {"fill", "first"}

\* The child got past the parent guard, the cancel and the arrival test.
AtVenue(c) == ParentRemaining > 0 /\ ~CancelDue(c) /\ ~NotArrived(c)

\* _is_passive_queue_candidate, for a child that is not marketable
QueueCandidate(c) ==
  /\ child[c].tif # "IOC"
  /\ \/ parent.mode \in PassiveModes
     \/ child[c].policy \in {"PassivePlacement", "SpreadAdaptivePlacement"}

\* The parent is complete already, or a cancel request has become effective.
FillCancelled(c) ==
  /\ ParentRemaining <= 0 \/ CancelDue(c)
  /\ child' = [child EXCEPT ![c] = Cancelled(@)]
  /\ pending' = PendingLess(Cleared(c))
  /\ UNCHANGED parent

FillNotArrived(c) ==
  /\ ParentRemaining > 0 /\ ~CancelDue(c) /\ NotArrived(c)
  /\ child' = [child EXCEPT ![c].status = "PENDING"]
  /\ UNCHANGED <<parent, pending>>

\* The queue gate holds a passive order back.
FillQueued(c) ==
  /\ AtVenue(c) /\ QueueCandidate(c)
  /\ child' = [child EXCEPT ![c].status = "OPEN", ![c].queued = TRUE]
  /\ UNCHANGED <<parent, pending>>

\* Whether the order has been held in the queue, this visit included.
Queued(c, marketable) == child[c].queued \/ (~marketable /\ QueueCandidate(c))

\* Nothing matches: an IOC order is cancelled, any other rests.
FillUnmatchedIoc(c) ==
  /\ AtVenue(c) /\ child[c].tif = "IOC"
  /\ child' = [child EXCEPT ![c] = Cancelled(@)]
  /\ pending' = PendingLess(Cleared(c))
  /\ UNCHANGED parent

FillUnmatched(c) ==
  /\ AtVenue(c) /\ child[c].tif # "IOC"
  /\ \E marketable \in BOOLEAN :
       child' = [child EXCEPT ![c].status = "OPEN", ![c].queued = Queued(c, marketable)]
  /\ UNCHANGED <<parent, pending>>

ParentFilled_Cumulative(c, q) == [parent EXCEPT !.filled = @ + child[c].filled + q]    \* mutant

ParentFilled(c, q) == [parent EXCEPT !.filled = @ + q]

\* The child after q more shares: complete, it is done and drops its cancel request.
Completes(c, q) == child[c].filled + q >= child[c].qty

Matched(c, q, marketable) ==
  [child[c] EXCEPT !.filled = @ + q,
                   !.status = IF Completes(c, q) THEN "FILLED" ELSE "PARTIAL",
                   !.pending = @ /\ ~Completes(c, q),
                   !.queued = Queued(c, marketable),
                   !.rested = @ \/ ~marketable]

\* q shares match, at most what child and parent have left.
FillMatched(c) ==
  /\ AtVenue(c)
  /\ \E q \in 1 .. MaxQty, marketable \in BOOLEAN :
       /\ q <= Remaining(c) /\ q <= ParentRemaining
       /\ child' = [child EXCEPT ![c] = Matched(c, q, marketable)]
       /\ pending' = PendingLess(IF Completes(c, q) THEN Cleared(c) ELSE 0)
       /\ parent' = ParentFilled(c, q)

Fill ==
  /\ InFillLoop
  /\ \E c \in todo :
       /\ IsNext(c)
       /\ todo' = Rest(c)
       /\ \/ FillCancelled(c) \/ FillNotArrived(c) \/ FillQueued(c)
          \/ FillUnmatchedIoc(c) \/ FillUnmatched(c) \/ FillMatched(c)
  /\ UNCHANGED <<pc, now, market, halted, n, open, exec, lastSent>>

\* _sync_open_children, and the parent is popped when it is complete.
FillDone ==
  /\ InFillLoop /\ todo = {}
  /\ parent' = [parent EXCEPT !.active = ParentRemaining > 0]
  /\ open' = IF ParentRemaining > 0 THEN ActiveChildren ELSE {}
  /\ pc' = IF pc = "fill" THEN "route" ELSE "tick"
  /\ UNCHANGED <<now, market, halted, child, n, todo, exec, pending, lastSent>>

-----------------------------------------------------------------------------
(* The rest of the iteration *)

\* The state is not actionable or has no mid: continue.
SkipTick ==
  /\ pc = "route"
  /\ ~Actionable \/ ~market.mid
  /\ pc' = "tick"
  /\ UNCHANGED <<now, market, halted, parent, child, n, open, todo, exec, pending, lastSent>>

\* No active parent, and the strategy has no signal, or no order comes of it.
NoOrder ==
  /\ pc = "route"
  /\ Actionable /\ market.mid /\ ~parent.active
  /\ pc' = "tick"
  /\ UNCHANGED <<now, market, halted, parent, child, n, open, todo, exec, pending, lastSent>>

\* _create_parent_order: the previous parent's children are no longer reached.
CreateParentOrder ==
  /\ pc = "route"
  /\ Actionable /\ market.mid /\ ~parent.active
  /\ \E total \in 1 .. MaxQty, mode \in Modes :
       parent' = [active |-> TRUE, total |-> total, filled |-> 0, mode |-> mode]
  /\ child' = [c \in Child |-> NoChild]
  /\ n' = 0
  /\ UNCHANGED <<pc, now, market, halted, open, todo, exec, pending, lastSent>>

\* TimingLogic.should_send, on the observed clock
ShouldSend ==
  \/ Observed >= Deadline
  \/ lastSent = NoTime
  \/ Observed - lastSent >= Interval

\* resolve_placement_policy
EffectivePolicy ==
  CASE parent.mode \in PassiveModes -> "PassivePlacement"
    [] parent.mode = "aggressive_cross" -> "AggressivePlacement"
    [] parent.mode = "adaptive" -> "SpreadAdaptivePlacement"
    [] OTHER -> Style

\* Whether the policy can place a resting DAY order, or a crossing IOC one.
TifOf(policy) ==
  CASE policy = "PassivePlacement" -> {"DAY"}
    [] policy = "AggressivePlacement" -> {"IOC"}
    [] OTHER -> {"DAY", "IOC"}

EffectiveRemaining_NoInFlight == ParentRemaining    \* mutant

EffectiveRemaining == ParentRemaining - InFlight

\* The child of _slice_order.
Sliced(q, tif, lat) ==
  [NoChild EXCEPT !.status = "PENDING", !.qty = q, !.tif = tif, !.policy = EffectivePolicy,
                  !.passive = (tif = "DAY"), !.arrival = now + lat,
                  !.submitAt = Observed, !.requested = now]

\* _slice_order appends a child; it is simulated at once, alone.
SliceOrder ==
  /\ pc = "route"
  /\ Actionable /\ market.mid /\ parent.active
  /\ ShouldSend
  /\ Cardinality(ActiveChildren) < MaxOpen
  /\ n < MaxChild
  /\ \E q \in 1 .. MaxQty, tif \in TifOf(EffectivePolicy), lat \in SubmitLatency :
       /\ q <= EffectiveRemaining
       /\ child' = [child EXCEPT ![n + 1] = Sliced(q, tif, lat)]
  /\ n' = n + 1
  /\ todo' = {n + 1}
  /\ lastSent' = Observed
  /\ pc' = "first"
  /\ UNCHANGED <<now, market, halted, parent, open, exec, pending>>

\* No child: too early, nothing uncommitted, a zero slice or a guardrail.
SliceNothing ==
  /\ pc = "route"
  /\ Actionable /\ market.mid /\ parent.active
  /\ open' = ActiveChildren
  /\ pc' = "tick"
  /\ UNCHANGED <<now, market, halted, parent, child, n, todo, exec, pending, lastSent>>

-----------------------------------------------------------------------------
\* The data is exhausted: the run is over.
Finished == pc = "tick" /\ now + TickMs > MaxTime /\ UNCHANGED vars

ProcessOpenOrders == OpenAllFinalized \/ OpenNotActionable \/ OpenActionable

Next ==
  \/ Tick
  \/ ProcessOpenOrders
  \/ Decide \/ DecideDone
  \/ Fill \/ FillDone
  \/ SkipTick \/ NoOrder \/ CreateParentOrder \/ SliceOrder \/ SliceNothing
  \/ Finished

Spec == Init /\ [][Next]_vars

-----------------------------------------------------------------------------
(* Invariants *)

ChildRecord ==
  [status : ActiveStatus \cup FinalStatus \cup {"NONE"}, qty : 0 .. MaxQty, filled : 0 .. MaxQty,
   tif : {"DAY", "IOC"}, policy : Policies \cup {"none"}, passive : BOOLEAN,
   pending : BOOLEAN, arrival : Nat, cancelAt : Nat, submitAt : Nat, requested : Nat,
   reprices : Nat, queued : BOOLEAN, rested : BOOLEAN]

\* The state of one symbol's order lifecycle is well formed.
TypeOK ==
  /\ pc \in {"tick", "open", "decide", "fill", "route", "first"}
  /\ now \in 0 .. MaxTime
  /\ market \in [tradable : BOOLEAN, halt : BOOLEAN, vi : BOOLEAN, mid : BOOLEAN]
  /\ halted \in BOOLEAN
  /\ parent \in [active : BOOLEAN, total : 0 .. MaxQty, filled : 0 .. MaxQty, mode : ModeHints]
  /\ child \in [Child -> ChildRecord]
  /\ n \in 0 .. MaxChild
  /\ open \subseteq Child /\ todo \subseteq Child /\ exec \subseteq Child
  /\ pending \in Nat
  /\ lastSent \in Nat \cup {NoTime}

\* A parent order never buys or sells more than its total: what is filled and
\* what its live children may still fill stay within it, whatever is replaced,
\* cancelled late or filled while a cancel is in flight.
NoOverfill == parent.filled + InFlight <= parent.total

\* The parent's filled quantity is what its children filled, replaced and
\* cancelled ones included.
FillAccounting == parent.filled = Total(FilledOf(child))

\* Between ticks the runner's list of open children is exactly the set of live
\* children, and once the parent is complete and popped no child of it lives on
\* (nothing would ever cancel it).
OpenInSync ==
  pc \in {"tick", "route"} =>
    open = ActiveChildren /\ (~parent.active => ActiveChildren = {})

\* The simulator's counter of cancels in flight, which outlives the parent
\* orders, counts the live children with a cancel request and nothing else.
PendingCountExact ==
  /\ pending = Cardinality({c \in Child : child[c].pending})
  /\ \A c \in Child : child[c].pending => IsActive(c)

\* A cancel takes effect no later than the first tick at or after its effective
\* time, also when that tick is halted or has no mid price.
CancelTimely == pc = "tick" => \A c \in Child : child[c].pending => now <= child[c].cancelAt

\* The timeout is measured between two observed states, the order's life in the
\* market runs on the true clock from its submit request on.  No order times out
\* before its true age has reached the timeout, and none older than the timeout
\* by the observation delay, rounded up to ticks, is still not timed out.
\* (_process_open_orders, _lookup_observed_state, register_submit_request)
TimeoutsKeepTime ==
  pc = "decide" => \A c \in todo :
    LET age == now - child[c].requested
    IN /\ TimedOut(c) => age >= Timeout
       /\ age - Timeout >= Delay + TickMs - 1 => TimedOut(c)

(* Action properties *)

\* A child that was filled or cancelled is never touched again: no step reopens
\* it, fills it or moves its timestamps.
FinalChildrenStay ==
  [][\/ CreateParentOrder
      \/ \A c \in Child : child[c].status \in FinalStatus => child'[c] = child[c]]_vars

(* Claims of the comments that the code does not keep *)

\* OrderTIF.IOC, "Immediate Or Cancel": an IOC child that has been at the venue
\* does not rest there.
IocNeverRests ==
  pc = "tick" => \A c \in Child : child[c].tif = "IOC" => child[c].status \notin {"OPEN", "PARTIAL"}

\* "non-marketable passive orders must first burn through ahead queue before
\* matching can occur": a passive child filled as a resting order was queued.
PassiveFillsQueued ==
  \A c \in Child : child[c].passive /\ child[c].rested => child[c].queued
=============================================================================
