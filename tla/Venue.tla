------------------------------- MODULE Venue --------------------------------
(***************************************************************************)
(* The simulated exchange as the pipeline uses it: InstrumentedFillSimulator*)
(* over the matching engine, the queue gate, the latency and fee models,   *)
(* with the event bus.  One parent order is worked with a few children.    *)
(* OrderLifecycle has the pipeline around it, with any fill a match could  *)
(* give; here the fill, the queue and the events are computed.             *)
(***************************************************************************)
EXTENDS QueueGate, Slicing, Monitoring, RunReports, TLC

CONSTANTS
  Books, Tapes,        \* snapshots and trades of one state
  Gaps,                \* time between states
  Tick,                \* canonical tick interval
  SubmitBase, AckBase, CancelBase,   \* LatencyProfile
  Noise,               \* jitter added to a base latency
  Draws,               \* random numbers of the "random" queue model, in Units
  Engine,              \* configuration of the matching engine
  Models,              \* queue models to check
  Policies, Modes,     \* placement policies and placement modes of the hints
  OrderQty,            \* quantity of the parent
  MaxChildren, MaxTicks

ASSUME VenueAssumption ==
  /\ \A book \in Books : {book.bids, book.asks} \subseteq Seq(Level)
  /\ \A tape \in Tapes : IsFiniteSet(DOMAIN tape) /\ \A p \in DOMAIN tape : p \in Nat /\ tape[p] \in Nat
  /\ Policies \subseteq {"passive", "adaptive", "aggressive", "market"}
  /\ Gaps \subseteq Nat \ {0} /\ Tick \in Nat /\ Noise \subseteq Int /\ Noise # {}
  /\ {SubmitBase, AckBase, CancelBase} \subseteq Nat
  /\ Draws \subseteq 0 .. Units - 1 /\ Engine \in Engines /\ Models \subseteq QueueModels
  /\ OrderQty \in Nat \ {0} /\ MaxChildren \in Nat \ {0} /\ MaxTicks \in Nat

VARIABLES
  config,      \* [side, model, arrival2] of the run
  market,      \* [now, tick, state]; state: the book and tape a child may still be sliced in, or <<>>
  children,    \* child orders, by submission
  filled,      \* parent.filled_qty
  bus,         \* EventBus._events
  diag         \* the simulator's counters for its diagnostics

vars == << config, market, children, filled, bus, diag >>

IsActive(c) == c.status \in {"PENDING", "OPEN", "PARTIAL"}
Remaining(c) == c.qty - c.filled

Sample_Negative(base) == {base + noise : noise \in Noise}       \* mutant
\* LatencyModel._sample
Sample(base) == {Greatest(0, base + noise) : noise \in Noise}

-----------------------------------------------------------------------------
(* The parts of simulate_fills.  A step works on s: the children, the bus, *)
(* the parent's filled quantity and the counters.                          *)

\* register_submit_request, which runs once for a child.
Registered(c, now, submit, ack) ==
  [c EXCEPT !.requested = now, !.arrives = now + submit, !.acked = now + submit + ack]

SubmitEvent(id, c) ==
  [kind |-> "submit", id |-> id, tick |-> market.tick, at |-> c.requested,
   requested |-> c.requested, arrives |-> c.arrives, acked |-> c.acked]

\* finalize_cancel_if_due: its test and its effect.
CancelDue(c, now) == c.cancelPending /\ now >= c.effective
Cancelled(c) ==
  [c EXCEPT !.cancelPending = FALSE,
            !.status = IF Remaining(c) <= 0 THEN @ ELSE "CANCELLED"]

\* An order less than one canonical tick ahead of its arrival counts as arrived.
NotArrived(c, now) == now < c.arrives /\ c.arrives - now >= Tick

QueueTickEvent(id, m, before, c, after, passed) ==
  LET trade == Units * SameLevelTrade(c, m.tape)
      afterTrade == Greatest(0, before - trade)
  IN [kind |-> "tick", id |-> id, tick |-> m.tick, at |-> m.now, before |-> before,
      trade |-> trade, level |-> Units * LevelQty(c, m.book),
      byTrade |-> Least(before, trade), byDepth |-> Greatest(0, afterTrade - after),
      after |-> after, passed |-> passed]

FillEvent(id, m, c, fill) ==
  [kind |-> "fill", id |-> id, tick |-> m.tick, at |-> m.now, side |-> c.side,
   qty |-> fill.qty, cost |-> fill.cost, fee |-> Fee(c.side, fill.cost),
   arrival2 |-> c.arrival2, slippage |-> Slippage(c.side, fill, c.arrival2),
   maker |-> IsMaker(c, m.book), gated |-> PassiveCandidate(c, m.book),
   latency |-> c.acked - c.requested]

\* The fill of a child that the gate lets through, at the average price of the
\* match (the cost is rounded down when a fill over several levels is capped).
Traded(c, m, parentLeft) ==
  LET open == Least(Remaining(c), parentLeft)
      fill == Match(Engine, [c EXCEPT !.qty = open], m.book, m.tape)
      qty  == Least(CapFill(config.model, c, m.book, m.tape, fill.qty), parentLeft)
  IN IF fill.qty = 0 THEN NoFill ELSE [qty |-> qty, cost |-> (fill.cost * qty) \div fill.qty]

\* After the match: an IOC order without a fill ends, a partly filled one stays.
AfterMatch(c, fill) ==
  LET done == c.filled + fill.qty >= c.qty
      over == done \/ (fill.qty = 0 /\ c.tif = "IOC")
  IN [c EXCEPT !.filled = @ + fill.qty, !.cost = @ + fill.cost,
               !.cancelPending = @ /\ ~over,
               !.status = IF done THEN "FILLED"
                          ELSE IF fill.qty > 0 THEN "PARTIAL"
                          ELSE IF over THEN "CANCELLED" ELSE "OPEN"]

\* Matching of an arrived child, behind the gate if it is a passive candidate.
Worked(s, id, m, draw) ==
  LET c      == s.children[id]
      gated  == GateEnabled(config.model) /\ PassiveCandidate(c, m.book)
      joined == IF gated THEN JoinQueue(c, m.book, m.now) ELSE c
      depth  == DepthAdvance(config.model, Unexplained(joined, m.book, m.tape), draw)
      moved  == IF gated THEN Advanced(joined, m.book, m.tape, depth) ELSE c
      passed == gated => Ready(moved, m.book)
      init   == [kind |-> "init", id |-> id, tick |-> m.tick, at |-> m.now,
                 ahead |-> joined.ahead, level |-> joined.level0]
      log    == IF gated
                THEN Emit(Emit(s.bus, init), QueueTickEvent(id, m, joined.ahead, c, moved.ahead, passed))
                ELSE s.bus
      fill   == IF passed THEN Traded(moved, m, OrderQty - s.filled) ELSE NoFill
      opened == IF gated /\ passed THEN CountReady(s.diag, moved, m.now) ELSE s.diag
      after  == IF passed THEN AfterMatch([moved EXCEPT !.readySeen = @ \/ gated], fill)
                ELSE [moved EXCEPT !.status = "OPEN"]
  IN [children |-> [s.children EXCEPT ![id] = after],
      filled   |-> s.filled + fill.qty,
      diag     |-> IF ~passed THEN [s.diag EXCEPT !.blocked = @ + 1]
                   ELSE IF fill.qty > 0 THEN CountFill(opened, c, m.now)
                   ELSE IF gated THEN [opened EXCEPT !.unfilled = @ + 1] ELSE opened,
      fills    |-> IF fill.qty = 0 THEN s.fills ELSE Append(s.fills, FillEvent(id, m, c, fill)),
      bus      |-> log]

\* simulate_fills for one child of the list.
SimulateChild(s, id, m, draw) ==
  LET c == s.children[id]
      set(d) == [s EXCEPT !.children[id] = d]
  IN IF OrderQty - s.filled <= 0 THEN set([c EXCEPT !.cancelPending = FALSE, !.status = "CANCELLED"])
     ELSE IF CancelDue(c, m.now) THEN [set(Cancelled(c)) EXCEPT !.diag = CountCancel(@, c, m.now)]
     ELSE IF NotArrived(c, m.now) THEN [set([c EXCEPT !.status = "PENDING"]) EXCEPT !.diag.early = @ + 1]
     ELSE IF Remaining(c) <= 0 THEN set([c EXCEPT !.cancelPending = FALSE, !.status = "FILLED"])
     ELSE Worked(s, id, m, draw)

\* simulate_fills for a list of children in their order; fill events follow
\* the events of all of them.  Without a mid price no child is visited.
SimulateFills(ids, cs, log, counts, m, draw) ==
  LET after[k \in 0 .. Len(ids)] ==
        IF k = 0 THEN [children |-> cs, filled |-> filled, fills |-> <<>>, bus |-> log, diag |-> counts]
        ELSE SimulateChild(after[k - 1], ids[k], m, draw[ids[k]])
      visited == IF HasMid(m.book) THEN Len(ids) ELSE 0
  IN \E end \in {after[visited]} :
     /\ children' = end.children
     /\ filled' = end.filled
     /\ bus' = end.bus \o end.fills
     /\ diag' = end.diag

-----------------------------------------------------------------------------
\* The snapshots of two sides, at which a parent can be made and worked.
Quoted == {book \in Books : HasMid(book)}

\* The parent arrives at the first state, whose mid its children are measured by.
Init ==
  /\ \E book \in Quoted, tape \in Tapes, side \in {"BUY", "SELL"}, model \in Models :
       /\ config = [side |-> side, model |-> model, arrival2 |-> Mid2(book)]
       /\ market = [now |-> 0, tick |-> 1, state |-> << book, tape >>]
  /\ children = <<>> /\ filled = 0 /\ bus = <<>> /\ diag = Counters0

\* _parent_can_submit and the quantity that is not in flight; and the bound.
CanSlice(cs, done) ==
  /\ Len(cs) < MaxChildren
  /\ FoldLeft(LAMBDA left, c : IF IsActive(c) THEN left - Remaining(c) ELSE left,
              OrderQty - done, cs) > 0

RandomOf(ids) == [ids -> IF config.model = "random" THEN Draws ELSE {0}]
ActiveIds == {i \in DOMAIN children : IsActive(children[i])}

\* The numbers of some children, in the order of their submission.
Listed(ids) == At([i \in DOMAIN children |-> i], ids)
InFlight  == FoldLeft(LAMBDA sum, i : sum + Remaining(children[i]), 0, Listed(ActiveIds))

NewChild(placed, mode, qty) ==
  [type |-> placed.type, tif |-> placed.tif, price |-> placed.price, policy |-> placed.policy,
   mode |-> mode, side |-> config.side, qty |-> qty, filled |-> 0, cost |-> 0,
   status |-> "PENDING", arrival2 |-> config.arrival2,
   requested |-> NoTime, arrives |-> NoTime, acked |-> NoTime,
   cancelPending |-> FALSE, cancelReq |-> NoTime, effective |-> NoTime,
   queued |-> FALSE, ahead |-> 0, level0 |-> 0, level |-> 0, entered |-> NoTime,
   readySeen |-> FALSE]

\* _slice_order and the first matching of the new child, in the same state.
Submit ==
  /\ market.state # <<>>
  /\ LET id == Len(children) + 1
         m  == [now |-> market.now, tick |-> market.tick,
                book |-> market.state[1], tape |-> market.state[2]]
     IN \E qty \in 1 .. OrderQty - filled - InFlight, policy \in Policies, mode \in Modes,
           submit \in Sample(SubmitBase), ack \in Sample(AckBase), draw \in RandomOf({id}) :
          LET placed == PlacedChild(Resolve(policy, mode), config.side, m.book)
              child  == Registered(NewChild(placed, mode, qty), m.now, submit, ack)
          IN SimulateFills(<<id>>, Append(children, child), Emit(bus, SubmitEvent(id, child)), diag, m, draw)
  /\ market' = [market EXCEPT !.state = <<>>]
  /\ UNCHANGED config

\* No child is sliced in this state.
NoSlice ==
  /\ market.state # <<>>
  /\ market' = [market EXCEPT !.state = <<>>]
  /\ UNCHANGED << config, children, filled, bus, diag >>

\* register_cancel_request: a second request changes nothing, but is an event.
Asked(c, now, delay) ==
  IF c.cancelPending THEN c
  ELSE [c EXCEPT !.cancelPending = TRUE, !.cancelReq = now, !.effective = now + delay]
CancelEvent(id, c, m) ==
  [kind |-> "cancel", id |-> id, tick |-> m.tick, at |-> m.now,
   requested |-> c.cancelReq, effective |-> c.effective]

Live(now) == {i \in ActiveIds : ~CancelDue(children[i], now)}

\* The counters after the cancels that are due.
Finalised(now) ==
  FoldLeft(LAMBDA d, i : IF CancelDue(children[i], now) THEN CountCancel(d, children[i], now) ELSE d,
           diag, Listed(ActiveIds))

\* The children after the due cancels and the requests for those in asked.
Settled(now, asked, delay) ==
  [i \in DOMAIN children |->
     IF IsActive(children[i]) /\ CancelDue(children[i], now) THEN Cancelled(children[i])
     ELSE IF i \in asked THEN Asked(children[i], now, delay[i]) ELSE children[i]]
CancelEvents(asked, cs, m) ==
  LET ids == Listed(asked)
  IN bus \o [k \in DOMAIN ids |-> CancelEvent(ids[k], cs[ids[k]], m)]

\* The next state, when it is actionable, up to the end of
\* _process_open_orders: due cancels are final, the cancel logic may ask for any
\* child that is at the venue and not asked for yet, and the children are
\* matched, those not decided on first.  Replacements are in OrderLifecycle.
\* Only a state with a mid price is then sliced in.
NextState ==
  /\ market.state = <<>> /\ market.tick < MaxTicks
  /\ \E book \in Books, tape \in Tapes, gap \in Gaps :
       LET m == [now |-> market.now + gap, tick |-> market.tick + 1, book |-> book, tape |-> tape]
           live  == Live(m.now)
           waits == {i \in live : children[i].cancelPending \/ children[i].status = "PENDING"}
           ids   == Listed(waits) \o Listed(live \ waits)
       IN /\ \E asked \in SUBSET (live \ waits) :
               \E delay \in [asked -> Sample(CancelBase)], draw \in RandomOf(live) :
                 LET cs == Settled(m.now, asked, delay)
                 IN SimulateFills(ids, cs, CancelEvents(asked, cs, m), Finalised(m.now), m, draw)
          /\ market' = [now |-> m.now, tick |-> m.tick,
                        state |-> IF HasMid(book) /\ CanSlice(children', filled')
                                  THEN << book, tape >> ELSE <<>>]
  /\ UNCHANGED config

\* The next state, when it is not actionable: nothing is matched, and the state
\* that raises a halt asks for the cancel of every child.
HaltedState ==
  /\ market.state = <<>> /\ market.tick < MaxTicks
  /\ \E gap \in Gaps :
       LET m == [now |-> market.now + gap, tick |-> market.tick + 1]
       IN /\ \E asked \in {{}, Live(m.now)} :
               \E delay \in [asked -> Sample(CancelBase)] :
                 LET cs == Settled(m.now, asked, delay)
                 IN children' = cs /\ bus' = CancelEvents(asked, cs, m) /\ diag' = Finalised(m.now)
          /\ market' = [now |-> m.now, tick |-> m.tick, state |-> <<>>]
  /\ UNCHANGED << config, filled >>

Finished ==
  /\ market.tick = MaxTicks /\ market.state = <<>>
  /\ UNCHANGED vars

Next == Submit \/ NoSlice \/ NextState \/ HaltedState \/ Finished

Spec == Init /\ [][Next]_vars

-----------------------------------------------------------------------------
\* The constant properties are evaluated where no child was sliced yet.
Quiet == market.tick = 1 /\ children = <<>> /\ market.state = <<>>

\* Orders of every kind the engine is given, at the prices of the tapes.
Orders == [side : {"BUY", "SELL"}, type : {"MARKET", "LIMIT"}, tif : {"DAY", "IOC", "FOK", "GTX"},
           price : {NoPrice} \cup UNION {DOMAIN tape : tape \in Tapes}, qty : 1 .. OrderQty + 1]
Sensible(o) == o.type = "MARKET" <=> o.price = NoPrice

\* A match never gives more than was asked, more than the levels up to the
\* limit hold or the tape traded at or through the price, or a price worse
\* than the limit; a resting fill is at the limit exactly.  FOK is all or
\* nothing, GTX never takes, and the no-partial engine alone invents volume.
\* (MatchingEngine.match, OrderBookSimulator)
MatchesAreSound ==
  Quiet => \A o \in Orders, book \in Quoted, tape \in Tapes, engine \in Engines : Sensible(o) =>
    LET fill  == Match(engine, o, book, tape)
        taken == Available(o.side, o.price, o.qty, book)
        inBook == IF o.type = "MARKET" THEN Depth(OppositeOf(o.side, book)) ELSE taken
        onTape == TradedThrough(o, tape) + TradedAt(o, tape)
    IN fill.qty > 0 =>
         /\ fill.qty <= o.qty
         /\ engine.noPartial \/ fill.qty <= (IF Marketable(o, book) THEN inBook ELSE onTape)
         /\ o.price # NoPrice => NoWorse(o.side, fill.cost, o.price * fill.qty)
         /\ ~Marketable(o, book) => fill.cost = o.price * fill.qty
         /\ o.tif = "FOK" \/ engine.wholeOnly => fill.qty = o.qty
         /\ o.tif = "GTX" => ~Marketable(o, book)

\* Every slicing policy plans the whole quantity, in slices of at least one
\* share at increasing states of the horizon; a child is never larger than
\* what is not in flight, and every policy but POV, asked for the one current
\* state, sends all of that at once.
\* (generate_schedule of the four slicers, _spread_indices, _slice_order)
SlicesAreComplete ==
  Quiet =>
    /\ \A total \in 1 .. 7, steps \in 1 .. 4, gap \in {0, 7, 15, 20, 30} :
         \A depths \in [1 .. steps -> {0, 1, 5}] :
           /\ IsWhole(Twap(total, steps, gap), total, steps)
           /\ IsWhole(Vwap(total, depths), total, steps)
           /\ IsWhole(Pov(total, depths), total, steps)
           /\ (\E i \in 1 .. steps : depths[i] > 0) => IsWhole(AlmgrenChriss(total, depths), total, steps)
    /\ \A total \in 1 .. 4, effective \in 1 .. 4, book \in Books, algo \in {"TWAP", "VWAP", "POV", "AC"} :
         effective <= total => IsNextChild(algo, total, effective, book)

\* The queue ahead of a child is only taken by what was really seen: after each
\* tick, at least the joined volume less the trades at its price and less the
\* drops of its level, from one tick's level to the next's, that the trades do
\* not explain.  The gate opens only when nothing is ahead and, under a gated
\* model, a resting fill comes only in a tick in which it is open (which the bus
\* shows unless it drops the ticks of that child).
\* (_initialize_queue_state, _advance_queue_and_ready, simulate_fills)
QueueDiscipline ==
  \A id \in DOMAIN children :
    LET ticks  == QueryChild(bus, "tick", id)
        level(k) == IF k = 0 THEN children[id].level0 ELSE ticks[k].level
        drop(k)  == Greatest(0, level(k - 1) - level(k) - ticks[k].trade)
        seen[k \in 0 .. Len(ticks)] == IF k = 0 THEN 0 ELSE seen[k - 1] + ticks[k].trade + drop(k)
    IN /\ \A k \in DOMAIN ticks :
            /\ ticks[k].after >= children[id].level0 - seen[k]
            /\ ticks[k].passed => ticks[k].after = 0
       /\ \A e \in ToSet(QueryChild(bus, "fill", id)) :
            e.gated /\ GateEnabled(config.model) /\ Kept(id) =>
              \E k \in DOMAIN ticks : ticks[k].at = e.at /\ ticks[k].passed

\* The reports and the counters tell the story of the orders: quantities, cost
\* and shortfall of the fills are those of the children, every child that is not
\* active is complete or cancelled and waits for no cancel, and a late fill is a
\* fill in the states from the request of a cancel on.
\* (ExecutionMetrics.compute, queue_diagnostics, latency_diagnostics)
ReportsMatchOrders ==
  LET fills  == Query(bus, "fill")
      report == ExecutionReport(children, fills, OrderQty, config.arrival2)
      queue  == QueueDiagnostics(diag)
      times  == LatencyDiagnostics(diag, Len(fills))
      sign   == IF config.side = "BUY" THEN 1 ELSE -1
      cost   == SumOver(LAMBDA c : c.cost, children)
  IN /\ filled = SumOver(LAMBDA c : c.filled, children)
     /\ \A c \in ToSet(children) : /\ c.status = "FILLED" <=> c.filled = c.qty
                                   /\ c.cancelPending => IsActive(c) /\ c.cancelReq <= c.effective
     /\ report.fillRate = << filled, OrderQty >>
     /\ report.vwap = << cost, filled >>
     /\ filled > 0 /\ config.arrival2 # 0 =>
          report.shortfall[1] = sign * (2 * cost - filled * config.arrival2)
     /\ report.cancelled = CountOf(LAMBDA c : ~IsActive(c) /\ c.filled # c.qty, children)
     /\ report.makers <= filled /\ report.latency = times.fill
     /\ queue.wait[2] = CountOf(LAMBDA c : c.readySeen, children)
     /\ (\A id \in DOMAIN children : Kept(id)) =>
          queue.blocked = CountOf(LAMBDA e : e.kind = "tick" /\ ~e.passed, bus)
     /\ times.late = CountOf(LAMBDA e : /\ children[e.id].cancelReq # NoTime
                                        /\ e.at >= children[e.id].cancelReq, fills)
     /\ times.lag[2] <= report.cancelled

\* What the verifiers report of any run of the simulator: no slippage and no
\* latency is ever wrong, the queue only fails because an open gate shuts again
\* with nothing ahead (the price left the order), and the fee check fails
\* exactly for the sales, whose tax it takes from the other market, once the
\* difference exceeds the tolerance (when both take the same commission).
\* (run_all_verifiers, the four verifiers)
VerifiersAreExact ==
  LET report == Report(bus)
      fills  == Query(bus, "fill")
      taxGap == MarketTaxBps - VerifierTaxBps
  IN /\ report.slippages = {} /\ report.latencies = {}
     /\ CommissionBps = VerifierFeeBps =>
          report.fees = {k \in DOMAIN fills : fills[k].side = "SELL" /\ Abs(fills[k].cost * taxGap) > FeeTolerance}
     /\ \A id \in report.queues :
          LET ticks == QueryChild(bus, "tick", id)
          IN /\ QueueViolation(ticks) = "gate_reverted_after_pass"
             /\ \E k \in DOMAIN ticks : ~ticks[k].passed /\ ticks[k].after = 0

\* The reports of the monitor count each child once, whatever the bus drops, and
\* every fill on one side.
\* (build_queue_report, build_fill_report)
ChildrenCountOnce ==
  LET queue == QueueReport(bus)
  IN /\ queue.queued = Cardinality({id \in DOMAIN children : children[id].queued})
     /\ DOMAIN queue.toReady = {id \in DOMAIN children : children[id].readySeen /\ Kept(id)}
     /\ FillReport(bus).buys + FillReport(bus).sells = Len(Query(bus, "fill"))

\* What the monitor tells of a run: the verdicts of its verifiers and the
\* numbers of its reports.
MonitorVerdicts == VerifiersAreExact /\ ChildrenCountOnce /\ ReportsMatchOrders
=============================================================================
