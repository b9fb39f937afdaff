----------------------------- MODULE QueueGate ------------------------------
(***************************************************************************)
(* The queue in front of a passive order: FillSimulator's gate and the     *)
(* queue models.  An order joins behind the volume of its price level, and *)
(* may trade once that volume is gone.  Quantities are in Units per share, *)
(* so that the share of an unexplained drop credited to the order is a     *)
(* whole number.                                                           *)
(***************************************************************************)
EXTENDS Matching

CONSTANTS
  Assumption,     \* queue_position_assumption, in Units
  Units           \* the denominator of Assumption

ASSUME QueueAssumption ==
  /\ Units \in Nat \ {0} /\ Assumption \in 0 .. Units

QueueModels == {"none", "price_time", "risk_adverse", "prob_queue", "random", "pro_rata"}

\* _is_queue_gate_enabled
GateEnabled(model) == model # "none"

\* has_allocation of the class in QUEUE_MODEL_REGISTRY
HasAllocation(model) == model = "pro_rata"

\* _is_passive_queue_candidate
PassiveCandidate(c, book) ==
  /\ c.type = "LIMIT" /\ c.price # NoPrice
  /\ c.tif \notin {"IOC", "FOK"}
  /\ ~Marketable(c, book)
  /\ c.mode \in {"passive_join", "passive_only"}
       \/ c.policy \in {"PassivePlacement", "SpreadAdaptivePlacement"}

\* _level_qty_for_price: a price without a level has the volume of the nearest
\* one, the better one of two.
VolumeNear(price, levels) ==
  LET near(i, j) == Abs(levels[i].price - price) <= Abs(levels[j].price - price)
      nearest == {i \in DOMAIN levels : \A j \in DOMAIN levels : near(i, j)}
  IN IF levels = <<>> THEN 0
     ELSE levels[CHOOSE i \in nearest : \A j \in nearest : i <= j].volume
LevelQty(c, book) == VolumeNear(c.price, OwnOf(c.side, book))

\* _same_level_trade_qty
SameLevelTrade(c, tape) == IF c.price = NoPrice THEN 0 ELSE TradedAt(c, tape)

\* _initialize_queue_state
JoinQueue(c, book, now) ==
  IF c.queued THEN c
  ELSE LET level == Units * LevelQty(c, book)
       IN [c EXCEPT !.queued = TRUE, !.ahead = level, !.level0 = level, !.level = level,
                    !.entered = now]

\* advance_depth: what an unexplained drop takes from the queue ahead; draw is
\* the random number, below one share.
DepthAdvance(model, unexplained, draw) ==
  CASE model = "prob_queue" -> (unexplained \div Units) * (Units - Assumption)
    [] model = "random"     -> (unexplained \div Units) * draw
    [] OTHER                -> 0

\* The depth drop of a tick that the trades at the price do not explain.
Unexplained(c, book, tape) ==
  LET drop == Greatest(0, c.level - Units * LevelQty(c, book))
  IN Greatest(0, drop - Units * SameLevelTrade(c, tape))

Advanced_LevelKept(c, book, tape, depth) ==             \* mutant
  [c EXCEPT !.ahead = Greatest(0, Greatest(0, @ - Units * SameLevelTrade(c, tape)) - depth)]

\* _advance_queue_and_ready: the new queue state; depth: the DepthAdvance.
Advanced(c, book, tape, depth) ==
  [c EXCEPT !.ahead = Greatest(0, Greatest(0, @ - Units * SameLevelTrade(c, tape)) - depth),
            !.level = Units * LevelQty(c, book)]

\* ready_to_match
Ready(c, book) ==
  LET own == IF c.side = "BUY" THEN BestBid(book) ELSE BestAsk(book)
  IN /\ c.ahead <= 0
     /\ \/ c.price = NoPrice
        \/ Marketable(c, book)
        \/ own # NoPrice /\ NoWorse(c.side, own, c.price)

\* ProRataQueue.cap_fill
CapFill(model, c, book, tape, qty) ==
  LET open  == Greatest(1, c.qty - c.filled)
      share == Truncated(open * SameLevelTrade(c, tape), LevelQty(c, book) + open)
  IN IF HasAllocation(model) /\ c.queued THEN Least(qty, Greatest(1, share)) ELSE qty
=============================================================================
