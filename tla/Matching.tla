------------------------------ MODULE Matching ------------------------------
(***************************************************************************)
(* What one order trades against one market state: the snapshot            *)
(* (LOBSnapshot), the book built on it (OrderBookSimulator), the matching  *)
(* engine, the fee model and the slippage of a fill.  Prices are integers; *)
(* a fill is its quantity and its whole cost, so that the average price of *)
(* several levels needs no division.                                       *)
(***************************************************************************)
EXTENDS Rounding, Selections, SequencesExt

CONSTANTS
  CommissionBps,        \* commission in hundredths of a basis point
  MarketTaxBps          \* tax on sales of the configured market, likewise

ASSUME MatchingAssumption ==
  /\ CommissionBps \in Nat /\ MarketTaxBps \in Nat

NoPrice == 0
NoFill  == [qty |-> 0, cost |-> 0]

\* A configuration of the engine: its ExchangeModel is NO_PARTIAL_FILL, and
\* partial_fill_allowed is false.
Engines == [noPartial : BOOLEAN, wholeOnly : BOOLEAN]

-----------------------------------------------------------------------------
(* LOBSnapshot: levels best first, each a price and a volume.              *)

Level == [price : Nat \ {0}, volume : Nat]

BestBid(book) == IF book.bids = <<>> THEN NoPrice ELSE Head(book.bids).price
BestAsk(book) == IF book.asks = <<>> THEN NoPrice ELSE Head(book.asks).price

\* Twice mid_price, or NoPrice.
Mid2(book) ==
  IF NoPrice \in {BestBid(book), BestAsk(book)} THEN NoPrice ELSE BestBid(book) + BestAsk(book)

\* Without a mid price (a side is empty) simulate_fills and the slicing do nothing.
HasMid(book) == Mid2(book) # NoPrice

Depth(levels) == FoldLeft(LAMBDA total, l : total + l.volume, 0, levels)

IsValid(book) == Mid2(book) # NoPrice /\ BestBid(book) < BestAsk(book)

\* The levels an order takes from, and those it rests among.
OppositeOf(side, book) == IF side = "BUY" THEN book.asks ELSE book.bids
OwnOf(side, book)      == IF side = "BUY" THEN book.bids ELSE book.asks

\* At price p the order pays no more (gets no less) than at price q.
NoWorse(side, p, q) == IF side = "BUY" THEN p <= q ELSE p >= q

-----------------------------------------------------------------------------
(* OrderBookSimulator *)

\* walk_book: the first levels that hold qty shares.
WalkBook(levels, qty) ==
  FoldLeft(LAMBDA f, l : LET here == Least(qty - f.qty, l.volume)
                         IN [qty |-> f.qty + here, cost |-> f.cost + here * l.price],
           NoFill, levels)

EligibleLevels_AnyPrice(side, price, book) == OppositeOf(side, book)    \* mutant

\* eligible_levels
EligibleLevels(side, price, book) ==
  IF price = NoPrice THEN <<>>
  ELSE LET levels == OppositeOf(side, book)
       IN At(levels, {i \in DOMAIN levels : NoWorse(side, levels[i].price, price)})

\* available_to_fill
Available(side, price, qty, book) == Least(Depth(EligibleLevels(side, price, book)), qty)

-----------------------------------------------------------------------------
(* MatchingEngine.  o: side, type, tif, price, qty.  tape: the state's     *)
(* trades, from a price to the volume traded there.                        *)

\* _is_marketable
Marketable(o, book) ==
  LET best == IF o.side = "BUY" THEN BestAsk(book) ELSE BestBid(book)
  IN IF o.price = NoPrice THEN o.type = "MARKET"
     ELSE best # NoPrice /\ NoWorse(o.side, best, o.price)

\* _market_fill; without partial fills, the whole quantity at the best price.
MarketFill(engine, qty, levels) ==
  IF engine.noPartial THEN [qty |-> qty, cost |-> qty * Head(levels).price]
  ELSE WalkBook(levels, qty)

\* _crossing_limit_fill
CrossingFill(engine, o, book) ==
  IF engine.noPartial THEN MarketFill(engine, o.qty, OppositeOf(o.side, book))
  ELSE WalkBook(EligibleLevels(o.side, o.price, book), o.qty)

\* _trade_volume_against_order
TradedThrough(o, tape) ==
  LET through == {p \in DOMAIN tape : /\ p # o.price /\ o.price # NoPrice
                                      /\ NoWorse(o.side, p, o.price)}
  IN MapThenSumSet(LAMBDA p : tape[p], through)
TradedAt(o, tape) == IF o.price \in DOMAIN tape THEN tape[o.price] ELSE 0

\* _resting_limit_fill: trades through the price come before trades at it.
RestingFill(engine, o, tape) ==
  LET through == TradedThrough(o, tape)
      touched == Least(o.qty, TradedAt(o, tape))
      qty == IF engine.noPartial
             THEN IF through > 0 \/ touched = o.qty THEN o.qty ELSE 0
             ELSE IF through > 0 THEN Least(o.qty, through) ELSE touched
  IN [qty |-> qty, cost |-> qty * o.price]

\* _limit_fill
LimitFill(engine, o, book, tape) ==
  IF Marketable(o, book) THEN CrossingFill(engine, o, book) ELSE RestingFill(engine, o, tape)

\* match
Match(engine, o, book, tape) ==
  LET fill == IF o.type = "MARKET" THEN MarketFill(engine, o.qty, OppositeOf(o.side, book))
              ELSE LimitFill(engine, o, book, tape)
      whole == o.tif = "FOK" \/ engine.wholeOnly
  IN IF \/ o.type \notin {"MARKET", "LIMIT", "LIMIT_IOC", "LIMIT_FOK"}
        \/ o.tif = "GTX" /\ Marketable(o, book)
        \/ whole /\ fill.qty < o.qty
     THEN NoFill ELSE fill

-----------------------------------------------------------------------------
(* KRXFeeModel.compute: the fee times a million. *)
Fee(side, cost) == cost * (CommissionBps + (IF side = "SELL" THEN MarketTaxBps ELSE 0))

\* FillSimulator._compute_slippage_bps as the difference from the arrival mid,
\* times twice the quantity: positive when the fill is worse than the mid.
Slippage(side, fill, mid2) ==
  IF mid2 <= 0 THEN 0
  ELSE (IF side = "BUY" THEN 1 ELSE -1) * (2 * fill.cost - fill.qty * mid2)

\* FillSimulator._is_maker_fill
IsMaker(o, book) ==
  LET own == IF o.side = "BUY" THEN BestBid(book) ELSE BestAsk(book)
  IN o.type = "LIMIT" /\ o.price # NoPrice /\ own # NoPrice /\ NoWorse(o.side, o.price, own)
=============================================================================
