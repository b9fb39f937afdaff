----------------------------- MODULE Accounting -----------------------------
(***************************************************************************)
(* The two sets of books kept for every fill: Bookkeeper (cash, positions, *)
(* first-in first-out lots and their realised profit) and PnLLedger        *)
(* (average cost, realised and unrealised profit per entry), written       *)
(* together by FillSimulator.record_fills and read separately: risk and    *)
(* exposure use the bookkeeper's net asset value, the reports the ledger.  *)
(*                                                                         *)
(* Shares bought count as positive and shares sold as negative.  Slippage  *)
(* and impact columns, which no balance uses, are left out.                *)
(***************************************************************************)
EXTENDS Integers, Sequences, FiniteSets, SequencesExt, Fractions

CONSTANTS
  Symbol,        \* traded symbols
  Price,         \* fill prices and mid prices
  Qty,           \* filled quantities
  Fee,           \* fees of a fill
  InitialCash,   \* Bookkeeper._initial_cash
  MaxEntries     \* bound: entries of the ledger

ASSUME AccountingAssumption ==
  /\ IsFiniteSet(Symbol) /\ Symbol # {}
  /\ Price \subseteq Nat \ {0}
  /\ Qty \subseteq Nat \ {0}
  /\ Fee \subseteq Nat
  /\ InitialCash \in Nat
  /\ MaxEntries \in Nat

VARIABLES
  cash,       \* AccountState.cash
  position,   \* AccountState.positions
  realized,   \* AccountState.realized_pnl
  fills,      \* Bookkeeper.fills
  fees,       \* AccountState.total_fees
  long,       \* _cost_queues: lots bought and not yet sold
  short,      \* _short_cost_queues: lots sold short and not yet covered
  book,       \* PnLLedger._open_positions: average price and quantity
  entries,    \* PnLLedger.entries
  mark        \* the symbol's mid price when it was last written to the ledger

bookkeeper == <<cash, position, realized, fills, fees, long, short>>
vars == <<cash, position, realized, fills, fees, long, short, book, entries, mark>>

Lot == [price : Price, qty : Nat \ {0}]
Entry == [symbol : Symbol, realized : Fraction, unrealized : Fraction, fee : Nat]

-----------------------------------------------------------------------------
(* Arithmetic *)

Smaller(i, j) == IF i <= j THEN i ELSE j
Size(i)       == IF i < 0 THEN -i ELSE i
Sign(i)       == IF i = 0 THEN 0 ELSE i \div Size(i)
Opposite(i, j) == (i > 0) # (j > 0)

SumOf(seq) == FoldLeft(+, 0, seq)
FractionSum(seq) == FoldLeft(++, Whole(0), seq)
OverSymbols(amount) == FoldFunction(++, Whole(0), amount)

\* Shares in a queue of lots, and what they cost.
SharesHeld(lots) == SumOf([i \in DOMAIN lots |-> lots[i].qty])
CostOf(lots)     == SumOf([i \in DOMAIN lots |-> lots[i].price * lots[i].qty])

-----------------------------------------------------------------------------
Init ==
  /\ cash = InitialCash
  /\ position = [s \in Symbol |-> 0]
  /\ realized = 0
  /\ fills = << >>
  /\ fees = 0
  /\ long = [s \in Symbol |-> << >>]
  /\ short = [s \in Symbol |-> << >>]
  /\ book = [s \in Symbol |-> [avg |-> Whole(0), qty |-> 0]]
  /\ entries = << >>
  /\ mark = [s \in Symbol |-> 0]

-----------------------------------------------------------------------------
(* The bookkeeper *)

\* FillEvent.total_cost: what a purchase takes from the cash and a sale adds.
TotalCost_FeeAdded(side, q, p, fee) == q * p + fee    \* mutant

TotalCost(side, q, p, fee) == q * p + side * fee

\* One turn of the matching loop: the oldest lot still queued serves what it can.
Serve_KeepEmpty(m, lot, price, sign) ==    \* mutant
  LET matched == Smaller(m.left, lot.qty)
  IN [left   |-> m.left - matched,
      profit |-> m.profit + sign * matched * (price - lot.price),
      queue  |-> Append(m.queue, [lot EXCEPT !.qty = @ - matched])]

Serve(m, lot, price, sign) ==
  LET matched == Smaller(m.left, lot.qty)
  IN [left   |-> m.left - matched,
      profit |-> m.profit + sign * matched * (price - lot.price),
      queue  |-> IF matched = lot.qty THEN m.queue
                 ELSE Append(m.queue, [lot EXCEPT !.qty = @ - matched])]

\* _realise_pnl_fifo (sign = 1, lots of the long queue) and
\* _realise_pnl_fifo_short (sign = -1): q shares leave the queue at this price.
Realise_Newest(lots, q, price, sign) ==    \* mutant
  LET m == FoldLeft(LAMBDA acc, lot : Serve(acc, lot, price, sign),
                    [left |-> q, profit |-> 0, queue |-> << >>], Reverse(lots))
  IN [m EXCEPT !.queue = Reverse(@)]

Realise(lots, q, price, sign) ==
  FoldLeft(LAMBDA m, lot : Serve(m, lot, price, sign),
           [left |-> q, profit |-> 0, queue |-> << >>], lots)

\* The lot a fill opens, none if it opens no share.
Opened(q, p) == IF q > 0 THEN <<[price |-> p, qty |-> q]>> ELSE << >>

\* What is left of a fill once it has closed the whole position.
Flipped_Dropped(s, q) == 0    \* mutant

Flipped(s, q) == q - Smaller(q, Size(position[s]))

\* The entries common to the four accounting paths of record_fill.
Settle(s, side, q, p, fee) ==
  /\ cash' = cash - side * TotalCost(side, q, p, fee)
  /\ position' = [position EXCEPT ![s] = @ + side * q]
  /\ fees' = fees + fee
  /\ fills' = Append(fills, [symbol |-> s, delta |-> side * q, price |-> p])

\* A fill in the direction of the position, or from flat, opens a lot.
OpenLong(s, q, p) ==
  /\ position[s] >= 0
  /\ long' = [long EXCEPT ![s] = @ \o Opened(q, p)]
  /\ UNCHANGED <<short, realized>>

OpenShort(s, q, p) ==
  /\ position[s] <= 0
  /\ short' = [short EXCEPT ![s] = @ \o Opened(q, p)]
  /\ UNCHANGED <<long, realized>>

\* A fill against the position closes lots, oldest first, and opens the other
\* direction with what is left.
CloseLong(s, q, p) ==
  LET closed == Realise(long[s], Smaller(q, position[s]), p, 1)
  IN /\ position[s] > 0
     /\ long' = [long EXCEPT ![s] = closed.queue]
     /\ short' = [short EXCEPT ![s] = @ \o Opened(Flipped(s, q), p)]
     /\ realized' = realized + closed.profit

CoverShort(s, q, p) ==
  LET closed == Realise(short[s], Smaller(q, Size(position[s])), p, -1)
  IN /\ position[s] < 0
     /\ short' = [short EXCEPT ![s] = closed.queue]
     /\ long' = [long EXCEPT ![s] = @ \o Opened(Flipped(s, q), p)]
     /\ realized' = realized + closed.profit

-----------------------------------------------------------------------------
(* The ledger *)

\* _update_position: the average price of the position after a fill.
NewAverage_PartialClose(s, delta, p) ==    \* mutant
  LET old == book[s]
      qty == old.qty + delta
  IN IF qty = 0 THEN Whole(0)
     ELSE IF old.qty = 0 \/ Opposite(old.qty, qty) THEN Whole(p)
     ELSE Over(Times(Size(old.qty), old.avg) ++ Whole(p * Size(delta)), Size(qty))

NewAverage(s, delta, p) ==
  LET old == book[s]
      qty == old.qty + delta
  IN IF qty = 0 THEN Whole(0)
     ELSE IF old.qty = 0 THEN Whole(p)
     ELSE IF ~Opposite(old.qty, delta)
       THEN Over(Times(Size(old.qty), old.avg) ++ Whole(p * Size(delta)), Size(qty))
     ELSE IF ~Opposite(old.qty, qty) THEN old.avg
     ELSE Whole(p)

\* _update_position: the profit a fill realises against the average price.
LedgerProfit_FullFill(s, delta, p) ==    \* mutant
  LET old == book[s]
  IN IF old.qty # 0 /\ Opposite(old.qty, delta)
     THEN Times(-delta, Whole(p) -- old.avg) ELSE Whole(0)

LedgerProfit(s, delta, p) ==
  LET old    == book[s]
      closed == Smaller(Size(delta), Size(old.qty))
  IN IF old.qty # 0 /\ Opposite(old.qty, delta)
     THEN Times(IF old.qty > 0 THEN closed ELSE -closed, Whole(p) -- old.avg)
     ELSE Whole(0)

\* The open position of the symbol at a mark price.
Unrealized(pos, price) == Times(pos.qty, Whole(price) -- pos.avg)

\* record_fill of the ledger
LedgerFill(s, delta, p, fee, mid) ==
  /\ book' = [book EXCEPT ![s] = [avg |-> NewAverage(s, delta, p), qty |-> @.qty + delta]]
  /\ entries' = Append(entries, [symbol |-> s, realized |-> LedgerProfit(s, delta, p),
                                 unrealized |-> Unrealized(book'[s], mid), fee |-> fee])
  /\ mark' = [mark EXCEPT ![s] = mid]

-----------------------------------------------------------------------------
(* Operations *)

\* FillSimulator.record_fills, for one fill of a list.
Buy(s, q, p, fee, mid) ==
  /\ Settle(s, 1, q, p, fee)
  /\ OpenLong(s, q, p) \/ CoverShort(s, q, p)
  /\ LedgerFill(s, q, p, fee, mid)

Sell(s, q, p, fee, mid) ==
  /\ Settle(s, -1, q, p, fee)
  /\ OpenShort(s, q, p) \/ CloseLong(s, q, p)
  /\ LedgerFill(s, -q, p, fee, mid)

\* PnLLedger.mark_to_market, called with the bookkeeper's position.
MarkToMarket(s, price) ==
  LET qty == IF book[s].qty # 0 THEN book[s].qty ELSE position[s]
  IN /\ entries' = Append(entries, [symbol |-> s, realized |-> Whole(0), fee |-> 0,
                            unrealized |-> Unrealized([book[s] EXCEPT !.qty = qty], price)])
     /\ mark' = [mark EXCEPT ![s] = price]
     /\ UNCHANGED <<bookkeeper, book>>

\* The bound is reached.
Full == Len(entries) = MaxEntries /\ UNCHANGED vars

Next ==
  \/ /\ Len(entries) < MaxEntries
     /\ \E s \in Symbol, price \in Price :
          \/ MarkToMarket(s, price)
          \/ \E q \in Qty, p \in Price, fee \in Fee :
               Buy(s, q, p, fee, price) \/ Sell(s, q, p, fee, price)
  \/ Full

Spec == Init /\ [][Next]_vars

-----------------------------------------------------------------------------
(* What the two sets of books report *)

\* AccountState.nav
Nav(prices) == cash + SumFunction([s \in Symbol |-> position[s] * prices[s]])

\* Bookkeeper.get_average_cost and mark_to_market
AverageCost(s) ==
  LET lots == IF position[s] > 0 THEN long[s] ELSE short[s]
  IN IF position[s] = 0 \/ lots = << >> THEN Whole(0)
     ELSE Over(Whole(CostOf(lots)), SharesHeld(lots))

OpenProfit(prices) ==
  OverSymbols([s \in Symbol |-> Times(position[s], Whole(prices[s]) -- AverageCost(s))])

\* Bookkeeper.compute_realized_pnl: the realised profit of a symbol, worked out
\* again from its fills, with a position and two queues of its own.
Refill(acc, f) ==
  LET q      == Size(f.delta)
      closed == IF Opposite(f.delta, acc.pos) /\ acc.pos # 0 THEN Smaller(q, Size(acc.pos)) ELSE 0
      done   == IF f.delta > 0 THEN Realise(acc.short, closed, f.price, -1)
                ELSE Realise(acc.long, closed, f.price, 1)
      rest   == Opened(q - closed, f.price)
  IN [pos    |-> acc.pos + f.delta,
      profit |-> acc.profit + done.profit,
      long   |-> IF f.delta > 0 THEN acc.long \o rest ELSE done.queue,
      short  |-> IF f.delta > 0 THEN done.queue ELSE acc.short \o rest]
OfSymbol(s) ==
  FoldLeft(LAMBDA acc, f : IF f.symbol = s THEN Append(acc, f) ELSE acc, << >>, fills)
ComputedRealized(s) ==
  FoldLeft(Refill, [pos |-> 0, profit |-> 0, long |-> << >>, short |-> << >>], OfSymbol(s)).profit

\* AttributionAnalyzer._compute_total_fill_pnl: every purchase is a lot, every
\* sale realises against the oldest ones, and short positions do not exist.
Attribute(acc, f) ==
  LET sold == Realise(acc.queue, -f.delta, f.price, 1)
  IN IF f.delta > 0
     THEN [acc EXCEPT !.queue = Append(@, [price |-> f.price, qty |-> f.delta])]
     ELSE [queue |-> sold.queue, profit |-> acc.profit + sold.profit]
FillProfit(s) == FoldLeft(Attribute, [queue |-> << >>, profit |-> 0], OfSymbol(s)).profit

LedgerRealized == FractionSum([i \in DOMAIN entries |-> entries[i].realized])
LedgerFees     == SumOf([i \in DOMAIN entries |-> entries[i].fee])

\* The net_pnl of generate_report over all entries; also the last value of
\* cumulative_pnl_series.
ReportNet ==
  IF entries = << >> THEN Whole(0)
  ELSE (LedgerRealized ++ entries[Len(entries)].unrealized) -- Whole(LedgerFees)

-----------------------------------------------------------------------------
(* Invariants *)

\* Cash, lots, average prices and entries have the types the code gives them; a
\* lot sold or covered completely has left its queue.
TypeOK ==
  /\ cash \in Int /\ realized \in Int /\ fees \in Nat
  /\ position \in [Symbol -> Int]
  /\ \A s \in Symbol : /\ ToSet(long[s]) \subseteq Lot /\ ToSet(short[s]) \subseteq Lot
                       /\ book[s].avg \in Fraction /\ book[s].qty \in Int
  /\ ToSet(entries) \subseteq Entry /\ Len(entries) <= MaxEntries
  /\ mark \in [Symbol -> Price \cup {0}]

\* The bookkeeper's position, its two lot queues and the ledger's quantity are
\* three records of the same shares: the queues add up to the position, only the
\* queue of its direction is in use, and the ledger agrees, through every flip.
LotsMatchPosition ==
  \A s \in Symbol :
    /\ position[s] = SharesHeld(long[s]) - SharesHeld(short[s])
    /\ long[s] = << >> \/ short[s] = << >>
    /\ book[s].qty = position[s]

\* Money is conserved: whatever the prices, net asset value has moved by the
\* realised profit plus the open profit (Bookkeeper.mark_to_market) less the fees.
NavIdentity ==
  \A prices \in [Symbol -> Price] :
    Whole(Nav(prices) - InitialCash) \cong (OpenProfit(prices) ++ Whole(realized - fees))

\* With one symbol the reported net P&L of the ledger, kept on average cost, is
\* the change of the bookkeeper's net asset value, kept on first-in first-out lots.
ReportAgreesWithNav ==
  \A s \in Symbol :
    (\A i \in DOMAIN entries : entries[i].symbol = s) =>
      ReportNet \cong Whole(Nav(mark) - InitialCash)

\* The profit the bookkeeper keeps as it goes is the one worked out again from
\* the fills, and the attribution's while nothing was ever held short.  The
\* ledger's cost method realises other profits on the way, but once every
\* position is flat its cumulated profit and fees agree too.
RealizedProfitsAgree ==
  LET held(s, n) == SumOf([i \in 1 .. n |-> OfSymbol(s)[i].delta])
      total(F(_)) == SumFunction([s \in Symbol |-> F(s)])
  IN /\ realized = total(ComputedRealized)
     /\ (\A s \in Symbol : \A n \in DOMAIN OfSymbol(s) : held(s, n) >= 0) =>
          realized = total(FillProfit)
     /\ (\A s \in Symbol : position[s] = 0) =>
          LedgerRealized \cong Whole(realized) /\ LedgerFees = fees

(* Refinement *)

UnitShares(lots) ==
  FoldLeft(LAMBDA acc, lot : acc \o [i \in 1 .. lot.qty |-> lot.price], << >>, lots)

Fifo == INSTANCE FifoAccount WITH
  direction <- [s \in Symbol |-> Sign(position[s])],
  shares    <- [s \in Symbol |-> UnitShares(long[s] \o short[s])]

\* The bookkeeper's lots, split and popped by the matching loops, are a
\* first-in first-out account of single shares.
ImplementsFifo == Fifo!Spec

(* A claim of the comments that the code does not keep *)

\* "each entry already reflects the full open-position mark-to-market": the last
\* entry's unrealised figure, which the report takes, covers all open positions.
LastEntryCoversAll ==
  entries # << >> =>
    entries[Len(entries)].unrealized
      \cong OverSymbols([s \in Symbol |-> Unrealized(book[s], mark[s])])
=============================================================================
