--------------------------- MODULE Synchronizing ----------------------------
(***************************************************************************)
(* DataSynchronizer on cleaned rows, which are in time order and have one  *)
(* row per timestamp, and on trades [ts, price, volume, side] in time      *)
(* order.  Every row gets a trade, which may be NoTrade, and a drift flag. *)
(***************************************************************************)
EXTENDS Cleaning

CONSTANT MaxDrift     \* max_clock_drift_ms

ASSUME SynchronizingAssumption == MaxDrift \in Nat

NoTrade == [price |-> 0, volume |-> 0, side |-> "none"]
Trade   == [ts : Nat, price : Nat, volume : Nat, side : {"buy", "sell"}]

\* align_lob_trades: to each row the last trade at or before it, when it is not
\* too old.  One trade may go to several rows, and most trades to none.
AlignTrades(rows, trades) ==
  LET recent(row) == {j \in DOMAIN trades : trades[j].ts <= row.ts /\ row.ts - trades[j].ts <= MaxDrift}
      trade(row)  == IF recent(row) = {} THEN NoTrade
                     ELSE LET t == LastAt(trades, recent(row))
                          IN [price |-> t.price, volume |-> t.volume, side |-> t.side]
  IN [i \in DOMAIN rows |-> [rows[i] EXCEPT !.trade = trade(rows[i])]]

\* resample: a bucket is named after its first instant and holds its last book;
\* an empty one repeats the book before it.  The price and side of its trade are
\* the last ones of its rows, the volume is the sum over its rows.
Resample(rows, freq) ==
  LET bucket(row) == row.ts \div freq - Head(rows).ts \div freq + 1
      upTo(k) == {i \in DOMAIN rows : bucket(rows[i]) <= k}
      with(k) == {i \in DOMAIN rows : bucket(rows[i]) = k /\ rows[i].trade # NoTrade}
      trade(k) == IF with(k) = {} THEN NoTrade
                  ELSE [LastAt(rows, with(k)).trade EXCEPT
                          !.volume = MapThenSumSet(LAMBDA i : rows[i].trade.volume, with(k))]
      start(k) == freq * (Head(rows).ts \div freq + k - 1)
  IN IF rows = <<>> THEN <<>>
     ELSE [k \in 1 .. bucket(Last(rows)) |->
             [LastAt(rows, upTo(k)) EXCEPT !.ts = start(k), !.trade = trade(k)]]

\* correct_clock_drift
FlagDrift(rows) ==
  [i \in DOMAIN rows |-> [rows[i] EXCEPT !.drift = i > 1 /\ rows[i].ts - rows[i - 1].ts > MaxDrift]]
=============================================================================
