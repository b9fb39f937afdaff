------------------------------ MODULE Features ------------------------------
(***************************************************************************)
(* FeaturePipeline.  A ratio is a float in the code and a whole number of  *)
(* percents or basis points here, rounded down; the averages over time are *)
(* exact on those.  The logarithm of a depth stands for the depth.         *)
(***************************************************************************)
EXTENDS Fractions, Rounding, Selections, SequencesExt

CONSTANTS
  ImpactShares,             \* size of the hypothetical order
  TradeWindow, LongWindow,  \* trades of the flow and of the volume's baseline
  DeltaLag                  \* snapshots the imbalance is compared over

\* What is left of a snapshot's past: four averages and the latest imbalances.
Unset == [num |-> 0, den |-> 0]
FreshPipe == [oi |-> Unset, flow |-> Unset, l1 |-> Unset, spread |-> Unset, past |-> <<>>]

\* The exponential average with weight 1 / n for the new value.
Ema(before, value, n) ==
  IF before = Unset THEN Whole(value) ELSE Over(Whole(value) ++ Times(n - 1, before), n)

\* The last n elements, or all when there are fewer.
LatestOf(seq, n) == SubSeq(seq, Greatest(1, Len(seq) - n + 1), Len(seq))

Ratio(part, whole) == IF whole = 0 THEN 0 ELSE (100 * part) \div whole
Total(levels) == FoldLeft(LAMBDA sum, l : sum + l.volume, 0, levels)
TwiceMid(lob) == lob.bids[1].price + lob.asks[1].price

\* walk_the_book for ImpactShares: what is left of them and the cost of the others.
Walk(levels) ==
  LET step(w, l) == LET fill == Least(w.left, l.volume)
                    IN [left |-> w.left - fill, cost |-> w.cost + fill * l.price]
  IN FoldLeft(step, [left |-> ImpactShares, cost |-> 0], levels)

\* What the order costs over the mid, never below zero; what the book does not
\* hold is left out of the average.
Impact(levels, sign, mid2) ==
  LET filled == ImpactShares - Walk(levels).left
      over   == sign * (2 * Walk(levels).cost - filled * mid2)
  IN IF filled = 0 THEN 0 ELSE Greatest(0, (10000 * over) \div (filled * mid2))

Sign(trade) == IF trade.side = "buy" THEN 1 ELSE -1
SumOf(trades, Value(_)) == FoldLeft(LAMBDA sum, t : sum + Value(t), 0, trades)

TradeFlow(trades) == SumOf(LatestOf(trades, TradeWindow), LAMBDA t : Sign(t) * t.volume)

FlowImbalance(trades) ==
  LET recent == LatestOf(trades, TradeWindow)
  IN Ratio(SumOf(recent, Sign), Len(recent))

VolumeSurprise(trades) ==
  LET volume(n) == SumOf(LatestOf(trades, n), LAMBDA t : t.volume)
      long      == Least(Len(trades), LongWindow)
  IN IF Len(trades) < TradeWindow \/ volume(long) = 0 THEN 0
     ELSE Ratio(volume(TradeWindow) * long, TradeWindow * volume(long)) - 100

ResetPipe_PastKept(pipe) == [FreshPipe EXCEPT !.past = pipe.past]     \* mutant
\* reset
ResetPipe(pipe) == FreshPipe

\* compute: the features of a snapshot, and what is kept for the next one.
Computed(pipe, lob, trades) ==
  LET bid  == Total(lob.bids)
      ask  == Total(lob.asks)
      oi   == Ratio(bid - ask, bid + ask)
      l1   == Ratio(lob.bids[1].volume - lob.asks[1].volume, lob.bids[1].volume + lob.asks[1].volume)
      bps  == (20000 * (lob.asks[1].price - lob.bids[1].price)) \div TwiceMid(lob)
      past == LatestOf(Append(pipe.past, oi), DeltaLag + 1)
      next == [oi |-> Ema(pipe.oi, oi, 5), flow |-> Ema(pipe.flow, FlowImbalance(trades), 5),
               l1 |-> Ema(pipe.l1, l1, 5), spread |-> Ema(pipe.spread, bps, 10), past |-> past]
  IN [pipe |-> next,
      features |->
        [spread |-> bps, imbalance |-> oi, l1 |-> l1, bidDepth |-> bid, askDepth |-> ask,
         mid2 |-> TwiceMid(lob), buyImpact |-> Impact(lob.asks, 1, TwiceMid(lob)),
         sellImpact |-> Impact(lob.bids, -1, TwiceMid(lob)),
         flow |-> TradeFlow(trades), surprise |-> VolumeSurprise(trades),
         imbalanceEma |-> next.oi, flowEma |-> next.flow, l1Ema |-> next.l1, spreadEma |-> next.spread,
         delta |-> IF Len(past) = DeltaLag + 1 THEN oi - past[1] ELSE 0]]

\* The trades up to a time.
Until(trades, ts) == At(trades, {i \in DOMAIN trades : trades[i].ts <= ts})

\* compute_batch, from the pipeline as it is: every snapshot sees all trades up
\* to its time.
Batch(pipe, snapshots, trades) ==
  LET at(p, k) == Computed(p, snapshots[k], Until(trades, snapshots[k].ts))
      kept[k \in 0 .. Len(snapshots)] == IF k = 0 THEN pipe ELSE at(kept[k - 1], k).pipe
  IN [k \in DOMAIN snapshots |-> at(kept[k - 1], k).features]
=============================================================================
