------------------------------ MODULE MCVenue -------------------------------
(***************************************************************************)
(* Constant values for checking Venue with TLC.                            *)
(***************************************************************************)
EXTENDS Venue

L(p, v) == [price |-> p, volume |-> v]

\* Five snapshots: a thin and a deep one at the same prices, one a tick up and
\* one a tick down, so that a resting order is passed, crossed, left alone
\* without a level of its own, and joined by others; and one without an ask.
MCBooks == {
  [bids |-> << L(100, 2) >>,            asks |-> << L(101, 1), L(102, 2) >>],
  [bids |-> << L(100, 1), L(99, 2) >>,  asks |-> << L(101, 2) >>],
  [bids |-> << L(101, 1), L(100, 1) >>, asks |-> << L(102, 1) >>],
  [bids |-> << L(99, 1) >>,             asks |-> << L(100, 1), L(101, 2) >>],
  [bids |-> << L(100, 2) >>,            asks |-> <<>>] }

\* No trade, trades at both inner prices, and trades through them.
MCTapes == {<<>>, 100 :> 1 @@ 101 :> 1, 99 :> 2 @@ 102 :> 1}

\* Latencies below and above one tick, and a jitter below zero.
MCNoise == {-2, 0}
MCEngine == [noPartial |-> FALSE, wholeOnly |-> FALSE]
=============================================================================
