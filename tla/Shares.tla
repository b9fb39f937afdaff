------------------------------- MODULE Shares -------------------------------
(***************************************************************************)
(* Totals of integer quantities.                                           *)
(*                                                                         *)
(* The code adds up share counts over lists of orders with                 *)
(* sum(c.remaining_qty for c in ...).  A share is indivisible, so the      *)
(* total is stated here without recursion: it is the number of distinct    *)
(* shares <<c, 1>> .. <<c, qty[c]>> held by all the keys c.  The lemmas    *)
(* about it are in DataTheorems.                                           *)
(***************************************************************************)
EXTENDS Naturals, FiniteSets

(* The shares of one key, and of every key of a function to Nat.           *)
SharesOf(c, q) == {<<c, i>> : i \in 1 .. q}

SharesIn(qty) == UNION {SharesOf(c, qty[c]) : c \in DOMAIN qty}

(* sum(qty[c] for c in keys)                                               *)
Total(qty) == Cardinality(SharesIn(qty))
=============================================================================
