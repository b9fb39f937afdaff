---------------------------- MODULE FifoAccount -----------------------------
(***************************************************************************)
(* What the bookkeeper promises: an account in which single shares queue   *)
(* up at the price they were opened at, and each share traded against the  *)
(* position leaves from the front of the queue and realises the difference *)
(* of the two prices.  Lots, partial lots and the two separate cost queues *)
(* of the code do not appear here.                                         *)
(***************************************************************************)
EXTENDS Integers, Sequences, SequencesExt

CONSTANTS Symbol, Price, Qty, Fee, InitialCash

VARIABLES cash, realized,
          direction,   \* per symbol: 1 long, -1 short, 0 flat
          shares       \* per symbol: opening prices of its open shares, oldest first

Smaller(i, j) == IF i <= j THEN i ELSE j

Init ==
  /\ cash = InitialCash
  /\ realized = 0
  /\ direction = [s \in Symbol |-> 0]
  /\ shares = [s \in Symbol |-> << >>]

\* q shares of s bought (side = 1) or sold (side = -1) at price p.
Trade(s, side, q, p, fee) ==
  LET leaving == IF direction[s] = -side THEN Smaller(q, Len(shares[s])) ELSE 0
      gains   == [i \in 1 .. leaving |-> direction[s] * (p - shares[s][i])]
      staying == SubSeq(shares[s], leaving + 1, Len(shares[s]))
      opened  == [i \in 1 .. q - leaving |-> p]
  IN /\ cash' = cash - side * q * p - fee
     /\ realized' = FoldLeft(+, realized, gains)
     /\ shares' = [shares EXCEPT ![s] = staying \o opened]
     /\ direction' = [direction EXCEPT ![s] = IF opened # << >> THEN side
                                              ELSE IF staying = << >> THEN 0 ELSE @]

Next == \E s \in Symbol, side \in {1, -1}, q \in Qty, p \in Price, fee \in Fee :
          Trade(s, side, q, p, fee)

Spec == Init /\ [][Next]_<<cash, realized, direction, shares>>
=============================================================================
