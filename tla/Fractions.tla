----------------------------- MODULE Fractions ------------------------------
(***************************************************************************)
(* Exact fractions.  An average price is a float in the code; the          *)
(* accounting identities are about the value it stands for, so the model   *)
(* keeps that value exactly, as an unreduced fraction.                     *)
(***************************************************************************)
EXTENDS Integers

Fraction == [num : Int, den : Nat \ {0}]

Whole(i)   == [num |-> i, den |-> 1]
Over(f, k) == [f EXCEPT !.den = @ * k]

Times(k, f) == [f EXCEPT !.num = k * @]

f ++ g == IF f.den = g.den THEN [f EXCEPT !.num = @ + g.num]
          ELSE [num |-> f.num * g.den + g.num * f.den, den |-> f.den * g.den]

f -- g == f ++ Times(-1, g)

\* The same value.
f \cong g == f.num * g.den = g.num * f.den
=============================================================================
