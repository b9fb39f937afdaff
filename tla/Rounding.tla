------------------------------ MODULE Rounding ------------------------------
(***************************************************************************)
(* Python's integer conversions of an exact quotient.  The code computes   *)
(* the quotient as a float; the model rounds the value it stands for.      *)
(***************************************************************************)
EXTENDS Integers

Abs(i)  == IF i < 0 THEN -i ELSE i
Sgn(i)  == IF i = 0 THEN 0 ELSE IF i < 0 THEN -1 ELSE 1
Least(i, j)    == IF i <= j THEN i ELSE j
Greatest(i, j) == IF i <= j THEN j ELSE i

\* int(round(a / b)) for b > 0: to nearest, ties to the even neighbour.
Rounded(a, b) ==
  LET q == a \div b
      r == 2 * (a % b)
  IN IF r < b \/ (r = b /\ q % 2 = 0) THEN q ELSE q + 1

\* int(a / b) for b > 0: towards zero.
Truncated(a, b) == Sgn(a) * (Abs(a) \div b)

\* math.ceil(a / b) for b > 0.
Ceiling(a, b) == -((-a) \div b)
=============================================================================
