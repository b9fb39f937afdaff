------------------------ MODULE SignalPositionProofs ------------------------
(***************************************************************************)
(* Proofs about SignalPosition, for any limits, lot size, delay and gaps,  *)
(* and runs of any length.                                                 *)
(*                                                                         *)
(* The caps and the turnover budget are rounded quotients of sums over a   *)
(* book.  The first part is about a book of any finite set of symbols:     *)
(* rounding moves a scaled position towards zero and by at most half a     *)
(* share, and the bounds on the terms add up to the bound on the sum.  The *)
(* book of one symbol, the one the loop keeps, is an instance.  Then comes *)
(* the loop, and last the schedule of a parent order.                      *)
(***************************************************************************)
EXTENDS MCSignalPosition, SequenceTheorems, DataTheorems

-----------------------------------------------------------------------------
(* Rounded quotients *)

LEMMA Quotient ==
  ASSUME NEW a \in Int, NEW d \in Nat, d > 0
  PROVE  /\ a \div d \in Int /\ a % d \in Int
         /\ 0 <= a % d /\ a % d < d
         /\ a = (a \div d) * d + (a % d)
<1>1. a = (a \div d) * d + (a % d)
  OBVIOUS
<1>2. a \div d \in Int /\ a % d \in Int /\ 0 <= a % d /\ a % d < d
  OBVIOUS
<1> QED
  BY <1>1, <1>2, Zenon

LEMMA LessByFactor ==
  ASSUME NEW a \in Int, NEW b \in Int, NEW d \in Nat, d > 0, a * d < b * d
  PROVE  a < b
OBVIOUS

LEMMA ProductMonotone ==
  ASSUME NEW a \in Int, NEW b \in Int, NEW k \in Nat, a <= b
  PROVE  a * k <= b * k
<1>1. (b - a) * k \in Nat
  OBVIOUS
<1>2. (b - a) * k = b * k - a * k
  OBVIOUS
<1> QED
  BY <1>1, <1>2

\* What lies between two whole numbers is rounded to a number between them.
LEMMA RoundedBetween ==
  ASSUME NEW a \in Int, NEW d \in Nat, d > 0, NEW lo \in Int, NEW hi \in Int,
         lo * d <= a, a <= hi * d
  PROVE  Rounded(a, d) \in Int /\ lo <= Rounded(a, d) /\ Rounded(a, d) <= hi
<1> DEFINE q == a \div d
           r == a % d
<1>1. q \in Int /\ r \in Int /\ 0 <= r /\ r < d /\ a = q * d + r
  BY Quotient
<1> HIDE DEF q, r
<1>2. (q + 1) * d = q * d + d
  BY <1>1
<1>3. lo < q + 1
  <2>1. lo * d < (q + 1) * d
    BY <1>1, <1>2
  <2> QED
    BY <1>1, <2>1, LessByFactor
<1>4. q <= hi
  <2>1. (hi + 1) * d = hi * d + d
    OBVIOUS
  <2>2. q * d < (hi + 1) * d
    BY <1>1, <2>1
  <2> QED
    BY <1>1, <2>2, LessByFactor
<1>5. r > 0 => q < hi
  BY <1>1, LessByFactor
<1>6. Rounded(a, d) = q \/ (Rounded(a, d) = q + 1 /\ r > 0)
  <2>1. Rounded(a, d) = IF 2 * r < d \/ (2 * r = d /\ q % 2 = 0) THEN q ELSE q + 1
    BY DEF Rounded, q, r
  <2> QED
    BY <1>1, <2>1
<1> QED
  BY <1>1, <1>3, <1>4, <1>5, <1>6

\* r is on the way from zero to q.
Towards(r, q) == (q >= 0 => 0 <= r /\ r <= q) /\ (q <= 0 => q <= r /\ r <= 0)

\* A position scaled by a factor of at most one is not larger, and not flipped.
LEMMA RoundedTowards ==
  ASSUME NEW q \in Int, NEW num \in Nat, NEW d \in Nat, d > 0, num <= d
  PROVE  Rounded(q * num, d) \in Int /\ Towards(Rounded(q * num, d), q)
<1>1. CASE q >= 0
  <2>1. 0 * d <= q * num /\ q * num <= q * d
    BY <1>1, ProductMonotone
  <2>2. Rounded(q * num, d) \in Int /\ 0 <= Rounded(q * num, d) /\ Rounded(q * num, d) <= q
    <3>1. q * num \in Int /\ 0 \in Int
      OBVIOUS
    <3> QED
      BY <2>1, <3>1, RoundedBetween, Zenon
  <2> QED
    BY <1>1, <2>2 DEF Towards
<1>2. CASE q < 0
  <2>1. q * d <= q * num /\ q * num <= 0 * d
    <3>1. num * (-q) <= d * (-q) /\ 0 <= num * (-q)
      BY <1>2, ProductMonotone
    <3> QED
      BY <3>1
  <2>2. Rounded(q * num, d) \in Int /\ q <= Rounded(q * num, d) /\ Rounded(q * num, d) <= 0
    <3>1. q * num \in Int /\ 0 \in Int
      OBVIOUS
    <3> QED
      BY <2>1, <3>1, RoundedBetween, Zenon
  <2> QED
    BY <1>2, <2>2 DEF Towards
<1> QED
  BY <1>1, <1>2

LEMMA TowardsTrans ==
  ASSUME NEW q \in Int, NEW r \in Int, NEW s \in Int, Towards(r, q), Towards(s, r)
  PROVE  Towards(s, q) /\ Abs(s) <= Abs(r)
BY DEF Towards, Abs

\* A rounded quotient is within half of the divisor.
LEMMA Nearest ==
  ASSUME NEW a \in Int, NEW d \in Nat, d > 0
  PROVE  /\ Rounded(a, d) \in Int
         /\ 2 * a - d <= Rounded(a, d) * (2 * d)
         /\ Rounded(a, d) * (2 * d) <= 2 * a + d
<1> DEFINE q == a \div d
           r == a % d
<1>1. q \in Int /\ r \in Int /\ 0 <= r /\ r < d /\ a = q * d + r
  BY Quotient
<1>2. Rounded(a, d) = IF 2 * r < d \/ (2 * r = d /\ q % 2 = 0) THEN q ELSE q + 1
  BY DEF Rounded
<1> HIDE DEF q, r
<1>3. q * (2 * d) = 2 * (q * d) /\ (q + 1) * (2 * d) = 2 * (q * d) + 2 * d /\ q * d \in Int
  BY <1>1
<1>4. CASE 2 * r < d \/ (2 * r = d /\ q % 2 = 0)
  BY <1>1, <1>2, <1>3, <1>4
<1>5. CASE ~(2 * r < d \/ (2 * r = d /\ q % 2 = 0))
  <2>1. 2 * r >= d
    BY <1>1, <1>5
  <2>2. Rounded(a, d) = q + 1
    BY <1>2, <1>5
  <2> QED
    BY <1>1, <1>3, <2>1, <2>2
<1> QED
  BY <1>4, <1>5

LEMMA AtMostByFactor ==
  ASSUME NEW a \in Int, NEW b \in Int, NEW d \in Nat, d > 0, a * d <= b * d
  PROVE  a <= b
<1>1. b * d < a * d => FALSE
  <2>1. a * d \in Int /\ b * d \in Int
    OBVIOUS
  <2> QED
    BY <2>1
<1>2. b < a => b * d < a * d
  <2> SUFFICES ASSUME b < a PROVE b * d < a * d
    OBVIOUS
  <2>1. (b + 1) * d <= a * d
    BY ProductMonotone
  <2>2. (b + 1) * d = b * d + d
    OBVIOUS
  <2> QED
    BY <2>1, <2>2
<1> QED
  BY <1>1, <1>2

LEMMA AbsTimes ==
  ASSUME NEW q \in Int, NEW p \in Nat
  PROVE  Abs(q) \in Nat /\ Abs(q * p) = Abs(q) * p /\ Abs(q * p) \in Nat
<1>1. CASE q >= 0
  <2>1. q * p \in Nat
    BY <1>1
  <2> QED
    BY <1>1, <2>1 DEF Abs
<1>2. CASE q < 0
  <2>1. (-q) * p \in Nat /\ q * p = -((-q) * p)
    BY <1>2
  <2> QED
    BY <1>2, <2>1 DEF Abs
<1> QED
  BY <1>1, <1>2

\* What rounding a part of a holding adds to its size at a price.
LEMMA SizeScaled ==
  ASSUME NEW q \in Int, NEW p \in Nat, NEW num \in Nat, NEW d \in Nat, d > 0, num <= d
  PROVE  LET r == Rounded(q * num, d)
         IN /\ r \in Int /\ Towards(r, q)
            /\ (r * p) * (2 * d) <= (q * p) * (2 * num) + p * d
            /\ (q * p) * (2 * num) - p * d <= (r * p) * (2 * d)
            /\ Abs(r * p) * (2 * d) <= Abs(q * p) * (2 * num) + p * d
<1> DEFINE r == Rounded(q * num, d)
<1>1. r \in Int /\ Towards(r, q)
  BY RoundedTowards
<1>2. q * num \in Int
  OBVIOUS
<1>3. 2 * (q * num) - d <= r * (2 * d) /\ r * (2 * d) <= 2 * (q * num) + d
  BY <1>2, Nearest
<1> HIDE DEF r
<1>4. (r * (2 * d)) * p <= (2 * (q * num) + d) * p /\ (2 * (q * num) - d) * p <= (r * (2 * d)) * p
  <2> DEFINE x == r * (2 * d)
             y == 2 * (q * num)
  <2>1. x \in Int /\ y \in Int /\ y - d <= x /\ x <= y + d
    BY <1>1, <1>2, <1>3
  <2> HIDE DEF x, y
  <2>2. x * p <= (y + d) * p /\ (y - d) * p <= x * p
    BY <2>1, ProductMonotone
  <2> QED
    BY <2>2 DEF x, y
<1>5. /\ (r * (2 * d)) * p = (r * p) * (2 * d)
      /\ (2 * (q * num) + d) * p = (q * p) * (2 * num) + p * d
      /\ (2 * (q * num) - d) * p = (q * p) * (2 * num) - p * d
  BY <1>1
<1>6. (r * p) * (2 * d) <= (q * p) * (2 * num) + p * d /\ (q * p) * (2 * num) - p * d <= (r * p) * (2 * d)
  BY <1>4, <1>5
<1>7. Abs(r * p) * (2 * d) <= Abs(q * p) * (2 * num) + p * d
  <2> DEFINE x == r * p
             y == q * p
             z == p * d
  <2>1. x \in Int /\ y \in Int /\ z \in Nat
    BY <1>1
  <2>2. CASE q >= 0
    <3>1. x >= 0 /\ y >= 0
      BY <1>1, <2>2 DEF Towards
    <3> HIDE DEF x, y, z
    <3>2. Abs(x) = x /\ Abs(y) = y
      BY <2>1, <3>1 DEF Abs
    <3> QED
      BY <1>6, <3>2 DEF x, y, z
  <2>3. CASE q < 0
    <3>1. (-r) * p >= 0 /\ (-q) * p >= 0 /\ x = -((-r) * p) /\ y = -((-q) * p)
      BY <1>1, <2>3 DEF Towards
    <3>2. Abs(x) = -x /\ Abs(y) = -y
      <4>1. x <= 0 /\ y <= 0
        <5> DEFINE u == (-r) * p
                   v == (-q) * p
        <5>1. u \in Int /\ v \in Int /\ u >= 0 /\ v >= 0 /\ x = -u /\ y = -v
          BY <1>1, <3>1
        <5> HIDE DEF u, v, x, y
        <5> QED
          BY <5>1
      <4> HIDE DEF x, y
      <4> QED
        BY <2>1, <4>1 DEF Abs
    <3>3. (-x) * (2 * d) = -(x * (2 * d)) /\ (-y) * (2 * num) = -(y * (2 * num))
      BY <2>1
    <3>4. x * (2 * d) \in Int /\ y * (2 * num) \in Int
      BY <2>1
    <3> HIDE DEF x, y, z
    <3>5. y * (2 * num) - z <= x * (2 * d)
      BY <1>6 DEF x, y, z
    <3>6. (-x) * (2 * d) <= (-y) * (2 * num) + z
      BY <2>1, <3>3, <3>4, <3>5
    <3> QED
      BY <3>2, <3>6 DEF x, y, z
  <2> QED
    BY <2>2, <2>3
<1> QED
  BY <1>1, <1>6, <1>7 DEF r

\* Every term of x, i-fold, is bounded by terms of three other kinds.
Weighed(S, x, i, y, j, z, k, w, l) ==
  /\ IsFiniteSet(S) /\ i \in Int /\ j \in Int /\ k \in Int /\ l \in Int
  /\ x \in [S -> Int] /\ y \in [S -> Int] /\ z \in [S -> Int] /\ w \in [S -> Int]
  /\ \A s \in S : x[s] * i <= (y[s] * j + z[s] * k) + w[s] * l

\* So is their sum.
LEMMA WeightedSums ==
  ASSUME NEW S, NEW x, NEW y, NEW z, NEW w, NEW i, NEW j, NEW k, NEW l,
         Weighed(S, x, i, y, j, z, k, w, l)
  PROVE  /\ SumFunctionOnSet(x, S) \in Int /\ SumFunctionOnSet(y, S) \in Int
         /\ SumFunctionOnSet(z, S) \in Int /\ SumFunctionOnSet(w, S) \in Int
         /\ SumFunctionOnSet(x, S) * i <=
              (SumFunctionOnSet(y, S) * j + SumFunctionOnSet(z, S) * k) + SumFunctionOnSet(w, S) * l
<1> DEFINE xi == [s \in S |-> x[s] * i]
           yj == [s \in S |-> y[s] * j]
           zk == [s \in S |-> z[s] * k]
           wl == [s \in S |-> w[s] * l]
           yz == [s \in S |-> yj[s] + zk[s]]
           all == [s \in S |-> yz[s] + wl[s]]
<1>0. /\ IsFiniteSet(S) /\ i \in Int /\ j \in Int /\ k \in Int /\ l \in Int
      /\ x \in [S -> Int] /\ y \in [S -> Int] /\ z \in [S -> Int] /\ w \in [S -> Int]
      /\ \A s \in S : x[s] * i <= (y[s] * j + z[s] * k) + w[s] * l
  BY DEF Weighed
<1>1. /\ SumFunctionOnSet(x, S) \in Int /\ SumFunctionOnSet(y, S) \in Int
      /\ SumFunctionOnSet(z, S) \in Int /\ SumFunctionOnSet(w, S) \in Int
  BY <1>0, SumInt
<1>2. \A s \in S : /\ xi[s] \in Int /\ yj[s] \in Int /\ zk[s] \in Int /\ wl[s] \in Int
                   /\ yz[s] \in Int /\ all[s] \in Int
                   /\ xi[s] = x[s] * i /\ yj[s] = y[s] * j /\ zk[s] = z[s] * k /\ wl[s] = w[s] * l
                   /\ yz[s] = yj[s] + zk[s] /\ all[s] = yz[s] + wl[s]
                   /\ xi[s] <= all[s]
  BY <1>0
<1> HIDE DEF xi, yj, zk, wl, yz, all
<1>3. SumFunctionOnSet(xi, S) = SumFunctionOnSet(x, S) * i
  BY <1>0, <1>2, SumScaled
<1>4. SumFunctionOnSet(yj, S) = SumFunctionOnSet(y, S) * j
  BY <1>0, <1>2, SumScaled
<1>5. SumFunctionOnSet(zk, S) = SumFunctionOnSet(z, S) * k
  BY <1>0, <1>2, SumScaled
<1>6. SumFunctionOnSet(wl, S) = SumFunctionOnSet(w, S) * l
  BY <1>0, <1>2, SumScaled
<1>7. SumFunctionOnSet(yz, S) = SumFunctionOnSet(yj, S) + SumFunctionOnSet(zk, S)
  BY <1>0, <1>2, SumPlus
<1>8. SumFunctionOnSet(all, S) = SumFunctionOnSet(yz, S) + SumFunctionOnSet(wl, S)
  BY <1>0, <1>2, SumPlus
<1>9. SumFunctionOnSet(xi, S) <= SumFunctionOnSet(all, S)
  BY <1>0, <1>2, SumMonotone
<1> QED
  BY <1>1, <1>3, <1>4, <1>5, <1>6, <1>7, <1>8, <1>9, Zenon

-----------------------------------------------------------------------------
(* Books *)

IsBook(book, prices) ==
  /\ IsFiniteSet(DOMAIN book)
  /\ book \in [DOMAIN book -> Int]
  /\ \A s \in DOMAIN book : PriceOf(prices, s) \in Nat

\* Every position of b is on the way from the one of a to zero.
Shrunk(a, b) == b \in [DOMAIN a -> Int] /\ \A s \in DOMAIN a : Towards(b[s], a[s])

\* The terms of the sums over a book.
SizeTerms(book, prices)  == [s \in DOMAIN book |-> Abs(book[s] * PriceOf(prices, s))]
LongTerms(book, prices)  == [s \in DOMAIN book |-> Greatest(0, book[s] * PriceOf(prices, s))]
ShortTerms(book, prices) == [s \in DOMAIN book |-> Greatest(0, -(book[s] * PriceOf(prices, s)))]
PriceTerms(book, prices) == [s \in DOMAIN book |-> PriceOf(prices, s)]

LEMMA NaturalSum ==
  ASSUME NEW S, IsFiniteSet(S), NEW f \in [S -> Nat]
  PROVE  SumFunctionOnSet(f, S) \in Nat
<1> DEFINE zero == [s \in S |-> 0]
<1>1. \A s \in S : zero[s] \in Int /\ f[s] \in Int /\ zero[s] <= f[s] /\ zero[s] = 0
  OBVIOUS
<1> HIDE DEF zero
<1>2. SumFunctionOnSet(zero, S) <= SumFunctionOnSet(f, S) /\ SumFunctionOnSet(zero, S) = 0
  BY <1>1, SumMonotone, SumOfZeros, Zenon
<1>3. SumFunctionOnSet(f, S) \in Int
  BY <1>1, SumInt
<1> QED
  BY <1>2, <1>3

LEMMA Exposures ==
  ASSUME NEW book, NEW prices, IsBook(book, prices)
  PROVE  LET S == DOMAIN book
             n == Notionals(book, prices)
         IN /\ n \in [S -> Int] /\ \A s \in S : n[s] = book[s] * PriceOf(prices, s)
            /\ SizeTerms(book, prices) \in [S -> Nat] /\ LongTerms(book, prices) \in [S -> Nat]
            /\ ShortTerms(book, prices) \in [S -> Nat] /\ PriceTerms(book, prices) \in [S -> Nat]
            /\ Gross(book, prices) = SumFunctionOnSet(SizeTerms(book, prices), S)
            /\ Net(book, prices) = SumFunctionOnSet(n, S)
            /\ LongNotional(book, prices) = SumFunctionOnSet(LongTerms(book, prices), S)
            /\ ShortNotional(book, prices) = SumFunctionOnSet(ShortTerms(book, prices), S)
            /\ Slack(book, prices) = SumFunctionOnSet(PriceTerms(book, prices), S)
            /\ Gross(book, prices) \in Nat /\ Net(book, prices) \in Int
            /\ LongNotional(book, prices) \in Nat /\ ShortNotional(book, prices) \in Nat
            /\ Slack(book, prices) \in Nat
            /\ Net(book, prices) = LongNotional(book, prices) - ShortNotional(book, prices)
<1> DEFINE S == DOMAIN book
           n == Notionals(book, prices)
<1>1. IsFiniteSet(S) /\ \A s \in S : book[s] \in Int /\ PriceOf(prices, s) \in Nat
  BY DEF IsBook
<1>2. DOMAIN n = S /\ n = [s \in S |-> book[s] * PriceOf(prices, s)]
  BY DEF Notionals
<1>3. \A s \in S : book[s] * PriceOf(prices, s) \in Int
  BY <1>1
<1>4. n \in [S -> Int] /\ \A s \in S : n[s] = book[s] * PriceOf(prices, s)
  BY <1>2, <1>3
<1> HIDE DEF n
<1>5. /\ [s \in DOMAIN n |-> Abs(n[s])] = SizeTerms(book, prices)
      /\ [s \in DOMAIN n |-> Greatest(0, n[s])] = LongTerms(book, prices)
      /\ [s \in DOMAIN n |-> Greatest(0, -n[s])] = ShortTerms(book, prices)
  BY <1>2, <1>4 DEF SizeTerms, LongTerms, ShortTerms
<1>6. \A i \in Int : Abs(i) \in Nat /\ Greatest(0, i) \in Nat /\ -i \in Int /\ Greatest(0, -i) \in Nat
  BY DEF Abs, Greatest
<1>7. /\ SizeTerms(book, prices) \in [S -> Nat] /\ LongTerms(book, prices) \in [S -> Nat]
      /\ ShortTerms(book, prices) \in [S -> Nat] /\ PriceTerms(book, prices) \in [S -> Nat]
  BY <1>1, <1>3, <1>6 DEF SizeTerms, LongTerms, ShortTerms, PriceTerms
<1>8. /\ DOMAIN SizeTerms(book, prices) = S /\ DOMAIN LongTerms(book, prices) = S
      /\ DOMAIN ShortTerms(book, prices) = S /\ DOMAIN PriceTerms(book, prices) = S
  BY DEF SizeTerms, LongTerms, ShortTerms, PriceTerms
<1>9. /\ Gross(book, prices) = SumFunctionOnSet(SizeTerms(book, prices), S)
      /\ Net(book, prices) = SumFunctionOnSet(n, S)
      /\ LongNotional(book, prices) = SumFunctionOnSet(LongTerms(book, prices), S)
      /\ ShortNotional(book, prices) = SumFunctionOnSet(ShortTerms(book, prices), S)
  BY <1>2, <1>5, <1>8, Zenon DEF Gross, Net, LongNotional, ShortNotional, SumFunction, n
<1>10. Slack(book, prices) = SumFunctionOnSet(PriceTerms(book, prices), S)
  BY <1>8, Zenon DEF Slack, SumFunction, PriceTerms
<1>11. /\ Gross(book, prices) \in Nat /\ LongNotional(book, prices) \in Nat
       /\ ShortNotional(book, prices) \in Nat /\ Slack(book, prices) \in Nat
  BY <1>1, <1>7, <1>9, <1>10, NaturalSum, Zenon
<1>12. Net(book, prices) \in Int
  BY <1>1, <1>4, <1>9, SumInt, Zenon
<1>13. LongNotional(book, prices) = Net(book, prices) + ShortNotional(book, prices)
  <2> DEFINE long  == LongTerms(book, prices)
             short == ShortTerms(book, prices)
  <2>1. \A i \in Int : Greatest(0, i) = i + Greatest(0, -i)
    BY DEF Greatest
  <2>2. \A s \in S : long[s] = n[s] + short[s]
    BY <1>3, <1>4, <2>1 DEF LongTerms, ShortTerms
  <2>3. \A s \in S : n[s] \in Int /\ short[s] \in Int /\ long[s] = n[s] + short[s]
    BY <1>4, <1>7, <2>2
  <2> HIDE DEF long, short
  <2>4. SumFunctionOnSet(long, S) = SumFunctionOnSet(n, S) + SumFunctionOnSet(short, S)
    BY <1>1, <2>3, SumPlus
  <2> QED
    BY <1>9, <2>4, Zenon DEF long, short
<1>14. Net(book, prices) = LongNotional(book, prices) - ShortNotional(book, prices)
  BY <1>11, <1>12, <1>13
<1> QED
  BY <1>4, <1>7, <1>9, <1>10, <1>11, <1>12, <1>14, Zenon DEF n

LEMMA GrossTerms ==
  ASSUME NEW b, NEW prices, IsBook(b, prices)
  PROVE  /\ SizeTerms(b, prices) \in [DOMAIN b -> Nat] /\ PriceTerms(b, prices) \in [DOMAIN b -> Nat]
         /\ Gross(b, prices) = SumFunctionOnSet(SizeTerms(b, prices), DOMAIN b)
         /\ Slack(b, prices) = SumFunctionOnSet(PriceTerms(b, prices), DOMAIN b)
         /\ Gross(b, prices) \in Nat /\ Slack(b, prices) \in Nat
BY Exposures, Zenon

LEMMA SizeShrinks ==
  ASSUME NEW q \in Int, NEW r \in Int, NEW p \in Nat, Towards(r, q)
  PROVE  Abs(r * p) \in Nat /\ Abs(q * p) \in Nat /\ Abs(r * p) <= Abs(q * p)
<1>1. Abs(r) <= Abs(q)
  BY DEF Towards, Abs
<1>2. /\ Abs(r * p) = Abs(r) * p /\ Abs(q * p) = Abs(q) * p /\ Abs(r) \in Int /\ Abs(q) \in Int
      /\ Abs(r * p) \in Nat /\ Abs(q * p) \in Nat
  <2>1. Abs(r) \in Nat /\ Abs(r * p) = Abs(r) * p /\ Abs(r * p) \in Nat
    BY AbsTimes, Zenon
  <2>2. Abs(q) \in Nat /\ Abs(q * p) = Abs(q) * p /\ Abs(q * p) \in Nat
    BY AbsTimes, Zenon
  <2> QED
    BY <2>1, <2>2
<1>3. Abs(r) * p <= Abs(q) * p
  BY <1>1, <1>2, ProductMonotone
<1> QED
  BY <1>2, <1>3

LEMMA ShrunkBook ==
  ASSUME NEW a, NEW b, NEW prices, IsBook(a, prices), Shrunk(a, b)
  PROVE  /\ IsBook(b, prices) /\ DOMAIN b = DOMAIN a
         /\ Slack(b, prices) = Slack(a, prices)
         /\ \A s \in DOMAIN a : Abs(b[s] * PriceOf(prices, s)) <= Abs(a[s] * PriceOf(prices, s))
         /\ Gross(b, prices) <= Gross(a, prices)
<1>1. DOMAIN b = DOMAIN a /\ b \in [DOMAIN b -> Int] /\ IsFiniteSet(DOMAIN a)
  BY DEF IsBook, Shrunk
<1>2. IsBook(b, prices)
  BY <1>1 DEF IsBook
<1>3. Slack(b, prices) = Slack(a, prices)
  BY <1>1 DEF Slack
<1> DEFINE x == SizeTerms(b, prices)
           y == SizeTerms(a, prices)
<1>4. \A s \in DOMAIN a : Abs(b[s] * PriceOf(prices, s)) <= Abs(a[s] * PriceOf(prices, s))
  BY SizeShrinks DEF IsBook, Shrunk
<1>5. \A s \in DOMAIN a : x[s] \in Int /\ y[s] \in Int /\ x[s] <= y[s]
  <2>1. /\ x \in [DOMAIN a -> Nat] /\ y \in [DOMAIN a -> Nat]
    BY <1>1, <1>2, GrossTerms
  <2>2. \A s \in DOMAIN a : /\ x[s] = Abs(b[s] * PriceOf(prices, s))
                            /\ y[s] = Abs(a[s] * PriceOf(prices, s))
    BY <1>1, Zenon DEF SizeTerms
  <2> HIDE DEF x, y
  <2> QED
    BY <1>4, <2>1, <2>2
<1> HIDE DEF x, y
<1>6. SumFunctionOnSet(x, DOMAIN a) <= SumFunctionOnSet(y, DOMAIN a)
  BY <1>1, <1>5, SumMonotone
<1>7. Gross(b, prices) <= Gross(a, prices)
  BY <1>1, <1>2, <1>6, GrossTerms, Zenon DEF x, y
<1> QED
  BY <1>1, <1>2, <1>3, <1>4, <1>7

LEMMA ShrunkTwice ==
  ASSUME NEW a, NEW b, NEW c, a \in [DOMAIN a -> Int], Shrunk(a, b), Shrunk(b, c)
  PROVE  Shrunk(a, c)
<1>1. DOMAIN b = DOMAIN a /\ b \in [DOMAIN a -> Int] /\ c \in [DOMAIN a -> Int]
  BY DEF Shrunk
<1>2. \A s \in DOMAIN a : Towards(c[s], a[s])
  BY <1>1, TowardsTrans DEF Shrunk
<1> QED
  BY <1>1, <1>2 DEF Shrunk

LEMMA NotShrunk ==
  ASSUME NEW a, a \in [DOMAIN a -> Int]
  PROVE  Shrunk(a, a)
BY DEF Shrunk, Towards

\* Scaling down to a gross limit reaches it, but for the rounding.
LEMMA ScaledToGross ==
  ASSUME NEW a, NEW prices, IsBook(a, prices), NEW num \in Nat, NEW den \in Nat, den > 0
  PROVE  LET b == ScaleToGross(a, prices, num, den)
         IN Shrunk(a, b) /\ Gross(b, prices) * (2 * den) <= 2 * num + den * Slack(a, prices)
<1> DEFINE S == DOMAIN a
           g == Gross(a, prices)
           k == Slack(a, prices)
           b == ScaleToGross(a, prices, num, den)
<1>1. g \in Nat /\ k \in Nat
  BY GrossTerms
<1>2. IsFiniteSet(S) /\ a \in [S -> Int] /\ \A s \in S : PriceOf(prices, s) \in Nat
  BY DEF IsBook
<1>3. b = IF g * den <= num \/ g = 0 THEN a
          ELSE [s \in S |-> Rounded(a[s] * num, g * den)]
  BY DEF ScaleToGross
<1> HIDE DEF b, g, k
<1>4. CASE g * den <= num \/ g = 0
  <2>1. b = a
    BY <1>3, <1>4
  <2>2. g * (2 * den) = 2 * (g * den) /\ g * den \in Nat /\ den * k \in Nat
    BY <1>1
  <2>3. g * (2 * den) <= 2 * num + den * k
    BY <1>1, <1>4, <2>2
  <2> QED
    BY <1>2, <2>1, <2>3, NotShrunk DEF b, g, k
<1>5. CASE ~(g * den <= num \/ g = 0)
  <2> DEFINE d == g * den
  <2>1. d \in Nat /\ d > 0 /\ num <= d /\ g > 0
    BY <1>1, <1>5
  <2>2. b = [s \in S |-> Rounded(a[s] * num, d)]
    BY <1>3, <1>5
  <2> HIDE DEF d
  <2>3. \A s \in S : /\ b[s] \in Int /\ Towards(b[s], a[s])
                     /\ Abs(b[s] * PriceOf(prices, s)) * (2 * d)
                          <= Abs(a[s] * PriceOf(prices, s)) * (2 * num) + PriceOf(prices, s) * d
    <3> TAKE s \in S
    <3>1. a[s] \in Int /\ PriceOf(prices, s) \in Nat /\ b[s] = Rounded(a[s] * num, d)
      BY <1>2, <2>2
    <3> QED
      BY <2>1, <3>1, SizeScaled
  <2>4. Shrunk(a, b)
    BY <2>2, <2>3 DEF Shrunk
  <2>5. DOMAIN b = S /\ IsBook(b, prices)
    BY <2>4, ShrunkBook
  <2> DEFINE x == SizeTerms(b, prices)
             y == SizeTerms(a, prices)
             z == PriceTerms(a, prices)
  <2>6. /\ x \in [S -> Int] /\ y \in [S -> Int] /\ z \in [S -> Int]
        /\ Gross(b, prices) = SumFunctionOnSet(x, S)
        /\ g = SumFunctionOnSet(y, S) /\ k = SumFunctionOnSet(z, S)
    <3>1. x \in [S -> Nat] /\ y \in [S -> Nat] /\ z \in [S -> Nat]
      BY <2>5, GrossTerms, Zenon
    <3>2. /\ Gross(b, prices) = SumFunctionOnSet(x, S)
          /\ g = SumFunctionOnSet(y, S) /\ k = SumFunctionOnSet(z, S)
      BY <2>5, GrossTerms, Zenon DEF g, k
    <3> HIDE DEF x, y, z
    <3> QED
      BY <3>1, <3>2
  <2>7. \A s \in S : x[s] * (2 * d) <= (y[s] * (2 * num) + z[s] * d) + z[s] * 0
    <3> TAKE s \in S
    <3>1. /\ x[s] = Abs(b[s] * PriceOf(prices, s)) /\ y[s] = Abs(a[s] * PriceOf(prices, s))
          /\ z[s] = PriceOf(prices, s)
      BY <2>5, Zenon DEF SizeTerms, PriceTerms
    <3>2. x[s] \in Int /\ y[s] \in Int /\ z[s] \in Int
      BY <2>6
    <3> HIDE DEF x, y, z
    <3>3. x[s] * (2 * d) <= y[s] * (2 * num) + z[s] * d
      BY <2>3, <3>1, Zenon
    <3>4. y[s] * (2 * num) + z[s] * d \in Int /\ z[s] * 0 = 0
      BY <2>1, <3>2
    <3> QED
      BY <3>3, <3>4
  <2> HIDE DEF x, y, z
  <2>8. Gross(b, prices) * (2 * d) <= (g * (2 * num) + k * d) + k * 0 /\ Gross(b, prices) \in Int
    <3> DEFINE i == 2 * d
               j == 2 * num
               l == 0
    <3>1. i \in Int /\ j \in Int /\ d \in Int /\ l \in Int
      BY <2>1
    <3>2. Weighed(S, x, i, y, j, z, d, z, l)
      <4>1. \A s \in S : x[s] * i <= (y[s] * j + z[s] * d) + z[s] * l
        BY <2>7
      <4> HIDE DEF i, j, l
      <4> QED
        BY <1>2, <2>6, <3>1, <4>1 DEF Weighed
    <3> HIDE DEF i, j, l
    <3>3. /\ SumFunctionOnSet(x, S) \in Int
          /\ SumFunctionOnSet(x, S) * i <=
               (SumFunctionOnSet(y, S) * j + SumFunctionOnSet(z, S) * d) + SumFunctionOnSet(z, S) * l
      BY <3>2, WeightedSums
    <3> QED
      BY <2>6, <3>3, Zenon DEF i, j, l
  <2>9. Gross(b, prices) * (2 * den) <= 2 * num + den * k
    <3> DEFINE gb == Gross(b, prices)
    <3>1. gb \in Int
      BY <2>8
    <3> HIDE DEF gb
    <3>2. gb * (2 * d) = (gb * (2 * den)) * g
      BY <1>1, <3>1 DEF d
    <3>3. (g * (2 * num) + k * d) + k * 0 = (2 * num + den * k) * g
      BY <1>1 DEF d
    <3>4. (gb * (2 * den)) * g <= (2 * num + den * k) * g
      BY <2>8, <3>2, <3>3, Zenon DEF gb
    <3>5. gb * (2 * den) \in Int /\ 2 * num + den * k \in Int
      BY <1>1, <3>1
    <3>6. gb * (2 * den) <= 2 * num + den * k
      BY <1>1, <2>1, <3>4, <3>5, AtMostByFactor
    <3> QED
      BY <3>6 DEF gb
  <2> QED
    BY <2>4, <2>9 DEF b, k
<1> QED
  BY <1>4, <1>5

LEMMA NetTerms ==
  ASSUME NEW b, NEW prices, IsBook(b, prices)
  PROVE  /\ Notionals(b, prices) \in [DOMAIN b -> Int]
         /\ \A s \in DOMAIN b : Notionals(b, prices)[s] = b[s] * PriceOf(prices, s)
         /\ Net(b, prices) = SumFunctionOnSet(Notionals(b, prices), DOMAIN b)
         /\ Net(b, prices) \in Int
BY Exposures, Zenon

\* The leg of sign e, worth h, is to be scaled down to keep, which leaves b.
IsLeg(a, prices, e, keep, heavy, light, h, b) ==
  /\ IsBook(a, prices) /\ e \in {1, -1} /\ keep \in Nat /\ h \in Nat /\ h > 0 /\ keep <= h
  /\ heavy \in [DOMAIN a -> Nat] /\ light \in [DOMAIN a -> Nat]
  /\ \A s \in DOMAIN a : /\ heavy[s] = Greatest(0, e * (a[s] * PriceOf(prices, s)))
                         /\ light[s] = Greatest(0, -(e * (a[s] * PriceOf(prices, s))))
  /\ h = SumFunctionOnSet(heavy, DOMAIN a)
  /\ b = [s \in DOMAIN a |-> IF a[s] * e > 0 THEN Rounded(a[s] * keep, h) ELSE a[s]]

LEMMA LegScaled ==
  ASSUME NEW a, NEW prices, NEW e, NEW keep, NEW heavy, NEW light, NEW h, NEW b,
         IsLeg(a, prices, e, keep, heavy, light, h, b)
  PROVE  LET l == SumFunctionOnSet(light, DOMAIN a)
         IN /\ Shrunk(a, b) /\ l \in Nat
            /\ 2 * (e * Net(b, prices)) <= 2 * (keep - l) + Slack(a, prices)
            /\ 2 * (keep - l) - Slack(a, prices) <= 2 * (e * Net(b, prices))
<1> USE DEF IsLeg
<1> DEFINE S == DOMAIN a
           k == Slack(a, prices)
           l == SumFunctionOnSet(light, S)
           p(s) == PriceOf(prices, s)
<1>1. IsFiniteSet(S) /\ \A s \in S : a[s] \in Int /\ p(s) \in Nat
  BY DEF IsBook
<1>2. \A s \in S : /\ b[s] \in Int /\ Towards(b[s], a[s])
                   /\ (e * (b[s] * p(s))) * (2 * h)
                        <= (heavy[s] * (2 * keep) + light[s] * (-(2 * h))) + p(s) * h
                   /\ (-(e * (b[s] * p(s)))) * (2 * h)
                        <= (heavy[s] * (-(2 * keep)) + light[s] * (2 * h)) + p(s) * h
  <2> TAKE s \in S
  <2> DEFINE q == a[s]
             r == b[s]
             c == p(s)
  <2>1. q \in Int /\ c \in Nat /\ q * c \in Int
    BY <1>1
  <2>2. r = IF q * e > 0 THEN Rounded(q * keep, h) ELSE q
    OBVIOUS
  <2>3. heavy[s] = Greatest(0, e * (q * c)) /\ light[s] = Greatest(0, -(e * (q * c)))
    OBVIOUS
  <2>4. c * h \in Nat
    BY <2>1
  <2> HIDE DEF q, r, c
  <2>5. CASE q * e > 0
    <3>1. /\ r \in Int /\ Towards(r, q)
          /\ (r * c) * (2 * h) <= (q * c) * (2 * keep) + c * h
          /\ (q * c) * (2 * keep) - c * h <= (r * c) * (2 * h)
      BY <2>1, <2>2, <2>5, SizeScaled
    <3>2. e * (q * c) \in Nat
      <4>1. CASE e = 1
        BY <2>1, <2>5, <4>1
      <4>2. CASE e = -1
        <5>1. (-q) * c \in Nat /\ (-1) * (q * c) = (-q) * c
          BY <2>1, <2>5, <4>2
        <5> QED
          BY <4>2, <5>1
      <4> QED
        BY <4>1, <4>2
    <3>3. heavy[s] = e * (q * c) /\ light[s] = 0
      <4> DEFINE w == e * (q * c)
      <4> HIDE DEF w
      <4>1. w \in Nat
        BY <3>2 DEF w
      <4>2. Greatest(0, w) = w /\ Greatest(0, -w) = 0
        BY <4>1 DEF Greatest
      <4> QED
        BY <2>3, <4>2 DEF w
    <3> DEFINE u == r * c
               v == q * c
               z == c * h
    <3>4. u \in Int /\ v \in Int /\ z \in Int
      BY <2>1, <3>1
    <3>5. u * (2 * h) <= v * (2 * keep) + z /\ v * (2 * keep) - z <= u * (2 * h)
      BY <3>1
    <3> HIDE DEF u, v, z
    <3>6. /\ (e * u) * (2 * h) <= ((e * v) * (2 * keep) + 0 * (-(2 * h))) + z
          /\ (-(e * u)) * (2 * h) <= ((e * v) * (-(2 * keep)) + 0 * (2 * h)) + z
      <4>1. /\ u * (2 * h) \in Int /\ v * (2 * keep) \in Int
            /\ (-u) * (2 * h) = -(u * (2 * h)) /\ (-v) * (2 * keep) = -(v * (2 * keep))
            /\ v * (-(2 * keep)) = -(v * (2 * keep)) /\ (-v) * (-(2 * keep)) = v * (2 * keep)
            /\ 0 * (-(2 * h)) = 0 /\ 0 * (2 * h) = 0
        BY <3>4
      <4>2. CASE e = 1
        <5>1. e * u = u /\ e * v = v
          BY <3>4, <4>2
        <5>2. /\ u * (2 * h) <= (v * (2 * keep) + 0 * (-(2 * h))) + z
              /\ (-u) * (2 * h) <= (v * (-(2 * keep)) + 0 * (2 * h)) + z
          BY <3>4, <3>5, <4>1
        <5> QED
          BY <5>1, <5>2, Zenon
      <4>3. CASE e = -1
        <5>1. e * u = -u /\ e * v = -v /\ -(e * u) = u
          BY <3>4, <4>3
        <5>2. /\ (-u) * (2 * h) <= ((-v) * (2 * keep) + 0 * (-(2 * h))) + z
              /\ u * (2 * h) <= ((-v) * (-(2 * keep)) + 0 * (2 * h)) + z
          BY <3>4, <3>5, <4>1
        <5> QED
          BY <5>1, <5>2, Zenon
      <4> QED
        BY <4>2, <4>3
    <3> QED
      BY <3>1, <3>3, <3>6, Zenon DEF q, r, c, u, v, z
  <2>6. CASE ~(q * e > 0)
    <3>1. r = q /\ Towards(r, q)
      BY <2>1, <2>2, <2>6 DEF Towards
    <3>2. -(e * (q * c)) \in Nat
      <4>1. CASE e = 1
        <5>1. (-q) * c \in Nat /\ -(1 * (q * c)) = (-q) * c
          BY <2>1, <2>6, <4>1
        <5> QED
          BY <4>1, <5>1
      <4>2. CASE e = -1
        <5>1. q * c \in Nat /\ -((-1) * (q * c)) = q * c
          BY <2>1, <2>6, <4>2
        <5> QED
          BY <4>2, <5>1
      <4> QED
        BY <4>1, <4>2
    <3> DEFINE w == e * (q * c)
               z == c * h
    <3>3. w \in Int /\ -w \in Nat /\ z \in Nat
      <4>1. e \in Int
        OBVIOUS
      <4> QED
        BY <2>1, <2>4, <3>2, <4>1
    <3> HIDE DEF w, z
    <3>4. heavy[s] = 0 /\ light[s] = -w
      <4>1. Greatest(0, w) = 0 /\ Greatest(0, -w) = -w
        BY <3>3 DEF Greatest
      <4> QED
        BY <2>3, <4>1 DEF w
    <3>5. /\ w * (2 * h) <= (0 * (2 * keep) + (-w) * (-(2 * h))) + z
          /\ (-w) * (2 * h) <= (0 * (-(2 * keep)) + (-w) * (2 * h)) + z
      <4>1. /\ w * (2 * h) \in Int /\ (-w) * (-(2 * h)) = w * (2 * h)
            /\ 0 * (2 * keep) = 0 /\ 0 * (-(2 * keep)) = 0 /\ (-w) * (2 * h) \in Int
        BY <3>3
      <4> QED
        BY <3>3, <4>1
    <3> QED
      BY <2>1, <3>1, <3>4, <3>5, Zenon DEF q, r, c, w, z
  <2> QED
    BY <2>5, <2>6
<1>3. Shrunk(a, b)
  BY <1>2 DEF Shrunk
<1>4. DOMAIN b = S /\ IsBook(b, prices)
  BY <1>3, ShrunkBook
<1>5. k \in Nat /\ k = SumFunctionOnSet(PriceTerms(a, prices), S) /\ PriceTerms(a, prices) \in [S -> Nat]
  BY GrossTerms
<1>6. l \in Nat
  BY <1>1, NaturalSum
<1> DEFINE n == Notionals(b, prices)
           up == [s \in S |-> n[s] * e]
           down == [s \in S |-> n[s] * (-e)]
           z == PriceTerms(a, prices)
<1>7. /\ n \in [S -> Int] /\ Net(b, prices) = SumFunctionOnSet(n, S) /\ Net(b, prices) \in Int
      /\ \A s \in S : n[s] = b[s] * p(s)
  <2>1. /\ n \in [DOMAIN b -> Int] /\ \A s \in DOMAIN b : n[s] = b[s] * p(s)
        /\ Net(b, prices) = SumFunctionOnSet(n, DOMAIN b) /\ Net(b, prices) \in Int
    BY <1>4, NetTerms
  <2> HIDE DEF n, p
  <2> QED
    BY <1>4, <2>1, Zenon
<1>8. /\ up \in [S -> Int] /\ down \in [S -> Int] /\ z \in [S -> Int]
      /\ heavy \in [S -> Int] /\ light \in [S -> Int]
  <2>1. e \in Int /\ -e \in Int /\ \A s \in S : n[s] \in Int
    BY <1>7
  <2>2. \A s \in S : n[s] * e \in Int /\ n[s] * (-e) \in Int
    BY <2>1
  <2>3. up \in [S -> Int] /\ down \in [S -> Int]
    BY <2>2
  <2> HIDE DEF up, down, z
  <2> QED
    BY <1>5, <2>3 DEF z
<1>9. \A s \in S : z[s] = p(s)
  BY DEF PriceTerms
<1>10. /\ SumFunctionOnSet(up, S) = Net(b, prices) * e
       /\ SumFunctionOnSet(down, S) = Net(b, prices) * (-e)
  <2>1. e \in Int /\ -e \in Int
    OBVIOUS
  <2>2. \A s \in S : n[s] \in Int /\ up[s] = n[s] * e /\ down[s] = n[s] * (-e)
    BY <1>7
  <2> HIDE DEF up, down, n
  <2>3. SumFunctionOnSet(up, S) = SumFunctionOnSet(n, S) * e
    BY <1>1, <2>1, <2>2, SumScaled
  <2> DEFINE f == -e
  <2>4. f \in Int /\ \A s \in S : n[s] \in Int /\ down[s] = n[s] * f
    BY <2>1, <2>2
  <2> HIDE DEF f
  <2>5. SumFunctionOnSet(down, S) = SumFunctionOnSet(n, S) * f
    BY <1>1, <2>4, SumScaled
  <2> QED
    BY <1>7, <2>3, <2>5, Zenon DEF f
<1>11. \A s \in S : /\ up[s] * (2 * h) <= (heavy[s] * (2 * keep) + light[s] * (-(2 * h))) + z[s] * h
                    /\ down[s] * (2 * h) <= (heavy[s] * (-(2 * keep)) + light[s] * (2 * h)) + z[s] * h
  <2> TAKE s \in S
  <2>1. n[s] = b[s] * p(s) /\ z[s] = p(s) /\ b[s] * p(s) \in Int
    BY <1>1, <1>2, <1>7, <1>9
  <2>2. up[s] = e * (b[s] * p(s)) /\ down[s] = -(e * (b[s] * p(s)))
    <3>1. up[s] = (b[s] * p(s)) * e /\ down[s] = (b[s] * p(s)) * (-e)
      BY <2>1
    <3>2. \A w \in Int : w * e = e * w /\ w * (-e) = -(e * w)
      OBVIOUS
    <3> QED
      BY <2>1, <3>1, <3>2
  <2> HIDE DEF up, down, z, n, p
  <2> QED
    BY <1>2, <2>1, <2>2, Zenon
<1> HIDE DEF up, down, z, n, l, k
<1> DEFINE i == 2 * h
           j == 2 * keep
           g == -(2 * h)
           m == -(2 * keep)
           su == SumFunctionOnSet(up, S)
           sd == SumFunctionOnSet(down, S)
<1>12. /\ su * i <= (h * j + l * g) + k * h
       /\ sd * i <= (h * m + l * i) + k * h
       /\ su \in Int /\ sd \in Int
  <2>1. i \in Int /\ j \in Int /\ g \in Int /\ m \in Int /\ h \in Int
    OBVIOUS
  <2>2. /\ \A s \in S : up[s] * i <= (heavy[s] * j + light[s] * g) + z[s] * h
        /\ \A s \in S : down[s] * i <= (heavy[s] * m + light[s] * i) + z[s] * h
    BY <1>11
  <2> HIDE DEF i, j, g, m
  <2>w. Weighed(S, up, i, heavy, j, light, g, z, h) /\ Weighed(S, down, i, heavy, m, light, i, z, h)
    BY <1>1, <1>8, <2>1, <2>2 DEF Weighed
  <2>3. /\ su \in Int
        /\ su * i <= (SumFunctionOnSet(heavy, S) * j + SumFunctionOnSet(light, S) * g) + SumFunctionOnSet(z, S) * h
    BY <2>w, WeightedSums
  <2>4. /\ sd \in Int
        /\ sd * i <= (SumFunctionOnSet(heavy, S) * m + SumFunctionOnSet(light, S) * i) + SumFunctionOnSet(z, S) * h
    BY <2>w, WeightedSums
  <2> QED
    BY <1>5, <2>3, <2>4, Zenon DEF l, z
<1> HIDE DEF su, sd
<1>13. /\ su * 2 <= 2 * (keep - l) + k
       /\ sd * 2 <= 2 * (l - keep) + k
  <2>1. /\ su * i = (su * 2) * h /\ sd * i = (sd * 2) * h
        /\ (h * j + l * g) + k * h = (2 * (keep - l) + k) * h
        /\ (h * m + l * i) + k * h = (2 * (l - keep) + k) * h
    BY <1>5, <1>6, <1>12
  <2> HIDE DEF i, j, g, m
  <2>2. /\ (su * 2) * h <= (2 * (keep - l) + k) * h
        /\ (sd * 2) * h <= (2 * (l - keep) + k) * h
    BY <1>12, <2>1, Zenon
  <2>3. su * 2 \in Int /\ sd * 2 \in Int /\ 2 * (keep - l) + k \in Int /\ 2 * (l - keep) + k \in Int
    BY <1>5, <1>6, <1>12
  <2> QED
    BY <2>2, <2>3, AtMostByFactor
<1>14. su = e * Net(b, prices) /\ sd = -(e * Net(b, prices))
  <2>1. \A w \in Int : w * e = e * w /\ w * (-e) = -(e * w)
    OBVIOUS
  <2> QED
    BY <1>7, <1>10, <2>1 DEF su, sd
<1>15. /\ 2 * (e * Net(b, prices)) <= 2 * (keep - l) + k
       /\ 2 * (keep - l) - k <= 2 * (e * Net(b, prices))
  <2> DEFINE w == e * Net(b, prices)
  <2>1. w \in Int /\ su = w /\ sd = -w
    BY <1>12, <1>14
  <2> HIDE DEF w
  <2>2. 2 * w <= 2 * (keep - l) + k /\ 2 * (keep - l) - k <= 2 * w
    BY <1>5, <1>6, <1>13, <2>1
  <2> QED
    BY <2>2 DEF w
<1> QED
  BY <1>3, <1>6, <1>15 DEF l, k

LEMMA LegsOf ==
  ASSUME NEW a, NEW prices, IsBook(a, prices)
  PROVE  /\ LongTerms(a, prices) \in [DOMAIN a -> Nat] /\ ShortTerms(a, prices) \in [DOMAIN a -> Nat]
         /\ LongNotional(a, prices) = SumFunctionOnSet(LongTerms(a, prices), DOMAIN a)
         /\ ShortNotional(a, prices) = SumFunctionOnSet(ShortTerms(a, prices), DOMAIN a)
         /\ LongNotional(a, prices) \in Nat /\ ShortNotional(a, prices) \in Nat
         /\ Net(a, prices) \in Int /\ Slack(a, prices) \in Nat
         /\ Net(a, prices) = LongNotional(a, prices) - ShortNotional(a, prices)
BY Exposures, Zenon

\* Scaling down to a net limit reaches it, but for the rounding.
LEMMA ScaledToNet ==
  ASSUME NEW a, NEW prices, IsBook(a, prices), NEW limit \in Nat
  PROVE  LET b == ScaleToNet(a, prices, limit)
         IN Shrunk(a, b) /\ 2 * Abs(Net(b, prices)) <= 2 * limit + Slack(a, prices)
<1> DEFINE S == DOMAIN a
           net == Net(a, prices)
           long == LongNotional(a, prices)
           short == ShortNotional(a, prices)
           k == Slack(a, prices)
           leg == IF net > 0 THEN long ELSE short
           keep == Greatest(0, leg - (Abs(net) - limit))
           b == ScaleToNet(a, prices, limit)
<1>1. long \in Nat /\ short \in Nat /\ net \in Int /\ k \in Nat /\ net = long - short
  BY LegsOf
<1>2. a \in [S -> Int] /\ \A s \in S : a[s] \in Int /\ PriceOf(prices, s) \in Nat
                                       /\ a[s] * PriceOf(prices, s) \in Int
  BY DEF IsBook
<1>3. b = IF Abs(net) <= limit THEN a
          ELSE [s \in S |-> IF a[s] * net > 0 THEN Rounded(a[s] * keep, leg) ELSE a[s]]
  BY DEF ScaleToNet
<1> HIDE DEF b, net, long, short, k
<1>4. CASE Abs(net) <= limit
  <2>1. b = a
    BY <1>3, <1>4
  <2>2. 2 * Abs(net) <= 2 * limit + k
    BY <1>1, <1>4 DEF Abs
  <2> QED
    BY <1>2, <2>1, <2>2, NotShrunk DEF b, net, k
<1>5. CASE ~(Abs(net) <= limit) /\ net > 0
  <2>1. leg = long /\ keep = short + limit /\ keep \in Nat /\ keep <= leg /\ leg > 0 /\ leg \in Nat
    BY <1>1, <1>5 DEF Abs, Greatest
  <2> HIDE DEF leg, keep
  <2> DEFINE e == 1
             heavy == LongTerms(a, prices)
             light == ShortTerms(a, prices)
  <2>2. e \in {1, -1} /\ heavy \in [S -> Nat] /\ light \in [S -> Nat]
    BY LegsOf
  <2>3. \A s \in S : /\ heavy[s] = Greatest(0, e * (a[s] * PriceOf(prices, s)))
                     /\ light[s] = Greatest(0, -(e * (a[s] * PriceOf(prices, s))))
    <3>1. \A w \in Int : 1 * w = w
      OBVIOUS
    <3> QED
      BY <1>2, <3>1 DEF LongTerms, ShortTerms
  <2>4. leg = SumFunctionOnSet(heavy, S) /\ short = SumFunctionOnSet(light, S)
    BY <2>1, LegsOf DEF long, short
  <2>5. b = [s \in S |-> IF a[s] * e > 0 THEN Rounded(a[s] * keep, leg) ELSE a[s]]
    <3>1. \A s \in S : a[s] * net > 0 <=> a[s] * e > 0
      <4>1. \A q \in Int : q * net > 0 <=> q * 1 > 0
        <5> TAKE q \in Int
        <5>1. q > 0 => q * net > 0
          BY <1>1, <1>5
        <5>2. q <= 0 => (-q) * net >= 0 /\ q * net = -((-q) * net)
          BY <1>1, <1>5
        <5>3. q * net \in Int /\ (-q) * net \in Int /\ q * 1 = q
          BY <1>1
        <5> QED
          BY <5>1, <5>2, <5>3
      <4> QED
        BY <1>2, <4>1
    <3> HIDE DEF e
    <3> QED
      BY <1>3, <1>5, <3>1
  <2> HIDE DEF e, heavy, light
  <2>6. /\ Shrunk(a, b)
        /\ 2 * (e * Net(b, prices)) <= 2 * (keep - short) + k
        /\ 2 * (keep - short) - k <= 2 * (e * Net(b, prices))
    <3>1. IsLeg(a, prices, e, keep, heavy, light, leg, b)
      BY <2>1, <2>2, <2>3, <2>4, <2>5 DEF IsLeg
    <3> QED
      BY <2>4, <3>1, LegScaled DEF k
  <2>7. IsBook(b, prices) /\ Net(b, prices) \in Int
    BY <2>6, ShrunkBook, LegsOf, Zenon
  <2>8. e * Net(b, prices) = Net(b, prices)
    BY <2>7 DEF e
  <2>9. 2 * Abs(Net(b, prices)) <= 2 * limit + k
    BY <1>1, <2>1, <2>6, <2>7, <2>8 DEF Abs
  <2> QED
    BY <2>6, <2>9 DEF b, k
<1>6. CASE ~(Abs(net) <= limit) /\ ~(net > 0)
  <2>1. leg = short /\ keep = long + limit /\ keep \in Nat /\ keep <= leg /\ leg > 0 /\ leg \in Nat /\ net < 0
    BY <1>1, <1>6 DEF Abs, Greatest
  <2> HIDE DEF leg, keep
  <2> DEFINE e == -1
             heavy == ShortTerms(a, prices)
             light == LongTerms(a, prices)
  <2>2. e \in {1, -1} /\ heavy \in [S -> Nat] /\ light \in [S -> Nat]
    BY LegsOf
  <2>3. \A s \in S : /\ heavy[s] = Greatest(0, e * (a[s] * PriceOf(prices, s)))
                     /\ light[s] = Greatest(0, -(e * (a[s] * PriceOf(prices, s))))
    <3>1. \A w \in Int : (-1) * w = -w /\ -((-1) * w) = w
      OBVIOUS
    <3> QED
      BY <1>2, <3>1 DEF LongTerms, ShortTerms
  <2>4. leg = SumFunctionOnSet(heavy, S) /\ long = SumFunctionOnSet(light, S)
    BY <2>1, LegsOf DEF long, short
  <2>5. b = [s \in S |-> IF a[s] * e > 0 THEN Rounded(a[s] * keep, leg) ELSE a[s]]
    <3>1. \A s \in S : a[s] * net > 0 <=> a[s] * e > 0
      <4>1. \A q \in Int : q * net > 0 <=> q * (-1) > 0
        <5> TAKE q \in Int
        <5>1. q < 0 => (-q) * (-net) > 0 /\ q * net = (-q) * (-net)
          BY <1>1, <2>1
        <5>2. q >= 0 => q * (-net) >= 0 /\ q * net = -(q * (-net))
          BY <1>1, <2>1
        <5>3. q * net \in Int /\ q * (-net) \in Int /\ q * (-1) = -q
          BY <1>1
        <5> QED
          BY <5>1, <5>2, <5>3
      <4> QED
        BY <1>2, <4>1
    <3> HIDE DEF e
    <3> QED
      BY <1>3, <1>6, <3>1
  <2> HIDE DEF e, heavy, light
  <2>6. /\ Shrunk(a, b)
        /\ 2 * (e * Net(b, prices)) <= 2 * (keep - long) + k
        /\ 2 * (keep - long) - k <= 2 * (e * Net(b, prices))
    <3>1. IsLeg(a, prices, e, keep, heavy, light, leg, b)
      BY <2>1, <2>2, <2>3, <2>4, <2>5 DEF IsLeg
    <3> QED
      BY <2>4, <3>1, LegScaled DEF k
  <2>7. IsBook(b, prices) /\ Net(b, prices) \in Int
    BY <2>6, ShrunkBook, LegsOf, Zenon
  <2>8. e * Net(b, prices) = -Net(b, prices)
    BY <2>7 DEF e
  <2>9. 2 * Abs(Net(b, prices)) <= 2 * limit + k
    BY <1>1, <2>1, <2>6, <2>7, <2>8 DEF Abs
  <2> QED
    BY <2>6, <2>9 DEF b, k
<1> QED
  BY <1>4, <1>5, <1>6

\* A cap on one position, in whole shares.
LEMMA CappedShares ==
  ASSUME NEW q \in Int, NEW p \in Nat, p > 0, NEW X \in Nat
  PROVE  LET r == Sgn(q) * Least(Abs(q), X \div (100 * p))
         IN r \in Int /\ Towards(r, q) /\ 100 * Abs(r * p) <= X
<1> DEFINE most == X \div (100 * p)
           least == Least(Abs(q), most)
           r == Sgn(q) * least
<1>1. 100 * p \in Nat /\ 100 * p > 0
  OBVIOUS
<1>2. /\ most \in Int /\ X = most * (100 * p) + (X % (100 * p)) /\ X % (100 * p) \in Int
      /\ 0 <= X % (100 * p) /\ X % (100 * p) < 100 * p
  BY <1>1, Quotient
<1> HIDE DEF most
<1>3. 0 <= most /\ most * (100 * p) <= X
  <2>1. most * (100 * p) \in Int /\ (most + 1) * (100 * p) = most * (100 * p) + 100 * p
    BY <1>1, <1>2
  <2>2. 0 * (100 * p) < (most + 1) * (100 * p)
    BY <1>1, <1>2, <2>1
  <2>3. 0 < most + 1
    BY <1>1, <1>2, <2>2, LessByFactor
  <2> QED
    BY <1>2, <2>1, <2>3
<1>4. least \in Nat /\ least <= Abs(q) /\ least <= most
  BY <1>2, <1>3 DEF Least, Abs
<1> HIDE DEF least
<1>5. r = IF q = 0 THEN 0 ELSE IF q < 0 THEN -least ELSE least
  BY <1>4 DEF Sgn
<1> HIDE DEF r
<1>6. r \in Int /\ Towards(r, q) /\ Abs(r) \in Int /\ Abs(r) <= most
  BY <1>2, <1>3, <1>4, <1>5 DEF Towards, Abs
<1>7. Abs(r) * (100 * p) <= most * (100 * p)
  BY <1>1, <1>2, <1>6, ProductMonotone
<1>8. Abs(r * p) = Abs(r) * p
  BY <1>6, AbsTimes
<1>9. 100 * (Abs(r) * p) = Abs(r) * (100 * p) /\ Abs(r) * (100 * p) \in Int /\ most * (100 * p) \in Int
  BY <1>1, <1>2, <1>6
<1>10. 100 * Abs(r * p) <= X
  BY <1>3, <1>7, <1>8, <1>9
<1> QED
  BY <1>6, <1>10 DEF r, least, most

LEMMA SingleCapped ==
  ASSUME NEW a, NEW prices, IsBook(a, prices), NEW value \in Nat
  PROVE  LET b == CapSingle(a, prices, value)
         IN /\ Shrunk(a, b)
            /\ \A s \in DOMAIN a : 100 * Abs(b[s] * PriceOf(prices, s)) <= SinglePct * value
<1> DEFINE S == DOMAIN a
           b == CapSingle(a, prices, value)
           X == SinglePct * value
<1>1. a \in [S -> Int] /\ \A s \in S : a[s] \in Int /\ PriceOf(prices, s) \in Nat
  BY DEF IsBook
<1>2. X \in Nat
  BY CapsAssumption
<1>3. b = [s \in S |-> IF PriceOf(prices, s) = 0 THEN a[s]
                       ELSE Sgn(a[s]) * Least(Abs(a[s]), X \div (100 * PriceOf(prices, s)))]
  BY Zenon DEF CapSingle
<1> HIDE DEF X, b
<1>4. \A s \in S : /\ b[s] \in Int /\ Towards(b[s], a[s])
                   /\ 100 * Abs(b[s] * PriceOf(prices, s)) <= X
  <2> TAKE s \in S
  <2> DEFINE q == a[s]
             p == PriceOf(prices, s)
             r == b[s]
  <2>1. q \in Int /\ p \in Nat
    BY <1>1
  <2>2. r = IF p = 0 THEN q ELSE Sgn(q) * Least(Abs(q), X \div (100 * p))
    BY <1>3
  <2> HIDE DEF q, p, r
  <2>3. CASE p = 0
    <3>1. r = q /\ r * p = 0 /\ Towards(r, q)
      BY <2>1, <2>2, <2>3 DEF Towards
    <3>2. 100 * Abs(r * p) <= X
      BY <1>2, <3>1 DEF Abs
    <3> QED
      BY <2>1, <3>1, <3>2 DEF q, p, r
  <2>4. CASE p # 0
    <3>1. r \in Int /\ Towards(r, q) /\ 100 * Abs(r * p) <= X
      <4>1. p > 0 /\ r = Sgn(q) * Least(Abs(q), X \div (100 * p))
        BY <2>1, <2>2, <2>4
      <4> QED
        BY <1>2, <2>1, <4>1, CappedShares, Zenon
    <3> QED
      BY <3>1 DEF q, p, r
  <2> QED
    BY <2>3, <2>4
<1>5. Shrunk(a, b)
  BY <1>3, <1>4 DEF Shrunk
<1> QED
  BY <1>4, <1>5 DEF X, b

\* The heaviest symbol is one of the symbols.
LEMMA SingleBound ==
  ASSUME NEW b, NEW prices, IsBook(b, prices), NEW X \in Nat,
         \A s \in DOMAIN b : 100 * Abs(b[s] * PriceOf(prices, s)) <= X
  PROVE  Single(b, prices) \in Nat /\ 100 * Single(b, prices) <= X
<1> DEFINE S == DOMAIN b
           n == Notionals(b, prices)
           W == {Abs(n[s]) : s \in DOMAIN n} \cup {0}
           below == {X - w : w \in W}
<1>1. DOMAIN n = S /\ \A s \in S : n[s] = b[s] * PriceOf(prices, s) /\ n[s] \in Int
  <2>1. n \in [S -> Int] /\ \A s \in S : n[s] = b[s] * PriceOf(prices, s)
    BY NetTerms, Zenon
  <2> HIDE DEF n
  <2> QED
    BY <2>1
<1>2. \A w \in W : w \in Nat /\ 100 * w <= X
  <2>1. \A s \in S : Abs(n[s]) \in Nat /\ 100 * Abs(n[s]) <= X
    <3>1. \A i \in Int : Abs(i) \in Nat
      BY DEF Abs
    <3> HIDE DEF n
    <3> QED
      BY <1>1, <3>1
  <2> HIDE DEF n
  <2> QED
    BY <1>1, <2>1
<1>3. 0 \in W
  OBVIOUS
<1> HIDE DEF W
<1>4. below \subseteq Nat /\ X - 0 \in below
  <2>1. \A w \in W : X - w \in Nat
    BY <1>2
  <2> QED
    BY <1>3, <2>1
<1> HIDE DEF below
<1>5. PICK m \in below : \A i \in below : m <= i
  BY <1>4, LeastNatural
<1>6. PICK w \in W : m = X - w
  BY <1>5 DEF below
<1>7. \A v \in W : v <= w
  <2> TAKE v \in W
  <2>1. X - v \in below
    BY DEF below
  <2> QED
    BY <1>2, <1>5, <1>6, <2>1
<1>8. \A s \in DOMAIN n : Abs(n[s]) <= w
  BY <1>7 DEF W
<1>9. Single(b, prices) \in W
  <2>1. Single(b, prices) = CHOOSE x \in W : \A s \in DOMAIN n : Abs(n[s]) <= x
    BY Zenon DEF Single, W, n
  <2>2. \E x \in W : \A s \in DOMAIN n : Abs(n[s]) <= x
    BY <1>6, <1>8
  <2> HIDE DEF n
  <2> QED
    BY <2>1, <2>2
<1> QED
  BY <1>2, <1>9

\* All caps in their order.
LEMMA AllCapped ==
  ASSUME NEW book, NEW prices, IsBook(book, prices), NEW value \in Int
  PROVE  LET capped == ApplyCaps(book, prices, value)
             netted == ScaleToNet(ScaleToGross(book, prices, MaxGross, 1), prices, MaxNet)
             slack  == Slack(book, prices)
         IN /\ Shrunk(book, capped)
            /\ 2 * Gross(capped, prices) <= 2 * MaxGross + slack
            /\ 2 * Abs(Net(netted, prices)) <= 2 * MaxNet + slack
            /\ value <= 0 => capped = netted
            /\ value > 0 =>
                 /\ \A s \in DOMAIN book : 100 * Abs(capped[s] * PriceOf(prices, s)) <= SinglePct * value
                 /\ 200 * Gross(capped, prices) <= 2 * (LeveragePct * value) + 100 * slack
<1> DEFINE slack  == Slack(book, prices)
           a == ScaleToGross(book, prices, MaxGross, 1)
           b == ScaleToNet(a, prices, MaxNet)
           c == CapSingle(b, prices, value)
           d == ScaleToGross(c, prices, LeveragePct * value, 100)
           capped == ApplyCaps(book, prices, value)
<1>0. MaxGross \in Nat /\ MaxNet \in Nat /\ SinglePct \in Nat /\ LeveragePct \in Nat
  BY CapsAssumption
<1>1. book \in [DOMAIN book -> Int] /\ slack \in Nat
  BY LegsOf DEF IsBook
<1>2. Shrunk(book, a) /\ 2 * Gross(a, prices) <= 2 * MaxGross + slack /\ Gross(a, prices) \in Nat
  <2> DEFINE one == 1
             limit == MaxGross
  <2>1. one \in Nat /\ one > 0 /\ limit \in Nat
    BY <1>0
  <2> HIDE DEF one, limit, slack
  <2>2. /\ Shrunk(book, ScaleToGross(book, prices, limit, one))
        /\ Gross(ScaleToGross(book, prices, limit, one), prices) * (2 * one) <= 2 * limit + one * slack
    BY <2>1, ScaledToGross DEF slack
  <2>3. Shrunk(book, a) /\ Gross(a, prices) * (2 * 1) <= 2 * MaxGross + 1 * slack
    BY <2>2, Zenon DEF one, limit
  <2>4. Gross(a, prices) \in Nat
    BY <2>3, ShrunkBook, GrossTerms, Zenon
  <2> QED
    BY <1>0, <1>1, <2>3, <2>4
<1> HIDE DEF a
<1>3. IsBook(a, prices) /\ DOMAIN a = DOMAIN book /\ Slack(a, prices) = slack
  BY <1>2, ShrunkBook, Zenon
<1>4. Shrunk(a, b) /\ 2 * Abs(Net(b, prices)) <= 2 * MaxNet + slack
  <2>1. Shrunk(a, b) /\ 2 * Abs(Net(b, prices)) <= 2 * MaxNet + Slack(a, prices)
    BY <1>0, <1>3, ScaledToNet, Zenon
  <2> QED
    BY <1>3, <2>1, Zenon
<1> HIDE DEF b
<1>5. /\ IsBook(b, prices) /\ DOMAIN b = DOMAIN book /\ Slack(b, prices) = slack /\ Shrunk(book, b)
      /\ Gross(b, prices) <= Gross(a, prices) /\ Gross(b, prices) \in Nat
  <2>1. /\ IsBook(b, prices) /\ DOMAIN b = DOMAIN a /\ Slack(b, prices) = Slack(a, prices)
        /\ Gross(b, prices) <= Gross(a, prices)
    BY <1>3, <1>4, ShrunkBook, Zenon
  <2>2. Gross(b, prices) \in Nat
    BY <2>1, GrossTerms, Zenon
  <2>3. Shrunk(book, b)
    BY <1>1, <1>2, <1>4, ShrunkTwice, Zenon
  <2> QED
    BY <1>3, <2>1, <2>2, <2>3, Zenon
<1>6. CASE value <= 0
  <2>1. capped = b
    BY <1>6 DEF ApplyCaps, a, b
  <2>2. 2 * Gross(b, prices) <= 2 * MaxGross + slack
    <3> HIDE DEF slack
    <3> QED
      BY <1>0, <1>1, <1>2, <1>5
  <2>3. ~(value > 0)
    BY <1>6
  <2> HIDE DEF capped, slack
  <2> QED
    BY <1>4, <1>5, <1>6, <2>1, <2>2, <2>3, Zenon DEF capped, slack, a, b
<1>7. CASE value > 0
  <2>1. value \in Nat /\ LeveragePct * value \in Nat /\ SinglePct * value \in Nat
    BY <1>0, <1>7
  <2>2. capped = d
    BY <1>7 DEF ApplyCaps, a, b
  <2>3. /\ Shrunk(b, c)
        /\ \A s \in DOMAIN b : 100 * Abs(c[s] * PriceOf(prices, s)) <= SinglePct * value
    BY <1>5, <2>1, SingleCapped, Zenon
  <2> HIDE DEF c
  <2>4. /\ IsBook(c, prices) /\ DOMAIN c = DOMAIN b /\ Slack(c, prices) = Slack(b, prices)
        /\ Gross(c, prices) <= Gross(b, prices) /\ Gross(c, prices) \in Nat /\ Shrunk(book, c)
    <3>1. /\ IsBook(c, prices) /\ DOMAIN c = DOMAIN b /\ Slack(c, prices) = Slack(b, prices)
          /\ Gross(c, prices) <= Gross(b, prices)
      BY <1>5, <2>3, ShrunkBook, Zenon
    <3>2. Gross(c, prices) \in Nat
      BY <3>1, GrossTerms, Zenon
    <3>3. Shrunk(book, c)
      BY <1>1, <1>5, <2>3, ShrunkTwice, Zenon
    <3> QED
      BY <3>1, <3>2, <3>3, Zenon
  <2>5. Shrunk(c, d) /\ Gross(d, prices) * (2 * 100) <= 2 * (LeveragePct * value) + 100 * slack
    <3> DEFINE hundred == 100
               limit == LeveragePct * value
    <3>1. hundred \in Nat /\ hundred > 0 /\ limit \in Nat
      BY <2>1
    <3> HIDE DEF hundred, limit, slack
    <3>2. /\ Shrunk(c, ScaleToGross(c, prices, limit, hundred))
          /\ Gross(ScaleToGross(c, prices, limit, hundred), prices) * (2 * hundred)
               <= 2 * limit + hundred * Slack(c, prices)
      BY <2>4, <3>1, ScaledToGross
    <3>3. Slack(c, prices) = slack
      BY <1>5, <2>4, Zenon
    <3> QED
      BY <3>2, <3>3, Zenon DEF hundred, limit
  <2> HIDE DEF d
  <2>6. /\ IsBook(d, prices) /\ DOMAIN d = DOMAIN c
        /\ Gross(d, prices) <= Gross(c, prices) /\ Gross(d, prices) \in Nat /\ Shrunk(book, d)
        /\ \A s \in DOMAIN c : Abs(d[s] * PriceOf(prices, s)) <= Abs(c[s] * PriceOf(prices, s))
    <3>1. /\ IsBook(d, prices) /\ DOMAIN d = DOMAIN c /\ Gross(d, prices) <= Gross(c, prices)
          /\ \A s \in DOMAIN c : Abs(d[s] * PriceOf(prices, s)) <= Abs(c[s] * PriceOf(prices, s))
      BY <2>4, <2>5, ShrunkBook, Zenon
    <3>2. Gross(d, prices) \in Nat
      BY <3>1, GrossTerms, Zenon
    <3>3. Shrunk(book, d)
      BY <1>1, <2>4, <2>5, ShrunkTwice, Zenon
    <3> QED
      BY <3>1, <3>2, <3>3, Zenon
  <2>7. \A s \in DOMAIN book : 100 * Abs(d[s] * PriceOf(prices, s)) <= SinglePct * value
    <3> TAKE s \in DOMAIN book
    <3> DEFINE x == Abs(d[s] * PriceOf(prices, s))
               y == Abs(c[s] * PriceOf(prices, s))
    <3>1. x <= y /\ 100 * y <= SinglePct * value
      BY <1>5, <2>3, <2>4, <2>6, Zenon
    <3>2. x \in Nat /\ y \in Nat
      <4>1. d[s] \in Int /\ c[s] \in Int /\ PriceOf(prices, s) \in Nat
        BY <1>5, <2>4, <2>6 DEF IsBook
      <4> QED
        BY <4>1, AbsTimes, Zenon
    <3> HIDE DEF x, y
    <3>3. 100 * x <= SinglePct * value
      BY <2>1, <3>1, <3>2
    <3> QED
      BY <3>3 DEF x
  <2>8. 2 * Gross(d, prices) <= 2 * MaxGross + slack /\ 200 * Gross(d, prices) <= 2 * (LeveragePct * value) + 100 * slack
    <3> HIDE DEF slack
    <3>1. 200 * Gross(d, prices) = Gross(d, prices) * (2 * 100)
      BY <2>6
    <3> QED
      BY <1>0, <1>1, <1>2, <1>5, <2>4, <2>5, <2>6, <3>1
  <2>9. ~(value <= 0)
    BY <1>7
  <2> HIDE DEF capped, slack
  <2> QED
    BY <1>4, <1>7, <2>2, <2>6, <2>7, <2>8, <2>9, Zenon DEF capped, slack, a, b
<1> QED
  BY <1>6, <1>7

LEMMA TowardsSign ==
  ASSUME NEW q \in Int, NEW r \in Int, Towards(r, q)
  PROVE  q * r >= 0 /\ r * q >= 0 /\ Abs(r) <= Abs(q)
<1>1. CASE q >= 0
  BY <1>1 DEF Towards, Abs
<1>2. CASE q < 0
  <2>1. (-q) * (-r) >= 0 /\ q * r = (-q) * (-r) /\ r * q = (-q) * (-r)
    BY <1>2 DEF Towards
  <2> QED
    BY <1>2, <2>1 DEF Towards, Abs
<1> QED
  BY <1>1, <1>2

LEMMA ShrunkMeant ==
  ASSUME NEW a, NEW b, a \in [DOMAIN a -> Int], Shrunk(a, b)
  PROVE  ShrinksTo(a, b)
<1>1. \A s \in DOMAIN a : a[s] \in Int /\ b[s] \in Int /\ Towards(b[s], a[s])
  BY DEF Shrunk
<1>2. \A s \in DOMAIN a : a[s] * b[s] >= 0 /\ Abs(b[s]) <= Abs(a[s])
  BY <1>1, TowardsSign
<1> QED
  BY <1>2 DEF ShrinksTo

\* The caps applied once, in sequence, keep every limit but the net up to the
\* rounding of whole shares, and flip no position: for a book of any finite set
\* of symbols, any prices and any account.  (RiskCaps.apply)
THEOREM CapsKeepLimits ==
  ASSUME NEW book, NEW prices, IsBook(book, prices), NEW value \in Int
  PROVE  CapsHold(book, prices, value)
<1> DEFINE capped == ApplyCaps(book, prices, value)
           netted == ScaleToNet(ScaleToGross(book, prices, MaxGross, 1), prices, MaxNet)
           slack  == Slack(book, prices)
<1>1. /\ Shrunk(book, capped)
      /\ 2 * Gross(capped, prices) <= 2 * MaxGross + slack
      /\ 2 * Abs(Net(netted, prices)) <= 2 * MaxNet + slack
      /\ value > 0 =>
           /\ \A s \in DOMAIN book : 100 * Abs(capped[s] * PriceOf(prices, s)) <= SinglePct * value
           /\ 200 * Gross(capped, prices) <= 2 * (LeveragePct * value) + 100 * slack
  BY AllCapped, Zenon
<1>2. IsBook(capped, prices) /\ DOMAIN capped = DOMAIN book /\ ShrinksTo(book, capped)
  BY <1>1, ShrunkBook, ShrunkMeant, Zenon DEF IsBook
<1>3. 2 * Abs(Net(capped, prices)) <= 2 * MaxNet + slack \/ capped # netted
  <2> HIDE DEF capped, netted, slack
  <2> QED
    BY <1>1
<1>4. ASSUME value > 0
      PROVE  /\ "single" \notin Violations(capped, prices, value)
             /\ 200 * Gross(capped, prices) <= 2 * LeveragePct * value + 100 * slack
  <2>1. SinglePct * value \in Nat /\ 2 * LeveragePct * value = 2 * (LeveragePct * value)
    BY <1>4, CapsAssumption
  <2>2. Single(capped, prices) \in Nat /\ 100 * Single(capped, prices) <= SinglePct * value
    <3>1. \A s \in DOMAIN capped : 100 * Abs(capped[s] * PriceOf(prices, s)) <= SinglePct * value
      BY <1>1, <1>2, <1>4, Zenon
    <3> DEFINE X == SinglePct * value
    <3> HIDE DEF capped, X
    <3>2. X \in Nat /\ \A s \in DOMAIN capped : 100 * Abs(capped[s] * PriceOf(prices, s)) <= X
      BY <2>1, <3>1 DEF X
    <3>3. Single(capped, prices) \in Nat /\ 100 * Single(capped, prices) <= X
      BY <1>2, <3>2, SingleBound
    <3> QED
      BY <3>3 DEF X
  <2>3. "single" \notin Violations(capped, prices, value)
    <3> HIDE DEF capped
    <3> QED
      BY <2>1, <2>2 DEF Violations
  <2> QED
    BY <1>1, <1>4, <2>1, <2>3
<1> HIDE DEF capped, netted, slack
<1> QED
  BY <1>1, <1>2, <1>3, <1>4, Zenon DEF CapsHold, capped, netted, slack

-----------------------------------------------------------------------------
(* The turnover budget *)

\* What is to be traded, symbol by symbol.
TradeTerms(now, target, prices) ==
  [s \in DOMAIN now |-> Abs((target[s] - now[s]) * PriceOf(prices, s))]

LEMMA TradedTerms ==
  ASSUME NEW now, NEW target, NEW prices, IsBook(now, prices), target \in [DOMAIN now -> Int]
  PROVE  /\ TradeTerms(now, target, prices) \in [DOMAIN now -> Nat]
         /\ Traded(now, target, prices) = SumFunctionOnSet(TradeTerms(now, target, prices), DOMAIN now)
         /\ Traded(now, target, prices) \in Nat
<1> DEFINE S == DOMAIN now
           f == TradeTerms(now, target, prices)
           g == [s \in DOMAIN now \cup DOMAIN target |->
                   Abs(SharesOfBook(target, s) - SharesOfBook(now, s)) * PriceOf(prices, s)]
<1>1. IsFiniteSet(S) /\ \A s \in S : now[s] \in Int /\ target[s] \in Int /\ PriceOf(prices, s) \in Nat
  BY DEF IsBook
<1>2. \A s \in S : /\ Abs((target[s] - now[s]) * PriceOf(prices, s)) \in Nat
                   /\ Abs((target[s] - now[s]) * PriceOf(prices, s))
                        = Abs(target[s] - now[s]) * PriceOf(prices, s)
  <2> TAKE s \in S
  <2> DEFINE x == target[s] - now[s]
             p == PriceOf(prices, s)
  <2>1. x \in Int /\ p \in Nat
    BY <1>1
  <2> HIDE DEF x, p
  <2>2. Abs(x * p) \in Nat /\ Abs(x * p) = Abs(x) * p
    BY <2>1, AbsTimes
  <2> QED
    BY <2>2 DEF x, p
<1>3. f \in [S -> Nat]
  BY <1>2 DEF TradeTerms
<1>4. g = f
  <2>1. DOMAIN target = S
    OBVIOUS
  <2>2. \A s \in S : SharesOfBook(target, s) = target[s] /\ SharesOfBook(now, s) = now[s]
    BY <2>1 DEF SharesOfBook
  <2> QED
    BY <1>2, <2>1, <2>2 DEF TradeTerms
<1>5. Traded(now, target, prices) = SumFunction(g)
  BY Zenon DEF Traded
<1>6. DOMAIN f = S
  BY DEF TradeTerms
<1>7. Traded(now, target, prices) = SumFunctionOnSet(f, S)
  <2> HIDE DEF f, g
  <2> QED
    BY <1>4, <1>5, <1>6, Zenon DEF SumFunction
<1> HIDE DEF f
<1>8. SumFunctionOnSet(f, S) \in Nat
  BY <1>1, <1>3, NaturalSum
<1> QED
  BY <1>3, <1>7, <1>8 DEF f

\* The trade of each symbol is cut to a part of itself, and all of them to the
\* budget, but for the rounding.
LEMMA Throttled ==
  ASSUME NEW now, NEW target, NEW prices, IsBook(now, prices), target \in [DOMAIN now -> Int],
         NEW value \in Int
  PROVE  LET cut == Throttle(now, target, prices, value)
         IN /\ cut \in [DOMAIN now -> Int]
            /\ \A s \in DOMAIN now : Towards(cut[s] - now[s], target[s] - now[s])
            /\ value > 0 => 200 * Traded(now, cut, prices)
                              <= 2 * (TurnoverPct * value) + 100 * Slack(now, prices)
<1> DEFINE S == DOMAIN now
           traded == Traded(now, target, prices)
           k == Slack(now, prices)
           num == TurnoverPct * value
           cut == Throttle(now, target, prices, value)
<1>1. IsFiniteSet(S) /\ \A s \in S : now[s] \in Int /\ target[s] \in Int /\ PriceOf(prices, s) \in Nat
  BY DEF IsBook
<1>2. traded \in Nat /\ k \in Nat /\ k = SumFunctionOnSet(PriceTerms(now, prices), S)
      /\ PriceTerms(now, prices) \in [S -> Nat]
  BY TradedTerms, GrossTerms, Zenon
<1>3. TurnoverPct \in Nat /\ num \in Int
  BY CapsAssumption
<1>4. \A s \in S : SharesOfBook(now, s) = now[s]
  BY DEF SharesOfBook
<1>5. WithinBudget(now, target, prices, value) <=> value <= 0 \/ 100 * traded <= num
  BY Zenon DEF WithinBudget
<1>6. cut = IF WithinBudget(now, target, prices, value) THEN target
            ELSE [s \in DOMAIN target |->
                    SharesOfBook(now, s)
                    + Rounded((target[s] - SharesOfBook(now, s)) * TurnoverPct * value, 100 * traded)]
  BY Zenon DEF Throttle
<1> HIDE DEF traded, k, cut
<1>7. CASE WithinBudget(now, target, prices, value)
  <2>1. cut = target
    BY <1>6, <1>7
  <2>2. \A s \in S : Towards(target[s] - now[s], target[s] - now[s])
    BY <1>1 DEF Towards
  <2>3. value > 0 => 200 * traded <= 2 * num + 100 * k
    <3> HIDE DEF num
    <3> QED
      BY <1>2, <1>3, <1>5, <1>7
  <2> QED
    BY <2>1, <2>2, <2>3 DEF traded, k, cut
<1>8. CASE ~WithinBudget(now, target, prices, value)
  <2> DEFINE d == 100 * traded
             r(s) == Rounded((target[s] - now[s]) * num, d)
  <2>1. num \in Nat /\ d \in Nat /\ d > 0 /\ num <= d
    <3>1. value \in Nat /\ TurnoverPct * value \in Nat
      BY <1>3, <1>5, <1>8
    <3> QED
      BY <1>2, <1>5, <1>8, <3>1
  <2>2. cut = [s \in S |-> now[s] + r(s)]
    <3>1. \A s \in S : (target[s] - SharesOfBook(now, s)) * TurnoverPct * value = (target[s] - now[s]) * num
      <4>1. \A x, i, j \in Int : x * i * j = x * (i * j)
        OBVIOUS
      <4> QED
        BY <1>1, <1>3, <1>4, <4>1
    <3>2. DOMAIN target = S
      OBVIOUS
    <3> HIDE DEF num
    <3> QED
      BY <1>4, <1>6, <1>8, <3>1, <3>2
  <2> HIDE DEF num, d
  <2>3. \A s \in S :
          /\ r(s) \in Int /\ Towards(r(s), target[s] - now[s])
          /\ Abs(r(s) * PriceOf(prices, s)) * (2 * d)
               <= Abs((target[s] - now[s]) * PriceOf(prices, s)) * (2 * num) + PriceOf(prices, s) * d
    <3> TAKE s \in S
    <3> DEFINE x == target[s] - now[s]
               p == PriceOf(prices, s)
    <3>1. x \in Int /\ p \in Nat
      BY <1>1
    <3> HIDE DEF x, p
    <3>2. /\ Rounded(x * num, d) \in Int /\ Towards(Rounded(x * num, d), x)
          /\ Abs(Rounded(x * num, d) * p) * (2 * d) <= Abs(x * p) * (2 * num) + p * d
      BY <2>1, <3>1, SizeScaled
    <3> QED
      BY <3>2, Zenon DEF x, p
  <2> HIDE DEF r
  <2>4. cut \in [S -> Int] /\ \A s \in S : cut[s] - now[s] = r(s)
    BY <1>1, <2>2, <2>3
  <2>5. \A s \in S : Towards(cut[s] - now[s], target[s] - now[s])
    BY <2>3, <2>4
  <2> DEFINE x == TradeTerms(now, cut, prices)
             y == TradeTerms(now, target, prices)
             z == PriceTerms(now, prices)
  <2>6. /\ x \in [S -> Int] /\ y \in [S -> Int] /\ z \in [S -> Int]
        /\ Traded(now, cut, prices) = SumFunctionOnSet(x, S)
        /\ traded = SumFunctionOnSet(y, S)
    <3>1. x \in [S -> Nat] /\ Traded(now, cut, prices) = SumFunctionOnSet(x, S)
      BY <2>4, TradedTerms, Zenon
    <3>2. y \in [S -> Nat] /\ traded = SumFunctionOnSet(y, S)
      BY TradedTerms, Zenon DEF traded
    <3>3. z \in [S -> Nat]
      BY <1>2
    <3> HIDE DEF x, y, z
    <3> QED
      BY <3>1, <3>2, <3>3
  <2>7. \A s \in S : x[s] * (2 * d) <= (y[s] * (2 * num) + z[s] * d) + z[s] * 0
    <3> TAKE s \in S
    <3>1. /\ x[s] = Abs(r(s) * PriceOf(prices, s)) /\ y[s] = Abs((target[s] - now[s]) * PriceOf(prices, s))
          /\ z[s] = PriceOf(prices, s)
      BY <2>4, Zenon DEF TradeTerms, PriceTerms
    <3>2. x[s] \in Int /\ y[s] \in Int /\ z[s] \in Int
      BY <2>6
    <3> HIDE DEF x, y, z
    <3>3. x[s] * (2 * d) <= y[s] * (2 * num) + z[s] * d
      BY <2>3, <3>1, Zenon
    <3>4. y[s] * (2 * num) + z[s] * d \in Int /\ z[s] * 0 = 0
      BY <2>1, <3>2
    <3> QED
      BY <3>3, <3>4
  <2> HIDE DEF x, y
  <2>8. /\ Traded(now, cut, prices) * (2 * d) <= (traded * (2 * num) + k * d) + k * 0
        /\ Traded(now, cut, prices) \in Int
    <3> DEFINE i == 2 * d
               j == 2 * num
               l == 0
    <3>1. i \in Int /\ j \in Int /\ d \in Int /\ l \in Int
      BY <2>1
    <3>2. Weighed(S, x, i, y, j, z, d, z, l)
      <4>1. \A s \in S : x[s] * i <= (y[s] * j + z[s] * d) + z[s] * l
        BY <2>7
      <4> HIDE DEF i, j, l, z
      <4> QED
        BY <1>1, <2>6, <3>1, <4>1 DEF Weighed
    <3> HIDE DEF i, j, l
    <3>3. /\ SumFunctionOnSet(x, S) \in Int
          /\ SumFunctionOnSet(x, S) * i <=
               (SumFunctionOnSet(y, S) * j + SumFunctionOnSet(z, S) * d) + SumFunctionOnSet(z, S) * l
      BY <3>2, WeightedSums
    <3> QED
      BY <1>2, <2>6, <3>3, Zenon DEF i, j, l
  <2>9. 200 * Traded(now, cut, prices) <= 2 * num + 100 * k
    <3> DEFINE t == Traded(now, cut, prices)
    <3>1. t \in Int /\ traded > 0
      BY <1>2, <2>1, <2>8 DEF d
    <3> HIDE DEF t
    <3>2. /\ t * (2 * d) = (200 * t) * traded
          /\ (traded * (2 * num) + k * d) + k * 0 = (2 * num + 100 * k) * traded
      BY <1>2, <2>1, <3>1 DEF d
    <3>3. (200 * t) * traded <= (2 * num + 100 * k) * traded
      BY <2>8, <3>2, Zenon DEF t
    <3>4. 200 * t \in Int /\ 2 * num + 100 * k \in Int
      BY <1>2, <2>1, <3>1
    <3>5. 200 * t <= 2 * num + 100 * k
      BY <1>2, <3>1, <3>3, <3>4, AtMostByFactor
    <3> QED
      BY <3>5 DEF t
  <2> QED
    BY <2>4, <2>5, <2>9 DEF num, k, cut
<1> QED
  BY <1>7, <1>8

\* Throttling keeps the trades within the turnover budget up to the rounding of
\* whole shares and turns none round: for any finite set of symbols, any
\* prices, targets and account.  (TurnoverBudget.throttle)
THEOREM BudgetKept ==
  ASSUME NEW now, NEW target, NEW prices, IsBook(now, prices), target \in [DOMAIN now -> Int],
         NEW value \in Int
  PROVE  BudgetHolds(now, target, prices, value)
<1> DEFINE cut == Throttle(now, target, prices, value)
           k == Slack(now, prices)
<1>1. /\ cut \in [DOMAIN now -> Int]
      /\ \A s \in DOMAIN now : Towards(cut[s] - now[s], target[s] - now[s])
      /\ value > 0 => 200 * Traded(now, cut, prices) <= 2 * (TurnoverPct * value) + 100 * k
  BY Throttled, Zenon
<1> HIDE DEF cut, k
<1>2. \A s \in DOMAIN now : /\ (cut[s] - now[s]) * (target[s] - now[s]) >= 0
                             /\ Abs(cut[s] - now[s]) <= Abs(target[s] - now[s])
  <2> TAKE s \in DOMAIN now
  <2> DEFINE r == cut[s] - now[s]
             q == target[s] - now[s]
  <2>1. r \in Int /\ q \in Int /\ Towards(r, q)
    BY <1>1 DEF IsBook
  <2> HIDE DEF r, q
  <2>2. r * q >= 0 /\ Abs(r) <= Abs(q)
    BY <2>1, TowardsSign
  <2> QED
    BY <2>2 DEF r, q
<1>3. 2 * TurnoverPct * value = 2 * (TurnoverPct * value)
  BY CapsAssumption
<1> QED
  BY <1>1, <1>2, <1>3, Zenon DEF BudgetHolds, cut, k

-----------------------------------------------------------------------------
(* Concentration *)

\* The share found by squaring exists.
LEMMA RootTyped ==
  ASSUME NEW q \in Int, NEW num \in Nat, NEW den \in Nat, den > 0, num <= den
  PROVE  RootScaled(q, num, den) \in Int /\ (q = 0 => RootScaled(q, num, den) = 0)
<1> DEFINE X == 4 * q * q * num
           R == {r \in Nat : X <= (2 * r + 1) * (2 * r + 1) * den}
           Found(r) == X <= (2 * r + 1) * (2 * r + 1) * den /\ (r > 0 => X > (2 * r - 1) * (2 * r - 1) * den)
<1>1. X \in Int /\ Abs(q) \in Nat
  BY DEF Abs
<1>2. Abs(q) \in R
  <2> DEFINE w == Abs(q)
  <2>1. w \in Nat /\ q * q = w * w
    BY DEF Abs
  <2> HIDE DEF w
  <2>2. w * w \in Nat /\ X = (4 * (w * w)) * num
    BY <2>1
  <2>3. (4 * (w * w)) * num <= (4 * (w * w)) * den
    <3> DEFINE v == 4 * (w * w)
    <3>1. v \in Nat
      BY <2>2
    <3> HIDE DEF v
    <3>2. num * v <= den * v
      BY <3>1, ProductMonotone
    <3>3. num * v = v * num /\ den * v = v * den
      BY <3>1
    <3> QED
      BY <3>2, <3>3 DEF v
  <2>4. (2 * w + 1) * (2 * w + 1) * den = (4 * (w * w)) * den + (4 * w + 1) * den
    BY <2>1
  <2>5. (4 * w + 1) * den \in Nat /\ (4 * (w * w)) * den \in Nat /\ (4 * (w * w)) * num \in Nat
    BY <2>1
  <2>6. X <= (2 * w + 1) * (2 * w + 1) * den
    <3> HIDE DEF X
    <3> QED
      BY <2>2, <2>3, <2>4, <2>5
  <2> QED
    BY <2>1, <2>6 DEF w
<1> HIDE DEF X
<1>3. PICK r \in R : \A n \in R : r <= n
  BY <1>2, LeastNatural
<1>4. r \in 0 .. Abs(q)
  <2>1. R \subseteq Nat
    OBVIOUS
  <2> HIDE DEF R
  <2>2. r \in Nat /\ r <= Abs(q)
    BY <1>2, <1>3, <2>1
  <2> QED
    BY <1>1, <2>2
<1>5. Found(r)
  <2>1. ASSUME r > 0
        PROVE  X > (2 * r - 1) * (2 * r - 1) * den
    <3>1. r - 1 \in Nat /\ r - 1 \notin R
      BY <1>3, <2>1
    <3>2. ~(X <= (2 * (r - 1) + 1) * (2 * (r - 1) + 1) * den)
      BY <3>1
    <3>3. 2 * (r - 1) + 1 = 2 * r - 1
      OBVIOUS
    <3> DEFINE v == (2 * r - 1) * (2 * r - 1) * den
    <3>4. ~(X <= v) /\ v \in Int
      BY <3>2, <3>3
    <3> HIDE DEF v
    <3>5. X > v
      BY <1>1, <3>4
    <3> QED
      BY <3>5 DEF v
  <2> QED
    BY <1>3, <2>1
<1> DEFINE found == CHOOSE n \in 0 .. Abs(q) : Found(n)
<1>6. found \in 0 .. Abs(q)
  <2> HIDE DEF Found
  <2> QED
    BY <1>4, <1>5
<1>7. RootScaled(q, num, den) = Sgn(q) * found
  BY Zenon DEF RootScaled, X
<1> HIDE DEF found
<1>8. found \in Int
  BY <1>1, <1>6
<1> QED
  BY <1>7, <1>8 DEF Sgn

LEMMA SumOfSole ==
  ASSUME NEW S, IsFiniteSet(S), NEW f \in [S -> Int], NEW s \in S, \A r \in S \ {s} : f[r] = 0
  PROVE  SumFunctionOnSet(f, S) = f[s]
<1>1. SumFunctionOnSet(f, S) = f[s] + SumFunctionOnSet(f, S \ {s})
  BY SumRemove
<1>2. IsFiniteSet(S \ {s})
  BY FS_RemoveElement
<1>3. SumFunctionOnSet(f, S \ {s}) = 0
  BY <1>2, SumOfZeros
<1> QED
  BY <1>1, <1>3

\* The terms of the index.
SquareTerms(book, prices) ==
  [s \in DOMAIN book |-> (book[s] * PriceOf(prices, s)) * (book[s] * PriceOf(prices, s))]

LEMMA Squares ==
  ASSUME NEW book, NEW prices, IsBook(book, prices)
  PROVE  /\ SquareTerms(book, prices) \in [DOMAIN book -> Int]
         /\ SquaredWeights(book, prices) = SumFunctionOnSet(SquareTerms(book, prices), DOMAIN book)
         /\ SquaredWeights(book, prices) \in Int
<1> DEFINE n == Notionals(book, prices)
           f == SquareTerms(book, prices)
           g == [s \in DOMAIN n |-> n[s] * n[s]]
<1>1. /\ IsFiniteSet(DOMAIN book) /\ n \in [DOMAIN book -> Int]
      /\ \A s \in DOMAIN book : n[s] = book[s] * PriceOf(prices, s)
  BY NetTerms DEF IsBook
<1>2. SquaredWeights(book, prices) = SumFunction(g)
  BY Zenon DEF SquaredWeights
<1> HIDE DEF n
<1>3. g = f /\ DOMAIN f = DOMAIN book
  BY <1>1 DEF SquareTerms
<1>4. f \in [DOMAIN book -> Int]
  <2>1. \A i \in Int : i * i \in Int
    OBVIOUS
  <2> QED
    BY <1>1, <2>1 DEF SquareTerms
<1>5. SquaredWeights(book, prices) = SumFunctionOnSet(f, DOMAIN book)
  <2> HIDE DEF f, g
  <2> QED
    BY <1>2, <1>3, Zenon DEF SumFunction
<1> HIDE DEF f
<1>6. SumFunctionOnSet(f, DOMAIN book) \in Int
  BY <1>1, <1>4, SumInt
<1> QED
  BY <1>4, <1>5, <1>6 DEF f

\* A book of one position is all in that position.
LEMMA SoleIsConcentrated ==
  ASSUME NEW b, NEW prices, IsBook(b, prices), NEW s \in DOMAIN b, b[s] # 0, PriceOf(prices, s) > 0,
         \A r \in DOMAIN b \ {s} : b[r] = 0, NEW pct \in 0 .. 99
  PROVE  Concentrated(b, prices, pct)
<1> DEFINE S == DOMAIN b
           n == b[s] * PriceOf(prices, s)
           x == SizeTerms(b, prices)
           y == SquareTerms(b, prices)
<1>1. IsFiniteSet(S) /\ \A r \in S : b[r] \in Int /\ PriceOf(prices, r) \in Nat
  BY DEF IsBook
<1>2. n \in Int /\ n # 0
  <2> DEFINE q == b[s]
             p == PriceOf(prices, s)
  <2>1. q \in Int /\ q # 0 /\ p \in Nat /\ p > 0
    BY <1>1
  <2> HIDE DEF q, p
  <2>2. q * p \in Int /\ (q > 0 => q * p > 0) /\ (q < 0 => (-q) * p > 0 /\ q * p = -((-q) * p))
    BY <2>1
  <2>3. q * p # 0
    BY <2>1, <2>2
  <2> QED
    BY <2>2, <2>3 DEF q, p
<1>3. /\ x \in [S -> Nat] /\ Gross(b, prices) = SumFunctionOnSet(x, S)
      /\ y \in [S -> Int] /\ SquaredWeights(b, prices) = SumFunctionOnSet(y, S)
  BY GrossTerms, Squares, Zenon
<1>4. x[s] = Abs(n) /\ y[s] = n * n
  BY DEF SizeTerms, SquareTerms
<1>5. \A r \in S \ {s} : x[r] = 0 /\ y[r] = 0
  <2> TAKE r \in S \ {s}
  <2>1. b[r] * PriceOf(prices, r) = 0
    BY <1>1
  <2>2. 0 * 0 = 0 /\ Abs(0) = 0
    BY DEF Abs
  <2> QED
    BY <2>1, <2>2 DEF SizeTerms, SquareTerms
<1> HIDE DEF x, y, n
<1>6. x \in [S -> Int]
  BY <1>3
<1>7. Gross(b, prices) = Abs(n) /\ SquaredWeights(b, prices) = n * n
  BY <1>1, <1>3, <1>4, <1>5, <1>6, SumOfSole
<1> DEFINE g == Abs(n)
<1>8. g \in Nat /\ g > 0 /\ n * n = g * g
  BY <1>2 DEF Abs
<1> HIDE DEF g
<1>9. g * g > 0 /\ g * g \in Nat /\ pct * g * g = pct * (g * g)
  BY <1>8
<1>10. 100 * (g * g) > pct * g * g
  <2> DEFINE v == g * g
  <2>1. v \in Nat /\ v > 0
    BY <1>9
  <2> HIDE DEF v
  <2>2. pct * v <= 99 * v
    BY <2>1, ProductMonotone
  <2>3. pct * v \in Int /\ 99 * v < 100 * v
    BY <2>1
  <2>4. 100 * v > pct * v
    BY <2>1, <2>2, <2>3
  <2> QED
    BY <1>9, <2>4 DEF v
<1>11. Gross(b, prices) = g /\ SquaredWeights(b, prices) = g * g
  BY <1>7, <1>8 DEF g
<1> QED
  BY <1>8, <1>10, <1>11 DEF Concentrated

LEMMA Diluted ==
  ASSUME NEW book, NEW prices, IsBook(book, prices), NEW pct \in 0 .. 99
  PROVE  LET thin == Dilute(book, prices, pct)
         IN /\ thin \in [DOMAIN book -> Int]
            /\ \A r \in DOMAIN book : book[r] = 0 => thin[r] = 0
<1> DEFINE S == DOMAIN book
           gross == Gross(book, prices)
           num == pct * gross * gross
           den == 100 * SquaredWeights(book, prices)
           thin == Dilute(book, prices, pct)
<1>1. book \in [S -> Int] /\ gross \in Nat /\ den \in Int
  <2>1. SquaredWeights(book, prices) \in Int
    BY Squares
  <2>2. gross \in Nat
    BY GrossTerms, Zenon
  <2> QED
    BY <2>1, <2>2 DEF IsBook
<1>2. num \in Nat
  <2> HIDE DEF gross
  <2>1. pct * gross \in Nat
    BY <1>1
  <2> QED
    BY <1>1, <2>1
<1>3. Concentrated(book, prices, pct) => den > num
  BY Zenon DEF Concentrated
<1>4. thin = IF ~Concentrated(book, prices, pct) THEN book
             ELSE [s \in S |-> RootScaled(book[s], num, den)]
  BY Zenon DEF Dilute
<1> HIDE DEF num, den, thin
<1>5. CASE ~Concentrated(book, prices, pct)
  BY <1>1, <1>4, <1>5 DEF thin
<1>6. CASE Concentrated(book, prices, pct)
  <2>1. den \in Nat /\ den > 0 /\ num <= den
    BY <1>1, <1>2, <1>3, <1>6
  <2>2. \A s \in S : /\ RootScaled(book[s], num, den) \in Int
                     /\ book[s] = 0 => RootScaled(book[s], num, den) = 0
    BY <1>1, <1>2, <2>1, RootTyped
  <2>3. thin = [s \in S |-> RootScaled(book[s], num, den)]
    BY <1>4, <1>6
  <2>4. thin \in [S -> Int] /\ \A r \in S : book[r] = 0 => thin[r] = 0
    BY <2>2, <2>3
  <2> QED
    BY <2>4 DEF thin
<1> QED
  BY <1>5, <1>6

\* Scaling all positions by one factor leaves a book of one position as
\* concentrated as it was: for any finite set of symbols, any prices and any
\* limit below the whole.  (ExposureController.apply_constraints)
THEOREM DilutionChangesNothing ==
  ASSUME NEW book, NEW prices, IsBook(book, prices), NEW pct \in 0 .. 99
  PROVE  DilutionIsVain(book, prices, pct)
<1> DEFINE thin == Dilute(book, prices, pct)
<1>1. /\ thin \in [DOMAIN book -> Int]
      /\ \A r \in DOMAIN book : book[r] = 0 => thin[r] = 0
  BY Diluted, Zenon
<1> HIDE DEF thin
<1>2. DOMAIN thin = DOMAIN book /\ IsBook(thin, prices)
  BY <1>1 DEF IsBook
<1>3. ASSUME NEW s \in DOMAIN book, thin[s] # 0, PriceOf(prices, s) > 0,
             \A r \in DOMAIN book \ {s} : book[r] = 0
      PROVE  Concentrated(thin, prices, pct)
  <2>1. \A r \in DOMAIN thin \ {s} : thin[r] = 0
    BY <1>1, <1>2, <1>3
  <2> QED
    BY <1>2, <1>3, <2>1, SoleIsConcentrated
<1> QED
  BY <1>3, Zenon DEF DilutionIsVain, thin

-----------------------------------------------------------------------------
(* The book of one symbol *)

LEMMA OneSymbol ==
  ASSUME NEW q \in Int, NEW p \in Nat
  PROVE  /\ DOMAIN BookOf(q) = {"symbol"} /\ BookOf(q)["symbol"] = q
         /\ PriceOf(BookOf(p), "symbol") = p
         /\ IsBook(BookOf(q), BookOf(p))
<1>1. /\ DOMAIN BookOf(q) = {"symbol"} /\ BookOf(q)["symbol"] = q
      /\ PriceOf(BookOf(p), "symbol") = p
  BY DEF BookOf, PriceOf
<1>2. BookOf(q) \in [{"symbol"} -> Int]
  BY DEF BookOf
<1>3. IsFiniteSet({"symbol"})
  BY FS_Singleton
<1> QED
  BY <1>1, <1>2, <1>3 DEF IsBook

LEMMA BookEqual ==
  ASSUME NEW b, b \in [{"symbol"} -> Int]
  PROVE  b["symbol"] \in Int /\ b = BookOf(b["symbol"])
BY DEF BookOf

\* All caps in their order: towards zero, and within the single-position share
\* of a portfolio that is worth something.
LEMMA Capped ==
  ASSUME NEW q \in Int, NEW p \in Nat, NEW value \in Int
  PROVE  \E r \in Int : /\ ApplyCaps(BookOf(q), BookOf(p), value) = BookOf(r)
                        /\ Towards(r, q)
                        /\ value > 0 => 100 * Abs(r) * p <= SinglePct * value
<1> DEFINE b == ApplyCaps(BookOf(q), BookOf(p), value)
           r == b["symbol"]
<1>1. /\ DOMAIN BookOf(q) = {"symbol"} /\ BookOf(q)["symbol"] = q
      /\ PriceOf(BookOf(p), "symbol") = p /\ IsBook(BookOf(q), BookOf(p))
  BY OneSymbol
<1>2. /\ Shrunk(BookOf(q), b)
      /\ value > 0 => \A s \in DOMAIN BookOf(q) : 100 * Abs(b[s] * PriceOf(BookOf(p), s)) <= SinglePct * value
  BY <1>1, AllCapped, Zenon
<1> HIDE DEF b
<1>3. b \in [{"symbol"} -> Int] /\ Towards(r, q)
  BY <1>1, <1>2 DEF Shrunk
<1>4. r \in Int /\ b = BookOf(r)
  BY <1>3, BookEqual
<1>5. value > 0 => 100 * Abs(r * p) <= SinglePct * value
  BY <1>1, <1>2
<1>6. 100 * Abs(r) * p = 100 * Abs(r * p)
  <2>1. Abs(r) \in Nat /\ Abs(r * p) = Abs(r) * p
    BY <1>4, AbsTimes
  <2> QED
    BY <2>1
<1> QED
  BY <1>3, <1>4, <1>5, <1>6 DEF b

\* t is on the way from x to y.
Between(x, t, y) == (x <= t /\ t <= y) \/ (y <= t /\ t <= x)

\* The turnover budget cuts the trade, and never turns it round.
LEMMA TradeThrottled ==
  ASSUME NEW h \in Int, NEW q \in Int, NEW p \in Nat, NEW value \in Int
  PROVE  \E t \in Int : /\ Throttle(BookOf(h), BookOf(q), BookOf(p), value) = BookOf(t)
                        /\ Between(h, t, q)
<1> DEFINE b == Throttle(BookOf(h), BookOf(q), BookOf(p), value)
           r == b["symbol"]
<1>1. /\ DOMAIN BookOf(h) = {"symbol"} /\ BookOf(h)["symbol"] = h /\ IsBook(BookOf(h), BookOf(p))
      /\ BookOf(q)["symbol"] = q /\ BookOf(q) \in [{"symbol"} -> Int]
  BY OneSymbol DEF BookOf
<1>2. /\ b \in [DOMAIN BookOf(h) -> Int]
      /\ \A s \in DOMAIN BookOf(h) : Towards(b[s] - BookOf(h)[s], BookOf(q)[s] - BookOf(h)[s])
  <2>1. BookOf(q) \in [DOMAIN BookOf(h) -> Int]
    BY <1>1
  <2> QED
    BY <1>1, <2>1, Throttled, Zenon
<1> HIDE DEF b
<1>3. b \in [{"symbol"} -> Int] /\ Towards(r - h, q - h)
  BY <1>1, <1>2
<1>4. r \in Int /\ b = BookOf(r)
  BY <1>3, BookEqual
<1> HIDE DEF r
<1>5. Between(h, r, q)
  BY <1>3, <1>4 DEF Between, Towards
<1>6. b = Throttle(BookOf(h), BookOf(q), BookOf(p), value)
  BY DEF b
<1> QED
  BY <1>4, <1>5, <1>6

-----------------------------------------------------------------------------
(* What is decided *)

LEMMA SizeTyped ==
  ASSUME NEW score \in {100, -100}
  PROVE  TargetSize(score) \in Nat
<1>0. /\ MaxPosition \in Nat /\ DefaultSize \in Nat
      /\ Mode \in {"signal_proportional", "fixed_size", "Kelly"}
  BY DecisionAssumption
<1>1. Abs(score) = 100
  BY DEF Abs
<1>2. \A d \in {100, 200} : Rounded(MaxPosition * 100, d) \in Int
  <2> SUFFICES ASSUME NEW d \in {100, 200} PROVE Rounded(MaxPosition * 100, d) \in Int
    OBVIOUS
  <2> DEFINE hundred == 100
  <2>1. MaxPosition \in Int /\ hundred \in Nat /\ d \in Nat /\ d > 0 /\ hundred <= d
    BY <1>0
  <2> HIDE DEF hundred
  <2>2. Rounded(MaxPosition * hundred, d) \in Int
    BY <2>1, RoundedTowards
  <2> QED
    BY <2>2 DEF hundred
<1>3. \A r \in Int : Greatest(DefaultSize, r) \in Nat
  BY <1>0 DEF Greatest
<1>4. CASE Mode = "fixed_size"
  BY <1>0, <1>4 DEF TargetSize
<1>5. CASE Mode = "signal_proportional"
  <2>1. TargetSize(score) = Greatest(DefaultSize, Rounded(MaxPosition * 100, 100))
    BY <1>1, <1>5 DEF TargetSize
  <2> QED
    BY <1>2, <1>3, <2>1
<1>6. CASE Mode = "Kelly"
  <2>1. TargetSize(score) = Greatest(DefaultSize, Rounded(MaxPosition * 100, 200))
    BY <1>1, <1>6 DEF TargetSize
  <2> QED
    BY <1>2, <1>3, <2>1
<1> QED
  BY <1>0, <1>4, <1>5, <1>6

\* The target is on the signal's side of zero and within the single-position
\* share; what is traded towards is between the position and the target.
LEMMA Decision ==
  ASSUME NEW score \in {100, -100}, NEW obs \in Observation, cash \in Int, held \in Int
  PROVE  /\ Mid(obs) \in Nat /\ NavAt(obs) \in Int
         /\ CappedTarget(score, obs) \in Int /\ ThrottledTarget(score, obs) \in Int
         /\ score > 0 => CappedTarget(score, obs) >= 0
         /\ score < 0 => CappedTarget(score, obs) <= 0
         /\ NavAt(obs) > 0 => 100 * Abs(CappedTarget(score, obs)) * Mid(obs) <= SinglePct * NavAt(obs)
         /\ Between(held, ThrottledTarget(score, obs), CappedTarget(score, obs))
<1>1. Mid(obs) \in Nat
  <2>1. obs.bid \in Nat /\ obs.ask \in Nat
    BY DEF Observation
  <2> QED
    BY <2>1 DEF Mid
<1>2. NavAt(obs) \in Int
  BY <1>1 DEF NavAt
<1> DEFINE q == Sgn(score) * TargetSize(score)
<1>3. q \in Int /\ (score > 0 => q >= 0) /\ (score < 0 => q <= 0)
  BY SizeTyped DEF Sgn
<1>4. CappedTarget(score, obs) = ApplyCaps(BookOf(q), BookOf(Mid(obs)), NavAt(obs))["symbol"]
  BY DEF CappedTarget
<1> HIDE DEF q
<1>5. PICK r \in Int : /\ ApplyCaps(BookOf(q), BookOf(Mid(obs)), NavAt(obs)) = BookOf(r)
                       /\ Towards(r, q)
                       /\ NavAt(obs) > 0 => 100 * Abs(r) * Mid(obs) <= SinglePct * NavAt(obs)
  BY <1>1, <1>2, <1>3, Capped
<1>6. CappedTarget(score, obs) = r
  BY <1>4, <1>5 DEF BookOf
<1>7. PICK t \in Int : /\ Throttle(BookOf(held), BookOf(r), BookOf(Mid(obs)), NavAt(obs)) = BookOf(t)
                       /\ Between(held, t, r)
  BY <1>1, <1>2, TradeThrottled
<1>8. ThrottledTarget(score, obs) = t
  BY <1>6, <1>7 DEF ThrottledTarget, BookOf
<1>9. (score > 0 => r >= 0) /\ (score < 0 => r <= 0)
  BY <1>3, <1>5 DEF Towards
<1> QED
  BY <1>1, <1>2, <1>5, <1>6, <1>7, <1>8, <1>9

-----------------------------------------------------------------------------
(* The order that is sent *)

\* A quantity in whole lots is less than a lot short.
LEMMA Lots ==
  ASSUME NEW n \in Nat
  PROVE  /\ RoundQty(n) \in Nat /\ RoundQty(n) <= n
         /\ n - RoundQty(n) < Greatest(1, LotSize)
         /\ LotSize > 0 => \E m \in Nat : RoundQty(n) = m * LotSize /\ n < (m + 1) * LotSize
<1>0. LotSize \in Nat
  BY RoutingAssumption
<1>1. CASE LotSize = 0
  BY <1>1 DEF RoundQty, Greatest
<1>2. CASE LotSize > 0
  <2> DEFINE m == n \div LotSize
             r == n % LotSize
  <2>1. m \in Int /\ r \in Int /\ 0 <= r /\ r < LotSize /\ n = m * LotSize + r
    BY <1>0, <1>2, Quotient
  <2>2. RoundQty(n) = m * LotSize
    BY <1>2 DEF RoundQty
  <2> HIDE DEF m, r
  <2>3. (m + 1) * LotSize = m * LotSize + LotSize /\ m * LotSize \in Int
    BY <1>0, <2>1
  <2>4. 0 * LotSize < (m + 1) * LotSize
    BY <1>0, <2>1, <2>3
  <2>5. m \in Nat
    BY <1>0, <1>2, <2>1, <2>4, LessByFactor
  <2>6. m * LotSize \in Nat
    BY <1>0, <2>5
  <2> QED
    BY <1>0, <1>2, <2>1, <2>2, <2>3, <2>5, <2>6 DEF Greatest
<1> QED
  BY <1>0, <1>1, <1>2

InLots(q) == LotSize > 0 => \E k \in Int : q = k * LotSize

\* Where an order for the difference takes a position held in whole lots: less
\* than a lot from the target, in whole lots, and not across zero from it.
LEMMA Landing ==
  ASSUME NEW h \in Int, NEW target \in Int, InLots(h), NEW to,
         to = IF target > h THEN h + RoundQty(Abs(target - h)) ELSE h - RoundQty(Abs(target - h))
  PROVE  /\ to \in Int /\ InLots(to)
         /\ Abs(target - to) < Greatest(1, LotSize)
         /\ (target >= 0 => to >= 0) /\ (target <= 0 => to <= 0)
<1>0. LotSize \in Nat
  BY RoutingAssumption
<1> DEFINE n == Abs(target - h)
           R == RoundQty(n)
<1>1. /\ n \in Nat /\ R \in Nat /\ R <= n /\ n - R < Greatest(1, LotSize)
      /\ LotSize > 0 => \E m \in Nat : R = m * LotSize /\ n < (m + 1) * LotSize
      /\ to = IF target > h THEN h + R ELSE h - R
      /\ n = IF target > h THEN target - h ELSE h - target
  <2>1. n \in Nat /\ n = IF target > h THEN target - h ELSE h - target
    BY DEF Abs
  <2> HIDE DEF n
  <2>2. /\ R \in Nat /\ R <= n /\ n - R < Greatest(1, LotSize)
        /\ LotSize > 0 => \E m \in Nat : R = m * LotSize /\ n < (m + 1) * LotSize
    BY <2>1, Lots
  <2> QED
    BY <2>1, <2>2 DEF n
<1> HIDE DEF n, R
<1>2. to \in Int /\ Abs(target - to) < Greatest(1, LotSize)
  BY <1>1 DEF Abs
<1>3. CASE LotSize = 0
  <2>1. R = n
    BY <1>1, <1>3 DEF Greatest
  <2> QED
    BY <1>1, <1>2, <1>3, <2>1 DEF InLots
<1>4. CASE LotSize > 0
  <2>1. PICK k \in Int : h = k * LotSize
    BY <1>4 DEF InLots
  <2>2. PICK m \in Nat : R = m * LotSize /\ n < (m + 1) * LotSize
    BY <1>1, <1>4
  <2>3. /\ (k + m) * LotSize = h + R /\ (k - m) * LotSize = h - R
        /\ (-k) * LotSize = -h
    BY <1>0, <2>1, <2>2
  <2>4. InLots(to)
    BY <1>1, <2>3 DEF InLots
  <2>5. ASSUME target >= 0 PROVE to >= 0
    <3>1. CASE target > h /\ h < 0
      <4>1. (-k) * LotSize < (m + 1) * LotSize
        BY <1>0, <1>1, <2>2, <2>3, <2>5, <3>1
      <4>2. -k < m + 1
        BY <1>0, <1>4, <4>1, LessByFactor
      <4>3. 0 <= k + m
        BY <4>2
      <4>4. 0 <= (k + m) * LotSize
        BY <1>0, <4>3
      <4> QED
        BY <1>1, <2>3, <3>1, <4>4
    <3>2. CASE ~(target > h /\ h < 0)
      BY <1>1, <2>5, <3>2
    <3> QED
      BY <3>1, <3>2
  <2>6. ASSUME target <= 0 PROVE to <= 0
    <3>1. CASE target < h /\ h > 0
      <4>1. k * LotSize < (m + 1) * LotSize
        BY <1>0, <1>1, <2>1, <2>2, <2>6, <3>1
      <4>2. k < m + 1
        BY <1>0, <1>4, <4>1, LessByFactor
      <4>3. 0 <= m - k
        BY <4>2
      <4>4. 0 <= (m - k) * LotSize /\ (m - k) * LotSize = R - h
        BY <1>0, <2>1, <2>2, <4>3
      <4> QED
        BY <1>1, <3>1, <4>4
    <3>2. CASE ~(target < h /\ h > 0)
      BY <1>1, <2>6, <3>2
    <3> QED
      BY <3>1, <3>2
  <2> QED
    BY <1>2, <2>4, <2>5, <2>6
<1> QED
  BY <1>0, <1>2, <1>3, <1>4

ParentFields == {"side", "qty", "filled", "urgency", "start", "end", "type", "tif", "limit", "rejected"}

\* What an order for a difference is, unless it is rejected.
MadeFor(order, delta) ==
  /\ DOMAIN order = ParentFields
  /\ order.rejected = FALSE
  /\ order.side = IF delta > 0 THEN "BUY" ELSE "SELL"
  /\ order.qty = RoundQty(Abs(delta)) /\ order.qty > 0
  /\ order.filled = 0

\* An order that is not rejected is for at least one share, in whole lots.
LEMMA OrderMade ==
  ASSUME NEW delta \in Int, NEW score, NEW obs, ~CreateParent(delta, score, obs).rejected
  PROVE  MadeFor(CreateParent(delta, score, obs), delta)
<1> DEFINE bare   == ToParent(delta, Abs(score), obs)
           type   == DetermineType(bare, obs.ts)
           priced == [bare EXCEPT !.type = type[1], !.tif = type[2],
                                  !.limit = LimitPrice(bare, obs, type[1])]
<1>1. CreateParent(delta, score, obs) = ApplyAll(priced, obs)
  BY DEF CreateParent
<1>2. /\ DOMAIN bare = ParentFields /\ bare.rejected = FALSE /\ bare.filled = 0
      /\ bare.side = IF delta > 0 THEN "BUY" ELSE "SELL"
      /\ bare.qty = Abs(delta)
  BY DEF ToParent, ParentFields
<1> HIDE DEF bare, type
<1>3. /\ DOMAIN priced = ParentFields /\ priced.rejected = FALSE /\ priced.filled = 0
      /\ priced.side = bare.side /\ priced.qty = bare.qty
  BY <1>2 DEF ParentFields
<1> HIDE DEF priced
<1> DEFINE lots == [priced EXCEPT !.qty = RoundQty(@)]
<1>4. /\ DOMAIN lots = ParentFields /\ lots.rejected = FALSE /\ lots.filled = 0
      /\ lots.side = bare.side /\ lots.qty = RoundQty(Abs(delta))
  BY <1>2, <1>3 DEF ParentFields
<1>5. ApplyAll(priced, obs) =
        IF ~obs.tradable \/ obs.session \in {"halted", "closed"} THEN Reject(priced)
        ELSE IF lots.qty < MinQty THEN Reject(lots)
        ELSE IF priced.limit = NoLimit THEN lots
        ELSE [lots EXCEPT !.limit = BandedPrice(obs, @)]
  BY Zenon DEF ApplyAll
<1> HIDE DEF lots
<1>6. Reject(priced).rejected /\ Reject(lots).rejected
  BY <1>3, <1>4 DEF Reject, ParentFields
<1>7. /\ ~(lots.qty < MinQty)
      /\ \/ ApplyAll(priced, obs) = lots
         \/ ApplyAll(priced, obs) = [lots EXCEPT !.limit = BandedPrice(obs, @)]
  BY <1>1, <1>5, <1>6
<1>8. lots.qty \in Nat /\ lots.qty > 0
  <2>1. Abs(delta) \in Nat
    BY DEF Abs
  <2>2. RoundQty(Abs(delta)) \in Nat
    BY <2>1, Lots
  <2>3. MinQty \in Nat /\ MinQty > 0
    BY RoutingAssumption, DecisionAssumption
  <2> QED
    BY <1>4, <1>7, <2>2, <2>3
<1> QED
  BY <1>1, <1>2, <1>4, <1>7, <1>8 DEF ParentFields, MadeFor

-----------------------------------------------------------------------------
(* The loop *)

\* While states are dropped the history is full, and its states are at least
\* a tick apart.
HistoryInv ==
  /\ history \in Seq(Observation)
  /\ pc # "read" => seen > 0
  /\ Len(history) = IF seen < MaxHistory THEN seen ELSE MaxHistory
  /\ \A i \in 1 .. Len(history) :
       history[Len(history)].ts - history[i].ts >= (Len(history) - i) * Tick

\* What the account holds once the active parent is filled.
Settled == held + Working

\* Only whole lots are ever ordered, so the settled position is one of whole
\* lots; from such a position no order rounded down to lots lands across zero.
PositionInv ==
  /\ Active => DOMAIN parent = ParentFields
  /\ pc = "first" => Active
  /\ InLots(Settled)
  /\ HeldMeetsDecision

LoopInv == TypeOK /\ HistoryInv /\ PositionInv

LEMMA Retention ==
  MaxHistory \in Nat /\ MaxHistory > 0 /\ (MaxHistory - 1) * Tick >= Delay
<1> DEFINE q == (-Delay) \div Tick
           r == (-Delay) % Tick
<1>1. Tick \in Nat /\ Tick > 0 /\ Delay \in Nat /\ SafetyTicks \in Nat
      /\ MinHistory \in Nat /\ Lookback \in Nat
  BY DecisionAssumption
<1>2. q \in Int /\ r \in Int /\ 0 <= r /\ r < Tick /\ -Delay = q * Tick + r
  <2>1. -Delay \in Int
    BY <1>1
  <2> QED
    BY <1>1, <2>1, Quotient
<1>3. Ceiling(Delay, Tick) = -q
  BY DEF Ceiling
<1> HIDE DEF q, r
<1>4. (-q) * Tick = Delay + r /\ (-q + 1) * Tick = Delay + r + Tick
  BY <1>1, <1>2
<1>5. -q >= 0
  <2>1. 0 * Tick < (-q + 1) * Tick
    BY <1>1, <1>2, <1>4
  <2>2. 0 < -q + 1
    BY <1>1, <1>2, <2>1, LessByFactor
  <2> QED
    BY <1>2, <2>2
<1>6. MaxHistory \in Nat /\ MaxHistory > 0 /\ -q <= MaxHistory - 1
  BY <1>1, <1>2, <1>3, <1>5 DEF MaxHistory, Greatest
<1>7. (-q) * Tick <= (MaxHistory - 1) * Tick
  <2>1. -q \in Int /\ MaxHistory - 1 \in Int
    BY <1>2, <1>6
  <2> QED
    BY <1>1, <1>6, <2>1, ProductMonotone
<1>8. (MaxHistory - 1) * Tick \in Int
  BY <1>1, <1>6
<1> QED
  BY <1>1, <1>2, <1>4, <1>6, <1>7, <1>8

\* What the strategy is shown is one of the retained states.
LEMMA ObservedTyped ==
  ASSUME history \in Seq(Observation), history # << >>
  PROVE  /\ Now \in Observation /\ Observed \in Observation
         /\ Len(history) \in Nat /\ Len(history) > 0
<1>1. Len(history) \in Nat /\ Len(history) > 0 /\ DOMAIN history = 1 .. Len(history)
      /\ \A i \in 1 .. Len(history) : history[i] \in Observation
  BY EmptySeq, LenProperties, ElementOfSeq
<1>2. Now \in Observation /\ history[1] \in Observation
  BY <1>1 DEF Now
<1> DEFINE old == {i \in DOMAIN history : history[i].ts <= Now.ts - Delay}
           latest == CHOOSE i \in old : \A j \in old : j <= i
<1>3. Observed = IF old = {} THEN history[1] ELSE history[latest]
  BY DEF Observed
<1>4. old \subseteq 1 .. Len(history)
  BY <1>1
<1> HIDE DEF old
<1>5. ASSUME old # {} PROVE latest \in old
  <2> DEFINE L == Len(history)
             below == {L - i : i \in old}
  <2>1. below \subseteq Nat /\ below # {}
    <3>1. \A i \in old : L - i \in Nat
      BY <1>1, <1>4
    <3>2. PICK i \in old : TRUE
      BY <1>5
    <3>3. L - i \in below
      OBVIOUS
    <3> QED
      BY <3>1, <3>3
  <2> HIDE DEF below
  <2>2. PICK m \in below : \A n \in below : m <= n
    BY <2>1, LeastNatural
  <2>3. PICK i \in old : m = L - i
    BY <2>2 DEF below
  <2>4. \A j \in old : j <= i
    <3>1. TAKE j \in old
    <3>2. L - j \in below
      BY DEF below
    <3> QED
      BY <1>1, <1>4, <2>2, <2>3, <3>2
  <2>5. \E k \in old : \A j \in old : j <= k
    BY <2>3, <2>4
  <2> QED
    BY <2>5
<1> QED
  BY <1>1, <1>2, <1>3, <1>4, <1>5

\* A state that is read is a tick or more after the latest one, and only the
\* oldest of a full history is dropped.
LEMMA ReadKeepsHistory ==
  ASSUME TypeOK, HistoryInv, Read
  PROVE  HistoryInv'
<1> DEFINE L == Len(history)
           H == MaxHistory
<1>0. /\ L \in Nat /\ DOMAIN history = 1 .. L /\ history \in Seq(Observation)
      /\ \A i \in 1 .. L : history[i] \in Observation
      /\ L = IF seen < H THEN seen ELSE H
      /\ seen \in Nat /\ Tick \in Nat /\ H \in Nat /\ H > 0
      /\ \A i \in 1 .. L : history[L].ts - history[i].ts >= (L - i) * Tick
  <2>1. L \in Nat /\ DOMAIN history = 1 .. L /\ \A i \in 1 .. L : history[i] \in Observation
    BY LenProperties, ElementOfSeq DEF HistoryInv
  <2>2. seen \in Nat /\ Tick \in Nat
    BY DecisionAssumption DEF TypeOK
  <2>3. H \in Nat /\ H > 0
    BY Retention
  <2> QED
    BY <2>1, <2>2, <2>3 DEF HistoryInv
<1>1. PICK gap \in Gaps, m \in Mids, ok \in BOOLEAN :
        history' = Retained(Append(history,
          [ts |-> IF seen = 0 THEN SessionOpen ELSE Now.ts + gap, bid |-> m - HalfSpread,
           ask |-> m + HalfSpread, tradable |-> ok, session |-> IF ok THEN "regular" ELSE "halted"]))
  BY DEF Read
<1> DEFINE x == [ts |-> IF seen = 0 THEN SessionOpen ELSE Now.ts + gap, bid |-> m - HalfSpread,
                 ask |-> m + HalfSpread, tradable |-> ok,
                 session |-> IF ok THEN "regular" ELSE "halted"]
           h == Append(history, x)
<1>2. seen' = seen + 1
  BY DEF Read
<1>3. x \in Observation /\ x.ts = IF seen = 0 THEN SessionOpen ELSE history[L].ts + gap
  <2>1. (IF seen = 0 THEN SessionOpen ELSE Now.ts + gap) \in Nat
    <3>1. seen # 0 => history[L] \in Observation
      BY <1>0
    <3>2. gap \in Nat /\ SessionOpen \in Nat
      BY RoutingAssumption, DecisionAssumption
    <3> QED
      BY <3>1, <3>2 DEF Observation, Now
  <2>2. m - HalfSpread \in Nat /\ m + HalfSpread \in Nat
    BY DecisionAssumption
  <2>3. (IF ok THEN "regular" ELSE "halted") \in Sessions
    BY DEF Sessions
  <2> QED
    BY <2>1, <2>2, <2>3 DEF Observation, Now
<1>4. history' = Retained(h)
  BY <1>1
<1> HIDE DEF x, H
<1>5. /\ h \in Seq(Observation) /\ Len(h) = L + 1 /\ h[L + 1] = x
      /\ \A i \in 1 .. L : h[i] = history[i]
  BY <1>0, <1>3, AppendProperties
<1> HIDE DEF h
<1> DEFINE from == IF L < H THEN 1 ELSE 2
<1>6. from \in 1 .. L + 1
  BY <1>0
<1>7. history' = SubSeq(h, from, L + 1)
  <2>1. Retained(h) = SubSeq(h, Greatest(1, Len(h) - H + 1), Len(h))
    BY DEF Retained, H
  <2>2. Greatest(1, (L + 1) - H + 1) = from
    BY <1>0 DEF Greatest
  <2>3. Len(h) = L + 1
    BY <1>5
  <2> HIDE DEF from, L
  <2> QED
    BY <1>4, <2>1, <2>2, <2>3, Zenon
<1> DEFINE N == (L + 1) - from + 1
<1>8. /\ history' \in Seq(Observation) /\ Len(history') = N /\ N \in 1 .. L + 1
      /\ \A i \in 1 .. N : history'[i] = h[from + i - 1]
  <2>1. from \in 1 .. Len(h) + 1 /\ L + 1 \in from - 1 .. Len(h)
    BY <1>0, <1>5, <1>6
  <2>2. history' \in Seq(Observation)
    BY <1>5, <1>6, <1>7, <1>0, SubSeqProperties
  <2>3. Len(history') = N /\ \A i \in 1 .. N : history'[i] = h[from + i - 1]
    BY <1>0, <1>5, <1>6, <1>7, <2>1, SubSeqProperties
  <2>4. N \in 1 .. L + 1
    BY <1>0, <1>6
  <2> QED
    BY <2>2, <2>3, <2>4
<1>9. \A i \in 1 .. L + 1 : h[L + 1].ts - h[i].ts >= (L + 1 - i) * Tick
  <2> SUFFICES ASSUME NEW i \in 1 .. L + 1
               PROVE  h[L + 1].ts - h[i].ts >= (L + 1 - i) * Tick
    OBVIOUS
  <2>1. CASE i = L + 1
    <3>1. h[i].ts \in Nat
      BY <1>3, <1>5, <2>1 DEF Observation
    <3>2. (L + 1 - i) * Tick = 0
      BY <1>0, <2>1
    <3> QED
      BY <2>1, <3>1, <3>2
  <2>2. CASE i # L + 1
    <3>1. i \in 1 .. L /\ seen # 0
      BY <1>0, <2>2
    <3>2. history[L].ts \in Nat /\ history[i].ts \in Nat
      BY <1>0, <3>1 DEF Observation
    <3>3. h[L + 1].ts = history[L].ts + gap /\ h[i].ts = history[i].ts
      BY <1>3, <1>5, <3>1
    <3>4. gap \in Nat /\ gap >= Tick
      BY DecisionAssumption
    <3>5. (L + 1 - i) * Tick = (L - i) * Tick + Tick /\ (L - i) * Tick \in Int
      BY <1>0, <3>1
    <3>6. history[L].ts - history[i].ts >= (L - i) * Tick
      BY <1>0, <3>1
    <3> DEFINE now  == history[L].ts
               then == history[i].ts
               late == (L - i) * Tick
    <3>7. /\ now \in Nat /\ then \in Nat /\ late \in Int /\ now - then >= late
          /\ h[L + 1].ts = now + gap /\ h[i].ts = then /\ (L + 1 - i) * Tick = late + Tick
      BY <3>2, <3>3, <3>5, <3>6
    <3> DEFINE newest == h[L + 1].ts
               older  == h[i].ts
               later  == (L + 1 - i) * Tick
    <3> HIDE DEF now, then, late
    <3>8. newest = now + gap /\ older = then /\ later = late + Tick
      BY <3>7
    <3> HIDE DEF newest, older, later
    <3>9. newest - older >= later
      BY <1>0, <3>4, <3>7, <3>8
    <3> QED
      BY <3>9 DEF newest, older, later
  <2> QED
    BY <2>1, <2>2
<1>10. Len(history') = IF seen' < H THEN seen' ELSE H
  BY <1>0, <1>2, <1>8
<1>11. ASSUME NEW i \in 1 .. N
       PROVE  history'[N].ts - history'[i].ts >= (N - i) * Tick
  <2>1. history'[N] = h[L + 1] /\ history'[i] = h[from + i - 1]
    <3>1. from + N - 1 = L + 1
      BY <1>0, <1>6
    <3>2. N \in 1 .. N
      BY <1>8
    <3> QED
      BY <1>8, <3>1, <3>2
  <2>2. from + i - 1 \in 1 .. L + 1 /\ L + 1 - (from + i - 1) = N - i
    BY <1>0, <1>6
  <2> QED
    BY <1>9, <2>1, <2>2
<1>12. MaxHistory' = MaxHistory
  BY DEF MaxHistory
<1>13. seen' > 0
  BY <1>0, <1>2
<1> HIDE DEF N, L
<1>14. Len(history') = IF seen' < MaxHistory THEN seen' ELSE MaxHistory
  BY <1>10 DEF H
<1>15. \A i \in 1 .. Len(history') :
         history'[Len(history')].ts - history'[i].ts >= (Len(history') - i) * Tick
  BY <1>8, <1>11
<1> QED
  BY <1>8, <1>12, <1>13, <1>14, <1>15 DEF HistoryInv

LEMMA HistoryTyped ==
  ASSUME history \in Seq(Observation)
  PROVE  \A i \in DOMAIN history : history[i] \in Observation
BY LenProperties, ElementOfSeq

\* Once a state is read the history is not empty again.
LEMMA HistoryNotEmpty ==
  ASSUME TypeOK, HistoryInv, pc # "read"
  PROVE  history # << >>
<1>1. seen \in Nat /\ seen > 0 /\ Len(history) = IF seen < MaxHistory THEN seen ELSE MaxHistory
  BY DEF TypeOK, HistoryInv
<1>2. Len(history) # 0
  BY <1>1, Retention
<1> QED
  BY <1>2, EmptySeq

LEMMA ReachesBack ==
  ASSUME TypeOK, HistoryInv
  PROVE  HistoryReachesBack
<1> SUFFICES ASSUME Len(history) \in 1 .. seen - 1
             PROVE  history[1].ts <= Now.ts - Delay
  BY DEF HistoryReachesBack
<1> DEFINE oldest == history[1].ts
           newest == history[Len(history)].ts
           span   == (Len(history) - 1) * Tick
<1>1. Len(history) = MaxHistory /\ span = (MaxHistory - 1) * Tick
  <2>1. seen \in Nat /\ MaxHistory \in Nat
    BY Retention DEF TypeOK
  <2>2. Len(history) = MaxHistory
    BY <2>1 DEF HistoryInv
  <2> QED
    BY <2>2
<1>2. history # << >>
  BY EmptySeq
<1>3. oldest \in Nat /\ newest \in Nat
  <2>1. 1 \in DOMAIN history /\ Len(history) \in DOMAIN history
    BY LenProperties DEF HistoryInv
  <2> QED
    BY <2>1, HistoryTyped DEF HistoryInv, Observation
<1>4. newest - oldest >= span
  BY DEF HistoryInv
<1>5. span \in Int /\ span >= Delay
  BY <1>1, Retention, DecisionAssumption
<1> HIDE DEF oldest, newest, span
<1>6. oldest <= newest - Delay
  BY <1>3, <1>4, <1>5, DecisionAssumption
<1> QED
  BY <1>6 DEF oldest, newest, Now

-----------------------------------------------------------------------------
(* Fills *)

\* A fill moves shares from the parent to the account: their sum, the settled
\* position, is what it was, and a parent that has more to fill is kept.
LEMMA FillKeepsSettled ==
  ASSUME TypeOK, PositionInv, Active, history \in Seq(Observation), history # << >>,
         FillUpTo(parent.qty - parent.filled)
  PROVE  /\ cash' \in Int /\ held' \in Int /\ Settled' = Settled
         /\ Active' => /\ DOMAIN parent' = ParentFields
                       /\ parent'.side \in {"BUY", "SELL"} /\ ~parent'.rejected
                       /\ parent'.qty \in Nat \ {0} /\ parent'.filled \in 0 .. parent'.qty - 1
<1>1. /\ parent.side \in {"BUY", "SELL"} /\ ~parent.rejected /\ DOMAIN parent = ParentFields
      /\ parent.qty \in Nat \ {0} /\ parent.filled \in 0 .. parent.qty - 1
      /\ cash \in Int /\ held \in Int
  BY DEF TypeOK, PositionInv
<1>2. PICK q \in 0 .. parent.qty - parent.filled, price \in {Now.bid, Now.ask} :
        /\ held' = held + Signed(parent, q)
        /\ cash' = cash - Signed(parent, q) * price
        /\ parent' = IF parent.filled + q = parent.qty THEN NoParent
                     ELSE [parent EXCEPT !.filled = @ + q]
  BY DEF FillUpTo
<1>3. price \in Nat
  BY ObservedTyped DEF Observation
<1>4. q \in Nat /\ Signed(parent, q) \in Int
  BY <1>1 DEF Signed
<1>5. held' \in Int
  BY <1>1, <1>2, <1>4
<1>6. cash' \in Int
  <2> DEFINE paid == Signed(parent, q) * price
  <2>1. paid \in Int
    BY <1>3, <1>4
  <2> HIDE DEF paid
  <2>2. cash' = cash - paid
    BY <1>2 DEF paid
  <2> QED
    BY <1>1, <2>1, <2>2
<1>7. Settled = held + Signed(parent, parent.qty - parent.filled)
  BY DEF Settled, Working
<1>8. CASE parent.filled + q = parent.qty
  <2>1. parent' = NoParent /\ ~Active'
    BY <1>2, <1>8 DEF Active
  <2>2. Settled' = held'
    <3>1. Working' = 0
      BY <2>1, Zenon DEF Working
    <3>2. Settled' = held' + Working'
      BY Zenon DEF Settled
    <3>3. \A x \in Int : x + 0 = x
      OBVIOUS
    <3> QED
      BY <1>5, <3>1, <3>2, <3>3, Zenon
  <2>3. q = parent.qty - parent.filled
    BY <1>1, <1>4, <1>8
  <2> QED
    BY <1>2, <1>5, <1>6, <1>7, <2>1, <2>2, <2>3
<1>9. CASE parent.filled + q # parent.qty
  <2>1. parent' = [parent EXCEPT !.filled = parent.filled + q]
    BY <1>2, <1>9
  <2>2. /\ DOMAIN parent' = ParentFields /\ parent'.side = parent.side
        /\ parent'.rejected = parent.rejected /\ parent'.qty = parent.qty
        /\ parent'.filled = parent.filled + q
    BY <1>1, <2>1 DEF ParentFields
  <2>3. Active'
    BY <1>1, <2>2 DEF Active, NoParent
  <2>4. parent.filled + q \in 0 .. parent.qty - 1
    BY <1>1, <1>2, <1>9
  <2>5. Settled' = held' + Signed(parent', parent.qty - (parent.filled + q))
    BY <2>2, <2>3 DEF Settled, Working
  <2>6. Settled' = Settled
    <3>1. CASE parent.side = "BUY"
      BY <1>1, <1>2, <1>4, <1>7, <2>2, <2>5, <3>1 DEF Signed
    <3>2. CASE parent.side # "BUY"
      <4> DEFINE qty == parent.qty
                 filled == parent.filled
      <4>1. /\ Settled' = held' + -(qty - (filled + q)) /\ held' = held + -q
            /\ Settled = held + -(qty - filled)
            /\ qty \in Nat /\ filled \in Nat
        BY <1>1, <1>2, <1>7, <2>2, <2>5, <3>2 DEF Signed
      <4> HIDE DEF qty, filled
      <4> QED
        BY <1>1, <1>4, <4>1
    <3> QED
      BY <3>1, <3>2
  <2> QED
    BY <1>1, <1>5, <1>6, <2>2, <2>4, <2>6
<1> QED
  BY <1>8, <1>9

\* So a fill leaves every statement about the latest decision as it was.
LEMMA FillKeepsLoopInv ==
  ASSUME TypeOK, HistoryInv, PositionInv, Active, pc \in {"work", "first"},
         FillUpTo(parent.qty - parent.filled),
         pc' \in {"read", "decide"}, UNCHANGED <<seen, history, flag, last>>
  PROVE  TypeOK' /\ PositionInv'
<1>1. history \in Seq(Observation) /\ history # << >>
  BY HistoryNotEmpty DEF HistoryInv
<1>2. /\ cash' \in Int /\ held' \in Int /\ Settled' = Settled
      /\ Active' => /\ DOMAIN parent' = ParentFields
                    /\ parent'.side \in {"BUY", "SELL"} /\ ~parent'.rejected
                    /\ parent'.qty \in Nat \ {0} /\ parent'.filled \in 0 .. parent'.qty - 1
  BY <1>1, FillKeepsSettled
<1>3. TypeOK'
  BY <1>2 DEF TypeOK
<1>4. last.fate # "none" /\ last.fate \notin {"idle", "rejected"}
  BY DEF PositionInv, HeldMeetsDecision
<1>5. HeldMeetsDecision'
  BY <1>2, <1>4 DEF PositionInv, HeldMeetsDecision, Settled
<1>7. InLots(Settled)'
  BY <1>2 DEF PositionInv, InLots
<1> QED
  BY <1>2, <1>3, <1>5, <1>7 DEF PositionInv

-----------------------------------------------------------------------------
(* The actions *)

LEMMA Idle ==
  ASSUME held \in Int, ~Active
  PROVE  Settled = held
<1>1. Working = 0
  BY DEF Working
<1> QED
  BY <1>1 DEF Settled

\* From a position in whole lots, the order for the difference settles near
\* the target and on its side of zero; without an order nothing moves.
LEMMA DecideKeepsLoopInv ==
  ASSUME LoopInv, Decide
  PROVE  LoopInv'
<1>0. TypeOK /\ HistoryInv /\ PositionInv
  BY DEF LoopInv
<1>1. PICK answer \in {"buy", "close"} :
        LET score  == Score(answer)
            capped == CappedTarget(score, Observed)
            target == ThrottledTarget(score, Observed)
            order  == CreateParent(Delta(target, held), score, Observed)
            sent   == target # held /\ ~order.rejected
        IN /\ score # 0
           /\ flag' = (score > 0)
           /\ parent' = IF sent THEN order ELSE NoParent
           /\ last' = [action |-> IF score > 0 THEN "entry" ELSE "exit",
                       fate |-> IF sent THEN "sent" ELSE IF target = held THEN "idle" ELSE "rejected",
                       target |-> target, from |-> held, capped |-> capped,
                       mid |-> Mid(Observed), value |-> NavAt(Observed)]
           /\ pc' = IF sent THEN "first" ELSE "read"
  BY DEF Decide
<1> DEFINE score  == Score(answer)
           obs    == Observed
           capped == CappedTarget(score, obs)
           target == ThrottledTarget(score, obs)
           order  == CreateParent(Delta(target, held), score, obs)
           sent   == target # held /\ ~order.rejected
           mid    == Mid(obs)
           value  == NavAt(obs)
<1>2. /\ flag' = (score > 0)
      /\ parent' = IF sent THEN order ELSE NoParent
      /\ last' = [action |-> IF score > 0 THEN "entry" ELSE "exit",
                  fate |-> IF sent THEN "sent" ELSE IF target = held THEN "idle" ELSE "rejected",
                  target |-> target, from |-> held, capped |-> capped, mid |-> mid, value |-> value]
      /\ pc' = IF sent THEN "first" ELSE "read"
  BY <1>1
<1>3. score \in {100, -100}
  BY <1>1 DEF Score
<1>4. pc = "decide" /\ ~Active /\ UNCHANGED <<seen, history, cash, held>>
  BY DEF Decide
<1>5. obs \in Observation
  BY <1>0, <1>4, HistoryNotEmpty, ObservedTyped DEF HistoryInv
<1>6. cash \in Int /\ held \in Int
  BY <1>0 DEF TypeOK
<1> HIDE DEF score, obs
<1>7. /\ mid \in Nat /\ value \in Int /\ capped \in Int /\ target \in Int
      /\ score > 0 => capped >= 0
      /\ score < 0 => capped <= 0
      /\ value > 0 => 100 * Abs(capped) * mid <= SinglePct * value
      /\ Between(held, target, capped)
  BY <1>3, <1>5, <1>6, Decision
<1> HIDE DEF mid, value, capped, target
<1>8. InLots(held)
  BY <1>0, <1>4, <1>6, Idle DEF PositionInv
<1>9. ASSUME sent
      PROVE  /\ DOMAIN order = ParentFields /\ order.side \in {"BUY", "SELL"} /\ ~order.rejected
             /\ order.qty \in Nat \ {0} /\ order.filled = 0
             /\ held + Signed(order, order.qty) =
                  IF target > held THEN held + RoundQty(Abs(target - held))
                  ELSE held - RoundQty(Abs(target - held))
  <2>1. Delta(target, held) = target - held /\ target - held \in Int
    BY <1>6, <1>7 DEF Delta
  <2>2. /\ DOMAIN order = ParentFields /\ order.rejected = FALSE
        /\ order.side = IF target - held > 0 THEN "BUY" ELSE "SELL"
        /\ order.qty = RoundQty(Abs(target - held)) /\ order.qty > 0 /\ order.filled = 0
    <3> DEFINE delta == Delta(target, held)
               made  == CreateParent(delta, score, obs)
    <3>1. delta \in Int /\ delta = target - held
      BY <2>1
    <3>2. ~made.rejected
      BY <1>9
    <3> HIDE DEF delta
    <3>3. MadeFor(made, delta)
      BY <3>1, <3>2, OrderMade
    <3>4. order = made
      BY DEF delta
    <3> HIDE DEF order, made
    <3> QED
      BY <3>1, <3>3, <3>4 DEF MadeFor
  <2>3. RoundQty(Abs(target - held)) \in Nat
    <3>1. Abs(target - held) \in Nat
      BY <1>6, <1>7 DEF Abs
    <3> QED
      BY <3>1, Lots
  <2> HIDE DEF order
  <2>4. held + Signed(order, order.qty) =
          IF target > held THEN held + RoundQty(Abs(target - held))
          ELSE held - RoundQty(Abs(target - held))
    BY <1>6, <1>7, <2>2, <2>3 DEF Signed
  <2> QED
    BY <2>2, <2>3, <2>4
<1> HIDE DEF order
<1>10. pc' \in {"read", "first"} /\ flag' \in BOOLEAN /\ cash' \in Int /\ held' \in Int
  BY <1>2, <1>4, <1>6
<1>11. HistoryInv'
  <2>1. MaxHistory' = MaxHistory
    BY DEF MaxHistory
  <2>2. seen > 0
    BY <1>0, <1>4 DEF HistoryInv
  <2> QED
    BY <1>0, <1>4, <2>1, <2>2 DEF HistoryInv
<1>12. last'.action # "none" /\ last'.value > 0 =>
         /\ 100 * Abs(last'.capped) * last'.mid <= SinglePct * last'.value
         /\ \/ last'.from <= last'.target /\ last'.target <= last'.capped
            \/ last'.capped <= last'.target /\ last'.target <= last'.from
  BY <1>2, <1>7 DEF Between
<1>13. CASE sent
  <2>1. /\ parent' = order /\ last'.fate = "sent" /\ last'.target = target
        /\ last'.capped = capped /\ pc' = "first"
    BY <1>2, <1>13
  <2>2. Active'
    BY <1>9, <1>13, <2>1 DEF Active, NoParent
  <2>3. Settled' = held + Signed(order, order.qty)
    <3>1. order.qty - order.filled = order.qty
      BY <1>9, <1>13
    <3>2. Working' = Signed(order, order.qty)
      BY <2>1, <2>2, <3>1 DEF Working, Signed
    <3>3. Settled' = held' + Working'
      BY Zenon DEF Settled
    <3> QED
      BY <1>4, <3>2, <3>3
  <2>4. Settled' = IF target > held THEN held + RoundQty(Abs(target - held))
                   ELSE held - RoundQty(Abs(target - held))
    BY <1>9, <1>13, <2>3
  <2>5. /\ Settled' \in Int /\ InLots(Settled')
        /\ Abs(target - Settled') < Greatest(1, LotSize)
        /\ (target >= 0 => Settled' >= 0) /\ (target <= 0 => Settled' <= 0)
    BY <1>6, <1>7, <1>8, <2>4, Landing
  <2>6. TypeOK'
    BY <1>0, <1>4, <1>9, <1>10, <1>13, <2>1 DEF TypeOK
  <2>7. HeldMeetsDecision'
    BY <1>12, <2>1, <2>5 DEF HeldMeetsDecision, Settled
  <2>8. InLots(Settled)'
    BY <2>5 DEF InLots
  <2> QED
    BY <1>9, <1>11, <1>13, <2>1, <2>2, <2>6, <2>7, <2>8 DEF LoopInv, PositionInv
<1>14. CASE ~sent
  <2>1. /\ parent' = NoParent /\ last'.fate \in {"idle", "rejected"} /\ last'.from = held
        /\ pc' = "read"
    BY <1>2, <1>14
  <2>2. ~Active'
    BY <2>1 DEF Active
  <2>3. Settled' = held
    <3>1. Working' = 0
      BY <2>2, Zenon DEF Working
    <3>2. Settled' = held' + Working'
      BY Zenon DEF Settled
    <3>3. held + 0 = held
      BY <1>6
    <3> QED
      BY <1>4, <3>1, <3>2, <3>3, Zenon
  <2>4. TypeOK'
    BY <1>0, <1>4, <1>10, <2>2 DEF TypeOK
  <2>5. HeldMeetsDecision'
    BY <1>4, <1>12, <2>1, <2>2 DEF HeldMeetsDecision
  <2>6. InLots(Settled)'
    BY <1>8, <2>3 DEF InLots
  <2> QED
    BY <1>11, <2>1, <2>2, <2>4, <2>5, <2>6 DEF LoopInv, PositionInv
<1> QED
  BY <1>13, <1>14

LEMMA LoopInvInit ==
  Init => LoopInv
<1> SUFFICES ASSUME Init PROVE LoopInv
  OBVIOUS
<1>1. /\ pc = "read" /\ seen = 0 /\ history = << >> /\ flag = FALSE /\ parent = NoParent
      /\ held = 0 /\ last = NoSignal /\ cash \in Int /\ MaxStates \in Nat
  BY DecisionAssumption DEF Init
<1>2. ~Active /\ held \in Int
  BY <1>1 DEF Active
<1>3. TypeOK
  <2>1. seen \in 0 .. MaxStates /\ DOMAIN history = {}
    BY <1>1
  <2> QED
    BY <1>1, <1>2, <2>1 DEF TypeOK
<1>4. HistoryInv
  BY <1>1, Retention, EmptySeq DEF HistoryInv
<1>5. InLots(Settled)
  <2>1. Settled = 0 * LotSize
    BY <1>1, <1>2, Idle, RoutingAssumption
  <2> QED
    BY <2>1 DEF InLots
<1>6. HeldMeetsDecision
  BY <1>1, <1>2 DEF HeldMeetsDecision, NoSignal
<1> QED
  BY <1>1, <1>2, <1>3, <1>4, <1>5, <1>6 DEF LoopInv, PositionInv

\* A step that leaves account, parent and signal alone, and does not enter
\* the place of a fresh parent without one, keeps what is known of them.
LEMMA UntouchedPosition ==
  ASSUME PositionInv, UNCHANGED <<flag, parent, cash, held, last>>, pc' = "first" => Active
  PROVE  PositionInv'
<1>1. (Active' <=> Active) /\ Working' = Working /\ Settled' = Settled
  BY DEF Active, Working, Signed, Settled
<1>2. InLots(Settled)'
  BY <1>1 DEF PositionInv, InLots
<1>3. HeldMeetsDecision'
  BY <1>1 DEF PositionInv, HeldMeetsDecision
<1> QED
  BY <1>1, <1>2, <1>3 DEF PositionInv

\* The history changes only when a state is read.
LEMMA UntouchedHistory ==
  ASSUME HistoryInv, UNCHANGED <<seen, history>>, pc # "read"
  PROVE  HistoryInv'
<1>1. MaxHistory' = MaxHistory
  BY DEF MaxHistory
<1> QED
  BY <1>1 DEF HistoryInv

LEMMA LoopInvStep ==
  LoopInv /\ [Next]_vars => LoopInv'
<1> SUFFICES ASSUME LoopInv, [Next]_vars PROVE LoopInv'
  OBVIOUS
<1>0. TypeOK /\ HistoryInv /\ PositionInv
  BY DEF LoopInv
<1>1. CASE Read
  <2>1. HistoryInv'
    BY <1>0, <1>1, ReadKeepsHistory
  <2>2. PositionInv'
    BY <1>0, <1>1, UntouchedPosition DEF Read
  <2>3. Active' <=> Active
    BY <1>1 DEF Read, Active
  <2>4. \A i \in DOMAIN history' : history'[i] \in Observation
    BY <2>1, LenProperties, ElementOfSeq DEF HistoryInv
  <2>5. seen' \in 0 .. MaxStates
    BY <1>0, <1>1, DecisionAssumption DEF Read, TypeOK
  <2>6. TypeOK'
    BY <1>0, <1>1, <2>3, <2>4, <2>5 DEF Read, TypeOK
  <2> QED
    BY <2>1, <2>2, <2>6 DEF LoopInv
<1>2. CASE WorkOpen
  <2>1. HistoryInv'
    BY <1>0, <1>2, UntouchedHistory DEF WorkOpen
  <2>2. CASE Active /\ Actionable
    BY <1>0, <1>2, <2>1, <2>2, FillKeepsLoopInv DEF WorkOpen, LoopInv
  <2>3. CASE ~(Active /\ Actionable)
    <3>1. UNCHANGED <<seen, history, flag, parent, cash, held, last>> /\ pc' \in {"read", "decide"}
      BY <1>2, <2>3 DEF WorkOpen
    <3>2. PositionInv'
      BY <1>0, <3>1, UntouchedPosition
    <3>3. TypeOK'
      BY <1>0, <3>1 DEF TypeOK, Active
    <3> QED
      BY <2>1, <3>2, <3>3 DEF LoopInv
  <2> QED
    BY <2>2, <2>3
<1>3. CASE Blocked \/ NoDecision
  <2>1. /\ UNCHANGED <<seen, history, flag, parent, cash, held, last>> /\ pc = "decide"
        /\ pc' \in {"first", "read"} /\ (pc' = "first" => Active)
    BY <1>3 DEF Blocked, NoDecision
  <2>2. PositionInv'
    BY <1>0, <2>1, UntouchedPosition
  <2>3. TypeOK'
    BY <1>0, <2>1 DEF TypeOK, Active
  <2>4. HistoryInv'
    BY <1>0, <2>1, UntouchedHistory
  <2> QED
    BY <2>2, <2>3, <2>4 DEF LoopInv
<1>4. CASE Decide
  BY <1>4, DecideKeepsLoopInv
<1>5. CASE FirstFills
  <2>1. HistoryInv'
    BY <1>0, <1>5, UntouchedHistory DEF FirstFills
  <2>2. pc = "first" /\ Active
    BY <1>0, <1>5 DEF FirstFills, PositionInv
  <2> QED
    BY <1>0, <1>5, <2>1, <2>2, FillKeepsLoopInv DEF FirstFills, LoopInv
<1>6. CASE UNCHANGED vars
  <2>1. MaxHistory' = MaxHistory
    BY DEF MaxHistory
  <2>2. HistoryInv'
    BY <1>0, <1>6, <2>1 DEF HistoryInv, vars
  <2>3. PositionInv'
    BY <1>0, <1>6, UntouchedPosition DEF vars, PositionInv
  <2>4. TypeOK'
    BY <1>0, <1>6 DEF TypeOK, Active, vars
  <2> QED
    BY <2>2, <2>3, <2>4 DEF LoopInv
<1> QED
  BY <1>1, <1>2, <1>3, <1>4, <1>5, <1>6 DEF Next, Finished

THEOREM LoopCorrect == Spec => []LoopInv
<1>1. Init => LoopInv
  BY LoopInvInit
<1>2. LoopInv /\ [Next]_vars => LoopInv'
  BY LoopInvStep
<1> QED
  BY <1>1, <1>2, PTL DEF Spec

\* Every state the loop reaches is well formed; a parent that is active has
\* something left to fill. (PipelineRunner.run)
THEOREM TypeCorrect == Spec => []TypeOK
<1>1. LoopInv => TypeOK
  BY DEF LoopInv
<1> QED
  BY <1>1, LoopCorrect, PTL

\* Once its order is filled the account is within a lot of the target that was
\* decided and never across zero from it, and the target is within the single-position share of the value it
\* was decided on, for all limits, lot sizes and prices.
\* (run, RiskCaps.apply, TurnoverBudget.throttle)
THEOREM HeldAlwaysMeetsDecision == Spec => []HeldMeetsDecision
<1>1. LoopInv => HeldMeetsDecision
  BY DEF LoopInv, PositionInv
<1> QED
  BY <1>1, LoopCorrect, PTL

\* What is dropped from the history is older than any state the delay can
\* still ask for, whatever the delay, the tick and the gaps between states.
\* (_compute_history_retention_len, _accumulate_state)
THEOREM HistoryAlwaysReachesBack == Spec => []HistoryReachesBack
<1>1. LoopInv => HistoryReachesBack
  BY ReachesBack DEF LoopInv
<1> QED
  BY <1>1, LoopCorrect, PTL

-----------------------------------------------------------------------------
(* Limits of the books that TLC tries *)
\* The books of the checked run are books.
LEMMA PairsAreBooks ==
  ASSUME NEW book \in Books \cup {Nothing}, NEW prices \in PriceLists
  PROVE  IsBook(book, prices) /\ DOMAIN book = Pair /\ book \in [Pair -> Int]
<1>1. IsFiniteSet(Pair)
  <2>1. IsFiniteSet({"a"}) /\ {"a", "b"} = {"a"} \cup {"b"}
    BY FS_Singleton
  <2> QED
    BY <2>1, FS_AddElement DEF Pair
<1>2. book \in [Pair -> Int] /\ DOMAIN book = Pair
  BY DEF Books, Nothing
<1>3. \A s \in Pair : PriceOf(prices, s) \in Nat
  BY DEF PriceLists, PriceOf
<1> QED
  BY <1>1, <1>2, <1>3 DEF IsBook

\* Whatever the run does, the caps leave only the net open, the budget holds and
\* diluting is vain.  (RiskCaps, TurnoverBudget, ExposureController)
THEOREM CapsAlwaysLeaveOnlyNet == Spec => []CapsLeaveOnlyNet
<1>1. ASSUME NEW book \in Books, NEW prices \in PriceLists, NEW value \in Values
      PROVE  /\ CapsHold(book, prices, value)
             /\ BudgetHolds(book, Nothing, prices, value)
             /\ BudgetHolds(Nothing, book, prices, value)
  <2>1. value \in Int
    BY DEF Values
  <2>2. /\ IsBook(book, prices) /\ IsBook(Nothing, prices)
        /\ book \in [DOMAIN Nothing -> Int] /\ Nothing \in [DOMAIN book -> Int]
    <3>1. Nothing \in Books \cup {Nothing} /\ book \in Books \cup {Nothing}
      OBVIOUS
    <3>2. IsBook(book, prices) /\ DOMAIN book = Pair /\ book \in [Pair -> Int]
      BY <3>1, PairsAreBooks, Zenon
    <3>3. IsBook(Nothing, prices) /\ DOMAIN Nothing = Pair /\ Nothing \in [Pair -> Int]
      BY <3>1, PairsAreBooks, Zenon
    <3> QED
      BY <3>2, <3>3, Zenon
  <2>3. CapsHold(book, prices, value)
    BY <2>1, <2>2, CapsKeepLimits
  <2>4. BudgetHolds(book, Nothing, prices, value) /\ BudgetHolds(Nothing, book, prices, value)
    BY <2>1, <2>2, BudgetKept
  <2> QED
    BY <2>3, <2>4
<1>2. ASSUME NEW book \in Books, NEW prices \in PriceLists
      PROVE  DilutionIsVain(book, prices, 30)
  <2>1. IsBook(book, prices)
    <3>1. book \in Books \cup {Nothing}
      OBVIOUS
    <3> QED
      BY <3>1, PairsAreBooks, Zenon
  <2>2. 30 \in 0 .. 99
    OBVIOUS
  <2> QED
    BY <2>1, <2>2, DilutionChangesNothing
<1>3. CapsLeaveOnlyNet
  BY <1>1, <1>2, Zenon DEF CapsLeaveOnlyNet
<1> QED
  BY <1>3, PTL
-----------------------------------------------------------------------------
(* The schedule of a parent order *)

Slot == [at : Int, qty : Nat]

\* An order with shares to schedule before the close.
Schedulable(p) ==
  /\ p.qty \in Int /\ p.filled \in Int /\ p.filled < p.qty
  /\ p.start \in Int /\ p.end = SessionClose /\ p.start < p.end

LEMMA SessionMarks ==
  /\ DOMAIN AvoidWindows = {1, 2}
  /\ AvoidWindows[1] = <<SessionOpen, SessionOpen + AvoidOpen>>
  /\ AvoidWindows[2] = <<SessionClose - AvoidClose, SessionClose>>
  /\ SessionOpen \in Int /\ SessionClose \in Int
  /\ SessionOpen + AvoidOpen \in Int /\ SessionClose - AvoidClose \in Int
  /\ SessionOpen <= SessionOpen + AvoidOpen
  /\ SessionOpen + AvoidOpen < SessionClose - AvoidClose
  /\ SessionClose - AvoidClose <= SessionClose
<1>1. /\ SessionOpen \in Nat /\ SessionClose \in Nat /\ AvoidOpen \in Nat /\ AvoidClose \in Nat
      /\ AvoidOpen + AvoidClose < SessionClose - SessionOpen
  BY RoutingAssumption, Zenon DEF RoutingAssumption
<1>2. /\ AvoidWindows[1] = <<SessionOpen, SessionOpen + AvoidOpen>>
      /\ AvoidWindows[2] = <<SessionClose - AvoidClose, SessionClose>>
      /\ DOMAIN AvoidWindows = {1, 2}
  BY DEF AvoidWindows
<1> QED
  BY <1>1, <1>2

\* The windows' ends in n-ths.
Marks(n, o, a, b, c) ==
  /\ o = n * SessionOpen /\ a = n * (SessionOpen + AvoidOpen)
  /\ b = n * (SessionClose - AvoidClose) /\ c = n * SessionClose

LEMMA MarkOrder ==
  ASSUME NEW n \in Nat, n > 0, NEW o, NEW a, NEW b, NEW c, Marks(n, o, a, b, c)
  PROVE  /\ o \in Int /\ a \in Int /\ b \in Int /\ c \in Int
         /\ o <= a /\ a <= b /\ b <= c
<1> DEFINE A == SessionOpen + AvoidOpen
           B == SessionClose - AvoidClose
<1>1. /\ SessionOpen \in Int /\ SessionClose \in Int /\ A \in Int /\ B \in Int
      /\ SessionOpen <= A /\ A <= B /\ B <= SessionClose
  BY SessionMarks
<1>2. o = n * SessionOpen /\ a = n * A /\ b = n * B /\ c = n * SessionClose
  BY DEF Marks
<1> HIDE DEF A, B
<1>3. /\ o = SessionOpen * n /\ a = A * n /\ b = B * n /\ c = SessionClose * n
      /\ o \in Int /\ a \in Int /\ b \in Int /\ c \in Int
  BY <1>1, <1>2
<1>4. SessionOpen * n <= A * n /\ A * n <= B * n /\ B * n <= SessionClose * n
  BY <1>1, ProductMonotone
<1> QED
  BY <1>3, <1>4

InsideMarks(t, o, a, b, c)  == (o <= t /\ t <= a) \/ (b <= t /\ t <= c)
BetweenMarks(t, o, a, b, c) == (t <= o \/ t >= a) /\ (t <= b \/ t >= c)

LEMMA WindowsMeant ==
  ASSUME NEW n \in Nat, n > 0, NEW o, NEW a, NEW b, NEW c, Marks(n, o, a, b, c), NEW t \in Int
  PROVE  /\ InAvoidWindow(t, n) <=> InsideMarks(t, o, a, b, c)
         /\ OutsideWindows(t, n) <=> BetweenMarks(t, o, a, b, c)
<1>1. /\ n * AvoidWindows[1][1] = o /\ n * AvoidWindows[1][2] = a
      /\ n * AvoidWindows[2][1] = b /\ n * AvoidWindows[2][2] = c
  BY SessionMarks DEF Marks
<1>2. InAvoidWindow(t, n) <=> InsideMarks(t, o, a, b, c)
  BY <1>1, SessionMarks DEF InAvoidWindow, InsideMarks
<1>3. OutsideWindows(t, n) <=> BetweenMarks(t, o, a, b, c)
  BY <1>1, SessionMarks DEF OutsideWindows, BetweenMarks
<1> QED
  BY <1>2, <1>3

\* What the avoided windows leave of the session begins where the first ends.
LEMMA FirstPreferred == PreferredWindows[1][1] = SessionOpen + AvoidOpen
<1> DEFINE Acc == [cursor : Int, out : Seq(Int \X Int)]
           first == [cursor |-> SessionOpen, out |-> << >>]
           w == AvoidWindows
           G == [x \in (1 .. 2) \X Acc |-> AfterWindow(x[2], w[x[1]])]
           IsIter(g) == g = [t \in SUBSET (1 .. 2) |->
             IF t = {} THEN first ELSE AfterWindow(g[t \ {Max(t)}], w[Max(t)])]
           iter == CHOOSE g : IsIter(g)
<1>1. /\ DOMAIN w = 1 .. 2 /\ \A i \in 1 .. 2 : w[i] \in Int \X Int
  <2>1. w[1] \in Int \X Int /\ w[2] \in Int \X Int
    BY SessionMarks
  <2> QED
    BY <2>1, SessionMarks
<1>2. FoldLeft(AfterWindow, first, w) = iter[1 .. 2]
  <2>1. FoldLeft(AfterWindow, first, w) = (CHOOSE g : g = [t \in SUBSET (DOMAIN w) |->
          IF t = {} THEN first ELSE AfterWindow(g[t \ {Max(t)}], w[Max(t)])])[DOMAIN w]
    BY Zenon DEF FoldLeft, MapThenFoldSet
  <2> QED
    BY <1>1, <2>1, Zenon
<1>3. first \in Acc
  BY SessionMarks, EmptySeq
<1>4. ASSUME NEW acc \in Acc, NEW i \in 1 .. 2
      PROVE  AfterWindow(acc, w[i]) \in Acc
  <2>1. acc.cursor \in Int /\ acc.out \in Seq(Int \X Int) /\ w[i] \in Int \X Int
    BY <1>1
  <2>2. w[i][1] \in Int /\ w[i][2] \in Int
    BY <2>1
  <2>3. Greatest(acc.cursor, w[i][2]) \in Int
    BY <2>1, <2>2 DEF Greatest
  <2>4. Append(acc.out, <<acc.cursor, w[i][1]>>) \in Seq(Int \X Int)
    BY <2>1, <2>2, AppendProperties
  <2> QED
    BY <2>1, <2>3, <2>4, Zenon DEF AfterWindow
<1> HIDE DEF first, w, Acc
<1>5. ASSUME NEW i \in 1 .. 2, NEW acc \in Acc
      PROVE  G[<<i, acc>>] = AfterWindow(acc, w[i])
  OBVIOUS
<1> HIDE DEF G
<1>6. Keeps(G, 1 .. 2, Acc)
  BY <1>4, <1>5, Zenon DEF Keeps
<1>7. IsIter(iter)
  <2>1. PICK g \in [SUBSET (1 .. 2) -> Acc] : IsLeftFold(G, first, 2, g)
    BY <1>3, <1>6, FoldLeftExists
  <2>2. ASSUME NEW t \in SUBSET (1 .. 2)
        PROVE  g[t] = IF t = {} THEN first ELSE AfterWindow(g[t \ {Max(t)}], w[Max(t)])
    <3>1. t # {} => Max(t) \in 1 .. 2
      BY LargestChosen
    <3>2. g[t \ {Max(t)}] \in Acc
      OBVIOUS
    <3> QED
      BY <1>5, <2>1, <3>1, <3>2 DEF IsLeftFold
  <2>3. IsIter(g)
    BY <2>2
  <2> QED
    BY <2>3
<1> HIDE DEF iter
<1>8. /\ iter[{}] = first
      /\ iter[1 .. 1] = AfterWindow(first, w[1])
      /\ iter[1 .. 2] = AfterWindow(iter[1 .. 1], w[2])
  <2>1. iter[{}] = first
    BY <1>7
  <2>2. ASSUME NEW k \in 1 .. 2
        PROVE  iter[1 .. k] = AfterWindow(iter[1 .. k - 1], w[k])
    <3>1. k \in Nat \ {0} /\ 1 .. k \in SUBSET (1 .. 2)
      OBVIOUS
    <3>2. iter[1 .. k] = AfterWindow(iter[(1 .. k) \ {Max(1 .. k)}], w[Max(1 .. k)])
      BY <1>7, <3>1, LargestOfPrefix
    <3>3. Max(1 .. k) = k /\ (1 .. k) \ {k} = 1 .. k - 1
      BY <3>1, LargestOfPrefix
    <3> QED
      BY <3>2, <3>3, Zenon
  <2>3. 1 .. (1 - 1) = {} /\ 1 .. (2 - 1) = 1 .. 1
    OBVIOUS
  <2> QED
    BY <2>1, <2>2, <2>3
<1> DEFINE A == SessionOpen + AvoidOpen
           B == SessionClose - AvoidClose
<1>9. /\ SessionOpen \in Int /\ SessionClose \in Int /\ A \in Int /\ B \in Int
      /\ SessionOpen <= A /\ A < B /\ B <= SessionClose
      /\ w[1] = <<SessionOpen, A>> /\ w[2] = <<B, SessionClose>>
  BY SessionMarks DEF w
<1> HIDE DEF A, B
<1>10. iter[1 .. 1] = [cursor |-> A, out |-> << >>]
  BY <1>8, <1>9 DEF AfterWindow, Greatest, first
<1>11. iter[1 .. 2] = [cursor |-> SessionClose, out |-> << <<A, B>> >>]
  BY <1>8, <1>9, <1>10 DEF AfterWindow, Greatest
<1>12. PreferredWindows = << <<A, B>> >>
  BY <1>2, <1>9, <1>11 DEF PreferredWindows, first, w
<1> QED
  BY <1>12 DEF A

LEMMA QuotientNatural ==
  ASSUME NEW a \in Nat, NEW d \in Nat, d > 0
  PROVE  a \div d \in Nat
<1> DEFINE q == a \div d
           r == a % d
<1>1. q \in Int /\ r \in Int /\ 0 <= r /\ r < d /\ a = q * d + r
  BY Quotient
<1> HIDE DEF q, r
<1>2. (q + 1) * d > 0
  <2>1. (q + 1) * d = q * d + d
    BY <1>1
  <2>2. q * d \in Int
    BY <1>1
  <2> QED
    BY <1>1, <2>1, <2>2
<1>3. 0 * d < (q + 1) * d
  BY <1>2
<1>4. 0 < q + 1
  BY <1>1, <1>3, LessByFactor
<1> QED
  BY <1>1, <1>4 DEF q

\* The time and the quantity of a slice.
LEMMA SliceTyped ==
  ASSUME NEW p, Schedulable(p), NEW n \in Nat, n > 0, NEW i \in 0 .. n - 1
  PROVE  /\ SliceTime(p, n, i) \in Int /\ SliceQty(p, n, i) \in Nat
         /\ Remaining(p) \in Nat /\ Remaining(p) > 0
<1> DEFINE rem == Remaining(p)
           late == p.end - p.start
<1>1. rem \in Nat /\ rem > 0
  BY DEF Schedulable, Remaining
<1>2. p.start \in Int /\ late \in Int
  BY SessionMarks DEF Schedulable
<1> HIDE DEF rem, late
<1>3. rem \div n \in Nat
  BY <1>1, QuotientNatural
<1>4. SliceQty(p, n, i) \in Nat
  BY <1>3 DEF SliceQty, rem
<1>5. n * p.start + i * late \in Int
  BY <1>2
<1> QED
  BY <1>1, <1>4, <1>5 DEF SliceTime, late, rem

\* The slices' times grow from the start of the order to the close.
LEMMA SliceTimes ==
  ASSUME NEW p, Schedulable(p), NEW n \in Nat, n > 0,
         NEW i \in 0 .. n - 1, NEW k \in 0 .. n - 1, i <= k
  PROVE  /\ SliceTime(p, n, i) <= SliceTime(p, n, k)
         /\ n * p.start <= SliceTime(p, n, i)
         /\ SliceTime(p, n, i) <= n * SessionClose
         /\ i = 0 => SliceTime(p, n, i) = n * p.start
<1> DEFINE late == p.end - p.start
           s == n * p.start
<1>1. p.start \in Int /\ late \in Nat /\ SessionClose = p.start + late /\ SessionClose \in Int
  BY SessionMarks DEF Schedulable
<1>2. SliceTime(p, n, i) = s + i * late /\ SliceTime(p, n, k) = s + k * late
  BY DEF SliceTime
<1>3. s \in Int /\ n * SessionClose = s + n * late
  BY <1>1
<1> HIDE DEF late, s
<1>4. i * late \in Nat /\ k * late \in Nat /\ n * late \in Nat
  BY <1>1
<1>5. i * late <= k * late /\ i * late <= n * late
  BY <1>1, ProductMonotone
<1>6. i = 0 => i * late = 0
  BY <1>1
<1> QED
  BY <1>2, <1>3, <1>4, <1>5, <1>6 DEF s

\* The first k slices take base shares each, and one share more for as long as
\* the rest of the division lasts.
Assigned(p, n, k) == (Remaining(p) \div n) * k + Least(k, Remaining(p) % n)

LEMMA AssignedSteps ==
  ASSUME NEW p, Schedulable(p), NEW n \in Nat, n > 0
  PROVE  /\ Assigned(p, n, 0) = 0 /\ Assigned(p, n, n) = Remaining(p)
         /\ \A k \in 1 .. n : /\ Assigned(p, n, k - 1) \in Int
                              /\ Assigned(p, n, k) = Assigned(p, n, k - 1) + SliceQty(p, n, k - 1)
<1> DEFINE rem == Remaining(p)
           q == rem \div n
           r == rem % n
<1>1. rem \in Nat
  BY DEF Schedulable, Remaining
<1>2. q \in Int /\ r \in Int /\ 0 <= r /\ r < n /\ rem = q * n + r
  <2> HIDE DEF rem
  <2> QED
    BY <1>1, Quotient
<1>3. \A k : Assigned(p, n, k) = q * k + Least(k, r)
  BY DEF Assigned
<1>4. \A k : SliceQty(p, n, k) = q + (IF k < r THEN 1 ELSE 0)
  BY DEF SliceQty
<1> HIDE DEF q, r
<1>5. Assigned(p, n, 0) = 0
  BY <1>2, <1>3 DEF Least
<1>6. Assigned(p, n, n) = rem
  <2>1. Least(n, r) = r
    BY <1>2 DEF Least
  <2> QED
    BY <1>2, <1>3, <2>1
<1>7. ASSUME NEW k \in 1 .. n
      PROVE  /\ Assigned(p, n, k - 1) \in Int
             /\ Assigned(p, n, k) = Assigned(p, n, k - 1) + SliceQty(p, n, k - 1)
  <2>1. q * k = q * (k - 1) + q /\ q * (k - 1) \in Int
    BY <1>2
  <2>2. Least(k, r) = Least(k - 1, r) + (IF k - 1 < r THEN 1 ELSE 0) /\ Least(k - 1, r) \in Int
    BY <1>2 DEF Least
  <2>3. /\ Assigned(p, n, k - 1) = q * (k - 1) + Least(k - 1, r)
        /\ Assigned(p, n, k) = q * k + Least(k, r)
        /\ SliceQty(p, n, k - 1) = q + (IF k - 1 < r THEN 1 ELSE 0)
    BY <1>3, <1>4
  <2> DEFINE more == IF k - 1 < r THEN 1 ELSE 0
             low == Least(k - 1, r)
             before == q * (k - 1)
  <2>4. more \in Int
    OBVIOUS
  <2> HIDE DEF more, low, before
  <2>5. q * k = before + q /\ before \in Int /\ Least(k, r) = low + more /\ low \in Int
    BY <2>1, <2>2, Zenon DEF more, low, before
  <2>6. /\ Assigned(p, n, k - 1) = before + low
        /\ Assigned(p, n, k) = q * k + Least(k, r)
        /\ SliceQty(p, n, k - 1) = q + more
    BY <2>3, Zenon DEF more, low, before
  <2> QED
    BY <1>2, <2>4, <2>5, <2>6
<1> QED
  BY <1>5, <1>6, <1>7 DEF rem

LEMMA FirstSlice ==
  ASSUME NEW p, Schedulable(p), NEW n \in Nat, n > 0
  PROVE  SliceQty(p, n, 0) > 0
<1> DEFINE rem == Remaining(p)
           q == rem \div n
           r == rem % n
<1>1. rem \in Nat /\ rem > 0
  BY DEF Schedulable, Remaining
<1>2. q \in Nat /\ r \in Int /\ 0 <= r /\ r < n /\ rem = q * n + r
  <2> HIDE DEF rem
  <2>1. q \in Nat
    BY <1>1, QuotientNatural
  <2> QED
    BY <1>1, <2>1, Quotient
<1>3. SliceQty(p, n, 0) = q + (IF 0 < r THEN 1 ELSE 0)
  BY DEF SliceQty
<1> HIDE DEF rem, q, r
<1>4. q = 0 => r > 0
  BY <1>1, <1>2
<1> QED
  BY <1>2, <1>3, <1>4

LEMMA LastChanged ==
  ASSUME NEW out \in Seq(Slot), out # << >>, NEW more \in Nat
  PROVE  LET g == [out EXCEPT ![Len(out)].qty = @ + more]
         IN /\ g \in Seq(Slot) /\ Len(g) = Len(out)
            /\ \A j \in 1 .. Len(out) :
                 /\ g[j].at = out[j].at
                 /\ g[j].qty = IF j = Len(out) THEN out[j].qty + more ELSE out[j].qty
<1> DEFINE l == Len(out)
           g == [out EXCEPT ![l].qty = @ + more]
<1>1. l \in Nat /\ l > 0 /\ DOMAIN out = 1 .. l /\ \A j \in 1 .. l : out[j] \in Slot
  BY LenProperties, ElementOfSeq, EmptySeq
<1>2. DOMAIN g = 1 .. l /\ l \in 1 .. l
  BY <1>1
<1>3. ASSUME NEW j \in 1 .. l
      PROVE  /\ g[j] \in Slot
             /\ g[j].at = out[j].at
             /\ g[j].qty = IF j = l THEN out[j].qty + more ELSE out[j].qty
  <2>1. out[j] \in Slot
    BY <1>1
  <2>2. CASE j = l
    <3>1. g[j] = [out[j] EXCEPT !.qty = @ + more]
      BY <1>1, <1>2, <2>2
    <3> QED
      BY <2>1, <2>2, <3>1 DEF Slot
  <2>3. CASE j # l
    <3>1. g[j] = out[j]
      BY <1>1, <2>3
    <3> QED
      BY <2>1, <2>3, <3>1
  <2> QED
    BY <2>2, <2>3
<1>4. g = [j \in 1 .. l |-> g[j]]
  BY <1>1
<1> HIDE DEF g
<1>5. g \in Seq(Slot) /\ Len(g) = l
  <2>1. g \in [1 .. l -> Slot]
    BY <1>3, <1>4
  <2>2. g \in Seq(Slot)
    BY <1>1, <2>1, SeqDef
  <2>3. DOMAIN g = 1 .. l
    BY <2>1
  <2> QED
    BY <1>1, <2>2, <2>3, LenProperties
<1> HIDE DEF l
<1>6. /\ g \in Seq(Slot) /\ Len(g) = l
      /\ \A j \in 1 .. l : /\ g[j].at = out[j].at
                           /\ g[j].qty = IF j = l THEN out[j].qty + more ELSE out[j].qty
  BY <1>3, <1>5, Zenon
<1> QED
  BY <1>6, Zenon DEF g, l

LEMMA PutTyped ==
  ASSUME NEW p, Schedulable(p), NEW n \in Nat, n > 0, NEW i \in 0 .. n - 1, NEW out \in Seq(Slot)
  PROVE  PutSlice(p, n, out, i) \in Seq(Slot)
<1> DEFINE qty == SliceQty(p, n, i)
           t == SliceTime(p, n, i)
           first == n * PreferredWindows[1][1]
<1>1. qty \in Nat /\ t \in Int /\ first \in Int
  <2>1. SliceQty(p, n, i) \in Nat /\ SliceTime(p, n, i) \in Int
    BY SliceTyped, Zenon
  <2>2. n * (SessionOpen + AvoidOpen) \in Int
    BY SessionMarks
  <2> QED
    BY <2>1, <2>2, FirstPreferred, Zenon
<1> HIDE DEF qty, t, first
<1>2. [at |-> first, qty |-> qty] \in Slot /\ [at |-> t, qty |-> qty] \in Slot
  BY <1>1 DEF Slot
<1>3. /\ << [at |-> first, qty |-> qty] >> \in Seq(Slot)
      /\ Append(out, [at |-> t, qty |-> qty]) \in Seq(Slot)
  BY <1>2, AppendProperties
<1>4. out # << >> => [out EXCEPT ![Len(out)].qty = @ + qty] \in Seq(Slot)
  BY <1>1, LastChanged
<1> QED
  BY <1>3, <1>4, Zenon DEF PutSlice, qty, t, first

\* H[k] is the schedule of the first k slices.
ScheduleTrace(p, n, H) ==
  /\ H \in [0 .. n -> Seq(Slot)] /\ H[0] = << >>
  /\ \A k \in 1 .. n : H[k] = PutSlice(p, n, H[k - 1], k - 1)
  /\ SplitSchedule(p, n) = H[n]

LEMMA ScheduleTraced ==
  ASSUME NEW p, Schedulable(p), NEW n \in Nat, n > 0
  PROVE  \E H : ScheduleTrace(p, n, H)
<1> DEFINE Acc == Seq(Slot)
           none == << >>
           w == [k \in 1 .. n |-> k - 1]
           Put(out, i) == PutSlice(p, n, out, i)
           G == [x \in (1 .. n) \X Acc |-> Put(x[2], w[x[1]])]
           IsIter(g) == g = [t \in SUBSET (1 .. n) |->
             IF t = {} THEN none ELSE Put(g[t \ {Max(t)}], w[Max(t)])]
           iter == CHOOSE g : IsIter(g)
<1>1. DOMAIN w = 1 .. n /\ \A i \in 1 .. n : w[i] = i - 1 /\ w[i] \in 0 .. n - 1
  OBVIOUS
<1>2. SplitSchedule(p, n) = FoldLeft(Put, none, w)
  <2>1. Remaining(p) > 0 /\ Remaining(p) \in Int
    BY DEF Schedulable, Remaining
  <2>2. p.end # NoDeadline /\ p.end > p.start /\ p.end \in Int /\ p.start \in Int
    <3>1. SessionClose \in Nat
      BY RoutingAssumption DEF RoutingAssumption
    <3> QED
      BY <3>1 DEF Schedulable, NoDeadline
  <2>3. ~ (Remaining(p) <= 0) /\ ~ (p.end = NoDeadline \/ p.end <= p.start)
    BY <2>1, <2>2
  <2> QED
    BY <2>3, Zenon DEF SplitSchedule
<1> HIDE DEF w
<1>3. FoldLeft(Put, none, w) = iter[1 .. n]
  <2>1. FoldLeft(Put, none, w) = (CHOOSE g : g = [t \in SUBSET (DOMAIN w) |->
          IF t = {} THEN none ELSE Put(g[t \ {Max(t)}], w[Max(t)])])[DOMAIN w]
    BY Zenon DEF FoldLeft, MapThenFoldSet
  <2> QED
    BY <1>1, <2>1, Zenon
<1>4. none \in Acc
  BY EmptySeq
<1>5. ASSUME NEW out \in Acc, NEW i \in 1 .. n
      PROVE  Put(out, w[i]) \in Acc
  BY <1>1, PutTyped
<1> HIDE DEF none, Acc, Put
<1>6. ASSUME NEW i \in 1 .. n, NEW out \in Acc
      PROVE  G[<<i, out>>] = Put(out, w[i])
  OBVIOUS
<1> HIDE DEF G
<1>7. Keeps(G, 1 .. n, Acc)
  BY <1>5, <1>6, Zenon DEF Keeps
<1>8. IsIter(iter)
  <2>1. PICK g \in [SUBSET (1 .. n) -> Acc] : IsLeftFold(G, none, n, g)
    BY <1>4, <1>7, FoldLeftExists
  <2>2. ASSUME NEW t \in SUBSET (1 .. n)
        PROVE  g[t] = IF t = {} THEN none ELSE Put(g[t \ {Max(t)}], w[Max(t)])
    <3>1. t # {} => Max(t) \in 1 .. n
      BY LargestChosen
    <3>2. g[t \ {Max(t)}] \in Acc
      OBVIOUS
    <3> QED
      BY <1>6, <2>1, <3>1, <3>2 DEF IsLeftFold
  <2>3. IsIter(g)
    BY <2>2
  <2> QED
    BY <2>3
<1> HIDE DEF iter
<1>9. iter[{}] = none
  BY <1>8
<1>10. ASSUME NEW k \in 1 .. n, iter[1 .. k - 1] \in Acc
       PROVE  iter[1 .. k] = G[<<k, iter[1 .. k - 1]>>]
  <2>1. k \in Nat \ {0} /\ 1 .. k \in SUBSET (1 .. n)
    OBVIOUS
  <2>2. iter[1 .. k] = Put(iter[(1 .. k) \ {Max(1 .. k)}], w[Max(1 .. k)])
    BY <1>8, <2>1, LargestOfPrefix
  <2>3. Max(1 .. k) = k /\ (1 .. k) \ {k} = 1 .. k - 1
    BY <2>1, LargestOfPrefix
  <2>4. iter[1 .. k] = Put(iter[1 .. k - 1], w[k])
    BY <2>2, <2>3, Zenon
  <2> QED
    BY <1>6, <1>10, <2>4, Zenon
<1>11. PICK H : IsTrace(G, Acc, none, n, H) /\ H[n] = iter[1 .. n]
  <2>1. StepsOn(G, Acc, n, iter)
    BY <1>10, Zenon DEF StepsOn
  <2> QED
    BY <1>4, <1>7, <1>9, <2>1, FoldLeftTrace
<1>12. ASSUME NEW k \in 1 .. n
       PROVE  H[k] = PutSlice(p, n, H[k - 1], k - 1)
  <2>1. k - 1 \in 0 .. n
    OBVIOUS
  <2>2. H[k - 1] \in Acc /\ H[k] = G[<<k, H[k - 1]>>]
    BY <1>11, <2>1 DEF IsTrace
  <2>3. H[k] = Put(H[k - 1], k - 1)
    BY <1>1, <1>6, <2>2
  <2> QED
    BY <2>3, Zenon DEF Put
<1>13. ScheduleTrace(p, n, H)
  BY <1>2, <1>3, <1>11, <1>12 DEF IsTrace, ScheduleTrace, none, Acc
<1> QED
  BY <1>13

SlotTotal(out) == SumFunction([j \in DOMAIN out |-> out[j].qty])

LEMMA TotalEmpty == SlotTotal(<< >>) = 0
<1> DEFINE f == [j \in DOMAIN << >> |-> << >>[j].qty]
<1>1. DOMAIN f = {}
  OBVIOUS
<1> HIDE DEF f
<1>2. SumFunctionOnSet(f, {}) = 0
  BY SumEmpty
<1> QED
  BY <1>1, <1>2, Zenon DEF SlotTotal, SumFunction, f

LEMMA TotalMeant ==
  ASSUME NEW out \in Seq(Slot)
  PROVE  LET f == [j \in 1 .. Len(out) |-> out[j].qty]
         IN SlotTotal(out) = SumFunctionOnSet(f, 1 .. Len(out))
<1>1. DOMAIN out = 1 .. Len(out)
  BY LenProperties
<1> DEFINE f == [j \in 1 .. Len(out) |-> out[j].qty]
<1>2. SlotTotal(out) = SumFunction(f) /\ DOMAIN f = 1 .. Len(out)
  BY <1>1, Zenon DEF SlotTotal
<1> HIDE DEF f
<1>3. SumFunction(f) = SumFunctionOnSet(f, DOMAIN f)
  BY Zenon DEF SumFunction
<1>4. SlotTotal(out) = SumFunctionOnSet(f, 1 .. Len(out))
  BY <1>2, <1>3, Zenon
<1> QED
  BY <1>4, Zenon DEF f

LEMMA TotalAppended ==
  ASSUME NEW out \in Seq(Slot), NEW slot \in Slot
  PROVE  SlotTotal(out) \in Int /\ SlotTotal(Append(out, slot)) = SlotTotal(out) + slot.qty
<1> DEFINE l == Len(out)
           more == Append(out, slot)
           f == [j \in 1 .. l |-> out[j].qty]
           g == [j \in 1 .. Len(more) |-> more[j].qty]
<1>1. l \in Nat /\ \A j \in 1 .. l : out[j] \in Slot
  BY LenProperties, ElementOfSeq
<1>2. more \in Seq(Slot) /\ Len(more) = l + 1 /\ more[l + 1] = slot
      /\ \A j \in 1 .. l : more[j] = out[j]
  BY AppendProperties
<1>3. SlotTotal(out) = SumFunctionOnSet(f, 1 .. l) /\ SlotTotal(more) = SumFunctionOnSet(g, 1 .. Len(more))
  BY <1>2, TotalMeant, Zenon
<1> HIDE DEF l, more
<1>4. /\ \A j \in 1 .. l : f[j] \in Int /\ g[j] = f[j]
      /\ g[l + 1] = slot.qty /\ slot.qty \in Int
  BY <1>1, <1>2 DEF Slot
<1> HIDE DEF f, g
<1>5. IsFiniteSet(1 .. l) /\ l + 1 \notin 1 .. l /\ 1 .. l + 1 = (1 .. l) \cup {l + 1}
  <2>1. IsFiniteSet(1 .. l)
    BY <1>1, FS_Interval
  <2> QED
    BY <1>1, <2>1
<1>6. SumFunctionOnSet(f, 1 .. l) \in Int /\ SumFunctionOnSet(g, 1 .. l) = SumFunctionOnSet(f, 1 .. l)
  <2>1. \A j \in 1 .. l : f[j] \in Int /\ g[j] = f[j]
    BY <1>4
  <2>2. IsFiniteSet(1 .. l)
    BY <1>5
  <2>3. SumFunctionOnSet(f, 1 .. l) \in Int
    BY <2>1, <2>2, SumInt, Zenon
  <2>4. SumFunctionOnSet(g, 1 .. l) = SumFunctionOnSet(f, 1 .. l)
    BY <2>1, <2>2, SumEqual, Zenon
  <2> QED
    BY <2>3, <2>4
<1>7. SumFunctionOnSet(g, (1 .. l) \cup {l + 1}) = g[l + 1] + SumFunctionOnSet(g, 1 .. l)
  <2>1. \A x \in (1 .. l) \cup {l + 1} : g[x] \in Int
    BY <1>4
  <2> QED
    BY <1>5, <2>1, SumAdd
<1>8. SlotTotal(more) = slot.qty + SlotTotal(out) /\ SlotTotal(out) \in Int
  BY <1>2, <1>3, <1>4, <1>5, <1>6, <1>7, Zenon
<1> QED
  BY <1>4, <1>8 DEF more

LEMMA TotalJoined ==
  ASSUME NEW out \in Seq(Slot), out # << >>, NEW more \in Nat
  PROVE  SlotTotal([out EXCEPT ![Len(out)].qty = @ + more]) = SlotTotal(out) + more
<1> DEFINE l == Len(out)
           new == [out EXCEPT ![Len(out)].qty = @ + more]
           f == [j \in 1 .. l |-> out[j].qty]
           g == [j \in 1 .. Len(new) |-> new[j].qty]
<1>1. l \in Nat /\ l > 0 /\ \A j \in 1 .. l : out[j] \in Slot
  BY LenProperties, ElementOfSeq, EmptySeq
<1>2. new \in Seq(Slot) /\ Len(new) = l
      /\ \A j \in 1 .. l : new[j].qty = IF j = l THEN out[j].qty + more ELSE out[j].qty
  BY LastChanged, Zenon
<1> HIDE DEF new
<1>3. SlotTotal(out) = SumFunctionOnSet(f, 1 .. l) /\ SlotTotal(new) = SumFunctionOnSet(g, 1 .. Len(new))
  BY <1>2, TotalMeant, Zenon
<1> HIDE DEF l
<1>4. /\ \A j \in 1 .. l : f[j] \in Int /\ g[j] \in Int
      /\ \A j \in (1 .. l) \ {l} : f[j] = g[j]
      /\ g[l] = f[l] + more /\ l \in 1 .. l
  <2>1. \A j \in 1 .. l : f[j] = out[j].qty /\ g[j] = new[j].qty
    BY <1>2
  <2>2. \A j \in 1 .. l : out[j].qty \in Nat
    BY <1>1 DEF Slot
  <2>3. \A j \in 1 .. l : g[j] = IF j = l THEN f[j] + more ELSE f[j]
    BY <1>2, <2>1
  <2> HIDE DEF f, g
  <2> QED
    BY <1>1, <2>1, <2>2, <2>3
<1> HIDE DEF f, g
<1>5. /\ SumFunctionOnSet(f, 1 .. l) \in Int
      /\ SumFunctionOnSet(g, 1 .. l) = SumFunctionOnSet(f, 1 .. l) + (g[l] - f[l])
  <2>1. IsFiniteSet(1 .. l)
    BY <1>1, FS_Interval
  <2> QED
    BY <1>4, <2>1, SumChanged
<1> DEFINE before == SumFunctionOnSet(f, 1 .. l)
           after == SumFunctionOnSet(g, 1 .. l)
<1>6. SlotTotal(out) = before /\ SlotTotal(new) = after
  BY <1>2, <1>3, Zenon
<1>7. before \in Int /\ after = before + (g[l] - f[l])
  BY <1>5
<1> HIDE DEF before, after
<1>8. SlotTotal(new) = SlotTotal(out) + more
  BY <1>4, <1>6, <1>7
<1> QED
  BY <1>8 DEF new

WellPlaced(p, n, t) ==
  OutsideWindows(t, n) /\ (t >= n * p.start \/ p.start >= SessionClose - AvoidClose)

\* The slices of a schedule are in time order and well placed, and none is later
\* than a slice still to come.
InOrder(out)       == \A i, j \in 1 .. Len(out) : i <= j => out[i].at <= out[j].at
Filled(p, n, out)  == \A j \in 1 .. Len(out) : out[j].qty > 0 /\ WellPlaced(p, n, out[j].at)
NoneAfter(out, t)  == \A j \in 1 .. Len(out) : out[j].at <= t
Earlier(p, n, out, k) ==
  \A i \in k .. n - 1 : InAvoidWindow(SliceTime(p, n, i), n) \/ NoneAfter(out, SliceTime(p, n, i))

SoFar(p, n, k, out) ==
  /\ out \in Seq(Slot) /\ Len(out) <= k /\ (k > 0 => out # << >>)
  /\ SlotTotal(out) = Assigned(p, n, k)
  /\ InOrder(out) /\ Filled(p, n, out) /\ Earlier(p, n, out, k)

\* A slice outside the avoided windows keeps its own time.
LEMMA OwnTimePlaced ==
  ASSUME NEW p, Schedulable(p), NEW n \in Nat, n > 0, NEW i \in 0 .. n - 1,
         ~ InAvoidWindow(SliceTime(p, n, i), n)
  PROVE  WellPlaced(p, n, SliceTime(p, n, i))
<1> DEFINE t == SliceTime(p, n, i)
           s == n * p.start
<1>1. t \in Int /\ s <= t
  BY SliceTyped, SliceTimes
<1>2. PICK o, a, b, c : Marks(n, o, a, b, c)
  BY DEF Marks
<1>3. o \in Int /\ a \in Int /\ b \in Int /\ c \in Int /\ o <= a /\ a <= b /\ b <= c
  BY <1>2, MarkOrder
<1> HIDE DEF t
<1>4. s \in Int
  BY DEF Schedulable
<1> HIDE DEF s
<1>5. InAvoidWindow(t, n) <=> InsideMarks(t, o, a, b, c)
  BY <1>1, <1>2, WindowsMeant, Zenon
<1>6. OutsideWindows(t, n)
  <2>1. ~ InsideMarks(t, o, a, b, c)
    BY <1>5, Zenon DEF t
  <2>2. BetweenMarks(t, o, a, b, c)
    BY <1>1, <1>3, <2>1 DEF InsideMarks, BetweenMarks
  <2> QED
    BY <1>1, <1>2, <2>2, WindowsMeant, Zenon
<1>7. t >= s
  BY <1>1, <1>4
<1> QED
  BY <1>6, <1>7, Zenon DEF WellPlaced, t, s

\* An order that starts inside a window: its first slice, moved to the first
\* preferred window, is well placed and is not later than any slice outside.
LEMMA FirstMoved ==
  ASSUME NEW p, Schedulable(p), NEW n \in Nat, n > 0, InAvoidWindow(SliceTime(p, n, 0), n),
         NEW t, t = n * PreferredWindows[1][1]
  PROVE  /\ t \in Int /\ WellPlaced(p, n, t)
         /\ \A i \in 0 .. n - 1 :
              InAvoidWindow(SliceTime(p, n, i), n) \/ t <= SliceTime(p, n, i)
<1>1. PICK o, a, b, c : Marks(n, o, a, b, c)
  BY DEF Marks
<1>2. o \in Int /\ a \in Int /\ b \in Int /\ c \in Int /\ o <= a /\ a <= b /\ b <= c
  BY <1>1, MarkOrder
<1>3. t = a
  BY <1>1, FirstPreferred DEF Marks
<1> DEFINE s == n * p.start
<1>4. s \in Int /\ SliceTime(p, n, 0) = s
  <2>1. 0 \in 0 .. n - 1
    OBVIOUS
  <2>2. SliceTime(p, n, 0) = s
    BY <2>1, SliceTimes
  <2> QED
    BY <2>2 DEF Schedulable
<1>5. (o <= s /\ s <= a) \/ (b <= s /\ s <= c)
  <2>1. InAvoidWindow(s, n) <=> InsideMarks(s, o, a, b, c)
    BY <1>1, <1>4, WindowsMeant, Zenon
  <2> QED
    BY <1>4, <2>1, Zenon DEF InsideMarks
<1>6. OutsideWindows(t, n)
  <2>1. BetweenMarks(a, o, a, b, c)
    BY <1>2 DEF BetweenMarks
  <2>2. OutsideWindows(a, n)
    BY <1>1, <1>2, <2>1, WindowsMeant, Zenon
  <2> QED
    BY <1>3, <2>2, Zenon
<1>7. b <= s => p.start >= SessionClose - AvoidClose
  <2> DEFINE late == SessionClose - AvoidClose
  <2>1. late \in Int /\ p.start \in Int /\ b = n * late
    BY <1>1, SessionMarks DEF Marks, Schedulable
  <2>2. CASE p.start < late
    <3>1. p.start + 1 <= late /\ p.start + 1 \in Int
      BY <2>1, <2>2
    <3> HIDE DEF late
    <3>2. (p.start + 1) * n <= late * n
      BY <2>1, <3>1, ProductMonotone
    <3>3. (p.start + 1) * n = n * p.start + n /\ late * n = n * late
      BY <2>1
    <3>4. s < b
      BY <1>2, <1>4, <2>1, <3>2, <3>3
    <3> QED
      BY <1>2, <1>4, <3>4
  <2>3. CASE ~ (p.start < late)
    BY <2>1, <2>3
  <2> QED
    BY <2>2, <2>3
<1> HIDE DEF s
<1>8. WellPlaced(p, n, t)
  <2>1. t >= s \/ p.start >= SessionClose - AvoidClose
    BY <1>2, <1>3, <1>4, <1>5, <1>7
  <2> QED
    BY <1>6, <2>1, Zenon DEF WellPlaced, s
<1>9. ASSUME NEW i \in 0 .. n - 1
      PROVE  InAvoidWindow(SliceTime(p, n, i), n) \/ t <= SliceTime(p, n, i)
  <2> DEFINE u == SliceTime(p, n, i)
  <2>1. u \in Int /\ s <= u /\ u <= c
    <3>1. u \in Int
      BY SliceTyped
    <3>2. s <= u /\ u <= n * SessionClose
      BY SliceTimes DEF s
    <3> QED
      BY <1>1, <3>1, <3>2 DEF Marks
  <2> HIDE DEF u
  <2>2. InsideMarks(u, o, a, b, c) => InAvoidWindow(u, n)
    BY <1>1, <2>1, WindowsMeant, Zenon
  <2>3. InsideMarks(u, o, a, b, c) \/ t <= u
    BY <1>2, <1>3, <1>4, <1>5, <2>1 DEF InsideMarks
  <2> QED
    BY <2>2, <2>3, Zenon DEF u
<1> QED
  BY <1>2, <1>3, <1>8, <1>9

\* A slice put at the end keeps the order when none is later.
LEMMA PutLast ==
  ASSUME NEW p, NEW n, NEW out \in Seq(Slot), NEW slot \in Slot, InOrder(out), Filled(p, n, out),
         NoneAfter(out, slot.at), slot.qty > 0, WellPlaced(p, n, slot.at)
  PROVE  LET new == Append(out, slot)
         IN /\ new \in Seq(Slot) /\ Len(new) = Len(out) + 1 /\ new # << >>
            /\ InOrder(new) /\ Filled(p, n, new)
            /\ \A t \in Int : slot.at <= t => NoneAfter(new, t)
<1> DEFINE l == Len(out)
           new == Append(out, slot)
<1>1. l \in Nat /\ \A j \in 1 .. l : out[j] \in Slot
  BY LenProperties, ElementOfSeq
<1>2. new \in Seq(Slot) /\ Len(new) = l + 1 /\ new[l + 1] = slot
      /\ \A j \in 1 .. l : new[j] = out[j]
  BY AppendProperties
<1>3. \A j \in 1 .. l : out[j].at <= slot.at /\ out[j].at \in Int
  BY <1>1 DEF NoneAfter, Slot
<1>4. slot.at \in Int
  BY DEF Slot
<1> HIDE DEF l, new
<1>5. new # << >>
  BY <1>1, <1>2, EmptySeq
<1>6. \A j \in 1 .. l + 1 : j \in 1 .. l \/ j = l + 1
  BY <1>1
<1>7. InOrder(new)
  <2> SUFFICES ASSUME NEW i \in 1 .. l + 1, NEW j \in 1 .. l + 1, i <= j
               PROVE  new[i].at <= new[j].at
    BY <1>2 DEF InOrder
  <2>1. CASE j \in 1 .. l
    <3>1. i \in 1 .. l
      BY <1>1, <2>1
    <3>2. out[i].at <= out[j].at
      BY <2>1, <3>1 DEF InOrder, l
    <3> QED
      BY <1>2, <2>1, <3>1, <3>2
  <2>2. CASE j = l + 1
    BY <1>2, <1>3, <1>4, <1>6, <2>2
  <2> QED
    BY <1>6, <2>1, <2>2
<1>8. Filled(p, n, new)
  <2>1. \A j \in 1 .. l : out[j].qty > 0 /\ WellPlaced(p, n, out[j].at)
    BY Zenon DEF Filled, l
  <2>2. \A j \in 1 .. l + 1 : new[j].qty > 0 /\ WellPlaced(p, n, new[j].at)
    BY <1>2, <1>6, <2>1, Zenon
  <2> QED
    BY <1>2, <2>2, Zenon DEF Filled
<1>9. ASSUME NEW t \in Int, slot.at <= t
      PROVE  NoneAfter(new, t)
  <2>1. \A j \in 1 .. l + 1 : new[j].at <= t
    BY <1>2, <1>3, <1>4, <1>6, <1>9
  <2> QED
    BY <1>2, <2>1, Zenon DEF NoneAfter
<1> QED
  BY <1>2, <1>5, <1>7, <1>8, <1>9, Zenon DEF new, l

\* Shares that join the last slice move nothing.
LEMMA JoinLast ==
  ASSUME NEW p, NEW n, NEW out \in Seq(Slot), out # << >>, NEW more \in Nat,
         InOrder(out), Filled(p, n, out)
  PROVE  LET new == [out EXCEPT ![Len(out)].qty = @ + more]
         IN /\ new \in Seq(Slot) /\ Len(new) = Len(out) /\ new # << >>
            /\ InOrder(new) /\ Filled(p, n, new)
            /\ \A t : NoneAfter(out, t) => NoneAfter(new, t)
<1> DEFINE l == Len(out)
           new == [out EXCEPT ![Len(out)].qty = @ + more]
<1>1. l \in Nat /\ l > 0 /\ \A j \in 1 .. l : out[j].qty \in Nat
  <2>1. \A j \in 1 .. l : out[j] \in Slot
    BY LenProperties, ElementOfSeq
  <2> QED
    BY <2>1, LenProperties, EmptySeq DEF Slot
<1>2. new \in Seq(Slot) /\ Len(new) = l
      /\ \A j \in 1 .. l : /\ new[j].at = out[j].at
                           /\ new[j].qty = IF j = l THEN out[j].qty + more ELSE out[j].qty
  BY LastChanged, Zenon
<1> HIDE DEF new, l
<1>3. new # << >>
  BY <1>1, <1>2, EmptySeq
<1>4. InOrder(new)
  <2>1. \A i, j \in 1 .. l : i <= j => out[i].at <= out[j].at
    BY Zenon DEF InOrder, l
  <2>2. \A i, j \in 1 .. l : i <= j => new[i].at <= new[j].at
    BY <1>2, <2>1
  <2> QED
    BY <1>2, <2>2, Zenon DEF InOrder
<1>5. Filled(p, n, new)
  <2>1. \A j \in 1 .. l : out[j].qty > 0 /\ WellPlaced(p, n, out[j].at)
    BY Zenon DEF Filled, l
  <2>2. \A j \in 1 .. l : new[j].qty > 0
    BY <1>1, <1>2, <2>1
  <2>3. \A j \in 1 .. l : WellPlaced(p, n, new[j].at)
    BY <1>2, <2>1, Zenon
  <2> QED
    BY <1>2, <2>2, <2>3, Zenon DEF Filled
<1>6. \A t : NoneAfter(out, t) => NoneAfter(new, t)
  BY <1>2, Zenon DEF NoneAfter, l
<1> QED
  BY <1>2, <1>3, <1>4, <1>5, <1>6, Zenon DEF new, l

LEMMA PutKeepsSoFar ==
  ASSUME NEW p, Schedulable(p), NEW n \in Nat, n > 0, NEW k \in 1 .. n,
         NEW out, SoFar(p, n, k - 1, out)
  PROVE  SoFar(p, n, k, PutSlice(p, n, out, k - 1))
<1> DEFINE i == k - 1
           t == SliceTime(p, n, i)
           qty == SliceQty(p, n, i)
           new == PutSlice(p, n, out, i)
           sum == Assigned(p, n, i)
<1>1. i \in 0 .. n - 1 /\ \A j \in k .. n - 1 : j \in 0 .. n - 1 /\ i <= j
  OBVIOUS
<1>2. t \in Int /\ qty \in Nat
  BY <1>1, SliceTyped
<1>3. sum \in Int /\ Assigned(p, n, k) = sum + qty
  BY AssignedSteps
<1>4. /\ out \in Seq(Slot) /\ Len(out) <= i /\ (i > 0 => out # << >>)
      /\ SlotTotal(out) = sum
      /\ InOrder(out) /\ Filled(p, n, out) /\ Earlier(p, n, out, i)
  BY Zenon DEF SoFar
<1>5. Len(out) \in Nat
  BY <1>4, LenProperties
<1>6. \A j \in k .. n - 1 : SliceTime(p, n, j) \in Int /\ t <= SliceTime(p, n, j)
  BY <1>1, SliceTyped, SliceTimes
<1>7. /\ InAvoidWindow(t, n) \/ NoneAfter(out, t)
      /\ \A j \in k .. n - 1 : InAvoidWindow(SliceTime(p, n, j), n) \/ NoneAfter(out, SliceTime(p, n, j))
  <2>1. \A j \in k .. n - 1 : j \in i .. n - 1
    OBVIOUS
  <2>2. i \in i .. n - 1
    OBVIOUS
  <2>3. \A j \in i .. n - 1 : InAvoidWindow(SliceTime(p, n, j), n) \/ NoneAfter(out, SliceTime(p, n, j))
    BY <1>4, Zenon DEF Earlier
  <2> QED
    BY <2>1, <2>2, <2>3, Zenon
<1>8. i = 0 => qty > 0
  BY FirstSlice
<1>9. k > 0 /\ i + 1 = k /\ i \in Int
  OBVIOUS
<1> HIDE DEF i, t, qty, sum
<1>10. CASE InAvoidWindow(t, n) /\ out # << >>
  <2>1. new = [out EXCEPT ![Len(out)].qty = @ + qty]
    BY <1>10, Zenon DEF PutSlice, t, qty
  <2> HIDE DEF new
  <2>2. /\ new \in Seq(Slot) /\ Len(new) = Len(out) /\ new # << >>
        /\ InOrder(new) /\ Filled(p, n, new)
        /\ \A u : NoneAfter(out, u) => NoneAfter(new, u)
    <3> DEFINE joined == [out EXCEPT ![Len(out)].qty = @ + qty]
    <3>1. /\ joined \in Seq(Slot) /\ Len(joined) = Len(out) /\ joined # << >>
          /\ InOrder(joined) /\ Filled(p, n, joined)
          /\ \A u : NoneAfter(out, u) => NoneAfter(joined, u)
      BY <1>2, <1>4, <1>10, JoinLast
    <3> QED
      BY <2>1, <3>1, Zenon
  <2>3. SlotTotal(new) = Assigned(p, n, k)
    <3>1. SlotTotal(new) = SlotTotal(out) + qty
      BY <1>2, <1>4, <1>10, <2>1, TotalJoined, Zenon
    <3> QED
      BY <1>3, <1>4, <3>1, Zenon
  <2>4. Earlier(p, n, new, k)
    BY <1>7, <2>2, Zenon DEF Earlier
  <2>5. Len(new) <= k
    BY <1>4, <1>5, <1>9, <2>2
  <2>6. SoFar(p, n, k, new)
    BY <2>2, <2>3, <2>4, <2>5, Zenon DEF SoFar
  <2> QED
    BY <2>6, Zenon DEF new, i
<1>11. CASE InAvoidWindow(t, n) /\ out = << >>
  <2> DEFINE at == n * PreferredWindows[1][1]
             slot == [at |-> at, qty |-> qty]
  <2>1. new = << slot >>
    BY <1>11, Zenon DEF PutSlice, t, qty
  <2>2. i = 0
    BY <1>1, <1>4, <1>11
  <2>3. /\ at \in Int /\ WellPlaced(p, n, at)
        /\ \A j \in 0 .. n - 1 : InAvoidWindow(SliceTime(p, n, j), n) \/ at <= SliceTime(p, n, j)
    <3>1. InAvoidWindow(SliceTime(p, n, 0), n)
      BY <1>11, <2>2, Zenon DEF t
    <3> QED
      BY <3>1, FirstMoved
  <2> HIDE DEF at
  <2>4. slot \in Slot /\ slot.at = at /\ slot.qty = qty /\ qty > 0
    BY <1>2, <1>8, <2>2, <2>3 DEF Slot
  <2> HIDE DEF slot, new
  <2>5. new = Append(out, slot)
    BY <1>11, <2>1
  <2>6. NoneAfter(out, slot.at)
    BY <1>11 DEF NoneAfter
  <2>7. WellPlaced(p, n, slot.at) /\ slot.qty > 0
    BY <2>3, <2>4, Zenon
  <2>8. /\ new \in Seq(Slot) /\ Len(new) = Len(out) + 1 /\ new # << >>
        /\ InOrder(new) /\ Filled(p, n, new)
        /\ \A u \in Int : slot.at <= u => NoneAfter(new, u)
    BY <1>4, <2>4, <2>5, <2>6, <2>7, PutLast, Zenon
  <2>9. SlotTotal(new) = Assigned(p, n, k)
    <3>1. SlotTotal(new) = SlotTotal(out) + slot.qty
      BY <1>4, <2>4, <2>5, TotalAppended, Zenon
    <3> QED
      BY <1>3, <1>4, <2>4, <3>1, Zenon
  <2>10. Earlier(p, n, new, k)
    <3> SUFFICES ASSUME NEW j \in k .. n - 1
                 PROVE  InAvoidWindow(SliceTime(p, n, j), n) \/ NoneAfter(new, SliceTime(p, n, j))
      BY Zenon DEF Earlier
    <3>1. j \in 0 .. n - 1 /\ SliceTime(p, n, j) \in Int
      BY <1>1, <1>6
    <3>2. InAvoidWindow(SliceTime(p, n, j), n) \/ slot.at <= SliceTime(p, n, j)
      BY <2>3, <2>4, <3>1, Zenon
    <3> QED
      BY <2>8, <3>1, <3>2, Zenon
  <2>11. Len(new) <= k
    BY <1>4, <1>5, <1>9, <2>8
  <2>12. SoFar(p, n, k, new)
    BY <2>8, <2>9, <2>10, <2>11, Zenon DEF SoFar
  <2> QED
    BY <2>12, Zenon DEF new, i
<1>12. CASE ~ InAvoidWindow(t, n) /\ qty > 0
  <2> DEFINE slot == [at |-> t, qty |-> qty]
  <2>1. new = Append(out, slot)
    BY <1>12, Zenon DEF PutSlice, t, qty
  <2>2. slot \in Slot /\ slot.at = t /\ slot.qty = qty
    BY <1>2 DEF Slot
  <2> HIDE DEF slot, new
  <2>3. NoneAfter(out, slot.at) /\ slot.qty > 0 /\ WellPlaced(p, n, slot.at)
    <3>1. WellPlaced(p, n, t)
      BY <1>1, <1>12, OwnTimePlaced, Zenon DEF t
    <3> QED
      BY <1>7, <1>12, <2>2, <3>1, Zenon
  <2>4. /\ new \in Seq(Slot) /\ Len(new) = Len(out) + 1 /\ new # << >>
        /\ InOrder(new) /\ Filled(p, n, new)
        /\ \A u \in Int : slot.at <= u => NoneAfter(new, u)
    BY <1>4, <2>1, <2>2, <2>3, PutLast, Zenon
  <2>5. SlotTotal(new) = Assigned(p, n, k)
    <3>1. SlotTotal(new) = SlotTotal(out) + slot.qty
      BY <1>4, <2>1, <2>2, TotalAppended, Zenon
    <3> QED
      BY <1>3, <1>4, <2>2, <3>1, Zenon
  <2>6. Earlier(p, n, new, k)
    <3>1. \A j \in k .. n - 1 : NoneAfter(new, SliceTime(p, n, j))
      BY <1>6, <2>2, <2>4, Zenon
    <3> QED
      BY <3>1, Zenon DEF Earlier
  <2>7. Len(new) <= k
    BY <1>4, <1>5, <1>9, <2>4
  <2>8. SoFar(p, n, k, new)
    BY <2>4, <2>5, <2>6, <2>7, Zenon DEF SoFar
  <2> QED
    BY <2>8, Zenon DEF new, i
<1>13. CASE ~ InAvoidWindow(t, n) /\ ~ (qty > 0)
  <2>1. new = out
    BY <1>13, Zenon DEF PutSlice, t, qty
  <2>2. qty = 0 /\ i > 0
    BY <1>1, <1>2, <1>8, <1>13
  <2> HIDE DEF new
  <2>3. SlotTotal(new) = Assigned(p, n, k)
    BY <1>3, <1>4, <2>1, <2>2
  <2>4. Earlier(p, n, new, k)
    BY <1>7, <2>1, Zenon DEF Earlier
  <2>5. Len(new) <= k
    BY <1>4, <1>5, <1>9, <2>1
  <2>6. SoFar(p, n, k, new)
    BY <1>4, <2>1, <2>2, <2>3, <2>4, <2>5, Zenon DEF SoFar
  <2> QED
    BY <2>6, Zenon DEF new, i
<1> QED
  BY <1>10, <1>11, <1>12, <1>13, Zenon

\* With shares left and time before the close, the schedule is the last of the
\* trace.
LEMMA SlicesHold ==
  ASSUME NEW p, Schedulable(p), NEW n \in Nat, n > 0
  PROVE  ScheduleHolds(p, n)
<1>1. PICK H : ScheduleTrace(p, n, H)
  BY ScheduleTraced
<1> DEFINE Good == {k \in 0 .. n : SoFar(p, n, k, H[k])}
<1>2. 0 \in Good
  <2>1. H[0] = << >> /\ Assigned(p, n, 0) = 0
    BY <1>1, AssignedSteps DEF ScheduleTrace
  <2>2. << >> \in Seq(Slot) /\ Len(<< >>) = 0 /\ SlotTotal(<< >>) = 0
    BY EmptySeq, TotalEmpty
  <2>3. InOrder(<< >>) /\ Filled(p, n, << >>) /\ Earlier(p, n, << >>, 0)
    <3>1. 1 .. Len(<< >>) = {}
      BY <2>2
    <3> QED
      BY <3>1, Zenon DEF InOrder, Filled, Earlier, NoneAfter
  <2>4. SoFar(p, n, 0, << >>)
    BY <2>1, <2>2, <2>3 DEF SoFar
  <2> QED
    BY <2>1, <2>4
<1>3. ASSUME NEW k \in 1 .. n, k - 1 \in Good
      PROVE  k \in Good
  <2>1. SoFar(p, n, k - 1, H[k - 1]) /\ H[k] = PutSlice(p, n, H[k - 1], k - 1)
    BY <1>1, <1>3 DEF ScheduleTrace
  <2>2. SoFar(p, n, k, PutSlice(p, n, H[k - 1], k - 1))
    BY <2>1, PutKeepsSoFar, Zenon
  <2> QED
    BY <2>1, <2>2
<1> HIDE DEF Good
<1>4. \A k \in 0 .. n : k \in Good
  BY <1>2, <1>3, UpTo
<1> DEFINE slices == SplitSchedule(p, n)
<1>5. SoFar(p, n, n, slices)
  <2>1. n \in 0 .. n
    OBVIOUS
  <2>2. n \in Good /\ slices = H[n]
    BY <1>1, <1>4, <2>1, Zenon DEF ScheduleTrace
  <2> QED
    BY <2>2 DEF Good
<1> HIDE DEF slices
<1>6. /\ slices \in Seq(Slot) /\ Len(slices) <= n /\ SlotTotal(slices) = Remaining(p)
      /\ InOrder(slices) /\ Filled(p, n, slices)
  <2>1. Assigned(p, n, n) = Remaining(p)
    BY AssignedSteps
  <2> QED
    BY <1>5, <2>1, Zenon DEF SoFar
<1>7. DOMAIN slices = 1 .. Len(slices)
  BY <1>6, LenProperties
<1>8. SumFunction([j \in DOMAIN slices |-> slices[j].qty]) = Remaining(p)
  BY <1>6, Zenon DEF SlotTotal
<1>9. \A i, j \in DOMAIN slices : i <= j => slices[i].at <= slices[j].at
  BY <1>6, <1>7, Zenon DEF InOrder
<1>10. \A i \in DOMAIN slices :
         /\ slices[i].qty > 0 /\ OutsideWindows(slices[i].at, n)
         /\ slices[i].at >= n * p.start \/ p.start >= SessionClose - AvoidClose
  BY <1>6, <1>7, Zenon DEF Filled, WellPlaced
<1> QED
  BY <1>6, <1>8, <1>9, <1>10, Zenon DEF ScheduleHolds, slices

LEMMA NothingToSchedule ==
  ASSUME NEW p, NEW n \in Nat, Remaining(p) = 0
  PROVE  ScheduleHolds(p, n)
<1>1. SplitSchedule(p, n) = << >>
  BY DEF SplitSchedule
<1>2. DOMAIN << >> = {} /\ Len(<< >>) = 0
  OBVIOUS
<1>3. SumFunction([j \in DOMAIN << >> |-> << >>[j].qty]) = 0
  BY TotalEmpty, Zenon DEF SlotTotal
<1> QED
  BY <1>1, <1>2, <1>3 DEF ScheduleHolds

\* An order made after the close, all in one slice at its start.
LEMMA ScheduledLate ==
  ASSUME NEW p, Remaining(p) \in Nat, Remaining(p) > 0, p.start \in Int, p.end = SessionClose,
         p.end <= p.start, NEW n \in Nat, n > 0
  PROVE  ScheduleHolds(p, n)
<1> DEFINE slot == [at |-> n * p.start, qty |-> Remaining(p)]
<1>1. SplitSchedule(p, n) = << slot >>
  BY DEF SplitSchedule
<1>2. slot \in Slot /\ slot.at = n * p.start /\ slot.qty = Remaining(p)
  BY DEF Slot
<1> HIDE DEF slot
<1>3. << slot >> = Append(<< >>, slot) /\ << >> \in Seq(Slot)
  BY EmptySeq
<1>4. SlotTotal(<< slot >>) = Remaining(p)
  <2>1. SlotTotal(Append(<< >>, slot)) = SlotTotal(<< >>) + slot.qty
    BY <1>2, <1>3, TotalAppended, Zenon
  <2> QED
    BY <1>2, <1>3, <2>1, TotalEmpty
<1>5. DOMAIN << slot >> = {1} /\ Len(<< slot >>) = 1 /\ << slot >>[1] = slot
  OBVIOUS
<1>6. OutsideWindows(slot.at, n)
  <2>1. PICK o, a, b, c : Marks(n, o, a, b, c)
    BY DEF Marks
  <2>2. o \in Int /\ a \in Int /\ b \in Int /\ c \in Int /\ o <= a /\ a <= b /\ b <= c
    BY <2>1, MarkOrder
  <2> DEFINE s == n * p.start
  <2>3. s \in Int /\ slot.at = s
    BY <1>2
  <2>4. c <= s
    <3>1. SessionClose \in Int /\ SessionClose <= p.start
      BY SessionMarks
    <3>2. SessionClose * n <= p.start * n
      BY <3>1, ProductMonotone
    <3>3. SessionClose * n = c /\ p.start * n = s
      BY <2>1, <3>1 DEF Marks
    <3> QED
      BY <3>2, <3>3
  <2> HIDE DEF s
  <2>5. BetweenMarks(s, o, a, b, c)
    BY <2>2, <2>3, <2>4 DEF BetweenMarks
  <2> QED
    BY <2>1, <2>3, <2>5, WindowsMeant, Zenon
<1>7. slot.at >= n * p.start
  BY <1>2
<1> DEFINE slices == SplitSchedule(p, n)
<1>8. /\ slices = << slot >> /\ DOMAIN slices = {1} /\ Len(slices) = 1 /\ slices[1] = slot
      /\ SumFunction([j \in DOMAIN slices |-> slices[j].qty]) = Remaining(p)
  BY <1>1, <1>4, <1>5, Zenon DEF SlotTotal
<1> HIDE DEF slices
<1>9. \A i \in DOMAIN slices : i = 1 /\ slices[i] = slot
  BY <1>8
<1>10. \A i, j \in DOMAIN slices : i <= j => slices[i].at <= slices[j].at
  <2>1. slot.at <= slot.at
    BY <1>2
  <2> QED
    BY <1>9, <2>1, Zenon
<1>11. \A i \in DOMAIN slices :
         /\ slices[i].qty > 0 /\ OutsideWindows(slices[i].at, n)
         /\ slices[i].at >= n * p.start \/ p.start >= SessionClose - AvoidClose
  <2>1. slot.qty > 0
    BY <1>2
  <2> QED
    BY <1>6, <1>7, <1>9, <2>1, Zenon
<1>12. Len(slices) <= n
  BY <1>8
<1> QED
  BY <1>8, <1>10, <1>11, <1>12, Zenon DEF ScheduleHolds, slices

\* Splitting a parent order that ends with the session into any number of slices
\* moves every remaining share into some slice, in time order and outside the
\* avoided windows, wherever in the session or out of it the order starts.
\* (OrderScheduler.split_schedule)
THEOREM ScheduleIsWhole ==
  ASSUME NEW p, p.qty \in Int, p.filled \in Int, p.filled <= p.qty,
         p.start \in Int, p.end = SessionClose, NEW n \in Nat, n > 0
  PROVE  ScheduleHolds(p, n)
<1>1. Remaining(p) \in Nat
  BY DEF Remaining
<1>2. CASE Remaining(p) = 0
  BY <1>2, NothingToSchedule
<1>3. CASE Remaining(p) > 0 /\ p.end <= p.start
  BY <1>1, <1>3, ScheduledLate
<1>4. CASE Remaining(p) > 0 /\ ~ (p.end <= p.start)
  <2>1. Schedulable(p)
    BY <1>4, SessionMarks DEF Schedulable, Remaining
  <2> QED
    BY <2>1, SlicesHold
<1> QED
  BY <1>1, <1>2, <1>3, <1>4

\* Whatever the run does, a schedule moves every remaining share.
\* (OrderScheduler.split_schedule)
THEOREM ScheduleAlwaysComplete == Spec => []ScheduleIsComplete
<1>1. ASSUME NEW p \in ToSchedule, NEW n \in 1 .. 5
      PROVE  ScheduleHolds(p, n)
  <2>1. PICK q \in 1 .. 7, f \in 0 .. 1, t \in {0, 3, 20, 49, 52} :
           p = [qty |-> q, filled |-> f, start |-> t, end |-> SessionClose]
    BY DEF ToSchedule
  <2>2. /\ p.qty \in Int /\ p.filled \in Int /\ p.filled <= p.qty
        /\ p.start \in Int /\ p.end = SessionClose
    BY <2>1
  <2> QED
    BY <2>2, ScheduleIsWhole
<1>2. ScheduleIsComplete
  BY <1>1, Zenon DEF ScheduleIsComplete
<1> QED
  BY <1>2, PTL
=============================================================================
