-------------------------- MODULE AccountingProofs --------------------------
(***************************************************************************)
(* Proofs about Accounting, for any symbols, prices, quantities and fees   *)
(* and any number of fills.                                                *)
(***************************************************************************)
EXTENDS Accounting, SequenceTheorems, DataTheorems

-----------------------------------------------------------------------------
(* Sums of sequences *)

LEMMA SumTrace ==
  ASSUME NEW seq \in Seq(Int)
  PROVE  \E H \in [0 .. Len(seq) -> Int] :
           /\ H[0] = 0
           /\ \A k \in 1 .. Len(seq) : H[k] = H[k - 1] + seq[k]
           /\ SumOf(seq) = H[Len(seq)]
<1>1. SumOf(seq) = Started(0, seq)
  BY Zenon DEF SumOf, Started
<1>2. 0 \in Int
  OBVIOUS
<1> QED
  BY <1>1, <1>2, StartedTrace

\* The trace of a sequence is the trace of its prefixes.
LEMMA SumOfAppend ==
  ASSUME NEW seq \in Seq(Int), NEW x \in Int
  PROVE  SumOf(seq) \in Int /\ SumOf(Append(seq, x)) = SumOf(seq) + x
<1> DEFINE n == Len(seq)
           longer == Append(seq, x)
<1>1. /\ n \in Nat /\ longer \in Seq(Int) /\ Len(longer) = n + 1
      /\ longer[n + 1] = x /\ \A i \in 1 .. n : longer[i] = seq[i] /\ seq[i] \in Int
  BY AppendProperties, LenProperties, ElementOfSeq
<1>2. PICK H \in [0 .. n -> Int] :
        H[0] = 0 /\ (\A k \in 1 .. n : H[k] = H[k - 1] + seq[k]) /\ SumOf(seq) = H[n]
  BY SumTrace
<1>3. PICK K \in [0 .. n + 1 -> Int] :
        /\ K[0] = 0 /\ (\A k \in 1 .. n + 1 : K[k] = K[k - 1] + longer[k])
        /\ SumOf(longer) = K[n + 1]
  <2> HIDE DEF longer
  <2> QED
    BY <1>1, SumTrace
<1> HIDE DEF n, longer
<1>4. \A k \in 0 .. n : K[k] = H[k]
  <2> DEFINE Good == {k \in 0 .. n : K[k] = H[k]}
  <2>1. 0 \in Good
    BY <1>1, <1>2, <1>3
  <2>2. ASSUME NEW k \in 1 .. n, k - 1 \in Good
        PROVE  k \in Good
    <3>1. k \in 1 .. n + 1 /\ k \in 0 .. n
      BY <1>1
    <3>2. K[k] = K[k - 1] + longer[k] /\ H[k] = H[k - 1] + seq[k] /\ longer[k] = seq[k]
      BY <1>1, <1>2, <1>3, <3>1
    <3>3. K[k - 1] = H[k - 1]
      BY <2>2
    <3> QED
      BY <3>1, <3>2, <3>3
  <2> HIDE DEF Good
  <2>3. \A k \in 0 .. n : k \in Good
    BY <1>1, <2>1, <2>2, UpTo
  <2> QED
    BY <2>3 DEF Good
<1>5. K[n + 1] = K[n] + x /\ n \in 0 .. n
  <2>1. n + 1 \in 1 .. n + 1 /\ (n + 1) - 1 = n /\ n \in 0 .. n
    BY <1>1
  <2>2. K[n + 1] = K[(n + 1) - 1] + longer[n + 1]
    BY <1>3, <2>1
  <2> QED
    BY <1>1, <2>1, <2>2
<1> QED
  BY <1>2, <1>3, <1>4, <1>5 DEF longer

LEMMA SumOfEmpty ==
  SumOf(<< >>) = 0
<1>1. << >> \in Seq(Int) /\ Len(<< >>) = 0
  BY EmptySeq
<1> QED
  BY <1>1, SumTrace

-----------------------------------------------------------------------------
(* Lots *)

Quantities(lots) == [i \in DOMAIN lots |-> lots[i].qty]
Costs(lots)      == [i \in DOMAIN lots |-> lots[i].price * lots[i].qty]

LEMMA LotTyped ==
  ASSUME NEW lot \in Lot
  PROVE  /\ lot.qty \in Nat \ {0} /\ lot.price \in Price /\ lot.price \in Nat
         /\ lot.price * lot.qty \in Int
<1>1. lot.qty \in Nat \ {0} /\ lot.price \in Price /\ lot.price \in Nat
  BY AccountingAssumption DEF Lot
<1> QED
  BY <1>1

LEMMA LotsMapped ==
  ASSUME NEW lots \in Seq(Lot)
  PROVE  /\ Len(lots) \in Nat /\ DOMAIN lots = 1 .. Len(lots)
         /\ \A i \in 1 .. Len(lots) : lots[i] \in Lot
         /\ Quantities(lots) \in Seq(Int) /\ Len(Quantities(lots)) = Len(lots)
         /\ Costs(lots) \in Seq(Int) /\ Len(Costs(lots)) = Len(lots)
         /\ SharesHeld(lots) = SumOf(Quantities(lots)) /\ CostOf(lots) = SumOf(Costs(lots))
<1>1. Len(lots) \in Nat /\ DOMAIN lots = 1 .. Len(lots) /\ \A i \in 1 .. Len(lots) : lots[i] \in Lot
  BY LenProperties, ElementOfSeq
<1>2. \A i \in 1 .. Len(lots) : lots[i].qty \in Int /\ lots[i].price * lots[i].qty \in Int
  BY <1>1, LotTyped
<1>3. Quantities(lots) \in Seq(Int) /\ Len(Quantities(lots)) = Len(lots)
  BY <1>1, <1>2, IsASeq DEF Quantities
<1>4. Costs(lots) \in Seq(Int) /\ Len(Costs(lots)) = Len(lots)
  <2> DEFINE cost(i) == lots[i].price * lots[i].qty
  <2>1. Costs(lots) = [i \in 1 .. Len(lots) |-> cost(i)] /\ \A i \in 1 .. Len(lots) : cost(i) \in Int
    BY <1>1, <1>2 DEF Costs
  <2> HIDE DEF cost
  <2> QED
    BY <1>1, <2>1, IsASeq
<1>5. SharesHeld(lots) = SumOf(Quantities(lots)) /\ CostOf(lots) = SumOf(Costs(lots))
  BY DEF SharesHeld, CostOf, Quantities, Costs
<1> QED
  BY <1>1, <1>3, <1>4, <1>5

\* A lot more is its shares and its cost more.
LEMMA LotAdded ==
  ASSUME NEW lots \in Seq(Lot), NEW lot \in Lot
  PROVE  /\ Append(lots, lot) \in Seq(Lot)
         /\ SharesHeld(lots) \in Int /\ CostOf(lots) \in Int
         /\ SharesHeld(Append(lots, lot)) = SharesHeld(lots) + lot.qty
         /\ CostOf(Append(lots, lot)) = CostOf(lots) + lot.price * lot.qty
<1> DEFINE n == Len(lots)
           longer == Append(lots, lot)
           cost == lot.price * lot.qty
<1>1. /\ longer \in Seq(Lot) /\ Len(longer) = n + 1 /\ longer[n + 1] = lot
      /\ \A i \in 1 .. n : longer[i] = lots[i]
  BY AppendProperties
<1>2. lot.qty \in Int /\ cost \in Int
  BY LotTyped
<1> HIDE DEF longer
<1>3. Quantities(longer) = Append(Quantities(lots), lot.qty)
  <2>1. /\ Append(Quantities(lots), lot.qty) \in Seq(Int)
        /\ Len(Append(Quantities(lots), lot.qty)) = n + 1
        /\ Append(Quantities(lots), lot.qty)[n + 1] = lot.qty
        /\ \A i \in 1 .. n : Append(Quantities(lots), lot.qty)[i] = Quantities(lots)[i]
    BY <1>2, LotsMapped, AppendProperties
  <2>2. Quantities(longer) \in Seq(Int) /\ Len(Quantities(longer)) = n + 1
    BY <1>1, LotsMapped
  <2>3. ASSUME NEW i \in 1 .. n + 1
        PROVE  Quantities(longer)[i] = Append(Quantities(lots), lot.qty)[i]
    <3>1. Quantities(longer)[i] = longer[i].qty
      BY <1>1, LotsMapped DEF Quantities
    <3>2. CASE i = n + 1
      BY <1>1, <2>1, <3>1, <3>2
    <3>3. CASE i # n + 1
      <4>1. i \in 1 .. n
        BY <3>3, LotsMapped
      <4>2. Quantities(lots)[i] = lots[i].qty
        BY <4>1, LotsMapped DEF Quantities
      <4> QED
        BY <1>1, <2>1, <3>1, <4>1, <4>2
    <3> QED
      BY <3>2, <3>3
  <2> QED
    BY <2>1, <2>2, <2>3, SeqEqual
<1>4. Costs(longer) = Append(Costs(lots), cost)
  <2>1. /\ Append(Costs(lots), cost) \in Seq(Int)
        /\ Len(Append(Costs(lots), cost)) = n + 1
        /\ Append(Costs(lots), cost)[n + 1] = cost
        /\ \A i \in 1 .. n : Append(Costs(lots), cost)[i] = Costs(lots)[i]
    <3> HIDE DEF cost
    <3> QED
      BY <1>2, LotsMapped, AppendProperties
  <2>2. Costs(longer) \in Seq(Int) /\ Len(Costs(longer)) = n + 1
    BY <1>1, LotsMapped
  <2>3. ASSUME NEW i \in 1 .. n + 1
        PROVE  Costs(longer)[i] = Append(Costs(lots), cost)[i]
    <3>1. Costs(longer)[i] = longer[i].price * longer[i].qty
      BY <1>1, LotsMapped DEF Costs
    <3>2. CASE i = n + 1
      BY <1>1, <2>1, <3>1, <3>2
    <3>3. CASE i # n + 1
      <4>1. i \in 1 .. n
        BY <3>3, LotsMapped
      <4>2. Costs(lots)[i] = lots[i].price * lots[i].qty
        BY <4>1, LotsMapped DEF Costs
      <4> QED
        BY <1>1, <2>1, <3>1, <4>1, <4>2
    <3> QED
      BY <3>2, <3>3
  <2> QED
    BY <2>1, <2>2, <2>3, SeqEqual
<1>5. /\ SumOf(Quantities(lots)) \in Int
      /\ SumOf(Append(Quantities(lots), lot.qty)) = SumOf(Quantities(lots)) + lot.qty
  BY <1>2, LotsMapped, SumOfAppend
<1>6. SumOf(Costs(lots)) \in Int /\ SumOf(Append(Costs(lots), cost)) = SumOf(Costs(lots)) + cost
  <2> HIDE DEF cost
  <2> QED
    BY <1>2, LotsMapped, SumOfAppend
<1>7. /\ SharesHeld(lots) = SumOf(Quantities(lots)) /\ CostOf(lots) = SumOf(Costs(lots))
      /\ SharesHeld(longer) = SumOf(Quantities(longer)) /\ CostOf(longer) = SumOf(Costs(longer))
  BY <1>1, LotsMapped
<1> HIDE DEF cost
<1>8. /\ longer \in Seq(Lot) /\ SharesHeld(lots) \in Int /\ CostOf(lots) \in Int
      /\ SharesHeld(longer) = SharesHeld(lots) + lot.qty
      /\ CostOf(longer) = CostOf(lots) + cost
  BY <1>1, <1>3, <1>4, <1>5, <1>6, <1>7
<1> QED
  BY <1>8 DEF longer, cost

LEMMA NoLots ==
  SharesHeld(<< >>) = 0 /\ CostOf(<< >>) = 0
<1>1. Quantities(<< >>) = << >> /\ Costs(<< >>) = << >>
  BY DEF Quantities, Costs
<1>2. << >> \in Seq(Lot)
  OBVIOUS
<1> QED
  BY <1>1, <1>2, LotsMapped, SumOfEmpty, Zenon

\* Along a queue: the shares and the cost of its first lots.
LEMMA LotsTrace ==
  ASSUME NEW lots \in Seq(Lot)
  PROVE  \E Q \in [0 .. Len(lots) -> Int], C \in [0 .. Len(lots) -> Int] :
           /\ Q[0] = 0 /\ C[0] = 0
           /\ \A k \in 1 .. Len(lots) : /\ Q[k] = Q[k - 1] + lots[k].qty
                                        /\ C[k] = C[k - 1] + lots[k].price * lots[k].qty
           /\ SharesHeld(lots) = Q[Len(lots)] /\ CostOf(lots) = C[Len(lots)]
<1>1. PICK Q \in [0 .. Len(lots) -> Int] :
        /\ Q[0] = 0 /\ \A k \in 1 .. Len(lots) : Q[k] = Q[k - 1] + Quantities(lots)[k]
        /\ SumOf(Quantities(lots)) = Q[Len(lots)]
  <2>1. Quantities(lots) \in Seq(Int) /\ Len(Quantities(lots)) = Len(lots)
    BY LotsMapped
  <2> QED
    BY <2>1, SumTrace
<1>2. PICK C \in [0 .. Len(lots) -> Int] :
        /\ C[0] = 0 /\ \A k \in 1 .. Len(lots) : C[k] = C[k - 1] + Costs(lots)[k]
        /\ SumOf(Costs(lots)) = C[Len(lots)]
  <2>1. Costs(lots) \in Seq(Int) /\ Len(Costs(lots)) = Len(lots)
    BY LotsMapped
  <2> QED
    BY <2>1, SumTrace
<1>3. \A k \in 1 .. Len(lots) : /\ Quantities(lots)[k] = lots[k].qty
                                /\ Costs(lots)[k] = lots[k].price * lots[k].qty
  BY LotsMapped DEF Quantities, Costs
<1>4. SharesHeld(lots) = Q[Len(lots)] /\ CostOf(lots) = C[Len(lots)]
  BY <1>1, <1>2, LotsMapped
<1>5. \A k \in 1 .. Len(lots) : /\ Q[k] = Q[k - 1] + lots[k].qty
                                /\ C[k] = C[k - 1] + lots[k].price * lots[k].qty
  BY <1>1, <1>2, <1>3
<1> QED
  BY <1>1, <1>2, <1>4, <1>5

\* A queue holds no shares only when it is empty.
LEMMA SharesPositive ==
  ASSUME NEW lots \in Seq(Lot)
  PROVE  /\ SharesHeld(lots) \in Nat /\ CostOf(lots) \in Int
         /\ SharesHeld(lots) = 0 <=> lots = << >>
<1> DEFINE n == Len(lots)
<1>1. n \in Nat /\ (n = 0 <=> lots = << >>) /\ \A i \in 1 .. n : lots[i].qty \in Nat \ {0}
  BY LotsMapped, LotTyped, EmptySeq
<1>2. PICK Q \in [0 .. n -> Int], C \in [0 .. n -> Int] :
        /\ Q[0] = 0 /\ \A k \in 1 .. n : Q[k] = Q[k - 1] + lots[k].qty
        /\ SharesHeld(lots) = Q[n] /\ CostOf(lots) = C[n]
  BY LotsTrace
<1> HIDE DEF n
<1>3. \A k \in 0 .. n : Q[k] >= k
  <2> DEFINE Good == {k \in 0 .. n : Q[k] >= k}
  <2>1. 0 \in Good
    BY <1>1, <1>2
  <2>2. ASSUME NEW k \in 1 .. n, k - 1 \in Good
        PROVE  k \in Good
    <3>1. k \in 0 .. n /\ k - 1 \in 0 .. n /\ Q[k - 1] >= k - 1
      BY <1>1, <2>2
    <3>2. Q[k] = Q[k - 1] + lots[k].qty /\ lots[k].qty \in Nat \ {0} /\ Q[k - 1] \in Int
      BY <1>1, <1>2, <3>1
    <3> QED
      BY <3>1, <3>2
  <2> HIDE DEF Good
  <2>3. \A k \in 0 .. n : k \in Good
    BY <1>1, <2>1, <2>2, UpTo
  <2> QED
    BY <2>3 DEF Good
<1>4. n \in 0 .. n /\ Q[n] \in Int /\ C[n] \in Int /\ Q[n] >= n
  BY <1>1, <1>3
<1> QED
  BY <1>1, <1>2, <1>4, NoLots

-----------------------------------------------------------------------------
(* The matching loop *)

Acc == [left : Nat, profit : Int, queue : Seq(Lot)]

\* One turn of the loop takes the served shares out of the queue at what they
\* cost, and leaves shares to serve only when everything before is sold.
Turn(m, next, lot, price, sign) ==
  /\ next \in Acc /\ next.left <= m.left
  /\ SharesHeld(next.queue) = SharesHeld(m.queue) + lot.qty - (m.left - next.left)
  /\ next.profit = m.profit + sign * ((m.left - next.left) * price
                     - (CostOf(m.queue) + lot.price * lot.qty - CostOf(next.queue)))
  /\ (m.left > 0 => m.queue = << >>) => (next.left > 0 => next.queue = << >>)

LEMMA Served ==
  ASSUME NEW m \in Acc, NEW lot \in Lot, NEW price \in Int, NEW sign \in {1, -1}, NEW next,
         next = Serve(m, lot, price, sign)
  PROVE  Turn(m, next, lot, price, sign)
<1> DEFINE matched == Smaller(m.left, lot.qty)
           rest    == [lot EXCEPT !.qty = @ - matched]
<1>1. /\ next.left = m.left - matched
      /\ next.profit = m.profit + sign * matched * (price - lot.price)
      /\ next.queue = IF matched = lot.qty THEN m.queue ELSE Append(m.queue, rest)
      /\ next = [left |-> next.left, profit |-> next.profit, queue |-> next.queue]
  BY Zenon DEF Serve
<1>2. /\ m.left \in Nat /\ m.profit \in Int /\ m.queue \in Seq(Lot)
      /\ lot.qty \in Nat \ {0} /\ lot.price \in Price /\ lot.price \in Nat
  BY LotTyped DEF Acc
<1>3. matched \in Nat /\ matched <= m.left /\ matched <= lot.qty
      /\ (matched = m.left \/ matched = lot.qty)
  BY <1>2 DEF Smaller
<1>4. SharesHeld(m.queue) \in Int /\ CostOf(m.queue) \in Int
  BY <1>2, SharesPositive
<1>5. matched # lot.qty =>
        /\ rest \in Lot /\ rest.qty = lot.qty - matched /\ rest.price = lot.price
  BY <1>2, <1>3 DEF Lot
<1> HIDE DEF rest, matched
<1> DEFINE shares == SharesHeld(m.queue)
           cost   == CostOf(m.queue)
           paid   == lot.price
           qty    == lot.qty
<1>6. /\ next.left \in Nat /\ next.left = m.left - matched /\ next.left <= m.left
      /\ m.left - next.left = matched
  BY <1>1, <1>2, <1>3
<1>7. sign * matched * (price - paid) \in Int
  BY <1>2, <1>3
<1>8. next.profit \in Int
  <2> DEFINE gain == sign * matched * (price - paid)
  <2>1. gain \in Int /\ next.profit = m.profit + gain
    BY <1>1, <1>7
  <2> HIDE DEF gain
  <2> QED
    BY <1>2, <2>1
<1>9. CASE matched = qty
  <2>1. next.queue = m.queue
    BY <1>1, <1>9
  <2>2. sign * matched * (price - paid) = sign * (matched * price - (cost + paid * qty - cost))
    <3>1. paid \in Int /\ cost \in Int /\ matched \in Int
      BY <1>2, <1>3, <1>4
    <3> HIDE DEF paid, cost, qty
    <3>2. paid * matched \in Int /\ cost + paid * matched - cost = paid * matched
      BY <3>1
    <3>3. sign * matched * (price - paid) = sign * (matched * price - paid * matched)
      BY <3>1
    <3> QED
      BY <1>9, <3>2, <3>3
  <2>3. next \in Acc
    BY <1>1, <1>2, <1>6, <1>8, <2>1 DEF Acc
  <2>4. SharesHeld(next.queue) = shares + qty - matched
    BY <1>2, <1>3, <1>4, <1>9, <2>1
  <2>5. next.profit = m.profit + sign * (matched * price - (cost + paid * qty - CostOf(next.queue)))
    BY <1>1, <2>1, <2>2
  <2>6. next.left <= m.left /\ m.left - next.left = matched
    BY <1>6
  <2>7. (m.left > 0 => m.queue = << >>) => (next.left > 0 => next.queue = << >>)
    BY <1>2, <1>6, <2>1
  <2> QED
    BY <2>3, <2>4, <2>5, <2>6, <2>7 DEF Turn
<1>10. CASE matched # qty
  <2>1. next.queue = Append(m.queue, rest) /\ next.left = 0 /\ matched = m.left
    <3>1. matched = m.left
      BY <1>3, <1>10
    <3>2. next.left = 0
      BY <1>2, <1>6, <3>1
    <3> QED
      BY <1>1, <1>10, <3>1, <3>2, Zenon
  <2>2. rest \in Lot /\ rest.qty = qty - matched /\ rest.price = paid
    BY <1>5, <1>10
  <2>3. /\ next.queue \in Seq(Lot)
        /\ SharesHeld(next.queue) = shares + rest.qty
        /\ CostOf(next.queue) = cost + rest.price * rest.qty
    BY <1>2, <2>1, <2>2, LotAdded
  <2>4. next \in Acc
    BY <1>1, <1>6, <1>8, <2>3 DEF Acc
  <2>5. SharesHeld(next.queue) = shares + qty - matched
    BY <1>2, <1>3, <1>4, <2>2, <2>3
  <2>6. sign * matched * (price - paid)
          = sign * (matched * price - (cost + paid * qty - CostOf(next.queue)))
    <3> DEFINE left == CostOf(next.queue)
    <3>1. paid \in Int /\ cost \in Int /\ matched \in Int /\ qty \in Int
      BY <1>2, <1>3, <1>4
    <3>2. left = cost + paid * (qty - matched)
      BY <2>2, <2>3
    <3> HIDE DEF paid, cost, qty, left
    <3>3. left = cost + paid * qty - paid * matched /\ paid * qty \in Int /\ paid * matched \in Int
      BY <3>1, <3>2
    <3>4. cost + paid * qty - left = paid * matched
      BY <3>1, <3>3
    <3>5. sign * matched * (price - paid) = sign * (matched * price - paid * matched)
      BY <3>1
    <3>6. sign * matched * (price - paid) = sign * (matched * price - (cost + paid * qty - left))
      BY <3>4, <3>5
    <3> QED
      BY <3>6 DEF left, paid, cost, qty
  <2>7. next.profit = m.profit + sign * (matched * price - (cost + paid * qty - CostOf(next.queue)))
    BY <1>1, <2>6
  <2> QED
    BY <1>6, <2>1, <2>4, <2>5, <2>7 DEF Turn
<1> QED
  BY <1>9, <1>10

LEMMA RealiseTrace ==
  ASSUME NEW lots \in Seq(Lot), NEW q \in Nat, NEW price \in Int, NEW sign \in {1, -1}
  PROVE  \E H \in [0 .. Len(lots) -> Acc] :
           /\ H[0] = [left |-> q, profit |-> 0, queue |-> << >>]
           /\ \A k \in 1 .. Len(lots) : H[k] = Serve(H[k - 1], lots[k], price, sign)
           /\ Realise(lots, q, price, sign) = H[Len(lots)]
<1> DEFINE n == Len(lots)
           none == [left |-> q, profit |-> 0, queue |-> << >>]
           G == [p \in (1 .. n) \X Acc |-> Serve(p[2], lots[p[1]], price, sign)]
           IsIter(g) == g = [s \in SUBSET (1 .. n) |->
                              IF s = {} THEN none
                              ELSE Serve(g[s \ {Max(s)}], lots[Max(s)], price, sign)]
           iter == CHOOSE g : IsIter(g)
<1>1. n \in Nat /\ DOMAIN lots = 1 .. n /\ \A i \in 1 .. n : lots[i] \in Lot
  BY LotsMapped
<1>2. Realise(lots, q, price, sign) = iter[1 .. n]
  <2>1. Realise(lots, q, price, sign) = (CHOOSE g : g = [s \in SUBSET (DOMAIN lots) |->
                       IF s = {} THEN none
                       ELSE Serve(g[s \ {Max(s)}], lots[Max(s)], price, sign)])[DOMAIN lots]
    BY Zenon DEF Realise, FoldLeft, MapThenFoldSet
  <2> QED
    BY <1>1, <2>1, Zenon
<1>3. none \in Acc
  BY DEF Acc
<1> HIDE DEF n, none
<1>4. \A m \in Acc, i \in 1 .. n : Serve(m, lots[i], price, sign) \in Acc
  BY <1>1, Served DEF Turn
<1>5. \E g : IsIter(g)
  <2>1. ASSUME NEW i \in 1 .. n, NEW a \in Acc
        PROVE  G[<<i, a>>] = Serve(a, lots[i], price, sign)
    OBVIOUS
  <2> HIDE DEF G
  <2>2. Keeps(G, 1 .. n, Acc)
    <3>1. ASSUME NEW i \in 1 .. n, NEW a \in Acc
          PROVE  G[<<i, a>>] \in Acc
      BY <1>4, <2>1
    <3> QED
      BY <3>1, Zenon DEF Keeps
  <2>3. PICK g \in [SUBSET (1 .. n) -> Acc] : IsLeftFold(G, none, n, g)
    BY <1>1, <1>3, <2>2, FoldLeftExists
  <2>4. ASSUME NEW s \in SUBSET (1 .. n)
        PROVE  g[s] = IF s = {} THEN none ELSE Serve(g[s \ {Max(s)}], lots[Max(s)], price, sign)
    <3>1. s # {} => Max(s) \in 1 .. n
      BY <1>1, LargestChosen
    <3>2. g[s \ {Max(s)}] \in Acc
      OBVIOUS
    <3> QED
      BY <2>1, <2>3, <3>1, <3>2 DEF IsLeftFold
  <2> QED
    BY <2>4
<1>6. IsIter(iter)
  BY <1>5
<1> HIDE DEF iter
<1> DEFINE H == [k \in 0 .. n |-> iter[1 .. k]]
<1>7. H[0] = none
  <2>1. 1 .. 0 = {} /\ 0 \in 0 .. n
    BY <1>1
  <2>2. iter[{}] = none
    BY <1>6
  <2> QED
    BY <2>1, <2>2
<1>8. ASSUME NEW k \in 1 .. n
      PROVE  H[k] = Serve(H[k - 1], lots[k], price, sign)
  <2>1. k \in 0 .. n /\ k - 1 \in 0 .. n /\ k \in Nat \ {0} /\ 1 .. k \in SUBSET (1 .. n)
    BY <1>1
  <2>2. iter[1 .. k] = Serve(iter[(1 .. k) \ {Max(1 .. k)}], lots[Max(1 .. k)], price, sign)
    BY <1>6, <2>1, LargestOfPrefix
  <2> QED
    BY <2>1, <2>2, LargestOfPrefix
<1>9. H[n] = iter[1 .. n] /\ H = [k \in 0 .. n |-> H[k]]
  BY <1>1
<1> HIDE DEF H
<1>10. \A k \in 0 .. n : H[k] \in Acc
  <2> DEFINE Good == {k \in 0 .. n : H[k] \in Acc}
  <2>1. 0 \in Good
    BY <1>1, <1>3, <1>7
  <2>2. \A k \in 1 .. n : k - 1 \in Good => k \in Good
    BY <1>1, <1>4, <1>8
  <2> HIDE DEF Good
  <2>3. \A k \in 0 .. n : k \in Good
    BY <1>1, <2>1, <2>2, UpTo
  <2> QED
    BY <2>3 DEF Good
<1>11. H \in [0 .. n -> Acc]
  BY <1>9, <1>10
<1> QED
  BY <1>2, <1>7, <1>8, <1>9, <1>11 DEF n, none

\* q shares of a queue that holds them leave it, at what they cost.
Leaves(lots, q, price, sign, m) ==
  /\ m.queue \in Seq(Lot) /\ m.profit \in Int
  /\ SharesHeld(m.queue) = SharesHeld(lots) - q
  /\ m.profit = sign * (q * price - (CostOf(lots) - CostOf(m.queue)))

LEMMA Realised ==
  ASSUME NEW lots \in Seq(Lot), NEW q \in Nat, q <= SharesHeld(lots),
         NEW price \in Int, NEW sign \in {1, -1}, NEW m, m = Realise(lots, q, price, sign)
  PROVE  Leaves(lots, q, price, sign, m)
<1> DEFINE n == Len(lots)
<1>1. n \in Nat /\ \A k \in 1 .. n : lots[k] \in Lot
  BY LotsMapped
<1>2. PICK H \in [0 .. n -> Acc] :
        /\ H[0] = [left |-> q, profit |-> 0, queue |-> << >>]
        /\ \A k \in 1 .. n : H[k] = Serve(H[k - 1], lots[k], price, sign)
        /\ m = H[n]
  BY RealiseTrace
<1>3. PICK Q \in [0 .. n -> Int], C \in [0 .. n -> Int] :
        /\ Q[0] = 0 /\ C[0] = 0
        /\ \A k \in 1 .. n : /\ Q[k] = Q[k - 1] + lots[k].qty
                             /\ C[k] = C[k - 1] + lots[k].price * lots[k].qty
        /\ SharesHeld(lots) = Q[n] /\ CostOf(lots) = C[n]
  BY LotsTrace
<1> HIDE DEF n
<1> DEFINE Sold(k) == /\ H[k].left <= q
                      /\ SharesHeld(H[k].queue) = Q[k] - (q - H[k].left)
                      /\ H[k].profit = sign * ((q - H[k].left) * price - (C[k] - CostOf(H[k].queue)))
                      /\ H[k].left > 0 => H[k].queue = << >>
<1>4. \A k \in 0 .. n : Sold(k)
  <2> DEFINE Good == {k \in 0 .. n : Sold(k)}
  <2>1. 0 \in Good
    <3>1. 0 \in 0 .. n /\ H[0].left = q /\ H[0].profit = 0 /\ H[0].queue = << >>
      BY <1>1, <1>2
    <3>2. SharesHeld(H[0].queue) = 0 /\ CostOf(H[0].queue) = 0
      BY <3>1, NoLots
    <3>3. SharesHeld(H[0].queue) = Q[0] - (q - H[0].left)
      BY <1>3, <3>1, <3>2
    <3>4. H[0].profit = sign * ((q - H[0].left) * price - (C[0] - CostOf(H[0].queue)))
      <4>1. (q - q) * price - (0 - 0) = 0 /\ sign * 0 = 0
        OBVIOUS
      <4> QED
        BY <1>3, <3>1, <3>2, <4>1
    <3> QED
      BY <3>1, <3>3, <3>4
  <2>2. ASSUME NEW k \in 1 .. n, k - 1 \in Good
        PROVE  k \in Good
    <3> DEFINE a == H[k - 1]
               b == H[k]
               lot == lots[k]
               before == Q[k - 1]
               paid == C[k - 1]
    <3>1. k \in 0 .. n /\ k - 1 \in 0 .. n
      BY <1>1
    <3>2. a \in Acc /\ lot \in Lot /\ b = Serve(a, lot, price, sign) /\ before \in Int /\ paid \in Int
      BY <1>1, <1>2, <1>3, <3>1
    <3>3. Sold(k - 1)
      BY <2>2
    <3>4. Q[k] = before + lot.qty /\ C[k] = paid + lot.price * lot.qty
      BY <1>3
    <3> HIDE DEF a, b, lot, before, paid
    <3>5. Turn(a, b, lot, price, sign)
      BY <3>2, Served
    <3>6. /\ a.left \in Nat /\ a.profit \in Int /\ a.queue \in Seq(Lot)
          /\ b.left \in Nat /\ b.profit \in Int /\ b.queue \in Seq(Lot)
          /\ lot.qty \in Nat /\ lot.price * lot.qty \in Int
      BY <3>2, <3>5, LotTyped DEF Acc, Turn
    <3>7. /\ SharesHeld(a.queue) \in Int /\ CostOf(a.queue) \in Int
          /\ SharesHeld(b.queue) \in Int /\ CostOf(b.queue) \in Int
      <4>1. \A x \in Seq(Lot) : SharesHeld(x) \in Int /\ CostOf(x) \in Int
        BY SharesPositive
      <4> QED
        BY <3>6, <4>1
    <3>8. /\ a.left <= q /\ SharesHeld(a.queue) = before - (q - a.left)
          /\ a.profit = sign * ((q - a.left) * price - (paid - CostOf(a.queue)))
          /\ a.left > 0 => a.queue = << >>
      BY <3>3 DEF a, before, paid
    <3>9. b.left <= q /\ SharesHeld(b.queue) = (before + lot.qty) - (q - b.left)
      <4> DEFINE x == a.left
                 y == b.left
                 u == SharesHeld(a.queue)
                 v == SharesHeld(b.queue)
                 w == lot.qty
      <4>1. /\ x \in Int /\ y \in Int /\ u \in Int /\ v \in Int /\ w \in Int /\ before \in Int
            /\ y <= x /\ x <= q /\ v = u + w - (x - y) /\ u = before - (q - x)
        <5>1. x \in Int /\ y \in Int /\ u \in Int /\ v \in Int /\ w \in Int /\ before \in Int
          BY <3>2, <3>6, <3>7
        <5>2. y <= x /\ x <= q /\ v = u + w - (x - y) /\ u = before - (q - x)
          BY <3>5, <3>8, Zenon DEF Turn
        <5> QED
          BY <5>1, <5>2
      <4> HIDE DEF x, y, u, v, w
      <4>2. y <= q /\ v = (before + w) - (q - y)
        BY <4>1
      <4> QED
        BY <4>2 DEF v, w, y
    <3>10. b.profit = sign * ((q - b.left) * price - ((paid + lot.price * lot.qty) - CostOf(b.queue)))
      <4> DEFINE x == (q - a.left) * price
                 y == (a.left - b.left) * price
                 c == CostOf(a.queue)
                 d == CostOf(b.queue)
                 e == lot.price * lot.qty
      <4>1. (q - b.left) * price = x + y /\ x \in Int /\ y \in Int
        <5>1. \A i, j \in Int : /\ (q - j) * price = (q - i) * price + (i - j) * price
                                /\ (q - i) * price \in Int /\ (i - j) * price \in Int
          OBVIOUS
        <5>2. a.left \in Int /\ b.left \in Int
          BY <3>6
        <5> QED
          BY <5>1, <5>2, Zenon
      <4>2. b.profit = sign * (x - (paid - c)) + sign * (y - (c + e - d))
        BY <3>5, <3>8 DEF Turn
      <4>3. c \in Int /\ d \in Int /\ e \in Int /\ paid \in Int
        BY <3>2, <3>6, <3>7
      <4> HIDE DEF x, y, c, d, e
      <4>4. sign * (x - (paid - c)) + sign * (y - (c + e - d)) = sign * ((x + y) - ((paid + e) - d))
        BY <4>1, <4>3
      <4>5. b.profit = sign * ((q - b.left) * price - ((paid + e) - d))
        BY <4>1, <4>2, <4>4
      <4> QED
        BY <4>5 DEF d, e
    <3>11. b.left > 0 => b.queue = << >>
      BY <3>5, <3>8 DEF Turn
    <3>12. Sold(k)
      <4>1. SharesHeld(b.queue) = Q[k] - (q - b.left)
        BY <3>4, <3>9, Zenon
      <4>2. b.profit = sign * ((q - b.left) * price - (C[k] - CostOf(b.queue)))
        BY <3>4, <3>10, Zenon
      <4>3. b.left <= q /\ (b.left > 0 => b.queue = << >>)
        BY <3>9, <3>11
      <4> QED
        BY <4>1, <4>2, <4>3 DEF b
    <3> HIDE DEF Sold
    <3> QED
      BY <3>1, <3>12
  <2> HIDE DEF Good, Sold
  <2>3. \A k \in 0 .. n : k \in Good
    BY <1>1, <2>1, <2>2, UpTo
  <2> QED
    BY <2>3 DEF Good
<1>5. n \in 0 .. n /\ m \in Acc
  BY <1>1, <1>2
<1>6. /\ m.left <= q /\ SharesHeld(m.queue) = SharesHeld(lots) - (q - m.left)
      /\ m.profit = sign * ((q - m.left) * price - (CostOf(lots) - CostOf(m.queue)))
      /\ m.left > 0 => m.queue = << >>
  BY <1>2, <1>3, <1>4, <1>5
<1>7. m.left \in Nat /\ m.profit \in Int /\ m.queue \in Seq(Lot) /\ SharesHeld(lots) \in Int
  BY <1>5, SharesPositive DEF Acc
<1>8. m.left = 0
  <2>1. m.left > 0 => SharesHeld(m.queue) = 0
    BY <1>6, NoLots
  <2> QED
    BY <1>6, <1>7, <2>1
<1>9. q - m.left = q
  BY <1>8
<1> QED
  BY <1>6, <1>7, <1>9 DEF Leaves

-----------------------------------------------------------------------------
(* The two sets of books *)

\* Lots are sequences of lots, and every symbol has its records.
BooksTyped ==
  /\ cash \in Int /\ realized \in Int /\ fees \in Nat
  /\ position \in [Symbol -> Int]
  /\ long \in [Symbol -> Seq(Lot)] /\ short \in [Symbol -> Seq(Lot)]
  /\ book \in [Symbol -> [avg : Fraction, qty : Int]]
  /\ entries \in Seq(Entry) /\ Len(entries) <= MaxEntries
  /\ mark \in [Symbol -> Price \cup {0}]

\* What the open lots have taken from the cash.
Invested == SumFunctionOnSet([s \in Symbol |-> CostOf(long[s]) - CostOf(short[s])], Symbol)

\* Every payment is for an open lot, has been realised, or was a fee.
CashInv == cash = InitialCash + realized - fees - Invested

\* k shares more at the price p.
Larger(lots, more, k, p) ==
  /\ more \in Seq(Lot)
  /\ SharesHeld(more) = SharesHeld(lots) + k
  /\ CostOf(more) = CostOf(lots) + k * p
  /\ k = 0 => more = lots

LEMMA LotOpened ==
  ASSUME NEW lots \in Seq(Lot), NEW k \in Nat, NEW p \in Price
  PROVE  Larger(lots, lots \o Opened(k, p), k, p)
<1>0. SharesHeld(lots) \in Int /\ CostOf(lots) \in Int /\ p \in Int
  BY SharesPositive, AccountingAssumption
<1>1. CASE k = 0
  <2>1. lots \o Opened(k, p) = lots
    BY <1>1, ConcatEmptySeq DEF Opened
  <2>2. SharesHeld(lots) + k = SharesHeld(lots) /\ CostOf(lots) + k * p = CostOf(lots)
    <3>1. k * p = 0
      BY <1>0, <1>1
    <3> QED
      BY <1>0, <1>1, <3>1
  <2> QED
    BY <2>1, <2>2, Zenon DEF Larger
<1>2. CASE k > 0
  <2> DEFINE lot == [price |-> p, qty |-> k]
  <2>1. lot \in Lot /\ lot.qty = k /\ lot.price = p
    BY <1>2 DEF Lot
  <2>2. Opened(k, p) = <<lot>>
    BY <1>2 DEF Opened
  <2> HIDE DEF lot
  <2>3. lots \o Opened(k, p) = Append(lots, lot)
    BY <2>1, <2>2, AppendIsConcat
  <2>4. p * k = k * p
    BY <1>0
  <2>5. /\ Append(lots, lot) \in Seq(Lot)
        /\ SharesHeld(Append(lots, lot)) = SharesHeld(lots) + lot.qty
        /\ CostOf(Append(lots, lot)) = CostOf(lots) + lot.price * lot.qty
    BY <2>1, LotAdded
  <2> QED
    BY <1>2, <2>1, <2>3, <2>4, <2>5 DEF Larger
<1> QED
  BY <1>1, <1>2

\* What a fill of q shares does to the two queues of its symbol: they change by
\* its shares, one of them stays empty, and the cash it moves is the cost of the
\* open lots it changes less the profit it realises.
Accounted(s, side, q, p, l, h) ==
  /\ l \in Seq(Lot) /\ h \in Seq(Lot)
  /\ SharesHeld(l) - SharesHeld(h) = position[s] + side * q
  /\ l = << >> \/ h = << >>
  /\ long' = [long EXCEPT ![s] = l] /\ short' = [short EXCEPT ![s] = h]
  /\ realized' \in Int
  /\ realized' - (CostOf(l) - CostOf(h))
       = realized - (CostOf(long[s]) - CostOf(short[s])) - side * (q * p)

LEMMA Queues ==
  ASSUME BooksTyped, LotsMatchPosition, NEW s \in Symbol
  PROVE  /\ long[s] \in Seq(Lot) /\ short[s] \in Seq(Lot) /\ position[s] \in Int /\ realized \in Int
         /\ SharesHeld(long[s]) \in Nat /\ SharesHeld(short[s]) \in Nat
         /\ CostOf(long[s]) \in Int /\ CostOf(short[s]) \in Int
         /\ position[s] = SharesHeld(long[s]) - SharesHeld(short[s])
         /\ position[s] >= 0 => short[s] = << >> /\ SharesHeld(short[s]) = 0 /\ CostOf(short[s]) = 0
         /\ position[s] <= 0 => long[s] = << >> /\ SharesHeld(long[s]) = 0 /\ CostOf(long[s]) = 0
<1>1. long[s] \in Seq(Lot) /\ short[s] \in Seq(Lot) /\ position[s] \in Int /\ realized \in Int
  BY DEF BooksTyped
<1>2. /\ SharesHeld(long[s]) \in Nat /\ SharesHeld(short[s]) \in Nat
      /\ CostOf(long[s]) \in Int /\ CostOf(short[s]) \in Int
      /\ SharesHeld(long[s]) = 0 <=> long[s] = << >>
      /\ SharesHeld(short[s]) = 0 <=> short[s] = << >>
  BY <1>1, SharesPositive
<1>3. /\ position[s] = SharesHeld(long[s]) - SharesHeld(short[s])
      /\ long[s] = << >> \/ short[s] = << >>
  BY DEF LotsMatchPosition
<1>4. long[s] = << >> => CostOf(long[s]) = 0
  BY NoLots
<1>5. short[s] = << >> => CostOf(short[s]) = 0
  BY NoLots
<1>6. position[s] >= 0 => SharesHeld(short[s]) = 0
  BY <1>2, <1>3
<1>7. position[s] <= 0 => SharesHeld(long[s]) = 0
  BY <1>2, <1>3
<1> QED
  BY <1>1, <1>2, <1>3, <1>4, <1>5, <1>6, <1>7

LEMMA OpenLongAccounted ==
  ASSUME BooksTyped, LotsMatchPosition, NEW s \in Symbol, NEW q \in Nat, NEW p \in Price,
         OpenLong(s, q, p)
  PROVE  \E l, h : Accounted(s, 1, q, p, l, h)
<1> DEFINE l == long[s] \o Opened(q, p)
           h == short[s]
<1>1. /\ l \in Seq(Lot) /\ h \in Seq(Lot) /\ SharesHeld(l) = SharesHeld(long[s]) + q
      /\ CostOf(l) = CostOf(long[s]) + q * p /\ h = << >>
      /\ position[s] = SharesHeld(long[s]) - SharesHeld(h)
      /\ SharesHeld(long[s]) \in Int /\ SharesHeld(h) \in Int
      /\ CostOf(long[s]) \in Int /\ CostOf(h) \in Int
  <2>1. /\ long[s] \in Seq(Lot) /\ short[s] \in Seq(Lot)
        /\ SharesHeld(long[s]) \in Int /\ SharesHeld(short[s]) \in Int
        /\ CostOf(long[s]) \in Int /\ CostOf(short[s]) \in Int
        /\ position[s] = SharesHeld(long[s]) - SharesHeld(short[s]) /\ short[s] = << >>
    BY Queues DEF OpenLong
  <2>2. Larger(long[s], l, q, p)
    BY <2>1, LotOpened
  <2> HIDE DEF l
  <2> QED
    BY <2>1, <2>2 DEF Larger
<1>2. long' = [long EXCEPT ![s] = l] /\ short' = [short EXCEPT ![s] = h] /\ realized' = realized
  BY DEF OpenLong, BooksTyped
<1>3. realized \in Int /\ p \in Int
  BY AccountingAssumption DEF BooksTyped
<1> HIDE DEF l, h
<1>4. SharesHeld(l) - SharesHeld(h) = position[s] + 1 * q
  BY <1>1
<1>5. realized - (CostOf(l) - CostOf(h))
        = realized - (CostOf(long[s]) - CostOf(h)) - 1 * (q * p)
  <2> DEFINE a == CostOf(l)
             b == CostOf(h)
             c == CostOf(long[s])
             d == q * p
  <2>1. a = c + d /\ b \in Int /\ c \in Int /\ d \in Int
    BY <1>1, <1>3
  <2> HIDE DEF a, b, c, d
  <2>2. realized - (a - b) = realized - (c - b) - 1 * d
    BY <1>3, <2>1
  <2> QED
    BY <2>2 DEF a, b, c, d
<1>6. Accounted(s, 1, q, p, l, h)
  BY <1>1, <1>2, <1>3, <1>4, <1>5 DEF Accounted, h
<1> QED
  BY <1>6

LEMMA OpenShortAccounted ==
  ASSUME BooksTyped, LotsMatchPosition, NEW s \in Symbol, NEW q \in Nat, NEW p \in Price,
         OpenShort(s, q, p)
  PROVE  \E l, h : Accounted(s, -1, q, p, l, h)
<1> DEFINE l == long[s]
           h == short[s] \o Opened(q, p)
<1>1. /\ l \in Seq(Lot) /\ h \in Seq(Lot) /\ SharesHeld(h) = SharesHeld(short[s]) + q
      /\ CostOf(h) = CostOf(short[s]) + q * p /\ l = << >>
      /\ position[s] = SharesHeld(l) - SharesHeld(short[s])
      /\ SharesHeld(short[s]) \in Int /\ SharesHeld(l) \in Int
      /\ CostOf(short[s]) \in Int /\ CostOf(l) \in Int
  <2>1. /\ long[s] \in Seq(Lot) /\ short[s] \in Seq(Lot)
        /\ SharesHeld(long[s]) \in Int /\ SharesHeld(short[s]) \in Int
        /\ CostOf(long[s]) \in Int /\ CostOf(short[s]) \in Int
        /\ position[s] = SharesHeld(long[s]) - SharesHeld(short[s]) /\ long[s] = << >>
    BY Queues DEF OpenShort
  <2>2. Larger(short[s], h, q, p)
    BY <2>1, LotOpened
  <2> HIDE DEF h
  <2> QED
    BY <2>1, <2>2 DEF Larger
<1>2. long' = [long EXCEPT ![s] = l] /\ short' = [short EXCEPT ![s] = h] /\ realized' = realized
  BY DEF OpenShort, BooksTyped
<1>3. realized \in Int /\ p \in Int
  BY AccountingAssumption DEF BooksTyped
<1> HIDE DEF l, h
<1>4. SharesHeld(l) - SharesHeld(h) = position[s] + (-1) * q
  BY <1>1
<1>5. realized - (CostOf(l) - CostOf(h))
        = realized - (CostOf(l) - CostOf(short[s])) - (-1) * (q * p)
  <2> DEFINE a == CostOf(l)
             b == CostOf(h)
             c == CostOf(short[s])
             d == q * p
  <2>1. b = c + d /\ a \in Int /\ c \in Int /\ d \in Int
    BY <1>1, <1>3
  <2> HIDE DEF a, b, c, d
  <2>2. realized - (a - b) = realized - (a - c) - (-1) * d
    BY <1>3, <2>1
  <2> QED
    BY <2>2 DEF a, b, c, d
<1>6. Accounted(s, -1, q, p, l, h)
  BY <1>1, <1>2, <1>3, <1>4, <1>5 DEF Accounted, l
<1> QED
  BY <1>6

LEMMA CloseLongAccounted ==
  ASSUME BooksTyped, LotsMatchPosition, NEW s \in Symbol, NEW q \in Nat, NEW p \in Price,
         CloseLong(s, q, p)
  PROVE  \E l, h : Accounted(s, -1, q, p, l, h)
<1> DEFINE n == Smaller(q, position[s])
           closed == Realise(long[s], n, p, 1)
           l == closed.queue
           h == short[s] \o Opened(Flipped(s, q), p)
           a == SharesHeld(long[s])
           c == CostOf(long[s])
           d == CostOf(l)
<1>1. /\ position[s] > 0 /\ realized' = realized + closed.profit
      /\ long' = [long EXCEPT ![s] = l] /\ short' = [short EXCEPT ![s] = h]
  BY DEF CloseLong
<1>2. p \in Int
  BY AccountingAssumption
<1>3. /\ long[s] \in Seq(Lot) /\ short[s] = << >> /\ short[s] \in Seq(Lot) /\ position[s] \in Int
      /\ position[s] = a /\ a \in Int /\ c \in Int /\ realized \in Int
      /\ SharesHeld(short[s]) = 0 /\ CostOf(short[s]) = 0
  <2>1. position[s] \in Int /\ position[s] >= 0
    BY <1>1 DEF BooksTyped
  <2>2. SharesHeld(short[s]) = 0 /\ position[s] = SharesHeld(long[s]) - SharesHeld(short[s])
        /\ SharesHeld(long[s]) \in Nat
    BY <2>1, Queues
  <2> QED
    BY <2>1, <2>2, Queues
<1>4. n \in Nat /\ n <= q /\ n <= a /\ (n = q \/ n = a) /\ Flipped(s, q) = q - n
  BY <1>1, <1>3 DEF Smaller, Flipped, Size
<1> HIDE DEF n
<1>5. /\ l \in Seq(Lot) /\ closed.profit \in Int /\ SharesHeld(l) = a - n
      /\ closed.profit = 1 * (n * p - (c - d))
  <2> DEFINE sign == 1
             lots == long[s]
  <2> HIDE DEF closed, h
  <2>1. closed = Realise(lots, n, p, sign) /\ n <= SharesHeld(lots) /\ sign \in {1, -1}
        /\ lots \in Seq(Lot)
    BY <1>3, <1>4 DEF closed
  <2> HIDE DEF sign, lots
  <2>2. Leaves(lots, n, p, sign, closed)
    BY <1>2, <1>4, <2>1, Realised
  <2> QED
    BY <2>2 DEF Leaves, sign, lots
<1>6. q - n \in Nat /\ Larger(short[s], h, q - n, p)
  <2> DEFINE k == Flipped(s, q)
             lots == short[s]
  <2>1. k \in Nat /\ k = q - n /\ lots \in Seq(Lot)
    BY <1>3, <1>4
  <2> HIDE DEF k, lots
  <2>2. Larger(lots, lots \o Opened(k, p), k, p)
    BY <2>1, LotOpened
  <2> QED
    BY <2>1, <2>2 DEF k, lots
<1>7. SharesHeld(l) - SharesHeld(h) = position[s] + (-1) * q
  BY <1>3, <1>4, <1>5, <1>6 DEF Larger
<1>8. l = << >> \/ h = << >>
  <2>1. CASE n = q
    BY <1>3, <1>4, <1>6, <2>1 DEF Larger
  <2>2. CASE n # q
    <3>1. SharesHeld(l) = 0
      BY <1>3, <1>4, <1>5, <2>2
    <3> QED
      BY <1>5, <3>1, SharesPositive
  <2> QED
    BY <2>1, <2>2
<1>9. d \in Int
  BY <1>5, SharesPositive
<1>10. realized' \in Int
  BY <1>1, <1>3, <1>5
<1>11. realized' - (CostOf(l) - CostOf(h))
         = realized - (CostOf(long[s]) - CostOf(short[s])) - (-1) * (q * p)
  <2> DEFINE x == n * p
             y == (q - n) * p
             z == q * p
             b == CostOf(h)
             r == realized'
  <2>1. x \in Int /\ y \in Int /\ z \in Int /\ z = x + y
    <3>1. \A i, j \in Int : /\ j * p = i * p + (j - i) * p
                            /\ i * p \in Int /\ j * p \in Int /\ (j - i) * p \in Int
      BY <1>2
    <3>2. q \in Int /\ n \in Int
      BY <1>4
    <3> QED
      BY <3>1, <3>2, Zenon
  <2>2. b = 0 + y
    BY <1>3, <1>6 DEF Larger
  <2>3. r = realized + 1 * (x - (c - d))
    BY <1>1, <1>5, Zenon
  <2> HIDE DEF x, y, z, b, c, d, r
  <2>4. c \in Int /\ d \in Int /\ realized \in Int
    BY <1>3, <1>9
  <2>5. r - (d - b) = realized - (c - 0) - (-1) * z
    BY <2>1, <2>2, <2>3, <2>4
  <2> QED
    BY <1>3, <2>5 DEF z, b, c, d, r
<1> HIDE DEF l, h
<1>12. Accounted(s, -1, q, p, l, h)
  BY <1>1, <1>5, <1>6, <1>7, <1>8, <1>10, <1>11 DEF Accounted, Larger
<1> QED
  BY <1>12

LEMMA CoverShortAccounted ==
  ASSUME BooksTyped, LotsMatchPosition, NEW s \in Symbol, NEW q \in Nat, NEW p \in Price,
         CoverShort(s, q, p)
  PROVE  \E l, h : Accounted(s, 1, q, p, l, h)
<1> DEFINE n == Smaller(q, Size(position[s]))
           closed == Realise(short[s], n, p, -1)
           h == closed.queue
           l == long[s] \o Opened(Flipped(s, q), p)
           a == SharesHeld(short[s])
           c == CostOf(short[s])
           d == CostOf(h)
<1>1. /\ position[s] < 0 /\ realized' = realized + closed.profit
      /\ long' = [long EXCEPT ![s] = l] /\ short' = [short EXCEPT ![s] = h]
  BY DEF CoverShort
<1>2. p \in Int
  BY AccountingAssumption
<1>3. /\ short[s] \in Seq(Lot) /\ long[s] = << >> /\ long[s] \in Seq(Lot) /\ position[s] \in Int
      /\ position[s] = -a /\ a \in Int /\ c \in Int /\ realized \in Int
      /\ SharesHeld(long[s]) = 0 /\ CostOf(long[s]) = 0
  <2>1. position[s] \in Int /\ position[s] <= 0
    BY <1>1 DEF BooksTyped
  <2>2. SharesHeld(long[s]) = 0 /\ position[s] = SharesHeld(long[s]) - SharesHeld(short[s])
        /\ SharesHeld(short[s]) \in Nat
    BY <2>1, Queues
  <2> QED
    BY <2>1, <2>2, Queues
<1>4. n \in Nat /\ n <= q /\ n <= a /\ (n = q \/ n = a) /\ Flipped(s, q) = q - n
  BY <1>1, <1>3 DEF Smaller, Flipped, Size
<1> HIDE DEF n
<1>5. /\ h \in Seq(Lot) /\ closed.profit \in Int /\ SharesHeld(h) = a - n
      /\ closed.profit = (-1) * (n * p - (c - d))
  <2> DEFINE sign == -1
             lots == short[s]
  <2> HIDE DEF closed, l
  <2>1. closed = Realise(lots, n, p, sign) /\ n <= SharesHeld(lots) /\ sign \in {1, -1}
        /\ lots \in Seq(Lot)
    BY <1>3, <1>4 DEF closed
  <2> HIDE DEF sign, lots
  <2>2. Leaves(lots, n, p, sign, closed)
    BY <1>2, <1>4, <2>1, Realised
  <2> QED
    BY <2>2 DEF Leaves, sign, lots
<1>6. q - n \in Nat /\ Larger(long[s], l, q - n, p)
  <2> DEFINE k == Flipped(s, q)
             lots == long[s]
  <2>1. k \in Nat /\ k = q - n /\ lots \in Seq(Lot)
    BY <1>3, <1>4
  <2> HIDE DEF k, lots
  <2>2. Larger(lots, lots \o Opened(k, p), k, p)
    BY <2>1, LotOpened
  <2> QED
    BY <2>1, <2>2 DEF k, lots
<1>7. SharesHeld(l) - SharesHeld(h) = position[s] + 1 * q
  BY <1>3, <1>4, <1>5, <1>6 DEF Larger
<1>8. l = << >> \/ h = << >>
  <2>1. CASE n = q
    BY <1>3, <1>4, <1>6, <2>1 DEF Larger
  <2>2. CASE n # q
    <3>1. SharesHeld(h) = 0
      BY <1>3, <1>4, <1>5, <2>2
    <3> QED
      BY <1>5, <3>1, SharesPositive
  <2> QED
    BY <2>1, <2>2
<1>9. d \in Int
  BY <1>5, SharesPositive
<1>10. realized' \in Int
  BY <1>1, <1>3, <1>5
<1>11. realized' - (CostOf(l) - CostOf(h))
         = realized - (CostOf(long[s]) - CostOf(short[s])) - 1 * (q * p)
  <2> DEFINE x == n * p
             y == (q - n) * p
             z == q * p
             b == CostOf(l)
             r == realized'
  <2>1. x \in Int /\ y \in Int /\ z \in Int /\ z = x + y
    <3>1. \A i, j \in Int : /\ j * p = i * p + (j - i) * p
                            /\ i * p \in Int /\ j * p \in Int /\ (j - i) * p \in Int
      BY <1>2
    <3>2. q \in Int /\ n \in Int
      BY <1>4
    <3> QED
      BY <3>1, <3>2, Zenon
  <2>2. b = 0 + y
    BY <1>3, <1>6 DEF Larger
  <2>3. r = realized + (-1) * (x - (c - d))
    BY <1>1, <1>5, Zenon
  <2> HIDE DEF x, y, z, b, c, d, r
  <2>4. c \in Int /\ d \in Int /\ realized \in Int
    BY <1>3, <1>9
  <2>5. r - (b - d) = realized - (0 - c) - 1 * z
    BY <2>1, <2>2, <2>3, <2>4
  <2> QED
    BY <1>3, <2>5 DEF z, b, c, d, r
<1> HIDE DEF l, h
<1>12. Accounted(s, 1, q, p, l, h)
  BY <1>1, <1>5, <1>6, <1>7, <1>8, <1>10, <1>11 DEF Accounted, Larger
<1> QED
  BY <1>12

-----------------------------------------------------------------------------
-----------------------------------------------------------------------------
(* Average cost *)

\* Average, realised and unrealised figures are fractions, whatever the fill.
LEMMA LedgerTyped ==
  ASSUME BooksTyped, NEW s \in Symbol, NEW delta \in Int, NEW p \in Int
  PROVE  /\ NewAverage(s, delta, p) \in Fraction
         /\ LedgerProfit(s, delta, p) \in Fraction
         /\ \A pos \in [avg : Fraction, qty : Int] : Unrealized(pos, p) \in Fraction
<1> DEFINE old == book[s]
           qty == old.qty + delta
<1>1. old \in [avg : Fraction, qty : Int] /\ old.avg \in Fraction /\ old.qty \in Int
  BY DEF BooksTyped
<1>2. qty \in Int /\ 0 \in Int /\ Size(old.qty) \in Int /\ p * Size(delta) \in Int
  BY <1>1 DEF Size
<1>3. qty # 0 => Size(qty) \in Nat \ {0}
  BY <1>2 DEF Size
<1>4. \/ NewAverage(s, delta, p) = Whole(0)
      \/ NewAverage(s, delta, p) = Whole(p)
      \/ NewAverage(s, delta, p) = old.avg
      \/ /\ qty # 0
         /\ NewAverage(s, delta, p) =
              Over(Times(Size(old.qty), old.avg) ++ Whole(p * Size(delta)), Size(qty))
  BY Zenon DEF NewAverage
<1>5. NewAverage(s, delta, p) \in Fraction
  <2> DEFINE sum == Times(Size(old.qty), old.avg) ++ Whole(p * Size(delta))
  <2>1. sum \in Fraction
    BY <1>1, <1>2, FractionsTyped
  <2> HIDE DEF sum, qty, old
  <2>2. qty # 0 => Over(sum, Size(qty)) \in Fraction
    BY <1>3, <2>1, FractionsTyped
  <2>3. Whole(0) \in Fraction /\ Whole(p) \in Fraction
    BY <1>2, FractionsTyped
  <2> QED
    BY <1>1, <1>4, <2>2, <2>3, Zenon DEF sum
<1>6. LedgerProfit(s, delta, p) \in Fraction
  <2> DEFINE closed == Smaller(Size(delta), Size(old.qty))
             paid   == Whole(p) -- old.avg
  <2>1. closed \in Int /\ -closed \in Int
    BY <1>1 DEF Smaller, Size
  <2>2. paid \in Fraction /\ Whole(0) \in Fraction
    BY <1>1, <1>2, FractionsTyped
  <2>3. \/ LedgerProfit(s, delta, p) = Times(closed, paid)
        \/ LedgerProfit(s, delta, p) = Times(-closed, paid)
        \/ LedgerProfit(s, delta, p) = Whole(0)
    BY Zenon DEF LedgerProfit
  <2> HIDE DEF closed, paid
  <2>4. Times(closed, paid) \in Fraction /\ Times(-closed, paid) \in Fraction
    BY <2>1, <2>2, FractionsTyped
  <2> QED
    BY <2>2, <2>3, <2>4
<1>7. ASSUME NEW pos \in [avg : Fraction, qty : Int]
      PROVE  Unrealized(pos, p) \in Fraction
  <2>1. pos.avg \in Fraction /\ pos.qty \in Int
    OBVIOUS
  <2>2. Whole(p) -- pos.avg \in Fraction
    BY <2>1, FractionsTyped
  <2> QED
    BY <2>1, <2>2, FractionsTyped DEF Unrealized
<1> QED
  BY <1>5, <1>6, <1>7

-----------------------------------------------------------------------------
(* A fill *)

\* A fill of q shares in the direction side: the balances move, the queues of
\* the symbol become l and h, and the ledger gets an entry.
Filled(s, side, q, p, fee, mid, l, h) ==
  /\ Len(entries) < MaxEntries
  /\ Settle(s, side, q, p, fee)
  /\ Accounted(s, side, q, p, l, h)
  /\ LedgerFill(s, side * q, p, fee, mid)

LEMMA FillTyped ==
  ASSUME BooksTyped, NEW s \in Symbol, NEW side \in {1, -1}, NEW q \in Qty, NEW p \in Price,
         NEW fee \in Fee, NEW mid \in Price, NEW l, NEW h, Filled(s, side, q, p, fee, mid, l, h)
  PROVE  BooksTyped' /\ book'[s].qty = book[s].qty + side * q
<1> DEFINE delta == side * q
           entry == [symbol |-> s, realized |-> LedgerProfit(s, delta, p),
                     unrealized |-> Unrealized(book'[s], mid), fee |-> fee]
           pos   == [avg |-> NewAverage(s, delta, p), qty |-> book[s].qty + delta]
<1>1. q \in Nat /\ p \in Nat /\ fee \in Nat /\ mid \in Int /\ delta \in Int /\ q * p \in Int
      /\ side * fee \in Int
  BY AccountingAssumption
<1>2. /\ cash' = cash - side * (q * p + side * fee)
      /\ position' = [position EXCEPT ![s] = position[s] + delta]
      /\ fees' = fees + fee
  BY DEF Filled, Settle, TotalCost
<1>3. /\ book' = [book EXCEPT ![s] = pos]
      /\ entries' = Append(entries, entry)
      /\ mark' = [mark EXCEPT ![s] = mid]
  BY DEF Filled, LedgerFill
<1> HIDE DEF delta
<1>4. cash' \in Int /\ fees' \in Nat /\ position' \in [Symbol -> Int]
  <2>1. side * (q * p + side * fee) \in Int
    BY <1>1
  <2> QED
    BY <1>1, <1>2, <2>1 DEF BooksTyped
<1>5. /\ realized' \in Int /\ long' \in [Symbol -> Seq(Lot)] /\ short' \in [Symbol -> Seq(Lot)]
  BY DEF Filled, Accounted, BooksTyped
<1>6. pos \in [avg : Fraction, qty : Int] /\ book'[s] = pos
      /\ book' \in [Symbol -> [avg : Fraction, qty : Int]]
  <2>1. book[s].qty \in Int
    BY DEF BooksTyped
  <2>2. pos \in [avg : Fraction, qty : Int]
    BY <1>1, <2>1, LedgerTyped
  <2> HIDE DEF pos
  <2> QED
    BY <1>3, <2>2 DEF BooksTyped
<1>7. entry \in Entry
  <2>1. LedgerProfit(s, delta, p) \in Fraction
    BY <1>1, LedgerTyped
  <2>2. \A r \in [avg : Fraction, qty : Int] : Unrealized(r, mid) \in Fraction
    BY <1>1, LedgerTyped
  <2>3. book'[s] \in [avg : Fraction, qty : Int]
    BY <1>6, Zenon
  <2>4. Unrealized(book'[s], mid) \in Fraction
    BY <2>2, <2>3, Zenon
  <2> QED
    BY <1>1, <2>1, <2>4 DEF Entry
<1> HIDE DEF entry
<1>8. entries' \in Seq(Entry) /\ Len(entries') <= MaxEntries
  <2>1. entries' \in Seq(Entry) /\ Len(entries') = Len(entries) + 1 /\ Len(entries) \in Nat
    BY <1>3, <1>7, AppendProperties, LenProperties DEF BooksTyped
  <2> QED
    BY <2>1, AccountingAssumption DEF Filled
<1>9. mark' \in [Symbol -> Price \cup {0}]
  BY <1>3 DEF BooksTyped
<1>10. book'[s].qty = book[s].qty + side * q
  BY <1>6 DEF delta
<1> QED
  BY <1>4, <1>5, <1>6, <1>8, <1>9, <1>10 DEF BooksTyped

LEMMA FillMatches ==
  ASSUME BooksTyped, LotsMatchPosition, NEW s \in Symbol, NEW side \in {1, -1}, NEW q \in Qty,
         NEW p \in Price, NEW fee \in Fee, NEW mid \in Price, NEW l, NEW h,
         Filled(s, side, q, p, fee, mid, l, h)
  PROVE  LotsMatchPosition'
<1>1. /\ position' = [position EXCEPT ![s] = position[s] + side * q]
      /\ SharesHeld(l) - SharesHeld(h) = position[s] + side * q
      /\ l = << >> \/ h = << >>
      /\ long' = [long EXCEPT ![s] = l] /\ short' = [short EXCEPT ![s] = h]
  BY DEF Filled, Settle, Accounted
<1>2. book'[s].qty = book[s].qty + side * q
  BY FillTyped
<1>3. \A r \in Symbol \ {s} : book'[r] = book[r]
  BY DEF Filled, LedgerFill, BooksTyped
<1>4. /\ DOMAIN position = Symbol /\ DOMAIN long = Symbol /\ DOMAIN short = Symbol
  BY DEF BooksTyped
<1>5. ASSUME NEW r \in Symbol
      PROVE  /\ position'[r] = SharesHeld(long'[r]) - SharesHeld(short'[r])
             /\ long'[r] = << >> \/ short'[r] = << >>
             /\ book'[r].qty = position'[r]
  <2>1. CASE r = s
    <3>1. position'[s] = position[s] + side * q /\ long'[s] = l /\ short'[s] = h
      BY <1>1, <1>4
    <3>2. book[s].qty = position[s]
      BY DEF LotsMatchPosition
    <3> QED
      BY <1>1, <1>2, <2>1, <3>1, <3>2
  <2>2. CASE r # s
    <3>1. /\ position'[r] = position[r] /\ long'[r] = long[r] /\ short'[r] = short[r]
          /\ book'[r] = book[r]
      BY <1>1, <1>3, <1>4, <2>2
    <3> QED
      BY <3>1 DEF LotsMatchPosition
  <2> QED
    BY <2>1, <2>2
<1> QED
  BY <1>5 DEF LotsMatchPosition

\* The cash a fill moves is what its lots cost less what they earn, and the fee.
LEMMA FillKeepsCash ==
  ASSUME BooksTyped, CashInv, NEW s \in Symbol, NEW side \in {1, -1}, NEW q \in Qty,
         NEW p \in Price, NEW fee \in Fee, NEW mid \in Price, NEW l, NEW h,
         Filled(s, side, q, p, fee, mid, l, h)
  PROVE  CashInv'
<1> DEFINE f == [r \in Symbol |-> CostOf(long[r]) - CostOf(short[r])]
           g == [r \in Symbol |-> CostOf(long'[r]) - CostOf(short'[r])]
           x == q * p
<1>1. \A r \in Symbol : f[r] \in Int
  <2>1. \A r \in Symbol : long[r] \in Seq(Lot) /\ short[r] \in Seq(Lot)
    BY DEF BooksTyped
  <2>2. \A r \in Symbol : CostOf(long[r]) \in Int /\ CostOf(short[r]) \in Int
    BY <2>1, SharesPositive
  <2> QED
    BY <2>2
<1>2. \A r \in Symbol : g[r] \in Int
  <2>1. \A r \in Symbol : long'[r] \in Seq(Lot) /\ short'[r] \in Seq(Lot)
    BY FillTyped DEF BooksTyped
  <2>2. \A r \in Symbol : CostOf(long'[r]) \in Int /\ CostOf(short'[r]) \in Int
    BY <2>1, SharesPositive
  <2> QED
    BY <2>2
<1>3. /\ long'[s] = l /\ short'[s] = h
      /\ \A r \in Symbol \ {s} : long'[r] = long[r] /\ short'[r] = short[r]
  BY DEF Filled, Accounted, BooksTyped
<1>4. f[s] = CostOf(long[s]) - CostOf(short[s]) /\ g[s] = CostOf(l) - CostOf(h)
      /\ \A r \in Symbol \ {s} : f[r] = g[r]
  BY <1>3
<1>5. Invested = SumFunctionOnSet(f, Symbol) /\ Invested' = SumFunctionOnSet(g, Symbol)
  BY DEF Invested
<1>6. realized' - (CostOf(l) - CostOf(h)) = realized - (CostOf(long[s]) - CostOf(short[s])) - side * x
  BY DEF Filled, Accounted
<1>7. cash' = cash - side * (x + side * fee) /\ fees' = fees + fee
  BY DEF Filled, Settle, TotalCost
<1>8. x \in Int /\ fee \in Int
  BY AccountingAssumption
<1> HIDE DEF f, g, x
<1>9. Invested \in Int /\ Invested' \in Int /\ Invested' = Invested + (g[s] - f[s])
  <2>1. IsFiniteSet(Symbol)
    BY AccountingAssumption
  <2> QED
    BY <1>1, <1>2, <1>4, <1>5, <2>1, SumChanged
<1>10. cash' = cash - side * x - fee
  <2>1. side * (x + side * fee) = side * x + fee /\ side * x \in Int
    BY <1>8
  <2> QED
    BY <1>7, <1>8, <2>1 DEF BooksTyped
<1>11. realized' - g[s] = realized - f[s] - side * x
  BY <1>4, <1>6
<1>12. cash' = InitialCash + realized' - fees' - Invested'
  <2> DEFINE y == side * x
             u == g[s]
             v == f[s]
             r == realized'
             i == Invested'
  <2>1. y \in Int /\ u \in Int /\ v \in Int /\ r \in Int /\ i \in Int /\ realized \in Int
        /\ fees \in Int /\ cash \in Int /\ InitialCash \in Int /\ Invested \in Int
    <3>1. r \in Int
      BY DEF Filled, Accounted
    <3>2. y \in Int
      BY <1>8
    <3> QED
      BY <1>1, <1>2, <1>9, <3>1, <3>2, AccountingAssumption DEF BooksTyped
  <2>2. /\ r - u = realized - v - y /\ i = Invested + (u - v) /\ cash' = cash - y - fee
        /\ fees' = fees + fee /\ cash = InitialCash + realized - fees - Invested
    BY <1>7, <1>9, <1>10, <1>11 DEF CashInv
  <2> HIDE DEF y, u, v, r, i
  <2>3. cash' = InitialCash + r - fees' - i
    BY <1>8, <2>1, <2>2
  <2> QED
    BY <2>3 DEF r, i
<1> QED
  BY <1>12 DEF CashInv

-----------------------------------------------------------------------------
(* The invariant *)

BooksInv == BooksTyped /\ LotsMatchPosition /\ CashInv

LEMMA BooksInitially ==
  Init => BooksInv
<1> SUFFICES ASSUME Init PROVE BooksInv
  OBVIOUS
<1>1. \A s \in Symbol : /\ long[s] = << >> /\ short[s] = << >> /\ position[s] = 0
                        /\ book[s] = [avg |-> Whole(0), qty |-> 0]
  BY DEF Init
<1>2. << >> \in Seq(Lot) /\ << >> \in Seq(Entry) /\ Len(<< >>) = 0
      /\ SharesHeld(<< >>) = 0 /\ CostOf(<< >>) = 0
  BY EmptySeq, NoLots
<1>3. BooksTyped
  <2>1. [avg |-> Whole(0), qty |-> 0] \in [avg : Fraction, qty : Int]
    BY DEF Whole, Fraction
  <2>2. book \in [Symbol -> [avg : Fraction, qty : Int]]
    BY <2>1 DEF Init
  <2>3. long \in [Symbol -> Seq(Lot)] /\ short \in [Symbol -> Seq(Lot)]
    BY <1>2, Zenon DEF Init
  <2>4. /\ cash \in Int /\ realized \in Int /\ fees \in Nat /\ position \in [Symbol -> Int]
        /\ mark \in [Symbol -> Price \cup {0}]
    BY AccountingAssumption DEF Init
  <2>5. entries \in Seq(Entry) /\ Len(entries) <= MaxEntries
    BY <1>2, AccountingAssumption DEF Init
  <2> QED
    BY <2>2, <2>3, <2>4, <2>5 DEF BooksTyped
<1>4. LotsMatchPosition
  BY <1>1, <1>2 DEF LotsMatchPosition
<1>5. CashInv
  <2> DEFINE f == [s \in Symbol |-> CostOf(long[s]) - CostOf(short[s])]
  <2>1. \A s \in Symbol : f[s] = 0
    BY <1>1, <1>2
  <2>2. Invested = SumFunctionOnSet(f, Symbol)
    BY DEF Invested
  <2> HIDE DEF f
  <2>3. Invested = 0
    BY <2>1, <2>2, AccountingAssumption, SumOfZeros
  <2> QED
    BY <2>3, AccountingAssumption DEF CashInv, Init
<1> QED
  BY <1>3, <1>4, <1>5 DEF BooksInv

\* Marking a position to the market writes to the ledger alone.
LEMMA MarkKeeps ==
  ASSUME BooksInv, NEW s \in Symbol, NEW price \in Price, Len(entries) < MaxEntries,
         MarkToMarket(s, price)
  PROVE  BooksInv'
<1> DEFINE qty == IF book[s].qty # 0 THEN book[s].qty ELSE position[s]
           pos == [book[s] EXCEPT !.qty = qty]
           entry == [symbol |-> s, realized |-> Whole(0), fee |-> 0,
                     unrealized |-> Unrealized(pos, price)]
<1>1. /\ entries' = Append(entries, entry) /\ mark' = [mark EXCEPT ![s] = price]
      /\ UNCHANGED <<cash, position, realized, fills, fees, long, short, book>>
  BY Zenon DEF MarkToMarket, bookkeeper
<1>2. BooksTyped
  BY DEF BooksInv
<1>3. pos \in [avg : Fraction, qty : Int]
  BY <1>2 DEF BooksTyped
<1>4. entry \in Entry
  <2> HIDE DEF pos
  <2>1. price \in Int /\ 0 \in Int
    BY AccountingAssumption
  <2>2. \A r \in [avg : Fraction, qty : Int] : Unrealized(r, price) \in Fraction
    BY <1>2, <2>1, LedgerTyped
  <2>3. Unrealized(pos, price) \in Fraction
    BY <1>3, <2>2, Zenon
  <2>4. Whole(0) \in Fraction
    BY FractionsTyped
  <2> QED
    BY <2>3, <2>4 DEF Entry
<1> HIDE DEF entry
<1>5. entries' \in Seq(Entry) /\ Len(entries') <= MaxEntries
  <2>1. entries' \in Seq(Entry) /\ Len(entries') = Len(entries) + 1 /\ Len(entries) \in Nat
    BY <1>1, <1>2, <1>4, AppendProperties, LenProperties DEF BooksTyped
  <2> QED
    BY <2>1, AccountingAssumption
<1>6. mark' \in [Symbol -> Price \cup {0}]
  BY <1>1, <1>2 DEF BooksTyped
<1>7. BooksTyped'
  BY <1>1, <1>2, <1>5, <1>6 DEF BooksTyped
<1>8. LotsMatchPosition'
  BY <1>1 DEF BooksInv, LotsMatchPosition
<1>9. CashInv'
  BY <1>1 DEF BooksInv, CashInv, Invested
<1> QED
  BY <1>7, <1>8, <1>9 DEF BooksInv

\* A purchase and a sale are fills, whichever of the four accounting paths of
\* record_fill they take.
LEMMA BuyFills ==
  ASSUME BooksInv, NEW s \in Symbol, NEW q \in Qty, NEW p \in Price, NEW fee \in Fee,
         NEW mid \in Price, Len(entries) < MaxEntries, Buy(s, q, p, fee, mid)
  PROVE  \E l, h : Filled(s, 1, q, p, fee, mid, l, h)
<1>1. q \in Nat /\ 1 * q = q
  BY AccountingAssumption
<1>2. BooksTyped /\ LotsMatchPosition
  BY DEF BooksInv
<1>3. \E l, h : Accounted(s, 1, q, p, l, h)
  <2>1. CASE OpenLong(s, q, p)
    BY <1>1, <1>2, <2>1, OpenLongAccounted
  <2>2. CASE CoverShort(s, q, p)
    BY <1>1, <1>2, <2>2, CoverShortAccounted
  <2> QED
    BY <2>1, <2>2 DEF Buy
<1>4. PICK l, h : Accounted(s, 1, q, p, l, h)
  BY <1>3
<1>5. Settle(s, 1, q, p, fee) /\ LedgerFill(s, 1 * q, p, fee, mid)
  <2>1. Settle(s, 1, q, p, fee) /\ LedgerFill(s, q, p, fee, mid)
    BY DEF Buy
  <2> QED
    BY <1>1, <2>1, Zenon
<1>6. Filled(s, 1, q, p, fee, mid, l, h)
  BY <1>4, <1>5 DEF Filled
<1> QED
  BY <1>6

LEMMA SellFills ==
  ASSUME BooksInv, NEW s \in Symbol, NEW q \in Qty, NEW p \in Price, NEW fee \in Fee,
         NEW mid \in Price, Len(entries) < MaxEntries, Sell(s, q, p, fee, mid)
  PROVE  \E l, h : Filled(s, -1, q, p, fee, mid, l, h)
<1> DEFINE sold == -1
<1>1. q \in Nat /\ sold * q = -q
  BY AccountingAssumption
<1>2. BooksTyped /\ LotsMatchPosition
  BY DEF BooksInv
<1>3. \E l, h : Accounted(s, sold, q, p, l, h)
  <2>1. CASE OpenShort(s, q, p)
    BY <1>1, <1>2, <2>1, OpenShortAccounted
  <2>2. CASE CloseLong(s, q, p)
    BY <1>1, <1>2, <2>2, CloseLongAccounted
  <2> QED
    BY <2>1, <2>2 DEF Sell
<1>4. PICK l, h : Accounted(s, sold, q, p, l, h)
  BY <1>3
<1>5. Settle(s, sold, q, p, fee) /\ LedgerFill(s, sold * q, p, fee, mid)
  <2>1. Settle(s, sold, q, p, fee) /\ LedgerFill(s, -q, p, fee, mid)
    BY DEF Sell
  <2> QED
    BY <1>1, <2>1, Zenon
<1>6. Filled(s, sold, q, p, fee, mid, l, h)
  <2> HIDE DEF sold
  <2> QED
    BY <1>4, <1>5 DEF Filled
<1> QED
  BY <1>6

\* Every step that changes the books is a mark to the market or a fill.
Marked == \E s \in Symbol, price \in Price : Len(entries) < MaxEntries /\ MarkToMarket(s, price)
Traded == \E s \in Symbol, side \in {1, -1}, q \in Qty, p \in Price, fee \in Fee, mid \in Price :
            \E l, h : Filled(s, side, q, p, fee, mid, l, h)

LEMMA StepsAreFills ==
  ASSUME BooksInv, [Next]_vars
  PROVE  UNCHANGED vars \/ Marked \/ Traded
<1>1. ASSUME Len(entries) < MaxEntries, NEW s \in Symbol, NEW price \in Price, NEW q \in Qty,
             NEW p \in Price, NEW fee \in Fee, Buy(s, q, p, fee, price)
      PROVE  Traded
  <2>1. \E l, h : Filled(s, 1, q, p, fee, price, l, h)
    BY <1>1, BuyFills
  <2>2. 1 \in {1, -1}
    OBVIOUS
  <2> QED
    BY <2>1, <2>2, Zenon DEF Traded
<1>2. ASSUME Len(entries) < MaxEntries, NEW s \in Symbol, NEW price \in Price, NEW q \in Qty,
             NEW p \in Price, NEW fee \in Fee, Sell(s, q, p, fee, price)
      PROVE  Traded
  <2>1. \E l, h : Filled(s, -1, q, p, fee, price, l, h)
    BY <1>2, SellFills
  <2>2. -1 \in {1, -1}
    OBVIOUS
  <2> QED
    BY <2>1, <2>2, Zenon DEF Traded
<1> QED
  BY <1>1, <1>2, Zenon DEF Next, Full, Marked

LEMMA BooksStep ==
  BooksInv /\ [Next]_vars => BooksInv'
<1> SUFFICES ASSUME BooksInv, [Next]_vars PROVE BooksInv'
  OBVIOUS
<1>1. CASE UNCHANGED vars
  BY <1>1 DEF vars, BooksInv, BooksTyped, LotsMatchPosition, CashInv, Invested
<1>2. CASE Marked
  BY <1>2, MarkKeeps DEF Marked
<1>3. CASE Traded
  BY <1>3, FillTyped, FillMatches, FillKeepsCash DEF Traded, BooksInv
<1> QED
  BY <1>1, <1>2, <1>3, StepsAreFills

LEMMA BooksCorrect ==
  Spec => []BooksInv
BY BooksInitially, BooksStep, PTL DEF Spec

-----------------------------------------------------------------------------
(* Net asset value *)

\* sign shares at an average cost of c / k each, valued at a price.
LEMMA OpenWorth ==
  ASSUME NEW c \in Int, NEW k \in Nat \ {0}, NEW price \in Int, NEW sign \in {1, -1},
         NEW held, held = sign * k, NEW f, f = Times(held, Whole(price) -- Over(Whole(c), k))
  PROVE  f \in Fraction /\ Worth(f, 1, held * price - sign * c)
<1> DEFINE one == 1
           avg == Over(Whole(c), k)
           gain == Whole(price) -- avg
<1>1. one \in Nat \ {0} /\ c * one = c /\ one * k = k /\ held \in Int /\ k \in Int /\ one \in Int
  OBVIOUS
<1> HIDE DEF one
<1>2. avg \in Fraction /\ Worth(avg, k, c)
  <2>1. Whole(c) \in Fraction /\ Worth(Whole(c), one, c)
    BY <1>1, WorthOfWhole
  <2>2. avg \in Fraction /\ Worth(avg, one * k, c)
    BY <1>1, <2>1, WorthOfOver
  <2> QED
    BY <1>1, <2>2
<1>3. Whole(price) \in Fraction /\ Worth(Whole(price), k, price * k) /\ price * k \in Int
  BY <1>1, WorthOfWhole, ProductTyped
<1> HIDE DEF avg
<1>4. gain \in Fraction /\ Worth(gain, k, price * k - c) /\ price * k - c \in Int
  BY <1>2, <1>3, WorthOfDifference
<1>5. f = Times(held, gain)
  BY DEF avg
<1> HIDE DEF gain
<1>6. f \in Fraction /\ Worth(f, k, held * (price * k - c))
  BY <1>1, <1>4, <1>5, WorthOfTimes
<1>7. held * (price * k - c) = (held * price - sign * c) * k /\ held * price - sign * c \in Int
  <2>1. CASE sign = 1
    <3>1. held = k /\ sign * c = c
      BY <2>1
    <3>2. k * (price * k - c) = (k * price - c) * k /\ k * price - c \in Int
      BY <1>1
    <3> QED
      BY <3>1, <3>2
  <2>2. CASE sign = -1
    <3>1. held = -k /\ sign * c = -c
      BY <2>2
    <3>2. (-k) * (price * k - c) = ((-k) * price - (-c)) * k /\ (-k) * price - (-c) \in Int
      BY <1>1
    <3> QED
      BY <3>1, <3>2
  <2> QED
    BY <2>1, <2>2
<1>8. Worth(f, one, held * price - sign * c)
  <2>1. Worth(f, one * k, (held * price - sign * c) * k)
    BY <1>1, <1>6, <1>7
  <2> QED
    BY <1>1, <1>6, <1>7, <2>1, WorthRefined
<1> QED
  BY <1>6, <1>8 DEF one

\* The open profit of a symbol is its value less what its lots have cost.
LEMMA OpenOfSymbol ==
  ASSUME BooksTyped, LotsMatchPosition, NEW s \in Symbol, NEW price \in Int,
         NEW f, f = Times(position[s], Whole(price) -- AverageCost(s))
  PROVE  /\ f \in Fraction
         /\ Worth(f, 1, position[s] * price - (CostOf(long[s]) - CostOf(short[s])))
<1> DEFINE held == position[s]
           bought == CostOf(long[s])
           sold == CostOf(short[s])
           number == IF held > 0 THEN SharesHeld(long[s]) ELSE SharesHeld(short[s])
           cost == IF held > 0 THEN bought ELSE sold
           sign == IF held > 0 THEN 1 ELSE -1
<1>1. /\ held \in Int /\ bought \in Int /\ sold \in Int
      /\ SharesHeld(long[s]) \in Nat /\ SharesHeld(short[s]) \in Nat
      /\ held = SharesHeld(long[s]) - SharesHeld(short[s])
      /\ held >= 0 => SharesHeld(short[s]) = 0 /\ sold = 0
      /\ held <= 0 => SharesHeld(long[s]) = 0 /\ bought = 0
  BY Queues
<1>2. CASE held = 0
  <2>1. AverageCost(s) = Whole(0)
    BY <1>2 DEF AverageCost
  <2> DEFINE g == Whole(price) -- Whole(0)
  <2>2. g \in Fraction /\ f = Times(0, g)
    BY <1>2, <2>1, FractionsTyped
  <2> HIDE DEF g
  <2>3. f \in Fraction /\ f.num = 0
    <3>1. g.num \in Int /\ f = [g EXCEPT !.num = 0 * g.num]
      BY <2>2 DEF Fraction, Times
    <3>2. f.num = 0 * g.num
      BY <2>2, <3>1 DEF Fraction
    <3>3. f \in Fraction
      BY <2>2, FractionsTyped
    <3> QED
      BY <3>1, <3>2, <3>3
  <2>4. held * price - (bought - sold) = 0
    BY <1>1, <1>2
  <2> QED
    BY <2>3, <2>4 DEF Worth, Fraction
<1>3. CASE held # 0
  <2>1. number \in Nat \ {0} /\ held = sign * number /\ sign * cost = bought - sold
        /\ cost \in Int /\ sign \in {1, -1}
    BY <1>1, <1>3
  <2>2. (IF held > 0 THEN long[s] ELSE short[s]) # << >>
    BY <1>1, <1>3, NoLots
  <2>3. AverageCost(s) = Over(Whole(cost), number)
    BY <1>3, <2>2 DEF AverageCost
  <2> HIDE DEF number, cost, sign
  <2>4. f \in Fraction /\ Worth(f, 1, held * price - sign * cost)
    BY <2>1, <2>3, OpenWorth
  <2> QED
    BY <2>1, <2>4
<1> QED
  BY <1>2, <1>3

\* Cash less what the open lots took of it, plus their open profit, is what
\* the account is worth.
LEMMA NavFromCash ==
  ASSUME BooksInv
  PROVE  NavIdentity
<1> SUFFICES ASSUME NEW prices \in [Symbol -> Price]
             PROVE  Whole(Nav(prices) - InitialCash) \cong (OpenProfit(prices) ++ Whole(realized - fees))
  BY DEF NavIdentity
<1>0. \A s \in Symbol : prices[s] \in Int
  <2> TAKE s \in Symbol
  <2>1. prices[s] \in Price
    OBVIOUS
  <2>2. \A x \in Price : x \in Int
    BY AccountingAssumption
  <2> QED
    BY <2>1, <2>2, Zenon
<1> DEFINE value == [s \in Symbol |-> position[s] * prices[s]]
           cost == [s \in Symbol |-> CostOf(long[s]) - CostOf(short[s])]
           gain == [s \in Symbol |-> value[s] - cost[s]]
           open == [s \in Symbol |-> Times(position[s], Whole(prices[s]) -- AverageCost(s))]
           one == 1
<1>1. BooksTyped /\ LotsMatchPosition /\ CashInv /\ IsFiniteSet(Symbol) /\ one \in Nat \ {0}
  BY AccountingAssumption DEF BooksInv
<1>2. \A s \in Symbol : value[s] \in Int /\ cost[s] \in Int /\ gain[s] \in Int
                        /\ value[s] = cost[s] + gain[s]
  <2> TAKE s \in Symbol
  <2>1. position[s] \in Int /\ CostOf(long[s]) \in Int /\ CostOf(short[s]) \in Int
    BY <1>1, Queues
  <2>2. position[s] * prices[s] \in Int
    BY <1>0, <2>1, ProductTyped
  <2> QED
    BY <2>1, <2>2
<1>3. \A s \in Symbol : open[s] \in Fraction /\ Worth(open[s], one, gain[s])
  <2> TAKE s \in Symbol
  <2>1. prices[s] \in Int
    BY <1>0
  <2> DEFINE f == Times(position[s], Whole(prices[s]) -- AverageCost(s))
  <2>2. open[s] = f /\ gain[s] = position[s] * prices[s] - (CostOf(long[s]) - CostOf(short[s]))
    OBVIOUS
  <2> HIDE DEF open, gain, f
  <2>3. f \in Fraction /\ Worth(f, 1, position[s] * prices[s] - (CostOf(long[s]) - CostOf(short[s])))
    BY <1>1, <2>1, OpenOfSymbol DEF f
  <2> QED
    BY <2>2, <2>3
<1>4. DOMAIN value = Symbol /\ open \in [Symbol -> Fraction]
  <2>1. open = [s \in Symbol |-> open[s]]
    OBVIOUS
  <2> QED
    BY <1>3, <2>1
<1>5. OpenProfit(prices) = FoldFunction(++, Whole(0), open)
  BY Zenon DEF OpenProfit, OverSymbols
<1>6. Nav(prices) = cash + SumFunctionOnSet(value, Symbol) /\ Invested = SumFunctionOnSet(cost, Symbol)
  BY <1>4 DEF Nav, SumFunction, Invested
<1> HIDE DEF value, cost, gain, open, one
<1>7. OpenProfit(prices) \in Fraction /\ Worth(OpenProfit(prices), one, SumFunctionOnSet(gain, Symbol))
  BY <1>1, <1>2, <1>3, <1>4, <1>5, WorthOfFold
<1> DEFINE v == SumFunctionOnSet(value, Symbol)
           c == SumFunctionOnSet(cost, Symbol)
           g == SumFunctionOnSet(gain, Symbol)
<1>8. v = c + g
  BY <1>1, <1>2, SumPlus
<1>9. v \in Int /\ c \in Int /\ g \in Int
  BY <1>1, <1>2, SumInt
<1>10. cash = InitialCash + realized - fees - c /\ Nav(prices) = cash + v
  BY <1>1, <1>6 DEF CashInv
<1> HIDE DEF v, c, g
<1>11. /\ Nav(prices) - InitialCash \in Int /\ realized - fees \in Int
       /\ Nav(prices) - InitialCash = g + (realized - fees)
  BY <1>1, <1>8, <1>9, <1>10, AccountingAssumption DEF BooksTyped
<1> DEFINE left == Whole(Nav(prices) - InitialCash)
           right == OpenProfit(prices) ++ Whole(realized - fees)
<1>12. left \in Fraction /\ Worth(left, one, g + (realized - fees))
  <2>1. (Nav(prices) - InitialCash) * one = Nav(prices) - InitialCash
    BY <1>11 DEF one
  <2>2. Worth(left, one, (Nav(prices) - InitialCash) * one) /\ left \in Fraction
    BY <1>1, <1>11, WorthOfWhole
  <2> QED
    BY <1>11, <2>1, <2>2
<1>13. right \in Fraction /\ Worth(right, one, g + (realized - fees))
  <2> DEFINE earned == realized - fees
  <2>1. earned \in Int /\ earned * one = earned
    BY <1>11 DEF one
  <2> HIDE DEF earned
  <2>2. Whole(earned) \in Fraction /\ Worth(Whole(earned), one, earned)
    BY <1>1, <2>1, WorthOfWhole
  <2>3. Worth(OpenProfit(prices), one, g)
    BY <1>7 DEF g
  <2>4. /\ OpenProfit(prices) ++ Whole(earned) \in Fraction
        /\ Worth(OpenProfit(prices) ++ Whole(earned), one, g + earned)
    BY <1>1, <1>7, <1>9, <2>1, <2>2, <2>3, WorthOfSum
  <2> QED
    BY <2>4 DEF earned
<1> HIDE DEF left, right
<1>14. left \cong right
  BY <1>1, <1>9, <1>11, <1>12, <1>13, SameWorth
<1> QED
  BY <1>14 DEF left, right

-----------------------------------------------------------------------------
(* The ledger's books *)

\* Over a common denominator d, a holds the average prices and total the
\* realised profit of the ledger.
PricedAt(d, a) ==
  /\ d \in Nat \ {0} /\ a \in [Symbol -> Int]
  /\ \A s \in Symbol : Worth(book[s].avg, d, a[s])

HeldAt(a) == SumFunctionOnSet([s \in Symbol |-> position[s] * a[s]], Symbol)

\* What the ledger has realised is the cash that came in and the average cost of
\* what is still open.
LedgerInv ==
  \E d, a : /\ PricedAt(d, a) /\ LedgerRealized \in Fraction
            /\ Worth(LedgerRealized, d, (cash - InitialCash + fees) * d + HeldAt(a))

\* The average price and the profit of a fill, over a denominator its
\* quantities divide.
Averaged(s, delta, p, d, x, n, y, g) ==
  /\ n \in Nat \ {0} /\ y \in Int /\ g \in Int
  /\ Worth(NewAverage(s, delta, p), d * n, y)
  /\ Worth(LedgerProfit(s, delta, p), d * n, g)
  /\ (book[s].qty + delta) * y = (book[s].qty * x) * n + (delta * p) * (d * n) + g

LEMMA AverageWorth ==
  ASSUME BooksTyped, NEW s \in Symbol, NEW delta \in Int, delta # 0, NEW p \in Int,
         NEW d \in Nat \ {0}, NEW x \in Int, Worth(book[s].avg, d, x)
  PROVE  \E n, y, g : Averaged(s, delta, p, d, x, n, y, g)
<1> DEFINE held == book[s].qty
           avg == book[s].avg
           qty == held + delta
           n == IF qty = 0 THEN 1 ELSE Size(qty)
           e == d * n
           old == x * n
           new == p * e
           closed == Smaller(Size(delta), Size(held))
           share == IF held > 0 THEN closed ELSE -closed
           paid == Whole(p) -- avg
           profit == LedgerProfit(s, delta, p)
           price == NewAverage(s, delta, p)
<1>1. held \in Int /\ avg \in Fraction /\ qty \in Int /\ qty = held + delta
  BY DEF BooksTyped
<1>2. n \in Nat \ {0} /\ (qty # 0 => n = Size(qty)) /\ (qty = 0 => n = 1)
  BY <1>1 DEF Size
<1>3. /\ price = IF qty = 0 THEN Whole(0)
                 ELSE IF held = 0 THEN Whole(p)
                 ELSE IF ~Opposite(held, delta)
                   THEN Over(Times(Size(held), avg) ++ Whole(p * Size(delta)), Size(qty))
                 ELSE IF ~Opposite(held, qty) THEN avg ELSE Whole(p)
      /\ profit = IF held # 0 /\ Opposite(held, delta) THEN Times(share, paid) ELSE Whole(0)
  BY Zenon DEF NewAverage, LedgerProfit
<1>4. Worth(avg, d, x)
  OBVIOUS
<1> HIDE DEF held, avg, qty, n
<1>5. e \in Nat \ {0} /\ e \in Int /\ old \in Int
  BY <1>2
<1>6. Worth(avg, e, old)
  BY <1>1, <1>2, <1>4, WorthRefined
<1>7. Whole(p) \in Fraction /\ Worth(Whole(p), e, new) /\ new \in Int
  BY <1>5, WorthOfWhole, ProductTyped
<1>8. Worth(Whole(0), e, 0)
  BY <1>5 DEF Worth, Whole
<1>9. paid \in Fraction /\ Worth(paid, e, new - old)
  <2> HIDE DEF e, old, new
  <2> QED
    BY <1>1, <1>5, <1>6, <1>7, WorthOfDifference
<1>10. (held * x) * n = held * old /\ (delta * p) * (d * n) = delta * new
  <2>1. n \in Int /\ d * n \in Int
    BY <1>2
  <2>2. (held * x) * n = held * (x * n)
    BY <1>1, <2>1, Assoc
  <2>3. (delta * p) * (d * n) = delta * (p * (d * n))
    BY <2>1, Assoc
  <2> QED
    BY <2>2, <2>3
<1> SUFFICES \E y, g \in Int : /\ Worth(price, e, y) /\ Worth(profit, e, g)
                               /\ qty * y = held * old + delta * new + g
  <2>1. PICK y \in Int, g \in Int : /\ Worth(price, e, y) /\ Worth(profit, e, g)
                               /\ qty * y = held * old + delta * new + g
    OBVIOUS
  <2>2. Averaged(s, delta, p, d, x, n, y, g)
    <3>1. (book[s].qty + delta) * y = (book[s].qty * x) * n + (delta * p) * (d * n) + g
      BY <1>10, <2>1, Zenon DEF qty, held
    <3>2. n \in Nat \ {0}
      BY <1>2
    <3> QED
      BY <2>1, <3>1, <3>2, Zenon DEF Averaged
  <2> QED
    BY <1>2, <2>2
<1> HIDE DEF price, profit, e, old, new, paid
<1>11. ASSUME NEW m \in Int, profit = Times(m, paid)
       PROVE  Worth(profit, e, m * (new - old)) /\ m * (new - old) \in Int
  <2>1. new - old \in Int
    BY <1>5, <1>7
  <2> DEFINE w == new - old
  <2> HIDE DEF w
  <2>2. w \in Int /\ Worth(paid, e, w)
    BY <1>9, <2>1 DEF w
  <2>3. Worth(profit, e, m * w) /\ m * w \in Int
    BY <1>5, <1>9, <1>11, <2>2, WorthOfTimes, ProductTyped
  <2> QED
    BY <2>3 DEF w
<1>12. CASE held = 0
  <2>1. qty = delta /\ qty # 0 /\ price = Whole(p) /\ profit = Whole(0)
    BY <1>1, <1>3, <1>12
  <2>2. qty * new = held * old + delta * new + 0
    BY <1>5, <1>7, <1>12, <2>1
  <2> QED
    BY <1>7, <1>8, <2>1, <2>2
<1>13. CASE held # 0 /\ ~Opposite(held, delta)
  <2> DEFINE sum == Times(Size(held), avg) ++ Whole(p * Size(delta))
             y == Size(held) * x + (p * Size(delta)) * d
  <2>1. Size(held) \in Int /\ Size(delta) \in Int /\ p * Size(delta) \in Int
        /\ Size(held) * x \in Int /\ (p * Size(delta)) * d \in Int
    <3>1. Size(held) \in Int /\ Size(delta) \in Int
      BY <1>1 DEF Size
    <3> QED
      BY <3>1
  <2>2. qty # 0 /\ n = Size(qty) /\ price = Over(sum, n) /\ profit = Whole(0)
    <3>1. qty # 0
      BY <1>1, <1>13 DEF Opposite
    <3> QED
      BY <1>2, <1>3, <1>13, <3>1
  <2>3. Worth(Times(Size(held), avg), d, Size(held) * x) /\ Times(Size(held), avg) \in Fraction
    BY <1>1, <1>4, <2>1, WorthOfTimes
  <2>4. Worth(Whole(p * Size(delta)), d, (p * Size(delta)) * d) /\ Whole(p * Size(delta)) \in Fraction
    BY <2>1, WorthOfWhole
  <2>5. sum \in Fraction /\ Worth(sum, d, y) /\ y \in Int
    BY <2>1, <2>3, <2>4, WorthOfSum
  <2>6. Worth(price, e, y)
    <3> HIDE DEF sum, y
    <3> QED
      BY <1>2, <2>2, <2>5, WorthOfOver DEF e
  <2>7. qty * y = held * old + delta * new + 0
    <3>1. CASE held > 0
      <4>1. Size(held) = held /\ Size(delta) = delta /\ n = qty
        BY <1>1, <1>13, <2>2, <3>1 DEF Size, Opposite
      <4>2. qty * (held * x + (p * delta) * d) = held * (x * qty) + delta * (p * (d * qty)) + 0
        BY <1>1
      <4> QED
        BY <4>1, <4>2 DEF old, new, e
    <3>2. CASE held < 0
      <4>1. Size(held) = -held /\ Size(delta) = -delta /\ n = -qty
        BY <1>1, <1>13, <2>2, <3>2 DEF Size, Opposite
      <4>2. qty * ((-held) * x + (p * (-delta)) * d) = held * (x * (-qty)) + delta * (p * (d * (-qty))) + 0
        BY <1>1
      <4> QED
        BY <4>1, <4>2 DEF old, new, e
    <3> QED
      BY <1>1, <1>13, <3>1, <3>2
  <2> HIDE DEF y, sum
  <2> QED
    BY <1>8, <2>2, <2>5, <2>6, <2>7
<1>14. CASE held # 0 /\ Opposite(held, delta)
  <2>1. profit = Times(share, paid) /\ share \in Int
    <3>1. share \in Int
      BY <1>1 DEF Smaller, Size
    <3> QED
      BY <1>3, <1>14, <3>1
  <2>2. CASE qty = 0
    <3>1. share = held /\ price = Whole(0) /\ delta = -held
      BY <1>1, <1>3, <1>14, <2>2 DEF Smaller, Size
    <3>2. Worth(profit, e, held * (new - old)) /\ held * (new - old) \in Int
      BY <1>11, <2>1, <3>1
    <3>3. qty * 0 = held * old + delta * new + held * (new - old)
      <4>1. 0 * 0 = held * old + (-held) * new + held * (new - old)
        BY <1>1, <1>5, <1>7
      <4> QED
        BY <2>2, <3>1, <4>1
    <3> QED
      BY <1>8, <3>1, <3>2, <3>3
  <2>3. CASE qty # 0 /\ ~Opposite(held, qty)
    <3>1. share = -delta /\ price = avg
      BY <1>1, <1>3, <1>14, <2>3 DEF Smaller, Size, Opposite
    <3>2. -delta \in Int
      OBVIOUS
    <3>3. Worth(profit, e, (-delta) * (new - old)) /\ (-delta) * (new - old) \in Int
      BY <1>11, <2>1, <3>1, <3>2
    <3>4. qty * old = held * old + delta * new + (-delta) * (new - old)
      <4>1. (held + delta) * old = held * old + delta * new + (-delta) * (new - old)
        BY <1>1, <1>5, <1>7
      <4> QED
        BY <1>1, <4>1
    <3> QED
      BY <1>5, <1>6, <3>1, <3>3, <3>4
  <2>4. CASE qty # 0 /\ Opposite(held, qty)
    <3>1. share = held /\ price = Whole(p)
      BY <1>1, <1>3, <1>14, <2>4 DEF Smaller, Size, Opposite
    <3>2. Worth(profit, e, held * (new - old)) /\ held * (new - old) \in Int
      BY <1>11, <2>1, <3>1
    <3>3. qty * new = held * old + delta * new + held * (new - old)
      <4>1. (held + delta) * new = held * old + delta * new + held * (new - old)
        BY <1>1, <1>5, <1>7
      <4> QED
        BY <1>1, <4>1
    <3> QED
      BY <1>7, <3>1, <3>2, <3>3
  <2> QED
    BY <2>2, <2>3, <2>4
<1> QED
  BY <1>12, <1>13, <1>14

\* The columns of the entries.
Profits(seq) == [i \in DOMAIN seq |-> seq[i].realized]
Charges(seq) == [i \in DOMAIN seq |-> seq[i].fee]

LEMMA ColumnsTyped ==
  ASSUME NEW seq \in Seq(Entry)
  PROVE  /\ Profits(seq) \in Seq(Fraction) /\ Charges(seq) \in Seq(Int)
         /\ Len(Profits(seq)) = Len(seq) /\ Len(Charges(seq)) = Len(seq)
<1> DEFINE n == Len(seq)
           ps == Profits(seq)
           cs == Charges(seq)
<1>1. n \in Nat /\ DOMAIN seq = 1 .. n /\ \A i \in 1 .. n : seq[i] \in Entry
  BY LenProperties, ElementOfSeq
<1>2. \A i \in 1 .. n : seq[i].realized \in Fraction /\ seq[i].fee \in Int
  BY <1>1 DEF Entry
<1>3. ps = [i \in 1 .. n |-> seq[i].realized] /\ cs = [i \in 1 .. n |-> seq[i].fee]
  BY <1>1 DEF Profits, Charges
<1> HIDE DEF n, ps, cs
<1>4. ps \in [1 .. n -> Fraction] /\ cs \in [1 .. n -> Int]
  BY <1>2, <1>3
<1>5. ps \in Seq(Fraction) /\ cs \in Seq(Int)
  BY <1>1, <1>4, IsASeq
<1>6. Len(ps) = n /\ Len(cs) = n
  <2>1. DOMAIN ps = 1 .. n /\ DOMAIN cs = 1 .. n
    BY <1>4
  <2> QED
    BY <1>1, <1>5, <2>1, LenProperties
<1> QED
  BY <1>5, <1>6 DEF n, ps, cs

\* An entry adds its profit and its fee.
LEMMA EntryAdded ==
  ASSUME NEW seq \in Seq(Entry), NEW e \in Entry
  PROVE  /\ FractionSum(Profits(seq)) \in Fraction
         /\ FractionSum(Profits(Append(seq, e))) = FractionSum(Profits(seq)) ++ e.realized
         /\ SumOf(Charges(seq)) \in Int
         /\ SumOf(Charges(Append(seq, e))) = SumOf(Charges(seq)) + e.fee
<1> DEFINE n == Len(seq)
           longer == Append(seq, e)
<1>1. /\ n \in Nat /\ longer \in Seq(Entry) /\ Len(longer) = n + 1 /\ DOMAIN longer = 1 .. n + 1
      /\ DOMAIN seq = 1 .. n /\ longer[n + 1] = e /\ \A i \in 1 .. n : longer[i] = seq[i]
  BY AppendProperties, LenProperties
<1>2. e.realized \in Fraction /\ e.fee \in Int
  BY DEF Entry
<1> HIDE DEF n, longer
<1>3. Profits(longer) = Append(Profits(seq), e.realized)
  <2> DEFINE ps == Profits(seq)
             more == Append(ps, e.realized)
             got == Profits(longer)
  <2>1. ps \in Seq(Fraction) /\ Len(ps) = n /\ got \in Seq(Fraction) /\ Len(got) = n + 1
    BY <1>1, ColumnsTyped DEF n
  <2>2. \A i \in 1 .. n : ps[i] = seq[i].realized
    BY <1>1 DEF Profits
  <2>3. \A i \in 1 .. n + 1 : got[i] = longer[i].realized
    BY <1>1 DEF Profits
  <2> HIDE DEF ps, got
  <2>4. more \in Seq(Fraction) /\ Len(more) = n + 1 /\ more[n + 1] = e.realized
        /\ \A i \in 1 .. n : more[i] = ps[i]
    BY <1>2, <2>1, AppendProperties
  <2> HIDE DEF more
  <2>5. \A i \in 1 .. n + 1 : got[i] = more[i]
    <3> TAKE i \in 1 .. n + 1
    <3>1. CASE i \in 1 .. n
      BY <1>1, <2>2, <2>3, <2>4, <3>1
    <3>2. CASE i = n + 1
      BY <1>1, <2>3, <2>4, <3>2
    <3> QED
      BY <1>1, <3>1, <3>2
  <2>6. got = more
    BY <2>1, <2>4, <2>5, SeqEqual
  <2> QED
    BY <2>6 DEF got, more, ps
<1>4. Charges(longer) = Append(Charges(seq), e.fee)
  <2> DEFINE cs == Charges(seq)
             more == Append(cs, e.fee)
             got == Charges(longer)
  <2>1. cs \in Seq(Int) /\ Len(cs) = n /\ got \in Seq(Int) /\ Len(got) = n + 1
    BY <1>1, ColumnsTyped DEF n
  <2>2. \A i \in 1 .. n : cs[i] = seq[i].fee
    BY <1>1 DEF Charges
  <2>3. \A i \in 1 .. n + 1 : got[i] = longer[i].fee
    BY <1>1 DEF Charges
  <2> HIDE DEF cs, got
  <2>4. more \in Seq(Int) /\ Len(more) = n + 1 /\ more[n + 1] = e.fee
        /\ \A i \in 1 .. n : more[i] = cs[i]
    BY <1>2, <2>1, AppendProperties
  <2> HIDE DEF more
  <2>5. \A i \in 1 .. n + 1 : got[i] = more[i]
    <3> TAKE i \in 1 .. n + 1
    <3>1. CASE i \in 1 .. n
      BY <1>1, <2>2, <2>3, <2>4, <3>1
    <3>2. CASE i = n + 1
      BY <1>1, <2>3, <2>4, <3>2
    <3> QED
      BY <1>1, <3>1, <3>2
  <2>6. got = more
    BY <2>1, <2>4, <2>5, SeqEqual
  <2> QED
    BY <2>6 DEF got, more, cs
<1>5. Profits(seq) \in Seq(Fraction) /\ Charges(seq) \in Seq(Int)
  BY ColumnsTyped
<1>6. /\ FractionSum(Profits(seq)) \in Fraction
      /\ FractionSum(Profits(longer)) = FractionSum(Profits(seq)) ++ e.realized
  BY <1>2, <1>3, <1>5, FractionAdded DEF FractionSum
<1>7. SumOf(Charges(seq)) \in Int /\ SumOf(Charges(longer)) = SumOf(Charges(seq)) + e.fee
  BY <1>2, <1>4, <1>5, SumOfAppend
<1> QED
  BY <1>6, <1>7 DEF longer

\* The last entry values the position it is about, and the fees of the entries
\* are the bookkeeper's.
LastEntryInv ==
  /\ LedgerFees = fees
  /\ entries # << >> =>
       LET e == entries[Len(entries)]
       IN e.symbol \in Symbol /\ e.unrealized = Unrealized(book[e.symbol], mark[e.symbol])

\* Nothing is paid before the first entry, and a symbol without an entry has
\* never been traded.
SilentInv ==
  /\ entries = << >> => cash = InitialCash
  /\ \A s \in Symbol : (\A i \in DOMAIN entries : entries[i].symbol # s) => position[s] = 0

\* The entry e is written for the symbol s.
Wrote(s, e) ==
  /\ e \in Entry /\ e.symbol = s /\ entries' = Append(entries, e)
  /\ fees' = fees + e.fee
  /\ e.unrealized = Unrealized(book'[s], mark'[s])
  /\ \A r \in Symbol \ {s} : position'[r] = position[r]

LEMMA EntryKeeps ==
  ASSUME BooksTyped, LastEntryInv, SilentInv, NEW s \in Symbol, NEW e, Wrote(s, e)
  PROVE  LastEntryInv' /\ SilentInv'
<1> DEFINE n == Len(entries)
<1>1. entries \in Seq(Entry) /\ e \in Entry /\ entries' = Append(entries, e) /\ e.symbol = s
  BY DEF BooksTyped, Wrote
<1>2. /\ n \in Nat /\ Len(entries') = n + 1 /\ DOMAIN entries' = 1 .. n + 1
      /\ DOMAIN entries = 1 .. n /\ entries'[n + 1] = e /\ \A i \in 1 .. n : entries'[i] = entries[i]
  BY <1>1, AppendProperties, LenProperties
<1>3. LedgerFees' = fees'
  <2>1. LedgerFees = SumOf(Charges(entries)) /\ LedgerFees' = SumOf(Charges(entries'))
    BY DEF LedgerFees, Charges
  <2>2. SumOf(Charges(Append(entries, e))) = SumOf(Charges(entries)) + e.fee
    BY <1>1, EntryAdded
  <2>3. LedgerFees = fees /\ fees' = fees + e.fee
    BY DEF LastEntryInv, Wrote
  <2> QED
    BY <1>1, <2>1, <2>2, <2>3
<1>4. entries'[Len(entries')] = e
  BY <1>2
<1>5. e.unrealized = Unrealized(book'[s], mark'[s])
  BY DEF Wrote
<1>6. LastEntryInv'
  <2> DEFINE last == entries'[Len(entries')]
  <2>1. last = e
    BY <1>4
  <2>2. last.unrealized = Unrealized(book'[last.symbol], mark'[last.symbol]) /\ last.symbol \in Symbol
    BY <1>1, <1>5, <2>1
  <2> HIDE DEF last
  <2> QED
    BY <1>3, <2>2 DEF LastEntryInv, Unrealized, last
<1>7. SilentInv'
  <2>0. entries' # << >>
    BY <1>2
  <2> SUFFICES ASSUME NEW r \in Symbol, \A i \in 1 .. n + 1 : entries'[i].symbol # r
               PROVE  position'[r] = 0
    BY <1>2, <2>0 DEF SilentInv
  <2>1. r # s
    BY <1>1, <1>2
  <2>2. \A i \in 1 .. n : entries[i].symbol # r
    <3> TAKE i \in 1 .. n
    <3>1. i \in 1 .. n + 1 /\ entries'[i] = entries[i]
      BY <1>2
    <3> QED
      BY <3>1
  <2>3. position[r] = 0
    BY <1>2, <2>2 DEF SilentInv
  <2> QED
    BY <2>1, <2>3 DEF Wrote
<1> QED
  BY <1>6, <1>7

LEMMA FillWrites ==
  ASSUME BooksTyped, NEW s \in Symbol, NEW side \in {1, -1}, NEW q \in Qty, NEW p \in Price,
         NEW fee \in Fee, NEW mid \in Price, NEW l, NEW h, Filled(s, side, q, p, fee, mid, l, h)
  PROVE  \E e : /\ Wrote(s, e) /\ e.realized = LedgerProfit(s, side * q, p) /\ e.fee = fee
<1> DEFINE delta == side * q
           e == [symbol |-> s, realized |-> LedgerProfit(s, delta, p),
                 unrealized |-> Unrealized(book'[s], mid), fee |-> fee]
<1>1. entries' = Append(entries, e) /\ mark' = [mark EXCEPT ![s] = mid]
  BY DEF Filled, LedgerFill
<1>2. entries' \in Seq(Entry) /\ entries \in Seq(Entry)
  BY FillTyped DEF BooksTyped
<1>3. e.symbol = s /\ e.realized = LedgerProfit(s, delta, p) /\ e.fee = fee
      /\ e.unrealized = Unrealized(book'[s], mid)
  OBVIOUS
<1> HIDE DEF e
<1>4. e \in Entry
  <2>1. Len(entries') \in Nat /\ Len(entries') = Len(entries) + 1 /\ Len(entries) \in Nat
        /\ entries'[Len(entries) + 1] = e
    BY <1>1, <1>2, AppendProperties, LenProperties
  <2> QED
    BY <1>2, <2>1, ElementOfSeq
<1>5. mark'[s] = mid
  BY <1>1 DEF BooksTyped
<1>6. fees' = fees + e.fee /\ \A r \in Symbol \ {s} : position'[r] = position[r]
  BY <1>3 DEF Filled, Settle, BooksTyped
<1>7. Wrote(s, e)
  BY <1>1, <1>3, <1>4, <1>5, <1>6 DEF Wrote
<1> QED
  BY <1>3, <1>7

\* A fill at an average price worth x / d: the ledger moves to the denominator
\* d * n, and stays in step with the cash.
LEMMA FillKeepsLedger ==
  ASSUME BooksTyped, LotsMatchPosition, LedgerInv, NEW s \in Symbol, NEW side \in {1, -1},
         NEW q \in Qty, NEW p \in Price, NEW fee \in Fee, NEW mid \in Price, NEW l, NEW h,
         Filled(s, side, q, p, fee, mid, l, h)
  PROVE  LedgerInv'
<1> DEFINE delta == side * q
           received == cash - InitialCash + fees
           total == LedgerRealized
           profit == LedgerProfit(s, delta, p)
<1>1. delta \in Int /\ delta # 0 /\ p \in Int /\ q \in Int /\ fee \in Int /\ delta * p \in Int
  BY AccountingAssumption
<1>2. /\ received \in Int /\ (cash' - InitialCash + fees') = received - delta * p
      /\ position' = [position EXCEPT ![s] = position[s] + delta]
  <2>1. /\ cash' = cash - side * (q * p + side * fee) /\ fees' = fees + fee
        /\ position' = [position EXCEPT ![s] = position[s] + delta]
    BY DEF Filled, Settle, TotalCost
  <2>2. side * (q * p + side * fee) = delta * p + fee /\ delta * p \in Int
    <3>1. q * p \in Int
      BY <1>1
    <3> QED
      BY <1>1, <3>1
  <2>3. cash \in Int /\ fees \in Int /\ InitialCash \in Int
    BY AccountingAssumption DEF BooksTyped
  <2> DEFINE amount == delta * p
  <2> HIDE DEF amount, delta
  <2>4. cash' = cash - (amount + fee) /\ amount \in Int
    BY <1>1, <2>1, <2>2 DEF amount
  <2>5. (cash' - InitialCash + fees') = received - amount /\ received \in Int
    BY <1>1, <2>1, <2>3, <2>4
  <2> QED
    BY <2>1, <2>5 DEF amount
<1>3. PICK d, a : PricedAt(d, a) /\ total \in Fraction /\ Worth(total, d, received * d + HeldAt(a))
  BY DEF LedgerInv
<1>4. d \in Nat \ {0} /\ a \in [Symbol -> Int] /\ \A r \in Symbol : Worth(book[r].avg, d, a[r])
  BY <1>3 DEF PricedAt
<1>5. PICK n, y, g : Averaged(s, delta, p, d, a[s], n, y, g)
  <2> DEFINE x == a[s]
  <2>1. x \in Int /\ Worth(book[s].avg, d, x)
    BY <1>4
  <2> HIDE DEF x, delta
  <2>2. \E n, y, g : Averaged(s, delta, p, d, x, n, y, g)
    BY <1>1, <1>4, <2>1, AverageWorth
  <2> QED
    BY <2>2 DEF x
<1>0. n \in Nat \ {0}
  BY <1>5 DEF Averaged
<1> DEFINE e == d * n
           b == [r \in Symbol |-> IF r = s THEN y ELSE a[r] * n]
           f == [r \in Symbol |-> position[r] * a[r]]
           u == [r \in Symbol |-> f[r] * n]
           v == [r \in Symbol |-> position'[r] * b[r]]
           held == SumFunctionOnSet(f, Symbol)
           now == SumFunctionOnSet(v, Symbol)
<1>6. e \in Nat \ {0} /\ e \in Int /\ n \in Int /\ d \in Int /\ IsFiniteSet(Symbol)
  BY <1>0, <1>4, AccountingAssumption
<1>7. y \in Int /\ g \in Int /\ Worth(NewAverage(s, delta, p), e, y) /\ Worth(profit, e, g)
      /\ (book[s].qty + delta) * y = (book[s].qty * a[s]) * n + (delta * p) * e + g
  BY <1>5 DEF Averaged
<1>8. HeldAt(a) = held
  BY DEF HeldAt
<1>9. \A r \in Symbol : f[r] \in Int /\ u[r] \in Int /\ u[r] = f[r] * n
  <2> TAKE r \in Symbol
  <2>1. position[r] \in Int /\ a[r] \in Int
    BY <1>4 DEF BooksTyped
  <2>2. position[r] * a[r] \in Int /\ f[r] = position[r] * a[r] /\ u[r] = f[r] * n
    BY <2>1
  <2> HIDE DEF f, u
  <2> QED
    BY <1>6, <2>2, ProductTyped
<1>10. b \in [Symbol -> Int] /\ b[s] = y /\ \A r \in Symbol \ {s} : b[r] = a[r] * n
  BY <1>4, <1>6, <1>7
<1> HIDE DEF b, e, delta
<1>11. \A r \in Symbol : v[r] \in Int
  <2> TAKE r \in Symbol
  <2>1. position'[r] \in Int /\ b[r] \in Int
    BY <1>10, FillTyped DEF BooksTyped
  <2> QED
    BY <2>1
<1>12. v[s] - u[s] = (delta * p) * e + g /\ \A r \in Symbol \ {s} : u[r] = v[r]
  <2>1. position'[s] = position[s] + delta /\ position[s] = book[s].qty
        /\ \A r \in Symbol \ {s} : position'[r] = position[r]
    BY <1>2 DEF BooksTyped, LotsMatchPosition
  <2>2. v[s] = (book[s].qty + delta) * y /\ u[s] = (book[s].qty * a[s]) * n
    BY <1>10, <2>1
  <2>3. (delta * p) * e \in Int /\ u[s] \in Int
    BY <1>1, <1>6, <1>9
  <2>4. v[s] - u[s] = (delta * p) * e + g
    <3> DEFINE w == (delta * p) * e
               us == u[s]
    <3>1. v[s] = us + w + g /\ w \in Int /\ us \in Int
      BY <1>7, <2>2, <2>3
    <3> HIDE DEF us, w, v, u
    <3>2. v[s] - us = w + g
      BY <1>7, <3>1
    <3> QED
      BY <3>2 DEF us, w
  <2>5. ASSUME NEW r \in Symbol \ {s}
        PROVE  u[r] = v[r]
    <3>1. v[r] = position[r] * (a[r] * n) /\ u[r] = (position[r] * a[r]) * n
      BY <1>10, <2>1
    <3>2. position[r] \in Int /\ a[r] \in Int
      BY <1>4 DEF BooksTyped
    <3>3. (position[r] * a[r]) * n = position[r] * (a[r] * n)
      BY <1>6, <3>2, Assoc
    <3> QED
      BY <3>1, <3>3
  <2> QED
    BY <2>4, <2>5
<1> HIDE DEF f, u, v
<1>13. /\ held \in Int /\ now \in Int /\ now = held * n + ((delta * p) * e + g)
  <2> DEFINE mid1 == SumFunctionOnSet(u, Symbol)
  <2>1. held \in Int
    BY <1>6, <1>9, SumInt
  <2>2. mid1 = held * n
    BY <1>6, <1>9, SumScaled
  <2>3. /\ mid1 \in Int /\ now \in Int /\ now = mid1 + (v[s] - u[s])
    BY <1>6, <1>9, <1>11, <1>12, SumChanged
  <2> QED
    BY <1>12, <2>1, <2>2, <2>3
<1> HIDE DEF held, now
<1>14. (received * d + held) * n + g = (received - delta * p) * e + now
  <2> DEFINE m == delta * p
             t == received * d
  <2>1. m \in Int /\ t \in Int /\ t \in Int
    BY <1>1, <1>2, <1>6
  <2>2. t * n = received * e
    BY <1>2, <1>6, Assoc DEF e
  <2>3. now = held * n + (m * e + g)
    BY <1>13
  <2> HIDE DEF m, t, received
  <2>4. received \in Int
    BY <1>2 DEF received
  <2>5. (t + held) * n = t * n + held * n /\ (received - m) * e = received * e - m * e
        /\ t * n \in Int /\ held * n \in Int /\ m * e \in Int /\ received * e \in Int
    BY <1>6, <1>13, <2>1, <2>4
  <2>6. (t + held) * n + g = (received - m) * e + now
    BY <1>7, <2>2, <2>3, <2>5
  <2> QED
    BY <2>6 DEF m, t
<1>15. /\ total' \in Fraction /\ Worth(total', e, (received * d + held) * n + g)
  <2>1. PICK w : Wrote(s, w) /\ w.realized = profit
    BY FillWrites DEF delta
  <2>2. w \in Entry /\ entries' = Append(entries, w) /\ entries \in Seq(Entry)
    BY <2>1 DEF Wrote, BooksTyped
  <2>3. total' = total ++ profit
    <3>1. LedgerRealized = FractionSum(Profits(entries)) /\ LedgerRealized' = FractionSum(Profits(entries'))
      BY DEF LedgerRealized, Profits
    <3>2. FractionSum(Profits(Append(entries, w))) = FractionSum(Profits(entries)) ++ w.realized
      BY <2>2, EntryAdded
    <3> QED
      BY <2>1, <2>2, <3>1, <3>2, Zenon
  <2> DEFINE z == received * d + held
  <2>4. z \in Int /\ z * n \in Int
    <3>1. received * d \in Int
      BY <1>2, <1>6
    <3>2. z \in Int
      BY <1>13, <3>1
    <3> HIDE DEF z
    <3> QED
      BY <1>6, <3>2
  <2>5. Worth(total, d, z)
    BY <1>3, <1>8
  <2>6. profit \in Fraction
    BY <1>1, LedgerTyped
  <2> HIDE DEF z, profit, total
  <2>7. Worth(total, e, z * n)
    BY <1>0, <1>3, <1>4, <2>4, <2>5, WorthRefined DEF e
  <2>8. total ++ profit \in Fraction /\ Worth(total ++ profit, e, z * n + g)
    BY <1>3, <1>6, <1>7, <2>4, <2>6, <2>7, WorthOfSum
  <2> QED
    BY <2>3, <2>8 DEF z, total
<1>16. PricedAt(e, b)'
  <2>1. \A r \in Symbol : Worth(book'[r].avg, e, b[r])
    <3>1. book'[s].avg = NewAverage(s, delta, p)
          /\ \A r \in Symbol \ {s} : book'[r] = book[r]
      BY DEF Filled, LedgerFill, BooksTyped, delta
    <3>2. ASSUME NEW r \in Symbol \ {s}
          PROVE  Worth(book[r].avg, e, b[r])
      <4> DEFINE x == a[r]
                 avg == book[r].avg
      <4>1. Worth(avg, d, x) /\ x \in Int /\ avg \in Fraction
        BY <1>4 DEF BooksTyped
      <4>2. b[r] = x * n
        BY <1>10
      <4> HIDE DEF x, avg
      <4>3. Worth(avg, d * n, x * n)
        BY <1>0, <1>4, <4>1, WorthRefined
      <4> QED
        BY <4>2, <4>3 DEF avg, e
    <3> QED
      BY <1>7, <1>10, <3>1, <3>2
  <2> QED
    BY <1>6, <1>10, <2>1 DEF PricedAt
<1>17. HeldAt(b)' = now
  BY DEF HeldAt, now, v
<1>18. Worth(LedgerRealized', e, (cash' - InitialCash + fees') * e + HeldAt(b)')
  BY <1>2, <1>14, <1>15, <1>17
<1> QED
  BY <1>15, <1>16, <1>18 DEF LedgerInv

LEMMA MarkKeepsLedger ==
  ASSUME BooksInv, LedgerInv, LastEntryInv, SilentInv, NEW s \in Symbol, NEW price \in Price,
         Len(entries) < MaxEntries, MarkToMarket(s, price)
  PROVE  LedgerInv' /\ LastEntryInv' /\ SilentInv'
<1> DEFINE qty == IF book[s].qty # 0 THEN book[s].qty ELSE position[s]
           pos == [book[s] EXCEPT !.qty = qty]
           e == [symbol |-> s, realized |-> Whole(0), fee |-> 0,
                 unrealized |-> Unrealized(pos, price)]
<1>1. /\ entries' = Append(entries, e) /\ mark' = [mark EXCEPT ![s] = price]
      /\ UNCHANGED <<cash, position, realized, fills, fees, long, short, book>>
  BY Zenon DEF MarkToMarket, bookkeeper
<1>2. BooksTyped /\ BooksTyped' /\ LotsMatchPosition
  BY MarkKeeps DEF BooksInv
<1>3. pos = book[s]
  <2>1. book[s] \in [avg : Fraction, qty : Int] /\ book[s].qty = position[s]
    BY <1>2 DEF BooksTyped, LotsMatchPosition
  <2> QED
    BY <2>1
<1>4. e.symbol = s /\ e.realized = Whole(0) /\ e.fee = 0 /\ e.unrealized = Unrealized(book[s], price)
  BY <1>3
<1> HIDE DEF e, pos, qty
<1>5. entries \in Seq(Entry) /\ e \in Entry
  <2>1. entries \in Seq(Entry) /\ entries' \in Seq(Entry)
    BY <1>2 DEF BooksTyped
  <2>2. Len(entries') \in Nat /\ Len(entries') = Len(entries) + 1 /\ Len(entries) \in Nat
        /\ entries'[Len(entries) + 1] = e
    BY <1>1, <2>1, AppendProperties, LenProperties
  <2> QED
    BY <2>1, <2>2, ElementOfSeq
<1>6. Wrote(s, e)
  <2>1. mark'[s] = price /\ fees \in Int
    BY <1>1, <1>2 DEF BooksTyped
  <2>2. fees' = fees + e.fee
    <3>1. \A x \in Int : x + 0 = x
      OBVIOUS
    <3> QED
      BY <1>1, <1>4, <2>1, <3>1, Zenon
  <2> QED
    BY <1>1, <1>4, <1>5, <2>1, <2>2 DEF Wrote
<1>7. LastEntryInv' /\ SilentInv'
  BY <1>2, <1>6, EntryKeeps
<1>8. PICK d, a : /\ PricedAt(d, a) /\ LedgerRealized \in Fraction
                  /\ Worth(LedgerRealized, d, (cash - InitialCash + fees) * d + HeldAt(a))
  BY DEF LedgerInv
<1>9. LedgerRealized' = LedgerRealized ++ Whole(0)
  <2>1. LedgerRealized = FractionSum(Profits(entries)) /\ LedgerRealized' = FractionSum(Profits(entries'))
    BY DEF LedgerRealized, Profits
  <2>2. FractionSum(Profits(Append(entries, e))) = FractionSum(Profits(entries)) ++ e.realized
    BY <1>5, EntryAdded
  <2> QED
    BY <1>1, <1>4, <2>1, <2>2, Zenon
<1> DEFINE f == [r \in Symbol |-> position[r] * a[r]]
           x == (cash - InitialCash + fees) * d + HeldAt(a)
<1>10. x \in Int /\ d \in Nat \ {0}
  <2>1. \A r \in Symbol : f[r] \in Int
    <3> TAKE r \in Symbol
    <3>1. position[r] \in Int /\ a[r] \in Int
      BY <1>2, <1>8 DEF BooksTyped, PricedAt
    <3> QED
      BY <3>1
  <2>2. HeldAt(a) = SumFunctionOnSet(f, Symbol) /\ IsFiniteSet(Symbol)
    BY AccountingAssumption DEF HeldAt
  <2> HIDE DEF f
  <2>3. HeldAt(a) \in Int
    BY <2>1, <2>2, SumInt
  <2>4. (cash - InitialCash + fees) * d \in Int /\ d \in Nat \ {0}
    <3>1. cash \in Int /\ fees \in Int /\ InitialCash \in Int /\ d \in Nat \ {0}
      BY <1>2, <1>8, AccountingAssumption DEF BooksTyped, PricedAt
    <3> QED
      BY <3>1
  <2> QED
    BY <2>3, <2>4
<1>11. x' = x
  BY <1>1 DEF HeldAt
<1> HIDE DEF x
<1>12. LedgerRealized' \in Fraction /\ Worth(LedgerRealized', d, x)
  <2> DEFINE zero == 0
             total == LedgerRealized
  <2>1. zero \in Int /\ x + zero = x /\ Worth(Whole(zero), d, zero) /\ Whole(zero) \in Fraction
    BY <1>10, FractionsTyped DEF Worth, Whole
  <2>2. total \in Fraction /\ Worth(total, d, x) /\ LedgerRealized' = total ++ Whole(zero)
    BY <1>8, <1>9 DEF x
  <2> HIDE DEF zero, total
  <2>3. total ++ Whole(zero) \in Fraction /\ Worth(total ++ Whole(zero), d, x + zero)
    BY <1>10, <2>1, <2>2, WorthOfSum
  <2> QED
    BY <2>1, <2>2, <2>3
<1>13. PricedAt(d, a)'
  BY <1>1, <1>8 DEF PricedAt
<1>14. LedgerInv'
  <2>1. Worth(LedgerRealized', d, x')
    BY <1>11, <1>12
  <2> QED
    BY <1>12, <1>13, <2>1 DEF LedgerInv, x
<1> QED
  BY <1>7, <1>14

-----------------------------------------------------------------------------
(* The report *)

ReportInv == BooksInv /\ LedgerInv /\ LastEntryInv /\ SilentInv

LEMMA ReportInitially ==
  Init => ReportInv
<1> SUFFICES ASSUME Init PROVE ReportInv
  OBVIOUS
<1>1. BooksInv
  BY BooksInitially
<1>2. /\ entries = << >> /\ cash = InitialCash /\ fees = 0 /\ IsFiniteSet(Symbol)
      /\ \A s \in Symbol : position[s] = 0 /\ book[s].avg = Whole(0)
  BY AccountingAssumption DEF Init
<1>3. Profits(entries) = << >> /\ Charges(entries) = << >> /\ DOMAIN entries = {}
  BY <1>2 DEF Profits, Charges
<1>4. LedgerRealized = Whole(0)
  <2>1. << >> \in Seq(Fraction) /\ Len(<< >>) = 0
    BY EmptySeq
  <2>2. FoldLeft(++, Whole(0), << >>) = Whole(0)
    BY <2>1, FractionsTrace
  <2>3. LedgerRealized = FractionSum(Profits(entries))
    BY DEF LedgerRealized, Profits
  <2> QED
    BY <1>3, <2>2, <2>3 DEF FractionSum
<1>5. LedgerFees = 0
  <2>1. LedgerFees = SumOf(Charges(entries))
    BY DEF LedgerFees, Charges
  <2> QED
    BY <1>3, <2>1, SumOfEmpty
<1>6. LedgerInv
  <2> DEFINE one == 1
             a == [s \in Symbol |-> 0]
             f == [s \in Symbol |-> position[s] * a[s]]
  <2>1. \A s \in Symbol : f[s] = 0
    BY <1>2
  <2>2. HeldAt(a) = SumFunctionOnSet(f, Symbol)
    BY DEF HeldAt
  <2>3. HeldAt(a) = 0
    <3> HIDE DEF f
    <3> QED
      BY <1>2, <2>1, <2>2, SumOfZeros
  <2>4. PricedAt(one, a)
    BY <1>2 DEF PricedAt, Worth, Whole
  <2>5. (cash - InitialCash + fees) * one + HeldAt(a) = 0
    <3>1. (InitialCash - InitialCash + 0) * 1 + 0 = 0
      BY AccountingAssumption
    <3> QED
      BY <1>2, <2>3, <3>1
  <2>6. LedgerRealized \in Fraction /\ Worth(LedgerRealized, one, 0)
    BY <1>4, FractionsTyped DEF Worth, Whole
  <2> HIDE DEF one, a
  <2> QED
    BY <2>4, <2>5, <2>6 DEF LedgerInv
<1>7. LastEntryInv
  BY <1>2, <1>5 DEF LastEntryInv
<1>8. SilentInv
  BY <1>2 DEF SilentInv
<1> QED
  BY <1>1, <1>6, <1>7, <1>8 DEF ReportInv

LEMMA ReportStep ==
  ReportInv /\ [Next]_vars => ReportInv'
<1> SUFFICES ASSUME ReportInv, [Next]_vars PROVE ReportInv'
  OBVIOUS
<1>1. BooksInv /\ LedgerInv /\ LastEntryInv /\ SilentInv /\ BooksInv'
  BY BooksStep DEF ReportInv
<1>2. CASE UNCHANGED vars
  BY <1>1, <1>2 DEF vars, ReportInv, LedgerInv, PricedAt, HeldAt, LedgerRealized, LastEntryInv,
                    LedgerFees, Unrealized, SilentInv
<1>3. CASE Marked
  BY <1>1, <1>3, MarkKeepsLedger DEF Marked, ReportInv
<1>4. CASE Traded
  <2>1. BooksTyped /\ LotsMatchPosition
    BY <1>1 DEF BooksInv
  <2>2. LedgerInv'
    BY <1>1, <1>4, <2>1, FillKeepsLedger DEF Traded
  <2>3. \E s \in Symbol : \E e : Wrote(s, e)
    BY <1>4, <2>1, FillWrites DEF Traded
  <2>4. LastEntryInv' /\ SilentInv'
    BY <1>1, <2>1, <2>3, EntryKeeps
  <2> QED
    BY <1>1, <2>2, <2>4 DEF ReportInv
<1> QED
  BY <1>1, <1>2, <1>3, <1>4, StepsAreFills

LEMMA ReportCorrect ==
  Spec => []ReportInv
BY ReportInitially, ReportStep, PTL DEF Spec

\* The ledger's report of one symbol is what the account has gained.
LEMMA ReportFromLedger ==
  ASSUME ReportInv
  PROVE  ReportAgreesWithNav
<1> SUFFICES ASSUME NEW s \in Symbol, \A i \in DOMAIN entries : entries[i].symbol = s
             PROVE  ReportNet \cong Whole(Nav(mark) - InitialCash)
  BY DEF ReportAgreesWithNav
<1> DEFINE value == [r \in Symbol |-> position[r] * mark[r]]
           held == position[s]
           price == mark[s]
           gain == (cash - InitialCash) + held * price
           right == Whole(gain)
<1>1. BooksTyped /\ LotsMatchPosition /\ LedgerInv /\ LastEntryInv /\ SilentInv /\ IsFiniteSet(Symbol)
  BY AccountingAssumption DEF ReportInv, BooksInv
<1>2. /\ held \in Int /\ price \in Int /\ cash \in Int /\ InitialCash \in Int /\ fees \in Int
      /\ book[s].qty = held /\ book[s].avg \in Fraction
  <2>1. \A x \in Price \cup {0} : x \in Int
    BY AccountingAssumption
  <2>2. mark[s] \in Price \cup {0}
    BY <1>1 DEF BooksTyped
  <2>3. mark[s] \in Int
    BY <2>1, <2>2, Zenon
  <2>4. position[s] \in Int /\ cash \in Int /\ InitialCash \in Int /\ fees \in Int
        /\ book[s].qty = position[s] /\ book[s].avg \in Fraction
    BY <1>1, AccountingAssumption DEF BooksTyped, LotsMatchPosition
  <2> QED
    BY <2>3, <2>4
<1>3. \A r \in Symbol \ {s} : position[r] = 0
  BY <1>1 DEF SilentInv
<1>4. ASSUME NEW f, f[s] \in Int, \A r \in Symbol \ {s} : f[r] = 0
      PROVE  SumFunctionOnSet(f, Symbol) = f[s]
  <2> DEFINE rest == SumFunctionOnSet(f, Symbol \ {s})
  <2>1. \A r \in Symbol : f[r] \in Int
    BY <1>4
  <2>2. SumFunctionOnSet(f, Symbol) = f[s] + rest
    BY <1>1, <2>1, SumRemove
  <2>3. IsFiniteSet(Symbol \ {s})
    BY <1>1, FS_Subset
  <2>4. rest = 0
    BY <1>4, <2>3, SumOfZeros
  <2> QED
    BY <1>4, <2>2, <2>4
<1>5. Nav(mark) - InitialCash = gain
  <2>1. value[s] = held * price /\ held * price \in Int
    BY <1>2
  <2>2. \A r \in Symbol \ {s} : value[r] = 0
    <3> TAKE r \in Symbol \ {s}
    <3>1. \A x \in Price \cup {0} : x \in Int
      BY AccountingAssumption
    <3>2. mark[r] \in Price \cup {0}
      BY <1>1 DEF BooksTyped
    <3>3. mark[r] \in Int
      BY <3>1, <3>2, Zenon
    <3>4. value[r] = position[r] * mark[r]
      OBVIOUS
    <3> QED
      BY <1>3, <3>3, <3>4
  <2>3. DOMAIN value = Symbol
    OBVIOUS
  <2>4. Nav(mark) = cash + SumFunctionOnSet(value, Symbol)
    BY <2>3 DEF Nav, SumFunction
  <2> HIDE DEF value
  <2>5. SumFunctionOnSet(value, Symbol) = value[s]
    BY <1>4, <2>1, <2>2
  <2> HIDE DEF held, price
  <2> QED
    BY <1>2, <2>1, <2>4, <2>5
<1>6. CASE entries = << >>
  <2>1. ReportNet = Whole(0)
    BY <1>6 DEF ReportNet
  <2>2. cash = InitialCash /\ held = 0
    BY <1>1, <1>6 DEF SilentInv
  <2>3. gain = 0
    BY <1>2, <2>2
  <2> HIDE DEF gain
  <2> QED
    BY <1>5, <2>1, <2>3 DEF Whole, \cong
<1>7. CASE entries # << >>
  <2> DEFINE e == entries[Len(entries)]
             total == LedgerRealized
             avg == book[s].avg
             open == Times(held, Whole(price) -- avg)
             net == total ++ open
  <2>1. e.symbol = s /\ e.unrealized = open /\ LedgerFees = fees
    <3>1. Len(entries) \in DOMAIN entries
      <4>1. entries \in Seq(Entry) /\ Len(entries) \in Nat /\ Len(entries) # 0
            /\ DOMAIN entries = 1 .. Len(entries)
        BY <1>1, <1>7, LenProperties, EmptySeq DEF BooksTyped
      <4> QED
        BY <4>1
    <3>2. e.symbol = s
      BY <3>1
    <3>3. e.unrealized = Unrealized(book[e.symbol], mark[e.symbol]) /\ LedgerFees = fees
      BY <1>1, <1>7 DEF LastEntryInv
    <3> QED
      BY <1>2, <3>2, <3>3 DEF Unrealized
  <2>2. ReportNet = net -- Whole(fees)
    BY <1>7, <2>1 DEF ReportNet
  <2>3. PICK d, a : /\ PricedAt(d, a) /\ total \in Fraction
                    /\ Worth(total, d, (cash - InitialCash + fees) * d + HeldAt(a))
    BY <1>1 DEF LedgerInv
  <2> DEFINE x == a[s]
             came == (cash - InitialCash + fees) * d
             left == net -- Whole(fees)
  <2>4. d \in Nat \ {0} /\ d \in Int /\ x \in Int /\ avg \in Fraction /\ Worth(avg, d, x)
        /\ HeldAt(a) = held * x /\ held * x \in Int /\ came \in Int
    <3>1. d \in Nat \ {0} /\ d \in Int /\ a \in [Symbol -> Int] /\ Worth(avg, d, x)
      BY <2>3 DEF PricedAt
    <3> DEFINE f == [r \in Symbol |-> position[r] * a[r]]
    <3>2. f[s] = held * x /\ f[s] \in Int
      <4>1. held \in Int /\ x \in Int /\ f[s] = held * x
        BY <1>2, <3>1
      <4> HIDE DEF f, held, x
      <4> QED
        BY <4>1
    <3>3. \A r \in Symbol \ {s} : f[r] = 0
      <4> TAKE r \in Symbol \ {s}
      <4>1. a[r] \in Int /\ position[r] = 0 /\ f[r] = position[r] * a[r]
        BY <1>3, <3>1
      <4> QED
        BY <4>1
    <3>4. HeldAt(a) = SumFunctionOnSet(f, Symbol)
      BY DEF HeldAt
    <3> HIDE DEF f
    <3>5. HeldAt(a) = held * x /\ held * x \in Int
      BY <1>4, <3>2, <3>3, <3>4
    <3>6. came \in Int
      BY <1>2, <3>1
    <3> QED
      BY <1>2, <3>1, <3>5, <3>6
  <2> HIDE DEF held, price, avg, x, came, total
  <2>5. Worth(total, d, came + held * x) /\ total \in Fraction /\ came + held * x \in Int
    BY <2>3, <2>4 DEF came, total
  <2>6. Whole(price) -- avg \in Fraction /\ Worth(Whole(price) -- avg, d, price * d - x)
        /\ price * d - x \in Int
    <3>1. Worth(Whole(price), d, price * d) /\ Whole(price) \in Fraction /\ price * d \in Int
      BY <1>2, <2>4, WorthOfWhole, ProductTyped
    <3> QED
      BY <2>4, <3>1, WorthOfDifference
  <2>7. open \in Fraction /\ Worth(open, d, held * (price * d - x)) /\ held * (price * d - x) \in Int
    <3> DEFINE w == price * d - x
               paid == Whole(price) -- avg
    <3>1. w \in Int /\ paid \in Fraction /\ Worth(paid, d, w)
      BY <2>6
    <3> HIDE DEF w, paid
    <3>2. Times(held, paid) \in Fraction /\ Worth(Times(held, paid), d, held * w) /\ held * w \in Int
      BY <1>2, <2>4, <3>1, WorthOfTimes, ProductTyped
    <3> QED
      BY <3>2 DEF w, paid
  <2> DEFINE sum == (came + held * x) + held * (price * d - x)
  <2>8. net \in Fraction /\ Worth(net, d, sum) /\ sum \in Int
    <3> DEFINE i == came + held * x
               j == held * (price * d - x)
    <3>1. i \in Int /\ j \in Int /\ Worth(total, d, i) /\ Worth(open, d, j)
      BY <2>5, <2>7
    <3> HIDE DEF i, j, open
    <3>2. total ++ open \in Fraction /\ Worth(total ++ open, d, i + j) /\ i + j \in Int
      BY <2>4, <2>5, <2>7, <3>1, WorthOfSum
    <3> QED
      BY <3>2 DEF i, j
  <2>9. Worth(Whole(fees), d, fees * d) /\ Whole(fees) \in Fraction /\ fees * d \in Int
    BY <1>2, <2>4, WorthOfWhole, ProductTyped
  <2> HIDE DEF net, sum
  <2>10. left \in Fraction /\ Worth(left, d, sum - fees * d)
    BY <2>4, <2>8, <2>9, WorthOfDifference
  <2> HIDE DEF left
  <2>11. sum - fees * d = gain * d
    <3>1. came = (cash - InitialCash) * d + fees * d
      <4> DEFINE i == cash - InitialCash
      <4>1. i \in Int /\ cash - InitialCash + fees = i + fees
        BY <1>2
      <4> HIDE DEF i
      <4>2. (i + fees) * d = i * d + fees * d
        BY <1>2, <2>4, <4>1
      <4> QED
        BY <4>1, <4>2 DEF came, i
    <3>2. held * (price * d - x) = (held * price) * d - held * x /\ (held * price) * d \in Int
      BY <1>2, <2>4
    <3>3. gain * d = (cash - InitialCash) * d + (held * price) * d /\ (cash - InitialCash) * d \in Int
      <4> DEFINE i == cash - InitialCash
                 j == held * price
      <4>1. i \in Int /\ j \in Int
        BY <1>2
      <4> HIDE DEF i, j
      <4>2. (i + j) * d = i * d + j * d /\ i * d \in Int
        BY <2>4, <4>1
      <4> QED
        BY <4>2 DEF i, j
    <3> DEFINE i == (cash - InitialCash) * d
               j == (held * price) * d
               k == fees * d
               m == held * x
               w == held * (price * d - x)
    <3>4. i \in Int /\ j \in Int /\ k \in Int /\ m \in Int /\ came = i + k /\ w = j - m
          /\ sum = (came + m) + w /\ gain * d = i + j
      BY <2>4, <2>9, <3>1, <3>2, <3>3 DEF sum
    <3> HIDE DEF i, j, k, m, w, gain
    <3>5. sum - k = gain * d
      BY <3>4
    <3> QED
      BY <3>5 DEF k
  <2>12. right \in Fraction /\ Worth(right, d, gain * d) /\ gain * d \in Int
    <3>1. gain \in Int
      BY <1>2
    <3> HIDE DEF gain
    <3> QED
      BY <2>4, <3>1, WorthOfWhole, ProductTyped
  <2> HIDE DEF right, gain
  <2>13. left \cong right
    BY <2>4, <2>10, <2>11, <2>12, SameWorth
  <2> QED
    BY <1>5, <2>2, <2>13 DEF left, right
<1> QED
  BY <1>6, <1>7

-----------------------------------------------------------------------------
(* The books worked out again from the fills *)

Fill    == [symbol : Symbol, delta : Int, price : Price]
Account == [pos : Int, profit : Int, long : Seq(Lot), short : Seq(Lot)]
Sales   == [queue : Seq(Lot), profit : Int]

NoAccount == [pos |-> 0, profit |-> 0, long |-> << >>, short |-> << >>]
NoSales   == [queue |-> << >>, profit |-> 0]

\* OfSymbol, ComputedRealized and FillProfit, of any list of fills.
Pick(s, acc, f) == IF f.symbol = s THEN Append(acc, f) ELSE acc
Picked(s, seq)  ==
  FoldLeft(LAMBDA acc, f : IF f.symbol = s THEN Append(acc, f) ELSE acc, << >>, seq)
Rebuilt(seq)    == FoldLeft(Refill, NoAccount, seq)
Attributed(seq) == FoldLeft(Attribute, NoSales, seq)

LEMMA FillFields ==
  ASSUME NEW f \in Fill
  PROVE  f.symbol \in Symbol /\ f.delta \in Int /\ f.price \in Price /\ f.price \in Int
<1>1. f.symbol \in Symbol /\ f.delta \in Int /\ f.price \in Price
  BY DEF Fill
<1>2. \A x \in Price : x \in Int
  BY AccountingAssumption
<1> QED
  BY <1>1, <1>2, Zenon

\* Whatever is asked of a queue, what is left of it is one.
LEMMA RealiseTyped ==
  ASSUME NEW lots \in Seq(Lot), NEW q \in Nat, NEW price \in Int, NEW sign \in {1, -1}
  PROVE  Realise(lots, q, price, sign).profit \in Int /\ Realise(lots, q, price, sign).queue \in Seq(Lot)
<1>1. PICK H \in [0 .. Len(lots) -> Acc] : Realise(lots, q, price, sign) = H[Len(lots)]
  BY RealiseTrace
<1>2. Realise(lots, q, price, sign) \in Acc
  <2>1. Len(lots) \in 0 .. Len(lots)
    BY LenProperties
  <2> QED
    BY <1>1, <2>1
<1> QED
  BY <1>2 DEF Acc

LEMMA RealiseNothing ==
  ASSUME NEW q \in Nat, NEW price \in Int, NEW sign \in {1, -1}
  PROVE  /\ Realise(<< >>, q, price, sign).profit = 0
         /\ Realise(<< >>, q, price, sign).queue = << >>
<1> DEFINE none == << >>
<1>1. none \in Seq(Lot) /\ Len(none) = 0
  BY EmptySeq
<1> HIDE DEF none
<1>2. PICK H \in [0 .. Len(none) -> Acc] :
        /\ H[0] = [left |-> q, profit |-> 0, queue |-> << >>]
        /\ \A k \in 1 .. Len(none) : H[k] = Serve(H[k - 1], none[k], price, sign)
        /\ Realise(none, q, price, sign) = H[Len(none)]
  <2>1. none \in Seq(Lot)
    BY <1>1
  <2> QED
    BY <2>1, RealiseTrace
<1>3. Realise(none, q, price, sign) = [left |-> q, profit |-> 0, queue |-> << >>]
  BY <1>1, <1>2
<1> QED
  BY <1>3 DEF none

LEMMA OpenedLots ==
  ASSUME NEW k \in Int, NEW p \in Price
  PROVE  Opened(k, p) \in Seq(Lot)
<1>1. k > 0 => [price |-> p, qty |-> k] \in Lot
  BY DEF Lot
<1>2. << >> \in Seq(Lot) /\ \A lot \in Lot : <<lot>> \in Seq(Lot)
  OBVIOUS
<1> QED
  BY <1>1, <1>2, Zenon DEF Opened

LEMMA OpenedTyped ==
  ASSUME NEW lots \in Seq(Lot), NEW k \in Int, NEW p \in Price
  PROVE  lots \o Opened(k, p) \in Seq(Lot)
BY OpenedLots, ConcatProperties

LEMMA NothingTyped ==
  NoAccount \in Account /\ NoSales \in Sales /\ << >> \in Seq(Fill)
<1>1. << >> \in Seq(Lot) /\ << >> \in Seq(Fill)
  OBVIOUS
<1> QED
  BY <1>1 DEF NoAccount, Account, NoSales, Sales

LEMMA PickTyped ==
  ASSUME NEW s, NEW acc \in Seq(Fill), NEW f \in Fill
  PROVE  Pick(s, acc, f) \in Seq(Fill)
BY AppendProperties DEF Pick

LEMMA RefillTyped ==
  ASSUME NEW acc \in Account, NEW f \in Fill
  PROVE  Refill(acc, f) \in Account
<1> DEFINE q == Size(f.delta)
           closed == IF Opposite(f.delta, acc.pos) /\ acc.pos # 0 THEN Smaller(q, Size(acc.pos)) ELSE 0
           sold == Realise(acc.long, closed, f.price, 1)
           covered == Realise(acc.short, closed, f.price, -1)
           done == IF f.delta > 0 THEN covered ELSE sold
           rest == Opened(q - closed, f.price)
<1>1. f.delta \in Int /\ f.price \in Int /\ f.price \in Price
  BY FillFields
<1>2. acc.pos \in Int /\ acc.profit \in Int /\ acc.long \in Seq(Lot) /\ acc.short \in Seq(Lot)
  BY DEF Account
<1>3. q \in Nat /\ closed \in Nat
  BY <1>1, <1>2 DEF Size, Smaller
<1>4. Refill(acc, f) = [pos    |-> acc.pos + f.delta,
                        profit |-> acc.profit + done.profit,
                        long   |-> IF f.delta > 0 THEN acc.long \o rest ELSE done.queue,
                        short  |-> IF f.delta > 0 THEN done.queue ELSE acc.short \o rest]
  BY Zenon DEF Refill
<1> HIDE DEF q, closed
<1>5. acc.long \o rest \in Seq(Lot) /\ acc.short \o rest \in Seq(Lot)
  <2>1. q - closed \in Int
    BY <1>3
  <2> QED
    BY <1>1, <1>2, <2>1, OpenedTyped
<1>6. sold.profit \in Int /\ sold.queue \in Seq(Lot)
  BY <1>1, <1>2, <1>3, RealiseTyped
<1>7. covered.profit \in Int /\ covered.queue \in Seq(Lot)
  BY <1>1, <1>2, <1>3, RealiseTyped
<1>8. done.profit \in Int /\ done.queue \in Seq(Lot)
  BY <1>6, <1>7
<1> HIDE DEF done, rest
<1> QED
  BY <1>1, <1>2, <1>4, <1>5, <1>8 DEF Account

LEMMA AttributeTyped ==
  ASSUME NEW acc \in Sales, NEW f \in Fill
  PROVE  Attribute(acc, f) \in Sales
<1> DEFINE sold == Realise(acc.queue, -f.delta, f.price, 1)
           lot == [price |-> f.price, qty |-> f.delta]
<1>1. f.delta \in Int /\ f.price \in Int /\ f.price \in Price
  BY FillFields
<1>2. acc.queue \in Seq(Lot) /\ acc.profit \in Int
  BY DEF Sales
<1>3. CASE f.delta > 0
  <2>1. lot \in Lot
    BY <1>1, <1>3 DEF Lot
  <2>2. Attribute(acc, f) = [acc EXCEPT !.queue = Append(acc.queue, lot)]
    BY <1>3 DEF Attribute
  <2> HIDE DEF lot
  <2>3. Append(acc.queue, lot) \in Seq(Lot)
    BY <1>2, <2>1, AppendProperties
  <2> QED
    BY <2>2, <2>3 DEF Sales
<1>4. CASE ~(f.delta > 0)
  <2>1. -f.delta \in Nat
    BY <1>1, <1>4
  <2>2. sold.profit \in Int /\ sold.queue \in Seq(Lot)
    BY <1>1, <1>2, <2>1, RealiseTyped
  <2>3. Attribute(acc, f) = [queue |-> sold.queue, profit |-> acc.profit + sold.profit]
    BY <1>4 DEF Attribute
  <2> HIDE DEF sold
  <2> QED
    BY <1>2, <2>2, <2>3 DEF Sales
<1> QED
  BY <1>3, <1>4

LEMMA PickedTrace ==
  ASSUME NEW s, NEW seq \in Seq(Fill)
  PROVE  \E H \in [0 .. Len(seq) -> Seq(Fill)] :
           /\ H[0] = << >>
           /\ \A k \in 1 .. Len(seq) : H[k] = Pick(s, H[k - 1], seq[k])
           /\ Picked(s, seq) = H[Len(seq)]
<1> DEFINE n == Len(seq)
           none == << >>
           G == [p \in (1 .. n) \X Seq(Fill) |-> Pick(s, p[2], seq[p[1]])]
           IsIter(g) == g = [t \in SUBSET (1 .. n) |->
             IF t = {} THEN none ELSE Pick(s, g[t \ {Max(t)}], seq[Max(t)])]
           iter == CHOOSE g : IsIter(g)
<1>1. n \in Nat /\ DOMAIN seq = 1 .. n /\ \A i \in 1 .. n : seq[i] \in Fill
  BY LenProperties, ElementOfSeq
<1>2. Picked(s, seq) = iter[1 .. n]
  <2>1. Picked(s, seq) = (CHOOSE g : g = [t \in SUBSET (DOMAIN seq) |->
          IF t = {} THEN none ELSE Pick(s, g[t \ {Max(t)}], seq[Max(t)])])[DOMAIN seq]
    BY Zenon DEF Pick, Picked, FoldLeft, MapThenFoldSet
  <2> QED
    BY <1>1, <2>1, Zenon
<1>3. none \in Seq(Fill)
  BY NothingTyped
<1> HIDE DEF n, none
<1>4. ASSUME NEW i \in 1 .. n, NEW a \in Seq(Fill)
      PROVE  G[<<i, a>>] = Pick(s, a, seq[i])
  OBVIOUS
<1> HIDE DEF G
<1>5. Keeps(G, 1 .. n, Seq(Fill))
  <2>1. ASSUME NEW i \in 1 .. n, NEW a \in Seq(Fill)
        PROVE  G[<<i, a>>] \in Seq(Fill)
    <3>1. Pick(s, a, seq[i]) \in Seq(Fill)
      BY <1>1, PickTyped, Zenon
    <3> QED
      BY <1>4, <3>1, Zenon
  <2> QED
    BY <2>1, Zenon DEF Keeps
<1>6. \E g : IsIter(g)
  <2>1. PICK g \in [SUBSET (1 .. n) -> Seq(Fill)] : IsLeftFold(G, none, n, g)
    BY <1>1, <1>3, <1>5, FoldLeftExists
  <2>2. ASSUME NEW t \in SUBSET (1 .. n)
        PROVE  g[t] = IF t = {} THEN none ELSE Pick(s, g[t \ {Max(t)}], seq[Max(t)])
    <3>1. t # {} => Max(t) \in 1 .. n
      BY <1>1, LargestChosen
    <3>2. g[t \ {Max(t)}] \in Seq(Fill)
      OBVIOUS
    <3> QED
      BY <1>4, <2>1, <3>1, <3>2 DEF IsLeftFold
  <2> QED
    BY <2>2
<1>7. IsIter(iter)
  BY <1>6
<1> HIDE DEF iter
<1>8. iter[{}] = none
  BY <1>7
<1>9. ASSUME NEW k \in 1 .. n, iter[1 .. k - 1] \in Seq(Fill)
      PROVE  iter[1 .. k] = G[<<k, iter[1 .. k - 1]>>]
  <2>1. k \in Nat \ {0} /\ 1 .. k \in SUBSET (1 .. n)
    BY <1>1
  <2>2. iter[1 .. k] = Pick(s, iter[(1 .. k) \ {Max(1 .. k)}], seq[Max(1 .. k)])
    BY <1>7, <2>1, LargestOfPrefix
  <2>3. Max(1 .. k) = k /\ (1 .. k) \ {k} = 1 .. k - 1
    BY <2>1, LargestOfPrefix
  <2>4. iter[1 .. k] = Pick(s, iter[1 .. k - 1], seq[k])
    BY <2>2, <2>3, Zenon
  <2> QED
    BY <1>4, <1>9, <2>4, Zenon
<1>10. PICK H : IsTrace(G, Seq(Fill), none, n, H) /\ H[n] = iter[1 .. n]
  <2>1. StepsOn(G, Seq(Fill), n, iter)
    BY <1>9, Zenon DEF StepsOn
  <2> QED
    BY <1>1, <1>3, <1>5, <1>8, <2>1, FoldLeftTrace
<1>11. ASSUME NEW k \in 1 .. n
       PROVE  H[k] = Pick(s, H[k - 1], seq[k])
  <2>1. k - 1 \in 0 .. n
    BY <1>1
  <2>2. H[k - 1] \in Seq(Fill) /\ H[k] = G[<<k, H[k - 1]>>]
    BY <1>10, <2>1 DEF IsTrace
  <2> QED
    BY <1>4, <2>2
<1> QED
  BY <1>2, <1>10, <1>11 DEF IsTrace, n, none

LEMMA PickedAdded ==
  ASSUME NEW s, NEW seq \in Seq(Fill), NEW x \in Fill
  PROVE  /\ Picked(s, seq) \in Seq(Fill)
         /\ Picked(s, Append(seq, x)) = Pick(s, Picked(s, seq), x)
<1> DEFINE n == Len(seq)
           longer == Append(seq, x)
<1>1. /\ n \in Nat /\ longer \in Seq(Fill) /\ Len(longer) = n + 1
      /\ longer[n + 1] = x /\ \A i \in 1 .. n : longer[i] = seq[i]
  BY AppendProperties, LenProperties, ElementOfSeq
<1>2. PICK H \in [0 .. n -> Seq(Fill)] :
        /\ H[0] = << >>
        /\ \A k \in 1 .. n : H[k] = Pick(s, H[k - 1], seq[k])
        /\ Picked(s, seq) = H[n]
  BY PickedTrace
<1> HIDE DEF n, longer
<1>3. PICK K \in [0 .. n + 1 -> Seq(Fill)] :
        /\ K[0] = << >>
        /\ \A k \in 1 .. n + 1 : K[k] = Pick(s, K[k - 1], longer[k])
        /\ Picked(s, longer) = K[n + 1]
  <2>1. \E K \in [0 .. Len(longer) -> Seq(Fill)] :
          /\ K[0] = << >>
          /\ \A k \in 1 .. Len(longer) : K[k] = Pick(s, K[k - 1], longer[k])
          /\ Picked(s, longer) = K[Len(longer)]
    BY <1>1, PickedTrace, Zenon
  <2> QED
    BY <1>1, <2>1, Zenon
<1>4. \A k \in 0 .. n : H[k] = K[k]
  <2>1. \A k \in 1 .. n : k \in 1 .. n + 1 /\ longer[k] = seq[k]
    BY <1>1
  <2>2. StepAlike(n, H, K)
    BY <1>2, <1>3, <2>1 DEF StepAlike
  <2>3. SameTrace(n, H, K)
    BY <1>1, <2>2, TracesAgree
  <2> QED
    BY <2>3 DEF SameTrace
<1>5. n + 1 \in 1 .. n + 1 /\ (n + 1) - 1 = n /\ n \in 0 .. n
  BY <1>1
<1>6. K[n + 1] = Pick(s, K[n], x)
  BY <1>1, <1>3, <1>5
<1>7. Picked(s, longer) = Pick(s, Picked(s, seq), x)
  BY <1>2, <1>3, <1>4, <1>5, <1>6
<1> QED
  BY <1>2, <1>5, <1>7 DEF longer

LEMMA RebuiltTrace ==
  ASSUME NEW seq \in Seq(Fill)
  PROVE  \E H \in [0 .. Len(seq) -> Account] :
           /\ H[0] = NoAccount
           /\ \A k \in 1 .. Len(seq) : H[k] = Refill(H[k - 1], seq[k])
           /\ Rebuilt(seq) = H[Len(seq)]
<1> DEFINE n == Len(seq)
           none == NoAccount
           G == [p \in (1 .. n) \X Account |-> Refill(p[2], seq[p[1]])]
           IsIter(g) == g = [t \in SUBSET (1 .. n) |->
             IF t = {} THEN none ELSE Refill(g[t \ {Max(t)}], seq[Max(t)])]
           iter == CHOOSE g : IsIter(g)
<1>1. n \in Nat /\ DOMAIN seq = 1 .. n /\ \A i \in 1 .. n : seq[i] \in Fill
  BY LenProperties, ElementOfSeq
<1>2. Rebuilt(seq) = iter[1 .. n]
  <2>1. Rebuilt(seq) = (CHOOSE g : g = [t \in SUBSET (DOMAIN seq) |->
          IF t = {} THEN none ELSE Refill(g[t \ {Max(t)}], seq[Max(t)])])[DOMAIN seq]
    BY Zenon DEF Rebuilt, FoldLeft, MapThenFoldSet
  <2> QED
    BY <1>1, <2>1, Zenon
<1>3. none \in Account
  BY NothingTyped
<1> HIDE DEF n, none
<1>4. ASSUME NEW i \in 1 .. n, NEW a \in Account
      PROVE  G[<<i, a>>] = Refill(a, seq[i])
  OBVIOUS
<1> HIDE DEF G
<1>5. Keeps(G, 1 .. n, Account)
  <2>1. ASSUME NEW i \in 1 .. n, NEW a \in Account
        PROVE  G[<<i, a>>] \in Account
    <3>1. Refill(a, seq[i]) \in Account
      BY <1>1, RefillTyped, Zenon
    <3> QED
      BY <1>4, <3>1, Zenon
  <2> QED
    BY <2>1, Zenon DEF Keeps
<1>6. \E g : IsIter(g)
  <2>1. PICK g \in [SUBSET (1 .. n) -> Account] : IsLeftFold(G, none, n, g)
    BY <1>1, <1>3, <1>5, FoldLeftExists
  <2>2. ASSUME NEW t \in SUBSET (1 .. n)
        PROVE  g[t] = IF t = {} THEN none ELSE Refill(g[t \ {Max(t)}], seq[Max(t)])
    <3>1. t # {} => Max(t) \in 1 .. n
      BY <1>1, LargestChosen
    <3>2. g[t \ {Max(t)}] \in Account
      OBVIOUS
    <3> QED
      BY <1>4, <2>1, <3>1, <3>2 DEF IsLeftFold
  <2> QED
    BY <2>2
<1>7. IsIter(iter)
  BY <1>6
<1> HIDE DEF iter
<1>8. iter[{}] = none
  BY <1>7
<1>9. ASSUME NEW k \in 1 .. n, iter[1 .. k - 1] \in Account
      PROVE  iter[1 .. k] = G[<<k, iter[1 .. k - 1]>>]
  <2>1. k \in Nat \ {0} /\ 1 .. k \in SUBSET (1 .. n)
    BY <1>1
  <2>2. iter[1 .. k] = Refill(iter[(1 .. k) \ {Max(1 .. k)}], seq[Max(1 .. k)])
    BY <1>7, <2>1, LargestOfPrefix
  <2>3. Max(1 .. k) = k /\ (1 .. k) \ {k} = 1 .. k - 1
    BY <2>1, LargestOfPrefix
  <2>4. iter[1 .. k] = Refill(iter[1 .. k - 1], seq[k])
    BY <2>2, <2>3, Zenon
  <2> QED
    BY <1>4, <1>9, <2>4, Zenon
<1>10. PICK H : IsTrace(G, Account, none, n, H) /\ H[n] = iter[1 .. n]
  <2>1. StepsOn(G, Account, n, iter)
    BY <1>9, Zenon DEF StepsOn
  <2> QED
    BY <1>1, <1>3, <1>5, <1>8, <2>1, FoldLeftTrace
<1>11. ASSUME NEW k \in 1 .. n
       PROVE  H[k] = Refill(H[k - 1], seq[k])
  <2>1. k - 1 \in 0 .. n
    BY <1>1
  <2>2. H[k - 1] \in Account /\ H[k] = G[<<k, H[k - 1]>>]
    BY <1>10, <2>1 DEF IsTrace
  <2> QED
    BY <1>4, <2>2
<1> QED
  BY <1>2, <1>10, <1>11 DEF IsTrace, n, none

LEMMA RebuiltAdded ==
  ASSUME NEW seq \in Seq(Fill), NEW x \in Fill
  PROVE  /\ Rebuilt(seq) \in Account
         /\ Rebuilt(Append(seq, x)) = Refill(Rebuilt(seq), x)
<1> DEFINE n == Len(seq)
           longer == Append(seq, x)
<1>1. /\ n \in Nat /\ longer \in Seq(Fill) /\ Len(longer) = n + 1
      /\ longer[n + 1] = x /\ \A i \in 1 .. n : longer[i] = seq[i]
  BY AppendProperties, LenProperties, ElementOfSeq
<1>2. PICK H \in [0 .. n -> Account] :
        /\ H[0] = NoAccount
        /\ \A k \in 1 .. n : H[k] = Refill(H[k - 1], seq[k])
        /\ Rebuilt(seq) = H[n]
  BY RebuiltTrace
<1> HIDE DEF n, longer
<1>3. PICK K \in [0 .. n + 1 -> Account] :
        /\ K[0] = NoAccount
        /\ \A k \in 1 .. n + 1 : K[k] = Refill(K[k - 1], longer[k])
        /\ Rebuilt(longer) = K[n + 1]
  <2>1. \E K \in [0 .. Len(longer) -> Account] :
          /\ K[0] = NoAccount
          /\ \A k \in 1 .. Len(longer) : K[k] = Refill(K[k - 1], longer[k])
          /\ Rebuilt(longer) = K[Len(longer)]
    BY <1>1, RebuiltTrace, Zenon
  <2> QED
    BY <1>1, <2>1, Zenon
<1>4. \A k \in 0 .. n : H[k] = K[k]
  <2>1. \A k \in 1 .. n : k \in 1 .. n + 1 /\ longer[k] = seq[k]
    BY <1>1
  <2>2. StepAlike(n, H, K)
    BY <1>2, <1>3, <2>1 DEF StepAlike
  <2>3. SameTrace(n, H, K)
    BY <1>1, <2>2, TracesAgree
  <2> QED
    BY <2>3 DEF SameTrace
<1>5. n + 1 \in 1 .. n + 1 /\ (n + 1) - 1 = n /\ n \in 0 .. n
  BY <1>1
<1>6. K[n + 1] = Refill(K[n], x)
  BY <1>1, <1>3, <1>5
<1>7. Rebuilt(longer) = Refill(Rebuilt(seq), x)
  BY <1>2, <1>3, <1>4, <1>5, <1>6
<1> QED
  BY <1>2, <1>5, <1>7 DEF longer

LEMMA AttributedTrace ==
  ASSUME NEW seq \in Seq(Fill)
  PROVE  \E H \in [0 .. Len(seq) -> Sales] :
           /\ H[0] = NoSales
           /\ \A k \in 1 .. Len(seq) : H[k] = Attribute(H[k - 1], seq[k])
           /\ Attributed(seq) = H[Len(seq)]
<1> DEFINE n == Len(seq)
           none == NoSales
           G == [p \in (1 .. n) \X Sales |-> Attribute(p[2], seq[p[1]])]
           IsIter(g) == g = [t \in SUBSET (1 .. n) |->
             IF t = {} THEN none ELSE Attribute(g[t \ {Max(t)}], seq[Max(t)])]
           iter == CHOOSE g : IsIter(g)
<1>1. n \in Nat /\ DOMAIN seq = 1 .. n /\ \A i \in 1 .. n : seq[i] \in Fill
  BY LenProperties, ElementOfSeq
<1>2. Attributed(seq) = iter[1 .. n]
  <2>1. Attributed(seq) = (CHOOSE g : g = [t \in SUBSET (DOMAIN seq) |->
          IF t = {} THEN none ELSE Attribute(g[t \ {Max(t)}], seq[Max(t)])])[DOMAIN seq]
    BY Zenon DEF Attributed, FoldLeft, MapThenFoldSet
  <2> QED
    BY <1>1, <2>1, Zenon
<1>3. none \in Sales
  BY NothingTyped
<1> HIDE DEF n, none
<1>4. ASSUME NEW i \in 1 .. n, NEW a \in Sales
      PROVE  G[<<i, a>>] = Attribute(a, seq[i])
  OBVIOUS
<1> HIDE DEF G
<1>5. Keeps(G, 1 .. n, Sales)
  <2>1. ASSUME NEW i \in 1 .. n, NEW a \in Sales
        PROVE  G[<<i, a>>] \in Sales
    <3>1. Attribute(a, seq[i]) \in Sales
      BY <1>1, AttributeTyped, Zenon
    <3> QED
      BY <1>4, <3>1, Zenon
  <2> QED
    BY <2>1, Zenon DEF Keeps
<1>6. \E g : IsIter(g)
  <2>1. PICK g \in [SUBSET (1 .. n) -> Sales] : IsLeftFold(G, none, n, g)
    BY <1>1, <1>3, <1>5, FoldLeftExists
  <2>2. ASSUME NEW t \in SUBSET (1 .. n)
        PROVE  g[t] = IF t = {} THEN none ELSE Attribute(g[t \ {Max(t)}], seq[Max(t)])
    <3>1. t # {} => Max(t) \in 1 .. n
      BY <1>1, LargestChosen
    <3>2. g[t \ {Max(t)}] \in Sales
      OBVIOUS
    <3> QED
      BY <1>4, <2>1, <3>1, <3>2 DEF IsLeftFold
  <2> QED
    BY <2>2
<1>7. IsIter(iter)
  BY <1>6
<1> HIDE DEF iter
<1>8. iter[{}] = none
  BY <1>7
<1>9. ASSUME NEW k \in 1 .. n, iter[1 .. k - 1] \in Sales
      PROVE  iter[1 .. k] = G[<<k, iter[1 .. k - 1]>>]
  <2>1. k \in Nat \ {0} /\ 1 .. k \in SUBSET (1 .. n)
    BY <1>1
  <2>2. iter[1 .. k] = Attribute(iter[(1 .. k) \ {Max(1 .. k)}], seq[Max(1 .. k)])
    BY <1>7, <2>1, LargestOfPrefix
  <2>3. Max(1 .. k) = k /\ (1 .. k) \ {k} = 1 .. k - 1
    BY <2>1, LargestOfPrefix
  <2>4. iter[1 .. k] = Attribute(iter[1 .. k - 1], seq[k])
    BY <2>2, <2>3, Zenon
  <2> QED
    BY <1>4, <1>9, <2>4, Zenon
<1>10. PICK H : IsTrace(G, Sales, none, n, H) /\ H[n] = iter[1 .. n]
  <2>1. StepsOn(G, Sales, n, iter)
    BY <1>9, Zenon DEF StepsOn
  <2> QED
    BY <1>1, <1>3, <1>5, <1>8, <2>1, FoldLeftTrace
<1>11. ASSUME NEW k \in 1 .. n
       PROVE  H[k] = Attribute(H[k - 1], seq[k])
  <2>1. k - 1 \in 0 .. n
    BY <1>1
  <2>2. H[k - 1] \in Sales /\ H[k] = G[<<k, H[k - 1]>>]
    BY <1>10, <2>1 DEF IsTrace
  <2> QED
    BY <1>4, <2>2
<1> QED
  BY <1>2, <1>10, <1>11 DEF IsTrace, n, none

LEMMA AttributedAdded ==
  ASSUME NEW seq \in Seq(Fill), NEW x \in Fill
  PROVE  /\ Attributed(seq) \in Sales
         /\ Attributed(Append(seq, x)) = Attribute(Attributed(seq), x)
<1> DEFINE n == Len(seq)
           longer == Append(seq, x)
<1>1. /\ n \in Nat /\ longer \in Seq(Fill) /\ Len(longer) = n + 1
      /\ longer[n + 1] = x /\ \A i \in 1 .. n : longer[i] = seq[i]
  BY AppendProperties, LenProperties, ElementOfSeq
<1>2. PICK H \in [0 .. n -> Sales] :
        /\ H[0] = NoSales
        /\ \A k \in 1 .. n : H[k] = Attribute(H[k - 1], seq[k])
        /\ Attributed(seq) = H[n]
  BY AttributedTrace
<1> HIDE DEF n, longer
<1>3. PICK K \in [0 .. n + 1 -> Sales] :
        /\ K[0] = NoSales
        /\ \A k \in 1 .. n + 1 : K[k] = Attribute(K[k - 1], longer[k])
        /\ Attributed(longer) = K[n + 1]
  <2>1. \E K \in [0 .. Len(longer) -> Sales] :
          /\ K[0] = NoSales
          /\ \A k \in 1 .. Len(longer) : K[k] = Attribute(K[k - 1], longer[k])
          /\ Attributed(longer) = K[Len(longer)]
    BY <1>1, AttributedTrace, Zenon
  <2> QED
    BY <1>1, <2>1, Zenon
<1>4. \A k \in 0 .. n : H[k] = K[k]
  <2>1. \A k \in 1 .. n : k \in 1 .. n + 1 /\ longer[k] = seq[k]
    BY <1>1
  <2>2. StepAlike(n, H, K)
    BY <1>2, <1>3, <2>1 DEF StepAlike
  <2>3. SameTrace(n, H, K)
    BY <1>1, <2>2, TracesAgree
  <2> QED
    BY <2>3 DEF SameTrace
<1>5. n + 1 \in 1 .. n + 1 /\ (n + 1) - 1 = n /\ n \in 0 .. n
  BY <1>1
<1>6. K[n + 1] = Attribute(K[n], x)
  BY <1>1, <1>3, <1>5
<1>7. Attributed(longer) = Attribute(Attributed(seq), x)
  BY <1>2, <1>3, <1>4, <1>5, <1>6
<1> QED
  BY <1>2, <1>5, <1>7 DEF longer

\* Working a fill out again: against a short position it covers lots, and with a
\* long one or from flat it only opens.  A sale is the mirror image.
LEMMA RefillOfPurchase ==
  ASSUME NEW acc \in Account, NEW f \in Fill, f.delta > 0,
         NEW n \in Nat, acc.pos < 0 => n = Smaller(f.delta, Size(acc.pos)), acc.pos >= 0 => n = 0
  PROVE  /\ Refill(acc, f).pos = acc.pos + f.delta
         /\ Refill(acc, f).long = acc.long \o Opened(f.delta - n, f.price)
         /\ Refill(acc, f).short = Realise(acc.short, n, f.price, -1).queue
         /\ Refill(acc, f).profit = acc.profit + Realise(acc.short, n, f.price, -1).profit
<1> DEFINE q == Size(f.delta)
           closed == IF Opposite(f.delta, acc.pos) /\ acc.pos # 0 THEN Smaller(q, Size(acc.pos)) ELSE 0
           covered == Realise(acc.short, closed, f.price, -1)
           rest == Opened(q - closed, f.price)
<1>1. Refill(acc, f) = [pos    |-> acc.pos + f.delta,
                        profit |-> acc.profit + covered.profit,
                        long   |-> acc.long \o rest,
                        short  |-> covered.queue]
  BY Zenon DEF Refill
<1>2. q = f.delta /\ closed = n
  <2>1. f.delta \in Int /\ acc.pos \in Int
    BY FillFields DEF Account
  <2>2. q = f.delta
    BY <2>1 DEF Size
  <2>3. Opposite(f.delta, acc.pos) /\ acc.pos # 0 <=> acc.pos < 0
    BY <2>1 DEF Opposite
  <2> QED
    BY <2>1, <2>2, <2>3
<1> HIDE DEF q, closed
<1>3. /\ covered = Realise(acc.short, n, f.price, -1)
      /\ acc.long \o rest = acc.long \o Opened(f.delta - n, f.price)
  BY <1>2, Zenon
<1> HIDE DEF covered, rest
<1>4. /\ Refill(acc, f).pos = acc.pos + f.delta /\ Refill(acc, f).profit = acc.profit + covered.profit
      /\ Refill(acc, f).long = acc.long \o rest /\ Refill(acc, f).short = covered.queue
  BY <1>1
<1> QED
  BY <1>3, <1>4, Zenon

LEMMA RefillOfSale ==
  ASSUME NEW acc \in Account, NEW f \in Fill, f.delta < 0, NEW q \in Nat, q = Size(f.delta),
         NEW n \in Nat, acc.pos > 0 => n = Smaller(q, acc.pos), acc.pos <= 0 => n = 0
  PROVE  /\ Refill(acc, f).pos = acc.pos + f.delta
         /\ Refill(acc, f).short = acc.short \o Opened(q - n, f.price)
         /\ Refill(acc, f).long = Realise(acc.long, n, f.price, 1).queue
         /\ Refill(acc, f).profit = acc.profit + Realise(acc.long, n, f.price, 1).profit
<1> DEFINE size == Size(f.delta)
           closed == IF Opposite(f.delta, acc.pos) /\ acc.pos # 0 THEN Smaller(size, Size(acc.pos)) ELSE 0
           sold == Realise(acc.long, closed, f.price, 1)
           rest == Opened(size - closed, f.price)
<1>0. f.delta \in Int /\ acc.pos \in Int /\ ~(f.delta > 0)
  BY FillFields DEF Account
<1>1. Refill(acc, f) = [pos    |-> acc.pos + f.delta,
                        profit |-> acc.profit + sold.profit,
                        long   |-> sold.queue,
                        short  |-> acc.short \o rest]
  BY <1>0, Zenon DEF Refill
<1>2. size = q /\ closed = n
  <2>1. size = q
    OBVIOUS
  <2>2. Opposite(f.delta, acc.pos) /\ acc.pos # 0 <=> acc.pos > 0
    BY <1>0 DEF Opposite
  <2>3. acc.pos > 0 => Size(acc.pos) = acc.pos
    BY <1>0 DEF Size
  <2> QED
    BY <1>0, <2>1, <2>2, <2>3
<1> HIDE DEF size, closed
<1>3. /\ sold = Realise(acc.long, n, f.price, 1)
      /\ acc.short \o rest = acc.short \o Opened(q - n, f.price)
  BY <1>2, Zenon
<1> HIDE DEF sold, rest
<1>4. /\ Refill(acc, f).pos = acc.pos + f.delta /\ Refill(acc, f).profit = acc.profit + sold.profit
      /\ Refill(acc, f).short = acc.short \o rest /\ Refill(acc, f).long = sold.queue
  BY <1>1
<1> QED
  BY <1>3, <1>4, Zenon

\* A fill changes the books of its symbol as working it out again does.
Replays(s, f) ==
  \A acc \in Account : acc.pos = position[s] /\ acc.long = long[s] /\ acc.short = short[s] =>
    /\ Refill(acc, f).pos = position[s] + f.delta
    /\ Refill(acc, f).long = long'[s] /\ Refill(acc, f).short = short'[s]
    /\ Refill(acc, f).profit = acc.profit + (realized' - realized)

LEMMA OpenLongReplays ==
  ASSUME BooksTyped, LotsMatchPosition, NEW s \in Symbol, NEW f \in Fill, f.delta > 0,
         OpenLong(s, f.delta, f.price)
  PROVE  Replays(s, f)
<1> SUFFICES ASSUME NEW acc \in Account,
                    acc.pos = position[s], acc.long = long[s], acc.short = short[s]
             PROVE  /\ Refill(acc, f).pos = position[s] + f.delta
                    /\ Refill(acc, f).long = long'[s] /\ Refill(acc, f).short = short'[s]
                    /\ Refill(acc, f).profit = acc.profit + (realized' - realized)
  BY Zenon DEF Replays
<1> DEFINE none == 0
<1>1. /\ position[s] >= 0 /\ position[s] \in Int /\ realized \in Int /\ f.delta \in Int
      /\ f.price \in Int /\ acc.profit \in Int
  BY FillFields DEF OpenLong, BooksTyped, Account
<1>2. short[s] = << >>
  BY <1>1, Queues
<1>3. /\ long'[s] = long[s] \o Opened(f.delta, f.price) /\ short' = short /\ realized' = realized
  BY DEF OpenLong, BooksTyped
<1>4. /\ acc.pos < 0 => none = Smaller(f.delta, Size(acc.pos))
      /\ acc.pos >= 0 => none = 0
      /\ f.delta - none = f.delta /\ none \in Nat /\ acc.profit + 0 = acc.profit + (realized' - realized)
  BY <1>1, <1>3
<1> HIDE DEF none
<1>5. /\ Refill(acc, f).pos = acc.pos + f.delta
      /\ Refill(acc, f).long = acc.long \o Opened(f.delta - none, f.price)
      /\ Refill(acc, f).short = Realise(acc.short, none, f.price, -1).queue
      /\ Refill(acc, f).profit = acc.profit + Realise(acc.short, none, f.price, -1).profit
  BY <1>4, RefillOfPurchase
<1>6. /\ Realise(<< >>, none, f.price, -1).profit = 0
      /\ Realise(<< >>, none, f.price, -1).queue = << >>
  BY <1>1, <1>4, RealiseNothing
<1> QED
  BY <1>2, <1>3, <1>4, <1>5, <1>6, Zenon

LEMMA OpenShortReplays ==
  ASSUME BooksTyped, LotsMatchPosition, NEW s \in Symbol, NEW f \in Fill, f.delta < 0,
         NEW q \in Nat, q = Size(f.delta), OpenShort(s, q, f.price)
  PROVE  Replays(s, f)
<1> SUFFICES ASSUME NEW acc \in Account,
                    acc.pos = position[s], acc.long = long[s], acc.short = short[s]
             PROVE  /\ Refill(acc, f).pos = position[s] + f.delta
                    /\ Refill(acc, f).long = long'[s] /\ Refill(acc, f).short = short'[s]
                    /\ Refill(acc, f).profit = acc.profit + (realized' - realized)
  BY Zenon DEF Replays
<1> DEFINE none == 0
<1>1. /\ position[s] <= 0 /\ position[s] \in Int /\ realized \in Int /\ f.delta \in Int
      /\ f.price \in Int /\ acc.profit \in Int
  BY FillFields DEF OpenShort, BooksTyped, Account
<1>2. long[s] = << >>
  BY <1>1, Queues
<1>3. /\ short'[s] = short[s] \o Opened(q, f.price) /\ long' = long /\ realized' = realized
  BY DEF OpenShort, BooksTyped
<1>4. /\ acc.pos > 0 => none = Smaller(q, acc.pos)
      /\ acc.pos <= 0 => none = 0
      /\ q - none = q /\ none \in Nat /\ acc.profit + 0 = acc.profit + (realized' - realized)
  BY <1>1, <1>3 DEF Size
<1> HIDE DEF none
<1>5. /\ Refill(acc, f).pos = acc.pos + f.delta
      /\ Refill(acc, f).short = acc.short \o Opened(q - none, f.price)
      /\ Refill(acc, f).long = Realise(acc.long, none, f.price, 1).queue
      /\ Refill(acc, f).profit = acc.profit + Realise(acc.long, none, f.price, 1).profit
  BY <1>4, RefillOfSale
<1>6. /\ Realise(<< >>, none, f.price, 1).profit = 0
      /\ Realise(<< >>, none, f.price, 1).queue = << >>
  BY <1>1, <1>4, RealiseNothing
<1> QED
  BY <1>2, <1>3, <1>4, <1>5, <1>6, Zenon

LEMMA CoverShortReplays ==
  ASSUME BooksTyped, LotsMatchPosition, NEW s \in Symbol, NEW f \in Fill, f.delta > 0,
         CoverShort(s, f.delta, f.price)
  PROVE  Replays(s, f)
<1> SUFFICES ASSUME NEW acc \in Account,
                    acc.pos = position[s], acc.long = long[s], acc.short = short[s]
             PROVE  /\ Refill(acc, f).pos = position[s] + f.delta
                    /\ Refill(acc, f).long = long'[s] /\ Refill(acc, f).short = short'[s]
                    /\ Refill(acc, f).profit = acc.profit + (realized' - realized)
  BY Zenon DEF Replays
<1> DEFINE n == Smaller(f.delta, Size(position[s]))
           closed == Realise(short[s], n, f.price, -1)
           gain == closed.profit
<1>1. /\ position[s] < 0 /\ position[s] \in Int /\ realized \in Int /\ f.delta \in Int
      /\ f.price \in Int /\ acc.profit \in Int /\ short[s] \in Seq(Lot)
  BY FillFields DEF CoverShort, BooksTyped, Account
<1>2. /\ short'[s] = closed.queue
      /\ long'[s] = long[s] \o Opened(f.delta - n, f.price)
      /\ realized' = realized + gain
  BY DEF CoverShort, Flipped, BooksTyped
<1>3. /\ acc.pos < 0 => n = Smaller(f.delta, Size(acc.pos))
      /\ acc.pos >= 0 => n = 0
      /\ n \in Nat
  BY <1>1 DEF Smaller, Size
<1> HIDE DEF n
<1>4. /\ Refill(acc, f).pos = acc.pos + f.delta
      /\ Refill(acc, f).long = acc.long \o Opened(f.delta - n, f.price)
      /\ Refill(acc, f).short = Realise(acc.short, n, f.price, -1).queue
      /\ Refill(acc, f).profit = acc.profit + Realise(acc.short, n, f.price, -1).profit
  BY <1>3, RefillOfPurchase
<1>5. gain \in Int
  <2> DEFINE sign == -1
  <2>1. sign \in {1, -1} /\ closed = Realise(short[s], n, f.price, sign)
    OBVIOUS
  <2> HIDE DEF sign, closed
  <2> QED
    BY <1>1, <1>3, <2>1, RealiseTyped
<1>6. Refill(acc, f).profit = acc.profit + gain
  BY <1>4
<1> HIDE DEF gain
<1>7. acc.profit + gain = acc.profit + (realized' - realized)
  BY <1>1, <1>2, <1>5
<1> QED
  BY <1>2, <1>4, <1>6, <1>7, Zenon

LEMMA CloseLongReplays ==
  ASSUME BooksTyped, LotsMatchPosition, NEW s \in Symbol, NEW f \in Fill, f.delta < 0,
         NEW q \in Nat, q = Size(f.delta), CloseLong(s, q, f.price)
  PROVE  Replays(s, f)
<1> SUFFICES ASSUME NEW acc \in Account,
                    acc.pos = position[s], acc.long = long[s], acc.short = short[s]
             PROVE  /\ Refill(acc, f).pos = position[s] + f.delta
                    /\ Refill(acc, f).long = long'[s] /\ Refill(acc, f).short = short'[s]
                    /\ Refill(acc, f).profit = acc.profit + (realized' - realized)
  BY Zenon DEF Replays
<1> DEFINE n == Smaller(q, position[s])
           closed == Realise(long[s], n, f.price, 1)
           gain == closed.profit
<1>1. /\ position[s] > 0 /\ position[s] \in Int /\ realized \in Int /\ f.delta \in Int
      /\ f.price \in Int /\ acc.profit \in Int /\ long[s] \in Seq(Lot)
  BY FillFields DEF CloseLong, BooksTyped, Account
<1>2. Size(position[s]) = position[s]
  BY <1>1 DEF Size
<1>3. /\ long'[s] = closed.queue
      /\ short'[s] = short[s] \o Opened(q - n, f.price)
      /\ realized' = realized + gain
  BY <1>2 DEF CloseLong, Flipped, BooksTyped
<1>4. /\ acc.pos > 0 => n = Smaller(q, acc.pos)
      /\ acc.pos <= 0 => n = 0
      /\ n \in Nat
  BY <1>1 DEF Smaller, Size
<1> HIDE DEF n
<1>5. /\ Refill(acc, f).pos = acc.pos + f.delta
      /\ Refill(acc, f).short = acc.short \o Opened(q - n, f.price)
      /\ Refill(acc, f).long = Realise(acc.long, n, f.price, 1).queue
      /\ Refill(acc, f).profit = acc.profit + Realise(acc.long, n, f.price, 1).profit
  BY <1>4, RefillOfSale
<1>6. gain \in Int
  <2> DEFINE sign == 1
  <2>1. sign \in {1, -1} /\ closed = Realise(long[s], n, f.price, sign)
    OBVIOUS
  <2> HIDE DEF sign, closed
  <2> QED
    BY <1>1, <1>4, <2>1, RealiseTyped
<1>7. Refill(acc, f).profit = acc.profit + gain
  BY <1>5
<1> HIDE DEF gain
<1>8. acc.profit + gain = acc.profit + (realized' - realized)
  BY <1>1, <1>3, <1>6
<1> QED
  BY <1>3, <1>5, <1>7, <1>8, Zenon

\* f is the fill of the step, and it changes the books of its symbol alone.
Booked(s, f) ==
  /\ f \in Fill /\ f.symbol = s /\ f.delta # 0
  /\ fills' = Append(fills, f)
  /\ position' = [position EXCEPT ![s] = @ + f.delta]
  /\ Replays(s, f)
  /\ \A r \in Symbol \ {s} : long'[r] = long[r] /\ short'[r] = short[r]

LEMMA BuyBooks ==
  ASSUME BooksTyped, LotsMatchPosition, NEW s \in Symbol, NEW q \in Qty, NEW p \in Price,
         NEW fee, NEW mid, Buy(s, q, p, fee, mid)
  PROVE  \E f : Booked(s, f)
<1> DEFINE f == [symbol |-> s, delta |-> q, price |-> p]
<1>1. q \in Nat \ {0} /\ 1 * q = q
  BY AccountingAssumption
<1>2. f \in Fill /\ f.symbol = s /\ f.delta = q /\ f.price = p
  BY <1>1 DEF Fill
<1>3. fills' = Append(fills, f) /\ position' = [position EXCEPT ![s] = @ + q]
  BY <1>1, Zenon DEF Buy, Settle
<1>4. OpenLong(s, q, p) \/ CoverShort(s, q, p)
  BY DEF Buy
<1>5. \A r \in Symbol \ {s} : long'[r] = long[r] /\ short'[r] = short[r]
  BY <1>4 DEF OpenLong, CoverShort, BooksTyped
<1> HIDE DEF f
<1>6. Replays(s, f)
  <2>1. f.delta > 0
    BY <1>1, <1>2
  <2>2. CASE OpenLong(s, q, p)
    BY <1>2, <2>1, <2>2, OpenLongReplays
  <2>3. CASE CoverShort(s, q, p)
    BY <1>2, <2>1, <2>3, CoverShortReplays
  <2> QED
    BY <1>4, <2>2, <2>3
<1>7. Booked(s, f)
  BY <1>1, <1>2, <1>3, <1>5, <1>6 DEF Booked
<1> QED
  BY <1>7

LEMMA SellBooks ==
  ASSUME BooksTyped, LotsMatchPosition, NEW s \in Symbol, NEW q \in Qty, NEW p \in Price,
         NEW fee, NEW mid, Sell(s, q, p, fee, mid)
  PROVE  \E f : Booked(s, f)
<1> DEFINE f == [symbol |-> s, delta |-> -q, price |-> p]
<1>1. q \in Nat \ {0} /\ (-1) * q = -q /\ -(-q) = q
  BY AccountingAssumption
<1>2. f \in Fill /\ f.symbol = s /\ f.delta = -q /\ f.price = p /\ f.delta < 0
  BY <1>1 DEF Fill
<1>3. fills' = Append(fills, f) /\ position' = [position EXCEPT ![s] = @ + (-q)]
  BY <1>1, Zenon DEF Sell, Settle
<1>4. OpenShort(s, q, p) \/ CloseLong(s, q, p)
  BY DEF Sell
<1>5. \A r \in Symbol \ {s} : long'[r] = long[r] /\ short'[r] = short[r]
  BY <1>4 DEF OpenShort, CloseLong, BooksTyped
<1> HIDE DEF f
<1>6. Replays(s, f)
  <2>1. q = Size(f.delta)
    BY <1>1, <1>2 DEF Size
  <2>2. CASE OpenShort(s, q, p)
    <3>1. OpenShort(s, q, f.price) /\ q \in Nat
      BY <1>1, <1>2, <2>2
    <3> QED
      BY <1>2, <2>1, <3>1, OpenShortReplays
  <2>3. CASE CloseLong(s, q, p)
    <3>1. CloseLong(s, q, f.price) /\ q \in Nat
      BY <1>1, <1>2, <2>3
    <3> QED
      BY <1>2, <2>1, <3>1, CloseLongReplays
  <2> QED
    BY <1>4, <2>2, <2>3
<1>7. Booked(s, f)
  BY <1>1, <1>2, <1>3, <1>5, <1>6 DEF Booked
<1> QED
  BY <1>7

\* The books the bookkeeper keeps as it goes are those worked out again from its
\* fills, symbol by symbol.
Replayed(s) == Rebuilt(Picked(s, fills))

ReplayInv ==
  /\ fills \in Seq(Fill)
  /\ \A s \in Symbol : /\ Replayed(s).pos = position[s]
                       /\ Replayed(s).long = long[s] /\ Replayed(s).short = short[s]
  /\ realized = SumFunctionOnSet([s \in Symbol |-> Replayed(s).profit], Symbol)

LEMMA NothingReplayed ==
  ASSUME NEW s
  PROVE  /\ Picked(s, << >>) = << >> /\ Rebuilt(<< >>) = NoAccount
         /\ Attributed(<< >>) = NoSales
<1> DEFINE none == << >>
<1>1. none \in Seq(Fill) /\ Len(none) = 0
  BY EmptySeq
<1> HIDE DEF none
<1>2. none \in Seq(Fill)
  BY <1>1
<1>3. PICK H \in [0 .. Len(none) -> Seq(Fill)] :
        /\ H[0] = << >>
        /\ \A k \in 1 .. Len(none) : H[k] = Pick(s, H[k - 1], none[k])
        /\ Picked(s, none) = H[Len(none)]
  BY <1>2, PickedTrace
<1>4. PICK K \in [0 .. Len(none) -> Account] :
        /\ K[0] = NoAccount
        /\ \A k \in 1 .. Len(none) : K[k] = Refill(K[k - 1], none[k])
        /\ Rebuilt(none) = K[Len(none)]
  BY <1>2, RebuiltTrace
<1>5. PICK L \in [0 .. Len(none) -> Sales] :
        /\ L[0] = NoSales
        /\ \A k \in 1 .. Len(none) : L[k] = Attribute(L[k - 1], none[k])
        /\ Attributed(none) = L[Len(none)]
  BY <1>2, AttributedTrace
<1>6. Picked(s, none) = << >> /\ Rebuilt(none) = NoAccount /\ Attributed(none) = NoSales
  BY <1>1, <1>3, <1>4, <1>5, Zenon
<1> QED
  BY <1>6 DEF none

\* The fills of a symbol: a fill of another one is not among them.
LEMMA FillPicked ==
  ASSUME NEW seq \in Seq(Fill), NEW f \in Fill, NEW r
  PROVE  /\ Picked(r, seq) \in Seq(Fill) /\ Rebuilt(Picked(r, seq)) \in Account
         /\ Attributed(Picked(r, seq)) \in Sales
         /\ f.symbol # r => Picked(r, Append(seq, f)) = Picked(r, seq)
         /\ f.symbol = r =>
              /\ Picked(r, Append(seq, f)) = Append(Picked(r, seq), f)
              /\ Rebuilt(Picked(r, Append(seq, f))) = Refill(Rebuilt(Picked(r, seq)), f)
              /\ Attributed(Picked(r, Append(seq, f))) = Attribute(Attributed(Picked(r, seq)), f)
<1> DEFINE mine == Picked(r, seq)
<1>1. mine \in Seq(Fill) /\ Picked(r, Append(seq, f)) = Pick(r, mine, f)
  BY PickedAdded
<1> HIDE DEF mine
<1>2. Rebuilt(mine) \in Account /\ Rebuilt(Append(mine, f)) = Refill(Rebuilt(mine), f)
  BY <1>1, RebuiltAdded
<1>3. Attributed(mine) \in Sales /\ Attributed(Append(mine, f)) = Attribute(Attributed(mine), f)
  BY <1>1, AttributedAdded
<1>4. /\ f.symbol # r => Pick(r, mine, f) = mine
      /\ f.symbol = r => Pick(r, mine, f) = Append(mine, f)
  BY DEF Pick
<1> QED
  BY <1>1, <1>2, <1>3, <1>4, Zenon DEF mine

LEMMA BookedKeepsReplay ==
  ASSUME BooksTyped, BooksTyped', ReplayInv, NEW s \in Symbol, NEW f, Booked(s, f)
  PROVE  ReplayInv'
<1> DEFINE before == [r \in Symbol |-> Replayed(r).profit]
           after  == [r \in Symbol |-> Replayed(r)'.profit]
<1>1. /\ f \in Fill /\ f.symbol = s /\ fills' = Append(fills, f) /\ fills \in Seq(Fill)
      /\ position' = [position EXCEPT ![s] = @ + f.delta]
      /\ \A r \in Symbol \ {s} : long'[r] = long[r] /\ short'[r] = short[r]
  BY DEF Booked, ReplayInv
<1>2. \A r \in Symbol : Replayed(r) \in Account /\ Replayed(r)' \in Account
  <2>1. fills' \in Seq(Fill)
    BY <1>1, AppendProperties
  <2> QED
    BY <1>1, <2>1, FillPicked DEF Replayed
<1>3. Replayed(s)' = Refill(Replayed(s), f)
  BY <1>1, FillPicked, Zenon DEF Replayed
<1>4. \A r \in Symbol \ {s} : Replayed(r)' = Replayed(r)
  <2> TAKE r \in Symbol \ {s}
  <2>1. f.symbol # r
    BY <1>1
  <2>2. Picked(r, Append(fills, f)) = Picked(r, fills)
    BY <1>1, <2>1, FillPicked
  <2> QED
    BY <1>1, <2>2, Zenon DEF Replayed
<1>5. /\ Replayed(s)'.pos = position[s] + f.delta
      /\ Replayed(s)'.long = long'[s] /\ Replayed(s)'.short = short'[s]
      /\ Replayed(s)'.profit = Replayed(s).profit + (realized' - realized)
  <2>1. /\ Replayed(s).pos = position[s]
        /\ Replayed(s).long = long[s] /\ Replayed(s).short = short[s]
    BY DEF ReplayInv
  <2>2. Replays(s, f)
    BY DEF Booked
  <2> QED
    BY <1>2, <1>3, <2>1, <2>2 DEF Replays
<1>6. ASSUME NEW r \in Symbol
      PROVE  /\ Replayed(r)'.pos = position'[r]
             /\ Replayed(r)'.long = long'[r] /\ Replayed(r)'.short = short'[r]
  <2>1. CASE r = s
    <3>1. position'[s] = position[s] + f.delta
      BY <1>1 DEF BooksTyped
    <3> QED
      BY <1>5, <2>1, <3>1
  <2>2. CASE r # s
    <3>1. Replayed(r)' = Replayed(r) /\ long'[r] = long[r] /\ short'[r] = short[r]
      BY <1>1, <1>4, <2>2
    <3>2. position'[r] = position[r]
      BY <1>1, <2>2 DEF BooksTyped
    <3> QED
      BY <3>1, <3>2 DEF ReplayInv
  <2> QED
    BY <2>1, <2>2
<1>7. realized' = SumFunctionOnSet(after, Symbol)
  <2>1. \A r \in Symbol : before[r] \in Int /\ after[r] \in Int
    BY <1>2 DEF Account
  <2>2. \A r \in Symbol \ {s} : before[r] = after[r]
    BY <1>4
  <2>3. after[s] = before[s] + (realized' - realized)
    BY <1>5
  <2>4. realized = SumFunctionOnSet(before, Symbol)
    BY DEF ReplayInv
  <2>5. realized \in Int /\ realized' \in Int /\ IsFiniteSet(Symbol)
    BY AccountingAssumption DEF BooksTyped
  <2> HIDE DEF before, after
  <2>6. SumFunctionOnSet(after, Symbol) = SumFunctionOnSet(before, Symbol) + (after[s] - before[s])
    BY <2>1, <2>2, <2>5, SumChanged
  <2>7. before[s] \in Int
    BY <2>1
  <2> QED
    BY <2>3, <2>4, <2>5, <2>6, <2>7
<1>8. fills' \in Seq(Fill)
  BY <1>1, AppendProperties
<1> QED
  BY <1>6, <1>7, <1>8 DEF ReplayInv

-----------------------------------------------------------------------------
(* The attribution *)

\* The fills of a list never add up to a short position.
Deltas(seq, n)  == [i \in 1 .. n |-> seq[i].delta]
NeverShort(seq) == \A n \in DOMAIN seq : SumOf(Deltas(seq, n)) >= 0

LEMMA DeltasAdded ==
  ASSUME NEW seq \in Seq(Fill), NEW f \in Fill, NEW n, n = Len(seq)
  PROVE  /\ SumOf(Deltas(seq, n)) \in Int
         /\ SumOf(Deltas(Append(seq, f), n + 1)) = SumOf(Deltas(seq, n)) + f.delta
         /\ \A k \in 1 .. n : Deltas(Append(seq, f), k) = Deltas(seq, k)
         /\ DOMAIN seq = 1 .. n /\ DOMAIN Append(seq, f) = 1 .. n + 1 /\ n \in Nat
<1> DEFINE longer == Append(seq, f)
           short1 == Deltas(seq, n)
           long1 == Deltas(longer, n + 1)
<1>1. /\ n \in Nat /\ DOMAIN seq = 1 .. n /\ \A i \in 1 .. n : seq[i] \in Fill
      /\ longer \in Seq(Fill) /\ Len(longer) = n + 1 /\ longer[n + 1] = f
      /\ DOMAIN longer = 1 .. n + 1 /\ \A i \in 1 .. n : longer[i] = seq[i]
  BY AppendProperties, LenProperties, ElementOfSeq
<1> HIDE DEF longer
<1>2. f.delta \in Int /\ \A i \in 1 .. n : seq[i].delta \in Int
  BY <1>1, FillFields
<1>3. short1 \in Seq(Int) /\ Len(short1) = n /\ \A i \in 1 .. n : short1[i] = seq[i].delta
  BY <1>1, <1>2, IsASeq DEF Deltas
<1>4. \A i \in 1 .. n + 1 : longer[i].delta \in Int /\ long1[i] = longer[i].delta
  <2> TAKE i \in 1 .. n + 1
  <2>1. CASE i = n + 1
    BY <1>1, <1>2, <2>1 DEF Deltas
  <2>2. CASE i # n + 1
    <3>1. i \in 1 .. n
      BY <1>1, <2>2
    <3> QED
      BY <1>1, <1>2, <3>1 DEF Deltas
  <2> QED
    BY <2>1, <2>2
<1>5. long1 \in Seq(Int) /\ Len(long1) = n + 1
  <2>1. n + 1 \in Nat
    BY <1>1
  <2> QED
    BY <1>4, <2>1, IsASeq DEF Deltas
<1> HIDE DEF short1, long1
<1>6. long1 = Append(short1, f.delta)
  <2>1. /\ Append(short1, f.delta) \in Seq(Int) /\ Len(Append(short1, f.delta)) = n + 1
        /\ Append(short1, f.delta)[n + 1] = f.delta
        /\ \A i \in 1 .. n : Append(short1, f.delta)[i] = short1[i]
    BY <1>2, <1>3, AppendProperties
  <2>2. ASSUME NEW i \in 1 .. n + 1
        PROVE  long1[i] = Append(short1, f.delta)[i]
    <3>1. long1[i] = longer[i].delta
      BY <1>4
    <3>2. CASE i = n + 1
      BY <1>1, <2>1, <3>1, <3>2
    <3>3. CASE i # n + 1
      <4>1. i \in 1 .. n
        BY <1>1, <3>3
      <4> QED
        BY <1>1, <1>3, <2>1, <3>1, <4>1
    <3> QED
      BY <3>2, <3>3
  <2> QED
    BY <1>5, <2>1, <2>2, SeqEqual
<1>7. SumOf(short1) \in Int /\ SumOf(long1) = SumOf(short1) + f.delta
  BY <1>2, <1>3, <1>6, SumOfAppend
<1>8. \A k \in 1 .. n : Deltas(longer, k) = Deltas(seq, k)
  <2> TAKE k \in 1 .. n
  <2>1. \A i \in 1 .. k : longer[i] = seq[i]
    BY <1>1
  <2> QED
    BY <2>1 DEF Deltas
<1> QED
  BY <1>1, <1>7, <1>8 DEF longer, short1, long1

\* While no position is short, selling against the lots of the attribution is
\* selling against the bookkeeper's: a sale never asks for more than is held.
LEMMA AttributeRefills ==
  ASSUME NEW acc \in Account, NEW sales \in Sales, NEW f \in Fill, f.delta # 0,
         acc.pos >= 0, acc.pos + f.delta >= 0, acc.short = << >>,
         sales.queue = acc.long, sales.profit = acc.profit
  PROVE  /\ Attribute(sales, f).queue = Refill(acc, f).long
         /\ Attribute(sales, f).profit = Refill(acc, f).profit
<1>1. /\ f.delta \in Int /\ f.price \in Int /\ f.price \in Price /\ acc.pos \in Int
      /\ acc.profit \in Int /\ acc.long \in Seq(Lot)
  BY FillFields DEF Account
<1>2. CASE f.delta > 0
  <2> DEFINE none == 0
             lot == [price |-> f.price, qty |-> f.delta]
  <2>1. Attribute(sales, f) = [sales EXCEPT !.queue = Append(sales.queue, lot)]
    BY <1>2, Zenon DEF Attribute
  <2>2. /\ acc.pos < 0 => none = Smaller(f.delta, Size(acc.pos))
        /\ acc.pos >= 0 => none = 0
        /\ none \in Nat /\ f.delta - none = f.delta /\ acc.profit + 0 = acc.profit
    BY <1>1
  <2> HIDE DEF none
  <2>3. /\ Refill(acc, f).long = acc.long \o Opened(f.delta - none, f.price)
        /\ Refill(acc, f).profit = acc.profit + Realise(acc.short, none, f.price, -1).profit
    BY <1>2, <2>2, RefillOfPurchase
  <2>4. Realise(<< >>, none, f.price, -1).profit = 0
    BY <1>1, <2>2, RealiseNothing
  <2>5. Refill(acc, f).profit = acc.profit
    BY <2>2, <2>3, <2>4, Zenon
  <2>6. lot \in Lot /\ Opened(f.delta, f.price) = <<lot>>
    BY <1>1, <1>2 DEF Lot, Opened
  <2> HIDE DEF lot
  <2>7. acc.long \o <<lot>> = Append(acc.long, lot)
    BY <1>1, <2>6, AppendIsConcat
  <2>8. Attribute(sales, f).queue = Append(sales.queue, lot)
        /\ Attribute(sales, f).profit = sales.profit
    BY <2>1 DEF Sales
  <2>9. Refill(acc, f).long = Append(acc.long, lot)
    BY <2>2, <2>3, <2>6, <2>7, Zenon
  <2> QED
    BY <2>5, <2>8, <2>9
<1>3. CASE ~(f.delta > 0)
  <2> DEFINE q == Size(f.delta)
             sold == Realise(acc.long, q, f.price, 1)
  <2>1. /\ f.delta < 0 /\ q \in Nat /\ -f.delta = q /\ acc.pos > 0
        /\ acc.pos > 0 => q = Smaller(q, acc.pos)
        /\ acc.pos <= 0 => q = 0
    BY <1>1, <1>3 DEF Size, Smaller
  <2>2. Attribute(sales, f) = [queue |-> sold.queue, profit |-> sales.profit + sold.profit]
    BY <1>3, <2>1, Zenon DEF Attribute
  <2> HIDE DEF q
  <2>3. q = Size(f.delta)
    BY DEF q
  <2>4. /\ Refill(acc, f).long = Realise(acc.long, q, f.price, 1).queue
        /\ Refill(acc, f).profit = acc.profit + Realise(acc.long, q, f.price, 1).profit
    BY <2>1, <2>3, RefillOfSale
  <2> HIDE DEF sold
  <2>5. Attribute(sales, f).queue = sold.queue /\ Attribute(sales, f).profit = sales.profit + sold.profit
    BY <2>2
  <2> QED
    BY <2>4, <2>5, Zenon DEF sold
<1> QED
  BY <1>2, <1>3

\* The fills of a symbol add up to its position, and while they were never short
\* the attribution holds the bookkeeper's lots and its profit.
AttributedInv ==
  \A s \in Symbol :
    LET mine == Picked(s, fills)
    IN /\ SumOf(Deltas(mine, Len(mine))) = position[s]
       /\ NeverShort(mine) => /\ Attributed(mine).queue = long[s]
                              /\ Attributed(mine).profit = Replayed(s).profit

LEMMA BookedKeepsAttribution ==
  ASSUME BooksTyped, LotsMatchPosition, ReplayInv, ReplayInv', AttributedInv,
         NEW s \in Symbol, NEW f, Booked(s, f)
  PROVE  AttributedInv'
<1>1. /\ f \in Fill /\ f.symbol = s /\ f.delta # 0 /\ fills' = Append(fills, f) /\ fills \in Seq(Fill)
      /\ position' = [position EXCEPT ![s] = @ + f.delta]
      /\ \A r \in Symbol \ {s} : long'[r] = long[r] /\ short'[r] = short[r]
  BY DEF Booked, ReplayInv
<1>2. ASSUME NEW r \in Symbol \ {s}
      PROVE  LET mine == Picked(r, fills')
             IN /\ SumOf(Deltas(mine, Len(mine))) = position'[r]
                /\ NeverShort(mine) => /\ Attributed(mine).queue = long'[r]
                                       /\ Attributed(mine).profit = Replayed(r)'.profit
  <2>1. f.symbol # r
    BY <1>1
  <2>2. Picked(r, fills') = Picked(r, fills)
    BY <1>1, <2>1, FillPicked
  <2>3. Replayed(r)' = Replayed(r)
    BY <2>2, Zenon DEF Replayed
  <2>4. position'[r] = position[r] /\ long'[r] = long[r]
    BY <1>1 DEF BooksTyped
  <2> QED
    BY <2>2, <2>3, <2>4, Zenon DEF AttributedInv
<1> DEFINE mine == Picked(s, fills)
           next == Picked(s, fills')
           n == Len(mine)
<1>3. /\ mine \in Seq(Fill) /\ next = Append(mine, f)
      /\ Replayed(s) \in Account /\ Replayed(s) = Rebuilt(mine)
      /\ Replayed(s)' = Refill(Replayed(s), f)
      /\ Attributed(mine) \in Sales /\ Attributed(next) = Attribute(Attributed(mine), f)
  BY <1>1, FillPicked, Zenon DEF Replayed
<1>4. /\ SumOf(Deltas(mine, n)) = position[s]
      /\ NeverShort(mine) => /\ Attributed(mine).queue = long[s]
                             /\ Attributed(mine).profit = Replayed(s).profit
  BY Zenon DEF AttributedInv
<1> HIDE DEF mine, next, n
<1>5. /\ SumOf(Deltas(mine, n)) \in Int /\ SumOf(Deltas(next, n + 1)) = SumOf(Deltas(mine, n)) + f.delta
      /\ \A k \in 1 .. n : Deltas(next, k) = Deltas(mine, k)
      /\ DOMAIN mine = 1 .. n /\ DOMAIN next = 1 .. n + 1 /\ n \in Nat
  BY <1>1, <1>3, DeltasAdded DEF n
<1>6. position'[s] = position[s] + f.delta /\ position[s] \in Int
  BY <1>1 DEF BooksTyped
<1>7. SumOf(Deltas(next, Len(next))) = position'[s]
  <2>1. Len(next) = n + 1
    BY <1>1, <1>3, AppendProperties DEF n
  <2> QED
    BY <1>4, <1>5, <1>6, <2>1
<1>8. ASSUME NeverShort(next)
      PROVE  Attributed(next).queue = long'[s] /\ Attributed(next).profit = Replayed(s)'.profit
  <2>1. NeverShort(mine)
    <3>1. ASSUME NEW k \in 1 .. n PROVE SumOf(Deltas(mine, k)) >= 0
      <4>1. k \in 1 .. n + 1
        BY <1>5
      <4>2. SumOf(Deltas(next, k)) >= 0
        BY <1>5, <1>8, <4>1 DEF NeverShort
      <4> QED
        BY <1>5, <4>2
    <3> QED
      BY <1>5, <3>1 DEF NeverShort
  <2>2. position[s] >= 0
    <3>1. CASE n = 0
      <4>1. Deltas(mine, 0) = << >>
        BY DEF Deltas
      <4>2. SumOf(Deltas(mine, n)) = 0
        BY <3>1, <4>1, SumOfEmpty
      <4> QED
        BY <1>4, <4>2
    <3>2. CASE n # 0
      <4>1. n \in DOMAIN mine
        BY <1>5, <3>2
      <4> QED
        BY <1>4, <2>1, <4>1 DEF NeverShort
    <3> QED
      BY <3>1, <3>2
  <2>3. position[s] + f.delta >= 0
    <3>1. n + 1 \in DOMAIN next
      BY <1>5
    <3>2. SumOf(Deltas(next, n + 1)) >= 0
      BY <1>8, <3>1 DEF NeverShort
    <3> QED
      BY <1>4, <1>5, <3>2
  <2>4. /\ Replayed(s).pos = position[s] /\ Replayed(s).long = long[s] /\ Replayed(s).short = short[s]
        /\ Replayed(s)'.long = long'[s]
    BY DEF ReplayInv
  <2>5. short[s] = << >>
    BY <2>2, Queues
  <2>6. /\ Attribute(Attributed(mine), f).queue = Refill(Replayed(s), f).long
        /\ Attribute(Attributed(mine), f).profit = Refill(Replayed(s), f).profit
    <3> DEFINE acc == Replayed(s)
               sales == Attributed(mine)
    <3>1. /\ acc \in Account /\ sales \in Sales /\ acc.pos >= 0 /\ acc.pos + f.delta >= 0
          /\ acc.short = << >> /\ sales.queue = acc.long /\ sales.profit = acc.profit
      BY <1>3, <1>4, <2>1, <2>2, <2>3, <2>4, <2>5
    <3> HIDE DEF acc, sales
    <3>2. /\ Attribute(sales, f).queue = Refill(acc, f).long
          /\ Attribute(sales, f).profit = Refill(acc, f).profit
      BY <1>1, <3>1, AttributeRefills
    <3> QED
      BY <3>2 DEF acc, sales
  <2> QED
    BY <1>3, <2>4, <2>6, Zenon
<1>9. \A r \in Symbol : r # s => r \in Symbol \ {s}
  OBVIOUS
<1> QED
  BY <1>2, <1>7, <1>8, <1>9, Zenon DEF AttributedInv, next

-----------------------------------------------------------------------------
(* The profits of the books *)

ProfitInv == BooksInv /\ ReplayInv /\ AttributedInv

LEMMA ProfitInitially ==
  Init => ProfitInv
<1> SUFFICES ASSUME Init PROVE ProfitInv
  OBVIOUS
<1>1. /\ fills = << >> /\ realized = 0 /\ IsFiniteSet(Symbol)
      /\ \A s \in Symbol : position[s] = 0 /\ long[s] = << >> /\ short[s] = << >>
  BY AccountingAssumption DEF Init
<1>2. \A s \in Symbol : /\ Picked(s, fills) = << >> /\ Replayed(s) = NoAccount
                        /\ Attributed(Picked(s, fills)) = NoSales
  BY <1>1, NothingReplayed, Zenon DEF Replayed
<1>3. /\ NoAccount.pos = 0 /\ NoAccount.profit = 0 /\ NoAccount.long = << >> /\ NoAccount.short = << >>
      /\ NoSales.queue = << >> /\ NoSales.profit = 0
  BY DEF NoAccount, NoSales
<1>4. ReplayInv
  <2> DEFINE f == [s \in Symbol |-> Replayed(s).profit]
  <2>1. \A s \in Symbol : f[s] = 0
    BY <1>2, <1>3
  <2> HIDE DEF f
  <2>2. SumFunctionOnSet(f, Symbol) = 0
    BY <1>1, <2>1, SumOfZeros
  <2>3. fills \in Seq(Fill)
    BY <1>1, EmptySeq
  <2>4. realized = SumFunctionOnSet([s \in Symbol |-> Replayed(s).profit], Symbol)
    BY <1>1, <2>2 DEF f
  <2> QED
    BY <1>1, <1>2, <1>3, <2>3, <2>4 DEF ReplayInv
<1>5. AttributedInv
  <2>1. ASSUME NEW seq, seq = << >>
        PROVE  SumOf(Deltas(seq, Len(seq))) = 0
    <3>1. Len(seq) = 0
      BY <2>1, EmptySeq
    <3>2. Deltas(seq, 0) = << >>
      BY DEF Deltas
    <3> QED
      BY <3>1, <3>2, SumOfEmpty
  <2> QED
    BY <1>1, <1>2, <1>3, <2>1 DEF AttributedInv
<1> QED
  BY <1>4, <1>5, BooksInitially DEF ProfitInv

LEMMA ProfitStep ==
  ProfitInv /\ [Next]_vars => ProfitInv'
<1> SUFFICES ASSUME ProfitInv, [Next]_vars PROVE ProfitInv'
  OBVIOUS
<1>1. /\ BooksInv /\ ReplayInv /\ AttributedInv /\ BooksInv'
      /\ BooksTyped /\ LotsMatchPosition /\ BooksTyped'
  BY BooksStep DEF ProfitInv, BooksInv
<1>2. ASSUME UNCHANGED <<position, realized, fills, long, short>>
      PROVE  ReplayInv' /\ AttributedInv'
  BY <1>1, <1>2, Zenon DEF ReplayInv, Replayed, AttributedInv
<1>3. ASSUME NEW s \in Symbol, \E f : Booked(s, f)
      PROVE  ReplayInv' /\ AttributedInv'
  BY <1>1, <1>3, BookedKeepsReplay, BookedKeepsAttribution
<1>4. CASE UNCHANGED vars
  <2>1. UNCHANGED <<position, realized, fills, long, short>>
    BY <1>4 DEF vars
  <2> QED
    BY <1>1, <1>2, <2>1 DEF ProfitInv
<1>5. CASE Next
  <2>1. ASSUME NEW s \in Symbol, NEW price \in Price, MarkToMarket(s, price)
        PROVE  UNCHANGED <<position, realized, fills, long, short>>
    BY <2>1 DEF MarkToMarket, bookkeeper
  <2>2. ASSUME NEW s \in Symbol, NEW q \in Qty, NEW p \in Price, NEW fee \in Fee, NEW mid \in Price,
               Buy(s, q, p, fee, mid) \/ Sell(s, q, p, fee, mid)
        PROVE  \E f : Booked(s, f)
    BY <1>1, <2>2, BuyBooks, SellBooks
  <2>3. CASE Full
    BY <1>4, <2>3 DEF Full
  <2>4. ASSUME NEW s \in Symbol, NEW price \in Price, MarkToMarket(s, price)
        PROVE  ReplayInv' /\ AttributedInv'
    BY <1>2, <2>1, <2>4
  <2>5. ASSUME NEW s \in Symbol, NEW q \in Qty, NEW p \in Price, NEW fee \in Fee, NEW mid \in Price,
               Buy(s, q, p, fee, mid) \/ Sell(s, q, p, fee, mid)
        PROVE  ReplayInv' /\ AttributedInv'
    BY <1>3, <2>2, <2>5
  <2>6. ReplayInv' /\ AttributedInv'
    BY <1>5, <2>3, <2>4, <2>5 DEF Next, ProfitInv
  <2> QED
    BY <1>1, <2>6 DEF ProfitInv
<1> QED
  BY <1>1, <1>4, <1>5 DEF ProfitInv

LEMMA ProfitCorrect ==
  Spec => []ProfitInv
BY ProfitInitially, ProfitStep, PTL DEF Spec

\* Once every position is flat, the cash that came in is the realised profit,
\* and all of it has been realised by the ledger too.
LEMMA FlatProfit ==
  ASSUME ReportInv, \A s \in Symbol : position[s] = 0
  PROVE  LedgerRealized \cong Whole(realized) /\ LedgerFees = fees
<1> DEFINE total == LedgerRealized
<1>1. BooksTyped /\ LotsMatchPosition /\ CashInv /\ LedgerInv /\ LedgerFees = fees /\ IsFiniteSet(Symbol)
  BY AccountingAssumption DEF ReportInv, BooksInv, LastEntryInv
<1>2. cash \in Int /\ realized \in Int /\ fees \in Int /\ InitialCash \in Int
  BY <1>1, AccountingAssumption DEF BooksTyped
<1>3. Invested = 0
  <2> DEFINE f == [s \in Symbol |-> CostOf(long[s]) - CostOf(short[s])]
  <2>1. \A s \in Symbol : f[s] = 0
    <3> TAKE s \in Symbol
    <3>1. position[s] >= 0 /\ position[s] <= 0
      OBVIOUS
    <3>2. CostOf(long[s]) = 0 /\ CostOf(short[s]) = 0
      BY <1>1, <3>1, Queues
    <3> QED
      BY <3>2
  <2>2. Invested = SumFunctionOnSet(f, Symbol)
    BY DEF Invested
  <2> HIDE DEF f
  <2> QED
    BY <1>1, <2>1, <2>2, SumOfZeros
<1>4. cash - InitialCash + fees = realized
  BY <1>1, <1>2, <1>3 DEF CashInv
<1>5. PICK d, a : /\ PricedAt(d, a) /\ total \in Fraction
                  /\ Worth(total, d, (cash - InitialCash + fees) * d + HeldAt(a))
  BY <1>1 DEF LedgerInv
<1>6. HeldAt(a) = 0 /\ d \in Nat \ {0}
  <2> DEFINE f == [s \in Symbol |-> position[s] * a[s]]
  <2>1. a \in [Symbol -> Int] /\ d \in Nat \ {0}
    BY <1>5 DEF PricedAt
  <2>2. \A s \in Symbol : f[s] = 0
    BY <2>1
  <2>3. HeldAt(a) = SumFunctionOnSet(f, Symbol)
    BY DEF HeldAt
  <2> HIDE DEF f
  <2> QED
    BY <1>1, <2>1, <2>2, <2>3, SumOfZeros
<1> HIDE DEF total
<1>7. Worth(total, d, realized * d) /\ realized * d \in Int
  <2>1. realized * d \in Int
    BY <1>2, <1>6
  <2>2. realized * d + 0 = realized * d
    BY <2>1
  <2> QED
    BY <1>4, <1>5, <1>6, <2>1, <2>2, Zenon
<1>8. Whole(realized) \in Fraction /\ Worth(Whole(realized), d, realized * d)
  BY <1>2, <1>6, WorthOfWhole
<1>9. total \cong Whole(realized)
  BY <1>5, <1>6, <1>7, <1>8, SameWorth
<1> QED
  BY <1>1, <1>9 DEF total

LEMMA ProfitsFromBooks ==
  ASSUME ProfitInv, ReportInv
  PROVE  RealizedProfitsAgree
<1> DEFINE worked == [s \in Symbol |-> ComputedRealized(s)]
           sold   == [s \in Symbol |-> FillProfit(s)]
           replay == [s \in Symbol |-> Replayed(s).profit]
<1>1. ReplayInv /\ AttributedInv /\ IsFiniteSet(Symbol)
  BY AccountingAssumption DEF ProfitInv
<1>2. \A s \in Symbol : /\ OfSymbol(s) = Picked(s, fills)
                        /\ ComputedRealized(s) = Replayed(s).profit
                        /\ FillProfit(s) = Attributed(Picked(s, fills)).profit
  BY Zenon DEF OfSymbol, Picked, Pick, ComputedRealized, Replayed, Rebuilt, NoAccount,
               FillProfit, Attributed, NoSales
<1>3. realized = SumFunctionOnSet(replay, Symbol)
  BY <1>1 DEF ReplayInv
<1>4. \A s \in Symbol : worked[s] = replay[s]
  BY <1>2
<1>5. /\ SumFunction(worked) = SumFunctionOnSet(worked, Symbol)
      /\ SumFunction(sold) = SumFunctionOnSet(sold, Symbol)
  <2>1. DOMAIN worked = Symbol /\ DOMAIN sold = Symbol
    OBVIOUS
  <2> HIDE DEF worked, sold
  <2> QED
    BY <2>1 DEF SumFunction
<1>6. realized = SumFunction(worked)
  <2> HIDE DEF worked, replay
  <2> QED
    BY <1>1, <1>3, <1>4, <1>5, SumEqual
<1>7. ASSUME \A s \in Symbol : \A n \in DOMAIN OfSymbol(s) :
               SumOf([i \in 1 .. n |-> OfSymbol(s)[i].delta]) >= 0
      PROVE  realized = SumFunction(sold)
  <2>1. \A s \in Symbol : NeverShort(Picked(s, fills))
    BY <1>2, <1>7, Zenon DEF NeverShort, Deltas
  <2>2. \A s \in Symbol : sold[s] = replay[s]
    BY <1>1, <1>2, <2>1 DEF AttributedInv
  <2> HIDE DEF sold, replay
  <2> QED
    BY <1>1, <1>3, <1>5, <2>2, SumEqual
<1>8. (\A s \in Symbol : position[s] = 0) => LedgerRealized \cong Whole(realized) /\ LedgerFees = fees
  BY FlatProfit
<1> QED
  BY <1>6, <1>7, <1>8, Zenon DEF RealizedProfitsAgree

-----------------------------------------------------------------------------
(* The account of single shares *)

\* k shares at the price p, a queue with a lot's shares added to it, and what is
\* left of a queue when its first k shares have gone.
Singles(k, p)      == [i \in 1 .. k |-> p]
Unrolled(acc, lot) == acc \o Singles(lot.qty, lot.price)
After(u, k)        == SubSeq(u, k + 1, Len(u))

LEMMA SinglesTyped ==
  ASSUME NEW k \in Nat, NEW p \in Price
  PROVE  /\ Singles(k, p) \in Seq(Price) /\ Len(Singles(k, p)) = k
         /\ \A i \in 1 .. k : Singles(k, p)[i] = p
         /\ k = 0 => Singles(k, p) = << >>
<1> DEFINE s == Singles(k, p)
<1>1. s \in [1 .. k -> Price] /\ \A i \in 1 .. k : s[i] = p
  BY DEF Singles
<1> HIDE DEF s
<1>2. s \in Seq(Price)
  BY <1>1, IsASeq
<1>3. Len(s) = k
  <2>1. DOMAIN s = 1 .. k
    BY <1>1
  <2> QED
    BY <1>2, <2>1, LenProperties
<1> QED
  BY <1>1, <1>2, <1>3, EmptySeq DEF s

LEMMA UnrolledTyped ==
  ASSUME NEW acc \in Seq(Price), NEW lot \in Lot
  PROVE  Unrolled(acc, lot) \in Seq(Price)
<1>1. Singles(lot.qty, lot.price) \in Seq(Price)
  BY LotTyped, SinglesTyped
<1> QED
  BY <1>1, ConcatProperties DEF Unrolled

LEMMA NoShares == << >> \in Seq(Price)
  OBVIOUS

LEMMA UnitsTrace ==
  ASSUME NEW seq \in Seq(Lot)
  PROVE  \E H \in [0 .. Len(seq) -> Seq(Price)] :
           /\ H[0] = << >>
           /\ \A k \in 1 .. Len(seq) : H[k] = Unrolled(H[k - 1], seq[k])
           /\ UnitShares(seq) = H[Len(seq)]
<1> DEFINE n == Len(seq)
           none == << >>
           G == [p \in (1 .. n) \X Seq(Price) |-> Unrolled(p[2], seq[p[1]])]
           IsIter(g) == g = [t \in SUBSET (1 .. n) |->
             IF t = {} THEN none ELSE Unrolled(g[t \ {Max(t)}], seq[Max(t)])]
           iter == CHOOSE g : IsIter(g)
<1>1. n \in Nat /\ DOMAIN seq = 1 .. n /\ \A i \in 1 .. n : seq[i] \in Lot
  BY LenProperties, ElementOfSeq
<1>2. UnitShares(seq) = iter[1 .. n]
  <2>1. UnitShares(seq) = (CHOOSE g : g = [t \in SUBSET (DOMAIN seq) |->
          IF t = {} THEN none ELSE Unrolled(g[t \ {Max(t)}], seq[Max(t)])])[DOMAIN seq]
    BY Zenon DEF UnitShares, Unrolled, Singles, FoldLeft, MapThenFoldSet
  <2> QED
    BY <1>1, <2>1, Zenon
<1>3. none \in Seq(Price)
  BY NoShares
<1> HIDE DEF n, none
<1>4. ASSUME NEW i \in 1 .. n, NEW a \in Seq(Price)
      PROVE  G[<<i, a>>] = Unrolled(a, seq[i])
  OBVIOUS
<1> HIDE DEF G
<1>5. Keeps(G, 1 .. n, Seq(Price))
  <2>1. ASSUME NEW i \in 1 .. n, NEW a \in Seq(Price)
        PROVE  G[<<i, a>>] \in Seq(Price)
    <3>1. Unrolled(a, seq[i]) \in Seq(Price)
      BY <1>1, UnrolledTyped, Zenon
    <3> QED
      BY <1>4, <3>1, Zenon
  <2> QED
    BY <2>1, Zenon DEF Keeps
<1>6. \E g : IsIter(g)
  <2>1. PICK g \in [SUBSET (1 .. n) -> Seq(Price)] : IsLeftFold(G, none, n, g)
    BY <1>1, <1>3, <1>5, FoldLeftExists
  <2>2. ASSUME NEW t \in SUBSET (1 .. n)
        PROVE  g[t] = IF t = {} THEN none ELSE Unrolled(g[t \ {Max(t)}], seq[Max(t)])
    <3>1. t # {} => Max(t) \in 1 .. n
      BY <1>1, LargestChosen
    <3>2. g[t \ {Max(t)}] \in Seq(Price)
      OBVIOUS
    <3> QED
      BY <1>4, <2>1, <3>1, <3>2 DEF IsLeftFold
  <2> QED
    BY <2>2
<1>7. IsIter(iter)
  BY <1>6
<1> HIDE DEF iter
<1>8. iter[{}] = none
  BY <1>7
<1>9. ASSUME NEW k \in 1 .. n, iter[1 .. k - 1] \in Seq(Price)
      PROVE  iter[1 .. k] = G[<<k, iter[1 .. k - 1]>>]
  <2>1. k \in Nat \ {0} /\ 1 .. k \in SUBSET (1 .. n)
    BY <1>1
  <2>2. iter[1 .. k] = Unrolled(iter[(1 .. k) \ {Max(1 .. k)}], seq[Max(1 .. k)])
    BY <1>7, <2>1, LargestOfPrefix
  <2>3. Max(1 .. k) = k /\ (1 .. k) \ {k} = 1 .. k - 1
    BY <2>1, LargestOfPrefix
  <2>4. iter[1 .. k] = Unrolled(iter[1 .. k - 1], seq[k])
    BY <2>2, <2>3, Zenon
  <2> QED
    BY <1>4, <1>9, <2>4, Zenon
<1>10. PICK H : IsTrace(G, Seq(Price), none, n, H) /\ H[n] = iter[1 .. n]
  <2>1. StepsOn(G, Seq(Price), n, iter)
    BY <1>9, Zenon DEF StepsOn
  <2> QED
    BY <1>1, <1>3, <1>5, <1>8, <2>1, FoldLeftTrace
<1>11. ASSUME NEW k \in 1 .. n
       PROVE  H[k] = Unrolled(H[k - 1], seq[k])
  <2>1. k - 1 \in 0 .. n
    BY <1>1
  <2>2. H[k - 1] \in Seq(Price) /\ H[k] = G[<<k, H[k - 1]>>]
    BY <1>10, <2>1 DEF IsTrace
  <2> QED
    BY <1>4, <2>2
<1> QED
  BY <1>2, <1>10, <1>11 DEF IsTrace, n, none

\* A lot more is its shares more.
LEMMA UnitsAdded ==
  ASSUME NEW seq \in Seq(Lot), NEW x \in Lot
  PROVE  /\ UnitShares(seq) \in Seq(Price)
         /\ UnitShares(Append(seq, x)) = Unrolled(UnitShares(seq), x)
<1> DEFINE n == Len(seq)
           longer == Append(seq, x)
<1>1. /\ n \in Nat /\ longer \in Seq(Lot) /\ Len(longer) = n + 1
      /\ longer[n + 1] = x /\ \A i \in 1 .. n : longer[i] = seq[i]
  BY AppendProperties, LenProperties, ElementOfSeq
<1>2. PICK H \in [0 .. n -> Seq(Price)] :
        /\ H[0] = << >>
        /\ \A k \in 1 .. n : H[k] = Unrolled(H[k - 1], seq[k])
        /\ UnitShares(seq) = H[n]
  BY UnitsTrace
<1> HIDE DEF n, longer
<1>3. PICK K \in [0 .. n + 1 -> Seq(Price)] :
        /\ K[0] = << >>
        /\ \A k \in 1 .. n + 1 : K[k] = Unrolled(K[k - 1], longer[k])
        /\ UnitShares(longer) = K[n + 1]
  <2>1. \E K \in [0 .. Len(longer) -> Seq(Price)] :
          /\ K[0] = << >>
          /\ \A k \in 1 .. Len(longer) : K[k] = Unrolled(K[k - 1], longer[k])
          /\ UnitShares(longer) = K[Len(longer)]
    BY <1>1, UnitsTrace, Zenon
  <2> QED
    BY <1>1, <2>1, Zenon
<1>4. \A k \in 0 .. n : H[k] = K[k]
  <2>1. \A k \in 1 .. n : k \in 1 .. n + 1 /\ longer[k] = seq[k]
    BY <1>1
  <2>2. StepAlike(n, H, K)
    BY <1>2, <1>3, <2>1 DEF StepAlike
  <2>3. SameTrace(n, H, K)
    BY <1>1, <2>2, TracesAgree
  <2> QED
    BY <2>3 DEF SameTrace
<1>5. n + 1 \in 1 .. n + 1 /\ (n + 1) - 1 = n /\ n \in 0 .. n
  BY <1>1
<1>6. K[n + 1] = Unrolled(K[n], x)
  BY <1>1, <1>3, <1>5
<1>7. UnitShares(longer) = Unrolled(UnitShares(seq), x)
  BY <1>2, <1>3, <1>4, <1>5, <1>6
<1> QED
  BY <1>2, <1>5, <1>7 DEF longer

LEMMA StartedFrom ==
  ASSUME NEW base \in Int, NEW seq \in Seq(Int)
  PROVE  Started(base, seq) = base + SumOf(seq) /\ SumOf(seq) \in Int
<1> DEFINE n == Len(seq)
<1>1. n \in Nat /\ \A k \in 1 .. n : seq[k] \in Int
  BY LenProperties, ElementOfSeq
<1>2. PICK H \in [0 .. n -> Int] :
        H[0] = 0 /\ (\A k \in 1 .. n : H[k] = H[k - 1] + seq[k]) /\ SumOf(seq) = H[n]
  BY SumTrace
<1>3. PICK K \in [0 .. n -> Int] :
        H[0] = 0 /\ K[0] = base /\ (\A k \in 1 .. n : K[k] = K[k - 1] + seq[k]) /\ Started(base, seq) = K[n]
  BY <1>2, StartedTrace
<1> HIDE DEF n
<1>4. \A k \in 0 .. n : K[k] = base + H[k]
  <2> DEFINE Good == {k \in 0 .. n : K[k] = base + H[k]}
  <2>1. 0 \in Good
    BY <1>1, <1>2, <1>3
  <2>2. ASSUME NEW k \in 1 .. n, k - 1 \in Good
        PROVE  k \in Good
    <3>1. k \in 0 .. n /\ k - 1 \in 0 .. n /\ K[k - 1] = base + H[k - 1]
      BY <1>1, <2>2
    <3>2. K[k] = K[k - 1] + seq[k] /\ H[k] = H[k - 1] + seq[k] /\ seq[k] \in Int /\ H[k - 1] \in Int
      BY <1>1, <1>2, <1>3, <3>1
    <3> QED
      BY <3>1, <3>2
  <2> HIDE DEF Good
  <2>3. \A k \in 0 .. n : k \in Good
    BY <1>1, <2>1, <2>2, UpTo
  <2> QED
    BY <2>3 DEF Good
<1>5. n \in 0 .. n
  BY <1>1
<1> QED
  BY <1>2, <1>3, <1>4, <1>5

LEMMA AfterTyped ==
  ASSUME NEW u \in Seq(Price), NEW k \in 0 .. Len(u)
  PROVE  /\ After(u, k) \in Seq(Price) /\ Len(After(u, k)) = Len(u) - k
         /\ \A i \in 1 .. Len(u) - k : After(u, k)[i] = u[k + i]
<1> DEFINE n == Len(u)
<1>1. n \in Nat /\ k \in Nat /\ k <= n /\ \A i \in 1 .. n : u[i] \in Price
  BY LenProperties, ElementOfSeq
<1> HIDE DEF n
<1>2. \A i \in k + 1 .. n : u[i] \in Price
  BY <1>1
<1>3. k + 1 \in Int /\ n \in Int
  BY <1>1
<1>4. /\ SubSeq(u, k + 1, n) \in Seq(Price)
      /\ Len(SubSeq(u, k + 1, n)) = IF k + 1 <= n THEN n - (k + 1) + 1 ELSE 0
      /\ \A i \in 1 .. n - (k + 1) + 1 : SubSeq(u, k + 1, n)[i] = u[(k + 1) + i - 1]
  <2> DEFINE m == k + 1
  <2>1. m \in Int /\ n \in Int /\ \A i \in m .. n : u[i] \in Price
    BY <1>2, <1>3
  <2> HIDE DEF m
  <2>2. /\ SubSeq(u, m, n) \in Seq(Price)
        /\ Len(SubSeq(u, m, n)) = IF m <= n THEN n - m + 1 ELSE 0
        /\ \A i \in 1 .. n - m + 1 : SubSeq(u, m, n)[i] = u[m + i - 1]
    BY <2>1, SubSeqProperties
  <2> QED
    BY <2>2 DEF m
<1>5. (IF k + 1 <= n THEN n - (k + 1) + 1 ELSE 0) = n - k /\ n - (k + 1) + 1 = n - k
      /\ \A i \in 1 .. n - k : (k + 1) + i - 1 = k + i
  BY <1>1
<1>6. After(u, k) = SubSeq(u, k + 1, n)
  BY DEF After, n
<1>7. \A i \in 1 .. n - k : After(u, k)[i] = u[k + i]
  <2> SUFFICES ASSUME NEW i \in 1 .. n - k
               PROVE  After(u, k)[i] = u[k + i]
    OBVIOUS
  <2>1. After(u, k)[i] = u[(k + 1) + i - 1]
    BY <1>4, <1>5, <1>6
  <2> QED
    BY <1>5, <2>1
<1> QED
  BY <1>4, <1>5, <1>6, <1>7 DEF n

\* What is added to a queue comes after what it held.
LEMMA AfterConcat ==
  ASSUME NEW u \in Seq(Price), NEW v \in Seq(Price), NEW k \in 0 .. Len(u)
  PROVE  /\ u \o v \in Seq(Price) /\ Len(u \o v) = Len(u) + Len(v) /\ k \in 0 .. Len(u \o v)
         /\ After(u \o v, k) = After(u, k) \o v
<1> DEFINE w == u \o v
           l == After(w, k)
           r == After(u, k) \o v
           m == Len(u)
           n == Len(v)
<1>1. m \in Nat /\ n \in Nat
  BY LenProperties
<1>2. /\ w \in Seq(Price) /\ Len(w) = m + n
      /\ \A i \in 1 .. m + n : w[i] = IF i <= m THEN u[i] ELSE v[i - m]
  BY ConcatProperties
<1> HIDE DEF w
<1>3. k \in 0 .. Len(w)
  BY <1>1, <1>2
<1>4. /\ l \in Seq(Price) /\ Len(l) = m + n - k /\ \A i \in 1 .. m + n - k : l[i] = w[k + i]
  <2>1. Len(w) = m + n
    BY <1>2
  <2>2. l \in Seq(Price) /\ Len(l) = Len(w) - k /\ \A i \in 1 .. Len(w) - k : l[i] = w[k + i]
    BY <1>2, <1>3, AfterTyped, Zenon
  <2> HIDE DEF l, m, n
  <2>3. Len(w) - k = m + n - k
    BY <1>1, <2>1
  <2> QED
    BY <2>2, <2>3
<1>5. /\ After(u, k) \in Seq(Price) /\ Len(After(u, k)) = m - k
      /\ \A i \in 1 .. m - k : After(u, k)[i] = u[k + i]
  BY AfterTyped
<1> DEFINE a == After(u, k)
<1> HIDE DEF a
<1>6. /\ r \in Seq(Price) /\ Len(r) = (m - k) + n
      /\ \A i \in 1 .. (m - k) + n : r[i] = IF i <= m - k THEN a[i] ELSE v[i - (m - k)]
  <2>1. a \in Seq(Price) /\ Len(a) = m - k /\ r = a \o v
    BY <1>5 DEF a
  <2>2. v \in Seq(Price) /\ Len(v) = n
    OBVIOUS
  <2> HIDE DEF r, n
  <2>3. /\ a \o v \in Seq(Price) /\ Len(a \o v) = Len(a) + Len(v)
        /\ \A i \in 1 .. Len(a) + Len(v) :
             (a \o v)[i] = IF i <= Len(a) THEN a[i] ELSE v[i - Len(a)]
    BY <2>1, ConcatProperties, Zenon
  <2> QED
    BY <2>1, <2>2, <2>3, Zenon
<1> HIDE DEF l, r, m, n
<1>7. (m - k) + n = m + n - k /\ k \in Nat
  BY <1>1
<1>8. ASSUME NEW i \in 1 .. m + n - k
      PROVE  l[i] = r[i]
  <2>1. k + i \in 1 .. m + n /\ l[i] = w[k + i] /\ i \in 1 .. (m - k) + n
    BY <1>1, <1>4, <1>7
  <2>2. CASE i <= m - k
    <3>1. i \in 1 .. m - k /\ k + i <= m
      BY <1>1, <1>7, <2>2
    <3> QED
      BY <1>2, <1>5, <1>6, <2>1, <2>2, <3>1 DEF a
  <2>3. CASE ~(i <= m - k)
    <3>1. ~(k + i <= m) /\ (k + i) - m = i - (m - k)
      BY <1>1, <1>7, <2>3
    <3> QED
      BY <1>2, <1>6, <2>1, <2>3, <3>1
  <2> QED
    BY <2>2, <2>3
<1>9. l = r
  BY <1>4, <1>6, <1>7, <1>8, SeqEqual
<1> QED
  BY <1>2, <1>3, <1>9 DEF l, r, w, m, n

\* When a queue of equal shares has lost some, fewer equal ones are left.
LEMMA AfterSingles ==
  ASSUME NEW u \in Seq(Price), NEW c \in Nat, NEW p \in Price, NEW j \in 0 .. c
  PROVE  After(u \o Singles(c, p), Len(u) + j) = Singles(c - j, p)
<1> DEFINE v == Singles(c, p)
           w == u \o v
           m == Len(u)
           l == After(w, m + j)
           r == Singles(c - j, p)
<1>1. m \in Nat /\ c - j \in Nat /\ j \in Nat
  BY LenProperties
<1>2. v \in Seq(Price) /\ Len(v) = c /\ \A i \in 1 .. c : v[i] = p
  BY SinglesTyped
<1>3. r \in Seq(Price) /\ Len(r) = c - j /\ \A i \in 1 .. c - j : r[i] = p
  BY <1>1, SinglesTyped
<1> HIDE DEF v, r
<1>4. /\ w \in Seq(Price) /\ Len(w) = m + c
      /\ \A i \in 1 .. m + c : w[i] = IF i <= m THEN u[i] ELSE v[i - m]
  BY <1>2, ConcatProperties
<1> HIDE DEF w, m
<1>5. /\ l \in Seq(Price) /\ Len(l) = (m + c) - (m + j)
      /\ \A i \in 1 .. (m + c) - (m + j) : l[i] = w[(m + j) + i]
  <2>1. m + j \in 0 .. Len(w)
    BY <1>1, <1>4
  <2> QED
    BY <1>4, <2>1, AfterTyped
<1> HIDE DEF l
<1>6. (m + c) - (m + j) = c - j
  BY <1>1
<1>7. ASSUME NEW i \in 1 .. c - j
      PROVE  l[i] = r[i]
  <2>1. (m + j) + i \in 1 .. m + c /\ ~((m + j) + i <= m) /\ ((m + j) + i) - m \in 1 .. c
    BY <1>1
  <2>2. l[i] = w[(m + j) + i]
    BY <1>5, <1>6
  <2>3. w[(m + j) + i] = p
    BY <1>2, <1>4, <2>1
  <2> QED
    BY <1>3, <2>2, <2>3
<1>8. l = r
  BY <1>3, <1>5, <1>6, <1>7, SeqEqual
<1> QED
  BY <1>8 DEF l, r, w, v, m

\* What each of the first k shares earns when it is traded against at a price, and
\* what they earn together.
Gains(u, k, price, sign)  == [i \in 1 .. k |-> sign * (price - u[i])]
Earned(u, k, price, sign) == SumOf(Gains(u, k, price, sign))

LEMMA GainsTyped ==
  ASSUME NEW u \in Seq(Price), NEW k \in Nat, k <= Len(u), NEW price \in Int, NEW sign \in {1, -1}
  PROVE  /\ Gains(u, k, price, sign) \in Seq(Int) /\ Len(Gains(u, k, price, sign)) = k
         /\ Earned(u, k, price, sign) \in Int
         /\ \A i \in 1 .. k : /\ Gains(u, k, price, sign)[i] = sign * (price - u[i])
                              /\ sign * (price - u[i]) \in Int
<1> DEFINE gain(i) == sign * (price - u[i])
           g == [i \in 1 .. k |-> gain(i)]
<1>1. \A i \in 1 .. k : gain(i) \in Int
  <2> SUFFICES ASSUME NEW i \in 1 .. k PROVE gain(i) \in Int
    OBVIOUS
  <2>1. \A a \in Int : sign * (price - a) \in Int
    OBVIOUS
  <2>2. Len(u) \in Nat
    BY LenProperties
  <2>3. i \in 1 .. Len(u)
    BY <2>2
  <2>4. u[i] \in Int
    <3>1. u[i] \in Price
      BY <2>3, ElementOfSeq, Zenon
    <3> QED
      <4>1. \A a \in Price : a \in Int
        BY AccountingAssumption
      <4> QED
        BY <3>1, <4>1, Zenon
  <2> QED
    BY <2>1, <2>4, Zenon
<1>2. Gains(u, k, price, sign) = g
  BY DEF Gains
<1> HIDE DEF gain
<1>3. g \in Seq(Int) /\ Len(g) = k
  BY <1>1, IsASeq
<1>4. \A i \in 1 .. k : g[i] = gain(i)
  OBVIOUS
<1> HIDE DEF g
<1>5. SumOf(g) \in Int
  BY <1>3, StartedFrom, Zenon
<1>6. \A i \in 1 .. k : g[i] = gain(i) /\ gain(i) \in Int
  BY <1>1, <1>4
<1> QED
  BY <1>2, <1>3, <1>5, <1>6 DEF Earned, gain

LEMMA EarnedNone ==
  ASSUME NEW u, NEW price, NEW sign
  PROVE  Gains(u, 0, price, sign) = << >> /\ Earned(u, 0, price, sign) = 0
<1>1. Gains(u, 0, price, sign) = << >>
  BY DEF Gains
<1> QED
  BY <1>1, SumOfEmpty DEF Earned

\* One share more earns its own profit more.
LEMMA EarnedOneMore ==
  ASSUME NEW u \in Seq(Price), NEW k \in Nat, k < Len(u), NEW price \in Int, NEW sign \in {1, -1}
  PROVE  Earned(u, k + 1, price, sign) = Earned(u, k, price, sign) + sign * (price - u[k + 1])
<1> DEFINE g == Gains(u, k, price, sign)
           h == Gains(u, k + 1, price, sign)
           x == sign * (price - u[k + 1])
<1>1. Len(u) \in Nat /\ k + 1 \in Nat /\ k + 1 <= Len(u) /\ k <= Len(u) /\ k + 1 \in 1 .. k + 1
  BY LenProperties
<1>2. /\ g \in Seq(Int) /\ Len(g) = k /\ \A i \in 1 .. k : g[i] = sign * (price - u[i])
  <2>0. k \in Nat /\ k <= Len(u)
    BY <1>1
  <2>1. \A i \in 1 .. k : Gains(u, k, price, sign)[i] = sign * (price - u[i])
    BY <2>0, GainsTyped
  <2>2. Gains(u, k, price, sign) \in Seq(Int) /\ Len(Gains(u, k, price, sign)) = k
    BY <1>1, GainsTyped
  <2> QED
    BY <2>1, <2>2, Zenon
<1>3. /\ h \in Seq(Int) /\ Len(h) = k + 1 /\ x \in Int
      /\ \A i \in 1 .. k + 1 : h[i] = sign * (price - u[i])
  <2> DEFINE n == k + 1
  <2>1. n \in Nat /\ n <= Len(u) /\ n \in 1 .. n
    BY <1>1
  <2> HIDE DEF n
  <2>2. /\ \A i \in 1 .. n : /\ Gains(u, n, price, sign)[i] = sign * (price - u[i])
                             /\ sign * (price - u[i]) \in Int
    BY <2>1, GainsTyped
  <2>3. Gains(u, n, price, sign) \in Seq(Int) /\ Len(Gains(u, n, price, sign)) = n
    BY <2>1, GainsTyped
  <2>4. sign * (price - u[n]) \in Int
    BY <2>1, <2>2, Zenon
  <2> QED
    BY <2>2, <2>3, <2>4, Zenon DEF n
<1> DEFINE l == Append(g, x)
<1>4. h[k + 1] = x
  BY <1>1, <1>3
<1>5. \A i \in 1 .. k : i \in 1 .. k + 1 /\ h[i] = g[i]
  <2>1. \A i \in 1 .. k : i \in 1 .. k + 1
    OBVIOUS
  <2> QED
    BY <1>2, <1>3, <2>1, Zenon
<1> HIDE DEF g, h, x
<1>6. /\ l \in Seq(Int) /\ Len(l) = k + 1 /\ l[k + 1] = x /\ \A i \in 1 .. k : l[i] = g[i]
  BY <1>2, <1>3, AppendProperties
<1> HIDE DEF l
<1>7. \A i \in 1 .. k + 1 : h[i] = l[i]
  BY <1>4, <1>5, <1>6
<1>8. h = l
  BY <1>3, <1>6, <1>7, SeqEqual
<1>9. SumOf(l) = SumOf(g) + x
  BY <1>2, <1>3, SumOfAppend DEF l
<1> QED
  BY <1>8, <1>9 DEF Earned, g, h, x

\* What the first shares earn depends on those shares alone.
LEMMA EarnedOfSame ==
  ASSUME NEW u, NEW v, NEW k, \A i \in 1 .. k : u[i] = v[i], NEW price, NEW sign
  PROVE  Earned(u, k, price, sign) = Earned(v, k, price, sign)
<1>1. Gains(u, k, price, sign) = Gains(v, k, price, sign)
  BY DEF Gains
<1> QED
  BY <1>1 DEF Earned

\* j shares of one price earn j times what one earns.
SinglesEarn(u, c, p, j, price, sign) ==
  Earned(u \o Singles(c, p), Len(u) + j, price, sign)
    = Earned(u, Len(u), price, sign) + sign * j * (price - p)

LEMMA EarnedOfSingles ==
  ASSUME NEW u \in Seq(Price), NEW c \in Nat, NEW p \in Price, NEW j \in 0 .. c,
         NEW price \in Int, NEW sign \in {1, -1}
  PROVE  SinglesEarn(u, c, p, j, price, sign)
<1> DEFINE v == Singles(c, p)
           w == u \o v
           m == Len(u)
           E(k) == Earned(w, m + k, price, sign)
           x == price - p
<1>1. m \in Nat /\ p \in Int /\ x \in Int
  BY LenProperties, AccountingAssumption
<1>2. v \in Seq(Price) /\ Len(v) = c /\ \A i \in 1 .. c : v[i] = p
  BY SinglesTyped
<1> HIDE DEF v
<1>3. /\ w \in Seq(Price) /\ Len(w) = m + c
      /\ \A i \in 1 .. m + c : w[i] = IF i <= m THEN u[i] ELSE v[i - m]
  BY <1>2, ConcatProperties
<1> HIDE DEF w, m, x
<1>4. \A i \in 1 .. m : w[i] = u[i]
  BY <1>1, <1>3
<1>5. E(0) = Earned(u, m, price, sign)
  <2>1. Earned(w, m, price, sign) = Earned(u, m, price, sign) /\ m + 0 = m
    BY <1>1, <1>4, EarnedOfSame
  <2> QED
    BY <2>1, Zenon
<1>6. Earned(u, m, price, sign) \in Int
  <2>1. m <= Len(u) /\ m \in Nat
    BY <1>1 DEF m
  <2> QED
    BY <2>1, GainsTyped
<1>7. ASSUME NEW k \in 1 .. c
      PROVE  E(k) = E(k - 1) + sign * x /\ E(k - 1) \in Int
  <2> DEFINE n == m + (k - 1)
  <2>1. n \in Nat /\ n < Len(w) /\ n <= Len(w) /\ n + 1 = m + k
        /\ n + 1 \in 1 .. m + c /\ ~(n + 1 <= m) /\ (n + 1) - m \in 1 .. c
    BY <1>1, <1>3
  <2>2. w[n + 1] = p
    BY <1>2, <1>3, <2>1
  <2> HIDE DEF n
  <2>3. Earned(w, n + 1, price, sign) = Earned(w, n, price, sign) + sign * (price - w[n + 1])
    BY <1>3, <2>1, EarnedOneMore
  <2>4. Earned(w, n, price, sign) \in Int
    BY <1>3, <2>1, GainsTyped
  <2> QED
    BY <2>1, <2>2, <2>3, <2>4 DEF n, x
<1> HIDE DEF E
<1>8. \A k \in 0 .. c : E(k) = E(0) + sign * k * x
  <2> DEFINE Good == {k \in 0 .. c : E(k) = E(0) + sign * k * x}
  <2>1. 0 \in Good
    BY <1>1, <1>5, <1>6
  <2>2. ASSUME NEW k \in 1 .. c, k - 1 \in Good
        PROVE  k \in Good
    <3>1. E(k) = E(k - 1) + sign * x /\ E(k - 1) \in Int
      BY <1>7
    <3>2. E(k - 1) = E(0) + sign * (k - 1) * x
      BY <2>2
    <3>3. sign * (k - 1) * x + sign * x = sign * k * x /\ sign * x \in Int
          /\ sign * (k - 1) * x \in Int
      BY <1>1
    <3>4. E(0) \in Int
      BY <1>5, <1>6
    <3>5. E(k) = E(0) + sign * k * x
      <4> DEFINE a == sign * (k - 1) * x
                 b == sign * x
                 d == sign * k * x
                 e == E(0)
      <4>1. a + b = d /\ a \in Int /\ b \in Int /\ e \in Int /\ E(k) = e + a + b
        BY <3>1, <3>2, <3>3, <3>4
      <4> HIDE DEF a, b, d, e
      <4>2. E(k) = e + d
        BY <4>1
      <4> QED
        BY <4>2 DEF d, e
    <3> QED
      BY <3>5
  <2> HIDE DEF Good
  <2>3. \A k \in 0 .. c : k \in Good
    BY <2>1, <2>2, UpTo
  <2> QED
    BY <2>3 DEF Good
<1>9. E(j) = Earned(u, m, price, sign) + sign * j * x
  BY <1>5, <1>8
<1> QED
  BY <1>9, Zenon DEF SinglesEarn, E, w, v, m, x

LEMMA UnitsOfNone == UnitShares(<< >>) = << >>
<1>1. << >> \in Seq(Lot) /\ Len(<< >>) = 0
  BY EmptySeq
<1>2. PICK H \in [0 .. 0 -> Seq(Price)] : H[0] = << >> /\ UnitShares(<< >>) = H[0]
  BY <1>1, UnitsTrace
<1> QED
  BY <1>2

\* The shares a fill opens come last.
LEMMA UnitsOpened ==
  ASSUME NEW lots \in Seq(Lot), NEW k \in Nat, NEW p \in Price
  PROVE  UnitShares(lots \o Opened(k, p)) = UnitShares(lots) \o Singles(k, p)
<1>0. UnitShares(lots) \in Seq(Price)
  <2> DEFINE lot == [price |-> p, qty |-> 1]
  <2>1. lot \in Lot
    BY DEF Lot
  <2> QED
    BY <2>1, UnitsAdded
<1>1. CASE k = 0
  <2>1. Opened(k, p) = << >> /\ Singles(k, p) = << >>
    BY <1>1, SinglesTyped DEF Opened
  <2> QED
    BY <1>0, <2>1, ConcatEmptySeq
<1>2. CASE k > 0
  <2> DEFINE lot == [price |-> p, qty |-> k]
  <2>1. lot \in Lot /\ lot.qty = k /\ lot.price = p
    BY <1>2 DEF Lot
  <2>2. Opened(k, p) = <<lot>>
    BY <1>2 DEF Opened
  <2> HIDE DEF lot
  <2>3. lots \o Opened(k, p) = Append(lots, lot)
    BY <2>1, <2>2, AppendIsConcat
  <2>4. UnitShares(Append(lots, lot)) = Unrolled(UnitShares(lots), lot)
    BY <2>1, UnitsAdded
  <2> QED
    BY <2>1, <2>3, <2>4 DEF Unrolled
<1> QED
  BY <1>1, <1>2

\* A queue has as many single shares as its lots hold.
LEMMA UnitsCounted ==
  ASSUME NEW lots \in Seq(Lot)
  PROVE  UnitShares(lots) \in Seq(Price) /\ Len(UnitShares(lots)) = SharesHeld(lots)
<1> DEFINE n == Len(lots)
<1>1. n \in Nat /\ \A k \in 1 .. n : lots[k] \in Lot
  BY LotsMapped
<1>2. PICK H \in [0 .. n -> Seq(Price)] :
        /\ H[0] = << >> /\ \A k \in 1 .. n : H[k] = Unrolled(H[k - 1], lots[k])
        /\ UnitShares(lots) = H[n]
  BY UnitsTrace
<1>3. PICK Q \in [0 .. n -> Int], C \in [0 .. n -> Int] :
        /\ Q[0] = 0 /\ C[0] = 0
        /\ \A k \in 1 .. n : /\ Q[k] = Q[k - 1] + lots[k].qty
                             /\ C[k] = C[k - 1] + lots[k].price * lots[k].qty
        /\ SharesHeld(lots) = Q[n] /\ CostOf(lots) = C[n]
  BY LotsTrace
<1> HIDE DEF n
<1>4. \A k \in 0 .. n : Len(H[k]) = Q[k]
  <2> DEFINE Good == {k \in 0 .. n : Len(H[k]) = Q[k]}
  <2>1. 0 \in Good
    BY <1>1, <1>2, <1>3, EmptySeq
  <2>2. ASSUME NEW k \in 1 .. n, k - 1 \in Good
        PROVE  k \in Good
    <3>1. k \in 0 .. n /\ k - 1 \in 0 .. n
      BY <1>1
    <3>2. Len(H[k - 1]) = Q[k - 1] /\ H[k - 1] \in Seq(Price)
      BY <1>2, <2>2, <3>1
    <3> DEFINE u == H[k - 1]
               v == Singles(lots[k].qty, lots[k].price)
    <3>3. v \in Seq(Price) /\ Len(v) = lots[k].qty
      BY <1>1, LotTyped, SinglesTyped
    <3>4. H[k] = u \o v
      BY <1>2 DEF Unrolled
    <3>5. u \in Seq(Price) /\ Len(u) = Q[k - 1]
      BY <3>2
    <3> HIDE DEF u, v
    <3>6. Len(u \o v) = Len(u) + Len(v)
      BY <3>3, <3>5, ConcatProperties
    <3> QED
      BY <1>3, <3>1, <3>3, <3>4, <3>5, <3>6
  <2> HIDE DEF Good
  <2>3. \A k \in 0 .. n : k \in Good
    BY <1>1, <2>1, <2>2, UpTo
  <2> QED
    BY <2>3 DEF Good
<1>5. n \in 0 .. n
  BY <1>1
<1> QED
  BY <1>2, <1>3, <1>4, <1>5

\* The matching loop has come past the single shares u: those already served have
\* left the queue and earned, and none is passed over.
Standing(u, q, price, sign, m) ==
  /\ q - m.left \in 0 .. Len(u)
  /\ UnitShares(m.queue) = After(u, q - m.left)
  /\ m.profit = Earned(u, q - m.left, price, sign)
  /\ m.left > 0 => q - m.left = Len(u)

LEMMA UnitsServed ==
  ASSUME NEW u \in Seq(Price), NEW q \in Nat, NEW m \in Acc, NEW lot \in Lot, NEW price \in Int,
         NEW sign \in {1, -1}, NEW next, next = Serve(m, lot, price, sign),
         Standing(u, q, price, sign, m)
  PROVE  Standing(Unrolled(u, lot), q, price, sign, next)
<1> DEFINE c == lot.qty
           p == lot.price
           j == Smaller(m.left, c)
           rest == [lot EXCEPT !.qty = @ - j]
           k == q - m.left
           v == Singles(c, p)
           w == u \o v
<1>1. /\ next.left = m.left - j
      /\ next.profit = m.profit + sign * j * (price - p)
      /\ next.queue = IF j = c THEN m.queue ELSE Append(m.queue, rest)
  BY Zenon DEF Serve
<1>2. /\ m.left \in Nat /\ m.profit \in Int /\ m.queue \in Seq(Lot)
      /\ c \in Nat \ {0} /\ p \in Price /\ p \in Nat
  BY LotTyped DEF Acc
<1>3. j \in 0 .. c /\ j \in Nat /\ j <= m.left /\ (j = m.left \/ j = c)
  BY <1>2 DEF Smaller
<1>4. /\ k \in 0 .. Len(u) /\ UnitShares(m.queue) = After(u, k)
      /\ m.profit = Earned(u, k, price, sign) /\ (m.left > 0 => k = Len(u))
  BY DEF Standing
<1>5. j # c => rest \in Lot /\ rest.qty = c - j /\ rest.price = p
  <2>1. j # c => c - j \in Nat \ {0}
    BY <1>2, <1>3
  <2>2. rest.qty = c - j /\ rest.price = p /\ (c - j \in Nat \ {0} => rest \in Lot)
    <3> HIDE DEF j
    <3> QED
      BY <1>2 DEF Lot
  <2> QED
    BY <2>1, <2>2, Zenon
<1>6. v \in Seq(Price) /\ Len(v) = c
  BY <1>2, SinglesTyped
<1>7. Len(u) \in Nat /\ k \in Nat
  BY <1>4, LenProperties
<1>8. j # c => UnitShares(next.queue) = UnitShares(m.queue) \o Singles(c - j, p)
  <2>1. j # c => UnitShares(Append(m.queue, rest)) = Unrolled(UnitShares(m.queue), rest)
    BY <1>2, <1>5, UnitsAdded
  <2> QED
    BY <1>1, <1>5, <2>1 DEF Unrolled
<1>9. q - next.left = k + j
  BY <1>1, <1>2, <1>3
<1>10. Unrolled(u, lot) = w
  BY DEF Unrolled
<1>11. w \in Seq(Price) /\ Len(w) = Len(u) + c
  BY <1>6, ConcatProperties
<1> HIDE DEF c, p, j, rest, k, v, w
<1>12. k + j \in 0 .. Len(w)
  BY <1>3, <1>4, <1>7, <1>11, <1>2
<1>13. CASE m.left = 0
  <2>1. j = 0 /\ j # c /\ next.left = 0 /\ k + j = k
    BY <1>1, <1>2, <1>3, <1>7, <1>13
  <2>2. UnitShares(next.queue) = After(u, k) \o v
    <3>1. c - j = c
      BY <1>2, <2>1
    <3> QED
      BY <1>4, <1>8, <2>1, <3>1 DEF v
  <2>3. After(w, k) = After(u, k) \o v
    BY <1>4, <1>6, AfterConcat DEF w
  <2>4. next.profit = m.profit
    <3>1. sign * 0 * (price - p) = 0
      BY <1>2
    <3> QED
      BY <1>1, <1>2, <2>1, <3>1
  <2>5. Earned(w, k, price, sign) = Earned(u, k, price, sign)
    <3>1. \A i \in 1 .. Len(u) + Len(v) : w[i] = IF i <= Len(u) THEN u[i] ELSE v[i - Len(u)]
      BY <1>6, ConcatProperties DEF w
    <3>2. \A i \in 1 .. k : i \in 1 .. Len(u) + Len(v) /\ i <= Len(u)
      BY <1>2, <1>4, <1>6, <1>7
    <3>3. \A i \in 1 .. k : w[i] = u[i]
      BY <3>1, <3>2
    <3> QED
      BY <3>3, EarnedOfSame
  <2> QED
    BY <1>4, <1>9, <1>10, <1>12, <2>1, <2>2, <2>3, <2>4, <2>5 DEF Standing
<1>14. CASE m.left > 0
  <2>1. k = Len(u) /\ k + j = Len(u) + j
    BY <1>4, <1>14
  <2>2. UnitShares(m.queue) = << >>
    <3>1. After(u, k) \in Seq(Price) /\ Len(After(u, k)) = 0
      BY <1>4, <1>7, <2>1, AfterTyped
    <3> QED
      BY <1>4, <3>1, EmptySeq
  <2>3. After(w, k + j) = Singles(c - j, p) /\ c - j \in Nat
    <3>1. c \in Nat /\ c - j \in Nat
      BY <1>2, <1>3
    <3>2. After(u \o Singles(c, p), Len(u) + j) = Singles(c - j, p)
      BY <1>2, <1>3, <3>1, AfterSingles
    <3> QED
      BY <2>1, <3>1, <3>2 DEF w, v
  <2>4. UnitShares(next.queue) = Singles(c - j, p)
    <3>1. CASE j = c
      <4>1. c - j = 0
        BY <1>2, <3>1
      <4> QED
        BY <1>1, <1>2, <2>2, <3>1, <4>1, SinglesTyped
    <3>2. CASE j # c
      <4>1. Singles(c - j, p) \in Seq(Price)
        BY <1>2, <2>3, SinglesTyped
      <4> QED
        BY <1>8, <2>2, <3>2, <4>1, ConcatEmptySeq
    <3> QED
      BY <3>1, <3>2
  <2>5. next.profit = Earned(w, k + j, price, sign)
    <3>1. c \in Nat /\ p \in Price /\ j \in 0 .. c
      BY <1>2, <1>3
    <3>2. SinglesEarn(u, c, p, j, price, sign)
      BY <3>1, EarnedOfSingles
    <3> QED
      BY <1>1, <1>4, <2>1, <3>2, Zenon DEF SinglesEarn, w, v
  <2>6. next.left > 0 => k + j = Len(w)
    <3>1. next.left > 0 => j = c
      BY <1>1, <1>2, <1>3
    <3> QED
      BY <1>11, <2>1, <3>1, Zenon
  <2> QED
    BY <1>9, <1>10, <1>12, <2>3, <2>4, <2>5, <2>6, Zenon DEF Standing
<1> QED
  BY <1>2, <1>13, <1>14

\* q shares leave a queue of lots as its q oldest single shares, at the profit of
\* each of them.
LEMMA UnitsRealised ==
  ASSUME NEW lots \in Seq(Lot), NEW q \in Nat, q <= SharesHeld(lots),
         NEW price \in Int, NEW sign \in {1, -1}, NEW m, m = Realise(lots, q, price, sign)
  PROVE  /\ UnitShares(m.queue) = After(UnitShares(lots), q)
         /\ m.profit = Earned(UnitShares(lots), q, price, sign)
<1> DEFINE n == Len(lots)
<1>1. n \in Nat /\ \A k \in 1 .. n : lots[k] \in Lot
  BY LotsMapped
<1>2. PICK H \in [0 .. n -> Acc] :
        /\ H[0] = [left |-> q, profit |-> 0, queue |-> << >>]
        /\ \A k \in 1 .. n : H[k] = Serve(H[k - 1], lots[k], price, sign)
        /\ m = H[n]
  BY RealiseTrace
<1>3. PICK U \in [0 .. n -> Seq(Price)] :
        /\ U[0] = << >> /\ \A k \in 1 .. n : U[k] = Unrolled(U[k - 1], lots[k])
        /\ UnitShares(lots) = U[n]
  BY UnitsTrace
<1> HIDE DEF n
<1>4. \A k \in 0 .. n : Standing(U[k], q, price, sign, H[k])
  <2> DEFINE Good == {k \in 0 .. n : Standing(U[k], q, price, sign, H[k])}
  <2>1. 0 \in Good
    <3>1. 0 \in 0 .. n /\ H[0].left = q /\ H[0].profit = 0 /\ H[0].queue = << >> /\ U[0] = << >>
      BY <1>1, <1>2, <1>3
    <3>2. q - H[0].left = 0 /\ Len(U[0]) = 0
      BY <3>1, EmptySeq
    <3>3. After(<< >>, 0) = << >>
      <4>1. Len(<< >>) = 0 /\ << >> \in Seq(Price)
        BY EmptySeq
      <4>2. 0 \in 0 .. Len(<< >>)
        BY <4>1
      <4>3. After(<< >>, 0) \in Seq(Price) /\ Len(After(<< >>, 0)) = Len(<< >>) - 0
        BY <4>1, <4>2, AfterTyped
      <4> QED
        BY <4>1, <4>3, EmptySeq
    <3>4. Standing(U[0], q, price, sign, H[0])
      BY <3>1, <3>2, <3>3, UnitsOfNone, EarnedNone DEF Standing
    <3> QED
      BY <3>1, <3>4
  <2>2. ASSUME NEW k \in 1 .. n, k - 1 \in Good
        PROVE  k \in Good
    <3> DEFINE u == U[k - 1]
               a == H[k - 1]
               lot == lots[k]
    <3>1. k \in 0 .. n /\ k - 1 \in 0 .. n
      BY <1>1
    <3>2. Standing(u, q, price, sign, a)
      BY <2>2
    <3>3. u \in Seq(Price) /\ a \in Acc /\ lot \in Lot
      BY <1>1, <1>2, <1>3, <3>1
    <3>4. H[k] = Serve(a, lot, price, sign) /\ U[k] = Unrolled(u, lot)
      BY <1>2, <1>3
    <3> HIDE DEF u, a, lot
    <3>5. Standing(U[k], q, price, sign, H[k])
      BY <3>2, <3>3, <3>4, UnitsServed, Zenon
    <3> QED
      BY <3>1, <3>5
  <2> HIDE DEF Good
  <2>3. \A k \in 0 .. n : k \in Good
    BY <1>1, <2>1, <2>2, UpTo
  <2> QED
    BY <2>3 DEF Good
<1>5. n \in 0 .. n /\ m \in Acc
  BY <1>1, <1>2
<1>6. Standing(UnitShares(lots), q, price, sign, m)
  BY <1>2, <1>3, <1>4, <1>5
<1>7. m.left \in Nat /\ Len(UnitShares(lots)) \in Nat /\ q <= Len(UnitShares(lots))
  BY <1>5, UnitsCounted, LenProperties DEF Acc
<1>8. m.left = 0
  BY <1>6, <1>7 DEF Standing
<1>9. q - m.left = q
  BY <1>8
<1> QED
  BY <1>6, <1>9 DEF Standing

-----------------------------------------------------------------------------
(* The first-in first-out account *)

LEMMA SignOf ==
  ASSUME NEW i \in Int
  PROVE  /\ i = 0 => Sign(i) = 0
         /\ i > 0 => Sign(i) = 1
         /\ i < 0 => Sign(i) = -1
<1>1. \A n \in Nat \ {0} : n \div n = 1
  OBVIOUS
<1>2. \A n \in Nat \ {0} : (-n) \div n = -1
  OBVIOUS
<1> QED
  BY <1>1, <1>2 DEF Sign, Size

LEMMA FoldsAlike ==
  ASSUME NEW base, NEW seq
  PROVE  Fifo!FoldLeft(+, base, seq) = Started(base, seq)
BY Zenon DEF Fifo!FoldLeft, Fifo!MapThenFoldSet, Fifo!Max, Started, FoldLeft, MapThenFoldSet, Max

\* The direction and the open single shares the abstract account sees.
Facing == [s \in Symbol |-> Sign(position[s])]
Queued == [s \in Symbol |-> UnitShares(long[s] \o short[s])]

\* How many of q shares traded leave the queue of the symbol.
Leaving(s, side, q) == IF Facing[s] = -side THEN Smaller(q, Len(Queued[s])) ELSE 0

LEMMA TradeOf ==
  ASSUME NEW s \in Symbol, NEW side, NEW q, NEW p, NEW fee, NEW k, NEW staying, NEW opened,
         k = Leaving(s, side, q), staying = After(Queued[s], k), opened = Singles(q - k, p),
         cash' = cash - side * q * p - fee,
         realized' = Started(realized, Gains(Queued[s], k, p, Facing[s])),
         Queued' = [Queued EXCEPT ![s] = staying \o opened],
         Facing' = [Facing EXCEPT ![s] = IF opened # << >> THEN side
                                         ELSE IF staying = << >> THEN 0 ELSE Facing[s]]
  PROVE  Fifo!Trade(s, side, q, p, fee)
BY FoldsAlike, Zenon
   DEF Leaving, Fifo!Trade, Fifo!Smaller, Smaller, After, Singles, Gains, Queued, Facing

\* The symbol's shares, long or short, are one queue of as many as its position.
LEMMA QueuedTyped ==
  ASSUME BooksInv, NEW s \in Symbol
  PROVE  /\ Queued[s] \in Seq(Price) /\ Len(Queued[s]) = Size(position[s])
         /\ position[s] >= 0 => Queued[s] = UnitShares(long[s])
         /\ position[s] <= 0 => Queued[s] = UnitShares(short[s])
         /\ position[s] \in Int /\ Size(position[s]) \in Nat
         /\ Facing[s] = Sign(position[s])
<1>1. BooksTyped /\ LotsMatchPosition
  BY DEF BooksInv
<1>2. /\ long[s] \in Seq(Lot) /\ short[s] \in Seq(Lot) /\ position[s] \in Int
      /\ SharesHeld(long[s]) \in Nat /\ SharesHeld(short[s]) \in Nat
      /\ position[s] = SharesHeld(long[s]) - SharesHeld(short[s])
      /\ position[s] >= 0 => short[s] = << >> /\ SharesHeld(short[s]) = 0
      /\ position[s] <= 0 => long[s] = << >> /\ SharesHeld(long[s]) = 0
  BY <1>1, Queues
<1>3. position[s] >= 0 => Queued[s] = UnitShares(long[s])
  <2>1. position[s] >= 0 => long[s] \o short[s] = long[s]
    BY <1>2, ConcatEmptySeq
  <2> QED
    BY <2>1 DEF Queued
<1>4. position[s] <= 0 => Queued[s] = UnitShares(short[s])
  <2>1. position[s] <= 0 => long[s] \o short[s] = short[s]
    BY <1>2, ConcatEmptySeq
  <2> QED
    BY <2>1 DEF Queued
<1>5. /\ UnitShares(long[s]) \in Seq(Price) /\ Len(UnitShares(long[s])) = SharesHeld(long[s])
      /\ UnitShares(short[s]) \in Seq(Price) /\ Len(UnitShares(short[s])) = SharesHeld(short[s])
  BY <1>2, UnitsCounted
<1>6. /\ position[s] >= 0 => Size(position[s]) = SharesHeld(long[s])
      /\ position[s] <= 0 => Size(position[s]) = SharesHeld(short[s])
      /\ Size(position[s]) \in Nat /\ (position[s] >= 0 \/ position[s] <= 0)
  BY <1>2 DEF Size
<1>7. Queued[s] \in Seq(Price) /\ Len(Queued[s]) = Size(position[s])
  <2>1. CASE position[s] >= 0
    BY <1>3, <1>5, <1>6, <2>1
  <2>2. CASE position[s] <= 0
    BY <1>4, <1>5, <1>6, <2>2
  <2> QED
    BY <1>6, <2>1, <2>2
<1> QED
  BY <1>2, <1>3, <1>4, <1>6, <1>7 DEF Facing

\* What a fill does to the shares of its symbol: the leaving ones go from the
\* front and earn, the others of the fill come last.
Requeued(s, side, q, p) ==
  /\ UnitShares(long'[s] \o short'[s])
       = After(Queued[s], Leaving(s, side, q)) \o Singles(q - Leaving(s, side, q), p)
  /\ realized' = Started(realized, Gains(Queued[s], Leaving(s, side, q), p, Facing[s]))
  /\ \A r \in Symbol \ {s} : long'[r] = long[r] /\ short'[r] = short[r]

LEMMA AfterNone ==
  ASSUME NEW u \in Seq(Price)
  PROVE  After(u, 0) = u
<1>1. Len(u) \in Nat
  BY LenProperties
<1>2. 0 \in 0 .. Len(u)
  BY <1>1
<1>3. /\ After(u, 0) \in Seq(Price) /\ Len(After(u, 0)) = Len(u) - 0
      /\ \A i \in 1 .. Len(u) - 0 : After(u, 0)[i] = u[0 + i]
  BY <1>2, AfterTyped
<1> DEFINE a == After(u, 0)
<1> HIDE DEF a
<1>4. a \in Seq(Price) /\ Len(a) = Len(u) /\ \A i \in 1 .. Len(u) : a[i] = u[i]
  BY <1>1, <1>3 DEF a
<1>5. a = u
  BY <1>4, SeqEqual
<1> QED
  BY <1>5 DEF a

\* Opening a position adds to the queue and earns nothing.
LEMMA OpeningRequeues ==
  ASSUME BooksInv, NEW s \in Symbol, NEW side, NEW q \in Nat, NEW p \in Price,
         NEW lots \in Seq(Lot), Queued[s] = UnitShares(lots), Facing[s] # -side,
         UnitShares(long'[s] \o short'[s]) = UnitShares(lots \o Opened(q, p)),
         realized' = realized,
         \A r \in Symbol \ {s} : long'[r] = long[r] /\ short'[r] = short[r]
  PROVE  Requeued(s, side, q, p)
<1>1. Leaving(s, side, q) = 0 /\ q - 0 = q
  BY DEF Leaving
<1>2. Queued[s] \in Seq(Price) /\ After(Queued[s], 0) = Queued[s]
  BY QueuedTyped, AfterNone
<1>3. UnitShares(lots \o Opened(q, p)) = UnitShares(lots) \o Singles(q, p)
  BY UnitsOpened
<1>4. Started(realized, Gains(Queued[s], 0, p, Facing[s])) = realized
  <2>1. << >> \in Seq(Int) /\ SumOf(<< >>) = 0 /\ realized \in Int
    BY SumOfEmpty, EmptySeq DEF BooksInv, BooksTyped
  <2>2. Started(realized, << >>) = realized + 0
    BY <2>1, StartedFrom
  <2> QED
    BY <2>1, <2>2, EarnedNone
<1> QED
  BY <1>1, <1>2, <1>3, <1>4, Zenon DEF Requeued

LEMMA OpenLongRequeues ==
  ASSUME BooksInv, NEW s \in Symbol, NEW q \in Nat, NEW p \in Price, OpenLong(s, q, p)
  PROVE  Requeued(s, 1, q, p)
<1>1. position[s] >= 0 /\ position[s] \in Int /\ Queued[s] = UnitShares(long[s])
      /\ Facing[s] = Sign(position[s])
  BY QueuedTyped DEF OpenLong
<1>2. Facing[s] # -1
  BY <1>1, SignOf
<1>3. /\ long[s] \in Seq(Lot) /\ short[s] = << >>
      /\ long' = [long EXCEPT ![s] = long[s] \o Opened(q, p)]
      /\ short' = short /\ realized' = realized
      /\ DOMAIN long = Symbol
  BY <1>1, Queues DEF OpenLong, BooksInv, BooksTyped
<1>4. long[s] \o Opened(q, p) \in Seq(Lot)
  BY <1>3, LotOpened DEF Larger
<1>5. long'[s] \o short'[s] = long[s] \o Opened(q, p)
  <2> DEFINE l == long[s] \o Opened(q, p)
  <2>1. long'[s] = l /\ short'[s] = << >> /\ l \in Seq(Lot)
    BY <1>3, <1>4
  <2> HIDE DEF l
  <2> QED
    BY <2>1, ConcatEmptySeq DEF l
<1>6. \A r \in Symbol \ {s} : long'[r] = long[r] /\ short'[r] = short[r]
  BY <1>3
<1> QED
  BY <1>1, <1>2, <1>3, <1>5, <1>6, OpeningRequeues

LEMMA OpenShortRequeues ==
  ASSUME BooksInv, NEW s \in Symbol, NEW q \in Nat, NEW p \in Price, OpenShort(s, q, p)
  PROVE  Requeued(s, -1, q, p)
<1> DEFINE sold == -1
<1>1. position[s] <= 0 /\ position[s] \in Int /\ Queued[s] = UnitShares(short[s])
      /\ Facing[s] = Sign(position[s])
  BY QueuedTyped DEF OpenShort
<1>2. Facing[s] # -sold
  BY <1>1, SignOf
<1>3. /\ short[s] \in Seq(Lot) /\ long[s] = << >>
      /\ short' = [short EXCEPT ![s] = short[s] \o Opened(q, p)]
      /\ long' = long /\ realized' = realized
      /\ DOMAIN short = Symbol
  BY <1>1, Queues DEF OpenShort, BooksInv, BooksTyped
<1>4. short[s] \o Opened(q, p) \in Seq(Lot)
  BY <1>3, LotOpened DEF Larger
<1>5. long'[s] \o short'[s] = short[s] \o Opened(q, p)
  <2> DEFINE h == short[s] \o Opened(q, p)
  <2>1. short'[s] = h /\ long'[s] = << >> /\ h \in Seq(Lot)
    BY <1>3, <1>4
  <2> HIDE DEF h
  <2> QED
    BY <2>1, ConcatEmptySeq DEF h
<1>6. \A r \in Symbol \ {s} : long'[r] = long[r] /\ short'[r] = short[r]
  BY <1>3
<1> HIDE DEF sold
<1>7. Requeued(s, sold, q, p)
  BY <1>1, <1>2, <1>3, <1>5, <1>6, OpeningRequeues
<1> QED
  BY <1>7 DEF sold

\* Closing takes the oldest shares out of the queue, each at its own profit.
LEMMA ClosingRequeues ==
  ASSUME BooksInv, NEW s \in Symbol, NEW side \in {1, -1}, NEW q \in Nat, NEW p \in Price,
         NEW lots \in Seq(Lot), Queued[s] = UnitShares(lots), Facing[s] = -side,
         NEW n, n = Smaller(q, Len(Queued[s])), NEW m, m = Realise(lots, n, p, -side),
         realized' = realized + m.profit,
         UnitShares(long'[s] \o short'[s]) = UnitShares(m.queue) \o Singles(q - n, p),
         \A r \in Symbol \ {s} : long'[r] = long[r] /\ short'[r] = short[r]
  PROVE  Requeued(s, side, q, p)
<1> DEFINE sign == -side
           u == UnitShares(lots)
<1>1. sign \in {1, -1} /\ p \in Int
  BY AccountingAssumption
<1>2. u \in Seq(Price) /\ Len(u) = SharesHeld(lots) /\ SharesHeld(lots) \in Nat
  BY UnitsCounted, SharesPositive
<1>3. n \in Nat /\ n <= SharesHeld(lots) /\ n <= Len(u)
  BY <1>2 DEF Smaller
<1>4. n = Leaving(s, side, q)
  BY DEF Leaving
<1> HIDE DEF sign
<1>5. UnitShares(m.queue) = After(u, n) /\ m.profit = Earned(u, n, p, sign)
  BY <1>1, <1>3, UnitsRealised DEF sign
<1> HIDE DEF u
<1>6. Started(realized, Gains(u, n, p, sign)) = realized + Earned(u, n, p, sign)
  <2>1. Gains(u, n, p, sign) \in Seq(Int)
    BY <1>1, <1>2, <1>3, GainsTyped
  <2>2. realized \in Int
    BY DEF BooksInv, BooksTyped
  <2> QED
    BY <2>1, <2>2, StartedFrom DEF Earned
<1>7. Queued[s] = u /\ Facing[s] = sign
  BY DEF u, sign
<1> QED
  BY <1>4, <1>5, <1>6, <1>7, Zenon DEF Requeued

LEMMA CloseLongRequeues ==
  ASSUME BooksInv, NEW s \in Symbol, NEW q \in Nat, NEW p \in Price, CloseLong(s, q, p)
  PROVE  Requeued(s, -1, q, p)
<1> DEFINE sold == -1
           n == Smaller(q, position[s])
           closed == Realise(long[s], n, p, 1)
           more == short[s] \o Opened(Flipped(s, q), p)
<1>1. /\ position[s] > 0 /\ realized' = realized + closed.profit
      /\ long' = [long EXCEPT ![s] = closed.queue] /\ short' = [short EXCEPT ![s] = more]
  BY DEF CloseLong
<1>2. /\ position[s] \in Int /\ Queued[s] = UnitShares(long[s]) /\ Facing[s] = Sign(position[s])
      /\ Len(Queued[s]) = Size(position[s])
  BY <1>1, QueuedTyped
<1>3. Facing[s] = -sold /\ -sold = 1 /\ Size(position[s]) = position[s]
  <2>1. Sign(position[s]) = 1
    BY <1>1, <1>2, SignOf
  <2>2. Size(position[s]) = position[s]
    BY <1>1, <1>2 DEF Size
  <2>3. -sold = 1
    <3>1. (\A i \in Int : -(-i) = i) /\ 1 \in Int
      OBVIOUS
    <3> QED
      BY <3>1, Zenon
  <2> QED
    BY <1>2, <2>1, <2>2, <2>3, Zenon
<1>4. /\ long[s] \in Seq(Lot) /\ short[s] = << >> /\ DOMAIN long = Symbol /\ DOMAIN short = Symbol
  BY <1>1, <1>2, Queues DEF BooksInv, BooksTyped
<1>5. n \in Nat /\ n <= position[s] /\ q - n \in Nat /\ Flipped(s, q) = q - n
  BY <1>1, <1>2, <1>3 DEF Smaller, Flipped
<1>6. SharesHeld(long[s]) = position[s]
  BY <1>2, <1>3, <1>4, UnitsCounted
<1> HIDE DEF n, closed, more, sold
<1>7. closed.queue \in Seq(Lot)
  <2> DEFINE sign == 1
  <2>1. sign \in {1, -1} /\ p \in Int
    BY AccountingAssumption
  <2> HIDE DEF sign
  <2>2. closed = Realise(long[s], n, p, sign)
    BY DEF closed, sign
  <2> QED
    BY <1>4, <1>5, <1>6, <2>1, <2>2, Realised DEF Leaves
<1>8. more = Opened(q - n, p)
  <2> DEFINE rest == Opened(q - n, p)
  <2>1. rest \in Seq(Lot)
    BY <1>5, OpenedLots
  <2>2. more = << >> \o rest
    BY <1>4, <1>5 DEF more
  <2> HIDE DEF rest
  <2>3. << >> \o rest = rest
    BY <2>1, ConcatEmptySeq
  <2> QED
    BY <2>2, <2>3 DEF rest
<1>9. long'[s] \o short'[s] = closed.queue \o Opened(q - n, p)
  BY <1>1, <1>4, <1>8
<1>10. UnitShares(long'[s] \o short'[s]) = UnitShares(closed.queue) \o Singles(q - n, p)
  BY <1>5, <1>7, <1>9, UnitsOpened
<1>11. \A r \in Symbol \ {s} : long'[r] = long[r] /\ short'[r] = short[r]
  BY <1>1, <1>4
<1>12. n = Smaller(q, Len(Queued[s])) /\ closed = Realise(long[s], n, p, -sold) /\ sold \in {1, -1}
  BY <1>2, <1>3 DEF n, closed, sold
<1>13. Requeued(s, sold, q, p)
  BY <1>1, <1>2, <1>3, <1>4, <1>10, <1>11, <1>12, ClosingRequeues
<1> QED
  BY <1>13 DEF sold

LEMMA CoverShortRequeues ==
  ASSUME BooksInv, NEW s \in Symbol, NEW q \in Nat, NEW p \in Price, CoverShort(s, q, p)
  PROVE  Requeued(s, 1, q, p)
<1> DEFINE bought == 1
           n == Smaller(q, Size(position[s]))
           closed == Realise(short[s], n, p, -1)
           more == long[s] \o Opened(Flipped(s, q), p)
<1>1. /\ position[s] < 0 /\ realized' = realized + closed.profit
      /\ short' = [short EXCEPT ![s] = closed.queue] /\ long' = [long EXCEPT ![s] = more]
  BY DEF CoverShort
<1>2. /\ position[s] \in Int /\ Queued[s] = UnitShares(short[s]) /\ Facing[s] = Sign(position[s])
      /\ Len(Queued[s]) = Size(position[s]) /\ Size(position[s]) \in Nat
  BY <1>1, QueuedTyped
<1>3. Facing[s] = -bought /\ bought = 1
  BY <1>1, <1>2, SignOf
<1>4. /\ short[s] \in Seq(Lot) /\ long[s] = << >> /\ DOMAIN long = Symbol /\ DOMAIN short = Symbol
  BY <1>1, <1>2, Queues DEF BooksInv, BooksTyped
<1>5. n \in Nat /\ n <= Size(position[s]) /\ q - n \in Nat /\ Flipped(s, q) = q - n
      /\ (q - n > 0 => n = Size(position[s]))
  BY <1>2 DEF Smaller, Flipped
<1>6. SharesHeld(short[s]) = Size(position[s])
  BY <1>2, <1>4, UnitsCounted
<1> HIDE DEF n, closed, more, bought
<1>7. closed.queue \in Seq(Lot) /\ SharesHeld(closed.queue) = SharesHeld(short[s]) - n
  <2> DEFINE sign == -1
  <2>1. sign \in {1, -1} /\ p \in Int
    BY AccountingAssumption
  <2> HIDE DEF sign
  <2>2. closed = Realise(short[s], n, p, sign)
    BY DEF closed, sign
  <2>3. n <= SharesHeld(short[s])
    BY <1>5, <1>6
  <2>4. Leaves(short[s], n, p, sign, closed)
    BY <1>4, <1>5, <2>1, <2>2, <2>3, Realised
  <2> QED
    BY <2>4, Zenon DEF Leaves
<1>8. more = Opened(q - n, p)
  <2> DEFINE rest == Opened(q - n, p)
  <2>1. rest \in Seq(Lot)
    BY <1>5, OpenedLots
  <2>2. more = << >> \o rest
    BY <1>4, <1>5 DEF more
  <2> HIDE DEF rest
  <2>3. << >> \o rest = rest
    BY <2>1, ConcatEmptySeq
  <2> QED
    BY <2>2, <2>3 DEF rest
<1>9. long'[s] \o short'[s] = Opened(q - n, p) \o closed.queue
  BY <1>1, <1>4, <1>8
\* Only what the closed queue leaves over opens a lot: one of the two is empty.
<1>10. Opened(q - n, p) \o closed.queue = closed.queue \o Opened(q - n, p)
  <2> DEFINE rest == Opened(q - n, p)
             left == closed.queue
  <2>1. rest \in Seq(Lot) /\ left \in Seq(Lot)
    BY <1>5, <1>7, OpenedLots
  <2>2. rest = << >> \/ left = << >>
    <3>1. CASE q - n > 0
      <4>1. SharesHeld(left) = 0
        BY <1>2, <1>5, <1>6, <1>7, <3>1
      <4> QED
        BY <1>7, <4>1, SharesPositive
    <3>2. CASE ~(q - n > 0)
      BY <3>2 DEF Opened
    <3> QED
      BY <3>1, <3>2
  <2> HIDE DEF rest, left
  <2>3. rest \o left = left \o rest
    BY <2>1, <2>2, ConcatEmptySeq
  <2> QED
    BY <2>3 DEF rest, left
<1>11. UnitShares(long'[s] \o short'[s]) = UnitShares(closed.queue) \o Singles(q - n, p)
  BY <1>5, <1>7, <1>9, <1>10, UnitsOpened
<1>12. \A r \in Symbol \ {s} : long'[r] = long[r] /\ short'[r] = short[r]
  BY <1>1, <1>4
<1>13. n = Smaller(q, Len(Queued[s])) /\ closed = Realise(short[s], n, p, -bought)
       /\ bought \in {1, -1}
  BY <1>2, <1>3 DEF n, closed
<1>14. Requeued(s, bought, q, p)
  BY <1>1, <1>2, <1>3, <1>4, <1>11, <1>12, <1>13, ClosingRequeues
<1> QED
  BY <1>14 DEF bought

\* The direction a fill leaves the symbol in follows from what it leaves in the
\* queue.
LEMMA FillTurns ==
  ASSUME BooksInv, NEW s \in Symbol, NEW side \in {1, -1}, NEW q \in Nat \ {0}, NEW p \in Price,
         NEW k, k = Leaving(s, side, q), NEW staying, staying = After(Queued[s], k),
         NEW opened, opened = Singles(q - k, p)
  PROVE  Sign(position[s] + side * q) = IF opened # << >> THEN side
                                        ELSE IF staying = << >> THEN 0 ELSE Facing[s]
<1> DEFINE i == position[s]
           n == Len(Queued[s])
<1>1. i \in Int /\ n = Size(i) /\ n \in Nat /\ Facing[s] = Sign(i) /\ Queued[s] \in Seq(Price)
  BY QueuedTyped
<1>2. k = IF Sign(i) = -side THEN Smaller(q, n) ELSE 0
  BY <1>1 DEF Leaving
<1> HIDE DEF i, n
<1>3. k \in 0 .. n /\ q - k \in Nat
  BY <1>1, <1>2 DEF Smaller
<1>4. (opened = << >>) <=> (k = q)
  <2>1. opened \in Seq(Price) /\ Len(opened) = q - k
    BY <1>3, SinglesTyped
  <2>2. Len(opened) = 0 <=> opened = << >>
    BY <2>1, EmptySeq
  <2>3. q - k = 0 <=> k = q
    BY <1>3
  <2> QED
    BY <2>1, <2>2, <2>3
<1>5. (staying = << >>) <=> (k = n)
  <2>1. staying \in Seq(Price) /\ Len(staying) = n - k
    BY <1>1, <1>3, AfterTyped DEF n
  <2>2. Len(staying) = 0 <=> staying = << >>
    BY <2>1, EmptySeq
  <2>3. n - k = 0 <=> k = n
    BY <1>1, <1>3
  <2> QED
    BY <2>1, <2>2, <2>3
<1>6. /\ i = 0 => Sign(i) = 0
      /\ i > 0 => Sign(i) = 1
      /\ i < 0 => Sign(i) = -1
  BY <1>1, SignOf
<1> DEFINE j == i + side * q
<1>7. j \in Int
  BY <1>1
<1>8. /\ j = 0 => Sign(j) = 0
      /\ j > 0 => Sign(j) = 1
      /\ j < 0 => Sign(j) = -1
  <2> HIDE DEF j
  <2> QED
    BY <1>7, SignOf
<1>9. n = IF i < 0 THEN -i ELSE i
  BY <1>1 DEF Size
<1>10. Sign(j) = IF k # q THEN side ELSE IF k = n THEN 0 ELSE Sign(i)
  <2>1. CASE side = 1
    BY <1>1, <1>2, <1>6, <1>8, <1>9, <2>1 DEF Smaller
  <2>2. CASE side = -1
    BY <1>1, <1>2, <1>6, <1>8, <1>9, <2>2 DEF Smaller
  <2> QED
    BY <2>1, <2>2
<1> QED
  BY <1>1, <1>4, <1>5, <1>10 DEF i

\* A fill is a trade of the abstract account.
LEMMA FillTrades ==
  ASSUME BooksInv, NEW s \in Symbol, NEW side \in {1, -1}, NEW q \in Qty, NEW p \in Price,
         NEW fee \in Fee, Settle(s, side, q, p, fee), Requeued(s, side, q, p)
  PROVE  Fifo!Trade(s, side, q, p, fee)
<1> DEFINE k == Leaving(s, side, q)
           staying == After(Queued[s], k)
           opened == Singles(q - k, p)
           turned == IF opened # << >> THEN side ELSE IF staying = << >> THEN 0 ELSE Facing[s]
<1>1. q \in Nat \ {0} /\ p \in Int /\ fee \in Int
  BY AccountingAssumption
<1>2. /\ cash' = cash - side * (q * p + side * fee)
      /\ position' = [position EXCEPT ![s] = position[s] + side * q]
  BY DEF Settle, TotalCost
<1>3. cash \in Int /\ DOMAIN position = Symbol
  BY DEF BooksInv, BooksTyped
<1>4. cash' = cash - side * q * p - fee
  <2>1. side * (q * p + side * fee) = side * q * p + fee /\ side * q * p \in Int
    BY <1>1
  <2> DEFINE a == side * q * p
             b == side * (q * p + side * fee)
  <2>2. a \in Int /\ b = a + fee /\ cash' = cash - b
    BY <1>2, <2>1
  <2> HIDE DEF a, b
  <2>3. cash' = cash - a - fee
    BY <1>1, <1>3, <2>2
  <2> QED
    BY <2>3 DEF a
<1>5. /\ UnitShares(long'[s] \o short'[s]) = staying \o opened
      /\ realized' = Started(realized, Gains(Queued[s], k, p, Facing[s]))
      /\ \A r \in Symbol \ {s} : long'[r] = long[r] /\ short'[r] = short[r]
  BY Zenon DEF Requeued
<1>6. Sign(position[s] + side * q) = turned
  BY <1>1, FillTurns
<1> HIDE DEF k, staying, opened, turned
<1>7. Queued' = [Queued EXCEPT ![s] = staying \o opened]
  <2>1. Queued' = [r \in Symbol |-> UnitShares(long'[r] \o short'[r])]
    BY DEF Queued
  <2>2. ASSUME NEW r \in Symbol
        PROVE  UnitShares(long'[r] \o short'[r]) = IF r = s THEN staying \o opened ELSE Queued[r]
    <3>1. CASE r = s
      BY <1>5, <3>1
    <3>2. CASE r # s
      <4>1. long'[r] = long[r] /\ short'[r] = short[r]
        BY <1>5, <3>2
      <4> QED
        BY <3>2, <4>1 DEF Queued
    <3> QED
      BY <3>1, <3>2
  <2>3. Queued = [r \in Symbol |-> Queued[r]]
    BY DEF Queued
  <2> QED
    BY <2>1, <2>2, <2>3
<1>8. Facing' = [Facing EXCEPT ![s] = turned]
  <2>1. Facing' = [r \in Symbol |-> Sign(position'[r])]
    BY DEF Facing
  <2>2. ASSUME NEW r \in Symbol
        PROVE  Sign(position'[r]) = IF r = s THEN turned ELSE Facing[r]
    <3>1. CASE r = s
      <4>1. position'[r] = position[s] + side * q
        BY <1>2, <1>3, <3>1
      <4> QED
        BY <1>6, <3>1, <4>1
    <3>2. CASE r # s
      <4>1. position'[r] = position[r]
        BY <1>2, <1>3, <3>2
      <4> QED
        BY <3>2, <4>1 DEF Facing
    <3> QED
      BY <3>1, <3>2
  <2>3. Facing = [r \in Symbol |-> Facing[r]]
    BY DEF Facing
  <2> QED
    BY <2>1, <2>2, <2>3
<1> QED
  BY <1>4, <1>5, <1>7, <1>8, TradeOf, Zenon DEF k, staying, opened, turned

\* The other steps of the books leave the abstract account alone.
LEMMA StepsTrade ==
  ASSUME BooksInv, [Next]_vars
  PROVE  [Fifo!Next]_<<cash, realized, Facing, Queued>>
<1> DEFINE same == UNCHANGED <<cash, realized, Facing, Queued>>
<1>1. CASE UNCHANGED vars
  BY <1>1 DEF vars, Facing, Queued
<1>2. ASSUME NEW s \in Symbol, NEW price \in Price, MarkToMarket(s, price)
      PROVE  same
  BY <1>2 DEF MarkToMarket, bookkeeper, Facing, Queued
<1>3. ASSUME NEW s \in Symbol, NEW q \in Qty, NEW p \in Price, NEW fee \in Fee, NEW mid \in Price,
             Buy(s, q, p, fee, mid)
      PROVE  Fifo!Next
  <2> DEFINE bought == 1
  <2>1. q \in Nat /\ bought \in {1, -1}
    BY AccountingAssumption
  <2>2. Settle(s, bought, q, p, fee) /\ (OpenLong(s, q, p) \/ CoverShort(s, q, p))
    BY <1>3, Zenon DEF Buy
  <2>3. Requeued(s, bought, q, p)
    BY <2>1, <2>2, OpenLongRequeues, CoverShortRequeues
  <2> HIDE DEF bought
  <2>4. Fifo!Trade(s, bought, q, p, fee)
    BY <2>1, <2>2, <2>3, FillTrades
  <2> QED
    BY <2>1, <2>4, Zenon DEF Fifo!Next
<1>4. ASSUME NEW s \in Symbol, NEW q \in Qty, NEW p \in Price, NEW fee \in Fee, NEW mid \in Price,
             Sell(s, q, p, fee, mid)
      PROVE  Fifo!Next
  <2> DEFINE sold == -1
  <2>1. q \in Nat /\ sold \in {1, -1}
    BY AccountingAssumption
  <2>2. Settle(s, sold, q, p, fee) /\ (OpenShort(s, q, p) \/ CloseLong(s, q, p))
    BY <1>4, Zenon DEF Sell
  <2>3. Requeued(s, sold, q, p)
    BY <2>1, <2>2, OpenShortRequeues, CloseLongRequeues
  <2> HIDE DEF sold
  <2>4. Fifo!Trade(s, sold, q, p, fee)
    BY <2>1, <2>2, <2>3, FillTrades
  <2> QED
    BY <2>1, <2>4, Zenon DEF Fifo!Next
<1> QED
  BY <1>1, <1>2, <1>3, <1>4, Zenon DEF Next, Full

LEMMA TradesInitially ==
  Init => Fifo!Init
<1> SUFFICES ASSUME Init PROVE Fifo!Init
  OBVIOUS
<1>1. cash = InitialCash /\ realized = 0
  BY DEF Init
<1>2. \A s \in Symbol : Sign(position[s]) = 0 /\ UnitShares(long[s] \o short[s]) = << >>
  <2>1. \A s \in Symbol : position[s] = 0 /\ long[s] = << >> /\ short[s] = << >>
    BY DEF Init
  <2>2. Sign(0) = 0
    BY SignOf
  <2>3. << >> \o << >> = << >>
    <3>1. << >> \in Seq(Lot)
      OBVIOUS
    <3> QED
      BY <3>1, ConcatEmptySeq
  <2> QED
    BY <2>1, <2>2, <2>3, UnitsOfNone
<1> QED
  BY <1>1, <1>2 DEF Fifo!Init

-----------------------------------------------------------------------------
(* Theorems *)

\* Cash, positions, lots and entries keep their types, for any symbols, prices,
\* quantities and fees: no matching loop leaves an empty or a negative lot.
THEOREM TypeCorrect ==
  Spec => []TypeOK
<1>1. BooksInv => TypeOK
  <2> SUFFICES ASSUME BooksTyped PROVE TypeOK
    BY DEF BooksInv
  <2>1. \A s \in Symbol : long[s] \in Seq(Lot) /\ short[s] \in Seq(Lot)
                          /\ book[s] \in [avg : Fraction, qty : Int]
    BY DEF BooksTyped
  <2>2. ASSUME NEW T, NEW seq \in Seq(T) PROVE ToSet(seq) \subseteq T
    BY ElementOfSeq, LenProperties DEF ToSet
  <2>3. \A s \in Symbol : ToSet(long[s]) \subseteq Lot /\ ToSet(short[s]) \subseteq Lot
    BY <2>1, <2>2
  <2>4. ToSet(entries) \subseteq Entry
    BY <2>2 DEF BooksTyped
  <2> QED
    BY <2>1, <2>3, <2>4 DEF BooksTyped, TypeOK
<1> QED
  BY <1>1, BooksCorrect, PTL

\* The bookkeeper's lots, its position and the ledger's quantity stay three
\* records of the same shares, however large the fills and the lots they close.
THEOREM LotsAlwaysMatch ==
  Spec => []LotsMatchPosition
<1>1. BooksInv => LotsMatchPosition
  BY DEF BooksInv
<1> QED
  BY <1>1, BooksCorrect, PTL

\* Money is conserved: net asset value moves by realised profit, open profit and
\* fees alone, whatever the prices the account is valued at.
THEOREM NavAlwaysAccountedFor ==
  Spec => []NavIdentity
<1> QED
  BY NavFromCash, BooksCorrect, PTL

\* The ledger on average cost and the bookkeeper on lots report the same net
\* P&L of one symbol, through every partial close and flip.
THEOREM ReportAlwaysAgreesWithNav ==
  Spec => []ReportAgreesWithNav
<1> QED
  BY ReportFromLedger, ReportCorrect, PTL

\* The bookkeeper's running realised profit is the one worked out again from its
\* fills, the attribution's while nothing was ever held short, and the ledger's
\* once every position is flat, after any number of fills and flips.
THEOREM RealizedProfitsAlwaysAgree ==
  Spec => []RealizedProfitsAgree
<1> QED
  BY ProfitsFromBooks, ProfitCorrect, ReportCorrect, PTL

\* The two cost queues of the bookkeeper, with their partial lots, its four
\* accounting paths and its matching loops, implement the first-in first-out
\* account of single shares, whatever is bought, sold, flipped or marked.
THEOREM ImplementsFifoAccount == Spec => ImplementsFifo
<1>1. BooksInv /\ [Next]_vars => [Fifo!Next]_<<cash, realized, Facing, Queued>>
  BY StepsTrade
<1> QED
  BY <1>1, TradesInitially, BooksCorrect, PTL
     DEF Spec, ImplementsFifo, Fifo!Spec, Facing, Queued
=============================================================================
