---------------------------- MODULE VenueProofs -----------------------------
(***************************************************************************)
(* Proofs about the simulated exchange.  First, that a match is sound for  *)
(* every book, tape, order and engine: a walk over the levels is read as a *)
(* trace and bounded level by level.  Then, that the queue ahead of a child*)
(* is only taken by what was seen.  The invariant behind it, LogIsSound,   *)
(* says of each child that the last of its ticks on the event bus is where *)
(* the child's queue is, that each tick takes from the one before no more  *)
(* than its trades and its unexplained drop, and that every gated fill on  *)
(* the bus has an open tick of its child.  It is preserved child by child  *)
(* through simulate_fills, whose run over a list of children is first      *)
(* shown to exist.  Last, that each slicing policy plans the whole quantity*)
(* in increasing states.                                                   *)
(***************************************************************************)
EXTENDS Venue, DataTheorems

-----------------------------------------------------------------------------
(* The book *)

WalkResult == [qty : Int, cost : Int]
Walked(qty, f, l) == [qty |-> f.qty + Least(qty - f.qty, l.volume),
                      cost |-> f.cost + Least(qty - f.qty, l.volume) * l.price]

LEMMA WalkedTyped ==
  ASSUME NEW qty \in Int, NEW f \in WalkResult, NEW l \in Level
  PROVE  Walked(qty, f, l) \in WalkResult
<1> DEFINE here == Least(qty - f.qty, l.volume)
<1>1. f.qty \in Int /\ f.cost \in Int /\ l.price \in Int /\ l.volume \in Int
  BY DEF WalkResult, Level
<1>2. here \in Int
  BY <1>1 DEF Least
<1>3. Walked(qty, f, l) = [qty |-> f.qty + here, cost |-> f.cost + here * l.price]
  BY Zenon DEF Walked
<1> HIDE DEF here
<1>4. here * l.price \in Int
  BY <1>1, <1>2, ProductTyped
<1> QED
  BY <1>1, <1>2, <1>3, <1>4 DEF WalkResult

LEMMA NoFillTyped == NoFill \in WalkResult
BY DEF NoFill, WalkResult

LEMMA WalkBookTrace ==
  ASSUME NEW qty \in Int, NEW seq \in Seq(Level)
  PROVE  \E H \in [0 .. Len(seq) -> WalkResult] :
           /\ H[0] = NoFill
           /\ \A k \in 1 .. Len(seq) : H[k] = Walked(qty, H[k - 1], seq[k])
           /\ WalkBook(seq, qty) = H[Len(seq)]
<1> DEFINE n == Len(seq)
           none == NoFill
           G == [p \in (1 .. n) \X WalkResult |-> Walked(qty, p[2], seq[p[1]])]
           IsIter(g) == g = [t \in SUBSET (1 .. n) |->
             IF t = {} THEN none ELSE Walked(qty, g[t \ {Max(t)}], seq[Max(t)])]
           iter == CHOOSE g : IsIter(g)
<1>1. n \in Nat /\ DOMAIN seq = 1 .. n /\ \A i \in 1 .. n : seq[i] \in Level
  BY LenProperties, ElementOfSeq
<1>2. WalkBook(seq, qty) = iter[1 .. n]
  <2>1. WalkBook(seq, qty) = (CHOOSE g : g = [t \in SUBSET (DOMAIN seq) |->
          IF t = {} THEN none ELSE Walked(qty, g[t \ {Max(t)}], seq[Max(t)])])[DOMAIN seq]
    BY Zenon DEF WalkBook, Walked, FoldLeft, MapThenFoldSet
  <2> QED
    BY <1>1, <2>1, Zenon
<1>3. none \in WalkResult
  BY NoFillTyped
<1> HIDE DEF n, none
<1>4. ASSUME NEW i \in 1 .. n, NEW a \in WalkResult
      PROVE  G[<<i, a>>] = Walked(qty, a, seq[i])
  OBVIOUS
<1> HIDE DEF G
<1>5. Keeps(G, 1 .. n, WalkResult)
  <2>1. ASSUME NEW i \in 1 .. n, NEW a \in WalkResult
        PROVE  G[<<i, a>>] \in WalkResult
    <3>1. Walked(qty, a, seq[i]) \in WalkResult
      BY <1>1, WalkedTyped, Zenon
    <3> QED
      BY <1>4, <3>1, Zenon
  <2> QED
    BY <2>1, Zenon DEF Keeps
<1>6. \E g : IsIter(g)
  <2>1. PICK g \in [SUBSET (1 .. n) -> WalkResult] : IsLeftFold(G, none, n, g)
    BY <1>1, <1>3, <1>5, FoldLeftExists
  <2>2. ASSUME NEW t \in SUBSET (1 .. n)
        PROVE  g[t] = IF t = {} THEN none ELSE Walked(qty, g[t \ {Max(t)}], seq[Max(t)])
    <3>1. t # {} => Max(t) \in 1 .. n
      BY <1>1, LargestChosen
    <3>2. g[t \ {Max(t)}] \in WalkResult
      OBVIOUS
    <3> QED
      BY <1>4, <2>1, <3>1, <3>2 DEF IsLeftFold
  <2> QED
    BY <2>2
<1>7. IsIter(iter)
  BY <1>6
<1> HIDE DEF iter
<1>8. iter[{}] = none
  BY <1>7
<1>9. ASSUME NEW k \in 1 .. n, iter[1 .. k - 1] \in WalkResult
      PROVE  iter[1 .. k] = G[<<k, iter[1 .. k - 1]>>]
  <2>1. k \in Nat \ {0} /\ 1 .. k \in SUBSET (1 .. n)
    BY <1>1
  <2>2. iter[1 .. k] = Walked(qty, iter[(1 .. k) \ {Max(1 .. k)}], seq[Max(1 .. k)])
    BY <1>7, <2>1, LargestOfPrefix
  <2>3. Max(1 .. k) = k /\ (1 .. k) \ {k} = 1 .. k - 1
    BY <2>1, LargestOfPrefix
  <2>4. iter[1 .. k] = Walked(qty, iter[1 .. k - 1], seq[k])
    BY <2>2, <2>3, Zenon
  <2> QED
    BY <1>4, <1>9, <2>4, Zenon
<1>10. PICK H : IsTrace(G, WalkResult, none, n, H) /\ H[n] = iter[1 .. n]
  <2>1. StepsOn(G, WalkResult, n, iter)
    BY <1>9, Zenon DEF StepsOn
  <2> QED
    BY <1>1, <1>3, <1>5, <1>8, <2>1, FoldLeftTrace
<1>11. ASSUME NEW k \in 1 .. n
       PROVE  H[k] = Walked(qty, H[k - 1], seq[k])
  <2>1. k - 1 \in 0 .. n
    BY <1>1
  <2>2. H[k - 1] \in WalkResult /\ H[k] = G[<<k, H[k - 1]>>]
    BY <1>10, <2>1 DEF IsTrace
  <2> QED
    BY <1>4, <2>2
<1> QED
  BY <1>2, <1>10, <1>11 DEF IsTrace, n, none


LEMMA VolumeAdded == \A a \in Nat : \A l \in Level : a + l.volume \in Nat
BY DEF Level

LEMMA DepthTrace ==
  ASSUME NEW seq \in Seq(Level)
  PROVE  \E H \in [0 .. Len(seq) -> Nat] :
           /\ H[0] = 0
           /\ \A k \in 1 .. Len(seq) : H[k] = H[k - 1] + seq[k].volume
           /\ Depth(seq) = H[Len(seq)]
<1> DEFINE n == Len(seq)
           none == 0
           G == [p \in (1 .. n) \X Nat |-> p[2] + seq[p[1]].volume]
           IsIter(g) == g = [t \in SUBSET (1 .. n) |->
             IF t = {} THEN none ELSE g[t \ {Max(t)}] + seq[Max(t)].volume]
           iter == CHOOSE g : IsIter(g)
<1>1. n \in Nat /\ DOMAIN seq = 1 .. n /\ \A i \in 1 .. n : seq[i] \in Level
  BY LenProperties, ElementOfSeq
<1>2. Depth(seq) = iter[1 .. n]
  <2>1. Depth(seq) = (CHOOSE g : g = [t \in SUBSET (DOMAIN seq) |->
          IF t = {} THEN none ELSE g[t \ {Max(t)}] + seq[Max(t)].volume])[DOMAIN seq]
    BY Zenon DEF Depth, FoldLeft, MapThenFoldSet
  <2> QED
    BY <1>1, <2>1, Zenon
<1>3. none \in Nat
  OBVIOUS
<1> HIDE DEF n, none
<1>4. ASSUME NEW i \in 1 .. n, NEW a \in Nat
      PROVE  G[<<i, a>>] = a + seq[i].volume
  OBVIOUS
<1> HIDE DEF G
<1>5. Keeps(G, 1 .. n, Nat)
  <2>1. ASSUME NEW i \in 1 .. n, NEW a \in Nat
        PROVE  G[<<i, a>>] \in Nat
    <3>1. a + seq[i].volume \in Nat
      BY <1>1, VolumeAdded, Zenon
    <3> QED
      BY <1>4, <3>1, Zenon
  <2> QED
    BY <2>1, Zenon DEF Keeps
<1>6. \E g : IsIter(g)
  <2>1. PICK g \in [SUBSET (1 .. n) -> Nat] : IsLeftFold(G, none, n, g)
    BY <1>1, <1>3, <1>5, FoldLeftExists
  <2>2. ASSUME NEW t \in SUBSET (1 .. n)
        PROVE  g[t] = IF t = {} THEN none ELSE g[t \ {Max(t)}] + seq[Max(t)].volume
    <3>1. t # {} => Max(t) \in 1 .. n
      BY <1>1, LargestChosen
    <3>2. g[t \ {Max(t)}] \in Nat
      OBVIOUS
    <3> QED
      BY <1>4, <2>1, <3>1, <3>2 DEF IsLeftFold
  <2> QED
    BY <2>2
<1>7. IsIter(iter)
  BY <1>6
<1> HIDE DEF iter
<1>8. iter[{}] = none
  BY <1>7
<1>9. ASSUME NEW k \in 1 .. n, iter[1 .. k - 1] \in Nat
      PROVE  iter[1 .. k] = G[<<k, iter[1 .. k - 1]>>]
  <2>1. k \in Nat \ {0} /\ 1 .. k \in SUBSET (1 .. n)
    BY <1>1
  <2>2. iter[1 .. k] = iter[(1 .. k) \ {Max(1 .. k)}] + seq[Max(1 .. k)].volume
    BY <1>7, <2>1, LargestOfPrefix
  <2>3. Max(1 .. k) = k /\ (1 .. k) \ {k} = 1 .. k - 1
    BY <2>1, LargestOfPrefix
  <2>4. iter[1 .. k] = iter[1 .. k - 1] + seq[k].volume
    BY <2>2, <2>3, Zenon
  <2> QED
    BY <1>4, <1>9, <2>4, Zenon
<1>10. PICK H : IsTrace(G, Nat, none, n, H) /\ H[n] = iter[1 .. n]
  <2> DEFINE A == Nat
  <2>2. none \in A /\ Keeps(G, 1 .. n, A)
    BY <1>3, <1>5
  <2>1. StepsOn(G, Nat, n, iter)
    BY <1>9, Zenon DEF StepsOn
  <2>3. StepsOn(G, A, n, iter)
    BY <2>1
  <2> HIDE DEF A
  <2>4. \E H : IsTrace(G, A, none, n, H) /\ H[n] = iter[1 .. n]
    BY <1>1, <1>8, <2>2, <2>3, FoldLeftTrace
  <2> QED
    BY <2>4 DEF A
<1>11. ASSUME NEW k \in 1 .. n
       PROVE  H[k] = H[k - 1] + seq[k].volume
  <2>1. k - 1 \in 0 .. n
    BY <1>1
  <2>2. H[k - 1] \in Nat /\ H[k] = G[<<k, H[k - 1]>>]
    BY <1>10, <2>1 DEF IsTrace
  <2> QED
    BY <1>4, <2>2
<1> QED
  BY <1>2, <1>10, <1>11 DEF IsTrace, n, none

\* walk_book takes no more than it is asked for and no more than the levels hold.
LEMMA WalkBounded ==
  ASSUME NEW levels \in Seq(Level), NEW qty \in Nat
  PROVE  LET w == WalkBook(levels, qty) IN
         /\ w \in WalkResult /\ w.qty \in 0 .. qty
         /\ Depth(levels) \in Nat /\ w.qty <= Depth(levels)
<1> DEFINE n == Len(levels)
<1>1. n \in Nat /\ \A k \in 1 .. n : levels[k] \in Level
  BY LenProperties, ElementOfSeq
<1>2. PICK H \in [0 .. n -> WalkResult] :
        /\ H[0] = NoFill /\ WalkBook(levels, qty) = H[n]
        /\ \A k \in 1 .. n : H[k] = Walked(qty, H[k - 1], levels[k])
  <2>1. qty \in Int
    OBVIOUS
  <2>2. \E H \in [0 .. Len(levels) -> WalkResult] :
          /\ H[0] = NoFill
          /\ \A k \in 1 .. Len(levels) : H[k] = Walked(qty, H[k - 1], levels[k])
          /\ WalkBook(levels, qty) = H[Len(levels)]
    BY <2>1, WalkBookTrace, Zenon
  <2> QED
    BY <2>2
<1>3. PICK D \in [0 .. n -> Nat] :
        /\ D[0] = 0 /\ Depth(levels) = D[n]
        /\ \A k \in 1 .. n : D[k] = D[k - 1] + levels[k].volume
  BY DepthTrace
<1> DEFINE Good == {k \in 0 .. n : H[k].qty \in 0 .. qty /\ H[k].qty <= D[k]}
<1> HIDE DEF n
<1>4. 0 \in Good
  BY <1>1, <1>2, <1>3 DEF NoFill
<1>5. ASSUME NEW k \in 1 .. n, k - 1 \in Good
      PROVE  k \in Good
  <2>1. k - 1 \in 0 .. n /\ k \in 0 .. n
    BY <1>1
  <2> DEFINE q == H[k - 1].qty
             v == levels[k].volume
             d == D[k - 1]
  <2>2. q \in 0 .. qty /\ q <= d /\ d \in Nat /\ v \in Nat
    BY <1>1, <1>3, <1>5, <2>1 DEF Level
  <2>5. H[k] = Walked(qty, H[k - 1], levels[k]) /\ D[k] = d + v
    BY <1>2, <1>3
  <2>3. H[k].qty = q + Least(qty - q, v) /\ D[k] = d + v
    BY <2>5 DEF Walked
  <2> HIDE DEF q, v, d
  <2>4. H[k].qty \in 0 .. qty /\ H[k].qty <= D[k]
    BY <2>2, <2>3 DEF Least
  <2> QED
    BY <2>1, <2>4
<1> HIDE DEF Good
<1>6. \A k \in 0 .. n : k \in Good
  BY <1>1, <1>4, <1>5, UpTo
<1>7. n \in Good /\ n \in 0 .. n
  BY <1>1, <1>6
<1>8. H[n].qty \in 0 .. qty /\ H[n].qty <= D[n] /\ H[n] \in WalkResult /\ D[n] \in Nat
  BY <1>7 DEF Good
<1> QED
  BY <1>2, <1>3, <1>8

\* A walk over levels none of which is worse than a price pays no more for what
\* it takes than that price.
LEMMA WalkNoWorse ==
  ASSUME NEW levels \in Seq(Level), NEW qty \in Nat, NEW side, NEW price \in Int,
         \A k \in 1 .. Len(levels) : NoWorse(side, levels[k].price, price)
  PROVE  NoWorse(side, WalkBook(levels, qty).cost, price * WalkBook(levels, qty).qty)
<1> DEFINE n == Len(levels)
<1>1. n \in Nat /\ \A k \in 1 .. n : levels[k] \in Level
  BY LenProperties, ElementOfSeq
<1>2. PICK H \in [0 .. n -> WalkResult] :
        /\ H[0] = NoFill /\ WalkBook(levels, qty) = H[n]
        /\ \A k \in 1 .. n : H[k] = Walked(qty, H[k - 1], levels[k])
  <2>1. qty \in Int
    OBVIOUS
  <2>2. \E H \in [0 .. Len(levels) -> WalkResult] :
          /\ H[0] = NoFill
          /\ \A k \in 1 .. Len(levels) : H[k] = Walked(qty, H[k - 1], levels[k])
          /\ WalkBook(levels, qty) = H[Len(levels)]
    BY <2>1, WalkBookTrace, Zenon
  <2> QED
    BY <2>2
<1> DEFINE Good == {k \in 0 .. n : H[k].qty <= qty /\ NoWorse(side, H[k].cost, price * H[k].qty)}
<1>3. \A k \in 1 .. n : NoWorse(side, levels[k].price, price)
  OBVIOUS
<1> HIDE DEF n
<1>4. 0 \in Good
  <2>1. H[0].qty = 0 /\ H[0].cost = 0 /\ price * 0 = 0
    BY <1>2 DEF NoFill
  <2>2. NoWorse(side, H[0].cost, price * H[0].qty)
    BY <2>1 DEF NoWorse
  <2> QED
    BY <1>1, <2>1, <2>2
<1>5. ASSUME NEW k \in 1 .. n, k - 1 \in Good
      PROVE  k \in Good
  <2>1. k - 1 \in 0 .. n /\ k \in 0 .. n
    BY <1>1
  <2> DEFINE q == H[k - 1].qty
             c == H[k - 1].cost
             v == levels[k].volume
             p == levels[k].price
             h == Least(qty - q, v)
  <2>2. H[k - 1] \in WalkResult /\ levels[k] \in Level
    BY <1>1, <2>1
  <2>3. q \in Int /\ c \in Int /\ v \in Nat /\ p \in Int
    BY <2>2 DEF WalkResult, Level
  <2>4. q <= qty /\ NoWorse(side, c, price * q) /\ NoWorse(side, p, price)
    BY <1>3, <1>5
  <2>11. H[k] = Walked(qty, H[k - 1], levels[k])
    BY <1>2
  <2>5. H[k].qty = q + h /\ H[k].cost = c + h * p
    BY <2>11 DEF Walked
  <2> HIDE DEF q, c, v, p
  <2>6. h \in Nat /\ h <= qty - q
    BY <2>3, <2>4 DEF Least
  <2> HIDE DEF h
  <2>7. price * (q + h) = price * q + h * price /\ price * q \in Int /\ h * price \in Int /\ h * p \in Int
    BY <2>3, <2>6
  <2>8. (p <= price => h * p <= h * price) /\ (p >= price => h * p >= h * price)
    BY <2>3, <2>6
  <2>9. NoWorse(side, c + h * p, price * (q + h))
    BY <2>3, <2>4, <2>7, <2>8 DEF NoWorse
  <2>10. H[k].qty <= qty /\ NoWorse(side, H[k].cost, price * H[k].qty)
    BY <2>3, <2>5, <2>6, <2>9
  <2> QED
    BY <2>1, <2>10
<1> HIDE DEF Good
<1>6. \A k \in 0 .. n : k \in Good
  BY <1>1, <1>4, <1>5, UpTo
<1>7. n \in Good
  BY <1>1, <1>6
<1> QED
  BY <1>2, <1>7 DEF Good

\* Levels picked from a side of the book are levels of it.
LEMMA KeptLevels ==
  ASSUME NEW levels \in Seq(Level), NEW picked
  PROVE  \A k \in 1 .. Len(At(levels, picked)) :
           \E i \in 1 .. Len(levels) : i \in picked /\ At(levels, picked)[k] = levels[i]
BY AtMembers

\* eligible_levels: levels of the other side, at the price or better.
LEMMA EligibleSound ==
  ASSUME NEW side, NEW price, NEW book, OppositeOf(side, book) \in Seq(Level)
  PROVE  LET some == EligibleLevels(side, price, book) IN
         /\ some \in Seq(Level)
         /\ \A k \in 1 .. Len(some) : NoWorse(side, some[k].price, price)
<1> DEFINE levels == OppositeOf(side, book)
           picked == {i \in DOMAIN levels : NoWorse(side, levels[i].price, price)}
           some   == EligibleLevels(side, price, book)
<1>1. CASE price = NoPrice
  <2>1. some = << >>
    BY <1>1 DEF EligibleLevels
  <2> QED
    BY <2>1, EmptySeq
<1>2. CASE price # NoPrice
  <2>1. some = At(levels, picked)
    BY <1>2, Zenon DEF EligibleLevels
  <2>2. levels \in Seq(Level)
    OBVIOUS
  <2>3. \A i \in picked : NoWorse(side, levels[i].price, price)
    OBVIOUS
  <2> HIDE DEF levels, picked
  <2>4. At(levels, picked) \in Seq(Level)
    BY <2>2, AtTyped
  <2>5. \A k \in 1 .. Len(At(levels, picked)) :
          \E i \in 1 .. Len(levels) : i \in picked /\ At(levels, picked)[k] = levels[i]
    BY <2>2, KeptLevels
  <2> QED
    BY <2>1, <2>3, <2>4, <2>5
<1> QED
  BY <1>1, <1>2

\* The volume the tape traded beyond the price and at it.
LEMMA TapeTyped ==
  ASSUME NEW o, NEW tape, IsFiniteSet(DOMAIN tape), \A p \in DOMAIN tape : tape[p] \in Nat
  PROVE  TradedThrough(o, tape) \in Nat /\ TradedAt(o, tape) \in Nat
<1> DEFINE through == {p \in DOMAIN tape : /\ p # o.price /\ o.price # NoPrice
                                           /\ NoWorse(o.side, p, o.price)}
           none == [p \in through |-> 0]
<1>1. IsFiniteSet(through) /\ \A p \in through : tape[p] \in Nat
  BY FS_Subset
<1>2. TradedThrough(o, tape) = SumFunctionOnSet(tape, through)
  BY Zenon DEF TradedThrough, MapThenSumSet, MapThenFoldSet, SumFunctionOnSet, FoldFunctionOnSet
<1>3. SumFunctionOnSet(none, through) = 0
  BY <1>1, SumOfZeros
<1>4. \A p \in through : none[p] \in Int /\ tape[p] \in Int /\ none[p] <= tape[p]
  BY <1>1
<1> HIDE DEF none, through
<1>5. SumFunctionOnSet(none, through) <= SumFunctionOnSet(tape, through)
  BY <1>1, <1>4, SumMonotone
<1>6. SumFunctionOnSet(tape, through) \in Int
  BY <1>1, <1>4, SumInt
<1>7. TradedThrough(o, tape) \in Nat
  BY <1>2, <1>3, <1>5, <1>6
<1>8. TradedAt(o, tape) \in Nat
  BY DEF TradedAt
<1> QED
  BY <1>7, <1>8

IsSnapshot(book) == book.bids \in Seq(Level) /\ book.asks \in Seq(Level)
IsTape(tape)     == IsFiniteSet(DOMAIN tape) /\ \A p \in DOMAIN tape : tape[p] \in Nat
IsOrder(o)       == /\ o.price \in Nat /\ o.qty \in Nat
                    /\ o.type \in {"MARKET", "LIMIT"} /\ (o.type = "MARKET" <=> o.price = NoPrice)

\* What a fill of an order may be: the conjuncts of MatchesAreSound, but for those
\* that match itself sees to.
GoodFill(engine, o, book, tape, fill) ==
  /\ fill.qty \in Nat /\ fill.qty <= o.qty
  /\ fill.qty > 0 =>
       /\ engine.noPartial \/ fill.qty <= (IF Marketable(o, book)
                                           THEN IF o.type = "MARKET" THEN Depth(OppositeOf(o.side, book))
                                                ELSE Available(o.side, o.price, o.qty, book)
                                           ELSE TradedThrough(o, tape) + TradedAt(o, tape))
       /\ o.price # NoPrice => NoWorse(o.side, fill.cost, o.price * fill.qty)
       /\ ~Marketable(o, book) => fill.cost = o.price * fill.qty

LEMMA MarketFillGood ==
  ASSUME NEW engine, NEW o, NEW book, NEW tape, IsSnapshot(book), IsOrder(o), o.type = "MARKET"
  PROVE  GoodFill(engine, o, book, tape, MarketFill(engine, o.qty, OppositeOf(o.side, book)))
<1> DEFINE levels == OppositeOf(o.side, book)
           fill   == MarketFill(engine, o.qty, levels)
<1>1. levels \in Seq(Level) /\ o.price = NoPrice /\ o.qty \in Nat /\ Marketable(o, book)
  BY DEF IsSnapshot, IsOrder, OppositeOf, Marketable
<1>2. Depth(levels) \in Nat
  BY <1>1, WalkBounded
<1> SUFFICES /\ fill.qty \in Nat /\ fill.qty <= o.qty
             /\ engine.noPartial \/ fill.qty <= Depth(levels)
  BY <1>1 DEF GoodFill
<1> HIDE DEF levels
<1>3. CASE engine.noPartial
  <2>1. fill.qty = o.qty
    BY <1>3 DEF MarketFill
  <2> QED
    BY <1>1, <1>3, <2>1
<1>4. CASE ~engine.noPartial
  <2>1. fill = WalkBook(levels, o.qty)
    BY <1>4 DEF MarketFill
  <2>2. WalkBook(levels, o.qty).qty \in 0 .. o.qty /\ WalkBook(levels, o.qty).qty <= Depth(levels)
    BY <1>1, WalkBounded
  <2> QED
    BY <1>1, <2>1, <2>2
<1> QED
  BY <1>3, <1>4

LEMMA CrossingFillGood ==
  ASSUME NEW engine, NEW o, NEW book, NEW tape, IsSnapshot(book), IsOrder(o), o.type = "LIMIT",
         Marketable(o, book)
  PROVE  GoodFill(engine, o, book, tape, CrossingFill(engine, o, book))
<1> DEFINE levels == OppositeOf(o.side, book)
           some   == EligibleLevels(o.side, o.price, book)
           best   == IF o.side = "BUY" THEN BestAsk(book) ELSE BestBid(book)
           fill   == CrossingFill(engine, o, book)
<1>1. levels \in Seq(Level) /\ o.price # NoPrice /\ o.qty \in Nat /\ o.price \in Int
  BY DEF IsSnapshot, IsOrder, OppositeOf, NoPrice
<1>2. best # NoPrice /\ NoWorse(o.side, best, o.price)
  BY <1>1 DEF Marketable
<1>3. levels # << >> /\ best = Head(levels).price
  BY <1>2 DEF BestAsk, BestBid, OppositeOf
<1>4. best \in Nat
  <2>1. Head(levels) \in Level
    BY <1>1, <1>3, HeadTailProperties
  <2> QED
    BY <1>3, <2>1 DEF Level
<1>5. some \in Seq(Level) /\ \A k \in 1 .. Len(some) : NoWorse(o.side, some[k].price, o.price)
  BY <1>1, EligibleSound
<1>6. CASE engine.noPartial
  <2>1. fill = [qty |-> o.qty, cost |-> o.qty * Head(levels).price]
    BY <1>6, Zenon DEF CrossingFill, MarketFill
  <2>2. fill.qty = o.qty /\ fill.cost = o.qty * best
    BY <1>3, <2>1
  <2> HIDE DEF fill, best, levels, some
  <2>3. (best <= o.price => o.qty * best <= o.price * o.qty) /\ (best >= o.price => o.qty * best >= o.price * o.qty)
    BY <1>1, <1>4
  <2>4. NoWorse(o.side, fill.cost, o.price * fill.qty)
    BY <1>2, <2>2, <2>3 DEF NoWorse
  <2> QED
    BY <1>1, <1>6, <2>2, <2>4 DEF GoodFill, fill
<1>7. CASE ~engine.noPartial
  <2>1. fill = WalkBook(some, o.qty)
    BY <1>7, Zenon DEF CrossingFill
  <2> HIDE DEF fill, best, levels, some
  <2>2. fill.qty \in 0 .. o.qty /\ Depth(some) \in Nat /\ fill.qty <= Depth(some)
    BY <1>1, <1>5, <2>1, WalkBounded
  <2>3. NoWorse(o.side, fill.cost, o.price * fill.qty)
    BY <1>1, <1>5, <2>1, WalkNoWorse
  <2>4. fill.qty <= Available(o.side, o.price, o.qty, book)
    BY <1>1, <2>2 DEF Available, Least, some
  <2>5. o.type # "MARKET"
    OBVIOUS
  <2> QED
    BY <1>1, <2>2, <2>3, <2>4, <2>5 DEF GoodFill, fill
<1> QED
  BY <1>6, <1>7

LEMMA RestingFillGood ==
  ASSUME NEW engine, NEW o, NEW book, NEW tape, IsTape(tape), IsOrder(o), o.type = "LIMIT",
         ~Marketable(o, book)
  PROVE  GoodFill(engine, o, book, tape, RestingFill(engine, o, tape))
<1> DEFINE through == TradedThrough(o, tape)
           at      == TradedAt(o, tape)
           touched == Least(o.qty, at)
           fill    == RestingFill(engine, o, tape)
<1>1. through \in Nat /\ at \in Nat /\ o.qty \in Nat /\ o.price \in Nat
  BY TapeTyped DEF IsTape, IsOrder
<1>2. touched \in 0 .. o.qty /\ touched <= at
  BY <1>1 DEF Least
<1> DEFINE qty == IF engine.noPartial
                  THEN IF through > 0 \/ touched = o.qty THEN o.qty ELSE 0
                  ELSE IF through > 0 THEN Least(o.qty, through) ELSE touched
<1>3. fill = [qty |-> qty, cost |-> qty * o.price]
  BY Zenon DEF RestingFill
<1>4. fill.qty = qty /\ fill.cost = qty * o.price
  BY <1>3
<1> HIDE DEF through, at, touched, fill
<1>5. qty \in 0 .. o.qty /\ (engine.noPartial \/ qty <= through + at)
  BY <1>1, <1>2 DEF Least
<1> HIDE DEF qty
<1>6. qty * o.price = o.price * qty /\ o.price * qty \in Int
  BY <1>1, <1>5
<1>7. NoWorse(o.side, fill.cost, o.price * fill.qty)
  BY <1>4, <1>6 DEF NoWorse
<1> QED
  BY <1>1, <1>4, <1>5, <1>6, <1>7 DEF GoodFill, fill, through, at

\* match gives a good fill or none, and sees to FOK and GTX itself.
LEMMA MatchSound ==
  ASSUME NEW engine, NEW o, NEW book, NEW tape, IsSnapshot(book), IsTape(tape), IsOrder(o)
  PROVE  LET fill == Match(engine, o, book, tape) IN
         /\ fill.qty \in 0 .. o.qty
         /\ fill.qty > 0 =>
              /\ GoodFill(engine, o, book, tape, fill)
              /\ (o.tif = "FOK" \/ engine.wholeOnly => fill.qty = o.qty)
              /\ (o.tif = "GTX" => ~Marketable(o, book))
<1> DEFINE fill == IF o.type = "MARKET" THEN MarketFill(engine, o.qty, OppositeOf(o.side, book))
                   ELSE LimitFill(engine, o, book, tape)
           whole  == o.tif = "FOK" \/ engine.wholeOnly
           barred == \/ o.type \notin {"MARKET", "LIMIT", "LIMIT_IOC", "LIMIT_FOK"}
                     \/ o.tif = "GTX" /\ Marketable(o, book)
                     \/ whole /\ fill.qty < o.qty
<1>1. GoodFill(engine, o, book, tape, fill)
  <2>1. CASE o.type = "MARKET"
    <3>1. Marketable(o, book)
      BY <2>1 DEF IsOrder, Marketable
    <3>2. fill = MarketFill(engine, o.qty, OppositeOf(o.side, book))
      BY <2>1
    <3> QED
      BY <2>1, <3>2, MarketFillGood
  <2>2. CASE o.type # "MARKET" /\ Marketable(o, book)
    <3>1. fill = CrossingFill(engine, o, book) /\ o.type = "LIMIT"
      BY <2>2 DEF IsOrder, LimitFill
    <3> QED
      BY <2>2, <3>1, CrossingFillGood
  <2>3. CASE o.type # "MARKET" /\ ~Marketable(o, book)
    <3>1. fill = RestingFill(engine, o, tape) /\ o.type = "LIMIT"
      BY <2>3 DEF IsOrder, LimitFill
    <3> QED
      BY <2>3, <3>1, RestingFillGood
  <2> QED
    BY <2>1, <2>2, <2>3
<1>2. Match(engine, o, book, tape) = IF barred THEN NoFill ELSE fill
  BY Zenon DEF Match
<1>3. NoFill.qty = 0 /\ o.qty \in Nat
  BY DEF NoFill, IsOrder
<1> HIDE DEF fill
<1>4. fill.qty \in Nat /\ fill.qty <= o.qty
  BY <1>1 DEF GoodFill
<1>5. CASE barred
  BY <1>2, <1>3, <1>5
<1>6. CASE ~barred
  <2>1. Match(engine, o, book, tape) = fill
    BY <1>2, <1>6
  <2> QED
    BY <1>1, <1>3, <1>4, <1>6, <2>1
<1> QED
  BY <1>5, <1>6

-----------------------------------------------------------------------------
\* MatchingEngine.match on any book, tape, engine and order of the assumed
\* shapes: no fill is larger than the order, the book or the tape allows, none is
\* worse than the limit, FOK is all or nothing and GTX never takes.
LEMMA MatchesSound == MatchesAreSound
<1> SUFFICES ASSUME NEW o \in Orders, NEW book \in Quoted, NEW tape \in Tapes, NEW engine \in Engines,
                    Sensible(o), Match(engine, o, book, tape).qty > 0
             PROVE  LET fill  == Match(engine, o, book, tape)
                        taken == Available(o.side, o.price, o.qty, book)
                        inBook == IF o.type = "MARKET" THEN Depth(OppositeOf(o.side, book)) ELSE taken
                        onTape == TradedThrough(o, tape) + TradedAt(o, tape)
                    IN /\ fill.qty <= o.qty
                       /\ engine.noPartial \/ fill.qty <= (IF Marketable(o, book) THEN inBook ELSE onTape)
                       /\ o.price # NoPrice => NoWorse(o.side, fill.cost, o.price * fill.qty)
                       /\ ~Marketable(o, book) => fill.cost = o.price * fill.qty
                       /\ o.tif = "FOK" \/ engine.wholeOnly => fill.qty = o.qty
                       /\ o.tif = "GTX" => ~Marketable(o, book)
  BY DEF MatchesAreSound
<1>1. IsSnapshot(book) /\ IsTape(tape)
  <2>1. book \in Books
    BY DEF Quoted
  <2> QED
    BY <2>1, VenueAssumption DEF IsSnapshot, IsTape
<1>2. IsOrder(o)
  <2>1. o.price \in {NoPrice} \cup UNION {DOMAIN t : t \in Tapes} /\ o.qty \in 1 .. OrderQty + 1
        /\ o.type \in {"MARKET", "LIMIT"}
    BY DEF Orders
  <2>2. o.price \in Nat
    BY <2>1, VenueAssumption DEF NoPrice
  <2> QED
    BY <2>1, <2>2, VenueAssumption DEF IsOrder, Sensible
<1> DEFINE fill == Match(engine, o, book, tape)
<1>3. /\ fill.qty \in 0 .. o.qty
      /\ GoodFill(engine, o, book, tape, fill)
      /\ o.tif = "FOK" \/ engine.wholeOnly => fill.qty = o.qty
      /\ o.tif = "GTX" => ~Marketable(o, book)
  BY <1>1, <1>2, MatchSound
<1> HIDE DEF fill
<1>4. fill.qty > 0
  BY DEF fill
<1> QED
  BY <1>3, <1>4 DEF GoodFill, fill

\* Whatever order is on the way, MatchingEngine.match and the book's snapshot
\* price it within its limit, the depth and the tape, and keep its time in force.
THEOREM MatchingIsSound == Spec => []MatchesAreSound
BY MatchesSound, PTL

-----------------------------------------------------------------------------
(* The event bus *)

IsLog(log) == \E S : log \in Seq(S)
Extends(longer, log) == /\ Len(log) \in Nat /\ Len(longer) \in Nat /\ Len(log) <= Len(longer)
                        /\ DOMAIN log = 1 .. Len(log) /\ DOMAIN longer = 1 .. Len(longer)
                        /\ \A k \in 1 .. Len(log) : longer[k] = log[k]
TicksOf(log, id) == QueryChild(log, "tick", id)

LEMMA LogLength ==
  ASSUME NEW log, IsLog(log)
  PROVE  Len(log) \in Nat /\ DOMAIN log = 1 .. Len(log)
BY LenProperties DEF IsLog

LEMMA TicksAreALog ==
  ASSUME NEW log, IsLog(log), NEW id
  PROVE  IsLog(TicksOf(log, id))
BY AtTyped DEF IsLog, TicksOf, QueryChild

\* Events that are not ticks of the child change nothing of its ticks.
LEMMA OtherEvents ==
  ASSUME NEW log, NEW longer, IsLog(log), IsLog(longer), Extends(longer, log), NEW id,
         \A k \in 1 .. Len(longer) : longer[k].kind = "tick" /\ longer[k].id = id => k <= Len(log)
  PROVE  TicksOf(longer, id) = TicksOf(log, id)
<1> DEFINE here  == {k \in DOMAIN log : log[k].kind = "tick" /\ log[k].id = id}
           there == {k \in DOMAIN longer : longer[k].kind = "tick" /\ longer[k].id = id}
<1>1. PICK X : log \in Seq(X) /\ longer \in Seq(X)
  <2>1. PICK S : log \in Seq(S)
    BY DEF IsLog
  <2>2. PICK T : longer \in Seq(T)
    BY DEF IsLog
  <2>3. log \in Seq(S \cup T) /\ longer \in Seq(S \cup T)
    BY <2>1, <2>2, SeqMonotonic
  <2> QED
    BY <2>3
<1>2. /\ Len(log) <= Len(longer) /\ Len(log) \in Nat /\ Len(longer) \in Nat
      /\ DOMAIN log = 1 .. Len(log) /\ DOMAIN longer = 1 .. Len(longer)
      /\ \A k \in 1 .. Len(log) : longer[k] = log[k]
  BY DEF Extends
<1>3. \A k \in 1 .. Len(longer) : k \in there => k <= Len(log)
  OBVIOUS
<1>4. \A k \in 1 .. Len(log) : k \in there <=> k \in here
  BY <1>2
<1>5. TicksOf(longer, id) = At(longer, there) /\ TicksOf(log, id) = At(log, here)
  BY DEF TicksOf, QueryChild
<1> HIDE DEF here, there
<1>6. At(longer, there) = At(log, there)
  BY <1>1, <1>2, <1>3, AtExtended
<1>7. At(log, there) = At(log, here)
  BY <1>1, <1>4, AtAgree
<1> QED
  BY <1>5, <1>6, <1>7

LEMMA Emitted ==
  ASSUME NEW log, IsLog(log), NEW e
  PROVE  /\ IsLog(Emit(log, e)) /\ Extends(Emit(log, e), log)
         /\ Emit(log, e) = log \/ /\ Emit(log, e) = Append(log, e)
                                  /\ Len(Emit(log, e)) = Len(log) + 1
                                  /\ Emit(log, e)[Len(log) + 1] = e
         /\ e.kind = "tick" /\ Kept(e.id) => Emit(log, e) # log
<1>1. PICK S : log \in Seq(S)
  BY DEF IsLog
<1> DEFINE X == S \cup {e}
           n == Len(log)
<1>2. log \in Seq(X) /\ e \in X
  BY <1>1, SeqMonotonic
<1> HIDE DEF X
<1>3. /\ Append(log, e) \in Seq(X) /\ Len(Append(log, e)) = n + 1 /\ n \in Nat
      /\ Append(log, e)[n + 1] = e /\ \A i \in 1 .. n : Append(log, e)[i] = log[i]
      /\ DOMAIN log = 1 .. n /\ DOMAIN Append(log, e) = 1 .. n + 1
  BY <1>2, AppendProperties, LenProperties
<1>4. IsLog(Append(log, e)) /\ Extends(Append(log, e), log) /\ Extends(log, log) /\ Append(log, e) # log
  <2>1. IsLog(Append(log, e)) /\ Append(log, e) # log
    <3>1. IsLog(Append(log, e))
      BY <1>3, Zenon DEF IsLog
    <3>2. Len(Append(log, e)) # Len(log)
      <4>1. n \in Nat /\ Len(Append(log, e)) = n + 1
        BY <1>3
      <4>2. n + 1 # n
        <5> HIDE DEF n
        <5> QED
          BY <4>1
      <4> QED
        BY <4>1, <4>2
    <3> QED
      BY <3>1, <3>2, Zenon
  <2>2. Extends(log, log)
    BY <1>3 DEF Extends
  <2> DEFINE longer == Append(log, e)
  <2>3. /\ n \in Nat /\ Len(longer) = n + 1 /\ \A i \in 1 .. n : longer[i] = log[i]
        /\ DOMAIN log = 1 .. n /\ DOMAIN longer = 1 .. n + 1 /\ Len(log) = n
    BY <1>3
  <2> HIDE DEF longer, n
  <2>4. Extends(longer, log)
    BY <2>3 DEF Extends
  <2> QED
    BY <2>1, <2>2, <2>4 DEF longer
<1>5. CASE e.kind = "tick" /\ ~Kept(e.id)
  <2>1. Emit(log, e) = log
    BY <1>5 DEF Emit
  <2> QED
    BY <1>4, <1>5, <2>1
<1>6. CASE ~(e.kind = "tick" /\ ~Kept(e.id))
  <2>1. Emit(log, e) = Append(log, e)
    BY <1>6 DEF Emit
  <2> QED
    BY <1>3, <1>4, <2>1
<1> QED
  BY <1>5, <1>6

\* A tick that is not filtered is added to the ticks of its child only.
LEMMA TickEmitted ==
  ASSUME NEW log, IsLog(log), NEW e, NEW id
  PROVE  TicksOf(Emit(log, e), id) =
           IF e.kind = "tick" /\ e.id = id /\ Kept(id) THEN Append(TicksOf(log, id), e) ELSE TicksOf(log, id)
<1> DEFINE longer == Emit(log, e)
           n == Len(log)
<1>1. n \in Nat /\ DOMAIN log = 1 .. n
  BY LogLength
<1>2. IsLog(longer) /\ Extends(longer, log)
  BY Emitted
<1>3. CASE ~(e.kind = "tick" /\ e.id = id /\ Kept(id))
  <2>1. longer = log \/ (longer = Append(log, e) /\ Len(longer) = n + 1 /\ longer[n + 1] = e)
    BY Emitted
  <2>2. CASE longer = log
    BY <1>3, <2>2
  <2>3. CASE longer # log
    <3>1. longer = Append(log, e) /\ Len(longer) = n + 1 /\ longer[n + 1] = e
      BY <2>1, <2>3
    <3>2. ~(e.kind = "tick" /\ e.id = id)
      <4>1. e.kind = "tick" /\ e.id = id => Kept(id)
        BY <2>3 DEF Emit
      <4> QED
        BY <1>3, <4>1
    <3> HIDE DEF longer, n
    <3>3. \A k \in 1 .. Len(longer) : longer[k].kind = "tick" /\ longer[k].id = id => k <= Len(log)
      BY <1>1, <3>1, <3>2 DEF n
    <3>4. TicksOf(longer, id) = TicksOf(log, id)
      BY <1>2, <3>3, OtherEvents
    <3> QED
      BY <1>3, <3>4 DEF longer
  <2> QED
    BY <2>2, <2>3
<1>4. CASE e.kind = "tick" /\ e.id = id /\ Kept(id)
  <2>1. longer = Append(log, e)
    BY <1>4 DEF Emit
  <2>2. PICK S : log \in Seq(S)
    BY DEF IsLog
  <2> DEFINE X == S \cup {e}
             here  == {k \in DOMAIN log : log[k].kind = "tick" /\ log[k].id = id}
             there == {k \in DOMAIN longer : longer[k].kind = "tick" /\ longer[k].id = id}
  <2>3. log \in Seq(X) /\ e \in X
    BY <2>2, SeqMonotonic
  <2> HIDE DEF X, n
  <2>4. /\ Len(longer) = n + 1 /\ longer[n + 1] = e /\ \A i \in 1 .. n : longer[i] = log[i]
        /\ DOMAIN longer = 1 .. n + 1
    BY <2>1, <2>3, AppendProperties, LenProperties DEF n
  <2>5. n + 1 \in there /\ \A k \in 1 .. n : k \in there <=> k \in here
    BY <1>1, <1>4, <2>4
  <2>6. TicksOf(longer, id) = At(longer, there) /\ TicksOf(log, id) = At(log, here)
    BY DEF TicksOf, QueryChild
  <2> HIDE DEF here, there, longer
  <2>7. At(longer, there) = Append(At(log, there), e)
    BY <2>1, <2>3, <2>5, AtAppended DEF n
  <2>8. At(log, there) = At(log, here)
    BY <2>3, <2>5, AtAgree DEF n
  <2> QED
    BY <1>4, <2>6, <2>7, <2>8 DEF longer
<1> QED
  BY <1>3, <1>4

-----------------------------------------------------------------------------
(* The arithmetic of the gate *)

LEMMA VolumeTyped ==
  ASSUME NEW price \in Int, NEW levels \in Seq(Level)
  PROVE  VolumeNear(price, levels) \in Nat
<1> DEFINE gap(i) == Abs(levels[i].price - price)
           gaps == {gap(i) : i \in DOMAIN levels}
           near(i, j) == gap(i) <= gap(j)
           nearest == {i \in DOMAIN levels : \A j \in DOMAIN levels : near(i, j)}
           first == CHOOSE i \in nearest : \A j \in nearest : i <= j
<1>2. Len(levels) \in Nat /\ DOMAIN levels = 1 .. Len(levels) /\ \A i \in DOMAIN levels : levels[i] \in Level
  BY LenProperties, ElementOfSeq
<1>3. VolumeNear(price, levels) = IF levels = << >> THEN 0 ELSE levels[first].volume
  BY Zenon DEF VolumeNear
<1>4. ASSUME levels # << >>
      PROVE  first \in DOMAIN levels
  <2>1. \A i \in DOMAIN levels : gap(i) \in Nat
    BY <1>2 DEF Level, Abs
  <2>2. 1 \in DOMAIN levels
    <3>1. Len(levels) # 0
      BY <1>4, EmptySeq
    <3> QED
      BY <1>2, <3>1
  <2> HIDE DEF gap
  <2>3. gaps \subseteq Nat /\ gaps # {}
    BY <2>1, <2>2
  <2>4. PICK least \in gaps : \A g \in gaps : least <= g
    BY <2>3, LeastNatural
  <2>5. PICK i \in DOMAIN levels : gap(i) = least
    BY <2>4
  <2>6. i \in nearest
    BY <2>4, <2>5
  <2>7. nearest \subseteq Nat /\ nearest # {} /\ nearest \subseteq DOMAIN levels
    BY <1>2, <2>6
  <2> HIDE DEF nearest
  <2>8. \E k \in nearest : \A j \in nearest : k <= j
    BY <2>7, LeastNatural
  <2> QED
    BY <2>7, <2>8
<1> HIDE DEF first
<1>5. CASE levels = << >>
  BY <1>3, <1>5
<1>6. CASE levels # << >>
  <2>1. levels[first] \in Level
    BY <1>2, <1>4, <1>6
  <2> QED
    BY <1>3, <1>6, <2>1 DEF Level
<1> QED
  BY <1>5, <1>6

LEMMA LevelTyped ==
  ASSUME NEW c, c.price \in Int, NEW book, IsSnapshot(book)
  PROVE  LevelQty(c, book) \in Nat
<1>1. OwnOf(c.side, book) \in Seq(Level)
  BY DEF IsSnapshot, OwnOf
<1> QED
  BY <1>1, VolumeTyped DEF LevelQty

LEMMA TradeTyped ==
  ASSUME NEW c, NEW tape, IsTape(tape)
  PROVE  SameLevelTrade(c, tape) \in Nat
BY TapeTyped DEF SameLevelTrade, IsTape

LEMMA InUnits == \A i \in Nat : Units * i \in Nat
BY QueueAssumption

\* No model takes more than the unexplained drop.
LEMMA DepthBounded ==
  ASSUME NEW model, NEW u \in Nat, NEW draw \in 0 .. Units - 1
  PROVE  DepthAdvance(model, u, draw) \in 0 .. u
<1> DEFINE w == u \div Units
<1>1. Units \in Nat \ {0} /\ Assumption \in 0 .. Units
  BY QueueAssumption
<1>2. w \in Nat /\ w * Units <= u /\ w * Units \in Nat
  <2>1. u = Units * (u \div Units) + (u % Units) /\ u % Units \in 0 .. Units - 1 /\ u \div Units \in Int
    BY <1>1
  <2>2. w \in Int /\ Units * w \in Int /\ Units * w <= u
    BY <1>1, <2>1
  <2> HIDE DEF w
  <2>3. w * Units = Units * w
    BY <1>1, <2>2
  <2>4. w >= 0
    BY <1>1, <2>1 DEF w
  <2> QED
    BY <2>2, <2>3, <2>4, <1>1
<1> HIDE DEF w
<1>3. ASSUME NEW f \in 0 .. Units
      PROVE  w * f \in 0 .. u
  <2>1. w * f \in Nat /\ w * f <= w * Units
    BY <1>1, <1>2
  <2> QED
    BY <1>2, <2>1
<1>4. Units - Assumption \in 0 .. Units /\ draw \in 0 .. Units
  BY <1>1
<1>5. CASE model = "prob_queue"
  <2>1. DepthAdvance(model, u, draw) = w * (Units - Assumption)
    BY <1>5 DEF DepthAdvance, w
  <2> QED
    BY <1>3, <1>4, <2>1
<1>6. CASE model = "random"
  <2>1. DepthAdvance(model, u, draw) = w * draw
    BY <1>6 DEF DepthAdvance, w
  <2> QED
    BY <1>3, <1>4, <2>1
<1>7. CASE model \notin {"prob_queue", "random"}
  <2>1. DepthAdvance(model, u, draw) = 0
    BY <1>7 DEF DepthAdvance
  <2> QED
    BY <2>1
<1> QED
  BY <1>5, <1>6, <1>7

\* What is left ahead after the trades and a part of the unexplained drop.
LEMMA AheadBounded ==
  ASSUME NEW before \in Nat, NEW level \in Nat, NEW next \in Nat, NEW trade \in Nat,
         NEW depth \in 0 .. Greatest(0, Greatest(0, level - next) - trade)
  PROVE  LET after == Greatest(0, Greatest(0, before - trade) - depth)
         IN after \in Nat /\ after >= before - trade - Greatest(0, level - next - trade)
BY DEF Greatest

-----------------------------------------------------------------------------
(* A child and its ticks *)

GateFields == {"ahead", "level", "level0", "queued", "price", "side"}
GateTyped(c) ==
  /\ GateFields \subseteq DOMAIN c
  /\ c.ahead \in Nat /\ c.level \in Nat /\ c.level0 \in Nat /\ c.price \in Int
SameGate(d, c) ==
  /\ GateFields \subseteq DOMAIN d
  /\ d.ahead = c.ahead /\ d.level = c.level /\ d.level0 = c.level0 /\ (d.queued <=> c.queued)
  /\ d.price = c.price /\ d.side = c.side

AheadBefore(ticks, level0, k) == IF k = 1 THEN level0 ELSE ticks[k - 1].after
LevelBefore(ticks, level0, k) == IF k = 1 THEN level0 ELSE ticks[k - 1].level

\* A tick takes no more than the trades and the drop they do not explain, and its
\* amounts add up.
TickExact(tick) ==
  tick.after = IF tick.before - tick.byTrade - tick.byDepth < 0 THEN 0
               ELSE tick.before - tick.byTrade - tick.byDepth
TickSound(before, level, tick) ==
  /\ tick.after \in Nat /\ tick.level \in Nat /\ tick.trade \in Nat
  /\ tick.after <= before /\ TickExact(tick)
  /\ tick.after >= before - tick.trade - Greatest(0, level - tick.level - tick.trade)
  /\ tick.passed => tick.after = 0
TicksSound(ticks, level0) ==
  \A k \in 1 .. Len(ticks) :
    TickSound(AheadBefore(ticks, level0, k), LevelBefore(ticks, level0, k), ticks[k])

\* The ticks of a child are sound and end where the child is; a child in the
\* queue has one, unless its ticks are filtered.
Told(ticks, id, c) ==
  /\ GateTyped(c) /\ Len(ticks) \in Nat
  /\ Len(ticks) > 0 <=> (c.queued /\ Kept(id))
  /\ Len(ticks) > 0 => ticks[Len(ticks)].after = c.ahead /\ ticks[Len(ticks)].level = c.level
  /\ TicksSound(ticks, c.level0)

LEMMA ToldAlike ==
  ASSUME NEW ticks, NEW id, NEW c, NEW d, Told(ticks, id, c), SameGate(d, c)
  PROVE  Told(ticks, id, d)
<1>1. GateTyped(d)
  BY DEF Told, GateTyped, SameGate
<1>2. d.ahead = c.ahead /\ d.level = c.level /\ d.level0 = c.level0 /\ (d.queued <=> c.queued)
  BY DEF SameGate
<1> QED
  BY <1>1, <1>2, Zenon DEF Told

LEMMA TicksSoundAppended ==
  ASSUME NEW ticks, IsLog(ticks), NEW level0, TicksSound(ticks, level0), NEW tick,
         TickSound(IF Len(ticks) = 0 THEN level0 ELSE ticks[Len(ticks)].after,
                   IF Len(ticks) = 0 THEN level0 ELSE ticks[Len(ticks)].level, tick)
  PROVE  /\ TicksSound(Append(ticks, tick), level0)
         /\ Len(Append(ticks, tick)) = Len(ticks) + 1 /\ Append(ticks, tick)[Len(ticks) + 1] = tick
<1>1. PICK S : ticks \in Seq(S)
  BY DEF IsLog
<1> DEFINE X == S \cup {tick}
           n == Len(ticks)
           more == Append(ticks, tick)
<1>2. ticks \in Seq(X) /\ tick \in X
  BY <1>1, SeqMonotonic
<1> HIDE DEF X
<1>3. n \in Nat /\ Len(more) = n + 1 /\ more[n + 1] = tick /\ \A i \in 1 .. n : more[i] = ticks[i]
  BY <1>2, AppendProperties, LenProperties
<1>4. ASSUME NEW k \in 1 .. n
      PROVE  TickSound(AheadBefore(more, level0, k), LevelBefore(more, level0, k), more[k])
  <2>1. TickSound(AheadBefore(ticks, level0, k), LevelBefore(ticks, level0, k), ticks[k])
    BY DEF TicksSound
  <2>2. k # 1 => k - 1 \in 1 .. n
    BY <1>3
  <2> HIDE DEF more, n
  <2>3. AheadBefore(more, level0, k) = AheadBefore(ticks, level0, k)
        /\ LevelBefore(more, level0, k) = LevelBefore(ticks, level0, k) /\ more[k] = ticks[k]
    BY <1>3, <2>2 DEF AheadBefore, LevelBefore
  <2> QED
    BY <2>1, <2>3
<1>5. TickSound(AheadBefore(more, level0, n + 1), LevelBefore(more, level0, n + 1), more[n + 1])
  <2> DEFINE before == IF n = 0 THEN level0 ELSE ticks[n].after
             level == IF n = 0 THEN level0 ELSE ticks[n].level
  <2>1. TickSound(before, level, tick)
    OBVIOUS
  <2> HIDE DEF more, n
  <2>2. (n + 1 = 1 <=> n = 0) /\ (n + 1) - 1 = n /\ (n # 0 => n \in 1 .. n)
    BY <1>3
  <2>3. AheadBefore(more, level0, n + 1) = before /\ LevelBefore(more, level0, n + 1) = level
    BY <1>3, <2>2 DEF AheadBefore, LevelBefore
  <2> QED
    BY <1>3, <2>1, <2>3
<1> HIDE DEF more, n
<1>6. \A k \in 1 .. n + 1 : k \in 1 .. n \/ k = n + 1
  BY <1>3
<1>7. TicksSound(more, level0)
  BY <1>3, <1>4, <1>5, <1>6 DEF TicksSound
<1> QED
  BY <1>3, <1>7 DEF more, n

\* A passive candidate joins behind its level and then moves up.
JoinedWell(ticks, id, c, joined) ==
  /\ GateTyped(joined) /\ joined.queued
  /\ joined.price = c.price /\ joined.side = c.side
  /\ TicksSound(ticks, joined.level0)
  /\ Kept(id) => /\ joined.ahead = (IF Len(ticks) = 0 THEN joined.level0 ELSE ticks[Len(ticks)].after)
                 /\ joined.level = (IF Len(ticks) = 0 THEN joined.level0 ELSE ticks[Len(ticks)].level)

LEMMA Joined ==
  ASSUME NEW ticks, NEW id, NEW c, Told(ticks, id, c), NEW book, IsSnapshot(book), NEW now
  PROVE  JoinedWell(ticks, id, c, JoinQueue(c, book, now))
<1> DEFINE joined == JoinQueue(c, book, now)
           level  == Units * LevelQty(c, book)
<1>1. GateTyped(c) /\ Len(ticks) \in Nat
  BY DEF Told
<1>2. level \in Nat
  BY <1>1, LevelTyped, InUnits DEF GateTyped
<1>3. CASE c.queued
  <2>1. joined = c
    BY <1>3 DEF JoinQueue
  <2>2. Kept(id) => Len(ticks) > 0
    BY <1>3 DEF Told
  <2>3. Kept(id) => Len(ticks) # 0 /\ ticks[Len(ticks)].after = c.ahead /\ ticks[Len(ticks)].level = c.level
    BY <1>1, <2>2 DEF Told
  <2>4. TicksSound(ticks, c.level0)
    BY DEF Told
  <2>5. JoinedWell(ticks, id, c, c)
    BY <1>1, <1>3, <2>3, <2>4 DEF JoinedWell
  <2> QED
    BY <2>1, <2>5
<1>4. CASE ~c.queued
  <2> HIDE DEF level
  <2>1. joined = [c EXCEPT !.queued = TRUE, !.ahead = level, !.level0 = level, !.level = level, !.entered = now]
    BY <1>4, Zenon DEF JoinQueue, level
  <2> HIDE DEF joined
  <2>2. /\ joined.queued = TRUE /\ joined.ahead = level /\ joined.level0 = level /\ joined.level = level
        /\ joined.price = c.price /\ joined.side = c.side /\ DOMAIN joined = DOMAIN c
    BY <1>1, <2>1 DEF GateTyped, GateFields
  <2>3. GateTyped(joined)
    BY <1>1, <1>2, <2>2 DEF GateTyped
  <2>4. Len(ticks) = 0
    BY <1>1, <1>4 DEF Told
  <2>5. TicksSound(ticks, joined.level0)
    BY <2>4 DEF TicksSound
  <2>6. JoinedWell(ticks, id, c, joined)
    BY <2>2, <2>3, <2>4, <2>5 DEF JoinedWell
  <2> QED
    BY <2>6 DEF joined
<1> QED
  BY <1>3, <1>4

\* A child with its gate closed or open in a state: it joins, moves up, and its
\* tick says how.
Gated(c, d, joined, moved, m, depth) ==
  /\ joined = JoinQueue(c, m.book, m.now)
  /\ moved = Advanced(joined, m.book, m.tape, depth)
  /\ SameGate(d, moved)

LEMMA TickTold ==
  ASSUME NEW ticks, IsLog(ticks), NEW id, NEW c, NEW d, Told(ticks, id, c),
         NEW m, IsSnapshot(m.book), IsTape(m.tape), NEW draw \in 0 .. Units - 1, NEW joined, NEW moved,
         Gated(c, d, joined, moved, m,
               DepthAdvance(config.model, Unexplained(joined, m.book, m.tape), draw)),
         NEW passed, passed => Ready(moved, m.book), NEW longer,
         longer = IF Kept(id) THEN Append(ticks, QueueTickEvent(id, m, joined.ahead, c, moved.ahead, passed))
                  ELSE ticks
  PROVE  Told(longer, id, d)
<1> DEFINE tick  == QueueTickEvent(id, m, joined.ahead, c, moved.ahead, passed)
           trade == Units * SameLevelTrade(c, m.tape)
           next  == Units * LevelQty(c, m.book)
           u     == Unexplained(joined, m.book, m.tape)
           depth == DepthAdvance(config.model, u, draw)
           n     == Len(ticks)
<1>1. GateTyped(c) /\ n \in Nat /\ (n > 0 <=> c.queued /\ Kept(id))
  BY DEF Told
<1>2. JoinedWell(ticks, id, c, joined)
  BY Joined DEF Gated
<1>3. trade \in Nat /\ next \in Nat
  BY <1>1, TradeTyped, LevelTyped, InUnits DEF GateTyped
<1>4. joined.ahead \in Nat /\ joined.level \in Nat /\ joined.level0 \in Nat /\ GateFields \subseteq DOMAIN joined
  BY <1>2 DEF JoinedWell, GateTyped
<1>5. SameLevelTrade(joined, m.tape) = SameLevelTrade(c, m.tape) /\ LevelQty(joined, m.book) = LevelQty(c, m.book)
  <2>1. joined.price = c.price /\ joined.side = c.side
    BY <1>2 DEF JoinedWell
  <2> QED
    BY <2>1, Zenon DEF SameLevelTrade, TradedAt, LevelQty
<1>6. u = Greatest(0, Greatest(0, joined.level - next) - trade)
  BY <1>5, Zenon DEF Unexplained
<1>7. moved = [joined EXCEPT !.ahead = Greatest(0, Greatest(0, @ - trade) - depth), !.level = next]
  <2>1. moved = Advanced(joined, m.book, m.tape, depth)
    BY DEF Gated
  <2> QED
    BY <1>5, <2>1, Zenon DEF Advanced
<1> HIDE DEF trade, next, u, n
<1>8. u \in Nat
  BY <1>3, <1>4, <1>6 DEF Greatest
<1>9. depth \in 0 .. Greatest(0, Greatest(0, joined.level - next) - trade)
  BY <1>6, <1>8, DepthBounded
<1> HIDE DEF depth
<1>10. /\ moved.ahead = Greatest(0, Greatest(0, joined.ahead - trade) - depth)
       /\ moved.level = next /\ moved.level0 = joined.level0 /\ moved.queued = joined.queued
       /\ moved.price = joined.price
       /\ DOMAIN moved = DOMAIN joined
  BY <1>4, <1>7 DEF GateFields
<1>11. /\ moved.ahead \in Nat
       /\ moved.ahead >= joined.ahead - trade - Greatest(0, joined.level - next - trade)
  <2> DEFINE after == Greatest(0, Greatest(0, joined.ahead - trade) - depth)
  <2>1. after \in Nat /\ after >= joined.ahead - trade - Greatest(0, joined.level - next - trade)
    BY <1>3, <1>4, <1>9, AheadBounded, Zenon
  <2> QED
    BY <1>10, <2>1
<1>12. GateTyped(moved) /\ moved.queued
  BY <1>2, <1>3, <1>10, <1>11 DEF JoinedWell, GateTyped
<1>13. /\ tick.after = moved.ahead /\ tick.level = next /\ tick.trade = trade /\ (tick.passed <=> passed)
       /\ tick.before = joined.ahead /\ tick.byTrade = Least(joined.ahead, trade)
       /\ tick.byDepth = Greatest(0, Greatest(0, joined.ahead - trade) - moved.ahead)
  BY DEF QueueTickEvent, trade, next
<1>14. passed => moved.ahead = 0
  BY <1>11 DEF Ready
<1>15. TickSound(joined.ahead, joined.level, tick)
  <2>1. tick.passed => tick.after = 0
    BY <1>13, <1>14, Zenon
  <2> HIDE DEF tick
  <2>2. moved.ahead <= Greatest(0, joined.ahead - trade)
    <3>1. depth \in Nat
      BY <1>3, <1>4, <1>9 DEF Greatest
    <3> QED
      BY <1>3, <1>4, <1>10, <3>1 DEF Greatest
  <2>3. tick.after <= joined.ahead /\ TickExact(tick)
    BY <1>3, <1>4, <1>11, <1>13, <2>2 DEF TickExact, Least, Greatest
  <2> QED
    BY <1>3, <1>11, <1>13, <2>1, <2>3 DEF TickSound
<1> HIDE DEF tick
<1>16. GateTyped(d) /\ d.queued /\ d.ahead = moved.ahead /\ d.level = next /\ d.level0 = joined.level0
  <2>1. SameGate(d, moved)
    BY DEF Gated
  <2> QED
    BY <1>10, <1>12, <2>1 DEF SameGate, GateTyped
<1>17. TicksSound(ticks, joined.level0)
  BY <1>2 DEF JoinedWell
<1>18. CASE Kept(id)
  <2>1. /\ joined.ahead = (IF n = 0 THEN joined.level0 ELSE ticks[n].after)
        /\ joined.level = (IF n = 0 THEN joined.level0 ELSE ticks[n].level)
    BY <1>2, <1>18 DEF JoinedWell, n
  <2>2. TickSound(IF n = 0 THEN joined.level0 ELSE ticks[n].after,
                  IF n = 0 THEN joined.level0 ELSE ticks[n].level, tick)
    BY <1>15, <2>1
  <2>3. longer = Append(ticks, tick)
    BY <1>18 DEF tick
  <2>4. TicksSound(longer, joined.level0) /\ Len(longer) = n + 1 /\ longer[n + 1] = tick
    BY <1>17, <2>2, <2>3, TicksSoundAppended DEF n
  <2>5. Len(longer) \in Nat /\ Len(longer) > 0 /\ longer[Len(longer)] = tick
    BY <1>1, <2>4
  <2> QED
    BY <1>13, <1>16, <1>18, <2>4, <2>5 DEF Told
<1>19. CASE ~Kept(id)
  <2>1. longer = ticks /\ n = 0
    BY <1>1, <1>19
  <2> QED
    BY <1>16, <1>17, <1>19, <2>1 DEF Told, n
<1> QED
  BY <1>18, <1>19

-----------------------------------------------------------------------------
(* One step of simulate_fills *)

\* A gated fill on the log has an open tick of its child at its time.
FillExplained(log, e) ==
  e.kind = "fill" /\ e.gated /\ GateEnabled(config.model) /\ Kept(e.id) =>
    \E k \in 1 .. Len(log) : /\ log[k].kind = "tick" /\ log[k].id = e.id
                             /\ log[k].at = e.at /\ log[k].passed
Explained(log, events) == \A i \in 1 .. Len(events) : FillExplained(log, events[i])

\* The ticks are of the first n children.
TicksOfChildren(log, n) == \A k \in 1 .. Len(log) : log[k].kind = "tick" => log[k].id \in 1 .. n

\* What holds of a log and n children, and of the fills that are not on it yet.
LogSound(log, cs, n) ==
  /\ IsLog(log) /\ IsLog(cs) /\ DOMAIN cs = 1 .. n
  /\ \A id \in 1 .. n : Told(TicksOf(log, id), id, cs[id])
  /\ Explained(log, log) /\ TicksOfChildren(log, n)
Pending(log, fills) ==
  /\ IsLog(fills) /\ Explained(log, fills)
  /\ \A i \in 1 .. Len(fills) : fills[i].kind = "fill"
Sim(s, n) == LogSound(s.bus, s.children, n) /\ Pending(s.bus, s.fills)

LEMMA StillExplained ==
  ASSUME NEW log, NEW longer, Extends(longer, log), NEW e, FillExplained(log, e)
  PROVE  FillExplained(longer, e)
<1> SUFFICES ASSUME e.kind = "fill", e.gated, GateEnabled(config.model), Kept(e.id)
             PROVE  \E k \in 1 .. Len(longer) : /\ longer[k].kind = "tick" /\ longer[k].id = e.id
                                                /\ longer[k].at = e.at /\ longer[k].passed
  BY Zenon DEF FillExplained
<1>1. PICK k \in 1 .. Len(log) : /\ log[k].kind = "tick" /\ log[k].id = e.id
                                 /\ log[k].at = e.at /\ log[k].passed
  BY Zenon DEF FillExplained
<1>2. longer[k] = log[k] /\ k \in 1 .. Len(longer)
  BY DEF Extends
<1> QED
  BY <1>1, <1>2, Zenon

\* The log is extended by events that are explained, ticks of one child among
\* them, and that child is changed as they tell.
LEMMA LogGrown ==
  ASSUME NEW log, NEW longer, NEW cs, NEW n \in Nat, LogSound(log, cs, n), NEW id \in 1 .. n, NEW d,
         IsLog(longer), Extends(longer, log),
         \A k \in Len(log) + 1 .. Len(longer) :
           /\ longer[k].kind = "tick" => longer[k].id = id
           /\ FillExplained(longer, longer[k]),
         Told(TicksOf(longer, id), id, d)
  PROVE  LogSound(longer, [cs EXCEPT ![id] = d], n)
<1> DEFINE ds == [cs EXCEPT ![id] = d]
<1>1. /\ Len(log) \in Nat /\ Len(longer) \in Nat /\ Len(log) <= Len(longer)
      /\ \A k \in 1 .. Len(log) : longer[k] = log[k]
      /\ \A k \in 1 .. Len(longer) : k \in 1 .. Len(log) \/ k \in Len(log) + 1 .. Len(longer)
  BY DEF Extends
<1>2. DOMAIN cs = 1 .. n /\ IsLog(cs) /\ IsLog(log)
  BY DEF LogSound
<1>3. IsLog(ds) /\ DOMAIN ds = 1 .. n
  <2>1. PICK S : cs \in Seq(S)
    BY <1>2 DEF IsLog
  <2> DEFINE X == S \cup {d}
  <2>2. cs \in Seq(X) /\ d \in X
    BY <2>1, SeqMonotonic
  <2>3. \A i \in 1 .. n : cs[i] \in X
    BY <1>2, <2>2, ElementOfSeq, LenProperties
  <2> HIDE DEF X
  <2> DEFINE at(i) == IF i = id THEN d ELSE cs[i]
  <2>4. ds = [i \in 1 .. n |-> at(i)]
    <3>1. cs = [i \in 1 .. n |-> cs[i]]
      BY <1>2, <2>2, LenProperties
    <3> QED
      BY <1>2, <3>1
  <2>5. \A i \in 1 .. n : at(i) \in X
    BY <2>2, <2>3
  <2> HIDE DEF at
  <2>6. [i \in 1 .. n |-> at(i)] \in Seq(X)
    BY <2>5, IsASeq
  <2>7. ds \in Seq(X) /\ DOMAIN ds = 1 .. n
    <3> HIDE DEF ds
    <3> QED
      BY <2>4, <2>6
  <2> QED
    BY <2>7, Zenon DEF IsLog
<1>4. ASSUME NEW j \in 1 .. n
      PROVE  Told(TicksOf(longer, j), j, ds[j])
  <2>1. CASE j = id
    BY <1>2, <2>1
  <2>2. CASE j # id
    <3>1. ds[j] = cs[j]
      BY <1>2, <2>2
    <3>2. \A k \in 1 .. Len(longer) : longer[k].kind = "tick" /\ longer[k].id = j => k <= Len(log)
      BY <1>1, <2>2
    <3>3. TicksOf(longer, j) = TicksOf(log, j)
      BY <1>2, <3>2, OtherEvents
    <3>4. Told(TicksOf(log, j), j, cs[j])
      BY DEF LogSound
    <3> QED
      BY <3>1, <3>3, <3>4
  <2> QED
    BY <2>1, <2>2
<1>5. Explained(longer, longer)
  <2> SUFFICES ASSUME NEW k \in 1 .. Len(longer)
               PROVE  FillExplained(longer, longer[k])
    BY DEF Explained
  <2>1. CASE k \in 1 .. Len(log)
    <3>1. FillExplained(log, log[k])
      BY <2>1 DEF LogSound, Explained
    <3>2. FillExplained(longer, log[k])
      BY <3>1, StillExplained
    <3> QED
      BY <1>1, <2>1, <3>2
  <2> QED
    BY <1>1, <2>1
<1>6. TicksOfChildren(longer, n)
  <2> SUFFICES ASSUME NEW k \in 1 .. Len(longer), longer[k].kind = "tick"
               PROVE  longer[k].id \in 1 .. n
    BY DEF TicksOfChildren
  <2>1. k \in 1 .. Len(log) => (log[k].kind = "tick" => log[k].id \in 1 .. n)
    BY DEF LogSound, TicksOfChildren
  <2> QED
    BY <1>1, <2>1
<1> QED
  BY <1>3, <1>4, <1>5, <1>6 DEF LogSound

LEMMA PendingKept ==
  ASSUME NEW log, NEW longer, Extends(longer, log), NEW fills, Pending(log, fills)
  PROVE  Pending(longer, fills)
BY StillExplained DEF Pending, Explained

LEMMA PendingAdded ==
  ASSUME NEW log, NEW fills, Pending(log, fills), NEW e, e.kind = "fill", FillExplained(log, e)
  PROVE  Pending(log, Append(fills, e))
<1>1. PICK S : fills \in Seq(S)
  BY DEF Pending, IsLog
<1> DEFINE X == S \cup {e}
           n == Len(fills)
           more == Append(fills, e)
<1>2. fills \in Seq(X) /\ e \in X
  BY <1>1, SeqMonotonic
<1> HIDE DEF X
<1>3. more \in Seq(X) /\ n \in Nat /\ Len(more) = n + 1 /\ more[n + 1] = e /\ \A i \in 1 .. n : more[i] = fills[i]
  BY <1>2, AppendProperties, LenProperties
<1>4. \A i \in 1 .. n : FillExplained(log, fills[i]) /\ fills[i].kind = "fill"
  BY DEF Pending, Explained
<1> HIDE DEF more, n
<1>5. \A i \in 1 .. n + 1 : i = n + 1 \/ i \in 1 .. n
  BY <1>3
<1>6. \A i \in 1 .. Len(more) : FillExplained(log, more[i]) /\ more[i].kind = "fill"
  BY <1>3, <1>4, <1>5
<1>7. IsLog(more)
  BY <1>3 DEF IsLog
<1>8. Pending(log, more)
  BY <1>6, <1>7 DEF Pending, Explained
<1> QED
  BY <1>8 DEF more

LEMMA SameGateItself ==
  ASSUME NEW c, GateTyped(c)
  PROVE  SameGate(c, c)
BY DEF GateTyped, SameGate

LEMMA SameGateChain ==
  ASSUME NEW c, NEW d, NEW e, SameGate(d, c), SameGate(e, d)
  PROVE  SameGate(e, c)
BY Zenon DEF SameGate

LEMMA AfterMatchAlike ==
  ASSUME NEW c, GateTyped(c), NEW fill
  PROVE  SameGate(AfterMatch(c, fill), c)
<1> DEFINE after == AfterMatch(c, fill)
<1>1. GateFields \subseteq DOMAIN c
  BY DEF GateTyped
<1>2. DOMAIN after = DOMAIN c
  BY DEF AfterMatch
<1>3. /\ after.ahead = c.ahead /\ after.level = c.level /\ after.level0 = c.level0
      /\ after.queued = c.queued /\ after.price = c.price /\ after.side = c.side
  BY <1>1 DEF AfterMatch, GateFields
<1> QED
  BY <1>1, <1>2, <1>3 DEF SameGate

LEMMA ExtendsItself ==
  ASSUME NEW log, IsLog(log)
  PROVE  Extends(log, log)
BY LogLength DEF Extends

LEMMA ExtendsChain ==
  ASSUME NEW a, NEW b, NEW c, Extends(b, a), Extends(c, b)
  PROVE  Extends(c, a)
BY DEF Extends

\* A change of a child that is none of its gate leaves everything sound.
LEMMA ChildChanged ==
  ASSUME NEW log, NEW cs, NEW n \in Nat, LogSound(log, cs, n), NEW id \in 1 .. n, NEW d,
         SameGate(d, cs[id])
  PROVE  LogSound(log, [cs EXCEPT ![id] = d], n)
<1>1. IsLog(log) /\ Told(TicksOf(log, id), id, cs[id])
  BY DEF LogSound
<1>2. Extends(log, log) /\ Len(log) \in Nat
  BY <1>1, ExtendsItself, LogLength
<1>3. Told(TicksOf(log, id), id, d)
  BY <1>1, ToldAlike
<1>4. \A k \in Len(log) + 1 .. Len(log) :
           /\ log[k].kind = "tick" => log[k].id = id
           /\ FillExplained(log, log[k])
  BY <1>2
<1> QED
  BY <1>1, <1>2, <1>3, <1>4, LogGrown

\* The parts of Worked.
WorkedChild(moved, gated, passed, fill) ==
  IF passed THEN AfterMatch([moved EXCEPT !.readySeen = @ \/ gated], fill)
  ELSE [moved EXCEPT !.status = "OPEN"]

LEMMA WorkedChildAlike ==
  ASSUME NEW moved, GateTyped(moved), NEW gated, NEW passed, NEW fill
  PROVE  SameGate(WorkedChild(moved, gated, passed, fill), moved)
<1> DEFINE x == [moved EXCEPT !.readySeen = @ \/ gated]
           y == [moved EXCEPT !.status = "OPEN"]
<1>1. GateFields \subseteq DOMAIN moved
  BY DEF GateTyped
<1>2. /\ x.ahead = moved.ahead /\ x.level = moved.level /\ x.level0 = moved.level0
      /\ x.queued = moved.queued /\ x.price = moved.price /\ x.side = moved.side /\ DOMAIN x = DOMAIN moved
  BY <1>1 DEF GateFields
<1>3. /\ y.ahead = moved.ahead /\ y.level = moved.level /\ y.level0 = moved.level0
      /\ y.queued = moved.queued /\ y.price = moved.price /\ y.side = moved.side /\ DOMAIN y = DOMAIN moved
  BY <1>1 DEF GateFields
<1>4. WorkedChild(moved, gated, passed, fill) = IF passed THEN AfterMatch(x, fill) ELSE y
  BY Zenon DEF WorkedChild
<1> HIDE DEF x, y
<1>5. SameGate(x, moved) /\ GateTyped(x) /\ SameGate(y, moved)
  BY <1>1, <1>2, <1>3 DEF SameGate, GateTyped
<1>6. SameGate(AfterMatch(x, fill), moved)
  BY <1>5, AfterMatchAlike, SameGateChain
<1> QED
  BY <1>4, <1>5, <1>6

LEMMA WorkedFree ==
  ASSUME NEW s, NEW n \in Nat, Sim(s, n), NEW id \in 1 .. n, NEW m, NEW draw,
         ~(GateEnabled(config.model) /\ PassiveCandidate(s.children[id], m.book))
  PROVE  Sim(Worked(s, id, m, draw), n)
<1> DEFINE c     == s.children[id]
           t     == Worked(s, id, m, draw)
           fill  == Traded(c, m, OrderQty - s.filled)
           event == FillEvent(id, m, c, fill)
           d     == WorkedChild(c, FALSE, TRUE, fill)
<1>1. /\ t.children = [s.children EXCEPT ![id] = d]
      /\ t.bus = s.bus
      /\ t.fills = IF fill.qty = 0 THEN s.fills ELSE Append(s.fills, event)
  BY DEF Worked, WorkedChild
<1>2. LogSound(s.bus, s.children, n) /\ Pending(s.bus, s.fills) /\ GateTyped(c)
  BY DEF Sim, LogSound, Told
<1>3. SameGate(d, c)
  BY <1>2, WorkedChildAlike
<1>4. event.kind = "fill" /\ (event.gated <=> PassiveCandidate(c, m.book))
  BY DEF FillEvent
<1> HIDE DEF t, event, fill, d
<1>5. LogSound(t.bus, t.children, n)
  BY <1>1, <1>2, <1>3, ChildChanged
<1>6. FillExplained(s.bus, event)
  BY <1>4, Zenon DEF FillExplained
<1>7. Pending(t.bus, t.fills)
  BY <1>1, <1>2, <1>4, <1>6, PendingAdded
<1>8. Sim(t, n)
  BY <1>5, <1>7 DEF Sim
<1> QED
  BY <1>8 DEF t

\* The log of a gated child: it tells of the queue and of this tick.
TwoAdded(longer, log, id, init, tick) ==
  /\ IsLog(longer) /\ Extends(longer, log)
  /\ TicksOf(longer, id) = IF Kept(id) THEN Append(TicksOf(log, id), tick) ELSE TicksOf(log, id)
  /\ \A k \in Len(log) + 1 .. Len(longer) : longer[k] \in {init, tick}
  /\ Kept(id) => \E k \in 1 .. Len(longer) : longer[k] = tick

LEMMA TwoEmitted ==
  ASSUME NEW log, IsLog(log), NEW id, NEW init, NEW tick, init.kind = "init",
         tick.kind = "tick", tick.id = id
  PROVE  TwoAdded(Emit(Emit(log, init), tick), log, id, init, tick)
<1> DEFINE one == Emit(log, init)
           two == Emit(one, tick)
           n   == Len(log)
<1>1. IsLog(one) /\ Extends(one, log)
  BY Emitted
<1>2. one = Append(log, init) /\ Len(one) = n + 1 /\ one[n + 1] = init
  <2>1. one = Append(log, init) /\ one # log
    <3>1. one = Append(log, init)
      BY DEF Emit
    <3>2. Len(Append(log, init)) = n + 1 /\ n \in Nat
      <4>1. PICK S : log \in Seq(S)
        BY DEF IsLog
      <4> DEFINE X == S \cup {init}
      <4>2. log \in Seq(X) /\ init \in X
        BY <4>1, SeqMonotonic
      <4> HIDE DEF X
      <4> QED
        BY <4>2, AppendProperties, LenProperties
    <3> HIDE DEF one
    <3>3. Len(one) = n + 1 /\ Len(log) = n /\ n + 1 # n
      <4>1. Len(one) = n + 1 /\ n \in Nat
        BY <3>1, <3>2
      <4> HIDE DEF n
      <4>2. n + 1 # n
        BY <4>1
      <4> QED
        BY <4>1, <4>2 DEF n
    <3> QED
      BY <3>1, <3>3
  <2>2. one = log \/ (one = Append(log, init) /\ Len(one) = n + 1 /\ one[n + 1] = init)
    BY Emitted
  <2> HIDE DEF one, n
  <2> QED
    BY <2>1, <2>2
<1> HIDE DEF one
<1>3. IsLog(two) /\ Extends(two, one)
      /\ (two = one \/ (two = Append(one, tick) /\ Len(two) = Len(one) + 1 /\ two[Len(one) + 1] = tick))
      /\ (Kept(id) => two # one)
  BY <1>1, Emitted
<1>4. TicksOf(one, id) = TicksOf(log, id)
  BY TickEmitted DEF one
<1>5. TicksOf(two, id) = IF Kept(id) THEN Append(TicksOf(one, id), tick) ELSE TicksOf(one, id)
  BY <1>1, TickEmitted
<1> HIDE DEF two, n
<1>6. n \in Nat /\ Len(log) = n
  BY LogLength DEF n
<1>7. Extends(two, log)
  BY <1>1, <1>3, ExtendsChain
<1>8. \A k \in n + 1 .. Len(two) : two[k] \in {init, tick}
  <2> SUFFICES ASSUME NEW k \in n + 1 .. Len(two)
               PROVE  two[k] = init \/ two[k] = tick
    OBVIOUS
  <2>1. \A i \in 1 .. Len(one) : two[i] = one[i]
    BY <1>3 DEF Extends
  <2>2. CASE two = one
    BY <1>2, <1>6, <2>2
  <2>3. CASE two # one
    <3>1. Len(two) = n + 2 /\ two[n + 2] = tick
      BY <1>2, <1>3, <1>6, <2>3
    <3>2. k = n + 1 \/ k = n + 2
      BY <1>6, <3>1
    <3>3. two[n + 1] = init
      BY <1>2, <1>6, <2>1
    <3> QED
      BY <3>1, <3>2, <3>3
  <2> QED
    BY <2>2, <2>3
<1>9. Kept(id) => \E k \in 1 .. Len(two) : two[k] = tick
  <2> SUFFICES ASSUME Kept(id) PROVE \E k \in 1 .. Len(two) : two[k] = tick
    OBVIOUS
  <2>1. Len(two) = n + 2 /\ two[n + 2] = tick
    BY <1>2, <1>3, <1>6
  <2>2. n + 2 \in 1 .. Len(two)
    BY <1>6, <2>1
  <2> QED
    BY <2>1, <2>2
<1>10. TwoAdded(two, log, id, init, tick)
  BY <1>3, <1>4, <1>5, <1>6, <1>7, <1>8, <1>9 DEF TwoAdded
<1> QED
  BY <1>10 DEF two, one

LEMMA WorkedGated ==
  ASSUME NEW s, NEW n \in Nat, Sim(s, n), NEW id \in 1 .. n, NEW m, IsSnapshot(m.book), IsTape(m.tape),
         NEW draw \in 0 .. Units - 1,
         GateEnabled(config.model) /\ PassiveCandidate(s.children[id], m.book)
  PROVE  Sim(Worked(s, id, m, draw), n)
<1> DEFINE c      == s.children[id]
           t      == Worked(s, id, m, draw)
           gated  == GateEnabled(config.model) /\ PassiveCandidate(c, m.book)
           joined == IF gated THEN JoinQueue(c, m.book, m.now) ELSE c
           depth  == DepthAdvance(config.model, Unexplained(joined, m.book, m.tape), draw)
           moved  == IF gated THEN Advanced(joined, m.book, m.tape, depth) ELSE c
           passed == gated => Ready(moved, m.book)
           init   == [kind |-> "init", id |-> id, tick |-> m.tick, at |-> m.now,
                      ahead |-> joined.ahead, level |-> joined.level0]
           tick   == QueueTickEvent(id, m, joined.ahead, c, moved.ahead, passed)
           both   == Emit(Emit(s.bus, init), tick)
           log    == IF gated THEN both ELSE s.bus
           fill   == IF passed THEN Traded(moved, m, OrderQty - s.filled) ELSE NoFill
           event  == FillEvent(id, m, c, fill)
           d      == WorkedChild(moved, gated, passed, fill)
<1>20. gated
  OBVIOUS
<1>21. joined = JoinQueue(c, m.book, m.now) /\ log = both
  BY <1>20
<1>22. moved = Advanced(joined, m.book, m.tape, depth)
  BY <1>20
<1>23. passed => Ready(moved, m.book)
  BY <1>20
<1>1. /\ t.children = [s.children EXCEPT ![id] = d]
      /\ t.bus = log
      /\ t.fills = IF fill.qty = 0 THEN s.fills ELSE Append(s.fills, event)
  BY Zenon DEF Worked, WorkedChild
<1>2. LogSound(s.bus, s.children, n) /\ Pending(s.bus, s.fills)
  BY DEF Sim
<1>3. IsLog(s.bus) /\ Told(TicksOf(s.bus, id), id, c) /\ GateTyped(c)
  BY <1>2 DEF LogSound, Told
<1>4. init.kind = "init" /\ tick.kind = "tick" /\ tick.id = id /\ tick.at = m.now /\ (tick.passed <=> passed)
  BY DEF QueueTickEvent
<1>5. event.kind = "fill" /\ event.id = id /\ event.at = m.now
  BY DEF FillEvent
<1>6. fill.qty # 0 => passed
  BY DEF NoFill
<1>7. JoinedWell(TicksOf(s.bus, id), id, c, joined)
  BY <1>3, <1>21, Joined
<1>8. GateTyped(moved)
  <2>1. GateTyped(joined) /\ joined.price = c.price /\ joined.side = c.side
    BY <1>7 DEF JoinedWell
  <2> DEFINE next  == Units * LevelQty(joined, m.book)
             ahead == Greatest(0, Greatest(0, joined.ahead - Units * SameLevelTrade(joined, m.tape)) - depth)
  <2>2. next \in Nat
    BY <2>1, LevelTyped, InUnits DEF GateTyped
  <2>3. Units * SameLevelTrade(joined, m.tape) \in Nat
    BY TradeTyped, InUnits
  <2>4. Unexplained(joined, m.book, m.tape) \in Nat
    BY <2>1, <2>2, <2>3 DEF Unexplained, Greatest, GateTyped
  <2>5. depth \in Nat
    <3> DEFINE u == Unexplained(joined, m.book, m.tape)
    <3>1. u \in Nat
      BY <2>4
    <3> HIDE DEF u
    <3>2. DepthAdvance(config.model, u, draw) \in 0 .. u
      BY <3>1, DepthBounded
    <3> QED
      BY <3>1, <3>2 DEF u
  <2> HIDE DEF joined, depth
  <2>6. ahead \in Nat
    BY <2>1, <2>3, <2>5 DEF Greatest, GateTyped
  <2>7. moved = [joined EXCEPT !.ahead = ahead, !.level = next]
    BY <1>22, Zenon DEF Advanced
  <2> HIDE DEF ahead, next, moved
  <2> QED
    BY <2>1, <2>2, <2>6, <2>7 DEF GateTyped, GateFields
<1>9. SameGate(d, moved)
  BY <1>8, WorkedChildAlike
<1>10. Gated(c, d, joined, moved, m, DepthAdvance(config.model, Unexplained(joined, m.book, m.tape), draw))
  BY <1>9, <1>21, <1>22 DEF Gated
<1> HIDE DEF init, tick, event, fill, d, joined, moved, passed, t, depth, gated
<1>24. TwoAdded(both, s.bus, id, init, tick)
  BY <1>3, <1>4, TwoEmitted
<1> HIDE DEF both, log
<1>11. /\ IsLog(log) /\ Extends(log, s.bus)
       /\ TicksOf(log, id) = IF Kept(id) THEN Append(TicksOf(s.bus, id), tick) ELSE TicksOf(s.bus, id)
       /\ \A k \in Len(s.bus) + 1 .. Len(log) : log[k] \in {init, tick}
       /\ Kept(id) => \E k \in 1 .. Len(log) : log[k] = tick
  BY <1>21, <1>24 DEF TwoAdded
<1>12. IsLog(TicksOf(s.bus, id))
  BY <1>3, TicksAreALog
<1>13. Told(TicksOf(log, id), id, d)
  <2>1. TicksOf(log, id) = IF Kept(id) THEN Append(TicksOf(s.bus, id), QueueTickEvent(id, m, joined.ahead, c, moved.ahead, passed))
                           ELSE TicksOf(s.bus, id)
    BY <1>11 DEF tick
  <2>2. passed => Ready(moved, m.book)
    BY <1>23
  <2> QED
    BY <1>3, <1>10, <1>12, <2>1, <2>2, TickTold
<1>14. \A k \in Len(s.bus) + 1 .. Len(log) :
           /\ log[k].kind = "tick" => log[k].id = id
           /\ FillExplained(log, log[k])
  <2> SUFFICES ASSUME NEW k \in Len(s.bus) + 1 .. Len(log)
               PROVE  (log[k].kind = "tick" => log[k].id = id) /\ log[k].kind # "fill"
    BY Zenon DEF FillExplained
  <2> QED
    BY <1>4, <1>11
<1>15. LogSound(log, [s.children EXCEPT ![id] = d], n)
  BY <1>2, <1>11, <1>13, <1>14, LogGrown
<1>16. ASSUME fill.qty # 0
       PROVE  FillExplained(log, event)
  <2> SUFFICES ASSUME Kept(event.id)
               PROVE  \E k \in 1 .. Len(log) : /\ log[k].kind = "tick" /\ log[k].id = event.id
                                               /\ log[k].at = event.at /\ log[k].passed
    BY Zenon DEF FillExplained
  <2>1. PICK k \in 1 .. Len(log) : log[k] = tick
    BY <1>5, <1>11
  <2>2. tick.passed
    BY <1>4, <1>6, <1>16, Zenon
  <2>3. log[k].kind = "tick" /\ log[k].id = event.id /\ log[k].at = event.at
    BY <1>4, <1>5, <2>1
  <2> QED
    BY <2>1, <2>2, <2>3, Zenon
<1>17. Pending(log, s.fills)
  BY <1>2, <1>11, PendingKept
<1>18. Pending(log, t.fills)
  BY <1>1, <1>5, <1>16, <1>17, PendingAdded
<1>19. Sim(t, n)
  BY <1>1, <1>15, <1>18 DEF Sim
<1> QED
  BY <1>19 DEF t

SimFields == {"children", "filled", "fills", "bus", "diag"}
SimSound(s, n) == SimFields \subseteq DOMAIN s /\ Sim(s, n)

\* The other branches of simulate_fills change no log and no gate.
LEMMA SimUntouched ==
  ASSUME NEW s, NEW n \in Nat, SimSound(s, n), NEW id \in 1 .. n, NEW d, SameGate(d, s.children[id]),
         NEW t, DOMAIN t = DOMAIN s, t.children = [s.children EXCEPT ![id] = d],
         t.bus = s.bus, t.fills = s.fills
  PROVE  SimSound(t, n)
<1>1. LogSound(s.bus, s.children, n) /\ Pending(s.bus, s.fills)
  BY DEF SimSound, Sim
<1>2. LogSound(s.bus, [s.children EXCEPT ![id] = d], n)
  BY <1>1, ChildChanged
<1> QED
  BY <1>1, <1>2 DEF SimSound, Sim

LEMMA SimulateChildSound ==
  ASSUME NEW s, NEW n \in Nat, SimSound(s, n), NEW id \in 1 .. n,
         NEW m, IsSnapshot(m.book), IsTape(m.tape), NEW draw \in 0 .. Units - 1
  PROVE  SimSound(SimulateChild(s, id, m, draw), n)
<1> DEFINE c == s.children[id]
           set(d) == [s EXCEPT !.children[id] = d]
           t == SimulateChild(s, id, m, draw)
<1>1. GateTyped(c) /\ SimFields \subseteq DOMAIN s
  BY DEF SimSound, Sim, LogSound, Told
<1>2. ASSUME NEW d
      PROVE  /\ set(d).children = [s.children EXCEPT ![id] = d]
             /\ set(d).bus = s.bus /\ set(d).fills = s.fills /\ DOMAIN set(d) = DOMAIN s
  BY <1>1 DEF SimFields
<1>3. ASSUME NEW d, NEW e, SameGate(d, c)
      PROVE  SimSound(set(d), n) /\ SimSound([set(d) EXCEPT !.diag = e], n)
  <2>1. SimSound(set(d), n)
    <3> DEFINE x == set(d)
    <3>1. /\ x.children = [s.children EXCEPT ![id] = d]
          /\ x.bus = s.bus /\ x.fills = s.fills /\ DOMAIN x = DOMAIN s
      BY <1>2
    <3> HIDE DEF x
    <3>2. SimSound(x, n)
      BY <1>3, <3>1, SimUntouched
    <3> QED
      BY <3>2 DEF x
  <2>2. SimSound([set(d) EXCEPT !.diag = e], n)
    <3> DEFINE y == set(d)
               x == [y EXCEPT !.diag = e]
    <3>1. /\ y.children = [s.children EXCEPT ![id] = d]
          /\ y.bus = s.bus /\ y.fills = s.fills /\ DOMAIN y = DOMAIN s
      BY <1>2
    <3> HIDE DEF y
    <3>2. /\ x.children = [s.children EXCEPT ![id] = d]
          /\ x.bus = s.bus /\ x.fills = s.fills /\ DOMAIN x = DOMAIN s
      BY <1>1, <3>1 DEF SimFields
    <3> HIDE DEF x
    <3>3. SimSound(x, n)
      BY <1>3, <3>2, SimUntouched
    <3> QED
      BY <3>3 DEF x, y
  <2> QED
    BY <2>1, <2>2
<1>4. /\ SameGate([c EXCEPT !.cancelPending = FALSE, !.status = "CANCELLED"], c)
      /\ SameGate([c EXCEPT !.cancelPending = FALSE, !.status = "FILLED"], c)
      /\ SameGate([c EXCEPT !.status = "PENDING"], c)
      /\ SameGate(Cancelled(c), c)
  BY <1>1 DEF GateTyped, GateFields, SameGate, Cancelled
<1>5. CASE OrderQty - s.filled <= 0
  <2>1. t = set([c EXCEPT !.cancelPending = FALSE, !.status = "CANCELLED"])
    BY <1>5, Zenon DEF SimulateChild
  <2> QED
    BY <1>3, <1>4, <2>1
<1>6. CASE ~(OrderQty - s.filled <= 0) /\ CancelDue(c, m.now)
  <2>1. t = [set(Cancelled(c)) EXCEPT !.diag = CountCancel(@, c, m.now)]
    BY <1>6, Zenon DEF SimulateChild
  <2> DEFINE e == CountCancel(set(Cancelled(c)).diag, c, m.now)
  <2>2. t = [set(Cancelled(c)) EXCEPT !.diag = e]
    BY <2>1
  <2>3. SimSound([set(Cancelled(c)) EXCEPT !.diag = e], n)
    <3>1. SameGate(Cancelled(c), c)
      BY <1>4
    <3> HIDE DEF e
    <3> QED
      BY <1>3, <3>1, Zenon
  <2> QED
    BY <2>2, <2>3, Zenon
<1>7. CASE ~(OrderQty - s.filled <= 0) /\ ~CancelDue(c, m.now) /\ NotArrived(c, m.now)
  <2> DEFINE d == [c EXCEPT !.status = "PENDING"]
             e == [set(d).diag EXCEPT !.early = @ + 1]
  <2>1. t = [set(d) EXCEPT !.diag.early = @ + 1]
    BY <1>7, Zenon DEF SimulateChild
  <2>2. t = [set(d) EXCEPT !.diag = e]
    BY <2>1
  <2>3. SimSound([set(d) EXCEPT !.diag = e], n)
    <3>1. SameGate(d, c)
      BY <1>4
    <3> HIDE DEF e, d
    <3> QED
      BY <1>3, <3>1, Zenon
  <2> QED
    BY <2>2, <2>3, Zenon
<1>8. CASE ~(OrderQty - s.filled <= 0) /\ ~CancelDue(c, m.now) /\ ~NotArrived(c, m.now) /\ Remaining(c) <= 0
  <2>1. t = set([c EXCEPT !.cancelPending = FALSE, !.status = "FILLED"])
    BY <1>8, Zenon DEF SimulateChild
  <2> QED
    BY <1>3, <1>4, <2>1
<1>9. CASE ~(OrderQty - s.filled <= 0) /\ ~CancelDue(c, m.now) /\ ~NotArrived(c, m.now) /\ ~(Remaining(c) <= 0)
  <2>1. t = Worked(s, id, m, draw)
    BY <1>9, Zenon DEF SimulateChild
  <2>2. Sim(s, n)
    BY DEF SimSound
  <2>3. Sim(t, n)
    BY <2>1, <2>2, WorkedFree, WorkedGated
  <2>4. SimFields \subseteq DOMAIN Worked(s, id, m, draw)
    BY DEF Worked, SimFields
  <2> QED
    BY <2>1, <2>3, <2>4 DEF SimSound
<1> QED
  BY <1>5, <1>6, <1>7, <1>8, <1>9

\* Events that are no ticks, each explained, are added at the end.
LEMMA LogJoined ==
  ASSUME NEW log, NEW cs, NEW n \in Nat, LogSound(log, cs, n), NEW more, IsLog(more), Explained(log, more),
         \A i \in 1 .. Len(more) : more[i].kind # "tick"
  PROVE  LogSound(log \o more, cs, n)
<1> DEFINE longer == log \o more
           k0 == Len(log)
<1>1. IsLog(log)
  BY DEF LogSound
<1>2. PICK X : log \in Seq(X) /\ more \in Seq(X)
  <2>1. PICK S : log \in Seq(S)
    BY <1>1 DEF IsLog
  <2>2. PICK T : more \in Seq(T)
    BY DEF IsLog
  <2>3. log \in Seq(S \cup T) /\ more \in Seq(S \cup T)
    BY <2>1, <2>2, SeqMonotonic
  <2> QED
    BY <2>3
<1>3. /\ k0 \in Nat /\ Len(more) \in Nat /\ Len(longer) = k0 + Len(more) /\ longer \in Seq(X)
      /\ \A i \in 1 .. Len(longer) : longer[i] = IF i <= k0 THEN log[i] ELSE more[i - k0]
  BY <1>2, ConcatProperties, LenProperties
<1>4. DOMAIN log = 1 .. k0 /\ DOMAIN longer = 1 .. Len(longer)
  BY <1>2, <1>3, LenProperties
<1> HIDE DEF longer, k0
<1>5. k0 = Len(log)
  BY DEF k0
<1>6. IsLog(longer)
  BY <1>3 DEF IsLog
<1>7. \A k \in 1 .. k0 : longer[k] = log[k] /\ k \in 1 .. Len(longer)
  BY <1>3
<1>8. \A k \in 1 .. Len(longer) : k \in 1 .. k0 \/ (k - k0 \in 1 .. Len(more) /\ longer[k] = more[k - k0])
  BY <1>3
<1>9. Extends(longer, log)
  BY <1>3, <1>4, <1>5, <1>7 DEF Extends
<1>10. \A id \in 1 .. n : Told(TicksOf(longer, id), id, cs[id])
  <2> SUFFICES ASSUME NEW id \in 1 .. n
               PROVE  Told(TicksOf(longer, id), id, cs[id])
    OBVIOUS
  <2>1. \A k \in 1 .. Len(longer) : longer[k].kind = "tick" /\ longer[k].id = id => k <= Len(log)
    BY <1>3, <1>5, <1>8
  <2>2. TicksOf(longer, id) = TicksOf(log, id)
    BY <1>1, <1>6, <1>9, <2>1, OtherEvents
  <2> QED
    BY <2>2 DEF LogSound
<1>11. Explained(longer, longer)
  <2> SUFFICES ASSUME NEW k \in 1 .. Len(longer)
               PROVE  FillExplained(longer, longer[k])
    BY DEF Explained
  <2>1. FillExplained(log, longer[k])
    <3>1. \A j \in 1 .. k0 : FillExplained(log, log[j])
      BY <1>5 DEF LogSound, Explained
    <3>2. \A j \in 1 .. Len(more) : FillExplained(log, more[j])
      BY DEF Explained
    <3> QED
      BY <1>7, <1>8, <3>1, <3>2
  <2> QED
    BY <1>9, <2>1, StillExplained
<1>12. TicksOfChildren(longer, n)
  <2> SUFFICES ASSUME NEW k \in 1 .. Len(longer), longer[k].kind = "tick"
               PROVE  longer[k].id \in 1 .. n
    BY DEF TicksOfChildren
  <2>1. \A j \in 1 .. k0 : log[j].kind = "tick" => log[j].id \in 1 .. n
    BY <1>5 DEF LogSound, TicksOfChildren
  <2> QED
    BY <1>7, <1>8, <2>1
<1>13. LogSound(longer, cs, n)
  BY <1>6, <1>10, <1>11, <1>12 DEF LogSound
<1> QED
  BY <1>13 DEF longer

\* The results of simulate_fills after each child of a list.
SimStart(cs, log, counts) ==
  [children |-> cs, filled |-> filled, fills |-> <<>>, bus |-> log, diag |-> counts]
SimStep(s, k, ids, m, draw) == SimulateChild(s, ids[k], m, draw[ids[k]])
IsSimRun(after, n, start, ids, m, draw) ==
  after = [k \in 0 .. n |-> IF k = 0 THEN start ELSE SimStep(after[k - 1], k, ids, m, draw)]

LEMMA SimRunExists ==
  ASSUME NEW n \in Nat, NEW start, NEW ids, NEW m, NEW draw
  PROVE  \E after : IsSimRun(after, n, start, ids, m, draw)
<1> DEFINE RunTo(f, k) == f[0] = start /\ \A j \in 1 .. k : f[j] = SimStep(f[j - 1], j, ids, m, draw)
           Good == {k \in 0 .. n : \E f : RunTo(f, k)}
<1>1. 0 \in Good
  <2> DEFINE f == [k \in {0} |-> start]
  <2>1. f[0] = start /\ \A j \in 1 .. 0 : f[j] = SimStep(f[j - 1], j, ids, m, draw)
    OBVIOUS
  <2> HIDE DEF f
  <2>2. \E g : RunTo(g, 0)
    BY <2>1
  <2> QED
    BY <2>2
<1>2. ASSUME NEW k \in 1 .. n, k - 1 \in Good
      PROVE  k \in Good
  <2>1. PICK f : RunTo(f, k - 1)
    BY <1>2
  <2> DEFINE last == SimStep(f[k - 1], k, ids, m, draw)
             g == [j \in 0 .. k |-> IF j = k THEN last ELSE f[j]]
  <2>2. g[0] = start
    BY <2>1
  <2>3. ASSUME NEW j \in 1 .. k
        PROVE  g[j] = SimStep(g[j - 1], j, ids, m, draw)
    <3>1. g[j - 1] = f[j - 1] /\ g[j] = IF j = k THEN last ELSE f[j]
      <4> HIDE DEF last
      <4>1. j - 1 \in 0 .. k /\ j - 1 # k /\ j \in 0 .. k
        OBVIOUS
      <4> QED
        BY <4>1
    <3>2. CASE j = k
      <4>1. g[j] = last
        BY <3>1, <3>2
      <4> QED
        BY <3>1, <3>2, <4>1
    <3>3. CASE j # k
      <4>1. j \in 1 .. k - 1
        BY <3>3
      <4>2. f[j] = SimStep(f[j - 1], j, ids, m, draw)
        BY <2>1, <4>1
      <4> QED
        BY <3>1, <3>3, <4>2
    <3> QED
      BY <3>2, <3>3
  <2>4. RunTo(g, k)
    BY <2>2, <2>3
  <2>5. k \in 0 .. n
    OBVIOUS
  <2> QED
    BY <2>4, <2>5
<1>3. n \in Good
  <2> HIDE DEF Good
  <2>1. \A k \in 0 .. n : k \in Good
    BY <1>1, <1>2, UpTo
  <2> QED
    BY <2>1
<1>4. PICK f : RunTo(f, n)
  BY <1>3
<1> DEFINE h == [k \in 0 .. n |-> f[k]]
<1>5. ASSUME NEW k \in 0 .. n
      PROVE  h[k] = IF k = 0 THEN start ELSE SimStep(h[k - 1], k, ids, m, draw)
  <2>1. CASE k = 0
    BY <1>4, <2>1
  <2>2. CASE k # 0
    <3>1. k \in 1 .. n /\ k - 1 \in 0 .. n
      BY <2>2
    <3>2. f[k] = SimStep(f[k - 1], k, ids, m, draw)
      BY <1>4, <3>1
    <3>3. h[k] = f[k] /\ h[k - 1] = f[k - 1]
      BY <3>1
    <3> QED
      BY <2>2, <3>2, <3>3
  <2> QED
    BY <2>1, <2>2
<1>6. h = [k \in 0 .. n |-> h[k]]
  OBVIOUS
<1>7. IsSimRun(h, n, start, ids, m, draw)
  <2> HIDE DEF h
  <2> QED
    BY <1>5, <1>6, Zenon DEF IsSimRun
<1> QED
  BY <1>7

\* Every child the list names is one of the n.
Names(ids, n, draw) ==
  /\ Len(ids) \in Nat
  /\ \A k \in 1 .. Len(ids) : ids[k] \in 1 .. n /\ draw[ids[k]] \in 0 .. Units - 1

LEMMA SimulateFillsSound ==
  ASSUME NEW n \in Nat, NEW cs, NEW log, LogSound(log, cs, n), NEW ids, NEW m, IsSnapshot(m.book), IsTape(m.tape),
         NEW draw, Names(ids, n, draw), NEW counts, SimulateFills(ids, cs, log, counts, m, draw)
  PROVE  LogSound(bus', children', n)
<1> DEFINE N     == IF HasMid(m.book) THEN Len(ids) ELSE 0
           start == SimStart(cs, log, counts)
           after == CHOOSE f : IsSimRun(f, Len(ids), start, ids, m, draw)
           end   == after[N]
<1>1. Len(ids) \in Nat /\ N \in Nat /\ N <= Len(ids)
  BY DEF Names
<1>2. IsSimRun(after, Len(ids), start, ids, m, draw)
  BY <1>1, SimRunExists
<1>3. children' = end.children /\ bus' = end.bus \o end.fills
  BY Zenon DEF SimulateFills, IsSimRun, SimStart, SimStep
<1>4. SimSound(start, n)
  <2>1. << >> \in Seq({}) /\ Len(<< >>) = 0
    BY EmptySeq
  <2>2. Pending(log, << >>)
    BY <2>1 DEF Pending, Explained, IsLog
  <2>3. start.children = cs /\ start.bus = log /\ start.fills = << >> /\ SimFields \subseteq DOMAIN start
    BY DEF SimStart, SimFields
  <2> HIDE DEF start
  <2> QED
    BY <2>2, <2>3 DEF SimSound, Sim
<1> HIDE DEF N, start, after
<1> DEFINE Good == {k \in 0 .. N : SimSound(after[k], n)}
<1>5. \A k \in 0 .. Len(ids) : after[k] = IF k = 0 THEN start ELSE SimStep(after[k - 1], k, ids, m, draw)
  BY <1>2, Zenon DEF IsSimRun
<1>6. 0 \in Good
  BY <1>1, <1>4, <1>5
<1>7. ASSUME NEW k \in 1 .. N, k - 1 \in Good
      PROVE  k \in Good
  <2>1. k \in 0 .. N /\ k \in 1 .. Len(ids) /\ k \in 0 .. Len(ids) /\ k # 0
    BY <1>1
  <2>2. after[k] = SimulateChild(after[k - 1], ids[k], m, draw[ids[k]])
    BY <1>5, <2>1 DEF SimStep
  <2>3. ids[k] \in 1 .. n /\ draw[ids[k]] \in 0 .. Units - 1
    BY <2>1 DEF Names
  <2>4. SimSound(after[k - 1], n)
    BY <1>7
  <2>5. SimSound(SimulateChild(after[k - 1], ids[k], m, draw[ids[k]]), n)
    BY <2>3, <2>4, SimulateChildSound
  <2> QED
    BY <2>1, <2>2, <2>5
<1>8. SimSound(end, n)
  <2> HIDE DEF Good
  <2>1. N \in Nat
    BY <1>1
  <2>2. \A k \in 0 .. N : k \in Good
    BY <1>6, <1>7, <2>1, UpTo
  <2>3. N \in Good
    BY <2>1, <2>2
  <2> QED
    BY <2>3 DEF Good
<1> HIDE DEF end
<1>9. LogSound(end.bus, end.children, n) /\ Pending(end.bus, end.fills)
  BY <1>8 DEF SimSound, Sim
<1>10. IsLog(end.fills) /\ Explained(end.bus, end.fills) /\ \A i \in 1 .. Len(end.fills) : end.fills[i].kind # "tick"
  BY <1>9 DEF Pending
<1>11. LogSound(end.bus \o end.fills, end.children, n)
  BY <1>9, <1>10, LogJoined
<1> QED
  BY <1>3, <1>11

-----------------------------------------------------------------------------
(* What a sound log says of a child *)

LevelAt(ticks, level0, k) == IF k = 0 THEN level0 ELSE ticks[k].level
DropAt(ticks, level0, k) ==
  Greatest(0, LevelAt(ticks, level0, k - 1) - LevelAt(ticks, level0, k) - ticks[k].trade)
IsSeen(f, ticks, level0) ==
  f = [k \in 0 .. Len(ticks) |->
         IF k = 0 THEN 0 ELSE f[k - 1] + ticks[k].trade + DropAt(ticks, level0, k)]

LEMMA TickAmounts ==
  ASSUME NEW ticks, Len(ticks) \in Nat, NEW level0 \in Nat, TicksSound(ticks, level0), NEW k \in 1 .. Len(ticks)
  PROVE  /\ ticks[k].after \in Nat /\ ticks[k].trade \in Nat /\ DropAt(ticks, level0, k) \in Nat
         /\ ticks[k].after >= AheadBefore(ticks, level0, k) - ticks[k].trade - DropAt(ticks, level0, k)
         /\ ticks[k].passed => ticks[k].after = 0
<1>1. ASSUME NEW j \in 1 .. Len(ticks)
      PROVE  TickSound(AheadBefore(ticks, level0, j), LevelBefore(ticks, level0, j), ticks[j])
  BY DEF TicksSound
<1>2. ASSUME NEW j \in 1 .. Len(ticks)
      PROVE  ticks[j].after \in Nat /\ ticks[j].level \in Nat /\ ticks[j].trade \in Nat
  BY <1>1 DEF TickSound
<1>3. k = 1 \/ k - 1 \in 1 .. Len(ticks)
  OBVIOUS
<1>4. LevelAt(ticks, level0, k - 1) = LevelBefore(ticks, level0, k) /\ LevelBefore(ticks, level0, k) \in Nat
  BY <1>2, <1>3 DEF LevelAt, LevelBefore
<1>5. LevelAt(ticks, level0, k) = ticks[k].level
  BY DEF LevelAt
<1>6. DropAt(ticks, level0, k) = Greatest(0, LevelBefore(ticks, level0, k) - ticks[k].level - ticks[k].trade)
  BY <1>4, <1>5 DEF DropAt
<1>7. DropAt(ticks, level0, k) \in Nat
  BY <1>2, <1>4, <1>6 DEF Greatest
<1> QED
  BY <1>1, <1>2, <1>6, <1>7 DEF TickSound

LEMMA SeenExists ==
  ASSUME NEW ticks, Len(ticks) \in Nat, NEW level0 \in Nat, TicksSound(ticks, level0)
  PROVE  \E f : IsSeen(f, ticks, level0)
<1> DEFINE n == Len(ticks)
           inc == [k \in 1 .. n |-> ticks[k].trade + DropAt(ticks, level0, k)]
<1>1. \A k \in 1 .. n : inc[k] \in Int
  BY TickAmounts
<1>2. \A k \in 1 .. n : inc[k] = ticks[k].trade + DropAt(ticks, level0, k)
  OBVIOUS
<1> HIDE DEF inc
<1>3. PICK h \in [0 .. n -> Int] : h[0] = 0 /\ \A k \in 1 .. n : h[k] = h[k - 1] + inc[k]
  BY <1>1, RunningSum
<1>4. ASSUME NEW k \in 0 .. n
      PROVE  h[k] = IF k = 0 THEN 0 ELSE h[k - 1] + ticks[k].trade + DropAt(ticks, level0, k)
  <2>1. CASE k = 0
    BY <1>3, <2>1
  <2>2. CASE k # 0
    <3>1. k \in 1 .. n /\ k - 1 \in 0 .. n
      BY <2>2
    <3>2. h[k - 1] \in Int /\ h[k] = h[k - 1] + inc[k] /\ inc[k] = ticks[k].trade + DropAt(ticks, level0, k)
      BY <1>2, <1>3, <3>1
    <3>3. ticks[k].trade \in Nat /\ DropAt(ticks, level0, k) \in Nat
      BY <3>1, TickAmounts
    <3> QED
      BY <2>2, <3>2, <3>3
  <2> QED
    BY <2>1, <2>2
<1>5. h = [k \in 0 .. n |-> h[k]]
  BY <1>3
<1>6. IsSeen(h, ticks, level0)
  <2>1. h = [k \in 0 .. n |-> IF k = 0 THEN 0 ELSE h[k - 1] + ticks[k].trade + DropAt(ticks, level0, k)]
    BY <1>4, <1>5
  <2> QED
    BY <2>1, Zenon DEF IsSeen
<1> QED
  BY <1>6

LEMMA SeenBounds ==
  ASSUME NEW ticks, Len(ticks) \in Nat, NEW level0 \in Nat, TicksSound(ticks, level0),
         NEW f, IsSeen(f, ticks, level0)
  PROVE  \A k \in 1 .. Len(ticks) : ticks[k].after >= level0 - f[k]
<1> DEFINE n == Len(ticks)
           Good == {k \in 0 .. n : f[k] \in Int /\ (k # 0 => ticks[k].after >= level0 - f[k])}
<1>1. \A k \in 0 .. n : f[k] = IF k = 0 THEN 0 ELSE f[k - 1] + ticks[k].trade + DropAt(ticks, level0, k)
  BY Zenon DEF IsSeen
<1>2. \A k \in 1 .. n :
         /\ ticks[k].after \in Nat /\ ticks[k].trade \in Nat /\ DropAt(ticks, level0, k) \in Nat
         /\ ticks[k].after >= AheadBefore(ticks, level0, k) - ticks[k].trade - DropAt(ticks, level0, k)
  BY TickAmounts
<1>3. n \in Nat
  OBVIOUS
<1> HIDE DEF n
<1>4. 0 \in Good
  BY <1>1, <1>3
<1>5. ASSUME NEW k \in 1 .. n, k - 1 \in Good
      PROVE  k \in Good
  <2>1. k \in 0 .. n /\ k # 0 /\ k - 1 \in 0 .. n /\ (k # 1 => k - 1 \in 1 .. n /\ k - 1 # 0)
    BY <1>3
  <2>2. f[k] = f[k - 1] + ticks[k].trade + DropAt(ticks, level0, k)
    BY <1>1, <2>1
  <2>3. f[k - 1] \in Int /\ (k - 1 # 0 => ticks[k - 1].after >= level0 - f[k - 1])
    BY <1>5
  <2>4. /\ AheadBefore(ticks, level0, k) >= level0 - f[k - 1]
        /\ AheadBefore(ticks, level0, k) \in Nat
    <3>1. CASE k = 1
      <4>1. f[0] = 0
        BY <1>1, <1>3
      <4> QED
        BY <3>1, <4>1 DEF AheadBefore
    <3>2. CASE k # 1
      BY <1>2, <2>1, <2>3, <3>2 DEF AheadBefore
    <3> QED
      BY <3>1, <3>2
  <2>5. /\ ticks[k].after \in Nat /\ ticks[k].trade \in Nat /\ DropAt(ticks, level0, k) \in Nat
        /\ ticks[k].after >= AheadBefore(ticks, level0, k) - ticks[k].trade - DropAt(ticks, level0, k)
    BY <1>2
  <2>6. f[k] \in Int /\ ticks[k].after >= level0 - f[k]
    <3> DEFINE a == AheadBefore(ticks, level0, k)
               drop == DropAt(ticks, level0, k)
               trade == ticks[k].trade
               after == ticks[k].after
               past == f[k - 1]
    <3>1. f[k] = past + trade + drop /\ past \in Int /\ a \in Nat /\ a >= level0 - past
      BY <2>2, <2>3, <2>4
    <3>2. after \in Nat /\ trade \in Nat /\ drop \in Nat /\ after >= a - trade - drop
      BY <2>5
    <3> HIDE DEF a, drop, trade, after, past
    <3>3. f[k] \in Int /\ after >= level0 - f[k]
      BY <3>1, <3>2
    <3> QED
      BY <3>3 DEF after
  <2> QED
    BY <2>1, <2>6
<1> HIDE DEF Good
<1>6. \A k \in 0 .. n : k \in Good
  BY <1>3, <1>4, <1>5, UpTo
<1>7. \A k \in 1 .. n : k \in 0 .. n /\ k # 0
  BY <1>3
<1> QED
  BY <1>6, <1>7 DEF Good, n

\* A sound log is all QueueDiscipline asks for.
LEMMA SoundLogSuffices ==
  ASSUME NEW n \in Nat, LogSound(bus, children, n)
  PROVE  QueueDiscipline
<1> SUFFICES ASSUME NEW id \in DOMAIN children
             PROVE  LET ticks  == QueryChild(bus, "tick", id)
                        level(k) == IF k = 0 THEN children[id].level0 ELSE ticks[k].level
                        drop(k)  == Greatest(0, level(k - 1) - level(k) - ticks[k].trade)
                        seen[k \in 0 .. Len(ticks)] == IF k = 0 THEN 0 ELSE seen[k - 1] + ticks[k].trade + drop(k)
                    IN /\ \A k \in DOMAIN ticks :
                            /\ ticks[k].after >= children[id].level0 - seen[k]
                            /\ ticks[k].passed => ticks[k].after = 0
                       /\ \A e \in ToSet(QueryChild(bus, "fill", id)) :
                            e.gated /\ GateEnabled(config.model) /\ Kept(id) =>
                              \E k \in DOMAIN ticks : ticks[k].at = e.at /\ ticks[k].passed
  BY Zenon DEF QueueDiscipline
<1> DEFINE ticks  == TicksOf(bus, id)
           fills  == QueryChild(bus, "fill", id)
           level0 == children[id].level0
           seen   == CHOOSE f : IsSeen(f, ticks, level0)
<1>1. id \in 1 .. n /\ IsLog(bus) /\ Told(ticks, id, children[id]) /\ Explained(bus, bus)
  BY DEF LogSound
<1>2. Len(ticks) \in Nat /\ level0 \in Nat /\ TicksSound(ticks, level0)
  BY <1>1 DEF Told, GateTyped
<1>3. DOMAIN ticks = 1 .. Len(ticks) /\ DOMAIN bus = 1 .. Len(bus) /\ Len(bus) \in Nat
  BY <1>1, TicksAreALog, LogLength
<1>4. \A k \in DOMAIN ticks : ticks[k].after >= level0 - seen[k]
  <2> HIDE DEF ticks, level0
  <2>1. IsSeen(seen, ticks, level0)
    BY <1>2, SeenExists
  <2> HIDE DEF seen
  <2> QED
    BY <1>2, <1>3, <2>1, SeenBounds
<1>5. \A k \in DOMAIN ticks : ticks[k].passed => ticks[k].after = 0
  <2> HIDE DEF ticks, level0
  <2> QED
    BY <1>2, <1>3, TickAmounts
<1>6. ASSUME NEW e \in ToSet(fills), e.gated, GateEnabled(config.model), Kept(id)
      PROVE  \E k \in DOMAIN ticks : ticks[k].at = e.at /\ ticks[k].passed
  <2>1. PICK X : bus \in Seq(X)
    BY <1>1 DEF IsLog
  <2> DEFINE theFills == {k \in DOMAIN bus : bus[k].kind = "fill" /\ bus[k].id = id}
             theTicks == {k \in DOMAIN bus : bus[k].kind = "tick" /\ bus[k].id = id}
  <2>2. fills = At(bus, theFills) /\ ticks = At(bus, theTicks)
    BY DEF QueryChild, TicksOf
  <2> HIDE DEF fills, ticks
  <2>3. DOMAIN fills = 1 .. Len(fills)
    <3>1. fills \in Seq(X)
      BY <2>1, <2>2, AtTyped
    <3> QED
      BY <3>1, LenProperties
  <2>4. PICK j \in 1 .. Len(fills) : e = fills[j]
    BY <2>3 DEF ToSet
  <2>5. PICK i \in 1 .. Len(bus) : i \in theFills /\ fills[j] = bus[i]
    <3> HIDE DEF theFills
    <3> QED
      BY <2>1, <2>2, <2>4, AtMembers
  <2>6. FillExplained(bus, e)
    BY <1>1, <2>4, <2>5 DEF Explained
  <2>7. e.kind = "fill" /\ e.id = id
    BY <2>4, <2>5
  <2>8. PICK k \in 1 .. Len(bus) : /\ bus[k].kind = "tick" /\ bus[k].id = e.id
                                   /\ bus[k].at = e.at /\ bus[k].passed
    BY <1>6, <2>6, <2>7, Zenon DEF FillExplained
  <2>9. k \in theTicks
    BY <1>3, <2>7, <2>8
  <2>10. \E j2 \in 1 .. Len(ticks) : ticks[j2] = bus[k]
    <3> HIDE DEF theTicks
    <3>1. \A i2 \in 1 .. Len(bus) : i2 \in theTicks =>
            \E j2 \in 1 .. Len(At(bus, theTicks)) : At(bus, theTicks)[j2] = bus[i2]
      BY <2>1, AtMembers
    <3> QED
      BY <2>2, <2>9, <3>1
  <2>11. PICK j2 \in 1 .. Len(ticks) : ticks[j2] = bus[k]
    BY <2>10
  <2>12. ticks[j2].at = e.at /\ ticks[j2].passed
    BY <2>8, <2>11, Zenon
  <2> QED
    BY <1>3, <2>12
<1> QED
  BY <1>4, <1>5, <1>6, Zenon DEF TicksOf, IsSeen, DropAt, LevelAt

-----------------------------------------------------------------------------
(* The steps of the venue *)

\* Every operation with the same gates, one more child, the due cancels.
LEMMA ChildrenAlike ==
  ASSUME NEW log, NEW cs, NEW n \in Nat, LogSound(log, cs, n), NEW ds, IsLog(ds), DOMAIN ds = 1 .. n,
         \A i \in 1 .. n : SameGate(ds[i], cs[i])
  PROVE  LogSound(log, ds, n)
BY ToldAlike DEF LogSound

LEMMA ChildAdded ==
  ASSUME NEW log, NEW cs, NEW n \in Nat, LogSound(log, cs, n), NEW c, GateTyped(c), ~c.queued,
         NEW e, e.kind = "submit"
  PROVE  LogSound(Emit(log, e), Append(cs, c), n + 1)
<1> DEFINE longer == Emit(log, e)
           ds     == Append(cs, c)
           id     == n + 1
<1>1. IsLog(log) /\ IsLog(cs) /\ DOMAIN cs = 1 .. n
  BY DEF LogSound
<1>2. IsLog(longer) /\ Extends(longer, log)
  BY <1>1, Emitted
<1>3. \A k \in Len(log) + 1 .. Len(longer) : longer[k] = e
  <2>1. longer = log \/ (Len(longer) = Len(log) + 1 /\ longer[Len(log) + 1] = e)
    BY <1>1, Emitted
  <2>2. Len(log) \in Nat
    BY <1>1, LogLength
  <2> HIDE DEF longer
  <2> QED
    BY <2>1, <2>2
<1>4. \A j \in 1 .. n : TicksOf(longer, j) = TicksOf(log, j)
  BY <1>1, TickEmitted
<1>5. IsLog(ds) /\ DOMAIN ds = 1 .. n + 1 /\ ds[n + 1] = c /\ \A i \in 1 .. n : ds[i] = cs[i]
  <2>1. PICK S : cs \in Seq(S)
    BY <1>1 DEF IsLog
  <2> DEFINE X == S \cup {c}
  <2>2. cs \in Seq(X) /\ c \in X
    BY <2>1, SeqMonotonic
  <2> HIDE DEF X
  <2>3. Len(cs) = n
    BY <1>1, <2>2, LenProperties
  <2> QED
    BY <2>2, <2>3, AppendProperties, LenProperties DEF IsLog
<1> HIDE DEF longer, ds
<1>6. /\ Len(log) \in Nat /\ Len(longer) \in Nat
      /\ \A k \in 1 .. Len(log) : longer[k] = log[k]
      /\ \A k \in 1 .. Len(longer) : k \in 1 .. Len(log) \/ k \in Len(log) + 1 .. Len(longer)
  BY <1>2 DEF Extends
<1>7. TicksOfChildren(longer, n)
  <2> SUFFICES ASSUME NEW k \in 1 .. Len(longer), longer[k].kind = "tick"
               PROVE  longer[k].id \in 1 .. n
    BY DEF TicksOfChildren
  <2>1. \A j \in 1 .. Len(log) : log[j].kind = "tick" => log[j].id \in 1 .. n
    BY DEF LogSound, TicksOfChildren
  <2> QED
    BY <1>3, <1>6, <2>1
<1>8. TicksOf(longer, id) = << >>
  <2>1. << >> \in Seq({}) /\ Len(<< >>) = 0 /\ IsLog(<< >>) /\ DOMAIN << >> = 1 .. 0
    <3>1. << >> \in Seq({}) /\ Len(<< >>) = 0
      BY EmptySeq
    <3> QED
      BY <3>1, LenProperties DEF IsLog
  <2>2. Extends(longer, << >>)
    BY <1>2, <2>1 DEF Extends
  <2>3. \A k \in 1 .. Len(longer) : longer[k].kind = "tick" /\ longer[k].id = id => k <= Len(<< >>)
    BY <1>7 DEF TicksOfChildren
  <2>4. TicksOf(longer, id) = TicksOf(<< >>, id)
    BY <1>2, <2>1, <2>2, <2>3, OtherEvents
  <2>5. TicksOf(<< >>, id) = << >>
    BY AtEmpty DEF TicksOf, QueryChild
  <2> QED
    BY <2>4, <2>5
<1>9. \A j \in 1 .. n + 1 : Told(TicksOf(longer, j), j, ds[j])
  <2>1. Told(TicksOf(longer, id), id, c)
    <3>1. Len(<< >>) = 0
      BY EmptySeq
    <3>2. TicksSound(<< >>, c.level0)
      BY <3>1 DEF TicksSound
    <3>3. Told(<< >>, id, c)
      BY <3>1, <3>2 DEF Told
    <3> QED
      BY <1>8, <3>3
  <2>2. ASSUME NEW j \in 1 .. n
        PROVE  Told(TicksOf(longer, j), j, ds[j])
    <3>1. Told(TicksOf(log, j), j, cs[j])
      BY DEF LogSound
    <3> QED
      BY <1>4, <1>5, <3>1
  <2>3. \A j \in 1 .. n + 1 : j \in 1 .. n \/ j = id
    OBVIOUS
  <2> QED
    BY <1>5, <2>1, <2>2, <2>3
<1>10. Explained(longer, longer)
  <2> SUFFICES ASSUME NEW k \in 1 .. Len(longer)
               PROVE  FillExplained(longer, longer[k])
    BY DEF Explained
  <2>1. \A j \in 1 .. Len(log) : FillExplained(log, log[j])
    BY DEF LogSound, Explained
  <2>2. FillExplained(log, e)
    BY DEF FillExplained
  <2>3. FillExplained(log, longer[k])
    BY <1>3, <1>6, <2>1, <2>2
  <2> QED
    BY <1>2, <2>3, StillExplained
<1>11. TicksOfChildren(longer, n + 1)
  <2>1. \A j \in 1 .. n : j \in 1 .. n + 1
    OBVIOUS
  <2> QED
    BY <1>7, <2>1, Zenon DEF TicksOfChildren
<1>12. LogSound(longer, ds, n + 1)
  BY <1>2, <1>5, <1>9, <1>10, <1>11 DEF LogSound
<1> QED
  BY <1>12 DEF longer, ds

\* The price of every child is a number.
LEMMA BestTyped ==
  ASSUME NEW book, IsSnapshot(book)
  PROVE  BestBid(book) \in Nat /\ BestAsk(book) \in Nat
<1>1. ASSUME NEW levels \in Seq(Level), levels # << >>
      PROVE  Head(levels).price \in Nat
  <2>1. Head(levels) \in Level
    BY <1>1, HeadTailProperties
  <2> QED
    BY <2>1 DEF Level
<1> QED
  BY <1>1 DEF IsSnapshot, BestBid, BestAsk, NoPrice

LEMMA PlacedPriced ==
  ASSUME NEW policy \in Policies, NEW mode, NEW side, NEW book, IsSnapshot(book)
  PROVE  PlacedChild(Resolve(policy, mode), side, book).price \in Int
<1>1. BestBid(book) \in Int /\ BestAsk(book) \in Int
  BY BestTyped
<1>2. OffsetTicks \in Int /\ TickSize \in Int /\ NoPrice \in Int
  BY SlicingAssumption DEF NoPrice
<1>3. ASSUME NEW offset \in Int
      PROVE  PassiveChild(side, book, offset).price \in Int
  BY <1>1, <1>2 DEF PassiveChild, MakeChild
<1>4. AggressiveChild(side, book, TRUE).price \in Int /\ AggressiveChild(side, book, FALSE).price \in Int
  BY <1>1, <1>2 DEF AggressiveChild, MakeChild
<1>5. AdaptiveChild(side, book).price \in Int
  <2> DEFINE placed == IF IsAggressive(side, book) THEN AggressiveChild(side, book, FALSE)
                       ELSE PassiveChild(side, book, 0)
  <2>1. placed.price \in Int
    <3>1. PassiveChild(side, book, 0).price \in Int
      BY <1>3
    <3>2. placed = AggressiveChild(side, book, FALSE) \/ placed = PassiveChild(side, book, 0)
      OBVIOUS
    <3> QED
      BY <1>4, <3>1, <3>2
  <2>2. placed = [type |-> placed.type, tif |-> placed.tif, price |-> placed.price, policy |-> placed.policy]
    BY DEF AggressiveChild, PassiveChild, MakeChild
  <2>3. AdaptiveChild(side, book) = [placed EXCEPT !.policy = "SpreadAdaptivePlacement"]
    BY Zenon DEF AdaptiveChild
  <2> HIDE DEF placed
  <2>4. AdaptiveChild(side, book).price = placed.price
    BY <2>2, <2>3
  <2> QED
    BY <2>1, <2>4
<1>6. Resolve(policy, mode) \in {"passive", "joining", "adaptive", "aggressive", "market"}
  <2>1. policy \in {"passive", "adaptive", "aggressive", "market"}
    BY VenueAssumption
  <2> QED
    BY <2>1 DEF Resolve
<1>7. ASSUME NEW p \in {"passive", "joining", "adaptive", "aggressive", "market"}
      PROVE  PlacedChild(p, side, book).price \in Int
  <2>1. /\ p = "passive" => PlacedChild(p, side, book) = PassiveChild(side, book, OffsetTicks)
        /\ p = "joining" => PlacedChild(p, side, book) = PassiveChild(side, book, 0)
        /\ p = "adaptive" => PlacedChild(p, side, book) = AdaptiveChild(side, book)
        /\ p = "aggressive" => PlacedChild(p, side, book) = AggressiveChild(side, book, FALSE)
        /\ p = "market" => PlacedChild(p, side, book) = AggressiveChild(side, book, TRUE)
    BY DEF PlacedChild
  <2>2. PassiveChild(side, book, OffsetTicks).price \in Int /\ PassiveChild(side, book, 0).price \in Int
    BY <1>2, <1>3
  <2> QED
    BY <1>4, <1>5, <2>1, <2>2, Zenon
<1> QED
  BY <1>6, <1>7

\* The numbers of some children, in a list.
LEMMA ListedNames ==
  ASSUME NEW n \in Nat, IsLog(children), DOMAIN children = 1 .. n, NEW ids
  PROVE  /\ Listed(ids) \in Seq(Nat)
         /\ \A k \in 1 .. Len(Listed(ids)) : Listed(ids)[k] \in 1 .. n /\ Listed(ids)[k] \in ids
<1> DEFINE numbers == [i \in DOMAIN children |-> i]
<1>1. numbers \in Seq(Nat) /\ Len(numbers) = n /\ \A i \in 1 .. n : numbers[i] = i
  <2> DEFINE itself(i) == i
  <2>1. \A i \in 1 .. n : itself(i) \in Nat
    OBVIOUS
  <2>2. [i \in 1 .. n |-> itself(i)] \in Seq(Nat)
    <3> HIDE DEF itself
    <3> QED
      BY <2>1, IsASeq
  <2>3. numbers \in Seq(Nat)
    BY <2>2
  <2>4. DOMAIN numbers = 1 .. n /\ \A i \in 1 .. n : numbers[i] = i
    OBVIOUS
  <2> HIDE DEF numbers
  <2>5. Len(numbers) = n
    BY <2>3, <2>4, LenProperties
  <2> QED
    BY <2>3, <2>4, <2>5
<1>2. Listed(ids) = At(numbers, ids)
  BY DEF Listed
<1> HIDE DEF numbers
<1>3. At(numbers, ids) \in Seq(Nat)
  BY <1>1, AtTyped
<1>4. \A k \in 1 .. Len(At(numbers, ids)) :
        \E i \in 1 .. Len(numbers) : i \in ids /\ At(numbers, ids)[k] = numbers[i]
  BY <1>1, AtMembers
<1>5. \A k \in 1 .. Len(At(numbers, ids)) : At(numbers, ids)[k] \in 1 .. n /\ At(numbers, ids)[k] \in ids
  BY <1>1, <1>4
<1> QED
  BY <1>2, <1>3, <1>5

\* The due cancels and the requests for others change no gate.
LEMMA SettledSound ==
  ASSUME NEW n \in Nat, LogSound(bus, children, n), NEW now, NEW asked, NEW delay
  PROVE  LogSound(bus, Settled(now, asked, delay), n)
<1> DEFINE at(i) == IF IsActive(children[i]) /\ CancelDue(children[i], now) THEN Cancelled(children[i])
                    ELSE IF i \in asked THEN Asked(children[i], now, delay[i]) ELSE children[i]
           cs == Settled(now, asked, delay)
<1>1. IsLog(children) /\ DOMAIN children = 1 .. n /\ \A i \in 1 .. n : GateTyped(children[i])
  BY DEF LogSound, Told
<1>2. cs = [i \in 1 .. n |-> at(i)]
  BY <1>1 DEF Settled
<1>3. ASSUME NEW i \in 1 .. n
      PROVE  SameGate(at(i), children[i])
  <2> DEFINE c == children[i]
  <2>1. GateTyped(c)
    BY <1>1
  <2> HIDE DEF c
  <2>2. SameGate(Cancelled(c), c) /\ SameGate(c, c)
    BY <2>1 DEF GateTyped, GateFields, SameGate, Cancelled
  <2>3. SameGate(Asked(c, now, delay[i]), c)
    BY <2>1 DEF GateTyped, GateFields, SameGate, Asked
  <2> QED
    BY <2>2, <2>3 DEF c
<1> DEFINE X == {at(i) : i \in 1 .. n}
<1>4. \A i \in 1 .. n : at(i) \in X
  OBVIOUS
<1> HIDE DEF at, X
<1>5. [i \in 1 .. n |-> at(i)] \in Seq(X)
  BY <1>4, IsASeq
<1> HIDE DEF cs
<1>6. IsLog(cs) /\ DOMAIN cs = 1 .. n
  BY <1>2, <1>5 DEF IsLog
<1>7. \A i \in 1 .. n : SameGate(cs[i], children[i])
  BY <1>2, <1>3
<1>8. LogSound(bus, cs, n)
  BY <1>6, <1>7, ChildrenAlike
<1> QED
  BY <1>8 DEF cs

LEMMA CancelEventsSound ==
  ASSUME NEW n \in Nat, IsLog(children), DOMAIN children = 1 .. n, NEW cs, LogSound(bus, cs, n), NEW asked, NEW m
  PROVE  LogSound(CancelEvents(asked, cs, m), cs, n)
<1> DEFINE ids == Listed(asked)
           event(k) == CancelEvent(ids[k], cs[ids[k]], m)
           more == [k \in 1 .. Len(ids) |-> event(k)]
           X == {event(k) : k \in 1 .. Len(ids)}
<1>1. ids \in Seq(Nat)
  BY ListedNames
<1>2. Len(ids) \in Nat /\ DOMAIN ids = 1 .. Len(ids)
  BY <1>1, LenProperties
<1>3. CancelEvents(asked, cs, m) = bus \o more
  BY <1>2 DEF CancelEvents
<1>4. \A k \in 1 .. Len(ids) : event(k) \in X /\ event(k).kind = "cancel"
  BY DEF CancelEvent
<1> HIDE DEF event, X, ids
<1>5. more \in Seq(X)
  BY <1>2, <1>4, IsASeq
<1>6. Len(more) = Len(ids) /\ \A k \in 1 .. Len(ids) : more[k] = event(k)
  <2>1. DOMAIN more = 1 .. Len(ids) /\ \A k \in 1 .. Len(ids) : more[k] = event(k)
    OBVIOUS
  <2> HIDE DEF more
  <2> QED
    BY <1>2, <1>5, <2>1, LenProperties
<1> HIDE DEF more
<1>7. \A k \in 1 .. Len(more) : more[k].kind = "cancel"
  BY <1>4, <1>6
<1>8. IsLog(more) /\ Explained(bus, more) /\ \A k \in 1 .. Len(more) : more[k].kind # "tick"
  BY <1>5, <1>7 DEF IsLog, Explained, FillExplained
<1>9. LogSound(bus \o more, cs, n)
  BY <1>8, LogJoined
<1> QED
  BY <1>3, <1>9

-----------------------------------------------------------------------------
(* The queue in front of a child is only taken by what was seen *)

BookAndTape == market.state # << >> => market.state[1] \in Books /\ market.state[2] \in Tapes
LogIsSound  == \E n \in Nat : LogSound(bus, children, n)
QueueInv    == BookAndTape /\ LogIsSound

LEMMA StatesTyped ==
  ASSUME NEW book \in Books, NEW tape \in Tapes
  PROVE  IsSnapshot(book) /\ IsTape(tape)
BY VenueAssumption DEF IsSnapshot, IsTape

LEMMA DrawsTyped ==
  ASSUME NEW ids, NEW draw \in RandomOf(ids), NEW i \in ids
  PROVE  draw[i] \in 0 .. Units - 1
<1>1. draw[i] \in Draws \/ draw[i] = 0
  BY DEF RandomOf
<1>2. Draws \subseteq 0 .. Units - 1 /\ 0 \in 0 .. Units - 1
  BY VenueAssumption, QueueAssumption
<1> QED
  BY <1>1, <1>2

LEMMA QueueInit == Init => QueueInv
<1> SUFFICES ASSUME Init PROVE QueueInv
  OBVIOUS
<1>1. BookAndTape
  <2>1. PICK book \in Quoted, tape \in Tapes : market.state = << book, tape >>
    BY DEF Init
  <2> QED
    BY <2>1 DEF BookAndTape, Quoted
<1>2. children = << >> /\ bus = << >>
  BY DEF Init
<1>3. << >> \in Seq({}) /\ Len(<< >>) = 0
  BY EmptySeq
<1>4. IsLog(<< >>) /\ DOMAIN << >> = 1 .. 0
  BY <1>3, LenProperties DEF IsLog
<1>5. LogSound(<< >>, << >>, 0)
  BY <1>3, <1>4 DEF LogSound, Explained, TicksOfChildren
<1> QED
  BY <1>1, <1>2, <1>5 DEF QueueInv, LogIsSound

LEMMA SubmitSound ==
  ASSUME QueueInv, Submit
  PROVE  \E n \in Nat : LogSound(bus', children', n)
<1>1. PICK n \in Nat : LogSound(bus, children, n)
  BY DEF QueueInv, LogIsSound
<1> DEFINE id == Len(children) + 1
           m  == [now |-> market.now, tick |-> market.tick,
                  book |-> market.state[1], tape |-> market.state[2]]
<1>2. id = n + 1
  <2>1. IsLog(children) /\ DOMAIN children = 1 .. n
    BY <1>1 DEF LogSound
  <2> QED
    BY <2>1, LenProperties DEF IsLog
<1>3. IsSnapshot(m.book) /\ IsTape(m.tape)
  <2>1. market.state[1] \in Books /\ market.state[2] \in Tapes
    BY DEF Submit, QueueInv, BookAndTape
  <2> QED
    BY <2>1, StatesTyped
<1>4. PICK qty \in 1 .. OrderQty - filled - InFlight, policy \in Policies, mode \in Modes,
           submit \in Sample(SubmitBase), ack \in Sample(AckBase), draw \in RandomOf({id}) :
          LET placed == PlacedChild(Resolve(policy, mode), config.side, m.book)
              child  == Registered(NewChild(placed, mode, qty), m.now, submit, ack)
          IN SimulateFills(<<id>>, Append(children, child), Emit(bus, SubmitEvent(id, child)), diag, m, draw)
  BY Zenon DEF Submit
<1> DEFINE placed == PlacedChild(Resolve(policy, mode), config.side, m.book)
           new    == NewChild(placed, mode, qty)
           child  == Registered(new, m.now, submit, ack)
           event  == SubmitEvent(id, child)
<1>5. SimulateFills(<<id>>, Append(children, child), Emit(bus, event), diag, m, draw)
  BY <1>4, Zenon
<1>6. placed.price \in Int
  BY <1>3, PlacedPriced
<1> HIDE DEF placed, m
<1>7. GateTyped(new) /\ ~new.queued
  BY <1>6 DEF NewChild, GateTyped, GateFields
<1> HIDE DEF new
<1>8. GateTyped(child) /\ ~child.queued
  BY <1>7 DEF Registered, GateTyped, GateFields
<1>9. event.kind = "submit"
  BY DEF SubmitEvent
<1> HIDE DEF child, event
<1>10. LogSound(Emit(bus, event), Append(children, child), n + 1)
  BY <1>1, <1>8, <1>9, ChildAdded
<1>11. Names(<<id>>, n + 1, draw)
  <2>1. draw[id] \in 0 .. Units - 1
    BY DrawsTyped
  <2> HIDE DEF id
  <2> QED
    BY <1>2, <2>1 DEF Names
<1> HIDE DEF id
<1>12. n + 1 \in Nat
  OBVIOUS
<1>13. LogSound(bus', children', n + 1)
  BY <1>3, <1>5, <1>10, <1>11, <1>12, SimulateFillsSound
<1> QED
  BY <1>12, <1>13

LEMMA NextStateSound ==
  ASSUME QueueInv, NextState
  PROVE  \E n \in Nat : LogSound(bus', children', n)
<1>1. PICK n \in Nat : LogSound(bus, children, n)
  BY DEF QueueInv, LogIsSound
<1>2. IsLog(children) /\ DOMAIN children = 1 .. n
  BY <1>1 DEF LogSound
<1>3. PICK book \in Books, tape \in Tapes, gap \in Gaps :
       LET m == [now |-> market.now + gap, tick |-> market.tick + 1, book |-> book, tape |-> tape]
           live  == Live(m.now)
           waits == {i \in live : children[i].cancelPending \/ children[i].status = "PENDING"}
           ids   == Listed(waits) \o Listed(live \ waits)
       IN /\ \E asked \in SUBSET (live \ waits) :
               \E delay \in [asked -> Sample(CancelBase)], draw \in RandomOf(live) :
                 LET cs == Settled(m.now, asked, delay)
                 IN SimulateFills(ids, cs, CancelEvents(asked, cs, m), Finalised(m.now), m, draw)
          /\ market' = [now |-> m.now, tick |-> m.tick,
                        state |-> IF HasMid(book) /\ CanSlice(children', filled')
                                  THEN << book, tape >> ELSE <<>>]
  BY Zenon DEF NextState
<1> DEFINE m == [now |-> market.now + gap, tick |-> market.tick + 1, book |-> book, tape |-> tape]
           live  == Live(m.now)
           waits == {i \in live : children[i].cancelPending \/ children[i].status = "PENDING"}
           rest  == live \ waits
           ids   == Listed(waits) \o Listed(rest)
<1>4. PICK asked \in SUBSET rest :
        \E delay \in [asked -> Sample(CancelBase)], draw \in RandomOf(live) :
          LET cs == Settled(m.now, asked, delay)
          IN SimulateFills(ids, cs, CancelEvents(asked, cs, m), Finalised(m.now), m, draw)
  BY <1>3, Zenon
<1>5. PICK delay \in [asked -> Sample(CancelBase)], draw \in RandomOf(live) :
          LET cs == Settled(m.now, asked, delay)
          IN SimulateFills(ids, cs, CancelEvents(asked, cs, m), Finalised(m.now), m, draw)
  BY <1>4, Zenon
<1> DEFINE cs == Settled(m.now, asked, delay)
           log == CancelEvents(asked, cs, m)
           counts == Finalised(m.now)
<1>6. SimulateFills(ids, cs, log, counts, m, draw)
  BY <1>5, Zenon
<1>7. IsSnapshot(m.book) /\ IsTape(m.tape)
  BY StatesTyped
<1>8. waits \subseteq live /\ rest \subseteq live
  OBVIOUS
<1> HIDE DEF m, live, waits, rest, counts
<1>9. LogSound(bus, cs, n)
  BY <1>1, SettledSound
<1> HIDE DEF cs
<1>10. LogSound(log, cs, n)
  BY <1>2, <1>9, CancelEventsSound
<1> HIDE DEF log
<1>11. Names(ids, n, draw)
  <2> DEFINE a == Listed(waits)
             b == Listed(rest)
  <2>1. /\ a \in Seq(Nat) /\ \A k \in 1 .. Len(a) : a[k] \in 1 .. n /\ a[k] \in live
        /\ b \in Seq(Nat) /\ \A k \in 1 .. Len(b) : b[k] \in 1 .. n /\ b[k] \in live
    BY <1>2, <1>8, ListedNames
  <2> HIDE DEF a, b
  <2>2. /\ Len(a) \in Nat /\ Len(b) \in Nat /\ Len(a \o b) = Len(a) + Len(b)
        /\ \A k \in 1 .. Len(a \o b) : (a \o b)[k] = IF k <= Len(a) THEN a[k] ELSE b[k - Len(a)]
    BY <2>1, ConcatProperties, LenProperties
  <2>3. \A k \in 1 .. Len(a \o b) : (a \o b)[k] \in 1 .. n /\ (a \o b)[k] \in live
    <3> SUFFICES ASSUME NEW k \in 1 .. Len(a \o b)
                 PROVE  (a \o b)[k] \in 1 .. n /\ (a \o b)[k] \in live
      OBVIOUS
    <3>1. CASE k <= Len(a)
      BY <2>1, <2>2, <3>1
    <3>2. CASE ~(k <= Len(a))
      <4>1. k - Len(a) \in 1 .. Len(b)
        BY <2>2, <3>2
      <4> QED
        BY <2>1, <2>2, <3>2, <4>1
    <3> QED
      BY <3>1, <3>2
  <2>4. \A k \in 1 .. Len(a \o b) : draw[(a \o b)[k]] \in 0 .. Units - 1
    BY <2>3, DrawsTyped
  <2>5. Names(a \o b, n, draw)
    BY <2>2, <2>3, <2>4 DEF Names
  <2> QED
    BY <2>5 DEF a, b
<1> HIDE DEF ids
<1>12. LogSound(bus', children', n)
  BY <1>6, <1>7, <1>10, <1>11, SimulateFillsSound
<1> QED
  BY <1>12

LEMMA HaltedStateSound ==
  ASSUME QueueInv, HaltedState
  PROVE  \E n \in Nat : LogSound(bus', children', n)
<1>1. PICK n \in Nat : LogSound(bus, children, n)
  BY DEF QueueInv, LogIsSound
<1>2. IsLog(children) /\ DOMAIN children = 1 .. n
  BY <1>1 DEF LogSound
<1>3. PICK gap \in Gaps :
       LET m == [now |-> market.now + gap, tick |-> market.tick + 1]
       IN \E asked \in {{}, Live(m.now)} :
            \E delay \in [asked -> Sample(CancelBase)] :
              LET cs == Settled(m.now, asked, delay)
              IN children' = cs /\ bus' = CancelEvents(asked, cs, m)
  BY Zenon DEF HaltedState
<1> DEFINE m == [now |-> market.now + gap, tick |-> market.tick + 1]
<1>4. \E asked, delay : /\ children' = Settled(m.now, asked, delay)
                        /\ bus' = CancelEvents(asked, Settled(m.now, asked, delay), m)
  BY <1>3, Zenon
<1>5. PICK asked, delay : /\ children' = Settled(m.now, asked, delay)
                          /\ bus' = CancelEvents(asked, Settled(m.now, asked, delay), m)
  BY <1>4, Zenon
<1> HIDE DEF m
<1>6. LogSound(bus, Settled(m.now, asked, delay), n)
  BY <1>1, SettledSound
<1>7. LogSound(CancelEvents(asked, Settled(m.now, asked, delay), m), Settled(m.now, asked, delay), n)
  BY <1>2, <1>6, CancelEventsSound
<1> QED
  BY <1>5, <1>7

LEMMA QueueStep == QueueInv /\ [Next]_vars => QueueInv'
<1> SUFFICES ASSUME QueueInv, [Next]_vars PROVE QueueInv'
  OBVIOUS
<1>1. config' = config
  BY DEF Next, vars, Submit, NoSlice, NextState, HaltedState, Finished
<1>2. BookAndTape'
  <2>1. CASE Submit \/ NoSlice
    <3>1. market'.state = << >>
      <4>1. market' = [market EXCEPT !.state = <<>>]
        BY <2>1 DEF Submit, NoSlice
      <4> QED
        BY <4>1
    <3> QED
      BY <3>1 DEF BookAndTape
  <2>2. CASE NextState
    <3>1. \E book \in Books, tape \in Tapes : market'.state = << >> \/ market'.state = << book, tape >>
      BY <2>2 DEF NextState
    <3> QED
      BY <3>1 DEF BookAndTape
  <2>3. CASE HaltedState
    <3>1. market'.state = << >>
      BY <2>3 DEF HaltedState
    <3> QED
      BY <3>1 DEF BookAndTape
  <2>4. CASE Finished \/ UNCHANGED vars
    BY <2>4 DEF Finished, vars, QueueInv, BookAndTape
  <2> QED
    BY <2>1, <2>2, <2>3, <2>4 DEF Next
<1>3. \E n \in Nat : LogSound(bus', children', n)
  <2>1. CASE UNCHANGED << children, bus >>
    BY <2>1 DEF QueueInv, LogIsSound
  <2>2. Submit \/ NextState \/ HaltedState \/ UNCHANGED << children, bus >>
    BY DEF Next, NoSlice, Finished, vars
  <2> QED
    BY <2>1, <2>2, SubmitSound, NextStateSound, HaltedStateSound
<1>4. LogIsSound'
  <2>1. PICK n \in Nat : LogSound(bus', children', n)
    BY <1>3
  <2>3. LogSound(bus, children, n)'
    BY <1>1, <2>1 DEF LogSound, Explained, FillExplained
  <2> QED
    BY <2>3 DEF LogIsSound
<1> QED
  BY <1>2, <1>4 DEF QueueInv

\* Nothing but trades at its price and drops of its level that they do not
\* explain takes the queue ahead of a child, an open gate has none ahead, and a
\* gated fill has an open gate (_advance_queue_and_ready, simulate_fills).
THEOREM QueueIsDisciplined == Spec => []QueueDiscipline
<1>1. QueueInv => QueueDiscipline
  BY SoundLogSuffices DEF QueueInv, LogIsSound
<1> QED
  BY <1>1, QueueInit, QueueStep, PTL DEF Spec
-----------------------------------------------------------------------------
(* The schedules of the slicing policies *)

Slices == [step : Int, qty : Nat]
Quantities(schedule) == [i \in DOMAIN schedule |-> schedule[i].qty]
Planned(schedule) == Started(0, Quantities(schedule))

LEMMA QuantitiesTyped ==
  ASSUME NEW schedule \in Seq(Slices)
  PROVE  /\ Quantities(schedule) \in Seq(Int) /\ Len(Quantities(schedule)) = Len(schedule)
         /\ Len(schedule) \in Nat /\ DOMAIN schedule = 1 .. Len(schedule)
         /\ \A i \in 1 .. Len(schedule) : Quantities(schedule)[i] = schedule[i].qty /\ schedule[i].qty \in Nat
         /\ \A i \in 1 .. Len(schedule) : schedule[i] \in Slices
<1>1. Len(schedule) \in Nat /\ DOMAIN schedule = 1 .. Len(schedule)
      /\ \A i \in 1 .. Len(schedule) : schedule[i] \in Slices
  BY LenProperties, ElementOfSeq
<1>2. \A i \in 1 .. Len(schedule) : schedule[i].qty \in Nat
  BY <1>1 DEF Slices
<1>3. Quantities(schedule) \in [1 .. Len(schedule) -> Int]
  BY <1>1, <1>2 DEF Quantities
<1>4. Quantities(schedule) \in Seq(Int) /\ Len(Quantities(schedule)) = Len(schedule)
  BY <1>1, <1>3
<1>5. \A i \in 1 .. Len(schedule) : Quantities(schedule)[i] = schedule[i].qty
  BY <1>1 DEF Quantities
<1> QED
  BY <1>1, <1>2, <1>4, <1>5

LEMMA PlannedAppend ==
  ASSUME NEW schedule \in Seq(Slices), NEW slice \in Slices
  PROVE  Planned(Append(schedule, slice)) = Planned(schedule) + slice.qty /\ Planned(schedule) \in Int
<1> DEFINE n == Len(schedule)
           longer == Append(schedule, slice)
           q == Quantities(schedule)
<1>1. /\ n \in Nat /\ longer \in Seq(Slices) /\ Len(longer) = n + 1
      /\ longer[n + 1] = slice /\ \A i \in 1 .. n : longer[i] = schedule[i]
  BY AppendProperties, LenProperties
<1>2. q \in Seq(Int) /\ Len(q) = n /\ \A i \in 1 .. n : q[i] = schedule[i].qty
  BY QuantitiesTyped
<1>3. slice.qty \in Int
  BY DEF Slices
<1> HIDE DEF longer, q, n
<1>4. Quantities(longer) = Append(q, slice.qty)
  <2>1. /\ Quantities(longer) \in Seq(Int) /\ Len(Quantities(longer)) = n + 1
        /\ \A i \in 1 .. n + 1 : Quantities(longer)[i] = longer[i].qty
    BY <1>1, QuantitiesTyped
  <2>2. /\ Append(q, slice.qty) \in Seq(Int) /\ Len(Append(q, slice.qty)) = n + 1
        /\ Append(q, slice.qty)[n + 1] = slice.qty /\ \A i \in 1 .. n : Append(q, slice.qty)[i] = q[i]
    BY <1>2, <1>3, AppendProperties
  <2>3. \A i \in 1 .. n + 1 : i \in 1 .. n \/ i = n + 1
    BY <1>1
  <2>4. \A i \in 1 .. n + 1 : Quantities(longer)[i] = Append(q, slice.qty)[i]
    BY <1>1, <1>2, <2>1, <2>2, <2>3
  <2> DEFINE some == Append(q, slice.qty)
             other == Quantities(longer)
  <2>5. some \in Seq(Int) /\ other \in Seq(Int) /\ Len(some) = Len(other) /\ \A i \in 1 .. Len(some) : some[i] = other[i]
    BY <2>1, <2>2, <2>4
  <2> HIDE DEF some, other
  <2>6. some = other
    BY <2>5, SeqEqual
  <2> QED
    BY <2>6 DEF some, other
<1>5. Started(0, Append(q, slice.qty)) = Started(0, q) + slice.qty /\ Started(0, q) \in Int
  <2>1. 0 \in Int
    OBVIOUS
  <2> QED
    BY <1>2, <1>3, <2>1, StartedAppend, Zenon
<1> QED
  BY <1>4, <1>5 DEF Planned, longer, q

\* Leaving the empty slices out leaves the quantity as it is.
LEMMA NonEmptyPlans ==
  ASSUME NEW schedule \in Seq(Slices)
  PROVE  Planned(NonEmpty(schedule)) = Planned(schedule)
<1> DEFINE n == Len(schedule)
           kept == {i \in DOMAIN schedule : schedule[i].qty > 0}
           q == Quantities(schedule)
<1>1. /\ n \in Nat /\ q \in Seq(Int) /\ Len(q) = n /\ DOMAIN schedule = 1 .. n
      /\ \A i \in 1 .. n : q[i] = schedule[i].qty /\ schedule[i].qty \in Nat /\ schedule[i] \in Slices
  BY QuantitiesTyped
<1>2. PICK some \in [0 .. n -> Seq(Slices)] :
        IsKept(schedule, kept, some) /\ At(schedule, kept) = some[n]
  BY AtKept
<1>3. some[0] = << >> /\ \A k \in 1 .. n : KeepsStep(kept, schedule, some, k)
  BY <1>1, <1>2, KeptSteps
<1> DEFINE W == [k \in 0 .. n |-> Planned(some[k])]
<1>4. Runs(W, 0, q)
  <2>1. W[0] = 0
    <3>1. Quantities(<< >>) = << >>
      BY DEF Quantities
    <3>2. Planned(<< >>) = 0
      BY <3>1, StartedEmpty DEF Planned
    <3> QED
      BY <1>1, <1>3, <3>2
  <2>2. ASSUME NEW k \in 1 .. n
        PROVE  W[k] = W[k - 1] + q[k]
    <3>1. k \in 0 .. n /\ k - 1 \in 0 .. n
      BY <1>1
    <3>2. W[k] = Planned(some[k]) /\ W[k - 1] = Planned(some[k - 1]) /\ some[k - 1] \in Seq(Slices)
      BY <1>2, <3>1
    <3>3. some[k] = IF k \in kept THEN Append(some[k - 1], schedule[k]) ELSE some[k - 1]
      BY <1>3 DEF KeepsStep
    <3>4. schedule[k] \in Slices /\ q[k] = schedule[k].qty /\ q[k] \in Nat /\ (k \in kept <=> q[k] > 0)
      BY <1>1
    <3>5. Planned(Append(some[k - 1], schedule[k])) = Planned(some[k - 1]) + schedule[k].qty
          /\ Planned(some[k - 1]) \in Int
      BY <3>2, <3>4, PlannedAppend
    <3> HIDE DEF W, kept, q
    <3> QED
      BY <3>2, <3>3, <3>4, <3>5
  <2> HIDE DEF W, q
  <2> QED
    BY <1>1, <2>1, <2>2 DEF Runs
<1>5. W[n] = Planned(At(schedule, kept))
  <2>1. n \in 0 .. n
    BY <1>1
  <2> QED
    BY <1>2, <2>1
<1> HIDE DEF W, q
<1>6. Started(0, q) = W[n]
  BY <1>1, <1>4, StartedRuns
<1> QED
  BY <1>5, <1>6 DEF NonEmpty, Planned, q

\* A plan over increasing states of the horizon, without its empty slices.
Spread(schedule, steps) ==
  \A i \in 1 .. Len(schedule) : /\ schedule[i].step \in 1 .. steps
                                /\ \A j \in 1 .. Len(schedule) : i < j => schedule[i].step < schedule[j].step

LEMMA NonEmptyWhole ==
  ASSUME NEW schedule \in Seq(Slices), NEW steps \in Nat, Spread(schedule, steps)
  PROVE  IsWhole(NonEmpty(schedule), Planned(schedule), steps) /\ NonEmpty(schedule) \in Seq(Slices)
         /\ \A total : total = Planned(schedule) => IsWhole(NonEmpty(schedule), total, steps)
<1> DEFINE n == Len(schedule)
           kept == {i \in DOMAIN schedule : schedule[i].qty > 0}
           some == NonEmpty(schedule)
<1>1. n \in Nat /\ DOMAIN schedule = 1 .. n
  BY QuantitiesTyped
<1>2. some = At(schedule, kept)
  BY DEF NonEmpty
<1>3. some \in Seq(Slices)
  BY <1>2, AtTyped
<1>4. PICK place : Places(schedule, n, kept, some, place)
  BY <1>2, AtPlaces
<1>5. Len(some) \in Nat /\ DOMAIN some = 1 .. Len(some)
  BY <1>3, LenProperties
<1>6. Planned(some) = Planned(schedule)
  BY NonEmptyPlans
<1> HIDE DEF some, n
<1>7. \A i \in 1 .. Len(some) : place[i] \in 1 .. n /\ place[i] \in kept /\ some[i] = schedule[place[i]]
  BY <1>4 DEF Places
<1>8. \A i \in 1 .. Len(some) : some[i].qty > 0 /\ some[i].step \in 1 .. steps
  BY <1>7 DEF Spread, n
<1>9. ASSUME NEW i \in 2 .. Len(some)
      PROVE  some[i - 1].step < some[i].step
  <2>1. i - 1 \in 1 .. Len(some) /\ i \in 1 .. Len(some) /\ i - 1 < i
    BY <1>5
  <2>2. place[i - 1] < place[i]
    BY <1>4, <2>1 DEF Places
  <2> QED
    BY <1>7, <2>1, <2>2 DEF Spread, n
<1>10. FoldLeft(+, 0, [i \in DOMAIN some |-> some[i].qty]) = Planned(some)
  BY Zenon DEF Planned, Quantities, Started
<1>11. IsWhole(some, Planned(schedule), steps)
  BY <1>5, <1>6, <1>8, <1>9, <1>10 DEF IsWhole
<1> QED
  BY <1>3, <1>11 DEF some

\* More than one whole is more after rounding, also where ties go to the even
\* neighbour.
LEMMA RoundedApart ==
  ASSUME NEW a \in Int, NEW b \in Int, NEW d \in Nat \ {0}, a + d < b
  PROVE  Rounded(a, d) < Rounded(b, d) /\ Rounded(a, d) \in Int /\ Rounded(b, d) \in Int
<1> DEFINE q == a \div d
           r == a % d
           u == b \div d
           v == b % d
<1>1. q \in Int /\ r \in Nat /\ r < d /\ a = d * q + r
  BY SMT
<1>2. u \in Int /\ v \in Nat /\ v < d /\ b = d * u + v
  BY SMT
<1>3. /\ Rounded(a, d) = q \/ (Rounded(a, d) = q + 1 /\ 2 * r >= d)
      /\ Rounded(b, d) = u + 1 \/ (Rounded(b, d) = u /\ 2 * v <= d)
  <2>1. Rounded(a, d) = IF 2 * r < d \/ (2 * r = d /\ q % 2 = 0) THEN q ELSE q + 1
    BY Zenon DEF Rounded
  <2>2. Rounded(b, d) = IF 2 * v < d \/ (2 * v = d /\ u % 2 = 0) THEN u ELSE u + 1
    BY Zenon DEF Rounded
  <2> HIDE DEF q, r, u, v
  <2> QED
    BY <1>1, <1>2, <2>1, <2>2
<1> HIDE DEF q, r, u, v
<1>4. d * (q + 1) = d * q + d /\ d * (u + 1) = d * u + d
  BY <1>1, <1>2
<1>5. u >= q + 1
  <2>1. CASE u + 1 <= q + 1
    <3>1. d * (u + 1) <= d * (q + 1)
      BY <1>1, <1>2, <2>1
    <3> QED
      BY <1>1, <1>2, <1>4, <3>1
  <2> QED
    BY <1>1, <1>2, <2>1
<1>6. u = q + 1 => r < v
  <2> SUFFICES ASSUME u = q + 1
               PROVE  r < v
    OBVIOUS
  <2>1. d * u = d * q + d
    BY <1>4
  <2> QED
    BY <1>1, <1>2, <2>1
<1> QED
  BY <1>1, <1>2, <1>3, <1>5, <1>6

LEMMA RoundedAtMost ==
  ASSUME NEW a \in Int, NEW d \in Nat \ {0}, NEW k \in Int, a <= k * d
  PROVE  Rounded(a, d) \in Int /\ Rounded(a, d) <= k
<1> DEFINE q == a \div d
           r == a % d
<1>1. q \in Int /\ r \in Nat /\ r < d /\ a = d * q + r
  BY SMT
<1>2. Rounded(a, d) = q \/ (Rounded(a, d) = q + 1 /\ 2 * r >= d)
  <2>1. Rounded(a, d) = IF 2 * r < d \/ (2 * r = d /\ q % 2 = 0) THEN q ELSE q + 1
    BY Zenon DEF Rounded
  <2> HIDE DEF q, r
  <2> QED
    BY <1>1, <2>1
<1> HIDE DEF q, r
<1>3. CASE q >= k + 1
  <2>1. d * q >= d * (k + 1)
    BY <1>1, <1>3
  <2>2. d * (k + 1) = k * d + d
    OBVIOUS
  <2> QED
    BY <1>1, <2>1, <2>2
<1>4. CASE q = k
  <2>1. r = 0
    <3>1. d * q = k * d
      BY <1>4
    <3> QED
      BY <1>1, <3>1
  <2> QED
    BY <1>1, <1>2, <1>4, <2>1
<1> QED
  BY <1>1, <1>2, <1>3, <1>4

LEMMA RoundedNat ==
  ASSUME NEW a \in Nat, NEW d \in Nat \ {0}
  PROVE  Rounded(a, d) \in Nat
<1>1. a \div d \in Nat
  BY SMT
<1> QED
  BY <1>1 DEF Rounded

\* The states of the slices are increasing ones of the horizon.
LEMMA SpreadIncreases ==
  ASSUME NEW n \in Nat \ {0}, NEW steps \in Nat \ {0}, n <= steps
  PROVE  \A i \in 1 .. n : /\ SpreadIndices(n, steps)[i] \in 1 .. steps
                           /\ \A j \in 1 .. n : i < j => SpreadIndices(n, steps)[i] < SpreadIndices(n, steps)[j]
<1> DEFINE at == SpreadIndices(n, steps)
<1>1. CASE n >= steps
  <2>1. \A i \in 1 .. n : at[i] = i
    BY <1>1 DEF SpreadIndices
  <2> HIDE DEF at
  <2>2. \A i \in 1 .. n : at[i] \in 1 .. steps /\ \A j \in 1 .. n : i < j => at[i] < at[j]
    BY <1>1, <2>1
  <2> QED
    BY <2>2 DEF at
<1>2. CASE n = 1 /\ ~(n >= steps)
  <2>1. at[1] = 1
    BY <1>2 DEF SpreadIndices
  <2> HIDE DEF at
  <2>2. \A i \in 1 .. n : at[i] \in 1 .. steps /\ \A j \in 1 .. n : i < j => at[i] < at[j]
    BY <1>2, <2>1
  <2> QED
    BY <2>2 DEF at
<1>3. CASE n > 1 /\ ~(n >= steps)
  <2> DEFINE b == n - 1
             c == steps - 1
  <2>1. \A i \in 1 .. n : at[i] = Rounded((i - 1) * c, b) + 1
    BY <1>3 DEF SpreadIndices
  <2>2. b \in Nat \ {0} /\ c \in Nat /\ b < c
    BY <1>3
  <2> HIDE DEF at
  <2>3. ASSUME NEW i \in 1 .. n
        PROVE  at[i] \in 1 .. steps
    <3> DEFINE a == (i - 1) * c
    <3>1. i - 1 \in Nat /\ i - 1 <= b
      OBVIOUS
    <3>2. a \in Nat /\ a <= c * b
      <4> HIDE DEF b, c
      <4>1. (i - 1) * c <= b * c /\ b * c = c * b
        BY <2>2, <3>1
      <4> QED
        BY <2>2, <3>1, <4>1
    <3>3. at[i] = Rounded(a, b) + 1
      BY <2>1
    <3> HIDE DEF a, b
    <3>4. Rounded(a, b) <= c
      <4> HIDE DEF c
      <4> QED
        BY <2>2, <3>2, RoundedAtMost
    <3>5. Rounded(a, b) \in Nat
      BY <2>2, <3>2, RoundedNat
    <3> QED
      BY <3>3, <3>4, <3>5
  <2>4. ASSUME NEW i \in 1 .. n, NEW j \in 1 .. n, i < j
        PROVE  at[i] < at[j]
    <3> DEFINE a == (i - 1) * c
               e == (j - 1) * c
    <3>1. i - 1 \in Nat /\ j - 1 \in Nat /\ (i - 1) + 1 <= j - 1
      BY <2>4
    <3>2. a \in Int /\ e \in Int /\ a + b < e
      <4> HIDE DEF b, c
      <4>1. ((i - 1) + 1) * c <= (j - 1) * c
        BY <2>2, <3>1
      <4>2. ((i - 1) + 1) * c = (i - 1) * c + c
        BY <2>2, <3>1
      <4> QED
        BY <2>2, <3>1, <4>1, <4>2
    <3>3. at[i] = Rounded(a, b) + 1 /\ at[j] = Rounded(e, b) + 1
      BY <2>1
    <3> HIDE DEF a, b, c, e
    <3>4. Rounded(a, b) < Rounded(e, b) /\ Rounded(a, b) \in Int /\ Rounded(e, b) \in Int
      BY <2>2, <3>2, RoundedApart
    <3> QED
      BY <3>3, <3>4
  <2> QED
    BY <2>3, <2>4 DEF at
<1> QED
  BY <1>1, <1>2, <1>3

\* TWAPSlicer: equal slices, and one share more for the first of them.
LEMMA TwapWhole ==
  ASSUME NEW total \in Nat, NEW steps \in Nat \ {0}, NEW gap \in Nat
  PROVE  IsWhole(Twap(total, steps, gap), total, steps) /\ Twap(total, steps, gap) \in Seq(Slices)
<1> DEFINE n == TwapSlices(steps, gap)
           at == SpreadIndices(n, steps)
           q == total \div n
           rest == total % n
           whole == [i \in 1 .. n |-> [step |-> at[i], qty |-> q + (IF i <= rest THEN 1 ELSE 0)]]
<1>1. n \in Nat \ {0} /\ n <= steps
  <2>1. SliceSeconds \in Nat \ {0}
    BY SlicingAssumption
  <2> DEFINE dt == IF steps >= 2 THEN Greatest(1, gap) ELSE SliceSeconds
             r == Rounded(steps * dt, SliceSeconds)
  <2>2. dt \in Nat
    BY <2>1 DEF Greatest
  <2>3. steps * dt \in Nat
    <3> HIDE DEF dt
    <3> QED
      BY <2>2
  <2>4. r \in Nat
    <3> HIDE DEF dt
    <3> QED
      BY <2>1, <2>3, RoundedNat
  <2>5. n = Least(steps, Greatest(1, r))
    BY Zenon DEF TwapSlices
  <2> HIDE DEF r, n
  <2> QED
    BY <2>4, <2>5 DEF Least, Greatest
<1>2. \A i \in 1 .. n : at[i] \in 1 .. steps /\ \A j \in 1 .. n : i < j => at[i] < at[j]
  BY <1>1, SpreadIncreases
<1>3. Twap(total, steps, gap) = NonEmpty(whole)
  <2>1. steps # 0
    OBVIOUS
  <2> QED
    BY <2>1, Zenon DEF Twap
<1> HIDE DEF at, n
<1>4. q \in Nat /\ rest \in Nat /\ rest < n /\ total = n * q + rest
  BY <1>1, SMT
<1> HIDE DEF q, rest
<1>5. whole \in [1 .. n -> Slices]
  BY <1>2, <1>4 DEF Slices
<1>6. /\ whole \in Seq(Slices) /\ Len(whole) = n
      /\ \A i \in 1 .. n : whole[i].step = at[i] /\ whole[i].qty = q + (IF i <= rest THEN 1 ELSE 0)
  <2>1. whole \in Seq(Slices) /\ Len(whole) = n
    <3> HIDE DEF whole
    <3> QED
      BY <1>1, <1>5, SeqOfFunction
  <2> QED
    BY <2>1
<1> HIDE DEF whole
<1>7. Spread(whole, steps)
  BY <1>2, <1>6 DEF Spread
<1>8. Planned(whole) = total
  <2> DEFINE f == Quantities(whole)
             W == [k \in 0 .. n |-> k * q + Least(k, rest)]
  <2>1. f \in Seq(Int) /\ Len(f) = n /\ \A i \in 1 .. n : f[i] = q + (IF i <= rest THEN 1 ELSE 0)
    BY <1>6, QuantitiesTyped
  <2> HIDE DEF f
  <2>2. W[0] = 0
    BY <1>1, <1>4 DEF Least
  <2>3. ASSUME NEW k \in 1 .. n
        PROVE  W[k] = W[k - 1] + f[k]
    <3>1. k \in 0 .. n /\ k - 1 \in 0 .. n
      BY <1>1
    <3>2. W[k] = k * q + Least(k, rest) /\ W[k - 1] = (k - 1) * q + Least(k - 1, rest)
      BY <3>1
    <3>3. k * q = (k - 1) * q + q /\ (k - 1) * q \in Int
      BY <1>4
    <3>4. Least(k, rest) = Least(k - 1, rest) + (IF k <= rest THEN 1 ELSE 0) /\ Least(k - 1, rest) \in Int
      BY <1>4 DEF Least
    <3> DEFINE u == (k - 1) * q
               v == Least(k - 1, rest)
               extra == IF k <= rest THEN 1 ELSE 0
    <3>5. f[k] = q + extra
      BY <2>1
    <3>6. W[k] = (u + q) + (v + extra) /\ W[k - 1] = u + v
      BY <3>2, <3>3, <3>4
    <3>7. u \in Int /\ v \in Int /\ extra \in Int
      BY <3>3, <3>4
    <3> HIDE DEF W, u, v, extra
    <3> QED
      BY <1>4, <3>5, <3>6, <3>7
  <2>4. W[n] = n * q + rest
    BY <1>1, <1>4 DEF Least
  <2> HIDE DEF W
  <2>5. Runs(W, 0, f)
    BY <2>1, <2>2, <2>3 DEF Runs
  <2>6. Started(0, f) = W[n]
    BY <2>1, <2>5, StartedRuns
  <2> QED
    BY <1>4, <2>4, <2>6 DEF Planned, f
<1> QED
  BY <1>3, <1>6, <1>7, <1>8, NonEmptyWhole

-----------------------------------------------------------------------------
(* Largest remainders *)

\* What the shares rounded down leave over is less than one share each.
LEMMA FloorsLeave ==
  ASSUME NEW n \in Nat, NEW total \in Nat, NEW sum \in Nat \ {0},
         NEW weights \in Seq(Int), NEW floor \in Seq(Int), NEW part \in Seq(Int),
         Len(weights) = n, Len(floor) = n, Len(part) = n, Started(0, weights) = sum,
         \A i \in 1 .. n : /\ weights[i] * total = floor[i] * sum + part[i]
                           /\ part[i] \in 0 .. sum - 1
  PROVE  total - Started(0, floor) \in 0 .. n
<1>1. 0 \in Int
  OBVIOUS
<1>2. PICK S \in [0 .. n -> Int] : Runs(S, 0, weights) /\ Started(0, weights) = S[n]
  BY <1>1, RunsExist
<1>3. PICK F \in [0 .. n -> Int] : Runs(F, 0, floor) /\ Started(0, floor) = F[n]
  BY <1>1, RunsExist
<1>4. PICK P \in [0 .. n -> Int] : Runs(P, 0, part) /\ Started(0, part) = P[n]
  BY <1>1, RunsExist
<1> DEFINE Good == {k \in 0 .. n : S[k] * total = F[k] * sum + P[k] /\ P[k] \in 0 .. k * sum}
<1>5. 0 \in Good
  BY <1>2, <1>3, <1>4 DEF Runs
<1>6. ASSUME NEW k \in 1 .. n, k - 1 \in Good
      PROVE  k \in Good
  <2> DEFINE s == S[k - 1]
             f == F[k - 1]
             p == P[k - 1]
             w == weights[k]
             g == floor[k]
             r == part[k]
  <2>0. k \in 0 .. n /\ k - 1 \in 0 .. n
    OBVIOUS
  <2>1. s \in Int /\ f \in Int /\ p \in Int /\ w \in Int /\ g \in Int /\ r \in Int /\ k \in 0 .. n
    <3>1. s \in Int /\ f \in Int /\ p \in Int
      BY <2>0
    <3>2. w \in Int /\ g \in Int /\ r \in Int
      BY ElementOfSeq
    <3> QED
      BY <2>0, <3>1, <3>2
  <2>2. S[k] = s + w /\ F[k] = f + g /\ P[k] = p + r
    BY <1>2, <1>3, <1>4 DEF Runs
  <2>3. s * total = f * sum + p /\ p \in 0 .. (k - 1) * sum /\ w * total = g * sum + r /\ r \in 0 .. sum - 1
    BY <1>6
  <2> HIDE DEF s, f, p, w, g, r
  <2>4. (s + w) * total = s * total + w * total /\ (f + g) * sum = f * sum + g * sum
    BY <2>1
  <2>5. k * sum = (k - 1) * sum + sum
    OBVIOUS
  <2>6. (s + w) * total = (f + g) * sum + (p + r)
    <3> DEFINE u == f * sum
               v == g * sum
               x == (s + w) * total
               y == (f + g) * sum
    <3>1. u \in Int /\ v \in Int
      BY <2>1
    <3>2. x = (u + p) + (v + r) /\ y = u + v
      BY <2>3, <2>4
    <3> HIDE DEF u, v, x, y
    <3>3. x = y + (p + r)
      BY <2>1, <3>1, <3>2
    <3> QED
      BY <3>3 DEF x, y
  <2>7. p + r \in 0 .. k * sum
    BY <2>1, <2>3, <2>5
  <2> QED
    BY <2>1, <2>2, <2>6, <2>7
<1> HIDE DEF Good
<1>7. \A k \in 0 .. n : k \in Good
  BY <1>5, <1>6, UpTo
<1> DEFINE a == F[n]
           b == P[n]
           d == total - a
<1>8. sum * total = a * sum + b /\ b \in 0 .. n * sum /\ a \in Int
  <2>1. n \in 0 .. n /\ n \in Good
    BY <1>7
  <2> QED
    BY <1>2, <2>1 DEF Good
<1> HIDE DEF a, b
<1>9. d * sum = b /\ d \in Int
  <2>1. (total - a) * sum = total * sum - a * sum /\ total * sum = sum * total
    BY <1>8
  <2> QED
    BY <1>8, <2>1
<1> HIDE DEF d
<1>10. d >= 0
  <2> SUFFICES ASSUME d <= -1
               PROVE  FALSE
    BY <1>9
  <2>1. d * sum <= (-1) * sum /\ (-1) * sum = -sum
    BY <1>9
  <2> DEFINE x == d * sum
             y == (-1) * sum
  <2>2. x = b /\ b \in Nat /\ x <= y /\ y = -sum
    BY <1>8, <1>9, <2>1
  <2> HIDE DEF x, y
  <2> QED
    BY <2>2
<1>11. d <= n
  <2> SUFFICES ASSUME d >= n + 1
               PROVE  FALSE
    BY <1>9
  <2>1. d * sum >= (n + 1) * sum
    BY <1>9
  <2> DEFINE most == n * sum
             x == d * sum
             y == (n + 1) * sum
  <2>2. (n + 1) * sum = most + sum /\ most \in Nat
    OBVIOUS
  <2>3. b \in 0 .. most /\ x = b /\ x >= y /\ y = most + sum
    BY <1>8, <1>9, <2>1, <2>2
  <2> HIDE DEF most, x, y
  <2> QED
    BY <2>2, <2>3
<1> QED
  BY <1>3, <1>9, <1>10, <1>11 DEF d, a

\* The largest remainders: floors and one share more for the first ranks give
\* the whole quantity, whatever the weights.
LEMMA AllottedWhole ==
  ASSUME NEW total \in Nat, NEW n \in Nat, NEW weights \in [1 .. n -> Nat], Started(0, weights) > 0
  PROVE  IsWhole(Allotted(total, weights), total, n) /\ Allotted(total, weights) \in Seq(Slices)
<1> DEFINE sum   == FoldLeft(+, 0, weights)
           floor == [i \in DOMAIN weights |-> (weights[i] * total) \div sum]
           part  == [i \in DOMAIN weights |-> (weights[i] * total) % sum]
           deficit == total - FoldLeft(+, 0, floor)
           above(i) == {j \in DOMAIN weights : part[j] > part[i] \/ (part[j] = part[i] /\ j > i)}
           extra(i) == IF Cardinality(above(i)) < deficit THEN 1 ELSE 0
           whole == [i \in DOMAIN weights |-> [step |-> i, qty |-> floor[i] + extra(i)]]
<1>1. Allotted(total, weights) = NonEmpty(whole)
  BY Zenon DEF Allotted
<1>2. DOMAIN weights = 1 .. n /\ weights \in Seq(Int) /\ Len(weights) = n
  <2>1. weights \in [1 .. n -> Int]
    OBVIOUS
  <2> QED
    BY <2>1, SeqOfFunction
<1>3. sum = Started(0, weights)
  BY Zenon DEF Started
<1>4. sum \in Nat \ {0}
  <2>1. 0 \in Int
    OBVIOUS
  <2>2. Started(0, weights) \in Int
    <3>1. PICK W \in [0 .. n -> Int] : Started(0, weights) = W[n]
      BY <1>2, <2>1, RunsExist
    <3> QED
      BY <3>1
  <2> HIDE DEF sum
  <2> QED
    BY <1>3, <2>2
<1> HIDE DEF sum
<1>5. ASSUME NEW i \in 1 .. n
      PROVE  /\ floor[i] \in Nat /\ part[i] \in 0 .. sum - 1
             /\ weights[i] * total = floor[i] * sum + part[i]
  <2> DEFINE w == weights[i] * total
  <2>1. w \in Nat
    <3>1. weights[i] \in Nat
      OBVIOUS
    <3> QED
      BY <3>1
  <2>2. floor[i] = w \div sum /\ part[i] = w % sum
    BY <1>2
  <2> HIDE DEF w, floor, part
  <2>3. w \div sum \in Nat /\ w % sum \in 0 .. sum - 1 /\ w = sum * (w \div sum) + (w % sum)
    BY <1>4, <2>1, SMT
  <2>4. sum * (w \div sum) = (w \div sum) * sum
    BY <1>4, <2>3
  <2> QED
    BY <2>2, <2>3, <2>4 DEF w
<1>6. /\ floor \in Seq(Int) /\ Len(floor) = n /\ part \in Seq(Int) /\ Len(part) = n
  <2>1. floor \in [1 .. n -> Int] /\ part \in [1 .. n -> Int]
    <3>1. floor = [i \in 1 .. n |-> floor[i]] /\ part = [i \in 1 .. n |-> part[i]]
      BY <1>2
    <3>2. \A i \in 1 .. n : floor[i] \in Int /\ part[i] \in Int
      BY <1>4, <1>5
    <3> HIDE DEF floor, part
    <3> QED
      BY <3>1, <3>2
  <2> HIDE DEF floor, part
  <2> QED
    BY <2>1, SeqOfFunction
<1>7. deficit = total - Started(0, floor)
  BY Zenon DEF Started
<1>8. \A i \in 1 .. n : above(i) = Above(part, n, i)
  BY <1>2 DEF Above
<1>9. \A i \in 1 .. n : whole[i] = [step |-> i, qty |-> floor[i] + extra(i)]
  BY <1>2
<1>10. whole = [i \in 1 .. n |-> whole[i]]
  BY <1>2
<1> HIDE DEF floor, part, deficit, whole
<1>11. deficit \in 0 .. n
  BY <1>2, <1>3, <1>4, <1>5, <1>6, <1>7, FloorsLeave
<1> HIDE DEF extra
<1> DEFINE chosen == First(part, n, deficit)
<1>12. IsFiniteSet(chosen) /\ Cardinality(chosen) = deficit
  <2>1. \A i \in 1 .. n : part[i] \in Int
    BY <1>4, <1>5
  <2> QED
    BY <1>11, <2>1, FirstRanks
<1> DEFINE ones == [i \in 1 .. n |-> IF i \in chosen THEN 1 ELSE 0]
<1>13. ones \in Seq(Int) /\ Len(ones) = n /\ \A i \in 1 .. n : ones[i] = IF i \in chosen THEN 1 ELSE 0
  <2>1. ones \in [1 .. n -> Int]
    <3> HIDE DEF chosen
    <3> QED
      OBVIOUS
  <2>2. \A i \in 1 .. n : ones[i] = IF i \in chosen THEN 1 ELSE 0
    OBVIOUS
  <2> HIDE DEF ones, chosen
  <2> QED
    BY <2>1, <2>2, SeqOfFunction
<1>14. \A i \in 1 .. n : i \in chosen <=> Cardinality(Above(part, n, i)) < deficit
  BY DEF First
<1>15. chosen \in SUBSET (1 .. n)
  BY DEF First
<1> HIDE DEF ones, chosen
<1>16. Started(0, ones) = deficit
  BY <1>12, <1>13, <1>15, OnesCount
<1>17. \A i \in 1 .. n : whole[i] = [step |-> i, qty |-> floor[i] + ones[i]]
  <2> TAKE i \in 1 .. n
  <2>1. above(i) = Above(part, n, i)
    BY <1>8
  <2>2. extra(i) = IF Cardinality(Above(part, n, i)) < deficit THEN 1 ELSE 0
    BY <2>1, Zenon DEF extra
  <2>3. extra(i) = ones[i]
    BY <1>13, <1>14, <2>2
  <2> QED
    BY <1>9, <2>3
<1>18. \A i \in 1 .. n : whole[i].step = i /\ whole[i].qty = floor[i] + ones[i]
  <2> TAKE i \in 1 .. n
  <2> DEFINE x == floor[i] + ones[i]
  <2>1. whole[i] = [step |-> i, qty |-> x]
    BY <1>17
  <2> HIDE DEF x
  <2>2. whole[i].step = i /\ whole[i].qty = x
    BY <2>1
  <2> QED
    BY <2>2 DEF x
<1>19. whole \in Seq(Slices) /\ Len(whole) = n
  <2>1. ASSUME NEW i \in 1 .. n
        PROVE  whole[i] \in Slices
    <3>1. ones[i] \in Nat
      BY <1>13
    <3>2. whole[i] = [step |-> i, qty |-> floor[i] + ones[i]]
      BY <1>17
    <3>3. floor[i] + ones[i] \in Nat /\ i \in Int
      BY <1>5, <3>1
    <3> QED
      BY <3>2, <3>3 DEF Slices
  <2>2. whole \in [1 .. n -> Slices]
    BY <1>10, <2>1
  <2> QED
    BY <2>2, SeqOfFunction
<1>20. Spread(whole, n)
  <2>1. \A i \in 1 .. n : whole[i].step = i
    BY <1>18
  <2> QED
    BY <1>19, <2>1 DEF Spread
<1>21. Planned(whole) = total
  <2> DEFINE q == Quantities(whole)
  <2>1. q \in Seq(Int) /\ Len(q) = n /\ \A i \in 1 .. n : q[i] = whole[i].qty
    BY <1>19, QuantitiesTyped
  <2>2. \A i \in 1 .. n : q[i] = floor[i] + ones[i]
    BY <1>18, <2>1
  <2> HIDE DEF q
  <2>3. Started(0, q) = Started(0, floor) + Started(0, ones)
    <3>1. Len(ones) = Len(floor) /\ Len(q) = Len(floor) /\ Len(floor) = n
      BY <1>6, <1>13, <2>1
    <3>2. floor \in Seq(Int) /\ ones \in Seq(Int) /\ q \in Seq(Int)
      BY <1>6, <1>13, <2>1
    <3>3. \A i \in 1 .. Len(floor) : q[i] = floor[i] + ones[i]
      BY <2>2, <3>1
    <3> QED
      BY <3>1, <3>2, <3>3, StartedPlus
  <2>4. Started(0, floor) \in Int
    <3>1. 0 \in Int
      OBVIOUS
    <3>2. PICK W \in [0 .. n -> Int] : Started(0, floor) = W[n]
      BY <1>6, <3>1, RunsExist
    <3> QED
      BY <3>2
  <2>5. Started(0, q) = total
    BY <1>7, <1>16, <2>3, <2>4
  <2> QED
    BY <2>5 DEF Planned, q
<1> QED
  BY <1>1, <1>19, <1>20, <1>21, NonEmptyWhole

\* VWAPSlicer: weights by depth, or equal ones where there is no depth at all.
LEMMA VwapWhole ==
  ASSUME NEW total \in Nat, NEW n \in Nat \ {0}, NEW depths \in [1 .. n -> Nat]
  PROVE  IsWhole(Vwap(total, depths), total, n) /\ Vwap(total, depths) \in Seq(Slices)
<1>1. DOMAIN depths = 1 .. n
  OBVIOUS
<1>2. CASE \A i \in DOMAIN depths : depths[i] = 0
  <2> DEFINE same == [i \in DOMAIN depths |-> 1]
  <2>1. same \in [1 .. n -> Nat] /\ 1 \in 1 .. n /\ same[1] > 0
    BY <1>1
  <2>2. Vwap(total, depths) = Allotted(total, same)
    BY <1>2, Zenon DEF Vwap
  <2> HIDE DEF same
  <2>3. Started(0, same) > 0
    BY <2>1, StartedPositive
  <2> QED
    BY <2>1, <2>2, <2>3, AllottedWhole
<1>3. CASE ~ \A i \in DOMAIN depths : depths[i] = 0
  <2>1. PICK i \in 1 .. n : depths[i] > 0
    BY <1>1, <1>3
  <2>2. Vwap(total, depths) = Allotted(total, depths)
    BY <1>3, Zenon DEF Vwap
  <2>3. Started(0, depths) > 0
    BY <2>1, StartedPositive
  <2> QED
    BY <2>2, <2>3, AllottedWhole
<1> QED
  BY <1>2, <1>3

-----------------------------------------------------------------------------
(* POVSlicer *)

\* IsWhole, read with the sums of above.
LEMMA WholeMeans ==
  ASSUME NEW schedule \in Seq(Slices), NEW total, NEW steps
  PROVE  IsWhole(schedule, total, steps) <=>
           /\ Planned(schedule) = total
           /\ \A i \in 1 .. Len(schedule) : schedule[i].qty > 0 /\ schedule[i].step \in 1 .. steps
           /\ \A i \in 2 .. Len(schedule) : schedule[i - 1].step < schedule[i].step
<1>1. DOMAIN schedule = 1 .. Len(schedule)
  BY LenProperties
<1>2. FoldLeft(+, 0, [i \in DOMAIN schedule |-> schedule[i].qty]) = Planned(schedule)
  BY Zenon DEF Planned, Quantities, Started
<1> QED
  BY <1>1, <1>2 DEF IsWhole

LEMMA NextQtyBounded ==
  ASSUME NEW remaining \in Nat, NEW depth \in Nat
  PROVE  NextQty(remaining, depth) \in 0 .. remaining
<1> DEFINE x == PovPct * depth
           y == x \div 100
<1>1. x \in Nat
  <2>1. PovPct \in Nat
    BY SlicingAssumption
  <2> QED
    BY <2>1
<1>2. y \in Nat
  <2> HIDE DEF x
  <2> QED
    BY <1>1
<1>3. NextQty(remaining, depth) = Greatest(0, Least(remaining, y))
  BY Zenon DEF NextQty
<1> HIDE DEF y
<1> QED
  BY <1>2, <1>3 DEF Greatest, Least

\* What has been taken after each state.
IsTaken(total, depths, f) ==
  f = [i \in 0 .. Len(depths) |-> IF i = 0 THEN 0 ELSE f[i - 1] + NextQty(total - f[i - 1], depths[i])]
ChosenTaken(total, depths) == CHOOSE f : IsTaken(total, depths, f)

LEMMA TakenExists ==
  ASSUME NEW total \in Nat, NEW n \in Nat, NEW depths \in [1 .. n -> Nat]
  PROVE  /\ ChosenTaken(total, depths) \in [0 .. n -> 0 .. total] /\ ChosenTaken(total, depths)[0] = 0
         /\ \A k \in 1 .. n : ChosenTaken(total, depths)[k]
              = ChosenTaken(total, depths)[k - 1]
                + NextQty(total - ChosenTaken(total, depths)[k - 1], depths[k])
<1> DEFINE A == 0 .. total
           G == [p \in (1 .. n) \X A |-> p[2] + NextQty(total - p[2], depths[p[1]])]
           f == ChosenTaken(total, depths)
<1>1. ASSUME NEW k \in 1 .. n, NEW a \in A
      PROVE  G[<<k, a>>] = a + NextQty(total - a, depths[k])
  OBVIOUS
<1>2. ASSUME NEW k \in 1 .. n, NEW a \in A
      PROVE  a + NextQty(total - a, depths[k]) \in A
  <2>1. total - a \in Nat /\ depths[k] \in Nat
    OBVIOUS
  <2>2. NextQty(total - a, depths[k]) \in 0 .. total - a
    BY <2>1, NextQtyBounded
  <2> QED
    BY <2>2
<1>3. 0 \in A /\ Len(depths) = n
  OBVIOUS
<1> HIDE DEF G
<1>4. Keeps(G, 1 .. n, A)
  <2>1. ASSUME NEW k \in 1 .. n, NEW a \in A
        PROVE  G[<<k, a>>] \in A
    BY <1>1, <1>2
  <2> QED
    BY <2>1, Zenon DEF Keeps
<1> HIDE DEF A
<1>5. PICK H : IsTrace(G, A, 0, n, H)
  BY <1>3, <1>4, IterationExists
<1>6. H \in [0 .. n -> A] /\ H[0] = 0 /\ \A k \in 1 .. n : H[k] = H[k - 1] + NextQty(total - H[k - 1], depths[k])
  <2>1. H \in [0 .. n -> A] /\ H[0] = 0 /\ \A k \in 1 .. n : H[k] = G[<<k, H[k - 1]>>]
    BY <1>5 DEF IsTrace
  <2>2. ASSUME NEW k \in 1 .. n
        PROVE  H[k] = H[k - 1] + NextQty(total - H[k - 1], depths[k])
    <3>1. k - 1 \in 0 .. n
      OBVIOUS
    <3>2. H[k - 1] \in A
      BY <2>1, <3>1
    <3> QED
      BY <1>1, <2>1, <3>2
  <2> QED
    BY <2>1, <2>2
<1>7. IsTaken(total, depths, H)
  <2>1. ASSUME NEW k \in 0 .. n
        PROVE  H[k] = IF k = 0 THEN 0 ELSE H[k - 1] + NextQty(total - H[k - 1], depths[k])
    <3>1. k # 0 => k \in 1 .. n
      OBVIOUS
    <3> QED
      BY <1>6, <3>1
  <2>2. H = [k \in 0 .. n |-> IF k = 0 THEN 0 ELSE H[k - 1] + NextQty(total - H[k - 1], depths[k])]
    BY <1>6, <2>1
  <2> QED
    BY <1>3, <2>2, Zenon DEF IsTaken
<1>8. IsTaken(total, depths, f)
  BY <1>7, Zenon DEF ChosenTaken
<1> HIDE DEF f
<1>9. /\ f = [k \in 0 .. n |-> f[k]] /\ f[0] = 0
      /\ \A k \in 1 .. n : f[k] = f[k - 1] + NextQty(total - f[k - 1], depths[k])
  <2>1. f = [k \in 0 .. n |-> IF k = 0 THEN 0 ELSE f[k - 1] + NextQty(total - f[k - 1], depths[k])]
    BY <1>3, <1>8, Zenon DEF IsTaken
  <2>2. \A k \in 0 .. n : f[k] = IF k = 0 THEN 0 ELSE f[k - 1] + NextQty(total - f[k - 1], depths[k])
    BY <2>1
  <2>3. 0 \in 0 .. n /\ \A k \in 1 .. n : k \in 0 .. n /\ k # 0
    OBVIOUS
  <2>4. f = [k \in 0 .. n |-> f[k]]
    BY <2>1
  <2> QED
    BY <2>2, <2>3, <2>4
<1>10. SameTrace(n, f, H)
  BY <1>6, <1>9, TracesAgree DEF StepAlike
<1>11. f \in [0 .. n -> A]
  <2>1. \A k \in 0 .. n : f[k] \in A
    BY <1>6, <1>10 DEF SameTrace
  <2> QED
    BY <1>9, <2>1
<1> QED
  BY <1>9, <1>11 DEF A, f

\* What is left over goes into the last slice.
LEMMA LastTakesRest ==
  ASSUME NEW schedule \in Seq(Slices), schedule # << >>, NEW left \in Nat, NEW taken, NEW steps,
         IsWhole(schedule, taken, steps)
  PROVE  LET longer == [schedule EXCEPT ![Len(schedule)].qty = @ + left]
         IN IsWhole(longer, taken + left, steps) /\ longer \in Seq(Slices)
<1> DEFINE m == Len(schedule)
           longer == [schedule EXCEPT ![m].qty = @ + left]
           q == Quantities(schedule)
           r == Quantities(longer)
<1>1. /\ q \in Seq(Int) /\ Len(q) = m /\ m \in Nat /\ DOMAIN schedule = 1 .. m
      /\ \A i \in 1 .. m : q[i] = schedule[i].qty /\ schedule[i].qty \in Nat
      /\ \A i \in 1 .. m : schedule[i] \in Slices
  BY QuantitiesTyped
<1>2. m \in 1 .. m /\ schedule = [i \in 1 .. m |-> schedule[i]]
  <2>1. m # 0
    BY EmptySeq
  <2> QED
    BY <1>1, <2>1
<1>3. /\ longer = [i \in 1 .. m |-> longer[i]]
      /\ \A i \in 1 .. m : i # m => longer[i] = schedule[i]
      /\ longer[m] = [schedule[m] EXCEPT !.qty = @ + left]
  <2> HIDE DEF m
  <2> QED
    BY <1>1, <1>2
<1> HIDE DEF longer
<1>4. longer[m] = [step |-> schedule[m].step, qty |-> schedule[m].qty + left] /\ longer[m] \in Slices
  BY <1>1, <1>2, <1>3 DEF Slices
<1>5. longer \in Seq(Slices) /\ Len(longer) = m
  <2>1. \A i \in 1 .. m : longer[i] \in Slices
    BY <1>1, <1>3, <1>4
  <2>2. longer \in [1 .. m -> Slices]
    BY <1>3, <2>1
  <2> HIDE DEF m
  <2> QED
    BY <1>1, <2>2, SeqOfFunction
<1>6. r \in Seq(Int) /\ Len(r) = m /\ \A i \in 1 .. m : r[i] = longer[i].qty
  BY <1>5, QuantitiesTyped
<1>7. /\ Planned(schedule) = taken
      /\ \A i \in 1 .. m : schedule[i].qty > 0 /\ schedule[i].step \in 1 .. steps
      /\ \A i \in 2 .. m : schedule[i - 1].step < schedule[i].step
  BY WholeMeans
<1> HIDE DEF q, r
<1>8. PICK W \in [0 .. m -> Int] : Runs(W, 0, q) /\ Started(0, q) = W[m]
  <2>1. 0 \in Int
    OBVIOUS
  <2> QED
    BY <1>1, <2>1, RunsExist
<1> DEFINE V == [k \in 0 .. m |-> IF k = m THEN W[m] + left ELSE W[k]]
<1>9. Runs(V, 0, r)
  <2>1. W[0] = 0 /\ \A k \in 1 .. m : W[k] = W[k - 1] + q[k]
    BY <1>1, <1>8 DEF Runs
  <2>2. V[0] = 0
    BY <1>1, <1>2, <2>1
  <2>3. ASSUME NEW k \in 1 .. m
        PROVE  V[k] = V[k - 1] + r[k]
    <3>1. k \in 0 .. m /\ k - 1 \in 0 .. m /\ k - 1 # m
      BY <1>1
    <3>2. V[k] = (IF k = m THEN W[m] + left ELSE W[k]) /\ V[k - 1] = W[k - 1]
      BY <3>1
    <3>3. r[k] = longer[k].qty /\ q[k] = schedule[k].qty
      BY <1>1, <1>6
    <3>4. W[k] = W[k - 1] + q[k] /\ W[k] \in Int /\ W[k - 1] \in Int /\ q[k] \in Nat
      BY <1>1, <1>8, <2>1, <3>1
    <3>5. CASE k = m
      BY <1>4, <3>2, <3>3, <3>4, <3>5
    <3>6. CASE k # m
      BY <1>3, <3>2, <3>3, <3>4, <3>6
    <3> QED
      BY <3>5, <3>6
  <2> HIDE DEF V
  <2> QED
    BY <1>6, <2>2, <2>3 DEF Runs
<1>10. V[m] = taken + left
  <2>1. m \in 0 .. m
    BY <1>1
  <2>2. V[m] = W[m] + left
    BY <2>1
  <2>3. W[m] = taken
    BY <1>7, <1>8 DEF Planned, q
  <2> QED
    BY <2>2, <2>3
<1> HIDE DEF V
<1>11. Started(0, r) = V[m]
  BY <1>6, <1>9, StartedRuns
<1>12. Planned(longer) = taken + left
  BY <1>10, <1>11 DEF Planned, r
<1>13. \A i \in 1 .. m : longer[i].step = schedule[i].step /\ longer[i].qty > 0
  <2> TAKE i \in 1 .. m
  <2>1. schedule[i].qty > 0 /\ schedule[i].qty \in Nat
    BY <1>1, <1>7
  <2>2. CASE i = m
    BY <1>4, <2>1, <2>2
  <2>3. CASE i # m
    BY <1>3, <2>1, <2>3
  <2> QED
    BY <2>2, <2>3
<1>14. \A i \in 2 .. m : longer[i - 1].step < longer[i].step
  <2> TAKE i \in 2 .. m
  <2>1. i \in 1 .. m /\ i - 1 \in 1 .. m
    BY <1>1
  <2> QED
    BY <1>7, <1>13, <2>1
<1>15. \A i \in 1 .. m : longer[i].step \in 1 .. steps
  BY <1>7, <1>13
<1>16. IsWhole(longer, taken + left, steps)
  BY <1>5, <1>12, <1>13, <1>14, <1>15, WholeMeans
<1> QED
  BY <1>5, <1>16 DEF longer

\* POVSlicer: a share of the depth of each state, and the rest in the last slice.
LEMMA PovWhole ==
  ASSUME NEW total \in Nat, NEW n \in Nat \ {0}, NEW depths \in [1 .. n -> Nat]
  PROVE  IsWhole(Pov(total, depths), total, n) /\ Pov(total, depths) \in Seq(Slices)
<1> DEFINE taken  == ChosenTaken(total, depths)
           whole  == [i \in DOMAIN depths |-> [step |-> i, qty |-> taken[i] - taken[i - 1]]]
           slices == NonEmpty(whole)
           left   == total - taken[Len(depths)]
           last   == << [step |-> Len(depths), qty |-> left] >>
           longer == [slices EXCEPT ![Len(slices)].qty = @ + left]
<1>1. Pov(total, depths) = IF left = 0 \/ depths = <<>> THEN slices ELSE IF slices = <<>> THEN last ELSE longer
  BY Zenon DEF Pov, ChosenTaken, IsTaken
<1>2. DOMAIN depths = 1 .. n /\ Len(depths) = n /\ depths # << >>
  <2>1. depths \in Seq(Nat) /\ Len(depths) = n
    BY SeqOfFunction
  <2>2. DOMAIN depths = 1 .. n
    OBVIOUS
  <2> QED
    BY <2>1, <2>2, EmptySeq
<1>3. /\ taken \in [0 .. n -> 0 .. total] /\ taken[0] = 0
      /\ \A k \in 1 .. n : taken[k] = taken[k - 1] + NextQty(total - taken[k - 1], depths[k])
  BY TakenExists
<1> HIDE DEF taken
<1>4. ASSUME NEW k \in 1 .. n
      PROVE  taken[k] \in 0 .. total /\ taken[k - 1] \in 0 .. total /\ taken[k] - taken[k - 1] \in Nat
  <2>1. k \in 0 .. n /\ k - 1 \in 0 .. n /\ depths[k] \in Nat
    OBVIOUS
  <2>2. taken[k] \in 0 .. total /\ taken[k - 1] \in 0 .. total
    BY <1>3, <2>1
  <2>3. total - taken[k - 1] \in Nat
    BY <2>2
  <2>4. NextQty(total - taken[k - 1], depths[k]) \in 0 .. total - taken[k - 1]
    BY <2>1, <2>3, NextQtyBounded
  <2>5. taken[k] = taken[k - 1] + NextQty(total - taken[k - 1], depths[k])
    BY <1>3
  <2> QED
    BY <2>2, <2>4, <2>5
<1>5. ASSUME NEW i \in 1 .. n
      PROVE  whole[i].step = i /\ whole[i].qty = taken[i] - taken[i - 1] /\ whole[i] \in Slices
  <2> DEFINE x == taken[i] - taken[i - 1]
  <2>1. whole[i] = [step |-> i, qty |-> x]
    BY <1>2
  <2>2. x \in Nat /\ i \in Int
    BY <1>4
  <2> HIDE DEF x, whole
  <2>3. whole[i].step = i /\ whole[i].qty = x /\ whole[i] \in Slices
    BY <2>1, <2>2 DEF Slices
  <2> QED
    BY <2>3 DEF x
<1>6. whole \in Seq(Slices) /\ Len(whole) = n
  <2>1. whole = [i \in 1 .. n |-> whole[i]]
    BY <1>2
  <2> HIDE DEF whole
  <2>2. whole \in [1 .. n -> Slices]
    BY <1>5, <2>1
  <2> QED
    BY <2>2, SeqOfFunction
<1> HIDE DEF whole
<1>7. Spread(whole, n)
  BY <1>5, <1>6 DEF Spread
<1>8. Planned(whole) = taken[n]
  <2> DEFINE q == Quantities(whole)
  <2>1. q \in Seq(Int) /\ Len(q) = n /\ \A i \in 1 .. n : q[i] = whole[i].qty
    BY <1>6, QuantitiesTyped
  <2> HIDE DEF q
  <2>2. \A i \in 1 .. n : taken[i] = taken[i - 1] + q[i]
    <3> TAKE i \in 1 .. n
    <3>1. q[i] = taken[i] - taken[i - 1]
      BY <1>5, <2>1
    <3>2. taken[i] \in Int /\ taken[i - 1] \in Int
      BY <1>4
    <3> QED
      BY <3>1, <3>2
  <2>3. Runs(taken, 0, q)
    BY <1>3, <2>1, <2>2 DEF Runs
  <2>4. Started(0, q) = taken[n]
    BY <2>1, <2>3, StartedRuns
  <2> QED
    BY <2>4 DEF Planned, q
<1>9. IsWhole(slices, taken[n], n) /\ slices \in Seq(Slices)
  BY <1>6, <1>7, <1>8, NonEmptyWhole
<1>10. taken[n] \in 0 .. total /\ left = total - taken[n] /\ left \in Nat
  <2>1. n \in 0 .. n
    OBVIOUS
  <2>2. taken[n] \in 0 .. total
    BY <1>3, <2>1
  <2> QED
    BY <1>2, <2>2
<1> HIDE DEF slices, left
<1>11. CASE left = 0
  <2>1. Pov(total, depths) = slices
    BY <1>1, <1>11
  <2>2. taken[n] = total
    BY <1>10, <1>11
  <2> QED
    BY <1>9, <2>1, <2>2
<1>12. CASE left # 0 /\ slices = <<>>
  <2>1. Pov(total, depths) = last
    BY <1>1, <1>2, <1>12
  <2>2. taken[n] = 0
    <3>1. Planned(slices) = taken[n]
      BY <1>9, WholeMeans
    <3>2. Planned(<< >>) = 0
      <4>1. Quantities(<< >>) = << >>
        BY DEF Quantities
      <4> QED
        BY <4>1, StartedEmpty DEF Planned
    <3> QED
      BY <1>12, <3>1, <3>2
  <2> DEFINE slice == [step |-> n, qty |-> left]
  <2>3. slice \in Slices /\ slice.qty = left /\ slice.step = n
    BY <1>10 DEF Slices
  <2> HIDE DEF slice
  <2>4. << slice >> = Append(<< >>, slice) /\ << slice >> \in Seq(Slices) /\ Len(<< slice >>) = 1
        /\ << slice >>[1] = slice
    BY <2>3
  <2>5. Planned(<< slice >>) = total
    <3>1. << >> \in Seq(Slices)
      BY EmptySeq
    <3>2. Planned(Append(<< >>, slice)) = Planned(<< >>) + slice.qty
      BY <2>3, <3>1, PlannedAppend
    <3>3. Planned(<< >>) = 0
      <4>1. Quantities(<< >>) = << >>
        BY DEF Quantities
      <4> QED
        BY <4>1, StartedEmpty DEF Planned
    <3> QED
      BY <1>10, <2>2, <2>3, <2>4, <3>2, <3>3
  <2>6. last = << slice >>
    BY <1>2 DEF slice
  <2>7. /\ \A i \in 1 .. Len(<< slice >>) : << slice >>[i].qty > 0 /\ << slice >>[i].step \in 1 .. n
        /\ \A i \in 2 .. Len(<< slice >>) : << slice >>[i - 1].step < << slice >>[i].step
    <3>1. slice.qty > 0 /\ slice.step \in 1 .. n
      BY <1>10, <1>12, <2>3
    <3>2. 1 .. 1 = {1} /\ 2 .. 1 = {}
      OBVIOUS
    <3> QED
      BY <2>4, <3>1, <3>2
  <2>8. IsWhole(<< slice >>, total, n)
    BY <2>4, <2>5, <2>7, WholeMeans
  <2> QED
    BY <2>1, <2>4, <2>6, <2>8
<1>13. CASE left # 0 /\ slices # <<>>
  <2>1. Pov(total, depths) = longer
    BY <1>1, <1>2, <1>13
  <2>2. IsWhole(longer, taken[n] + left, n) /\ longer \in Seq(Slices)
    BY <1>9, <1>10, <1>13, LastTakesRest, Zenon
  <2>3. taken[n] + left = total
    BY <1>10
  <2> QED
    BY <2>1, <2>2, <2>3
<1> QED
  BY <1>11, <1>12, <1>13

\* Asked for one state, a policy sends the whole quantity at once.
FirstQty(schedule) == IF schedule = <<>> THEN 0 ELSE Head(schedule).qty

LEMMA OneStateWhole ==
  ASSUME NEW schedule \in Seq(Slices), NEW total \in Nat \ {0}, IsWhole(schedule, total, 1)
  PROVE  FirstQty(schedule) = total
<1> DEFINE m == Len(schedule)
           q == Quantities(schedule)
<1>1. m \in Nat /\ q \in Seq(Int) /\ Len(q) = m /\ \A i \in 1 .. m : q[i] = schedule[i].qty /\ q[i] \in Int
  BY QuantitiesTyped
<1>2. /\ Planned(schedule) = total
      /\ \A i \in 1 .. m : schedule[i].step \in 1 .. 1
      /\ \A i \in 2 .. m : schedule[i - 1].step < schedule[i].step
  BY WholeMeans
<1>3. PICK W \in [0 .. m -> Int] : Runs(W, 0, q) /\ Started(0, q) = W[m]
  <2>1. 0 \in Int
    OBVIOUS
  <2> QED
    BY <1>1, <2>1, RunsExist
<1>4. W[0] = 0 /\ (\A k \in 1 .. m : W[k] = W[k - 1] + q[k]) /\ W[m] = total
  BY <1>1, <1>2, <1>3 DEF Runs, Planned
<1> HIDE DEF m, q
<1>5. m < 2
  <2>1. SUFFICES ASSUME m >= 2
                 PROVE  FALSE
    BY <1>1
  <2>2. 2 \in 2 .. m /\ 1 \in 1 .. m /\ 2 \in 1 .. m /\ 2 - 1 = 1
    BY <1>1, <2>1
  <2>3. schedule[1].step < schedule[2].step
    BY <1>2, <2>2
  <2>4. schedule[1].step \in 1 .. 1 /\ schedule[2].step \in 1 .. 1
    BY <1>2, <2>2
  <2> QED
    BY <2>3, <2>4
<1>6. m = 1
  BY <1>1, <1>4, <1>5
<1>7. q[1] = total
  <2>1. 1 \in 1 .. m
    BY <1>6
  <2>2. q[1] \in Int /\ W[1] = W[1 - 1] + q[1] /\ 1 - 1 = 0
    BY <1>1, <1>4, <2>1
  <2> QED
    BY <1>4, <1>6, <2>2
<1>8. schedule # << >> /\ Head(schedule) = schedule[1]
  <2>1. schedule # << >>
    BY <1>6, EmptySeq DEF m
  <2> QED
    BY <2>1, HeadTailProperties
<1> QED
  BY <1>1, <1>6, <1>7, <1>8 DEF FirstQty

\* AlmgrenChrissSlicer: the drops of a trajectory, not all of them nothing.
LEMMA AlmgrenChrissWhole ==
  ASSUME NEW total \in Nat, NEW n \in Nat, NEW drops \in [1 .. n -> Nat], \E i \in 1 .. n : drops[i] > 0
  PROVE  IsWhole(AlmgrenChriss(total, drops), total, n) /\ AlmgrenChriss(total, drops) \in Seq(Slices)
<1>1. Started(0, drops) > 0
  BY StartedPositive
<1>2. AlmgrenChriss(total, drops) = Allotted(total, drops)
  BY DEF AlmgrenChriss
<1> QED
  BY <1>1, <1>2, AllottedWhole

LEMMA OneState ==
  ASSUME NEW x \in Nat
  PROVE  << x >> \in [1 .. 1 -> Nat]
OBVIOUS

LEMMA NextChildSound ==
  ASSUME NEW algo \in {"TWAP", "VWAP", "POV", "AC"}, NEW total \in Nat \ {0}, NEW effective \in 0 .. total,
         NEW book \in Books
  PROVE  IsNextChild(algo, total, effective, book)
<1> DEFINE depth == Depth(book.bids) + Depth(book.asks)
           qty == CASE algo = "POV"  -> NextQty(effective, depth)
                    [] algo = "VWAP" -> FirstQty(Vwap(total, <<depth>>))
                    [] algo = "AC"   -> FirstQty(AlmgrenChriss(total, <<1>>))
                    [] OTHER         -> FirstQty(Twap(total, 1, 0))
<1>1. depth \in Nat
  <2>1. book.bids \in Seq(Level) /\ book.asks \in Seq(Level) /\ 0 \in Nat
    BY VenueAssumption
  <2>2. Depth(book.bids) \in Nat
    BY <2>1, WalkBounded
  <2>3. Depth(book.asks) \in Nat
    BY <2>1, WalkBounded
  <2> QED
    BY <2>2, <2>3
<1>2. NextChildQty(algo, total, effective, book) = Least(qty, effective)
  BY Zenon DEF NextChildQty, FirstQty
<1> HIDE DEF depth
<1>3. total \in Nat /\ 1 \in Nat \ {0} /\ 0 \in Nat /\ 1 \in Nat
  OBVIOUS
<1>4. CASE algo = "POV"
  <2>1. qty = NextQty(effective, depth)
    BY <1>4
  <2>2. effective \in Nat
    OBVIOUS
  <2> HIDE DEF qty
  <2>3. qty \in 0 .. effective
    BY <1>1, <2>1, <2>2, NextQtyBounded
  <2>4. NextChildQty(algo, total, effective, book) <= effective
    BY <1>2, <2>2, <2>3 DEF Least
  <2> QED
    BY <1>4, <2>4 DEF IsNextChild
<1>5. CASE algo # "POV"
  <2>1. qty = total
    <3>1. CASE algo = "VWAP"
      <4>1. qty = FirstQty(Vwap(total, <<depth>>))
        BY <3>1
      <4>2. IsWhole(Vwap(total, <<depth>>), total, 1) /\ Vwap(total, <<depth>>) \in Seq(Slices)
        <5>1. << depth >> \in [1 .. 1 -> Nat]
          BY <1>1, OneState
        <5> QED
          BY <1>3, <5>1, VwapWhole
      <4> QED
        BY <4>1, <4>2, OneStateWhole
    <3>2. CASE algo = "AC"
      <4>1. qty = FirstQty(AlmgrenChriss(total, <<1>>))
        BY <3>2
      <4>2. IsWhole(AlmgrenChriss(total, <<1>>), total, 1) /\ AlmgrenChriss(total, <<1>>) \in Seq(Slices)
        <5>1. << 1 >> \in [1 .. 1 -> Nat]
          BY <1>3, OneState
        <5>2. \E i \in 1 .. 1 : << 1 >>[i] > 0
          OBVIOUS
        <5> QED
          BY <1>3, <5>1, <5>2, AlmgrenChrissWhole
      <4> QED
        BY <4>1, <4>2, OneStateWhole
    <3>3. CASE algo = "TWAP"
      <4>1. qty = FirstQty(Twap(total, 1, 0))
        BY <3>3
      <4>2. IsWhole(Twap(total, 1, 0), total, 1) /\ Twap(total, 1, 0) \in Seq(Slices)
        BY <1>3, TwapWhole
      <4> QED
        BY <4>1, <4>2, OneStateWhole
    <3> QED
      BY <1>5, <3>1, <3>2, <3>3
  <2> HIDE DEF qty
  <2>2. NextChildQty(algo, total, effective, book) = effective
    BY <1>2, <2>1 DEF Least
  <2>3. effective <= effective
    OBVIOUS
  <2> QED
    BY <2>2, <2>3 DEF IsNextChild
<1> QED
  BY <1>4, <1>5

\* Whatever the quantity, the number of states, their spacing and their depths:
\* each slicing policy plans the whole quantity, in slices of at least one
\* share at increasing states of the horizon (TWAPSlicer, VWAPSlicer, POVSlicer
\* and AlmgrenChrissSlicer.generate_schedule).
THEOREM SchedulesAreWhole ==
  ASSUME NEW total \in Nat, NEW steps \in Nat \ {0}, NEW gap \in Nat,
         NEW depths \in [1 .. steps -> Nat], NEW drops \in [1 .. steps -> Nat],
         \E i \in 1 .. steps : drops[i] > 0
  PROVE  /\ IsWhole(Twap(total, steps, gap), total, steps)
         /\ IsWhole(Vwap(total, depths), total, steps)
         /\ IsWhole(Pov(total, depths), total, steps)
         /\ IsWhole(AlmgrenChriss(total, drops), total, steps)
<1>1. IsWhole(Twap(total, steps, gap), total, steps)
  BY TwapWhole
<1>2. IsWhole(Vwap(total, depths), total, steps)
  BY VwapWhole
<1>3. IsWhole(Pov(total, depths), total, steps)
  BY PovWhole
<1>4. IsWhole(AlmgrenChriss(total, drops), total, steps)
  BY AlmgrenChrissWhole
<1> QED
  BY <1>1, <1>2, <1>3, <1>4

\* What the run checks of the schedules and of the next child of a parent holds
\* in every state, for every book (generate_schedule, _slice_order).
THEOREM SlicesAlwaysComplete == Spec => []SlicesAreComplete
<1>1. SlicesAreComplete
  <2>1. ASSUME NEW total \in 1 .. 7, NEW steps \in 1 .. 4, NEW gap \in {0, 7, 15, 20, 30},
               NEW depths \in [1 .. steps -> {0, 1, 5}]
        PROVE  /\ IsWhole(Twap(total, steps, gap), total, steps)
               /\ IsWhole(Vwap(total, depths), total, steps)
               /\ IsWhole(Pov(total, depths), total, steps)
               /\ (\E i \in 1 .. steps : depths[i] > 0) => IsWhole(AlmgrenChriss(total, depths), total, steps)
    <3>1. total \in Nat /\ steps \in Nat \ {0} /\ gap \in Nat
      OBVIOUS
    <3>2. depths \in [1 .. steps -> Nat]
      OBVIOUS
    <3> QED
      BY <3>1, <3>2, TwapWhole, VwapWhole, PovWhole, AlmgrenChrissWhole
  <2>2. ASSUME NEW total \in 1 .. 4, NEW effective \in 1 .. 4, NEW book \in Books,
               NEW algo \in {"TWAP", "VWAP", "POV", "AC"}, effective <= total
        PROVE  IsNextChild(algo, total, effective, book)
    <3>1. total \in Nat \ {0} /\ effective \in 0 .. total
      BY <2>2
    <3> QED
      BY <3>1, NextChildSound
  <2> QED
    BY <2>1, <2>2, Zenon DEF SlicesAreComplete
<1> QED
  BY <1>1, PTL
=============================================================================
