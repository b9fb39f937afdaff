------------------------------ MODULE Slicing -------------------------------
(***************************************************************************)
(* How much to send and at which price: the four slicing policies and the  *)
(* three placement policies.  A schedule is a sequence of slices           *)
(* [step, qty]; steps count the market states from 1.                      *)
(***************************************************************************)
EXTENDS Matching

CONSTANTS
  SliceSeconds,      \* TWAPSlicer.interval_seconds
  PovPct,            \* POVSlicer.participation_rate, in hundredths
  OffsetTicks,       \* PassivePlacement.offset_ticks * tick_size
  TickSize,          \* PassivePlacement.tick_size
  SpreadBps,         \* SpreadAdaptivePlacement.aggression_spread_threshold_bps
  ImbalancePct       \* SpreadAdaptivePlacement.imbalance_threshold, in hundredths

ASSUME SlicingAssumption ==
  /\ SliceSeconds \in Nat \ {0} /\ PovPct \in 1 .. 100
  /\ OffsetTicks \in Nat /\ TickSize \in Nat
  /\ SpreadBps \in Nat \ {0} /\ ImbalancePct \in 0 .. 100

NonEmpty(schedule) == At(schedule, {i \in DOMAIN schedule : schedule[i].qty > 0})

\* A schedule that sends the whole quantity, in slices of at least one share,
\* at increasing states of the horizon.
IsWhole(schedule, total, steps) ==
  /\ FoldLeft(+, 0, [i \in DOMAIN schedule |-> schedule[i].qty]) = total
  /\ \A i \in DOMAIN schedule : schedule[i].qty > 0 /\ schedule[i].step \in 1 .. steps
  /\ \A i \in 2 .. Len(schedule) : schedule[i - 1].step < schedule[i].step

-----------------------------------------------------------------------------
(* TWAPSlicer *)

\* _spread_indices
SpreadIndices(slices, steps) ==
  [i \in 1 .. slices |->
     IF slices >= steps THEN i
     ELSE IF slices = 1 THEN 1 ELSE Rounded((i - 1) * (steps - 1), slices - 1) + 1]

\* The number of slices when none is configured; gap: seconds between the
\* first two states.
TwapSlices(steps, gap) ==
  LET dt == IF steps >= 2 THEN Greatest(1, gap) ELSE SliceSeconds
  IN Least(steps, Greatest(1, Rounded(steps * dt, SliceSeconds)))

Twap_RestDropped(total, steps, gap) ==             \* mutant
  LET n == TwapSlices(steps, gap) IN
    NonEmpty([i \in 1 .. n |-> [step |-> SpreadIndices(n, steps)[i], qty |-> total \div n]])

\* TWAPSlicer.generate_schedule
Twap(total, steps, gap) ==
  IF steps = 0 THEN <<>>
  ELSE LET n    == TwapSlices(steps, gap)
           rest == total % n
       IN NonEmpty([i \in 1 .. n |-> [step |-> SpreadIndices(n, steps)[i],
                                      qty  |-> total \div n + (IF i <= rest THEN 1 ELSE 0)]])

-----------------------------------------------------------------------------
(* VWAPSlicer and AlmgrenChrissSlicer: whole shares for fractional weights. *)

\* The floor of each share, and one more for the largest remainders (the later
\* one of two equal ones, which is what argsort reversed gives).
Allotted(total, weights) ==
  LET sum     == FoldLeft(+, 0, weights)
      floor   == [i \in DOMAIN weights |-> (weights[i] * total) \div sum]
      part    == [i \in DOMAIN weights |-> (weights[i] * total) % sum]
      deficit == total - FoldLeft(+, 0, floor)
      above(i) == {j \in DOMAIN weights : part[j] > part[i] \/ (part[j] = part[i] /\ j > i)}
  IN NonEmpty([i \in DOMAIN weights |->
       [step |-> i, qty |-> floor[i] + (IF Cardinality(above(i)) < deficit THEN 1 ELSE 0)]])

\* VWAPSlicer.generate_schedule without a configured profile: weights by the
\* depth of each state, even when there is no depth at all.
Vwap(total, depths) ==
  IF \A i \in DOMAIN depths : depths[i] = 0 THEN Allotted(total, [i \in DOMAIN depths |-> 1])
  ELSE Allotted(total, depths)

\* AlmgrenChrissSlicer.generate_schedule, for the drops of a trajectory that
\* goes from the whole quantity to nothing (_compute_trajectory).
AlmgrenChriss(total, drops) == Allotted(total, drops)

-----------------------------------------------------------------------------
(* POVSlicer *)

\* next_qty
NextQty(remaining, depth) == Greatest(0, Least(remaining, (PovPct * depth) \div 100))

\* generate_schedule: what is left after the last state goes into the last
\* slice, or into the last state when there is no slice.
Pov(total, depths) ==
  LET taken[i \in 0 .. Len(depths)] ==
        IF i = 0 THEN 0 ELSE taken[i - 1] + NextQty(total - taken[i - 1], depths[i])
      slices == NonEmpty([i \in DOMAIN depths |-> [step |-> i, qty |-> taken[i] - taken[i - 1]]])
      left   == total - taken[Len(depths)]
  IN IF left = 0 \/ depths = <<>> THEN slices
     ELSE IF slices = <<>> THEN << [step |-> Len(depths), qty |-> left] >>
     ELSE [slices EXCEPT ![Len(slices)].qty = @ + left]

\* The quantity of the next child in PipelineRunner._slice_order, which asks a
\* policy other than POV for a schedule of the one current state.
NextChildQty(algo, total, effective, book) ==
  LET depth == Depth(book.bids) + Depth(book.asks)
      first(schedule) == IF schedule = <<>> THEN 0 ELSE Head(schedule).qty
      qty == CASE algo = "POV"  -> NextQty(effective, depth)
               [] algo = "VWAP" -> first(Vwap(total, <<depth>>))
               [] algo = "AC"   -> first(AlmgrenChriss(total, <<1>>))
               [] OTHER         -> first(Twap(total, 1, 0))
  IN Least(qty, effective)

\* The next child is never larger than what is not in flight, and is all of it
\* for every policy but POV.
IsNextChild(algo, total, effective, book) ==
  LET qty == NextChildQty(algo, total, effective, book)
  IN qty <= effective /\ (algo # "POV" => qty = effective)

-----------------------------------------------------------------------------
(* Placement: the type, time in force, price and policy name of a child.   *)

\* PlacementPolicy._make_child
MakeChild(type, tif, price, policy) == [type |-> type, tif |-> tif, price |-> price, policy |-> policy]

\* AggressivePlacement.place; without a best price there is no mid either.
AggressiveChild(side, book, market) ==
  LET best == IF side = "BUY" THEN BestAsk(book) ELSE BestBid(book)
  IN IF market THEN MakeChild("MARKET", "IOC", NoPrice, "AggressivePlacement")
     ELSE MakeChild("LIMIT", "IOC", best, "AggressivePlacement")

\* PassivePlacement.place; without a best price there is no mid either.
PassiveChild(side, book, offset) ==
  LET best == IF side = "BUY" THEN BestBid(book) ELSE BestAsk(book)
      dir  == IF side = "BUY" THEN 1 ELSE -1
      from == IF best # NoPrice THEN best ELSE -dir * TickSize
  IN MakeChild("LIMIT", "DAY", from + dir * offset, "PassivePlacement")

\* SpreadAdaptivePlacement._compute_aggression and the threshold of place:
\* half of the spread score and half of the imbalance score, halved again when
\* the book leans against the order, against a half.
IsAggressive(side, book) ==
  LET bid == Depth(book.bids)
      ask == Depth(book.asks)
      lean == bid - ask
      mid2 == Mid2(book)
      unit == 3 * SpreadBps * mid2
      over == 20000 * (BestAsk(book) - BestBid(book)) - SpreadBps * mid2
      spreadScore == IF mid2 <= 0 THEN [num |-> 1, den |-> 2]
                     ELSE [num |-> Least(unit, Greatest(0, unit - over)), den |-> unit]
      imbalance2  == IF bid + ask = 0 THEN 1
                     ELSE IF 100 * Abs(lean) >= ImbalancePct * (bid + ask) THEN 2 ELSE 0
      against == 100 * (IF side = "BUY" THEN -lean ELSE lean) > ImbalancePct * (bid + ask)
  IN 2 * spreadScore.num + imbalance2 * spreadScore.den
       >= (IF against THEN 4 ELSE 2) * spreadScore.den

\* SpreadAdaptivePlacement.place; the child is marked with the adaptive policy.
AdaptiveChild(side, book) ==
  LET placed == IF IsAggressive(side, book) THEN AggressiveChild(side, book, FALSE)
                ELSE PassiveChild(side, book, 0)
  IN [placed EXCEPT !.policy = "SpreadAdaptivePlacement"]

\* resolve_placement_policy: a valid placement mode of the hints replaces the
\* configured policy; a passive replacement has the default offset ("joining").
Resolve(configured, mode) ==
  CASE mode \in {"passive_join", "passive_only"} ->
         IF configured = "passive" THEN "passive" ELSE "joining"
    [] mode = "aggressive_cross" -> IF configured = "market" THEN "market" ELSE "aggressive"
    [] mode = "adaptive"         -> "adaptive"
    [] OTHER                     -> configured

\* The child of PlacementPolicy.place under the resolved policy.
PlacedChild(policy, side, book) ==
  CASE policy = "passive"    -> PassiveChild(side, book, OffsetTicks)
    [] policy = "joining"    -> PassiveChild(side, book, 0)
    [] policy = "adaptive"   -> AdaptiveChild(side, book)
    [] policy = "aggressive" -> AggressiveChild(side, book, FALSE)
    [] policy = "market"     -> AggressiveChild(side, book, TRUE)
=============================================================================
