------------------------ MODULE OrderLifecycleProofs ------------------------
(***************************************************************************)
(* Proofs that OrderLifecycle keeps its invariants for every number of     *)
(* children, quantity, latency set and configuration.  Each theorem adds   *)
(* one layer to the inductive invariant and may use those before it:       *)
(*                                                                         *)
(*   Typed            TypeOK, and no child fills more than its quantity    *)
(*   Structure        what the loops' lists (todo, exec, open) hold        *)
(*   NoOverfill       filled plus committed quantity is within the total   *)
(*   FillAccounting   the parent's fills are its children's                *)
(*   ListInSync       open is the set of active children                   *)
(*   RequestsCounted  the counter of cancels in flight is right            *)
(*   CancelAhead      no due cancel is left behind                         *)
(***************************************************************************)
EXTENDS OrderLifecycle, DataTheorems

-----------------------------------------------------------------------------
(* Layer 1: types *)

\* No child fills more than its quantity.
ChildFillBounded == \A c \in Child : child[c].filled <= child[c].qty

Typed == TypeOK /\ ChildFillBounded

\* The observed timestamp is a natural number.
LEMMA ObservedType ==
  ASSUME now \in Nat
  PROVE  Observed \in Nat
<1>1. TickMs \in Nat /\ TickMs > 0 /\ Delay \in Nat
  BY LifecycleAssumption
<1>2. CASE now < Delay
  BY <1>2 DEF Observed
<1>3. CASE ~(now < Delay)
  <2>1. now - Delay \in Nat
    BY <1>1, <1>3
  <2>2. \A x \in Nat : x \div TickMs \in Nat
    BY <1>1
  <2>3. \A x, y \in Nat : x * y \in Nat
    OBVIOUS
  <2>4. QED
    BY <1>1, <1>3, <2>1, <2>2, <2>3 DEF Observed
<1>4. QED
  BY <1>2, <1>3

\* The empty record, and what cancelling a child does to its record.
LEMMA NoChildType == NoChild \in ChildRecord
BY LifecycleAssumption DEF NoChild, ChildRecord, ActiveStatus, FinalStatus

LEMMA CancelledType ==
  ASSUME NEW ch \in ChildRecord
  PROVE  /\ Cancelled(ch) \in ChildRecord
         /\ Cancelled(ch).status = "CANCELLED" /\ ~Cancelled(ch).pending
         /\ Cancelled(ch).qty = ch.qty /\ Cancelled(ch).filled = ch.filled
BY DEF Cancelled, ChildRecord, ActiveStatus, FinalStatus

\* Finalizing the due cancels changes a child by cancelling it, or not at all.
LEMMA FinalizedType ==
  ASSUME Typed
  PROVE  /\ Finalized \in [Child -> ChildRecord]
         /\ \A c \in Child : Finalized[c].filled = child[c].filled /\ Finalized[c].qty = child[c].qty
BY CancelledType DEF Typed, TypeOK, Finalized

\* The placement policy in effect, and the orders it places.
LEMMA PolicyType ==
  ASSUME TypeOK
  PROVE  EffectivePolicy \in Policies /\ TifOf(EffectivePolicy) \subseteq {"DAY", "IOC"}
BY LifecycleAssumption DEF TypeOK, EffectivePolicy, TifOf, Policies

\* A subset of the children is finite, and its size is a natural number.
LEMMA ChildrenFinite ==
  ASSUME NEW S, S \subseteq Child
  PROVE  IsFiniteSet(S) /\ Cardinality(S) \in Nat
<1>1. IsFiniteSet(1 .. MaxChild)
  BY LifecycleAssumption, FS_Interval
<1>2. QED
  BY <1>1, FS_Subset, FS_CardinalityType DEF Child

LEMMA PendingLessType ==
  ASSUME TypeOK, NEW k \in Nat
  PROVE  PendingLess(k) \in Nat
BY DEF TypeOK, PendingLess

THEOREM TypedInit == Init => Typed
<1> SUFFICES ASSUME Init PROVE Typed
  OBVIOUS
<1>1. child \in [Child -> ChildRecord] /\ \A c \in Child : child[c] = NoChild
  BY NoChildType DEF Init
<1>2. ChildFillBounded
  BY <1>1 DEF ChildFillBounded, NoChild
<1>3. parent \in [active : BOOLEAN, total : 0 .. MaxQty, filled : 0 .. MaxQty, mode : ModeHints]
  BY LifecycleAssumption DEF Init, NoParent, ModeHints
<1>4. /\ now \in 0 .. MaxTime
      /\ n \in 0 .. MaxChild
      /\ pending \in Nat
      /\ lastSent \in Nat \cup {NoTime}
  BY LifecycleAssumption DEF Init
<1>5. market \in [tradable : BOOLEAN, halt : BOOLEAN, vi : BOOLEAN, mid : BOOLEAN]
  BY DEF Init
<1>6. QED
  BY <1>1, <1>2, <1>3, <1>4, <1>5 DEF Init, Typed, TypeOK

\* The children the actions build, and those they change in place.
LEMMA ReplacementType ==
  ASSUME Typed, NEW c \in Child, NEW lat \in SubmitLatency
  PROVE  /\ Replacement(c, lat) \in ChildRecord
         /\ Replacement(c, lat).status = "PENDING" /\ ~Replacement(c, lat).pending
         /\ Replacement(c, lat).qty = Remaining(c) /\ Replacement(c, lat).filled = 0
<1> USE LifecycleAssumption DEF Typed, TypeOK
<1>1. Observed \in Nat /\ now \in Nat /\ now + lat \in Nat
  BY ObservedType
<1>2. Remaining(c) \in 0 .. MaxQty
  BY DEF Remaining, ChildFillBounded, ChildRecord
<1>3. child[c].tif \in {"DAY", "IOC"} /\ child[c].passive \in BOOLEAN /\ child[c].reprices + 1 \in Nat
  BY DEF ChildRecord
<1>4. Replacement(c, lat) \in ChildRecord
  BY <1>1, <1>2, <1>3, NoChildType DEF Replacement, ChildRecord, ActiveStatus
<1>5. QED
  BY <1>4 DEF Replacement, NoChild

LEMMA SlicedType ==
  ASSUME Typed, NEW q \in 1 .. MaxQty, NEW tif \in TifOf(EffectivePolicy), NEW lat \in SubmitLatency
  PROVE  /\ Sliced(q, tif, lat) \in ChildRecord
         /\ Sliced(q, tif, lat).status = "PENDING" /\ ~Sliced(q, tif, lat).pending
         /\ Sliced(q, tif, lat).qty = q /\ Sliced(q, tif, lat).filled = 0
<1> USE LifecycleAssumption DEF Typed, TypeOK
<1>1. Observed \in Nat /\ now \in Nat /\ now + lat \in Nat /\ q \in 0 .. MaxQty
  BY ObservedType
<1>2. tif \in {"DAY", "IOC"} /\ EffectivePolicy \in Policies
  BY PolicyType
<1>3. Sliced(q, tif, lat) \in ChildRecord
  BY <1>1, <1>2, NoChildType DEF Sliced, ChildRecord, ActiveStatus
<1>4. QED
  BY <1>3 DEF Sliced, NoChild

LEMMA CancelRequestedType ==
  ASSUME Typed, NEW c \in Child, NEW lat \in CancelLatency
  PROVE  /\ CancelRequested(c, lat) \in ChildRecord
         /\ CancelRequested(c, lat).status = child[c].status
         /\ CancelRequested(c, lat).qty = child[c].qty
         /\ CancelRequested(c, lat).filled = child[c].filled
         /\ CancelRequested(c, lat).pending = TRUE
         /\ CancelRequested(c, lat).cancelAt = now + lat
<1>1. now + lat \in Nat
  BY LifecycleAssumption DEF Typed, TypeOK
<1>2. child[c] \in ChildRecord
  BY DEF Typed, TypeOK
<1>3. QED
  BY <1>1, <1>2 DEF CancelRequested, ChildRecord

LEMMA MatchedType ==
  ASSUME Typed, NEW c \in Child, NEW q \in 1 .. MaxQty, NEW marketable \in BOOLEAN,
         q <= Remaining(c)
  PROVE  /\ Matched(c, q, marketable) \in ChildRecord
         /\ Matched(c, q, marketable).status = IF Completes(c, q) THEN "FILLED" ELSE "PARTIAL"
         /\ Matched(c, q, marketable).qty = child[c].qty
         /\ Matched(c, q, marketable).filled = child[c].filled + q
         /\ Matched(c, q, marketable).pending = (child[c].pending /\ ~Completes(c, q))
         /\ Matched(c, q, marketable).cancelAt = child[c].cancelAt
<1> USE LifecycleAssumption DEF Typed, TypeOK
<1>1. child[c] \in ChildRecord
  OBVIOUS
<1>2. child[c].filled + q \in 0 .. MaxQty
  BY <1>1 DEF Remaining, ChildFillBounded, ChildRecord
<1>3. Queued(c, marketable) \in BOOLEAN
  BY <1>1 DEF Queued, ChildRecord
<1>4. Completes(c, q) \in BOOLEAN
  BY DEF Completes
<1>5. /\ (IF Completes(c, q) THEN "FILLED" ELSE "PARTIAL") \in ActiveStatus \cup FinalStatus \cup {"NONE"}
      /\ (child[c].pending /\ ~Completes(c, q)) \in BOOLEAN
      /\ (child[c].rested \/ ~marketable) \in BOOLEAN
  BY DEF ActiveStatus, FinalStatus
<1>6. Matched(c, q, marketable) \in ChildRecord
  <2>1. \A f \in 0 .. MaxQty, s \in ActiveStatus \cup FinalStatus \cup {"NONE"},
           p, u, r \in BOOLEAN :
          [child[c] EXCEPT !.filled = f, !.status = s, !.pending = p, !.queued = u, !.rested = r]
             \in ChildRecord
    BY <1>1 DEF ChildRecord
  <2>2. QED
    BY <1>2, <1>3, <1>5, <2>1, Zenon DEF Matched
<1>7. QED
  BY <1>1, <1>6 DEF Matched, ChildRecord

\* A decision on an open child.
LEMMA TypedDecide ==
  ASSUME Typed, Decide
  PROVE  Typed'
<1> USE LifecycleAssumption DEF Typed, TypeOK
<1>1. PICK c \in todo : /\ todo' = Rest(c)
                        /\ DecideKeep(c) \/ DecideCancel(c) \/ DecideReplace(c)
  BY DEF Decide
<1>2. c \in Child /\ child[c] \in ChildRecord
  BY <1>1
<1>3. Observed \in Nat /\ now \in Nat
  BY ObservedType
<1>4. UNCHANGED <<pc, now, market, halted, parent, open>> /\ todo' \subseteq Child
  BY <1>1 DEF Decide, Rest
<1>5. CASE DecideKeep(c)
  BY <1>2, <1>4, <1>5 DEF DecideKeep, ChildFillBounded
<1>6. CASE DecideCancel(c)
  <2>1. PICK lat \in CancelLatency : child' = [child EXCEPT ![c] = CancelRequested(c, lat)]
    BY <1>6 DEF DecideCancel
  <2>3. child' \in [Child -> ChildRecord]
    BY <1>2, <2>1, CancelRequestedType
  <2>4. ChildFillBounded'
    BY <1>2, <2>1, CancelRequestedType DEF ChildFillBounded
  <2>5. pending' \in Nat /\ exec' \subseteq Child /\ UNCHANGED <<n, lastSent>>
    BY <1>2, <1>6 DEF DecideCancel
  <2>6. QED
    BY <1>4, <2>3, <2>4, <2>5
<1>7. CASE DecideReplace(c)
  <2>1. PICK lat \in SubmitLatency :
          child' = [child EXCEPT ![c] = Cancelled(@), ![n + 1] = Replacement(c, lat)]
    BY <1>7 DEF DecideReplace
  <2>2. /\ n < MaxChild
        /\ exec' = exec \cup {n + 1} /\ n' = n + 1
        /\ lastSent' = Observed /\ pending' = pending
    BY <1>7 DEF DecideReplace
  <2>3. n + 1 \in Child /\ n + 1 \in 0 .. MaxChild
    BY <2>2 DEF Child
  <2>4. child' \in [Child -> ChildRecord]
    BY <1>2, <2>1, <2>3, CancelledType, ReplacementType
  <2>5. ChildFillBounded'
    <3>1. Remaining(c) >= 0
      BY <1>2 DEF Remaining, ChildFillBounded, ChildRecord
    <3>2. QED
      BY <1>2, <2>1, <2>3, <3>1, CancelledType, ReplacementType DEF ChildFillBounded
  <2>6. QED
    BY <1>3, <1>4, <2>2, <2>3, <2>4, <2>5
<1>8. QED
  BY <1>1, <1>5, <1>6, <1>7

\* One child of the fill loop.
LEMMA TypedFill ==
  ASSUME Typed, Fill
  PROVE  Typed'
<1> USE LifecycleAssumption DEF Typed, TypeOK
<1>1. PICK c \in todo : /\ todo' = Rest(c)
                        /\ \/ FillCancelled(c) \/ FillNotArrived(c) \/ FillQueued(c)
                           \/ FillUnmatchedIoc(c) \/ FillUnmatched(c) \/ FillMatched(c)
  BY DEF Fill
<1>2. c \in Child /\ child[c] \in ChildRecord
  BY <1>1
<1>3. UNCHANGED <<pc, now, market, halted, n, open, exec, lastSent>> /\ todo' \subseteq Child
  BY <1>1 DEF Fill, Rest
<1>4. Cleared(c) \in Nat
  BY DEF Cleared
<1>5. ASSUME child' = [child EXCEPT ![c] = Cancelled(@)]
      PROVE  child' \in [Child -> ChildRecord] /\ ChildFillBounded'
  BY <1>2, <1>5, CancelledType DEF ChildFillBounded
<1>6. CASE FillCancelled(c) \/ FillUnmatchedIoc(c)
  BY <1>3, <1>4, <1>5, <1>6, PendingLessType DEF FillCancelled, FillUnmatchedIoc
<1>7. CASE FillNotArrived(c)
  <2>1. child' \in [Child -> ChildRecord]
    BY <1>2, <1>7 DEF FillNotArrived, ChildRecord, ActiveStatus
  <2>2. ChildFillBounded'
    BY <1>2, <1>7 DEF FillNotArrived, ChildFillBounded, ChildRecord
  <2>3. QED
    BY <1>3, <1>7, <2>1, <2>2 DEF FillNotArrived
<1>8. CASE FillQueued(c) \/ FillUnmatched(c)
  <2>1. PICK queued \in BOOLEAN :
          child' = [child EXCEPT ![c].status = "OPEN", ![c].queued = queued]
    BY <1>2, <1>8 DEF FillQueued, FillUnmatched, Queued, ChildRecord
  <2>2. child' \in [Child -> ChildRecord]
    BY <1>2, <2>1 DEF ChildRecord, ActiveStatus
  <2>3. ChildFillBounded'
    BY <1>2, <2>1 DEF ChildFillBounded, ChildRecord
  <2>4. QED
    BY <1>3, <1>8, <2>2, <2>3 DEF FillQueued, FillUnmatched
<1>9. CASE FillMatched(c)
  <2>1. PICK q \in 1 .. MaxQty, marketable \in BOOLEAN :
          /\ q <= Remaining(c) /\ q <= ParentRemaining
          /\ child' = [child EXCEPT ![c] = Matched(c, q, marketable)]
          /\ pending' = PendingLess(IF Completes(c, q) THEN Cleared(c) ELSE 0)
          /\ parent' = ParentFilled(c, q)
    BY <1>9, Zenon DEF FillMatched
  <2>2. child' \in [Child -> ChildRecord]
    BY <1>2, <2>1, MatchedType
  <2>3. ChildFillBounded'
    <3>1. child[c].filled + q <= child[c].qty
      BY <1>2, <2>1 DEF Remaining, ChildRecord
    <3>2. QED
      BY <1>2, <2>1, <3>1, MatchedType DEF ChildFillBounded
  <2>4. pending' \in Nat
    BY <1>4, <2>1, PendingLessType
  <2>5. parent' \in [active : BOOLEAN, total : 0 .. MaxQty, filled : 0 .. MaxQty, mode : ModeHints]
    BY <2>1 DEF ParentFilled, ParentRemaining
  <2>6. QED
    BY <1>3, <2>2, <2>3, <2>4, <2>5
<1>10. QED
  BY <1>1, <1>6, <1>7, <1>8, <1>9

\* Processing the open orders: due cancels and, on a halt, new requests.
LEMMA TypedOpen ==
  ASSUME Typed, ProcessOpenOrders
  PROVE  Typed'
<1> USE LifecycleAssumption DEF Typed, TypeOK
<1>1. Finalized \in [Child -> ChildRecord]
  BY FinalizedType
<1>2. /\ Due \subseteq Child /\ Live \subseteq Child /\ Candidates \subseteq Child
      /\ Cardinality(Due) \in Nat
  BY ChildrenFinite DEF Due, Live, Candidates
<1>3. PendingLess(Cardinality(Due)) \in Nat
  BY <1>2, PendingLessType
<1>4. ASSUME child' = Finalized
      PROVE  ChildFillBounded'
  BY <1>4, FinalizedType DEF ChildFillBounded
<1>5. CASE OpenAllFinalized
  <2>1. open' \subseteq Child
    BY <1>5 DEF OpenAllFinalized, ActiveChildren
  <2>2. QED
    BY <1>1, <1>3, <1>4, <1>5, <2>1 DEF OpenAllFinalized
<1>6. CASE OpenActionable
  BY <1>1, <1>2, <1>3, <1>4, <1>6 DEF OpenActionable
<1>7. CASE OpenNotActionable
  <2>1. PICK lat \in [HaltCancels -> CancelLatency] :
           child' = [c \in Child |->
                       IF c \in HaltCancels THEN CancelRequested(c, lat[c]) ELSE Finalized[c]]
    BY <1>7 DEF OpenNotActionable
  <2>2. HaltCancels \subseteq Child /\ Cardinality(HaltCancels) \in Nat
    BY <1>2, ChildrenFinite DEF HaltCancels
  <2>3. child' \in [Child -> ChildRecord] /\ ChildFillBounded'
    BY <1>1, <2>1, <2>2, FinalizedType, CancelRequestedType DEF ChildFillBounded
  <2>4. pending' \in Nat /\ UNCHANGED <<now, market, halted, parent, n, todo, exec, lastSent>>
    BY <1>3, <1>7, <2>2 DEF OpenNotActionable
  <2>5. open' \subseteq Child /\ pc' = "route"
    BY <1>7 DEF OpenNotActionable, ActiveChildren
  <2>6. QED
    BY <2>3, <2>4, <2>5
<1>8. QED
  BY <1>5, <1>6, <1>7 DEF ProcessOpenOrders

\* A new parent order, or a new child of it.
LEMMA TypedRoute ==
  ASSUME Typed, CreateParentOrder \/ SliceOrder
  PROVE  Typed'
<1> USE LifecycleAssumption DEF Typed, TypeOK
<1>1. CASE CreateParentOrder
  <2>1. child' \in [Child -> ChildRecord] /\ ChildFillBounded'
    BY <1>1, NoChildType DEF CreateParentOrder, ChildFillBounded, NoChild
  <2>2. parent' \in [active : BOOLEAN, total : 0 .. MaxQty, filled : 0 .. MaxQty, mode : ModeHints]
    BY <1>1 DEF CreateParentOrder
  <2>3. QED
    BY <1>1, <2>1, <2>2 DEF CreateParentOrder
<1>2. CASE SliceOrder
  <2>1. PICK q \in 1 .. MaxQty, tif \in TifOf(EffectivePolicy), lat \in SubmitLatency :
          child' = [child EXCEPT ![n + 1] = Sliced(q, tif, lat)]
    BY <1>2 DEF SliceOrder
  <2>2. n < MaxChild /\ n' = n + 1 /\ todo' = {n + 1} /\ lastSent' = Observed
    BY <1>2 DEF SliceOrder
  <2>3. n + 1 \in Child /\ n + 1 \in 0 .. MaxChild
    BY <2>2 DEF Child
  <2>4. child' \in [Child -> ChildRecord] /\ ChildFillBounded'
    BY <2>1, <2>3, SlicedType DEF ChildFillBounded
  <2>5. Observed \in Nat
    BY ObservedType
  <2>6. QED
    BY <1>2, <2>2, <2>3, <2>4, <2>5 DEF SliceOrder
<1>3. QED
  BY <1>1, <1>2

LEMMA TypedNext ==
  ASSUME Typed, [Next]_vars
  PROVE  Typed'
<1> USE LifecycleAssumption DEF Typed, TypeOK
<1>1. CASE Tick
  <2>1. now' \in 0 .. MaxTime
    BY <1>1 DEF Tick
  <2>2. market' \in [tradable : BOOLEAN, halt : BOOLEAN, vi : BOOLEAN, mid : BOOLEAN] /\ halted' \in BOOLEAN
    BY <1>1 DEF Tick
  <2>3. pc' \in {"open", "route"}
    BY <1>1 DEF Tick
  <2>4. QED
    BY <1>1, <2>1, <2>2, <2>3 DEF Tick, ChildFillBounded
<1>2. CASE ProcessOpenOrders
  BY <1>2, TypedOpen
<1>3. CASE Decide
  BY <1>3, TypedDecide
<1>4. CASE DecideDone
  BY <1>4 DEF DecideDone, ChildFillBounded
<1>5. CASE Fill
  BY <1>5, TypedFill
<1>6. CASE FillDone
  <2>1. parent' \in [active : BOOLEAN, total : 0 .. MaxQty, filled : 0 .. MaxQty, mode : ModeHints]
    <3>1. (ParentRemaining > 0) \in BOOLEAN
      BY DEF ParentRemaining
    <3>2. parent' = [parent EXCEPT !.active = ParentRemaining > 0]
      BY <1>6 DEF FillDone
    <3>3. QED
      BY <3>1, <3>2
  <2>2. open' \subseteq Child
    BY <1>6 DEF FillDone, ActiveChildren
  <2>3. QED
    BY <1>6, <2>1, <2>2 DEF FillDone, ChildFillBounded
<1>7. CASE SkipTick \/ NoOrder
  BY <1>7 DEF SkipTick, NoOrder, ChildFillBounded
<1>8. CASE CreateParentOrder \/ SliceOrder
  BY <1>8, TypedRoute
<1>9. CASE SliceNothing
  BY <1>9 DEF SliceNothing, ActiveChildren, ChildFillBounded
<1>10. CASE Finished \/ UNCHANGED vars
  BY <1>10 DEF Finished, vars, ChildFillBounded
<1>11. QED
  BY <1>1, <1>2, <1>3, <1>4, <1>5, <1>6, <1>7, <1>8, <1>9, <1>10 DEF Next

THEOREM TypedAlways == Spec => []Typed
BY TypedInit, TypedNext, PTL DEF Spec

\* Every reachable state is well formed, whatever the sizes and latencies.
THEOREM TypeCorrect == Spec => []TypeOK
<1>1. Typed => TypeOK
  BY DEF Typed
<1>2. QED
  BY <1>1, TypedAlways, PTL

-----------------------------------------------------------------------------
(* Layer 2: what the loops' lists hold *)

\* Positions of the list not used yet are empty, an active child has something
\* left to fill, and the lists hold active children only, each where its loop
\* still has to visit it.
UnusedSlots == \A c \in Child : c > n => child[c] = NoChild

Unfinished == \A c \in Child : IsActive(c) => child[c].filled < child[c].qty

LoopLists ==
  /\ todo \subseteq ActiveChildren /\ exec \subseteq ActiveChildren
  /\ todo \cap exec = {}
  /\ pc \notin {"decide", "fill", "first"} => todo = {}
  /\ pc # "decide" => exec = {}
  /\ pc \in {"tick", "open", "route"} =>
       open \subseteq ActiveChildren /\ (~parent.active => open = {})
  /\ pc = "open" => parent.active

Structure == UnusedSlots /\ Unfinished /\ LoopLists

LEMMA StructureInit == Init => Structure
BY DEF Init, Structure, UnusedSlots, Unfinished, LoopLists, IsActive, ActiveStatus,
       ActiveChildren, NoChild

\* An unused position is not active.
LEMMA ActiveUsed ==
  ASSUME Typed, Structure, NEW c \in Child, IsActive(c)
  PROVE  c <= n
<1>1. ~(c > n)
  BY DEF Structure, UnusedSlots, IsActive, ActiveStatus, NoChild
<1>2. c \in Int /\ n \in Int
  BY LifecycleAssumption DEF Typed, TypeOK, Child
<1>3. QED
  BY <1>1, <1>2

LEMMA StructureOpen ==
  ASSUME Typed, Structure, ProcessOpenOrders
  PROVE  Structure'
<1>1. /\ pc = "open" /\ open \subseteq ActiveChildren /\ todo = {} /\ exec = {}
      /\ parent.active
  BY DEF ProcessOpenOrders, OpenAllFinalized, OpenNotActionable, OpenActionable, Structure, LoopLists
<1>2. Due \subseteq open /\ Live = open \ Due /\ n' = n
  BY DEF Due, Live, ProcessOpenOrders, OpenAllFinalized, OpenNotActionable, OpenActionable
<1>3. \A c \in Child : c \notin open => Finalized[c] = child[c]
  BY <1>2 DEF Finalized
<1>4. \A c \in Child : c \notin Due => Finalized[c] = child[c]
  BY DEF Finalized
<1>5. \A c \in Due : Finalized[c].status = "CANCELLED"
  BY <1>1, <1>2, CancelledType DEF Finalized, ActiveChildren, Typed, TypeOK
<1>6. \A c \in Child : c > n => c \notin open
  BY <1>1, ActiveUsed DEF ActiveChildren, Typed, TypeOK, Child
<1>7. CASE child' = Finalized
  <2>1. UnusedSlots'
    BY <1>2, <1>3, <1>6, <1>7 DEF Structure, UnusedSlots
  <2>2. Unfinished' /\ ActiveChildren' = ActiveChildren \ Due
    BY <1>4, <1>5, <1>7 DEF Structure, Unfinished, IsActive, ActiveChildren, ActiveStatus
  <2>3. LoopLists'
    <3>1. CASE OpenAllFinalized
      BY <1>1, <3>1 DEF OpenAllFinalized, LoopLists
    <3>2. CASE OpenActionable
      BY <1>1, <1>2, <2>2, <3>2 DEF OpenActionable, LoopLists, Candidates
    <3>3. CASE OpenNotActionable
      BY <1>1, <1>2, <2>2, <3>3 DEF OpenNotActionable, LoopLists
    <3>4. QED
      BY <3>1, <3>2, <3>3 DEF ProcessOpenOrders
  <2>4. QED
    BY <2>1, <2>2, <2>3 DEF Structure
<1>8. CASE OpenNotActionable
  <2>1. PICK lat \in [HaltCancels -> CancelLatency] :
           child' = [c \in Child |->
                       IF c \in HaltCancels THEN CancelRequested(c, lat[c]) ELSE Finalized[c]]
    BY <1>8 DEF OpenNotActionable
  <2>2. HaltCancels \subseteq Live
    BY DEF HaltCancels
  <2>3. \A c \in HaltCancels : child'[c].status = child[c].status /\ child'[c].qty = child[c].qty
                               /\ child'[c].filled = child[c].filled
    BY <1>1, <1>2, <2>1, <2>2, CancelRequestedType DEF ActiveChildren
  <2>4. \A c \in Child : c \notin HaltCancels => child'[c] = Finalized[c]
    BY <2>1
  <2>5. UnusedSlots'
    BY <1>2, <1>3, <1>6, <2>2, <2>4 DEF Structure, UnusedSlots
  <2>6. Unfinished' /\ ActiveChildren' = ActiveChildren \ Due
    BY <1>2, <1>4, <1>5, <2>2, <2>3, <2>4 DEF Structure, Unfinished, IsActive, ActiveChildren, ActiveStatus
  <2>7. LoopLists'
    BY <1>1, <1>2, <1>8, <2>6 DEF OpenNotActionable, LoopLists
  <2>8. QED
    BY <2>5, <2>6, <2>7 DEF Structure
<1>9. QED
  BY <1>7, <1>8 DEF ProcessOpenOrders, OpenAllFinalized, OpenActionable

LEMMA StructureDecide ==
  ASSUME Typed, Structure, Decide
  PROVE  Structure'
<1>1. PICK c \in todo : /\ todo' = todo \ {c}
                        /\ DecideKeep(c) \/ DecideCancel(c) \/ DecideReplace(c)
  BY DEF Decide, Rest
<1>2. /\ c \in Child /\ child[c] \in ChildRecord /\ IsActive(c)
      /\ child \in [Child -> ChildRecord]
      /\ n \in 0 .. MaxChild /\ MaxChild \in Nat
  BY <1>1, LifecycleAssumption DEF Structure, LoopLists, ActiveChildren, Typed, TypeOK
<1>3. pc = "decide" /\ pc' = pc
  BY DEF Decide
<1>4. c <= n
  BY <1>2, ActiveUsed
<1>5. CASE DecideKeep(c)
  <2>1. child' = child /\ n' = n /\ exec' = exec \cup {c}
    BY <1>5 DEF DecideKeep
  <2>2. UnusedSlots' /\ Unfinished' /\ ActiveChildren' = ActiveChildren
    BY <2>1 DEF Structure, UnusedSlots, Unfinished, IsActive, ActiveChildren
  <2>3. QED
    BY <1>1, <1>3, <2>1, <2>2 DEF Structure, LoopLists
<1>6. CASE DecideCancel(c)
  <2>1. PICK lat \in CancelLatency : child' = [child EXCEPT ![c] = CancelRequested(c, lat)]
    BY <1>6 DEF DecideCancel
  <2>2. n' = n /\ exec' = exec \cup {c}
    BY <1>6 DEF DecideCancel
  <2>3. UnusedSlots'
    BY <1>2, <1>4, <2>1, <2>2 DEF Structure, UnusedSlots, Child
  <2>4. Unfinished' /\ ActiveChildren' = ActiveChildren
    BY <1>2, <2>1, CancelRequestedType DEF Structure, Unfinished, IsActive, ActiveChildren
  <2>5. QED
    BY <1>1, <1>3, <2>2, <2>3, <2>4 DEF Structure, LoopLists
<1>7. CASE DecideReplace(c)
  <2>1. PICK lat \in SubmitLatency :
          child' = [child EXCEPT ![c] = Cancelled(@), ![n + 1] = Replacement(c, lat)]
    BY <1>7 DEF DecideReplace
  <2>2. n < MaxChild /\ n' = n + 1 /\ exec' = exec \cup {n + 1}
    BY <1>7 DEF DecideReplace
  <2>3. n + 1 \in Child /\ c # n + 1
    BY <1>2, <1>4, <2>2 DEF Child
  <2>4. /\ child'[n + 1] = Replacement(c, lat)
        /\ child'[c] = Cancelled(child[c])
        /\ \A d \in Child \ {c, n + 1} : child'[d] = child[d]
    BY <1>2, <2>1, <2>3
  <2>5. ~IsActive(n + 1)
    <3>1. n + 1 > n
      BY <1>2
    <3>2. child[n + 1] = NoChild
      BY <2>3, <3>1 DEF Structure, UnusedSlots
    <3>3. QED
      BY <3>2 DEF IsActive, ActiveStatus, NoChild
  <2>6. UnusedSlots'
    BY <1>2, <1>4, <2>2, <2>4 DEF Structure, UnusedSlots, Child
  <2>7. Remaining(c) > 0
    BY <1>2 DEF Structure, Unfinished, Remaining, ChildRecord
  <2>8. Unfinished' /\ ActiveChildren' = (ActiveChildren \ {c}) \cup {n + 1}
    BY <1>2, <2>3, <2>4, <2>7, CancelledType, ReplacementType
       DEF Structure, Unfinished, IsActive, ActiveChildren, ActiveStatus
  <2>9. n + 1 \notin todo
    BY <2>5 DEF Structure, LoopLists, ActiveChildren
  <2>10. c \notin exec
    BY <1>1 DEF Structure, LoopLists
  <2>11. QED
    BY <1>1, <1>3, <2>2, <2>6, <2>8, <2>9, <2>10 DEF Structure, LoopLists
<1>8. QED
  BY <1>1, <1>5, <1>6, <1>7

\* What one step of the fill loop does to the child it visits: it closes it, or
\* leaves it active with no more to fill than before.
LEMMA FillEffect ==
  ASSUME Typed, Structure, Fill
  PROVE  \E c \in todo :
           /\ todo' = todo \ {c}
           /\ c \in Child /\ IsActive(c)
           /\ \A d \in Child \ {c} : child'[d] = child[d]
           /\ child'[c].qty = child[c].qty
           /\ \/ /\ parent' = parent /\ child'[c].filled = child[c].filled
                 /\ child'[c].pending => child[c].pending /\ child'[c].cancelAt = child[c].cancelAt
                 /\ \/ /\ child'[c].status = "CANCELLED" /\ ~child'[c].pending
                       /\ pending' = PendingLess(Cleared(c))
                    \/ /\ child'[c].status \in ActiveStatus
                       /\ child'[c].pending = child[c].pending
                       /\ pending' = pending
              \/ \E q \in 1 .. MaxQty :
                   /\ q <= Remaining(c) /\ q <= ParentRemaining
                   /\ parent' = [parent EXCEPT !.filled = @ + q]
                   /\ child'[c].filled = child[c].filled + q
                   /\ child'[c].status = IF Completes(c, q) THEN "FILLED" ELSE "PARTIAL"
                   /\ child'[c].pending = (child[c].pending /\ ~Completes(c, q))
                   /\ child'[c].cancelAt = child[c].cancelAt
                   /\ pending' = PendingLess(IF Completes(c, q) THEN Cleared(c) ELSE 0)
<1>1. PICK c \in todo : /\ todo' = todo \ {c}
                        /\ \/ FillCancelled(c) \/ FillNotArrived(c) \/ FillQueued(c)
                           \/ FillUnmatchedIoc(c) \/ FillUnmatched(c) \/ FillMatched(c)
  BY DEF Fill, Rest
<1>2. c \in Child /\ child[c] \in ChildRecord /\ IsActive(c) /\ child \in [Child -> ChildRecord]
  BY <1>1 DEF Structure, LoopLists, ActiveChildren, Typed, TypeOK
<1>3. CASE FillCancelled(c) \/ FillUnmatchedIoc(c)
  <2>1. /\ child' = [child EXCEPT ![c] = Cancelled(@)] /\ parent' = parent
        /\ pending' = PendingLess(Cleared(c))
    BY <1>3 DEF FillCancelled, FillUnmatchedIoc
  <2>2. child'[c] = Cancelled(child[c]) /\ \A d \in Child \ {c} : child'[d] = child[d]
    BY <1>2, <2>1
  <2>3. QED
    BY <1>1, <1>2, <2>1, <2>2, CancelledType
<1>4. CASE FillNotArrived(c) \/ FillQueued(c) \/ FillUnmatched(c)
  <2>1. /\ \/ child' = [child EXCEPT ![c].status = "PENDING"]
           \/ \E queued \in BOOLEAN : child' = [child EXCEPT ![c].status = "OPEN", ![c].queued = queued]
        /\ parent' = parent /\ pending' = pending
    BY <1>2, <1>4 DEF FillNotArrived, FillQueued, FillUnmatched, Queued, ChildRecord
  <2>2. /\ child'[c].status \in {"PENDING", "OPEN"}
        /\ child'[c].qty = child[c].qty /\ child'[c].filled = child[c].filled
        /\ child'[c].pending = child[c].pending /\ child'[c].cancelAt = child[c].cancelAt
        /\ \A d \in Child \ {c} : child'[d] = child[d]
    BY <1>2, <2>1 DEF ChildRecord
  <2>3. QED
    BY <1>1, <1>2, <2>1, <2>2 DEF ActiveStatus
<1>5. CASE FillMatched(c)
  <2>1. PICK q \in 1 .. MaxQty, marketable \in BOOLEAN :
          /\ q <= Remaining(c) /\ q <= ParentRemaining
          /\ child' = [child EXCEPT ![c] = Matched(c, q, marketable)]
          /\ pending' = PendingLess(IF Completes(c, q) THEN Cleared(c) ELSE 0)
          /\ parent' = ParentFilled(c, q)
    BY <1>5, Zenon DEF FillMatched
  <2>2. child'[c] = Matched(c, q, marketable) /\ \A d \in Child \ {c} : child'[d] = child[d]
    BY <1>2, <2>1
  <2>3. parent' = [parent EXCEPT !.filled = @ + q]
    BY <2>1 DEF ParentFilled
  <2>4. QED
    BY <1>1, <1>2, <2>1, <2>2, <2>3, MatchedType
<1>6. QED
  BY <1>1, <1>3, <1>4, <1>5

LEMMA StructureFill ==
  ASSUME Typed, Structure, Fill
  PROVE  Structure'
<1>1. PICK c \in todo :
        /\ todo' = todo \ {c}
        /\ c \in Child /\ IsActive(c)
        /\ \A d \in Child \ {c} : child'[d] = child[d]
        /\ child'[c].qty = child[c].qty
        /\ \/ child'[c].status \notin ActiveStatus
           \/ child'[c].filled < child'[c].qty
  <2>1. PICK c \in todo :
        /\ todo' = todo \ {c}
        /\ c \in Child /\ IsActive(c)
        /\ \A d \in Child \ {c} : child'[d] = child[d]
        /\ child'[c].qty = child[c].qty
        /\ \/ child'[c].filled = child[c].filled
           \/ \E q \in 1 .. MaxQty :
                /\ child'[c].filled = child[c].filled + q
                /\ child'[c].status = IF Completes(c, q) THEN "FILLED" ELSE "PARTIAL"
    BY FillEffect
  <2>2. child[c] \in ChildRecord
    BY <2>1 DEF Typed, TypeOK
  <2>3. CASE child'[c].filled = child[c].filled
    BY <2>1, <2>3 DEF Structure, Unfinished
  <2>4. CASE \E q \in 1 .. MaxQty :
                /\ child'[c].filled = child[c].filled + q
                /\ child'[c].status = IF Completes(c, q) THEN "FILLED" ELSE "PARTIAL"
    BY <2>1, <2>2, <2>4, LifecycleAssumption DEF Completes, ActiveStatus, ChildRecord
  <2>5. QED
    BY <2>1, <2>3, <2>4
<1>2. n' = n /\ exec' = exec /\ pc' = pc /\ pc \in {"fill", "first"}
  BY DEF Fill, InFillLoop
<1>3. c <= n /\ c \in Int /\ n \in Int
  BY <1>1, ActiveUsed, LifecycleAssumption DEF Typed, TypeOK, Child
<1>4. UnusedSlots'
  <2>1. \A d \in Child : d > n => d \in Child \ {c}
    BY <1>3
  <2>2. QED
    BY <1>1, <1>2, <2>1 DEF Structure, UnusedSlots
<1>5. Unfinished'
  BY <1>1 DEF Structure, Unfinished, IsActive
<1>6. ActiveChildren \ {c} \subseteq ActiveChildren'
  BY <1>1 DEF ActiveChildren, IsActive
<1>7. QED
  BY <1>1, <1>2, <1>4, <1>5, <1>6 DEF Structure, LoopLists

LEMMA StructureRoute ==
  ASSUME Typed, Structure, CreateParentOrder \/ SliceOrder
  PROVE  Structure'
<1> USE LifecycleAssumption
<1>1. pc = "route" /\ todo = {} /\ exec = {} /\ open \subseteq ActiveChildren
  BY DEF CreateParentOrder, SliceOrder, Structure, LoopLists
<1>2. CASE CreateParentOrder
  <2>1. ~parent.active /\ open' = open /\ todo' = todo /\ exec' = exec /\ pc' = pc
    BY <1>2 DEF CreateParentOrder
  <2>2. open' = {}
    BY <1>1, <2>1 DEF Structure, LoopLists
  <2>3. child' = [c \in Child |-> NoChild]
    BY <1>2 DEF CreateParentOrder
  <2>4. UnusedSlots' /\ Unfinished'
    BY <2>3 DEF UnusedSlots, Unfinished, IsActive, ActiveStatus, NoChild
  <2>5. QED
    BY <1>1, <2>1, <2>2, <2>4 DEF Structure, LoopLists
<1>3. CASE SliceOrder
  <2>1. PICK q \in 1 .. MaxQty, tif \in TifOf(EffectivePolicy), lat \in SubmitLatency :
          child' = [child EXCEPT ![n + 1] = Sliced(q, tif, lat)]
    BY <1>3 DEF SliceOrder
  <2>2. n < MaxChild /\ n' = n + 1 /\ todo' = {n + 1} /\ pc' = "first" /\ exec' = exec
    BY <1>3 DEF SliceOrder
  <2>3. n + 1 \in Child /\ n \in Nat /\ child \in [Child -> ChildRecord]
    BY <2>2 DEF Typed, TypeOK, Child
  <2>4. child'[n + 1] = Sliced(q, tif, lat) /\ \A d \in Child \ {n + 1} : child'[d] = child[d]
    BY <2>1, <2>3
  <2>5. UnusedSlots'
    BY <2>2, <2>3, <2>4 DEF Structure, UnusedSlots, Child
  <2>6. Unfinished' /\ n + 1 \in ActiveChildren'
    <3>1. /\ child'[n + 1].status = "PENDING"
          /\ child'[n + 1].filled < child'[n + 1].qty
      BY <2>4, SlicedType
    <3>2. QED
      BY <2>3, <2>4, <3>1 DEF Structure, Unfinished, IsActive, ActiveChildren, ActiveStatus
  <2>7. QED
    BY <1>1, <2>2, <2>5, <2>6 DEF Structure, LoopLists
<1>4. QED
  BY <1>2, <1>3

LEMMA StructureNext ==
  ASSUME Typed, Structure, [Next]_vars
  PROVE  Structure'
<1>1. CASE ProcessOpenOrders
  BY <1>1, StructureOpen
<1>2. CASE Decide
  BY <1>2, StructureDecide
<1>3. CASE Fill
  BY <1>3, StructureFill
<1>4. CASE CreateParentOrder \/ SliceOrder
  BY <1>4, StructureRoute
<1>5. ASSUME UNCHANGED <<child, n>>
      PROVE  UnusedSlots' /\ Unfinished' /\ ActiveChildren' = ActiveChildren
  BY <1>5 DEF Structure, UnusedSlots, Unfinished, IsActive, ActiveChildren
<1>6. CASE Tick
  BY <1>5, <1>6 DEF Tick, Structure, LoopLists
<1>7. CASE DecideDone
  BY <1>5, <1>7 DEF DecideDone, Structure, LoopLists
<1>8. CASE FillDone
  <2>1. parent'.active = (ParentRemaining > 0)
    BY <1>8 DEF FillDone, Typed, TypeOK
  <2>2. QED
    BY <1>5, <1>8, <2>1 DEF FillDone, InFillLoop, Structure, LoopLists
<1>9. CASE SkipTick \/ NoOrder \/ SliceNothing
  BY <1>5, <1>9 DEF SkipTick, NoOrder, SliceNothing, Structure, LoopLists
<1>10. CASE Finished \/ UNCHANGED vars
  BY <1>5, <1>10 DEF Finished, vars, Structure, LoopLists
<1>11. QED
  BY <1>1, <1>2, <1>3, <1>4, <1>6, <1>7, <1>8, <1>9, <1>10 DEF Next

THEOREM StructureAlways == Spec => []Structure
BY StructureInit, StructureNext, TypedAlways, PTL DEF Spec

-----------------------------------------------------------------------------
(* Layer 3: quantities *)

LEMMA ChildFinite == IsFiniteSet(Child)
BY ChildrenFinite

LEMMA InFlightType ==
  ASSUME NEW ch \in [Child -> ChildRecord], \A c \in Child : ch[c].filled <= ch[c].qty
  PROVE  /\ InFlightOf(ch) \in [Child -> 0 .. MaxQty] /\ FilledOf(ch) \in [Child -> 0 .. MaxQty]
         /\ Total(InFlightOf(ch)) \in Nat /\ Total(FilledOf(ch)) \in Nat
         /\ MaxQty \in Nat
<1>1. MaxQty \in Nat
  BY LifecycleAssumption
<1>2. \A c \in Child : /\ ch[c].qty \in 0 .. MaxQty /\ ch[c].filled \in 0 .. MaxQty
                       /\ ch[c].qty - ch[c].filled \in 0 .. MaxQty
  BY <1>1 DEF ChildRecord
<1>3. InFlightOf(ch) \in [Child -> 0 .. MaxQty] /\ FilledOf(ch) \in [Child -> 0 .. MaxQty]
  BY <1>1, <1>2 DEF InFlightOf, FilledOf
<1>4. QED
  BY <1>1, <1>3, ChildFinite, SharesFinite

LEMMA InFlightNow ==
  ASSUME Typed
  PROVE  /\ InFlightOf(child) \in [Child -> 0 .. MaxQty] /\ FilledOf(child) \in [Child -> 0 .. MaxQty]
         /\ InFlight \in Nat /\ Total(FilledOf(child)) \in Nat
         /\ MaxQty \in Nat
BY InFlightType DEF Typed, TypeOK, ChildFillBounded, InFlight

LEMMA InFlightNext ==
  ASSUME Typed'
  PROVE  /\ InFlightOf(child') \in [Child -> 0 .. MaxQty] /\ FilledOf(child') \in [Child -> 0 .. MaxQty]
         /\ InFlight' \in Nat /\ Total(FilledOf(child')) \in Nat
         /\ InFlight' = Total(InFlightOf(child'))
BY InFlightType DEF Typed, TypeOK, ChildFillBounded, InFlight, InFlightOf

\* Less is in flight when every child has less in flight.
LEMMA InFlightMonotone ==
  ASSUME Typed, Typed', \A c \in Child : InFlightOf(child')[c] <= InFlightOf(child)[c]
  PROVE  InFlight' <= InFlight
<1>1. Total(InFlightOf(child')) <= Total(InFlightOf(child))
  BY ChildFinite, InFlightNow, InFlightNext, TotalMonotone
<1>2. QED
  BY <1>1, InFlightNext DEF InFlight

\* One child changes: the total changes by as much.
LEMMA InFlightChange ==
  ASSUME Typed, Typed', NEW c \in Child,
         \A d \in Child \ {c} : InFlightOf(child')[d] = InFlightOf(child)[d]
  PROVE  InFlight + InFlightOf(child')[c] = InFlight' + InFlightOf(child)[c]
<1>1. Total(InFlightOf(child)) + InFlightOf(child')[c] = Total(InFlightOf(child')) + InFlightOf(child)[c]
  BY ChildFinite, InFlightNow, InFlightNext, TotalChange
<1>2. QED
  BY <1>1, InFlightNext DEF InFlight

LEMMA NoOverfillInit == Init => NoOverfill
<1> SUFFICES ASSUME Init PROVE NoOverfill
  OBVIOUS
<1>1. InFlightOf(child) \in [Child -> {0}]
  BY DEF Init, NoChild, InFlightOf, ActiveStatus
<1>2. InFlight = 0
  BY <1>1, TotalOfZero DEF InFlight
<1>3. QED
  BY <1>2 DEF Init, NoParent, NoOverfill

\* Nothing new is committed by a step that only closes children or leaves their
\* quantities alone.
LEMMA OverfillKept ==
  ASSUME Typed, Typed', NoOverfill,
         parent'.total = parent.total, parent'.filled = parent.filled,
         \A c \in Child : /\ child'[c].qty = child[c].qty /\ child'[c].filled = child[c].filled
                          /\ child'[c].status \in ActiveStatus => child[c].status \in ActiveStatus
  PROVE  NoOverfill'
<1>1. ASSUME NEW c \in Child
      PROVE  InFlightOf(child')[c] <= InFlightOf(child)[c]
  BY InFlightNow, LifecycleAssumption
     DEF InFlightOf, Typed, TypeOK, ChildFillBounded, ChildRecord
<1>2. InFlight' <= InFlight
  BY <1>1, InFlightMonotone
<1>3. parent.filled \in Nat /\ parent.total \in Nat
  BY LifecycleAssumption DEF Typed, TypeOK
<1>4. QED
  BY <1>2, <1>3, InFlightNow, InFlightNext DEF NoOverfill

LEMMA NoOverfillDecide ==
  ASSUME Typed, Typed', Structure, NoOverfill, Decide
  PROVE  NoOverfill'
<1>1. PICK c \in todo : DecideKeep(c) \/ DecideCancel(c) \/ DecideReplace(c)
  BY DEF Decide
<1>2. c \in Child /\ IsActive(c) /\ child \in [Child -> ChildRecord] /\ parent' = parent
  BY <1>1 DEF Decide, Structure, LoopLists, ActiveChildren, Typed, TypeOK
<1>3. CASE DecideKeep(c)
  BY <1>2, <1>3, OverfillKept DEF DecideKeep
<1>4. CASE DecideCancel(c)
  <2>1. PICK lat \in CancelLatency : child' = [child EXCEPT ![c] = CancelRequested(c, lat)]
    BY <1>4 DEF DecideCancel
  <2>2. \A d \in Child : /\ child'[d].qty = child[d].qty /\ child'[d].filled = child[d].filled
                         /\ child'[d].status = child[d].status
    BY <1>2, <2>1, CancelRequestedType
  <2>3. QED
    BY <1>2, <2>2, OverfillKept
<1>5. CASE DecideReplace(c)
  <2>1. PICK lat \in SubmitLatency :
          child' = [child EXCEPT ![c] = Cancelled(@), ![n + 1] = Replacement(c, lat)]
    BY <1>5 DEF DecideReplace
  <2>2. n < MaxChild /\ n \in Nat /\ MaxChild \in Nat /\ c <= n
    BY <1>2, <1>5, ActiveUsed, LifecycleAssumption DEF DecideReplace, Typed, TypeOK
  <2>3. n + 1 \in Child /\ c # n + 1 /\ n + 1 > n
    BY <1>2, <2>2 DEF Child
  <2>4. /\ child'[n + 1] = Replacement(c, lat)
        /\ child'[c] = Cancelled(child[c])
        /\ \A d \in Child \ {c, n + 1} : child'[d] = child[d]
    BY <1>2, <2>1, <2>3
  <2>5. child[n + 1] = NoChild
    BY <2>3 DEF Structure, UnusedSlots
  <2> DEFINE f == InFlightOf(child)
             g == InFlightOf(child')
             h == [f EXCEPT ![c] = 0]
  <2>6. f[c] = Remaining(c) /\ f[n + 1] = 0
    BY <1>2, <2>3, <2>5 DEF InFlightOf, IsActive, Remaining, NoChild, ActiveStatus
  <2>7. g[c] = 0 /\ g[n + 1] = Remaining(c) - 0 /\ \A d \in Child \ {c, n + 1} : g[d] = f[d]
    BY <1>2, <2>3, <2>4, CancelledType, ReplacementType DEF InFlightOf, ActiveStatus
  <2>8. f \in [Child -> 0 .. MaxQty] /\ g \in [Child -> 0 .. MaxQty] /\ MaxQty \in Nat
    BY InFlightNow, InFlightNext
  <2> HIDE DEF f, g
  <2>9. /\ h \in [Child -> 0 .. MaxQty] /\ h[c] = 0 /\ h[n + 1] = 0
        /\ \A d \in Child \ {c} : h[d] = f[d]
        /\ \A d \in Child \ {n + 1} : h[d] = g[d]
    BY <1>2, <2>3, <2>6, <2>7, <2>8
  <2> HIDE DEF h
  <2>10. Total(f) + h[c] = Total(h) + f[c]
    BY <1>2, <2>8, <2>9, ChildFinite, TotalChange
  <2>11. Total(h) + g[n + 1] = Total(g) + h[n + 1]
    BY <2>3, <2>8, <2>9, ChildFinite, TotalChange
  <2>12. Total(f) \in Nat /\ Total(g) \in Nat /\ Total(h) \in Nat /\ Remaining(c) \in Int
    BY <2>6, <2>8, <2>9, <1>2, ChildFinite, SharesFinite
  <2>13. Total(g) = Total(f)
    BY <2>6, <2>7, <2>9, <2>10, <2>11, <2>12
  <2>14. InFlight' = InFlight
    BY <2>13, InFlightNext DEF InFlight, f, g
  <2>15. QED
    BY <1>2, <2>14 DEF NoOverfill
<1>6. QED
  BY <1>1, <1>3, <1>4, <1>5

\* What a match moves from in flight to filled cancels out.
LEMMA NoOverfillFill ==
  ASSUME Typed, Typed', Structure, NoOverfill, Fill
  PROVE  NoOverfill'
<1>1. PICK c \in todo :
        /\ c \in Child /\ IsActive(c)
        /\ \A d \in Child \ {c} : child'[d] = child[d]
        /\ child'[c].qty = child[c].qty
        /\ \/ parent' = parent /\ child'[c].filled = child[c].filled
           \/ \E q \in 1 .. MaxQty :
                /\ q <= Remaining(c) /\ q <= ParentRemaining
                /\ parent' = [parent EXCEPT !.filled = @ + q]
                /\ child'[c].filled = child[c].filled + q
                /\ child'[c].status = IF Completes(c, q) THEN "FILLED" ELSE "PARTIAL"
  BY FillEffect
<1>2. child[c] \in ChildRecord
  BY <1>1 DEF Typed, TypeOK
<1>3. CASE parent' = parent /\ child'[c].filled = child[c].filled
  <2>1. child[c].status \in ActiveStatus
    BY <1>1 DEF IsActive
  <2>2. \A d \in Child : /\ child'[d].qty = child[d].qty /\ child'[d].filled = child[d].filled
                         /\ child'[d].status \in ActiveStatus => child[d].status \in ActiveStatus
    BY <1>1, <1>3, <2>1
  <2>3. QED
    BY <1>3, <2>2, OverfillKept
<1>4. ASSUME NEW q \in 1 .. MaxQty,
             q <= Remaining(c), q <= ParentRemaining,
             parent' = [parent EXCEPT !.filled = @ + q],
             child'[c].filled = child[c].filled + q,
             child'[c].status = IF Completes(c, q) THEN "FILLED" ELSE "PARTIAL"
      PROVE  NoOverfill'
  <2>1. /\ child[c].qty \in Nat /\ child[c].filled \in Nat /\ q \in Nat
        /\ child[c].filled + q <= child[c].qty
    BY <1>2, <1>4, LifecycleAssumption DEF Remaining, ChildRecord
  <2>2. InFlightOf(child)[c] = child[c].qty - child[c].filled
    BY <1>1 DEF InFlightOf, IsActive
  <2>3. InFlightOf(child')[c] = child[c].qty - (child[c].filled + q)
    <3>1. CASE Completes(c, q)
      <4>1. child[c].filled + q = child[c].qty
        BY <2>1, <3>1 DEF Completes
      <4>2. InFlightOf(child')[c] = 0
        BY <1>1, <1>4, <3>1 DEF InFlightOf, ActiveStatus
      <4>3. QED
        BY <2>1, <4>1, <4>2
    <3>2. CASE ~Completes(c, q)
      BY <1>1, <1>4, <3>2 DEF InFlightOf, ActiveStatus
    <3>3. QED
      BY <3>1, <3>2
  <2>4. \A d \in Child \ {c} : InFlightOf(child')[d] = InFlightOf(child)[d]
    BY <1>1 DEF InFlightOf
  <2>5. InFlight + InFlightOf(child')[c] = InFlight' + InFlightOf(child)[c]
    BY <1>1, <2>4, InFlightChange
  <2>6. InFlight' + q = InFlight
    BY <2>1, <2>2, <2>3, <2>5, InFlightNow, InFlightNext
  <2>7. parent'.filled = parent.filled + q /\ parent'.total = parent.total
    BY <1>4 DEF Typed, TypeOK
  <2>8. parent.filled \in Nat /\ parent.total \in Nat
    BY LifecycleAssumption DEF Typed, TypeOK
  <2>9. QED
    BY <2>1, <2>6, <2>7, <2>8, InFlightNow, InFlightNext DEF NoOverfill
<1>5. QED
  BY <1>1, <1>3, <1>4

LEMMA NoOverfillOpen ==
  ASSUME Typed, Typed', Structure, NoOverfill, ProcessOpenOrders
  PROVE  NoOverfill'
<1>1. parent' = parent /\ pc = "open"
  BY DEF ProcessOpenOrders, OpenAllFinalized, OpenNotActionable, OpenActionable
<1>2. \A c \in Child : Finalized[c].status \in ActiveStatus => child[c].status \in ActiveStatus
  BY CancelledType DEF Finalized, Typed, TypeOK, ActiveStatus
<1>3. CASE child' = Finalized
  BY <1>1, <1>2, <1>3, FinalizedType, OverfillKept
<1>4. CASE OpenNotActionable
  <2>1. PICK lat \in [HaltCancels -> CancelLatency] :
           child' = [c \in Child |->
                       IF c \in HaltCancels THEN CancelRequested(c, lat[c]) ELSE Finalized[c]]
    BY <1>4 DEF OpenNotActionable
  <2>2. \A c \in Child : /\ child'[c].qty = child[c].qty /\ child'[c].filled = child[c].filled
                         /\ child'[c].status \in ActiveStatus => child[c].status \in ActiveStatus
    BY <1>2, <2>1, FinalizedType, CancelRequestedType
  <2>3. QED
    BY <1>1, <2>2, OverfillKept
<1>5. QED
  BY <1>3, <1>4 DEF ProcessOpenOrders, OpenAllFinalized, OpenActionable

\* A new child commits no more than what is uncommitted.
LEMMA NoOverfillRoute ==
  ASSUME Typed, Typed', Structure, NoOverfill, CreateParentOrder \/ SliceOrder
  PROVE  NoOverfill'
<1>1. CASE CreateParentOrder
  <2>1. child' = [c \in Child |-> NoChild] /\ parent'.filled = 0 /\ parent'.total \in Nat
    BY <1>1, LifecycleAssumption DEF CreateParentOrder
  <2>2. InFlightOf(child') \in [Child -> {0}]
    BY <2>1 DEF InFlightOf, NoChild, ActiveStatus
  <2>3. InFlight' = 0
    BY <2>2, TotalOfZero, InFlightNext
  <2>4. QED
    BY <2>1, <2>3 DEF NoOverfill
<1>2. CASE SliceOrder
  <2>1. PICK q \in 1 .. MaxQty, tif \in TifOf(EffectivePolicy), lat \in SubmitLatency :
          /\ q <= EffectiveRemaining
          /\ child' = [child EXCEPT ![n + 1] = Sliced(q, tif, lat)]
    BY <1>2 DEF SliceOrder
  <2>2. n < MaxChild /\ n \in Nat /\ MaxChild \in Nat /\ parent' = parent
    BY <1>2, LifecycleAssumption DEF SliceOrder, Typed, TypeOK
  <2>3. n + 1 \in Child /\ n + 1 > n
    BY <2>2 DEF Child
  <2>4. child'[n + 1] = Sliced(q, tif, lat) /\ \A d \in Child \ {n + 1} : child'[d] = child[d]
    BY <2>1, <2>3 DEF Typed, TypeOK
  <2>5. child[n + 1] = NoChild
    BY <2>3 DEF Structure, UnusedSlots
  <2>6. InFlightOf(child)[n + 1] = 0
    BY <2>3, <2>5 DEF InFlightOf, NoChild, ActiveStatus
  <2>7. InFlightOf(child')[n + 1] = q - 0
    BY <2>3, <2>4, SlicedType DEF InFlightOf, ActiveStatus
  <2>8. InFlight + InFlightOf(child')[n + 1] = InFlight' + InFlightOf(child)[n + 1]
    BY <2>3, <2>4, InFlightChange DEF InFlightOf
  <2>9. InFlight' = InFlight + q /\ q \in Nat
    BY <2>6, <2>7, <2>8, InFlightNow, InFlightNext
  <2>10. parent.filled \in Nat /\ parent.total \in Nat
    BY LifecycleAssumption DEF Typed, TypeOK
  <2>11. QED
    BY <2>1, <2>2, <2>9, <2>10, InFlightNow
       DEF NoOverfill, EffectiveRemaining, ParentRemaining
<1>3. QED
  BY <1>1, <1>2

LEMMA NoOverfillNext ==
  ASSUME Typed, Typed', Structure, NoOverfill, [Next]_vars
  PROVE  NoOverfill'
<1>1. CASE ProcessOpenOrders
  BY <1>1, NoOverfillOpen
<1>2. CASE Decide
  BY <1>2, NoOverfillDecide
<1>3. CASE Fill
  BY <1>3, NoOverfillFill
<1>4. CASE CreateParentOrder \/ SliceOrder
  BY <1>4, NoOverfillRoute
<1>5. ASSUME child' = child, parent'.total = parent.total, parent'.filled = parent.filled
      PROVE  NoOverfill'
  BY <1>5, OverfillKept
<1>6. CASE FillDone
  <2>1. child' = child /\ parent' = [parent EXCEPT !.active = ParentRemaining > 0]
    BY <1>6 DEF FillDone
  <2>2. QED
    BY <1>5, <2>1 DEF Typed, TypeOK
<1>7. CASE Tick \/ DecideDone \/ SkipTick \/ NoOrder \/ SliceNothing \/ Finished \/ UNCHANGED vars
  BY <1>5, <1>7 DEF Tick, DecideDone, SkipTick, NoOrder, SliceNothing, Finished, vars
<1>8. QED
  BY <1>1, <1>2, <1>3, <1>4, <1>6, <1>7 DEF Next

\* A parent order is never overfilled or overcommitted, whatever the latencies,
\* the replacements and the cancels in flight.
THEOREM NeverOverfilled == Spec => []NoOverfill
BY NoOverfillInit, NoOverfillNext, TypedAlways, StructureAlways, PTL DEF Spec

\* The filled quantities after a step that fills nothing.
LEMMA AccountingKept ==
  ASSUME Typed, Typed', FillAccounting, parent'.filled = parent.filled,
         \A c \in Child : child'[c].filled = child[c].filled
  PROVE  FillAccounting'
<1>1. FilledOf(child') = FilledOf(child)
  BY DEF FilledOf
<1>2. QED
  BY <1>1 DEF FillAccounting, FilledOf

LEMMA AccountingNext ==
  ASSUME Typed, Typed', Structure, FillAccounting, [Next]_vars
  PROVE  FillAccounting'
<1>1. CASE ProcessOpenOrders
  <2>1. parent' = parent
    BY <1>1 DEF ProcessOpenOrders, OpenAllFinalized, OpenNotActionable, OpenActionable
  <2>2. CASE child' = Finalized
    BY <2>1, <2>2, FinalizedType, AccountingKept
  <2>3. CASE OpenNotActionable
    <3>1. PICK lat \in [HaltCancels -> CancelLatency] :
           child' = [c \in Child |->
                       IF c \in HaltCancels THEN CancelRequested(c, lat[c]) ELSE Finalized[c]]
      BY <2>3 DEF OpenNotActionable
    <3>2. \A c \in Child : child'[c].filled = child[c].filled
      BY <3>1, FinalizedType, CancelRequestedType
    <3>3. QED
      BY <2>1, <3>2, AccountingKept
  <2>4. QED
    BY <1>1, <2>2, <2>3 DEF ProcessOpenOrders, OpenAllFinalized, OpenActionable
<1>2. CASE Decide
  <2>1. PICK c \in todo : DecideKeep(c) \/ DecideCancel(c) \/ DecideReplace(c)
    BY <1>2 DEF Decide
  <2>2. c \in Child /\ child \in [Child -> ChildRecord] /\ parent' = parent /\ n \in Nat
    BY <1>2, <2>1, LifecycleAssumption DEF Decide, Typed, TypeOK
  <2>3. CASE DecideKeep(c)
    BY <2>2, <2>3, AccountingKept DEF DecideKeep
  <2>4. CASE DecideCancel(c)
    <3>1. PICK lat \in CancelLatency : child' = [child EXCEPT ![c] = CancelRequested(c, lat)]
      BY <2>4 DEF DecideCancel
    <3>2. \A d \in Child : child'[d].filled = child[d].filled
      BY <2>2, <3>1, CancelRequestedType
    <3>3. QED
      BY <2>2, <3>2, AccountingKept
  <2>5. CASE DecideReplace(c)
    <3>1. PICK lat \in SubmitLatency :
          child' = [child EXCEPT ![c] = Cancelled(@), ![n + 1] = Replacement(c, lat)]
      BY <2>5 DEF DecideReplace
    <3>2. n < MaxChild
      BY <2>5 DEF DecideReplace
    <3>3. n + 1 \in Child /\ n + 1 > n
      BY <2>2, <3>2, LifecycleAssumption DEF Child
    <3>4. child[n + 1] = NoChild
      BY <3>3 DEF Structure, UnusedSlots
    <3>5. child[n + 1].filled = 0
      BY <3>4 DEF NoChild
    <3>6. \A d \in Child : child'[d].filled = child[d].filled
      BY <2>2, <3>1, <3>3, <3>5, CancelledType, ReplacementType
    <3>7. QED
      BY <2>2, <3>6, AccountingKept
  <2>6. QED
    BY <2>1, <2>3, <2>4, <2>5
<1>3. CASE Fill
  <2>1. PICK c \in todo :
        /\ c \in Child
        /\ \A d \in Child \ {c} : child'[d] = child[d]
        /\ \/ parent' = parent /\ child'[c].filled = child[c].filled
           \/ \E q \in 1 .. MaxQty :
                /\ parent' = [parent EXCEPT !.filled = @ + q]
                /\ child'[c].filled = child[c].filled + q
    BY <1>3, FillEffect
  <2>2. CASE parent' = parent /\ child'[c].filled = child[c].filled
    BY <2>1, <2>2, AccountingKept
  <2>3. ASSUME NEW q \in 1 .. MaxQty,
               parent' = [parent EXCEPT !.filled = @ + q],
               child'[c].filled = child[c].filled + q
        PROVE  FillAccounting'
    <3>1. \A d \in Child \ {c} : FilledOf(child')[d] = FilledOf(child)[d]
      BY <2>1 DEF FilledOf
    <3>2. Total(FilledOf(child)) + FilledOf(child')[c] = Total(FilledOf(child')) + FilledOf(child)[c]
      <4>1. /\ FilledOf(child) \in [Child -> 0 .. MaxQty]
            /\ FilledOf(child') \in [Child -> 0 .. MaxQty]
            /\ MaxQty \in Nat /\ c \in Child
        BY <2>1, InFlightNow, InFlightNext
      <4>2. QED
        BY <3>1, <4>1, ChildFinite, TotalChange
    <3>3. /\ FilledOf(child')[c] = FilledOf(child)[c] + q
          /\ FilledOf(child)[c] \in Nat /\ q \in Nat
      BY <2>1, <2>3, InFlightNow, LifecycleAssumption DEF FilledOf
    <3>4. Total(FilledOf(child')) = Total(FilledOf(child)) + q
      BY <3>2, <3>3, InFlightNow, InFlightNext
    <3>5. parent'.filled = parent.filled + q
      BY <2>3 DEF Typed, TypeOK
    <3>6. QED
      BY <3>4, <3>5 DEF FillAccounting, FilledOf
  <2>4. QED
    BY <2>1, <2>2, <2>3
<1>4. CASE CreateParentOrder
  <2>1. child' = [c \in Child |-> NoChild] /\ parent'.filled = 0
    BY <1>4 DEF CreateParentOrder
  <2>2. FilledOf(child') \in [Child -> {0}]
    BY <2>1 DEF FilledOf, NoChild
  <2>3. QED
    BY <2>1, <2>2, TotalOfZero DEF FillAccounting, FilledOf
<1>5. CASE SliceOrder
  <2>1. PICK q \in 1 .. MaxQty, tif \in TifOf(EffectivePolicy), lat \in SubmitLatency :
          child' = [child EXCEPT ![n + 1] = Sliced(q, tif, lat)]
    BY <1>5 DEF SliceOrder
  <2>2. n < MaxChild /\ n \in Nat /\ MaxChild \in Nat /\ parent' = parent
    BY <1>5, LifecycleAssumption DEF SliceOrder, Typed, TypeOK
  <2>3. n + 1 \in Child /\ n + 1 > n
    BY <2>2 DEF Child
  <2>4. child[n + 1] = NoChild
    BY <2>3 DEF Structure, UnusedSlots
  <2>5. child[n + 1].filled = 0
    BY <2>4 DEF NoChild
  <2>6. \A d \in Child : child'[d].filled = child[d].filled
    BY <2>1, <2>3, <2>5, SlicedType DEF Typed, TypeOK
  <2>7. QED
    BY <2>2, <2>6, AccountingKept
<1>6. CASE FillDone
  <2>1. child' = child /\ parent' = [parent EXCEPT !.active = ParentRemaining > 0]
    BY <1>6 DEF FillDone
  <2>2. parent'.filled = parent.filled
    BY <2>1 DEF Typed, TypeOK
  <2>3. QED
    BY <2>1, <2>2, AccountingKept
<1>7. CASE Tick \/ DecideDone \/ SkipTick \/ NoOrder \/ SliceNothing \/ Finished \/ UNCHANGED vars
  <2>1. child' = child /\ parent' = parent
    BY <1>7 DEF Tick, DecideDone, SkipTick, NoOrder, SliceNothing, Finished, vars
  <2>2. QED
    BY <2>1, AccountingKept
<1>8. QED
  BY <1>1, <1>2, <1>3, <1>4, <1>5, <1>6, <1>7 DEF Next

\* The parent's filled quantity is exactly what its children filled.
THEOREM FillsAccounted == Spec => []FillAccounting
<1>1. Init => FillAccounting
  <2> SUFFICES ASSUME Init PROVE FillAccounting
    OBVIOUS
  <2>1. FilledOf(child) \in [Child -> {0}]
    BY DEF Init, NoChild, FilledOf
  <2>2. parent.filled = 0
    BY DEF Init, NoParent
  <2>3. QED
    BY <2>1, <2>2, TotalOfZero DEF FillAccounting
<1>2. QED
  BY <1>1, AccountingNext, TypedAlways, StructureAlways, PTL DEF Spec

-----------------------------------------------------------------------------
(* The list of open children *)

\* A complete parent has no active child left.
LEMMA CompleteHasNoActive ==
  ASSUME Typed, Structure, NoOverfill, ~(ParentRemaining > 0)
  PROVE  ActiveChildren = {}
<1> SUFFICES ASSUME NEW c \in ActiveChildren PROVE FALSE
  OBVIOUS
<1>1. c \in Child /\ child[c] \in ChildRecord /\ IsActive(c)
  BY DEF ActiveChildren, Typed, TypeOK
<1>2. InFlightOf(child)[c] > 0
  <2>1. child[c].qty \in Nat /\ child[c].filled \in Nat /\ child[c].filled < child[c].qty
    BY <1>1, LifecycleAssumption DEF Structure, Unfinished, ChildRecord
  <2>2. InFlightOf(child)[c] = child[c].qty - child[c].filled
    BY <1>1 DEF InFlightOf, IsActive
  <2>3. QED
    BY <2>1, <2>2
<1>3. InFlightOf(child)[c] <= InFlight
  BY <1>1, ChildFinite, InFlightNow, TotalCovers DEF InFlight
<1>4. parent.filled \in Nat /\ parent.total \in Nat /\ InFlightOf(child)[c] \in Nat
  BY <1>1, InFlightNow, LifecycleAssumption DEF Typed, TypeOK
<1>5. QED
  BY <1>2, <1>3, <1>4, InFlightNow DEF NoOverfill, ParentRemaining

\* OpenInSync holds when open orders are about to be processed, too.
ListInSync ==
  pc \in {"tick", "open", "route"} =>
    open = ActiveChildren /\ (~parent.active => ActiveChildren = {})

LEMMA ListInSyncNext ==
  ASSUME Typed, Structure, NoOverfill, ListInSync, [Next]_vars
  PROVE  ListInSync'
<1>1. ASSUME child' = child
      PROVE  ActiveChildren' = ActiveChildren
  BY <1>1 DEF ActiveChildren, IsActive
<1>2. CASE ProcessOpenOrders
  <2>1. pc = "open" /\ parent' = parent /\ open = ActiveChildren
    BY <1>2 DEF ProcessOpenOrders, OpenAllFinalized, OpenNotActionable, OpenActionable, ListInSync
  <2>2. /\ Live = open \ Due /\ Due \subseteq open
        /\ \A c \in Child : c \notin Due => Finalized[c] = child[c]
    BY DEF Live, Due, Finalized
  <2>3. \A c \in Due : Finalized[c].status = "CANCELLED"
    BY <2>1, <2>2, CancelledType DEF Finalized, ActiveChildren, Typed, TypeOK
  <2>4. CASE OpenAllFinalized
    <3>1. ActiveChildren' = {}
      BY <2>1, <2>2, <2>3, <2>4 DEF OpenAllFinalized, ActiveChildren, IsActive, ActiveStatus
    <3>2. QED
      BY <2>4, <3>1 DEF OpenAllFinalized, ListInSync
  <2>5. CASE OpenActionable
    BY <2>5 DEF OpenActionable, ListInSync
  <2>6. CASE OpenNotActionable
    <3>1. PICK lat \in [HaltCancels -> CancelLatency] :
           child' = [c \in Child |->
                       IF c \in HaltCancels THEN CancelRequested(c, lat[c]) ELSE Finalized[c]]
      BY <2>6 DEF OpenNotActionable
    <3>2. HaltCancels \subseteq Live
      BY DEF HaltCancels
    <3>3. \A c \in Child \ Due : child'[c].status = child[c].status
      BY <2>2, <3>1, CancelRequestedType
    <3>4. \A c \in Due : child'[c].status = "CANCELLED"
      BY <2>1, <2>2, <2>3, <3>1, <3>2 DEF ActiveChildren
    <3>5. ActiveChildren' = Live
      BY <2>1, <2>2, <3>3, <3>4 DEF ActiveChildren, IsActive, ActiveStatus
    <3>6. QED
      BY <2>1, <2>2, <2>6, <3>5 DEF OpenNotActionable, ListInSync
  <2>7. QED
    BY <1>2, <2>4, <2>5, <2>6 DEF ProcessOpenOrders
<1>3. CASE Decide \/ DecideDone \/ Fill \/ SliceOrder
  BY <1>3 DEF Decide, DecideDone, Fill, InFillLoop, SliceOrder, ListInSync
<1>4. CASE FillDone
  <2>1. /\ child' = child
        /\ parent'.active = (ParentRemaining > 0)
        /\ open' = IF ParentRemaining > 0 THEN ActiveChildren ELSE {}
    BY <1>4 DEF FillDone, Typed, TypeOK
  <2>2. QED
    BY <1>1, <2>1, CompleteHasNoActive DEF ListInSync
<1>5. CASE CreateParentOrder
  <2>1. open' = open /\ parent'.active = TRUE /\ ~parent.active /\ pc = "route"
    BY <1>5 DEF CreateParentOrder
  <2>2. open = {}
    BY <2>1 DEF ListInSync
  <2>3. ActiveChildren' = {}
    BY <1>5 DEF CreateParentOrder, ActiveChildren, IsActive, ActiveStatus, NoChild
  <2>4. QED
    BY <2>1, <2>2, <2>3 DEF ListInSync
<1>6. CASE Tick
  BY <1>1, <1>6 DEF Tick, ListInSync
<1>7. CASE SkipTick \/ NoOrder \/ SliceNothing
  BY <1>1, <1>7 DEF SkipTick, NoOrder, SliceNothing, ListInSync
<1>8. CASE Finished \/ UNCHANGED vars
  BY <1>1, <1>8 DEF Finished, vars, ListInSync
<1>9. QED
  BY <1>2, <1>3, <1>4, <1>5, <1>6, <1>7, <1>8 DEF Next

LEMMA ListInSyncAlways == Spec => []ListInSync
<1>1. Init => ListInSync
  BY DEF Init, ListInSync, ActiveChildren, IsActive, ActiveStatus, NoChild
<1>2. QED
  BY <1>1, ListInSyncNext, TypedAlways, StructureAlways, NeverOverfilled, PTL DEF Spec

\* Between ticks the runner tracks exactly the live children.
THEOREM OpenChildrenInSync == Spec => []OpenInSync
<1>1. ListInSync => OpenInSync
  BY DEF ListInSync, OpenInSync
<1>2. QED
  BY <1>1, ListInSyncAlways, PTL

-----------------------------------------------------------------------------
(* Cancel requests *)

\* The children with a cancel request in flight.
Requested == {c \in Child : child[c].pending}

\* Only open children are asked to cancel, so a request is counted once.
DecideUnrequested == pc = "decide" => \A c \in todo : ~child[c].pending

RequestsCounted == PendingCountExact /\ DecideUnrequested

\* Adding and removing requests changes their number by as many.
LEMMA CountRemoved ==
  ASSUME Typed, pending = Cardinality(Requested), NEW S \in SUBSET Requested
  PROVE  PendingLess(Cardinality(S)) = Cardinality(Requested \ S)
<1>1. IsFiniteSet(Requested) /\ Cardinality(Requested) \in Nat
  BY ChildrenFinite DEF Requested
<1>2. Requested \cap S = S
  OBVIOUS
<1>3. Cardinality(Requested \ S) = Cardinality(Requested) - Cardinality(S)
  BY <1>1, <1>2, FS_Difference
<1>4. Cardinality(S) \in Nat /\ Cardinality(S) <= Cardinality(Requested)
  BY <1>1, FS_Subset, FS_CardinalityType
<1>5. QED
  BY <1>1, <1>3, <1>4 DEF PendingLess

LEMMA CountAdded ==
  ASSUME NEW R \in SUBSET Child, NEW S \in SUBSET Child, R \cap S = {}
  PROVE  Cardinality(R \cup S) = Cardinality(R) + Cardinality(S)
<1>1. IsFiniteSet(R) /\ IsFiniteSet(S) /\ Cardinality(R) \in Nat /\ Cardinality(S) \in Nat
  BY ChildrenFinite
<1>2. QED
  BY <1>1, FS_Union, FS_EmptySet

LEMMA CountOne ==
  ASSUME NEW c
  PROVE  Cardinality({c}) = 1 /\ Cardinality({}) = 0
BY FS_Singleton, FS_EmptySet

LEMMA RequestsOpen ==
  ASSUME Typed, Structure, RequestsCounted, ProcessOpenOrders
  PROVE  RequestsCounted'
<1>1. /\ pc = "open" /\ open \subseteq Child
      /\ pending = Cardinality(Requested) /\ \A c \in Requested : IsActive(c)
  BY DEF ProcessOpenOrders, OpenAllFinalized, OpenNotActionable, OpenActionable,
         Typed, TypeOK, RequestsCounted, PendingCountExact, Requested
<1>2. Due \subseteq Requested /\ Live = open \ Due
  BY <1>1 DEF Due, Live, CancelDue, Requested
<1>3. \A c \in Child : Finalized[c] = IF c \in Due THEN Cancelled(child[c]) ELSE child[c]
  BY DEF Finalized
<1>4. \A c \in Due : ~Finalized[c].pending
  BY <1>1, <1>2, <1>3, CancelledType DEF Requested, Typed, TypeOK
<1>5. PendingLess(Cardinality(Due)) = Cardinality(Requested \ Due)
  BY <1>1, <1>2, CountRemoved
<1>6. CASE child' = Finalized /\ pending' = PendingLess(Cardinality(Due))
  <2>1. Requested' = Requested \ Due
    BY <1>2, <1>3, <1>4, <1>6 DEF Requested
  <2>2. \A c \in Requested' : child'[c].status \in ActiveStatus
    BY <1>1, <1>3, <1>6, <2>1 DEF Requested, IsActive
  <2>3. PendingCountExact'
    BY <1>5, <1>6, <2>1, <2>2 DEF PendingCountExact, Requested, IsActive
  <2>4. DecideUnrequested'
    <3>1. CASE OpenAllFinalized
      BY <3>1 DEF OpenAllFinalized, DecideUnrequested
    <3>2. CASE OpenActionable
      BY <1>3, <1>6, <3>2, <1>1, <1>2 DEF OpenActionable, DecideUnrequested, Candidates
    <3>3. CASE OpenNotActionable
      BY <3>3 DEF OpenNotActionable, DecideUnrequested
    <3>4. QED
      BY <3>1, <3>2, <3>3 DEF ProcessOpenOrders
  <2>5. QED
    BY <2>3, <2>4 DEF RequestsCounted
<1>7. CASE OpenNotActionable
  <2>1. PICK lat \in [HaltCancels -> CancelLatency] :
           child' = [c \in Child |->
                       IF c \in HaltCancels THEN CancelRequested(c, lat[c]) ELSE Finalized[c]]
    BY <1>7 DEF OpenNotActionable
  <2>2. HaltCancels \subseteq Child /\ HaltCancels \cap Requested = {}
    BY <1>1, <1>2 DEF HaltCancels, Requested
  <2>3. HaltCancels \subseteq Live
    BY DEF HaltCancels
  <2>4. \A c \in HaltCancels : child'[c].pending = TRUE /\ child'[c].status = child[c].status
    BY <2>1, <2>2, CancelRequestedType
  <2>5. Requested' = (Requested \ Due) \cup HaltCancels
    <3>1. \A c \in Child \ HaltCancels : child'[c] = Finalized[c]
      BY <2>1
    <3>2. QED
      BY <1>2, <1>3, <1>4, <2>2, <2>4, <3>1 DEF Requested
  <2>6. Cardinality(Requested') = Cardinality(Requested \ Due) + Cardinality(HaltCancels)
    <3>1. Requested \ Due \in SUBSET Child /\ (Requested \ Due) \cap HaltCancels = {}
      BY <2>2 DEF Requested
    <3>2. QED
      BY <2>2, <2>5, <3>1, CountAdded
  <2>7. pending' = Cardinality(Requested')
    BY <1>5, <1>7, <2>6 DEF OpenNotActionable
  <2>8. open \subseteq ActiveChildren
    BY <1>1 DEF Structure, LoopLists
  <2>9. \A c \in Requested' : child'[c].status \in ActiveStatus
    BY <1>1, <1>2, <1>3, <2>1, <2>3, <2>4, <2>5, <2>8 DEF Requested, IsActive, ActiveChildren
  <2>10. PendingCountExact'
    BY <2>7, <2>9 DEF PendingCountExact, Requested, IsActive
  <2>11. DecideUnrequested'
    BY <1>7 DEF OpenNotActionable, DecideUnrequested
  <2>12. QED
    BY <2>10, <2>11 DEF RequestsCounted
<1>8. QED
  BY <1>6, <1>7 DEF ProcessOpenOrders, OpenAllFinalized, OpenActionable

LEMMA RequestsDecide ==
  ASSUME Typed, Structure, RequestsCounted, Decide
  PROVE  RequestsCounted'
<1>1. PICK c \in todo : /\ todo' = todo \ {c}
                        /\ DecideKeep(c) \/ DecideCancel(c) \/ DecideReplace(c)
  BY DEF Decide, Rest
<1>2. /\ c \in Child /\ IsActive(c) /\ pc = "decide" /\ pc' = pc
      /\ ~child[c].pending /\ child \in [Child -> ChildRecord]
      /\ todo \subseteq Child
  BY <1>1 DEF Decide, Structure, LoopLists, ActiveChildren, Typed, TypeOK,
              RequestsCounted, DecideUnrequested
<1>3. pending = Cardinality(Requested) /\ \A d \in Requested : IsActive(d)
  BY DEF RequestsCounted, PendingCountExact, Requested
<1>4. CASE DecideKeep(c)
  BY <1>1, <1>2, <1>4
     DEF DecideKeep, RequestsCounted, PendingCountExact, DecideUnrequested, IsActive
<1>5. CASE DecideCancel(c)
  <2>1. PICK lat \in CancelLatency : child' = [child EXCEPT ![c] = CancelRequested(c, lat)]
    BY <1>5 DEF DecideCancel
  <2>2. /\ child'[c].pending = TRUE /\ child'[c].status = child[c].status
        /\ \A d \in Child \ {c} : child'[d] = child[d]
    BY <1>2, <2>1, CancelRequestedType
  <2>3. Requested' = Requested \cup {c} /\ c \notin Requested
    BY <1>2, <2>2 DEF Requested
  <2>4. Cardinality(Requested') = Cardinality(Requested) + 1
    <3>1. Requested \in SUBSET Child /\ {c} \in SUBSET Child /\ Requested \cap {c} = {}
      BY <1>2, <2>3 DEF Requested
    <3>2. QED
      BY <2>3, <3>1, CountAdded, CountOne
  <2>5. PendingCountExact'
    <3>1. pending' = Cardinality(Requested')
      BY <1>3, <1>5, <2>4 DEF DecideCancel
    <3>2. \A d \in Child : child'[d].pending => child'[d].status \in ActiveStatus
      BY <1>2, <1>3, <2>2 DEF Requested, IsActive
    <3>3. QED
      BY <3>1, <3>2 DEF PendingCountExact, Requested, IsActive
  <2>6. DecideUnrequested'
    BY <1>1, <1>2, <2>2 DEF RequestsCounted, DecideUnrequested
  <2>7. QED
    BY <2>5, <2>6 DEF RequestsCounted
<1>6. CASE DecideReplace(c)
  <2>1. PICK lat \in SubmitLatency :
          child' = [child EXCEPT ![c] = Cancelled(@), ![n + 1] = Replacement(c, lat)]
    BY <1>6 DEF DecideReplace
  <2>2. n < MaxChild /\ n \in Nat /\ MaxChild \in Nat /\ pending' = pending
    BY <1>6, LifecycleAssumption DEF DecideReplace, Typed, TypeOK
  <2>3. n + 1 \in Child /\ n + 1 > n /\ n + 1 # c
    BY <1>2, <2>2, ActiveUsed DEF Child
  <2>4. /\ child'[n + 1] = Replacement(c, lat) /\ child'[c] = Cancelled(child[c])
        /\ \A d \in Child \ {c, n + 1} : child'[d] = child[d]
    BY <1>2, <2>1, <2>3
  <2>5. ~child'[n + 1].pending /\ ~child'[c].pending
    BY <1>2, <2>4, CancelledType, ReplacementType
  <2>6. ~child[n + 1].pending
    BY <2>3 DEF Structure, UnusedSlots, NoChild
  <2>7. \A d \in Child : child'[d].pending = child[d].pending /\ (child[d].pending => child'[d] = child[d])
    <3>1. child'[c].pending = child[c].pending
      <4>1. child'[c].pending \in BOOLEAN /\ child[c].pending \in BOOLEAN
        BY <1>2, <2>4, CancelledType DEF ChildRecord
      <4>2. QED
        BY <1>2, <2>5, <4>1
    <3>2. child'[n + 1].pending = child[n + 1].pending
      <4>1. child'[n + 1].pending \in BOOLEAN /\ child[n + 1].pending \in BOOLEAN
        BY <1>2, <2>3, <2>4, ReplacementType DEF ChildRecord
      <4>2. QED
        BY <2>5, <2>6, <4>1
    <3>3. QED
      BY <1>2, <2>4, <2>6, <3>1, <3>2
  <2>8. Requested' = Requested
    BY <2>7 DEF Requested
  <2>9. PendingCountExact'
    <3>1. \A d \in Child : child'[d].pending => child'[d].status \in ActiveStatus
      BY <1>3, <2>7 DEF Requested, IsActive
    <3>2. QED
      BY <1>3, <2>2, <2>8, <3>1 DEF PendingCountExact, Requested, IsActive
  <2>10. DecideUnrequested'
    BY <1>1, <1>2, <2>7 DEF RequestsCounted, DecideUnrequested
  <2>11. QED
    BY <2>9, <2>10 DEF RequestsCounted
<1>7. QED
  BY <1>1, <1>4, <1>5, <1>6

LEMMA RequestsFill ==
  ASSUME Typed, Typed', Structure, RequestsCounted, Fill
  PROVE  RequestsCounted'
<1>1. PICK c \in todo :
        /\ c \in Child /\ IsActive(c)
        /\ \A d \in Child \ {c} : child'[d] = child[d]
        /\ \/ /\ ~child'[c].pending
              /\ pending' = PendingLess(Cleared(c))
           \/ /\ child'[c].status \in ActiveStatus
              /\ child'[c].pending = child[c].pending
              /\ pending' = pending \/ pending' = PendingLess(0)
  <2>1. PICK c \in todo :
        /\ c \in Child /\ IsActive(c)
        /\ \A d \in Child \ {c} : child'[d] = child[d]
        /\ \/ ~child'[c].pending /\ pending' = PendingLess(Cleared(c))
           \/ /\ child'[c].status \in ActiveStatus
              /\ child'[c].pending = child[c].pending
              /\ pending' = pending
           \/ \E q \in 1 .. MaxQty :
                /\ child'[c].status = IF Completes(c, q) THEN "FILLED" ELSE "PARTIAL"
                /\ child'[c].pending = (child[c].pending /\ ~Completes(c, q))
                /\ pending' = PendingLess(IF Completes(c, q) THEN Cleared(c) ELSE 0)
    BY FillEffect
  <2>2. ASSUME NEW q \in 1 .. MaxQty,
               child'[c].status = IF Completes(c, q) THEN "FILLED" ELSE "PARTIAL",
               child'[c].pending = (child[c].pending /\ ~Completes(c, q)),
               pending' = PendingLess(IF Completes(c, q) THEN Cleared(c) ELSE 0)
        PROVE  \/ ~child'[c].pending /\ pending' = PendingLess(Cleared(c))
               \/ /\ child'[c].status \in ActiveStatus
                  /\ child'[c].pending = child[c].pending
                  /\ pending' = PendingLess(0)
    <3>1. child[c].pending \in BOOLEAN
      BY <2>1 DEF Typed, TypeOK, ChildRecord
    <3>2. CASE Completes(c, q)
      BY <2>2, <3>2
    <3>3. CASE ~Completes(c, q)
      BY <2>2, <3>1, <3>3 DEF ActiveStatus
    <3>4. QED
      BY <3>2, <3>3
  <2>3. QED
    BY <2>1, <2>2
<1>2. /\ pending = Cardinality(Requested) /\ \A d \in Requested : IsActive(d)
      /\ pending \in Nat
  BY DEF RequestsCounted, PendingCountExact, Requested, Typed, TypeOK
<1>3. CASE ~child'[c].pending /\ pending' = PendingLess(Cleared(c))
  <2>1. Requested' = Requested \ {c}
    BY <1>1, <1>3 DEF Requested
  <2>2. pending' = Cardinality(Requested')
    <3>1. CASE child[c].pending
      <4>1. {c} \in SUBSET Requested
        BY <1>1, <3>1 DEF Requested
      <4>2. PendingLess(Cardinality({c})) = Cardinality(Requested \ {c})
        BY <1>2, <4>1, CountRemoved
      <4>3. QED
        BY <1>3, <2>1, <3>1, <4>2, CountOne DEF Cleared
    <3>2. CASE ~child[c].pending
      <4>1. Requested' = Requested
        BY <2>1, <3>2 DEF Requested
      <4>2. PendingLess(0) = pending
        BY <1>2 DEF PendingLess
      <4>3. QED
        BY <1>2, <1>3, <3>2, <4>1, <4>2 DEF Cleared
    <3>3. QED
      BY <3>1, <3>2
  <2>3. \A d \in Requested' : child'[d].status \in ActiveStatus
    BY <1>1, <1>2, <2>1 DEF Requested, IsActive
  <2>4. QED
    BY <2>2, <2>3 DEF Fill, InFillLoop, RequestsCounted, PendingCountExact, DecideUnrequested, Requested, IsActive
<1>4. CASE /\ child'[c].status \in ActiveStatus
           /\ child'[c].pending = child[c].pending
           /\ pending' = pending \/ pending' = PendingLess(0)
  <2>1. Requested' = Requested
    BY <1>1, <1>4 DEF Requested
  <2>2. pending' = Cardinality(Requested')
    BY <1>2, <1>4, <2>1 DEF PendingLess
  <2>3. \A d \in Requested' : child'[d].status \in ActiveStatus
    BY <1>1, <1>2, <1>4, <2>1 DEF Requested, IsActive
  <2>4. QED
    BY <2>2, <2>3 DEF Fill, InFillLoop, RequestsCounted, PendingCountExact, DecideUnrequested, Requested, IsActive
<1>5. QED
  BY <1>1, <1>3, <1>4

LEMMA RequestsNext ==
  ASSUME Typed, Typed', Structure, ListInSync, RequestsCounted, [Next]_vars
  PROVE  RequestsCounted'
<1>1. CASE ProcessOpenOrders
  BY <1>1, RequestsOpen
<1>2. CASE Decide
  BY <1>2, RequestsDecide
<1>3. CASE Fill
  BY <1>3, RequestsFill
<1>4. ASSUME child' = child, pending' = pending
      PROVE  PendingCountExact'
  BY <1>4 DEF RequestsCounted, PendingCountExact, IsActive
<1>5. CASE CreateParentOrder
  <2>1. ActiveChildren = {} /\ pending' = pending /\ pc' = "route"
    BY <1>5 DEF CreateParentOrder, ListInSync
  <2>2. Requested = {} /\ pending = Cardinality(Requested)
    BY <2>1 DEF RequestsCounted, PendingCountExact, Requested, ActiveChildren
  <2>3. child' = [c \in Child |-> NoChild]
    BY <1>5 DEF CreateParentOrder
  <2>4. Requested' = {} /\ \A c \in Child : ~child'[c].pending
    BY <2>3 DEF Requested, NoChild
  <2>5. QED
    BY <2>1, <2>2, <2>4 DEF RequestsCounted, PendingCountExact, Requested, DecideUnrequested
<1>6. CASE SliceOrder
  <2>1. PICK q \in 1 .. MaxQty, tif \in TifOf(EffectivePolicy), lat \in SubmitLatency :
          child' = [child EXCEPT ![n + 1] = Sliced(q, tif, lat)]
    BY <1>6 DEF SliceOrder
  <2>2. n < MaxChild /\ n \in Nat /\ MaxChild \in Nat /\ pending' = pending /\ pc' = "first"
    BY <1>6, LifecycleAssumption DEF SliceOrder, Typed, TypeOK
  <2>3. n + 1 \in Child /\ n + 1 > n
    BY <2>2 DEF Child
  <2>4. child'[n + 1] = Sliced(q, tif, lat) /\ \A d \in Child \ {n + 1} : child'[d] = child[d]
    BY <2>1, <2>3 DEF Typed, TypeOK
  <2>5. ~child'[n + 1].pending /\ ~child[n + 1].pending
    <3>1. child[n + 1] = NoChild
      BY <2>3 DEF Structure, UnusedSlots
    <3>2. QED
      BY <2>4, <3>1, SlicedType DEF NoChild
  <2>6. Requested' = Requested
    BY <2>4, <2>5 DEF Requested
  <2>7. \A d \in Child : child'[d].pending => child'[d].status \in ActiveStatus
    BY <2>4, <2>5 DEF RequestsCounted, PendingCountExact, IsActive
  <2>8. QED
    BY <2>2, <2>6, <2>7 DEF RequestsCounted, PendingCountExact, Requested, IsActive, DecideUnrequested
<1>7. CASE Tick \/ DecideDone \/ FillDone \/ SkipTick \/ NoOrder \/ SliceNothing
  <2>1. child' = child /\ pending' = pending /\ pc' # "decide"
    BY <1>7 DEF Tick, DecideDone, FillDone, SkipTick, NoOrder, SliceNothing
  <2>2. QED
    BY <1>4, <2>1 DEF RequestsCounted, DecideUnrequested
<1>8. CASE Finished \/ UNCHANGED vars
  BY <1>4, <1>8 DEF Finished, vars, RequestsCounted, DecideUnrequested
<1>9. QED
  BY <1>1, <1>2, <1>3, <1>5, <1>6, <1>7, <1>8 DEF Next

LEMMA RequestsAlways == Spec => []RequestsCounted
<1>1. Init => RequestsCounted
  <2> SUFFICES ASSUME Init PROVE RequestsCounted
    OBVIOUS
  <2>1. Requested = {}
    BY DEF Init, Requested, NoChild
  <2>2. QED
    BY <2>1, FS_EmptySet
       DEF Init, RequestsCounted, PendingCountExact, Requested, DecideUnrequested, NoChild
<1>2. QED
  BY <1>1, RequestsNext, TypedAlways, StructureAlways, ListInSyncAlways, PTL DEF Spec

\* The counter of cancels in flight never drifts from the children's flags.
THEOREM PendingCountNeverDrifts == Spec => []PendingCountExact
<1>1. RequestsCounted => PendingCountExact
  BY DEF RequestsCounted
<1>2. QED
  BY <1>1, RequestsAlways, PTL

\* CancelTimely holds wherever the due cancels have been looked at.
CancelAhead == pc # "open" => \A c \in Child : child[c].pending => now <= child[c].cancelAt

LEMMA CancelAheadNext ==
  ASSUME Typed, Typed', Structure, ListInSync, RequestsCounted, CancelAhead, [Next]_vars
  PROVE  CancelAhead'
<1> USE DEF CancelAhead
<1>1. now \in Nat /\ \A c \in Child : child[c].cancelAt \in Nat
  BY LifecycleAssumption DEF Typed, TypeOK, ChildRecord
<1>2. CASE Tick
  <2>1. CASE open = {} \/ ~parent.active
    BY <1>2, <2>1 DEF Tick, ListInSync, RequestsCounted, PendingCountExact, ActiveChildren
  <2>2. CASE ~(open = {} \/ ~parent.active)
    BY <1>2, <2>2 DEF Tick
  <2>3. QED
    BY <2>1, <2>2
<1>3. CASE ProcessOpenOrders
  <2>1. pc = "open" /\ now' = now /\ open = ActiveChildren
    BY <1>3 DEF ProcessOpenOrders, OpenAllFinalized, OpenNotActionable, OpenActionable, ListInSync
  <2>2. \A c \in Child : Finalized[c].pending => now <= Finalized[c].cancelAt
    <3> SUFFICES ASSUME NEW c \in Child, Finalized[c].pending
                 PROVE  now <= Finalized[c].cancelAt
      OBVIOUS
    <3>1. c \notin Due /\ Finalized[c] = child[c]
      BY CancelledType DEF Finalized, Typed, TypeOK
    <3>2. c \in open
      BY <2>1, <3>1 DEF RequestsCounted, PendingCountExact, ActiveChildren
    <3>3. ~(now >= child[c].cancelAt)
      BY <3>1, <3>2 DEF Due, CancelDue
    <3>4. QED
      BY <1>1, <3>1, <3>3
  <2>3. CASE child' = Finalized
    BY <2>1, <2>2, <2>3
  <2>4. CASE OpenNotActionable
    <3>1. PICK lat \in [HaltCancels -> CancelLatency] :
           child' = [c \in Child |->
                       IF c \in HaltCancels THEN CancelRequested(c, lat[c]) ELSE Finalized[c]]
      BY <2>4 DEF OpenNotActionable
    <3>2. \A c \in Child \cap HaltCancels : child'[c].cancelAt = now + lat[c] /\ lat[c] \in Nat
      BY <3>1, CancelRequestedType, LifecycleAssumption
    <3>3. QED
      BY <1>1, <2>1, <2>2, <3>1, <3>2
  <2>5. QED
    BY <1>3, <2>3, <2>4 DEF ProcessOpenOrders, OpenAllFinalized, OpenActionable
<1>4. CASE Decide
  <2>1. PICK c \in todo : DecideKeep(c) \/ DecideCancel(c) \/ DecideReplace(c)
    BY <1>4 DEF Decide
  <2>2. c \in Child /\ child \in [Child -> ChildRecord] /\ now' = now /\ pc = "decide"
    BY <1>4, <2>1 DEF Decide, Typed, TypeOK
  <2>3. CASE DecideKeep(c)
    BY <2>2, <2>3 DEF DecideKeep
  <2>4. CASE DecideCancel(c)
    <3>1. PICK lat \in CancelLatency : child' = [child EXCEPT ![c] = CancelRequested(c, lat)]
      BY <2>4 DEF DecideCancel
    <3>2. child'[c].cancelAt = now + lat /\ lat \in Nat
      BY <2>2, <3>1, CancelRequestedType, LifecycleAssumption
    <3>3. QED
      BY <1>1, <2>2, <3>1, <3>2
  <2>5. CASE DecideReplace(c)
    <3>1. PICK lat \in SubmitLatency :
          child' = [child EXCEPT ![c] = Cancelled(@), ![n + 1] = Replacement(c, lat)]
      BY <2>5 DEF DecideReplace
    <3>2. \A d \in Child : child'[d].pending => child'[d] = child[d]
      BY <2>2, <3>1, CancelledType, ReplacementType
    <3>3. QED
      BY <2>2, <3>2
  <2>6. QED
    BY <2>1, <2>3, <2>4, <2>5
<1>5. CASE Fill
  <2>1. PICK c \in todo :
        /\ c \in Child
        /\ \A d \in Child \ {c} : child'[d] = child[d]
        /\ child'[c].pending => child[c].pending /\ child'[c].cancelAt = child[c].cancelAt
    BY <1>5, FillEffect, Zenon
  <2>2. now' = now /\ pc' = pc /\ pc # "open"
    BY <1>5 DEF Fill, InFillLoop
  <2>3. QED
    BY <2>1, <2>2
<1>6. CASE CreateParentOrder
  BY <1>6 DEF CreateParentOrder, NoChild
<1>7. CASE SliceOrder
  <2>1. PICK q \in 1 .. MaxQty, tif \in TifOf(EffectivePolicy), lat \in SubmitLatency :
          child' = [child EXCEPT ![n + 1] = Sliced(q, tif, lat)]
    BY <1>7 DEF SliceOrder
  <2>2. \A d \in Child : child'[d].pending => child'[d] = child[d]
    BY <2>1, SlicedType DEF Typed, TypeOK
  <2>3. QED
    BY <1>7, <2>2 DEF SliceOrder
<1>8. CASE DecideDone \/ FillDone \/ SkipTick \/ NoOrder \/ SliceNothing
  BY <1>8 DEF DecideDone, FillDone, InFillLoop, SkipTick, NoOrder, SliceNothing
<1>9. CASE Finished \/ UNCHANGED vars
  BY <1>9 DEF Finished, vars
<1>10. QED
  BY <1>2, <1>3, <1>4, <1>5, <1>6, <1>7, <1>8, <1>9 DEF Next

\* A cancel request is never left standing past the first tick at or after its
\* effective time.
THEOREM CancelsAreTimely == Spec => []CancelTimely
<1>1. Init => CancelAhead
  BY DEF Init, CancelAhead, NoChild
<1>2. CancelAhead => CancelTimely
  BY DEF CancelAhead, CancelTimely
<1>3. QED
  BY <1>1, <1>2, CancelAheadNext, TypedAlways, StructureAlways, ListInSyncAlways, RequestsAlways, PTL
     DEF Spec

-----------------------------------------------------------------------------
(* Timeouts *)

\* The observed timestamp of a state at time t.
SeenAt(t) == IF t < Delay THEN 0 ELSE ((t - Delay) \div TickMs) * TickMs

SameStamps(a, b) == a.submitAt = b.submitAt /\ a.requested = b.requested

\* A child is stamped with its true time and with what was observed then, and
\* whole ticks have passed since.
StampedAt(c, t) ==
  /\ c.submitAt = SeenAt(c.requested)
  /\ \E k \in Nat : t = c.requested + k * TickMs

Stamped == (\E k \in Nat : now = k * TickMs) /\ \A c \in Child : StampedAt(child[c], now)

LEMMA WholeTicks ==
  ASSUME NEW s \in Nat, NEW k \in Nat
  PROVE  /\ (s + k * TickMs) \div TickMs = (s \div TickMs) + k
         /\ k * TickMs \in Nat
         /\ (s \div TickMs) * TickMs <= s
         /\ s - (s \div TickMs) * TickMs <= TickMs - 1
         /\ (s \div TickMs) * TickMs \in Nat
<1> DEFINE T == TickMs
<1>1. T \in Nat /\ T > 0
  BY LifecycleAssumption
<1>2. PICK q \in Nat, r \in Nat : s = q * T + r /\ r < T
  <2>1. s \div T \in Nat /\ s % T \in Nat /\ s % T < T /\ s = T * (s \div T) + (s % T)
    BY <1>1
  <2>2. T * (s \div T) = (s \div T) * T
    BY <1>1, <2>1
  <2>3. QED
    BY <2>1, <2>2
<1>3. q * T \in Nat /\ k * T \in Nat /\ (q + k) * T = q * T + k * T
  BY <1>1
<1>4. \A x \in Nat, y \in Nat : x = y * T + r => x \div T = y
  BY <1>1, <1>2
<1>5. s \div T = q
  BY <1>2, <1>4
<1>6. (s + k * T) \div T = q + k
  <2>1. s + k * T = (q + k) * T + r /\ s + k * T \in Nat /\ q + k \in Nat
    BY <1>2, <1>3
  <2>2. QED
    BY <1>4, <2>1
<1> HIDE DEF T
<1>7. /\ (s + k * T) \div T = (s \div T) + k
      /\ k * T \in Nat
      /\ (s \div T) * T <= s
      /\ s - (s \div T) * T <= T - 1
      /\ (s \div T) * T \in Nat
  BY <1>1, <1>2, <1>3, <1>5, <1>6
<1>8. QED
  BY <1>7 DEF T

\* Over whole ticks the observed clock never runs ahead, and it loses less than
\* the delay and one tick.
LEMMA ObservedLag ==
  ASSUME NEW t \in Nat, NEW k \in Nat
  PROVE  /\ k * TickMs \in Nat
         /\ SeenAt(t) \in Nat /\ SeenAt(t + k * TickMs) \in Nat
         /\ SeenAt(t + k * TickMs) - SeenAt(t) <= k * TickMs
         /\ k * TickMs - (SeenAt(t + k * TickMs) - SeenAt(t)) <= Delay + TickMs - 1
<1> DEFINE gone == k * TickMs
           u == t + gone
<1>1. TickMs \in Nat /\ TickMs > 0 /\ Delay \in Nat
  BY LifecycleAssumption
<1>2. gone \in Nat /\ u \in Nat
  BY WholeTicks
<1>3. u >= Delay =>
        /\ SeenAt(u) \in Nat /\ SeenAt(u) <= u - Delay
        /\ u - Delay - SeenAt(u) <= TickMs - 1
  <2>1. u >= Delay => u - Delay \in Nat
    BY <1>1, <1>2
  <2>2. QED
    BY <1>1, <1>2, <2>1, WholeTicks DEF SeenAt
<1>4. t < Delay => SeenAt(t) = 0
  BY DEF SeenAt
<1>5. u < Delay => SeenAt(u) = 0
  BY DEF SeenAt
<1>6. t >= Delay => SeenAt(t) \in Nat /\ SeenAt(u) = SeenAt(t) + gone
  <2> SUFFICES ASSUME t >= Delay
               PROVE  SeenAt(t) \in Nat /\ SeenAt(u) = SeenAt(t) + gone
    OBVIOUS
  <2>1. t - Delay \in Nat /\ u - Delay = (t - Delay) + gone /\ ~(t < Delay) /\ ~(u < Delay)
    BY <1>1, <1>2
  <2>2. (u - Delay) \div TickMs = ((t - Delay) \div TickMs) + k
    BY <2>1, WholeTicks
  <2>3. (t - Delay) \div TickMs \in Nat
    BY <1>1, <2>1
  <2>4. \A x \in Nat : (x + k) * TickMs = x * TickMs + gone /\ x * TickMs \in Nat
    BY <1>1
  <2>5. QED
    BY <2>1, <2>2, <2>3, <2>4 DEF SeenAt
<1> HIDE DEF gone, u
<1>7. CASE t >= Delay
  BY <1>1, <1>2, <1>6, <1>7 DEF gone, u
<1>8. CASE t < Delay
  <2>1. u = t + gone
    BY DEF u
  <2>2. /\ SeenAt(u) \in Nat /\ SeenAt(u) - 0 <= gone
        /\ gone - (SeenAt(u) - 0) <= Delay + TickMs - 1
    BY <1>1, <1>2, <1>3, <1>5, <1>8, <2>1
  <2>3. QED
    BY <1>2, <1>4, <1>8, <2>2 DEF gone, u
<1>9. QED
  BY <1>1, <1>7, <1>8

\* What a step may do to the stamps of a child.
LEMMA StampsChange ==
  ASSUME Typed, Structure, [Next]_vars, NEW d \in Child
  PROVE  \/ SameStamps(child'[d], child[d])
         \/ child'[d].requested = now /\ child'[d].submitAt = Observed /\ now' = now
         \/ child'[d] = NoChild
<1> USE DEF SameStamps
<1>1. child \in [Child -> ChildRecord]
  BY DEF Typed, TypeOK
<1>2. CASE ProcessOpenOrders
  <2>1. SameStamps(Finalized[d], child[d])
    BY <1>1 DEF Finalized, Cancelled, ChildRecord
  <2>2. CASE OpenNotActionable
    <3>1. PICK lat \in [HaltCancels -> CancelLatency] :
           child' = [c \in Child |->
                       IF c \in HaltCancels THEN CancelRequested(c, lat[c]) ELSE Finalized[c]]
      BY <2>2 DEF OpenNotActionable
    <3>2. SameStamps(CancelRequested(d, lat[d]), child[d])
      BY <1>1 DEF CancelRequested, ChildRecord
    <3>3. QED
      BY <2>1, <3>1, <3>2
  <2>3. QED
    BY <1>2, <2>1, <2>2 DEF ProcessOpenOrders, OpenAllFinalized, OpenActionable
<1>3. CASE Decide
  <2>1. PICK c \in todo : DecideKeep(c) \/ DecideCancel(c) \/ DecideReplace(c)
    BY <1>3 DEF Decide
  <2>2. c \in Child /\ child[c] \in ChildRecord /\ now' = now
    BY <1>1, <1>3, <2>1 DEF Decide, Typed, TypeOK
  <2>3. CASE DecideKeep(c)
    BY <2>3 DEF DecideKeep
  <2>4. CASE DecideCancel(c)
    BY <1>1, <2>2, <2>4 DEF DecideCancel, CancelRequested, ChildRecord
  <2>5. CASE DecideReplace(c)
    <3>1. PICK lat \in SubmitLatency :
          child' = [child EXCEPT ![c] = Cancelled(@), ![n + 1] = Replacement(c, lat)]
      BY <2>5 DEF DecideReplace
    <3>2. SameStamps(Cancelled(child[c]), child[c])
      BY <2>2 DEF Cancelled, ChildRecord
    <3>3. Replacement(c, lat).requested = now /\ Replacement(c, lat).submitAt = Observed
      BY DEF Replacement, NoChild
    <3>4. \/ child'[d] = Replacement(c, lat)
          \/ child'[d] = Cancelled(child[c]) /\ d = c
          \/ child'[d] = child[d]
      BY <1>1, <2>2, <3>1
    <3>5. QED
      BY <2>2, <3>2, <3>3, <3>4
  <2>6. QED
    BY <2>1, <2>3, <2>4, <2>5
<1>4. CASE Fill
  <2>1. PICK c \in todo : FillCancelled(c) \/ FillNotArrived(c) \/ FillQueued(c)
                          \/ FillUnmatchedIoc(c) \/ FillUnmatched(c) \/ FillMatched(c)
    BY <1>4 DEF Fill
  <2>2. c \in Child /\ child[c] \in ChildRecord
    BY <1>1, <2>1 DEF Typed, TypeOK
  <2>3. CASE FillCancelled(c) \/ FillUnmatchedIoc(c)
    <3>1. child' = [child EXCEPT ![c] = Cancelled(@)]
      BY <2>3 DEF FillCancelled, FillUnmatchedIoc
    <3>2. QED
      BY <1>1, <2>2, <3>1 DEF Cancelled, ChildRecord
  <2>4. CASE FillNotArrived(c) \/ FillQueued(c)
    BY <1>1, <2>2, <2>4 DEF FillNotArrived, FillQueued, ChildRecord
  <2>5. CASE FillUnmatched(c)
    BY <1>1, <2>2, <2>5 DEF FillUnmatched, ChildRecord
  <2>6. CASE FillMatched(c)
    <3>1. PICK q \in 1 .. MaxQty, marketable \in BOOLEAN :
          child' = [child EXCEPT ![c] = Matched(c, q, marketable)]
      BY <2>6 DEF FillMatched
    <3>2. SameStamps(Matched(c, q, marketable), child[c])
      BY <2>2 DEF Matched, ChildRecord
    <3>3. QED
      BY <1>1, <2>2, <3>1, <3>2
  <2>7. QED
    BY <2>1, <2>3, <2>4, <2>5, <2>6
<1>5. CASE SliceOrder
  <2>1. PICK q \in 1 .. MaxQty, tif \in TifOf(EffectivePolicy), lat \in SubmitLatency :
          child' = [child EXCEPT ![n + 1] = Sliced(q, tif, lat)]
    BY <1>5 DEF SliceOrder
  <2>2. Sliced(q, tif, lat).requested = now /\ Sliced(q, tif, lat).submitAt = Observed /\ now' = now
    BY <1>5 DEF Sliced, NoChild, SliceOrder
  <2>3. QED
    BY <1>1, <2>1, <2>2
<1>6. CASE CreateParentOrder
  BY <1>6 DEF CreateParentOrder
<1>7. CASE Tick \/ DecideDone \/ FillDone \/ SkipTick \/ NoOrder \/ SliceNothing \/ Finished \/ UNCHANGED vars
  BY <1>7 DEF Tick, DecideDone, FillDone, SkipTick, NoOrder, SliceNothing, Finished, vars
<1>8. QED
  BY <1>2, <1>3, <1>4, <1>5, <1>6, <1>7 DEF Next

LEMMA StampedInit == Init => Stamped
<1> SUFFICES ASSUME Init PROVE Stamped
  OBVIOUS
<1>1. TickMs \in Nat /\ TickMs > 0 /\ Delay \in Nat
  BY LifecycleAssumption
<1>2. now = 0 /\ 0 = 0 * TickMs /\ 0 = 0 + 0 * TickMs
  BY <1>1 DEF Init
<1>3. SeenAt(0) = 0
  BY <1>1 DEF SeenAt
<1>4. \A c \in Child : child[c].requested = 0 /\ child[c].submitAt = 0
  BY DEF Init, NoChild
<1>5. QED
  BY <1>2, <1>3, <1>4 DEF Stamped, StampedAt

LEMMA StampedNext ==
  ASSUME Typed, Typed', Structure, Stamped, [Next]_vars
  PROVE  Stamped'
<1>1. TickMs \in Nat /\ TickMs > 0 /\ Delay \in Nat /\ now \in Nat
  BY LifecycleAssumption DEF Typed, TypeOK
<1>2. now' = now \/ now' = now + TickMs
  BY DEF Next, Tick, ProcessOpenOrders, OpenAllFinalized, OpenNotActionable, OpenActionable, Decide,
         DecideDone, Fill, FillDone, SkipTick, NoOrder, CreateParentOrder, SliceOrder, SliceNothing,
         Finished, vars
<1>3. \A t \in Nat : (\E k \in Nat : now = t + k * TickMs) => \E k \in Nat : now' = t + k * TickMs
  <2> SUFFICES ASSUME NEW t \in Nat, NEW k \in Nat, now = t + k * TickMs
               PROVE  \E j \in Nat : now' = t + j * TickMs
    OBVIOUS
  <2>1. k + 1 \in Nat /\ (k + 1) * TickMs = k * TickMs + TickMs /\ k * TickMs \in Nat
    BY <1>1
  <2>2. CASE now' = now
    BY <2>2
  <2>3. CASE now' = now + TickMs
    <3>1. now' = t + (k + 1) * TickMs
      BY <1>1, <2>1, <2>3
    <3>2. QED
      BY <2>1, <3>1
  <2>4. QED
    BY <1>2, <2>2, <2>3
<1>4. PICK k \in Nat : now = k * TickMs
  BY DEF Stamped
<1>5. (\E j \in Nat : now' = j * TickMs) /\ (\E j \in Nat : now' = 0 + j * TickMs)
  <2>1. \A j \in Nat : 0 + j * TickMs = j * TickMs
    BY <1>1
  <2>2. now = 0 + k * TickMs /\ 0 \in Nat
    BY <1>4, <2>1
  <2>3. \E j \in Nat : now' = 0 + j * TickMs
    BY <1>3, <2>2
  <2>4. QED
    BY <2>1, <2>3
<1>6. ASSUME NEW c \in Child
      PROVE  StampedAt(child'[c], now')
  <2>1. child[c].requested \in Nat /\ StampedAt(child[c], now)
    BY DEF Typed, TypeOK, ChildRecord, Stamped
  <2>2. CASE SameStamps(child'[c], child[c])
    <3>1. \E j \in Nat : now' = child[c].requested + j * TickMs
      BY <1>3, <2>1 DEF StampedAt
    <3>2. QED
      BY <2>1, <2>2, <3>1 DEF StampedAt, SameStamps
  <2>3. CASE child'[c].requested = now /\ child'[c].submitAt = Observed /\ now' = now
    <3>1. Observed = SeenAt(now)
      BY DEF Observed, SeenAt
    <3>2. now' = now + 0 * TickMs /\ 0 \in Nat
      BY <1>1, <2>3
    <3>3. QED
      BY <2>3, <3>1, <3>2 DEF StampedAt
  <2>4. CASE child'[c] = NoChild
    <3>1. child'[c].requested = 0 /\ child'[c].submitAt = 0
      BY <2>4 DEF NoChild
    <3>2. SeenAt(0) = 0
      BY <1>1 DEF SeenAt
    <3>3. QED
      BY <1>5, <3>1, <3>2 DEF StampedAt
  <2>5. QED
    BY <2>2, <2>3, <2>4, StampsChange
<1>7. QED
  BY <1>5, <1>6 DEF Stamped

\* No order times out before its true age has reached the timeout, nor later
\* than the observation delay allows, whatever the delay and the tick.
THEOREM TimeoutsAreOnTime == Spec => []TimeoutsKeepTime
<1>1. ASSUME Typed, Stamped
      PROVE  TimeoutsKeepTime
  <2> SUFFICES ASSUME NEW c \in todo
               PROVE  /\ TimedOut(c) => now - child[c].requested >= Timeout
                      /\ now - child[c].requested - Timeout >= Delay + TickMs - 1 => TimedOut(c)
    BY DEF TimeoutsKeepTime
  <2>1. c \in Child /\ child[c].requested \in Nat /\ now \in Nat
    BY <1>1 DEF Typed, TypeOK, ChildRecord
  <2>2. PICK k \in Nat : now = child[c].requested + k * TickMs
    BY <1>1, <2>1 DEF Stamped, StampedAt
  <2>3. child[c].submitAt = SeenAt(child[c].requested) /\ Observed = SeenAt(now)
    BY <1>1, <2>1 DEF Stamped, StampedAt, Observed, SeenAt
  <2> DEFINE gone == k * TickMs
             early == SeenAt(child[c].requested)
             late == SeenAt(child[c].requested + gone)
  <2>4. /\ gone \in Nat /\ early \in Nat /\ late \in Nat
        /\ late - early <= gone /\ gone - (late - early) <= Delay + TickMs - 1
    BY <2>1, ObservedLag
  <2>5. now = child[c].requested + gone /\ Observed = late /\ child[c].submitAt = early
    BY <2>2, <2>3
  <2>6. TickMs \in Nat /\ Delay \in Nat /\ Timeout \in Nat
    BY LifecycleAssumption
  <2> HIDE DEF gone, early, late
  <2>7. QED
    BY <2>1, <2>4, <2>5, <2>6 DEF TimedOut
<1>2. QED
  BY <1>1, StampedInit, StampedNext, TypedAlways, StructureAlways, PTL DEF Spec

-----------------------------------------------------------------------------
(* Final children *)

LEMMA FinalUntouched ==
  ASSUME Typed, Structure, [Next]_vars, ~CreateParentOrder,
         NEW d \in Child, child[d].status \in FinalStatus
  PROVE  child'[d] = child[d]
<1>1. ~IsActive(d) /\ child[d] # NoChild /\ child \in [Child -> ChildRecord]
  BY DEF IsActive, ActiveStatus, FinalStatus, NoChild, Typed, TypeOK
<1>2. CASE ProcessOpenOrders
  <2>1. pc = "open" /\ open \subseteq ActiveChildren
    BY <1>2 DEF ProcessOpenOrders, OpenAllFinalized, OpenNotActionable, OpenActionable, Structure, LoopLists
  <2>2. d \notin open
    BY <1>1, <2>1 DEF ActiveChildren
  <2>3. Finalized[d] = child[d] /\ d \notin HaltCancels
    BY <2>2 DEF Finalized, Due, HaltCancels, Live
  <2>4. child'[d] = Finalized[d]
    BY <1>2, <2>3 DEF ProcessOpenOrders, OpenAllFinalized, OpenNotActionable, OpenActionable
  <2>5. QED
    BY <2>3, <2>4
<1>3. CASE Decide
  <2>1. PICK c \in todo : DecideKeep(c) \/ DecideCancel(c) \/ DecideReplace(c)
    BY <1>3 DEF Decide
  <2>2. c \in Child /\ c # d
    BY <1>1, <2>1 DEF Structure, LoopLists, ActiveChildren
  <2>3. DecideReplace(c) => n + 1 # d
    <3> SUFFICES ASSUME DecideReplace(c), n + 1 = d PROVE FALSE
      OBVIOUS
    <3>1. n + 1 > n
      BY LifecycleAssumption DEF Typed, TypeOK
    <3>2. QED
      BY <1>1, <3>1 DEF Structure, UnusedSlots
  <2>4. QED
    BY <1>1, <2>1, <2>2, <2>3 DEF DecideKeep, DecideCancel, DecideReplace
<1>4. CASE Fill
  <2>1. PICK c \in todo : IsActive(c) /\ \A e \in Child \ {c} : child'[e] = child[e]
    BY <1>4, FillEffect
  <2>2. QED
    BY <1>1, <2>1
<1>5. CASE SliceOrder
  <2>1. n + 1 # d
    <3> SUFFICES ASSUME n + 1 = d PROVE FALSE
      OBVIOUS
    <3>1. n + 1 > n
      BY LifecycleAssumption DEF Typed, TypeOK
    <3>2. QED
      BY <1>1, <3>1 DEF Structure, UnusedSlots
  <2>2. QED
    BY <1>1, <1>5, <2>1 DEF SliceOrder
<1>6. CASE Tick \/ DecideDone \/ FillDone \/ SkipTick \/ NoOrder \/ SliceNothing \/ Finished \/ UNCHANGED vars
  BY <1>6 DEF Tick, DecideDone, FillDone, SkipTick, NoOrder, SliceNothing, Finished, vars
<1>7. QED
  BY <1>2, <1>3, <1>4, <1>5, <1>6 DEF Next

\* No step reopens, fills or moves a child that was filled or cancelled.
THEOREM FinalChildrenNeverChange == Spec => FinalChildrenStay
<1>1. ASSUME Typed, Structure, [Next]_vars
      PROVE  [\/ CreateParentOrder
              \/ \A c \in Child : child[c].status \in FinalStatus => child'[c] = child[c]]_vars
  BY <1>1, FinalUntouched
<1>2. QED
  BY <1>1, TypedAlways, StructureAlways, PTL DEF Spec, FinalChildrenStay
=============================================================================
