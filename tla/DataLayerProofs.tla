-------------------------- MODULE DataLayerProofs ---------------------------
(***************************************************************************)
(* Proofs about DataLayer, for any days, trades and intervals and any      *)
(* number of days.                                                         *)
(***************************************************************************)
EXTENDS DataLayer, SequenceTheorems, DataTheorems

-----------------------------------------------------------------------------
(* MicroEventHandler: one state after another *)

Handlers == [halt : BOOLEAN, vi : BOOLEAN]

\* What a state does to the handler, whatever it was before.
Handled(h, prev, s, events, after) ==
  /\ after \in Handlers
  /\ s.tradable => (after.vi <=> ME!Shaken(prev, s)) /\ ~after.halt
  /\ ~s.tradable => (after.vi <=> h.vi) /\ after.halt
  /\ "vi" \in events => s.tradable /\ ME!Shaken(prev, s) /\ after.vi
  /\ "halt" \in events => ~s.tradable

LEMMA StateHandled ==
  ASSUME NEW h \in Handlers, NEW prev, NEW s, s.tradable \in BOOLEAN
  PROVE  Handled(h, prev, s, ME!Events(h, prev, s), ME!After(h, ME!Events(h, prev, s)))
<1> DEFINE events == ME!Events(h, prev, s)
           after  == ME!After(h, events)
           shaken == ME!Shaken(prev, s)
<1>1. /\ "vi" \in events <=> s.tradable /\ ~h.vi /\ shaken
      /\ "lifted" \in events <=> s.tradable /\ h.vi /\ ~shaken
      /\ "halt" \in events <=> ~h.halt /\ ~s.tradable
      /\ "resume" \in events <=> h.halt /\ s.tradable
  <2>1. /\ "vi" \in ME!HaltEvents(h, s) <=> FALSE
        /\ "lifted" \in ME!HaltEvents(h, s) <=> FALSE
        /\ "halt" \in ME!HaltEvents(h, s) <=> ~h.halt /\ ~s.tradable
        /\ "resume" \in ME!HaltEvents(h, s) <=> h.halt /\ s.tradable
    BY DEF ME!HaltEvents, Handlers
  <2>2. ME!SessionEvents(prev, s) \subseteq {"session"}
    BY DEF ME!SessionEvents
  <2>3. /\ "vi" \in ME!ViEvents(h, prev, s) <=> ~h.vi /\ shaken
        /\ "lifted" \in ME!ViEvents(h, prev, s) <=> h.vi /\ ~shaken
        /\ "halt" \notin ME!ViEvents(h, prev, s)
        /\ "resume" \notin ME!ViEvents(h, prev, s)
    BY DEF ME!ViEvents, Handlers
  <2>4. events = ME!HaltEvents(h, s) \cup ME!SessionEvents(prev, s)
                   \cup IF s.tradable THEN ME!ViEvents(h, prev, s) ELSE {}
    BY Zenon DEF ME!Events
  <2> HIDE DEF events, shaken
  <2> QED
    BY <2>1, <2>2, <2>3, <2>4
<1>2. after = [halt |-> (h.halt \/ "halt" \in events) /\ "resume" \notin events,
               vi   |-> (h.vi \/ "vi" \in events) /\ "lifted" \notin events]
  BY Zenon DEF ME!After
<1> HIDE DEF events, after, shaken
<1>3. h.halt \in BOOLEAN /\ h.vi \in BOOLEAN
  BY DEF Handlers
<1>4. /\ after \in Handlers
      /\ after.halt <=> (h.halt \/ "halt" \in events) /\ "resume" \notin events
      /\ after.vi <=> (h.vi \/ "vi" \in events) /\ "lifted" \notin events
  BY <1>2 DEF Handlers
<1>5. Handled(h, prev, s, events, after)
  BY <1>1, <1>3, <1>4 DEF Handled, shaken
<1> QED
  BY <1>5 DEF events, after

-----------------------------------------------------------------------------
(* What stops the pipeline *)

\* The states of the day that can have moved the interruption.
Lately(seq) == {k \in 2 .. Len(seq) : seq[k].tradable}

ViIsLatest(seq, h) ==
  \A k \in Lately(seq) :
    (\A j \in Lately(seq) : j <= k) => (h.vi <=> ME!Shaken(seq[k - 1], seq[k]))

\* Blocks is BlocksAreExact for the latest state, without a choice in it.
Blocks(seq, w) ==
  LET n == Len(seq) IN
  n > 0 =>
    /\ "halt" \in w.events => ~seq[n].tradable
    /\ "vi" \in w.events => w.handler.vi /\ seq[n].tradable /\ (n > 1 => ME!Shaken(seq[n - 1], seq[n]))
    /\ seq[n].tradable => ~w.handler.halt
    /\ n > 1 /\ ~seq[n].tradable => w.handler.halt

\* The state before, as the handler has it, is the last one of the day, or of an
\* earlier day; before the first state of all the handler is as it was made.
BlocksInv ==
  /\ \E S : states \in Seq(S)
  /\ \A k \in 1 .. Len(states) : states[k].tradable \in BOOLEAN
  /\ watch.handler \in Handlers
  /\ watch.prev = <<>> => watch.handler = ME!FreshHandler /\ states = <<>>
  /\ states # <<>> => watch.prev = << states[Len(states)] >>
  /\ Blocks(states, watch)
  /\ ViIsLatest(states, watch.handler)

\* A day without a state says nothing yet.
LEMMA NoStates ==
  ASSUME NEW w
  PROVE  /\ \E S : << >> \in Seq(S)
         /\ Len(<< >>) = 0 /\ Blocks(<< >>, w) /\ ViIsLatest(<< >>, w.handler)
<1>1. << >> \in Seq({}) /\ Len(<< >>) = 0
  BY EmptySeq
<1>2. Lately(<< >>) = {}
  BY <1>1 DEF Lately
<1>3. Blocks(<< >>, w)
  BY <1>1 DEF Blocks
<1> QED
  BY <1>1, <1>2, <1>3 DEF ViIsLatest

\* The states of the day with one more.
Longer(seq, more, s) ==
  LET n == Len(seq) IN
  /\ Len(more) = n + 1 /\ more # <<>> /\ more[n + 1] = s
  /\ \A k \in 1 .. n : more[k] = seq[k]

LEMMA LatelyLonger ==
  ASSUME NEW seq, NEW more, NEW s, Len(seq) \in Nat, Longer(seq, more, s)
  PROVE  /\ s.tradable /\ Len(seq) > 0 => Lately(more) = Lately(seq) \cup {Len(seq) + 1}
         /\ ~(s.tradable /\ Len(seq) > 0) => Lately(more) = Lately(seq)
BY DEF Longer, Lately

\* A state that is the very first of all is compared with nothing.
LEMMA FirstWatched ==
  ASSUME NEW w, NEW s, s.tradable \in BOOLEAN, w.prev = <<>>, w.handler = ME!FreshHandler
  PROVE  Watched(w, s) = [handler |-> ME!FreshHandler, prev |-> << s >>, events |-> {}]
<1>1. Watched(w, s) = [handler |-> ME!After(w.handler, {}), prev |-> << s >>, events |-> {}]
  BY Zenon DEF Watched
<1> DEFINE after == ME!After(ME!FreshHandler, {})
<1>2. after = [halt |-> (FALSE \/ "halt" \in {}) /\ "resume" \notin {},
               vi   |-> (FALSE \/ "vi" \in {}) /\ "lifted" \notin {}]
  BY DEF ME!After, ME!FreshHandler
<1> HIDE DEF after
<1>3. ((FALSE \/ "halt" \in {}) /\ "resume" \notin {}) = FALSE
      /\ ((FALSE \/ "vi" \in {}) /\ "lifted" \notin {}) = FALSE
  OBVIOUS
<1>4. after = ME!FreshHandler
  BY <1>2, <1>3, Zenon DEF ME!FreshHandler
<1> QED
  BY <1>1, <1>4 DEF after

LEMMA LaterWatched ==
  ASSUME NEW w, NEW s, s.tradable \in BOOLEAN, w.prev # <<>>, w.handler \in Handlers
  PROVE  LET v == Watched(w, s) IN
         /\ v.prev = << s >>
         /\ Handled(w.handler, w.prev[1], s, v.events, v.handler)
<1> DEFINE events == ME!Events(w.handler, w.prev[1], s)
           after  == ME!After(w.handler, events)
<1>1. Handled(w.handler, w.prev[1], s, events, after)
  BY StateHandled
<1>2. Watched(w, s) = [handler |-> after, prev |-> << s >>, events |-> events]
  BY Zenon DEF Watched
<1> HIDE DEF events, after
<1> QED
  BY <1>1, <1>2

\* One more state.
LEMMA StateWatched ==
  ASSUME BlocksInv, NEW s, s.tradable \in BOOLEAN, states' = Append(states, s), watch' = Watched(watch, s)
  PROVE  BlocksInv'
<1> DEFINE n == Len(states)
<1>1. PICK S : states \in Seq(S)
  BY DEF BlocksInv
<1>2. n \in Nat /\ states' \in Seq(S \cup {s}) /\ Longer(states, states', s)
  <2>1. states \in Seq(S \cup {s})
    BY <1>1, SeqMonotonic
  <2> QED
    BY <2>1, LenProperties, AppendProperties DEF Longer
<1>3. \A k \in 1 .. n + 1 : states'[k].tradable \in BOOLEAN
  BY <1>2 DEF Longer, BlocksInv
<1>4. Len(states') = n + 1 /\ states' # <<>> /\ states'[n + 1] = s
      /\ \A k \in 1 .. n : states'[k] = states[k]
  BY <1>2 DEF Longer
<1>5. n > 0 => states # <<>> /\ watch.prev = << states[n] >>
  <2>1. n > 0 => states # <<>>
    BY EmptySeq
  <2> QED
    BY <2>1 DEF BlocksInv
<1>6. CASE watch.prev = <<>>
  <2>1. watch' = [handler |-> ME!FreshHandler, prev |-> << s >>, events |-> {}]
    BY <1>6, FirstWatched DEF BlocksInv
  <2>2. states = <<>> /\ n = 0
    BY <1>6, EmptySeq DEF BlocksInv
  <2>3. Lately(states') = {}
    BY <1>2, <2>2, LatelyLonger DEF Lately
  <2>4. ME!FreshHandler \in Handlers /\ ~ME!FreshHandler.halt
    BY DEF ME!FreshHandler, Handlers
  <2>5. Blocks(states', watch')
    BY <1>4, <2>1, <2>2, <2>4 DEF Blocks
  <2>6. watch'.prev # <<>> /\ watch'.prev = << states'[Len(states')] >> /\ watch'.handler \in Handlers
    BY <1>4, <2>1, <2>2, <2>4
  <2> QED
    BY <1>2, <1>3, <1>4, <2>2, <2>3, <2>5, <2>6 DEF BlocksInv, ViIsLatest
<1>7. CASE watch.prev # <<>>
  <2> DEFINE p == watch.prev[1]
  <2>1. watch'.prev = << s >> /\ Handled(watch.handler, p, s, watch'.events, watch'.handler)
    BY <1>7, LaterWatched DEF BlocksInv
  <2>2. n > 0 => p = states[n]
    BY <1>5
  <2> HIDE DEF p
  <2>3. Blocks(states', watch')
    BY <1>2, <1>4, <2>1, <2>2 DEF Blocks, Handled
  <2>4. ViIsLatest(states', watch'.handler)
    <3> SUFFICES ASSUME NEW k \in Lately(states'), \A j \in Lately(states') : j <= k
                 PROVE  watch'.handler.vi <=> ME!Shaken(states'[k - 1], states'[k])
      BY DEF ViIsLatest
    <3>1. CASE s.tradable /\ n > 0
      <4>1. Lately(states') = Lately(states) \cup {n + 1}
        BY <1>2, <3>1, LatelyLonger
      <4>2. k = n + 1
        BY <1>2, <1>4, <4>1 DEF Lately
      <4>3. states'[k - 1] = p /\ states'[k] = s
        BY <1>2, <1>4, <2>2, <3>1, <4>2
      <4> QED
        BY <2>1, <3>1, <4>3 DEF Handled
    <3>2. CASE ~(s.tradable /\ n > 0)
      <4>1. Lately(states') = Lately(states)
        BY <1>2, <3>2, LatelyLonger
      <4>2. k \in 2 .. n
        BY <4>1 DEF Lately
      <4>3. k - 1 \in 1 .. n /\ k \in 1 .. n /\ n > 0
        BY <1>2, <4>2
      <4>4. states'[k - 1] = states[k - 1] /\ states'[k] = states[k]
        BY <1>4, <4>3
      <4>5. watch.handler.vi <=> ME!Shaken(states[k - 1], states[k])
        BY <4>1 DEF BlocksInv, ViIsLatest
      <4>6. watch'.handler.vi <=> watch.handler.vi
        BY <2>1, <3>2, <4>3 DEF Handled
      <4> QED
        BY <4>4, <4>5, <4>6
    <3> QED
      BY <3>1, <3>2
  <2>5. watch'.prev # <<>> /\ watch'.prev = << states'[Len(states')] >> /\ watch'.handler \in Handlers
    BY <1>4, <2>1 DEF Handled
  <2> QED
    BY <1>2, <1>3, <1>4, <2>3, <2>4, <2>5 DEF BlocksInv
<1> QED
  BY <1>6, <1>7

LEMMA BlocksInit == Init => BlocksInv
<1> SUFFICES ASSUME Init
             PROVE  BlocksInv
  OBVIOUS
<1>1. states = <<>> /\ watch = [handler |-> ME!FreshHandler, prev |-> <<>>, events |-> {}]
  BY DEF Init
<1>2. Len(states) = 0 /\ (\E S : states \in Seq(S))
      /\ Blocks(states, watch) /\ ViIsLatest(states, watch.handler)
  BY <1>1, NoStates
<1>3. ME!FreshHandler \in Handlers
  BY DEF ME!FreshHandler, Handlers
<1> QED
  BY <1>1, <1>2, <1>3 DEF BlocksInv

\* A new day starts without states, and with the handler as the last day left it.
LEMMA DayStarts ==
  ASSUME BlocksInv, states' = <<>>, watch' = watch
  PROVE  BlocksInv'
<1>1. Len(states') = 0 /\ (\E S : states' \in Seq(S))
      /\ Blocks(states', watch') /\ ViIsLatest(states', watch'.handler)
  BY NoStates
<1> QED
  BY <1>1 DEF BlocksInv

LEMMA BlocksStep == BlocksInv /\ [Next]_vars => BlocksInv'
<1> SUFFICES ASSUME BlocksInv, [Next]_vars
             PROVE  BlocksInv'
  OBVIOUS
<1>1. CASE LoadDay
  BY <1>1, DayStarts DEF LoadDay
<1>2. CASE BuildState
  <2> DEFINE row   == day.rows[next]
             mask  == SessionMask(day.date, day.rows)[next]
             lob   == SnapshotOf(row)
             trades == RelevantTrades(day.trades, lob.ts)
             c     == FP!Computed(pipe, lob, trades)
             state == StateOf(lob, mask, trades, c.features)
  <2>1. next \in DOMAIN day.rows
    BY <1>2 DEF BuildState
  <2>2. mask = [type |-> SessionType(day.date, row.ts), tradable |-> SessionType(day.date, row.ts) = "regular"]
    BY <2>1, Zenon DEF SessionMask
  <2>3. mask.tradable \in BOOLEAN
    BY <2>2
  <2>4. IF Valid(lob) THEN states' = Append(states, state) /\ watch' = Watched(watch, state)
        ELSE UNCHANGED << states, watch >>
    BY <1>2, Zenon DEF BuildState
  <2>5. state.tradable = mask.tradable
    BY Zenon DEF StateOf
  <2> HIDE DEF state, mask
  <2>6. CASE Valid(lob)
    BY <2>3, <2>4, <2>5, <2>6, StateWatched
  <2>7. CASE ~Valid(lob)
    BY <2>4, <2>7 DEF BlocksInv
  <2> QED
    BY <2>6, <2>7
<1>3. CASE EndDay
  BY <1>3, DayStarts DEF EndDay
<1>4. CASE Ended \/ UNCHANGED vars
  BY <1>4 DEF Ended, vars, BlocksInv
<1> QED
  BY <1>1, <1>2, <1>3, <1>4 DEF Next

\* A set of natural numbers below a bound has a largest one.
LEMMA LargestIn ==
  ASSUME NEW n \in Nat, NEW S \in SUBSET (1 .. n), S # {}
  PROVE  \E k \in S : \A j \in S : j <= k
<1> DEFINE below == {n - i : i \in S}
<1>1. below \subseteq Nat /\ below # {}
  <2>1. \A i \in S : n - i \in Nat
    OBVIOUS
  <2>2. PICK i \in S : TRUE
    OBVIOUS
  <2>3. n - i \in below
    OBVIOUS
  <2> QED
    BY <2>1, <2>3
<1> HIDE DEF below
<1>2. PICK m \in below : \A j \in below : m <= j
  BY <1>1, LeastNatural
<1>3. PICK k \in S : m = n - k
  BY <1>2 DEF below
<1>4. \A j \in S : n - j \in below
  BY DEF below
<1> QED
  BY <1>2, <1>3, <1>4

LEMMA BlocksMeant == BlocksInv => BlocksAreExact
<1> SUFFICES ASSUME BlocksInv, states # <<>>
             PROVE  BlocksAreExact
  BY Zenon DEF BlocksAreExact
<1> DEFINE n == Len(states)
           s == Last(states)
           before == IF Len(states) = 1 THEN <<>> ELSE << states[n - 1] >>
           jumped == before # <<>> /\ ME!Shaken(before[1], s)
           lately == {k \in 2 .. n : states[k].tradable}
           latest == CHOOSE k \in lately : \A j \in lately : j <= k
<1>1. n \in Nat \ {0}
  <2>1. PICK S : states \in Seq(S)
    BY DEF BlocksInv
  <2> QED
    BY <2>1, EmptySeq
<1>2. s = states[n]
  BY Zenon DEF Last
<1>3. n > 1 <=> n # 1
  <2> HIDE DEF n
  <2> QED
    BY <1>1
<1>4. n > 1 => before = << states[n - 1] >>
  BY <1>3
<1>11. before # <<>> <=> n > 1
  <2>1. n = 1 => before = <<>>
    OBVIOUS
  <2> HIDE DEF before
  <2> QED
    BY <1>3, <1>4, <2>1
<1>5. jumped <=> n > 1 /\ ME!Shaken(states[n - 1], s)
  BY <1>4, <1>11
<1>6. lately = Lately(states)
  BY DEF Lately
<1>7. Blocks(states, watch) /\ ViIsLatest(states, watch.handler) /\ s.tradable \in BOOLEAN
      /\ watch.handler.vi \in BOOLEAN
  BY <1>1, <1>2 DEF BlocksInv, Handlers
<1>8. lately # {} => watch.handler.vi = ME!Shaken(states[latest - 1], states[latest])
  <2> HAVE lately # {}
  <2>1. lately \in SUBSET (1 .. n)
    BY <1>1
  <2>2. \E k \in lately : \A j \in lately : j <= k
    BY <1>1, <2>1, LargestIn
  <2>3. latest \in lately /\ \A j \in lately : j <= latest
    BY <2>2, Zenon
  <2> HIDE DEF lately, latest
  <2>4. watch.handler.vi <=> ME!Shaken(states[latest - 1], states[latest])
    BY <1>6, <1>7, <2>3, Zenon DEF ViIsLatest
  <2>5. ME!Shaken(states[latest - 1], states[latest]) \in BOOLEAN
    BY Zenon DEF ME!Shaken
  <2> QED
    BY <1>7, <2>4, <2>5, Zenon
<1>9. ~ME!IsTradable(s, watch.events) => ~s.tradable \/ "halt" \in watch.events \/ "vi" \in watch.events
  BY DEF ME!IsTradable
<1> HIDE DEF n, s, before, jumped, lately, latest
<1>10. /\ ~ME!IsTradable(s, watch.events) => ~s.tradable \/ "vi" \in watch.events
       /\ "vi" \in watch.events => watch.handler.vi /\ s.tradable /\ (before # <<>> => jumped)
       /\ s.tradable => ~watch.handler.halt
       /\ before # <<>> /\ ~s.tradable => watch.handler.halt
  BY <1>1, <1>2, <1>11, <1>5, <1>7, <1>9 DEF Blocks, n
<1> QED
  BY <1>8, <1>10, Zenon DEF BlocksAreExact, n, s, before, jumped, lately, latest

\* However many days are built one after the other, what stops the pipeline at a
\* state is the session and an interruption this very state begins, and the
\* handler's flags are the verdict on the latest states that could change them.
\* (MicroEventHandler.process, detect_vi, detect_halt, build_states_for_range)
THEOREM HandlerIsExact == Spec => []BlocksAreExact
<1>1. Spec => []BlocksInv
  BY BlocksInit, BlocksStep, PTL DEF Spec
<1> QED
  BY <1>1, BlocksMeant, PTL

-----------------------------------------------------------------------------
(* FeaturePipeline: one state after another *)

LEMMA SameSelection ==
  ASSUME NEW seq, NEW positions
  PROVE  FP!At(seq, positions) = At(seq, positions)
BY DEF FP!At, At

LEMMA UntilTyped ==
  ASSUME NEW X, NEW trades \in Seq(X), NEW ts
  PROVE  FP!Until(trades, ts) \in Seq(X)
<1> DEFINE early == {i \in DOMAIN trades : trades[i].ts <= ts}
<1>1. FP!Until(trades, ts) = At(trades, early)
  BY SameSelection, Zenon DEF FP!Until
<1> HIDE DEF early
<1> QED
  BY <1>1, AtTyped

LEMMA LatestProperties ==
  ASSUME NEW X, NEW seq \in Seq(X), NEW n \in Nat
  PROVE  LET latest == FP!LatestOf(seq, n)
             m == IF Len(seq) <= n THEN Len(seq) ELSE n
         IN /\ latest \in Seq(X) /\ Len(latest) = m
            /\ \A i \in 1 .. m : latest[i] = seq[Len(seq) - m + i]
<1> DEFINE k == Len(seq)
           m == IF k <= n THEN k ELSE n
           latest == FP!LatestOf(seq, n)
<1>1. k \in Nat /\ \A i \in 1 .. k : seq[i] \in X
  BY LenProperties, ElementOfSeq
<1>2. FP!Greatest(1, k - n + 1) = k - m + 1
  <2> HIDE DEF k
  <2> QED
    BY <1>1 DEF FP!Greatest
<1>3. latest = SubSeq(seq, k - m + 1, k)
  BY <1>2, Zenon DEF FP!LatestOf
<1> HIDE DEF latest, k
<1>4. k - m + 1 \in Int /\ k \in Int /\ m \in Nat /\ \A i \in k - m + 1 .. k : seq[i] \in X
  BY <1>1
<1> HIDE DEF m
<1>5. /\ latest \in Seq(X) /\ Len(latest) = IF k - m + 1 <= k THEN k - (k - m + 1) + 1 ELSE 0
      /\ \A i \in 1 .. k - (k - m + 1) + 1 : latest[i] = seq[k - m + 1 + i - 1]
  BY <1>3, <1>4, SubSeqProperties
<1>6. k - (k - m + 1) + 1 = m /\ (k - m + 1 <= k <=> m > 0) /\ \A i \in 1 .. m : k - m + 1 + i - 1 = k - m + i
  BY <1>1, <1>4
<1>7. latest \in Seq(X) /\ Len(latest) = m /\ \A i \in 1 .. m : latest[i] = seq[k - m + i]
  BY <1>4, <1>5, <1>6
<1> QED
  BY <1>7 DEF latest, k, m

\* The last few of the last many are the last few.
LEMMA LatestOfLatest ==
  ASSUME NEW X, NEW seq \in Seq(X), NEW many \in Nat, NEW few \in 0 .. many
  PROVE  FP!LatestOf(FP!LatestOf(seq, many), few) = FP!LatestOf(seq, few)
<1> DEFINE k == Len(seq)
           m == IF k <= many THEN k ELSE many
           f == IF k <= few THEN k ELSE few
           g == IF m <= few THEN m ELSE few
           lately == FP!LatestOf(seq, many)
           a == FP!LatestOf(lately, few)
           b == FP!LatestOf(seq, few)
<1>1. k \in Nat /\ few \in Nat
  BY LenProperties
<1>2. lately \in Seq(X) /\ Len(lately) = m /\ \A i \in 1 .. m : lately[i] = seq[k - m + i]
  BY LatestProperties
<1>3. b \in Seq(X) /\ Len(b) = f /\ \A i \in 1 .. f : b[i] = seq[k - f + i]
  BY <1>1, LatestProperties
<1> HIDE DEF lately, b
<1>4. a \in Seq(X) /\ Len(a) = g /\ \A i \in 1 .. g : a[i] = lately[m - g + i]
  <2>1. LET j == IF Len(lately) <= few THEN Len(lately) ELSE few
        IN a \in Seq(X) /\ Len(a) = j /\ \A i \in 1 .. j : a[i] = lately[Len(lately) - j + i]
    BY <1>1, <1>2, LatestProperties
  <2> HIDE DEF a
  <2> QED
    BY <1>2, <2>1
<1> HIDE DEF a, k
<1>5. g = f /\ m \in Nat /\ f \in Nat /\ f <= m
  BY <1>1
<1>6. \A i \in 1 .. f : m - g + i \in 1 .. m /\ k - m + (m - g + i) = k - f + i
  BY <1>1, <1>5
<1> HIDE DEF m, f, g
<1>7. \A i \in 1 .. f : a[i] = b[i]
  BY <1>2, <1>3, <1>4, <1>5, <1>6
<1>8. a = [i \in 1 .. f |-> a[i]] /\ b = [i \in 1 .. f |-> b[i]]
  BY <1>3, <1>4, <1>5, LenProperties
<1>9. a = b
  BY <1>7, <1>8
<1> QED
  BY <1>9 DEF a, b, lately

\* What compute reads of the trades is among the latest LongWindow of them.
LEMMA LatestSuffice ==
  ASSUME NEW X, NEW trades \in Seq(X), Lookback >= LongWindow
  PROVE  LET latest == FP!LatestOf(trades, Lookback) IN
         /\ FP!TradeFlow(latest) = FP!TradeFlow(trades)
         /\ FP!FlowImbalance(latest) = FP!FlowImbalance(trades)
         /\ FP!VolumeSurprise(latest) = FP!VolumeSurprise(trades)
<1> DEFINE latest == FP!LatestOf(trades, Lookback)
           n == Len(trades)
           long == FP!Least(n, LongWindow)
<1>1. Lookback \in Nat /\ TradeWindow \in Nat \ {0} /\ LongWindow \in Int /\ TradeWindow <= LongWindow
  BY DataLayerAssumption
<1>2. n \in Nat /\ long \in 0 .. Lookback /\ TradeWindow \in 0 .. Lookback
  <2>1. n \in Nat
    BY LenProperties
  <2> HIDE DEF n
  <2> QED
    BY <1>1, <2>1 DEF FP!Least
<1>3. /\ FP!LatestOf(latest, TradeWindow) = FP!LatestOf(trades, TradeWindow)
      /\ FP!LatestOf(latest, long) = FP!LatestOf(trades, long)
  <2> HIDE DEF long
  <2> QED
    BY <1>1, <1>2, LatestOfLatest
<1>4. /\ (Len(latest) < TradeWindow <=> n < TradeWindow)
      /\ FP!Least(Len(latest), LongWindow) = long
  <2>1. Len(latest) = IF n <= Lookback THEN n ELSE Lookback
    BY <1>1, LatestProperties
  <2> HIDE DEF latest, n
  <2> QED
    BY <1>1, <1>2, <2>1 DEF FP!Least
<1> HIDE DEF latest
<1>5. FP!TradeFlow(latest) = FP!TradeFlow(trades)
  BY <1>3, Zenon DEF FP!TradeFlow
<1>6. FP!FlowImbalance(latest) = FP!FlowImbalance(trades)
  BY <1>3, Zenon DEF FP!FlowImbalance
<1>7. FP!VolumeSurprise(latest) = FP!VolumeSurprise(trades)
  BY <1>3, <1>4, Zenon DEF FP!VolumeSurprise
<1> QED
  BY <1>5, <1>6, <1>7 DEF latest

SameBook(lob, s) == lob.bids = s.bids /\ lob.asks = s.asks

LEMMA SameFeatures ==
  ASSUME NEW kept, NEW lob, NEW s, SameBook(lob, s), NEW X, NEW trades \in Seq(X), Lookback >= LongWindow
  PROVE  FP!Computed(kept, lob, FP!LatestOf(trades, Lookback)) = FP!Computed(kept, s, trades)
<1> DEFINE latest == FP!LatestOf(trades, Lookback)
<1>1. /\ FP!TradeFlow(latest) = FP!TradeFlow(trades)
      /\ FP!FlowImbalance(latest) = FP!FlowImbalance(trades)
      /\ FP!VolumeSurprise(latest) = FP!VolumeSurprise(trades)
  BY LatestSuffice
<1> HIDE DEF latest
<1>2. lob.bids = s.bids /\ lob.asks = s.asks
  BY DEF SameBook
<1>3. FP!TwiceMid(lob) = FP!TwiceMid(s)
  BY <1>2 DEF FP!TwiceMid
<1>4. FP!Computed(kept, lob, latest) = FP!Computed(kept, s, trades)
  BY <1>1, <1>2, <1>3, SMTT(60) DEF FP!Computed
<1> QED
  BY <1>4 DEF latest

\* What sort_values leaves: the rows in some order, in time.
LEMMA InTimeOrderTyped ==
  ASSUME NEW X, NEW df \in Seq(X), NEW sorted \in InTimeOrder(df)
  PROVE  /\ sorted \in Seq(X) /\ Len(sorted) = Len(df)
         /\ \A i, j \in DOMAIN sorted : i < j => sorted[i].ts <= sorted[j].ts
         /\ \A i \in DOMAIN sorted : \E j \in DOMAIN df : sorted[i] = df[j]
<1>1. PICK p \in [DOMAIN df -> DOMAIN df] :
        /\ \A i, j \in DOMAIN df : i < j => p[i] # p[j] /\ df[p[i]].ts <= df[p[j]].ts
        /\ sorted = [i \in DOMAIN df |-> df[p[i]]]
  BY Zenon DEF InTimeOrder
<1>2. Len(df) \in Nat /\ DOMAIN df = 1 .. Len(df) /\ \A i \in 1 .. Len(df) : df[i] \in X
  BY LenProperties, ElementOfSeq
<1>3. \A i \in DOMAIN df : sorted[i] = df[p[i]] /\ p[i] \in DOMAIN df
  BY <1>1
<1>4. sorted \in Seq(X) /\ DOMAIN sorted = DOMAIN df
  BY <1>1, <1>2, <1>3, IsASeq
<1>5. Len(sorted) = Len(df)
  BY <1>2, <1>4, LenProperties
<1> QED
  BY <1>1, <1>3, <1>4, <1>5

\* The pipeline after each of the snapshots of a day.
PipeStep(before, snapshot, trades) == FP!Computed(before, snapshot, FP!Until(trades, snapshot.ts))
Piped(kept, n, snapshots, trades) ==
  /\ kept[0] = FP!FreshPipe
  /\ \A k \in 1 .. n : /\ kept[k] = PipeStep(kept[k - 1], snapshots[k], trades).pipe
                       /\ snapshots[k].features = PipeStep(kept[k - 1], snapshots[k], trades).features

IsPipes(kept, n, snapshots, trades) ==
  kept = [k \in 0 .. n |-> IF k = 0 THEN FP!FreshPipe ELSE PipeStep(kept[k - 1], snapshots[k], trades).pipe]

\* Features that are computed one snapshot after the other are those of the batch.
LEMMA PipedIsBatch ==
  ASSUME NEW X, NEW snapshots \in Seq(X), NEW trades, NEW kept, Piped(kept, Len(snapshots), snapshots, trades)
  PROVE  [k \in DOMAIN snapshots |-> snapshots[k].features] = FP!Batch(FP!FreshPipe, snapshots, trades)
<1> DEFINE n == Len(snapshots)
           h == [k \in 0 .. n |-> kept[k]]
           f == CHOOSE g : IsPipes(g, n, snapshots, trades)
<1>1. n \in Nat /\ DOMAIN snapshots = 1 .. n
  BY LenProperties
<1>2. ASSUME NEW k \in 0 .. n
      PROVE  h[k] = IF k = 0 THEN FP!FreshPipe ELSE PipeStep(h[k - 1], snapshots[k], trades).pipe
  <2>1. CASE k = 0
    BY <2>1 DEF Piped
  <2>2. CASE k # 0
    <3>1. k \in 1 .. n /\ k - 1 \in 0 .. n
      BY <1>1, <2>2
    <3>2. h[k] = kept[k] /\ h[k - 1] = kept[k - 1]
      BY <3>1
    <3>3. kept[k] = PipeStep(kept[k - 1], snapshots[k], trades).pipe
      BY <3>1 DEF Piped
    <3> QED
      BY <2>2, <3>2, <3>3
  <2> QED
    BY <2>1, <2>2
<1>3. IsPipes(h, n, snapshots, trades)
  <2>1. h = [k \in 0 .. n |-> h[k]]
    OBVIOUS
  <2> HIDE DEF h
  <2> QED
    BY <1>2, <2>1, Zenon DEF IsPipes
<1>4. IsPipes(f, n, snapshots, trades)
  BY <1>3
<1> HIDE DEF f, h, n
<1>5. \A k \in 1 .. n : f[k - 1] = kept[k - 1]
  <2>1. \A k \in 0 .. n : f[k] = IF k = 0 THEN FP!FreshPipe ELSE PipeStep(f[k - 1], snapshots[k], trades).pipe
    BY <1>4, Zenon DEF IsPipes
  <2>2. StepAlike(n, f, h)
    <3>1. f[0] = h[0]
      <4>1. 0 \in 0 .. n
        BY <1>1
      <4>2. h[0] = FP!FreshPipe
        BY <1>2, <4>1
      <4>3. f[0] = FP!FreshPipe
        BY <2>1, <4>1
      <4> QED
        BY <4>2, <4>3
    <3>2. ASSUME NEW k \in 1 .. n, f[k - 1] = h[k - 1]
          PROVE  f[k] = h[k]
      <4>1. k \in 0 .. n /\ k # 0
        BY <1>1
      <4> QED
        BY <1>2, <2>1, <3>2, <4>1
    <3> QED
      BY <3>1, <3>2 DEF StepAlike
  <2>3. \A k \in 0 .. n : f[k] = h[k]
    BY <1>1, <2>2, TracesAgree DEF SameTrace
  <2>4. \A k \in 1 .. n : k - 1 \in 0 .. n
    BY <1>1
  <2> QED
    BY <2>3, <2>4 DEF h
<1>6. \A k \in DOMAIN snapshots : snapshots[k].features = PipeStep(f[k - 1], snapshots[k], trades).features
  BY <1>1, <1>5 DEF Piped, n
<1>7. FP!Batch(FP!FreshPipe, snapshots, trades)
        = [k \in DOMAIN snapshots |-> PipeStep(f[k - 1], snapshots[k], trades).features]
  BY Zenon DEF FP!Batch, f, n, IsPipes, PipeStep
<1> QED
  BY <1>6, <1>7, Zenon

\* What the pipeline keeps, and the features of the day's states, are those of
\* the states one after the other.
FeaturesInv ==
  /\ \E X : day.trades \in Seq(X)
  /\ \E X : states \in Seq(X)
  /\ outcome # "building" => states = <<>>
  /\ outcome = "building" =>
       \E kept : Piped(kept, Len(states), states, day.trades) /\ kept[Len(states)] = pipe

LEMMA NoneBuilt == Len(<< >>) = 0 /\ \E X : << >> \in Seq(X)
<1>1. << >> \in Seq({})
  BY EmptySeq
<1> QED
  BY <1>1, EmptySeq

LEMMA FeaturesInit == Init => FeaturesInv
<1> SUFFICES ASSUME Init
             PROVE  FeaturesInv
  OBVIOUS
<1>1. states = <<>> /\ outcome = "loading" /\ day.trades = <<>>
  BY DEF Init, NoDay
<1> QED
  BY <1>1, NoneBuilt DEF FeaturesInv

LEMMA FeaturesLoad ==
  ASSUME LoadDay
  PROVE  FeaturesInv'
<1>1. states' = <<>> /\ pipe' = FP!FreshPipe
  BY Zenon DEF LoadDay, FP!ResetPipe
<1>2. PICK given \in Trades : day'.trades \in InTimeOrder(given)
  <2>1. PICK given \in Trades : \E raw : \E trades \in InTimeOrder(given) :
          day' = [date |-> NextDate, raw |-> raw, trades |-> trades, rows |-> WorkingRows(raw, trades, range.freq)]
    BY Zenon DEF LoadDay, NormaliseTrades
  <2>2. PICK raw : \E trades \in InTimeOrder(given) :
          day' = [date |-> NextDate, raw |-> raw, trades |-> trades, rows |-> WorkingRows(raw, trades, range.freq)]
    BY <2>1
  <2> QED
    BY <2>2
<1>3. day'.trades \in Seq(Trade)
  BY <1>2, DataLayerAssumption, InTimeOrderTyped
<1> DEFINE kept == [k \in {0} |-> FP!FreshPipe]
<1>4. Piped(kept, Len(states'), states', day'.trades) /\ kept[Len(states')] = pipe'
  <2>1. kept[0] = FP!FreshPipe
    OBVIOUS
  <2> HIDE DEF kept
  <2> QED
    BY <1>1, <2>1, NoneBuilt DEF Piped
<1> HIDE DEF kept
<1> QED
  BY <1>1, <1>3, <1>4, NoneBuilt DEF FeaturesInv

LEMMA FeaturesBuild ==
  ASSUME FeaturesInv, BuildState, Lookback >= LongWindow
  PROVE  FeaturesInv'
<1> DEFINE row    == day.rows[next]
           mask   == SessionMask(day.date, day.rows)[next]
           lob    == SnapshotOf(row)
           trades == RelevantTrades(day.trades, lob.ts)
           c      == FP!Computed(pipe, lob, trades)
           s      == StateOf(lob, mask, trades, c.features)
           n      == Len(states)
<1>1. /\ outcome = "building" /\ outcome' = outcome /\ day' = day
      /\ IF Valid(lob) THEN states' = Append(states, s) /\ pipe' = c.pipe
         ELSE UNCHANGED << states, pipe >>
  BY Zenon DEF BuildState
<1>2. SameBook(lob, s) /\ s.ts = lob.ts /\ s.features = c.features
  BY Zenon DEF SameBook, StateOf
<1>3. c = PipeStep(pipe, s, day.trades)
  <2>1. PICK X : day.trades \in Seq(X)
    BY DEF FeaturesInv
  <2> DEFINE until == FP!Until(day.trades, lob.ts)
  <2>2. until \in Seq(X)
    BY <2>1, UntilTyped
  <2>3. trades = FP!LatestOf(until, Lookback)
    BY Zenon DEF RelevantTrades
  <2> HIDE DEF s, until, trades, lob
  <2>4. FP!Computed(pipe, lob, FP!LatestOf(until, Lookback)) = FP!Computed(pipe, s, until)
    BY <1>2, <2>2, SameFeatures
  <2> QED
    BY <1>2, <2>3, <2>4 DEF PipeStep, until
<1> HIDE DEF s, c, lob
<1>4. CASE Valid(lob)
  <2>1. PICK X : states \in Seq(X)
    BY DEF FeaturesInv
  <2>2. PICK kept : Piped(kept, n, states, day.trades) /\ kept[n] = pipe
    BY <1>1 DEF FeaturesInv
  <2>3. n \in Nat /\ states' \in Seq(X \cup {s}) /\ Len(states') = n + 1 /\ states'[n + 1] = s
        /\ \A k \in 1 .. n : states'[k] = states[k]
    <3>1. states \in Seq(X \cup {s})
      BY <2>1, SeqMonotonic
    <3> QED
      BY <1>1, <1>4, <3>1, LenProperties, AppendProperties
  <2> DEFINE more == [k \in 0 .. n + 1 |-> IF k = n + 1 THEN c.pipe ELSE kept[k]]
  <2>4. \A k \in 0 .. n : more[k] = kept[k]
    <3> HIDE DEF n
    <3> QED
      BY <2>3
  <2>5. more[n + 1] = c.pipe
    <3> HIDE DEF n
    <3> QED
      BY <2>3
  <2> HIDE DEF more, n
  <2>6. Piped(more, n + 1, states', day.trades)
    <3>1. more[0] = FP!FreshPipe
      BY <2>2, <2>3, <2>4 DEF Piped
    <3>2. ASSUME NEW k \in 1 .. n + 1
          PROVE  /\ more[k] = PipeStep(more[k - 1], states'[k], day.trades).pipe
                 /\ states'[k].features = PipeStep(more[k - 1], states'[k], day.trades).features
      <4>1. CASE k = n + 1
        <5>1. more[k - 1] = pipe
          BY <2>2, <2>3, <2>4, <4>1
        <5> QED
          BY <1>2, <1>3, <2>3, <2>5, <4>1, <5>1
      <4>2. CASE k # n + 1
        <5>1. k \in 1 .. n /\ k - 1 \in 0 .. n /\ k \in 0 .. n
          BY <2>3, <4>2
        <5>2. more[k] = kept[k] /\ more[k - 1] = kept[k - 1] /\ states'[k] = states[k]
          BY <2>3, <2>4, <5>1
        <5>3. /\ kept[k] = PipeStep(kept[k - 1], states[k], day.trades).pipe
              /\ states[k].features = PipeStep(kept[k - 1], states[k], day.trades).features
          BY <2>2, <5>1 DEF Piped
        <5> QED
          BY <5>2, <5>3
      <4> QED
        BY <4>1, <4>2
    <3> QED
      BY <3>1, <3>2 DEF Piped
  <2>7. more[n + 1] = pipe'
    BY <1>1, <1>4, <2>5
  <2> QED
    BY <1>1, <2>3, <2>6, <2>7 DEF FeaturesInv
<1>5. CASE ~Valid(lob)
  BY <1>1, <1>5 DEF FeaturesInv
<1> QED
  BY <1>4, <1>5

LEMMA FeaturesStep ==
  ASSUME Lookback >= LongWindow
  PROVE  FeaturesInv /\ [Next]_vars => FeaturesInv'
<1> SUFFICES ASSUME FeaturesInv, [Next]_vars
             PROVE  FeaturesInv'
  OBVIOUS
<1>1. CASE LoadDay
  BY <1>1, FeaturesLoad
<1>2. CASE BuildState
  BY <1>2, FeaturesBuild
<1>3. CASE EndDay
  <2>1. states' = <<>> /\ outcome' # "building" /\ day'.trades = <<>>
    BY <1>3 DEF EndDay, NoDay
  <2> QED
    BY <2>1, NoneBuilt DEF FeaturesInv
<1>4. CASE Ended \/ UNCHANGED vars
  BY <1>4 DEF Ended, vars, FeaturesInv
<1> QED
  BY <1>1, <1>2, <1>3, <1>4 DEF Next

LEMMA FeaturesMeant ==
  ASSUME Lookback >= LongWindow
  PROVE  FeaturesInv => FeaturesAreOfTheDay
<1> SUFFICES ASSUME FeaturesInv
             PROVE  FeaturesAreOfTheDay
  OBVIOUS
<1>1. PICK X : states \in Seq(X)
  BY DEF FeaturesInv
<1>2. \E kept : Piped(kept, Len(states), states, day.trades)
  <2>1. CASE outcome = "building"
    BY <2>1 DEF FeaturesInv
  <2>2. CASE outcome # "building"
    <3>1. states = <<>> /\ Len(states) = 0
      BY <2>2, NoneBuilt DEF FeaturesInv
    <3> DEFINE kept == [k \in {0} |-> FP!FreshPipe]
    <3>2. kept[0] = FP!FreshPipe
      OBVIOUS
    <3> HIDE DEF kept
    <3>3. Piped(kept, Len(states), states, day.trades)
      BY <3>1, <3>2 DEF Piped
    <3> QED
      BY <3>3
  <2> QED
    BY <2>1, <2>2
<1> QED
  BY <1>1, <1>2, PipedIsBatch DEF FeaturesAreOfTheDay

\* However many days the builder has built before, the features of the states it
\* has built of this one are those a fresh pipeline computes from them in one
\* go, each with all trades up to it, though it was shown the latest few only.
\* (FeaturePipeline.reset, compute, compute_batch, build_from_dataframes)
THEOREM FeaturesAreFresh == Spec => []FeaturesAreOfTheDay
<1>1. CASE Lookback >= LongWindow
  <2>1. Init => FeaturesInv
    BY FeaturesInit
  <2>2. FeaturesInv /\ [Next]_vars => FeaturesInv'
    BY <1>1, FeaturesStep
  <2>3. FeaturesInv => FeaturesAreOfTheDay
    BY <1>1, FeaturesMeant
  <2> QED
    BY <2>1, <2>2, <2>3, PTL DEF Spec
<1>2. CASE ~(Lookback >= LongWindow)
  <2>1. FeaturesAreOfTheDay
    BY <1>2 DEF FeaturesAreOfTheDay
  <2> QED
    BY <2>1, PTL
<1> QED
  BY <1>1, <1>2

-----------------------------------------------------------------------------
(* The rows of a day: read, cleaned, joined, resampled, flagged *)

Frames(X) == Seq(Seq(X))
Joined(frames) == FoldLeft(LAMBDA all, df : all \o df, <<>>, frames)

LEMMA JoinedTyped ==
  ASSUME NEW X, NEW frames \in Frames(X)
  PROVE  Joined(frames) \in Seq(X)
<1> DEFINE n == Len(frames)
           A == Seq(X)
           G == [p \in (1 .. n) \X A |-> p[2] \o frames[p[1]]]
           IsIter(g) == g = [t \in SUBSET (1 .. n) |->
                                IF t = {} THEN << >> ELSE g[t \ {Max(t)}] \o frames[Max(t)]]
           iter == CHOOSE g : IsIter(g)
<1>1. n \in Nat /\ DOMAIN frames = 1 .. n /\ \A i \in 1 .. n : frames[i] \in A
  BY LenProperties, ElementOfSeq DEF Frames
<1>2. Joined(frames) = iter[1 .. n]
  <2>1. Joined(frames) = (CHOOSE g : g = [t \in SUBSET (DOMAIN frames) |->
          IF t = {} THEN << >> ELSE g[t \ {Max(t)}] \o frames[Max(t)]])[DOMAIN frames]
    BY Zenon DEF Joined, FoldLeft, MapThenFoldSet
  <2> QED
    BY <1>1, <2>1, Zenon
<1>3. << >> \in A
  BY EmptySeq
<1> HIDE DEF n
<1>4. ASSUME NEW i \in 1 .. n, NEW a \in A
      PROVE  G[<<i, a>>] = a \o frames[i]
  OBVIOUS
<1> HIDE DEF G
<1>5. Keeps(G, 1 .. n, A)
  <2>1. ASSUME NEW i \in 1 .. n, NEW a \in A
        PROVE  G[<<i, a>>] \in A
    <3>1. a \o frames[i] \in A
      BY <1>1, ConcatProperties
    <3> QED
      BY <1>4, <3>1, Zenon
  <2> QED
    BY <2>1, Zenon DEF Keeps
<1> HIDE DEF A
<1>6. \E g : IsIter(g)
  <2>1. PICK g \in [SUBSET (1 .. n) -> A] : IsLeftFold(G, << >>, n, g)
    BY <1>1, <1>3, <1>5, FoldLeftExists
  <2>2. ASSUME NEW t \in SUBSET (1 .. n)
        PROVE  g[t] = IF t = {} THEN << >> ELSE g[t \ {Max(t)}] \o frames[Max(t)]
    <3>1. t # {} => Max(t) \in 1 .. n
      BY <1>1, LargestChosen
    <3>2. g[t \ {Max(t)}] \in A
      OBVIOUS
    <3> QED
      BY <1>4, <2>1, <3>1, <3>2 DEF IsLeftFold
  <2> QED
    BY <2>2
<1>7. IsIter(iter)
  BY <1>6
<1> HIDE DEF iter
<1>8. iter[{}] = << >>
  BY <1>7
<1>9. ASSUME NEW k \in 1 .. n, iter[1 .. k - 1] \in A
      PROVE  iter[1 .. k] = G[<<k, iter[1 .. k - 1]>>]
  <2>1. k \in Nat \ {0} /\ 1 .. k \in SUBSET (1 .. n)
    BY <1>1
  <2>2. iter[1 .. k] = iter[(1 .. k) \ {Max(1 .. k)}] \o frames[Max(1 .. k)]
    BY <1>7, <2>1, LargestOfPrefix
  <2>3. Max(1 .. k) = k /\ (1 .. k) \ {k} = 1 .. k - 1
    BY <2>1, LargestOfPrefix
  <2>4. iter[1 .. k] = iter[1 .. k - 1] \o frames[k]
    BY <2>2, <2>3, Zenon
  <2> QED
    BY <1>4, <1>9, <2>4, Zenon
<1>10. StepsOn(G, A, n, iter)
  BY <1>9, Zenon DEF StepsOn
<1>11. PICK H : IsTrace(G, A, << >>, n, H) /\ H[n] = iter[1 .. n]
  BY <1>1, <1>3, <1>5, <1>8, <1>10, FoldLeftTrace
<1>12. H[n] \in A
  BY <1>1, <1>11 DEF IsTrace
<1> QED
  BY <1>2, <1>11, <1>12 DEF A

\* Rows that carry a trade of T.
DayRow(T) == [ts : Nat, bids : Levels, asks : Levels, trade : T, drift : BOOLEAN]

\* A row that was read, and what kinds of rows become which.
ReadRow(r, ts) == [ts |-> ts, bids |-> r.bids, asks |-> r.asks, trade |-> NoTrade, drift |-> FALSE]
Become(Rows, Y) == Rows \subseteq RawRow /\ \A r \in Rows : \A ts \in Nat : ReadRow(r, ts) \in Y

LEMMA ParsedTyped ==
  ASSUME NEW Rows, NEW Y, Become(Rows, Y), NEW df \in Seq(Rows)
  PROVE  Parsed(df) \in Seq(Y)
<1> DEFINE read == At(df, {i \in DOMAIN df : df[i].recv # Unread})
<1>1. ASSUME NEW r \in Rows, NEW ts \in Nat
      PROVE  ReadRow(r, ts) \in Y
  BY DEF Become
<1>2. /\ Len(df) \in Nat /\ DOMAIN df = 1 .. Len(df) /\ \A i \in 1 .. Len(df) : df[i] \in Rows
      /\ \A r \in Rows : r.clock \in Nat /\ (r.recv # Unread => r.recv \in Nat)
  BY LenProperties, ElementOfSeq DEF RawRow, Become
<1>3. /\ read \in Seq(Rows)
      /\ \A k \in 1 .. Len(read) : read[k] \in Rows /\ read[k].recv # Unread
  <2> DEFINE known == {i \in DOMAIN df : df[i].recv # Unread}
  <2>1. \A i \in known : df[i].recv # Unread
    OBVIOUS
  <2> HIDE DEF known
  <2>2. /\ At(df, known) \in Seq(Rows)
        /\ \A k \in 1 .. Len(At(df, known)) : \E i \in 1 .. Len(df) : i \in known /\ At(df, known)[k] = df[i]
    BY AtTyped, AtMembers
  <2>3. At(df, known) \in Seq(Rows)
        /\ \A k \in 1 .. Len(At(df, known)) : At(df, known)[k] \in Rows /\ At(df, known)[k].recv # Unread
    BY <1>2, <2>1, <2>2
  <2> QED
    BY <2>3 DEF known
<1>4. Len(read) \in Nat /\ DOMAIN read = 1 .. Len(read)
  BY <1>3, LenProperties
<1>5. Parsed(df) = IF read = <<>> THEN [i \in DOMAIN df |-> ReadRow(df[i], df[i].clock)]
                   ELSE [i \in DOMAIN read |-> ReadRow(read[i], read[i].recv)]
  BY Zenon DEF Parsed, ReadRow
<1> HIDE DEF read
<1>6. [i \in 1 .. Len(df) |-> ReadRow(df[i], df[i].clock)] \in Seq(Y)
  <2> DEFINE rows == [i \in 1 .. Len(df) |-> ReadRow(df[i], df[i].clock)]
  <2>1. \A i \in 1 .. Len(df) : ReadRow(df[i], df[i].clock) \in Y
    BY <1>1, <1>2
  <2>2. DOMAIN rows = 1 .. Len(df) /\ \A i \in 1 .. Len(df) : rows[i] \in Y
    BY <2>1
  <2>3. rows = [i \in 1 .. Len(df) |-> rows[i]]
    OBVIOUS
  <2> HIDE DEF rows
  <2>4. rows \in Seq(Y)
    BY <1>2, <2>2, <2>3, SequenceOf
  <2> QED
    BY <2>4 DEF rows
<1>7. [i \in 1 .. Len(read) |-> ReadRow(read[i], read[i].recv)] \in Seq(Y)
  <2> DEFINE rows == [i \in 1 .. Len(read) |-> ReadRow(read[i], read[i].recv)]
  <2>1. \A i \in 1 .. Len(read) : ReadRow(read[i], read[i].recv) \in Y
    BY <1>1, <1>2, <1>3
  <2>2. DOMAIN rows = 1 .. Len(read) /\ \A i \in 1 .. Len(read) : rows[i] \in Y
    BY <2>1
  <2>3. rows = [i \in 1 .. Len(read) |-> rows[i]]
    OBVIOUS
  <2> HIDE DEF rows
  <2>4. rows \in Seq(Y)
    BY <1>4, <2>2, <2>3, SequenceOf
  <2> QED
    BY <2>4 DEF rows
<1> QED
  BY <1>2, <1>4, <1>5, <1>6, <1>7

\* Times that rise from row to row.
Rises(rows)   == \A i, j \in DOMAIN rows : i < j => rows[i].ts < rows[j].ts
Ascends(rows) == \A i, j \in DOMAIN rows : i < j => rows[i].ts <= rows[j].ts

\* A frame in time order, with rows that have no trade yet.
IsRaw(raw) ==
  /\ raw \in Seq(DayRow({NoTrade}))
  /\ \A i, j \in DOMAIN raw : i < j => raw[i].ts <= raw[j].ts

LEMMA LoadedFrom ==
  ASSUME NEW Rows, NEW Y, Become(Rows, Y), NEW files \in Frames(Rows), NEW readable,
         NEW raw \in LoadRawCsv(files, readable)
  PROVE  raw \in Seq(Y) /\ Ascends(raw)
<1>1. LoadRawCsv(files, readable) = InTimeOrder(Parsed(Joined(At(files, readable))))
  BY Zenon DEF LoadRawCsv, Joined
<1>2. Joined(At(files, readable)) \in Seq(Rows)
  <2>1. At(files, readable) \in Frames(Rows)
    BY AtTyped DEF Frames
  <2> QED
    BY <2>1, JoinedTyped
<1>3. Parsed(Joined(At(files, readable))) \in Seq(Y)
  BY <1>2, ParsedTyped
<1> QED
  BY <1>1, <1>3, InTimeOrderTyped DEF Ascends

LEMMA RawLoaded ==
  ASSUME NEW files \in Frames(RawRow), NEW readable, NEW raw \in LoadRawCsv(files, readable)
  PROVE  IsRaw(raw)
<1>1. Become(RawRow, DayRow({NoTrade}))
  BY DEF Become, RawRow, DayRow, ReadRow
<1> QED
  BY <1>1, LoadedFrom DEF IsRaw, Ascends

\* A side of a book without negative volumes, and without the levels that have
\* no price.
Clipped(levels) == [i \in DOMAIN levels |-> [levels[i] EXCEPT !.volume = Greatest(0, @)]]
Priced(levels)  == At(levels, {i \in DOMAIN levels : levels[i].price > 0})

LEMMA LevelsTyped ==
  ASSUME NEW levels \in Levels
  PROVE  /\ levels \in Seq(Level) /\ Len(levels) \in Nat \ {0} /\ DOMAIN levels = 1 .. Len(levels)
         /\ 1 \in DOMAIN levels /\ \A i \in DOMAIN levels : levels[i] \in Level
<1>1. levels \in Seq(Level) /\ levels # << >>
  BY DEF Levels
<1> QED
  BY <1>1, EmptySeq, LenProperties, ElementOfSeq

LEMMA ClippedTyped ==
  ASSUME NEW levels \in Levels
  PROVE  /\ Clipped(levels) \in Levels /\ Best(Clipped(levels)) = Best(levels)
         /\ Clipped(Clipped(levels)) = Clipped(levels)
<1> DEFINE n == Len(levels)
           less == Clipped(levels)
           least == Clipped(less)
<1>1. n \in Nat \ {0} /\ DOMAIN levels = 1 .. n /\ \A i \in 1 .. n : levels[i] \in Level
  BY LevelsTyped
<1>2. ASSUME NEW l \in Level
      PROVE  LET once == [l EXCEPT !.volume = Greatest(0, @)] IN
             once \in Level /\ once.price = l.price /\ [once EXCEPT !.volume = Greatest(0, @)] = once
  <2> DEFINE v == Greatest(0, l.volume)
  <2>1. l.volume \in Int
    BY DEF Level
  <2>2. v \in Int /\ Greatest(0, v) = v
    BY <2>1 DEF Greatest
  <2> HIDE DEF v
  <2>3. [l EXCEPT !.volume = v] \in Level /\ [l EXCEPT !.volume = v].price = l.price
        /\ [l EXCEPT !.volume = v].volume = v
    BY <2>2 DEF Level
  <2>4. [[l EXCEPT !.volume = v] EXCEPT !.volume = Greatest(0, v)] = [l EXCEPT !.volume = v]
    BY <2>2 DEF Level
  <2> QED
    BY <2>3, <2>4 DEF v
<1>3. \A i \in 1 .. n : less[i] = [levels[i] EXCEPT !.volume = Greatest(0, @)]
  BY <1>1 DEF Clipped
<1>4. less = [i \in 1 .. n |-> less[i]]
  BY <1>1 DEF Clipped
<1> HIDE DEF less, n
<1>5. less \in Seq(Level) /\ Len(less) = n /\ DOMAIN less = 1 .. n
  <2>1. \A i \in 1 .. n : less[i] \in Level
    BY <1>1, <1>2, <1>3
  <2> QED
    BY <1>1, <1>4, <2>1, SequenceOf
<1>6. less \in Levels
  <2>1. less # << >>
    BY <1>1, <1>5, EmptySeq
  <2> QED
    BY <1>5, <2>1 DEF Levels
<1>7. less[1].price = levels[1].price
  <2>1. levels[1] \in Level /\ less[1] = [levels[1] EXCEPT !.volume = Greatest(0, @)]
    BY <1>1, <1>3
  <2> QED
    BY <1>2, <2>1
<1>8. least = less
  <2>1. ASSUME NEW i \in 1 .. n
        PROVE  [less[i] EXCEPT !.volume = Greatest(0, @)] = less[i]
    <3>1. levels[i] \in Level /\ less[i] = [levels[i] EXCEPT !.volume = Greatest(0, @)]
      BY <1>1, <1>3
    <3> QED
      BY <1>2, <3>1
  <2>2. least = [i \in 1 .. n |-> [less[i] EXCEPT !.volume = Greatest(0, @)]]
    BY <1>5, Zenon DEF Clipped
  <2> HIDE DEF least
  <2> QED
    BY <1>4, <2>1, <2>2, Zenon
<1> QED
  BY <1>6, <1>7, <1>8 DEF Best, less

\* The best level of a side stays its best one when it has a price.
LEMMA PricedFirst ==
  ASSUME NEW levels \in Levels, Best(levels) > 0
  PROVE  Priced(levels) # <<>> /\ Best(Priced(levels)) = Best(levels)
<1> DEFINE known == {i \in DOMAIN levels : levels[i].price > 0}
           some == At(levels, known)
<1>1. levels \in Seq(Level) /\ Len(levels) \in Nat /\ 1 \in 1 .. Len(levels) /\ DOMAIN levels = 1 .. Len(levels)
  BY LevelsTyped
<1>2. 1 \in known
  BY <1>1 DEF Best
<1> HIDE DEF known
<1>3. PICK place : Places(levels, Len(levels), known, some, place)
  BY <1>1, AtPlaces
<1>4. some \in Seq(Level)
  BY <1>1, AtTyped
<1> HIDE DEF some
<1>5. Len(some) \in Nat
  BY <1>4, LenProperties
<1>6. PICK k \in 1 .. Len(some) : place[k] = 1
  BY <1>1, <1>2, <1>3 DEF Places
<1>7. 1 \in 1 .. Len(some) /\ place[1] = 1
  <2>1. 1 \in 1 .. Len(some)
    BY <1>5
  <2>2. place[1] \in 1 .. Len(levels) /\ (1 < k => place[1] < place[k])
    BY <1>3, <2>1 DEF Places
  <2> QED
    BY <1>1, <1>5, <1>6, <2>1, <2>2
<1>8. some[1] = levels[1]
  BY <1>3, <1>7 DEF Places
<1>9. some # <<>>
  BY <1>4, <1>5, <1>7, EmptySeq
<1> QED
  BY <1>8, <1>9 DEF Best, Priced, some, known

\* A row without negative volumes, and its snapshot.
LEMMA FixedRow ==
  ASSUME NEW T, NEW r \in DayRow(T)
  PROVE  LET fixed == FixNegativeVolumes(r) IN
         /\ fixed \in DayRow(T)
         /\ fixed.ts = r.ts /\ fixed.bids = Clipped(r.bids) /\ fixed.asks = Clipped(r.asks)
<1> DEFINE fixed == FixNegativeVolumes(r)
<1>1. fixed = [r EXCEPT !.bids = Clipped(@), !.asks = Clipped(@)]
  BY Zenon DEF FixNegativeVolumes, Clipped
<1>2. Clipped(r.bids) \in Levels /\ Clipped(r.asks) \in Levels
  BY ClippedTyped DEF DayRow
<1> HIDE DEF fixed
<1>3. /\ fixed \in DayRow(T)
      /\ fixed.ts = r.ts /\ fixed.bids = Clipped(r.bids) /\ fixed.asks = Clipped(r.asks)
  BY <1>1, <1>2 DEF DayRow
<1> QED
  BY <1>3 DEF fixed

LEMMA SnapshotParts ==
  ASSUME NEW T, NEW r \in DayRow(T)
  PROVE  LET s == SnapshotOf(r) IN
         /\ s.ts = r.ts /\ s.trade = r.trade /\ s.drift = r.drift
         /\ s.bids = Priced(Clipped(r.bids)) /\ s.asks = Priced(Clipped(r.asks))
<1> DEFINE fixed == FixNegativeVolumes(r)
           s == SnapshotOf(r)
<1>1. s = [fixed EXCEPT !.bids = Priced(@), !.asks = Priced(@)]
  BY Zenon DEF SnapshotOf, Priced
<1>2. fixed = [r EXCEPT !.bids = Clipped(@), !.asks = Clipped(@)]
  BY Zenon DEF FixNegativeVolumes, Clipped
<1>3. /\ fixed \in DayRow(T)
      /\ fixed.ts = r.ts /\ fixed.bids = Clipped(r.bids) /\ fixed.asks = Clipped(r.asks)
  BY FixedRow
<1>4. fixed.trade = r.trade /\ fixed.drift = r.drift
  <2> HIDE DEF fixed
  <2> QED
    BY <1>2 DEF DayRow
<1> HIDE DEF fixed, s
<1>5. /\ s.ts = fixed.ts /\ s.trade = fixed.trade /\ s.drift = fixed.drift
      /\ s.bids = Priced(fixed.bids) /\ s.asks = Priced(fixed.asks)
  BY <1>1, <1>3 DEF DayRow
<1>6. /\ s.ts = r.ts /\ s.trade = r.trade /\ s.drift = r.drift
      /\ s.bids = Priced(Clipped(r.bids)) /\ s.asks = Priced(Clipped(r.asks))
  BY <1>3, <1>4, <1>5
<1> QED
  BY <1>6 DEF s

\* What is selected is of the sequence.
LEMMA AtFrom ==
  ASSUME NEW X, NEW seq \in Seq(X), NEW positions, NEW some, some = At(seq, positions)
  PROVE  /\ some \in Seq(X) /\ ToSet(some) \subseteq ToSet(seq)
         /\ \A k \in DOMAIN some : \E i \in DOMAIN seq : i \in positions /\ some[k] = seq[i]
<1>1. some \in Seq(X)
  BY AtTyped
<1>2. DOMAIN some = 1 .. Len(some) /\ DOMAIN seq = 1 .. Len(seq)
  BY <1>1, LenProperties
<1>3. \A k \in 1 .. Len(At(seq, positions)) : \E i \in 1 .. Len(seq) : i \in positions /\ At(seq, positions)[k] = seq[i]
  BY AtMembers
<1>4. \A k \in DOMAIN some : \E i \in DOMAIN seq : i \in positions /\ some[k] = seq[i]
  BY <1>2, <1>3
<1> QED
  BY <1>1, <1>4 DEF ToSet

LEMMA SelectedRise ==
  ASSUME NEW X, NEW rows \in Seq(X), NEW positions
  PROVE  (Rises(rows) => Rises(At(rows, positions))) /\ (Ascends(rows) => Ascends(At(rows, positions)))
<1> DEFINE some == At(rows, positions)
<1>1. PICK place : Places(rows, Len(rows), positions, some, place)
  BY AtPlaces
<1>2. some \in Seq(X)
  BY AtTyped
<1> HIDE DEF some
<1>3. DOMAIN some = 1 .. Len(some) /\ DOMAIN rows = 1 .. Len(rows)
  BY <1>2, LenProperties
<1>4. ASSUME NEW i \in DOMAIN some, NEW j \in DOMAIN some, i < j
      PROVE  /\ place[i] \in DOMAIN rows /\ place[j] \in DOMAIN rows /\ place[i] < place[j]
             /\ some[i] = rows[place[i]] /\ some[j] = rows[place[j]]
  BY <1>1, <1>3, <1>4 DEF Places
<1>5. (Rises(rows) => Rises(some)) /\ (Ascends(rows) => Ascends(some))
  BY <1>4 DEF Rises, Ascends
<1> QED
  BY <1>5 DEF some

\* Without duplicates, times that do not fall rise.
LEMMA DedupRises ==
  ASSUME NEW T, NEW rows \in Seq(DayRow(T)), Ascends(rows)
  PROVE  Rises(Dedup(rows))
<1> DEFINE single == {i \in DOMAIN rows :
                        ~ \E j \in DOMAIN rows : /\ rows[j].ts = rows[i].ts
                                                 /\ IF KeepFirst THEN j < i ELSE j > i}
           some == At(rows, single)
<1>1. Dedup(rows) = some
  BY Zenon DEF Dedup
<1>2. PICK place : Places(rows, Len(rows), single, some, place)
  BY AtPlaces
<1>3. some \in Seq(DayRow(T))
  BY AtTyped
<1> HIDE DEF some
<1>4. DOMAIN some = 1 .. Len(some) /\ DOMAIN rows = 1 .. Len(rows) /\ Len(rows) \in Nat
      /\ \A i \in DOMAIN rows : rows[i].ts \in Nat
  <2>1. \A r \in DayRow(T) : r.ts \in Nat
    BY DEF DayRow
  <2> QED
    BY <1>3, <2>1, LenProperties, ElementOfSeq
<1>5. ASSUME NEW i \in DOMAIN some, NEW j \in DOMAIN some, i < j
      PROVE  some[i].ts < some[j].ts
  <2>1. /\ place[i] \in single /\ place[j] \in single /\ place[i] < place[j]
        /\ some[i] = rows[place[i]] /\ some[j] = rows[place[j]]
    <3> HIDE DEF single
    <3> QED
      BY <1>2, <1>4, <1>5 DEF Places
  <2>2. place[i] \in DOMAIN rows /\ place[j] \in DOMAIN rows
    BY <2>1
  <2>3. rows[place[i]].ts <= rows[place[j]].ts
    BY <2>1, <2>2 DEF Ascends
  <2>4. rows[place[i]].ts # rows[place[j]].ts
    <3>1. CASE KeepFirst
      BY <2>1, <2>2, <3>1
    <3>2. CASE ~KeepFirst
      <4>1. place[j] > place[i]
        BY <1>4, <2>1, <2>2
      <4> QED
        BY <2>1, <2>2, <3>2, <4>1
    <3> QED
      BY <3>1, <3>2
  <2> QED
    BY <1>4, <2>1, <2>2, <2>3, <2>4
<1> QED
  BY <1>1, <1>5 DEF Rises

\* What cleaning leaves of a day: rows of it, sound, one per time and in order.
Cleaned(rows, raw) ==
  /\ rows \in Seq(DayRow({NoTrade})) /\ Rises(rows)
  /\ \A i \in DOMAIN rows : /\ ~Inverted(rows[i]) /\ ~Wide(rows[i])
                            /\ \E j \in DOMAIN raw : rows[i] = FixNegativeVolumes(raw[j])

LEMMA CleanSound ==
  ASSUME NEW raw, IsRaw(raw)
  PROVE  Cleaned(Clean(raw), raw)
<1> DEFINE R == DayRow({NoTrade})
           fixed  == [i \in DOMAIN raw |-> FixNegativeVolumes(raw[i])]
           good   == {i \in DOMAIN fixed : ~Inverted(fixed[i]) /\ ~Shallow(fixed[i])}
           usable == At(fixed, good)
           single == Dedup(usable)
           normal == At(single, DOMAIN single \ TagOutliers(single))
           narrow == {i \in DOMAIN normal : ~Wide(normal[i])}
           clean  == At(normal, narrow)
<1>1. Clean(raw) = clean
  BY Zenon DEF Clean, Usable
<1>2. raw \in Seq(R) /\ Len(raw) \in Nat /\ DOMAIN raw = 1 .. Len(raw) /\ (\A i \in DOMAIN raw : raw[i] \in R)
      /\ \A i, j \in DOMAIN raw : i < j => raw[i].ts <= raw[j].ts
  BY LenProperties, ElementOfSeq DEF IsRaw
<1>3. \A i \in DOMAIN raw : FixNegativeVolumes(raw[i]) \in R /\ FixNegativeVolumes(raw[i]).ts = raw[i].ts
  BY <1>2, FixedRow
<1>4. fixed = [i \in 1 .. Len(raw) |-> fixed[i]] /\ \A i \in 1 .. Len(raw) : fixed[i] = FixNegativeVolumes(raw[i])
  BY <1>2
<1> HIDE DEF R, fixed, good, usable, single, normal, narrow, clean
<1>5. fixed \in Seq(R) /\ DOMAIN fixed = DOMAIN raw
  BY <1>2, <1>3, <1>4, SequenceOf
<1>6. Ascends(fixed)
  BY <1>2, <1>3, <1>4, <1>5 DEF Ascends
<1>7. usable \in Seq(R) /\ Ascends(usable)
  BY <1>5, <1>6, AtTyped, SelectedRise DEF usable
<1>8. ASSUME NEW x \in ToSet(usable)
      PROVE  ~Inverted(x) /\ \E j \in DOMAIN raw : x = FixNegativeVolumes(raw[j])
  <2>1. PICK k \in DOMAIN usable : x = usable[k]
    BY <1>8 DEF ToSet
  <2>2. PICK i \in DOMAIN fixed : i \in good /\ x = fixed[i]
    BY <1>5, <2>1, AtFrom DEF usable
  <2> QED
    BY <1>2, <1>4, <1>5, <2>2 DEF good
<1>9. single \in Seq(R) /\ Rises(single) /\ ToSet(single) \subseteq ToSet(usable)
  <2> DEFINE once == {i \in DOMAIN usable :
                        ~ \E j \in DOMAIN usable : /\ usable[j].ts = usable[i].ts
                                                   /\ IF KeepFirst THEN j < i ELSE j > i}
  <2>1. single = At(usable, once)
    BY Zenon DEF Dedup, single
  <2> HIDE DEF once
  <2>2. single \in Seq(R)
    BY <1>7, <2>1, AtTyped
  <2>3. Rises(single)
    BY <1>7, DedupRises DEF R, single
  <2>4. ToSet(single) \subseteq ToSet(usable)
    BY <1>7, <2>1, AtFrom
  <2> QED
    BY <2>2, <2>3, <2>4
<1>10. normal \in Seq(R) /\ Rises(normal) /\ ToSet(normal) \subseteq ToSet(single)
  <2>1. normal \in Seq(R) /\ Rises(normal)
    BY <1>9, AtTyped, SelectedRise DEF normal
  <2>2. ToSet(normal) \subseteq ToSet(single)
    BY <1>9, AtFrom DEF normal
  <2> QED
    BY <2>1, <2>2
<1>11. clean \in Seq(R) /\ Rises(clean)
  BY <1>10, AtTyped, SelectedRise DEF clean
<1>12. ASSUME NEW k \in DOMAIN clean
       PROVE  clean[k] \in ToSet(normal) /\ ~Wide(clean[k])
  <2>1. PICK i \in DOMAIN normal : i \in narrow /\ clean[k] = normal[i]
    BY <1>10, AtFrom DEF clean
  <2> QED
    BY <2>1 DEF ToSet, narrow
<1> QED
  BY <1>1, <1>8, <1>9, <1>10, <1>11, <1>12 DEF Cleaned, R

\* The last of some positions.
LEMMA LastIsOne ==
  ASSUME NEW seq, NEW n \in Nat, NEW positions \in SUBSET (1 .. n), positions # {}
  PROVE  \E i \in positions : LastAt(seq, positions) = seq[i]
<1> DEFINE i == CHOOSE i \in positions : \A j \in positions : j <= i
<1>1. i \in positions
  BY LargestIn, Zenon
<1>2. LastAt(seq, positions) = seq[i]
  BY Zenon DEF LastAt
<1> HIDE DEF i
<1> QED
  BY <1>1, <1>2

\* A row of a day that is resampled to freq, or not at all for 0: where its book
\* is from and where its trade.
BookOfDay(row, raw, freq) ==
  \E j \in DOMAIN raw : /\ row.bids = Clipped(raw[j].bids) /\ row.asks = Clipped(raw[j].asks)
                        /\ IF freq = 0 THEN raw[j].ts = row.ts ELSE raw[j].ts < row.ts + freq
TradeOfDay(row, trades, freq) ==
  row.trade # NoTrade => \E t \in ToSet(trades) : /\ t.price = row.trade.price /\ Within(t, row.ts, freq)
                                                  /\ freq = 0 => t.volume = row.trade.volume
SoundRow(row, raw, trades, freq) ==
  ~Inverted(row) /\ ~Wide(row) /\ BookOfDay(row, raw, freq) /\ TradeOfDay(row, trades, freq)

SameSides(a, b) == a.bids = b.bids /\ a.asks = b.asks

LEMMA SidesDecide ==
  ASSUME NEW a, NEW b, SameSides(a, b)
  PROVE  (Inverted(a) <=> Inverted(b)) /\ (Wide(a) <=> Wide(b))
BY DEF SameSides, Inverted, Wide, DoubleMid

Deal == [price : Nat, volume : Nat, side : {"buy", "sell", "none"}]

LEMMA NoTradeIsDeal == NoTrade \in Deal
BY DEF NoTrade, Deal

LEMMA AlignedSound ==
  ASSUME NEW raw, IsRaw(raw), NEW clean, Cleaned(clean, raw), NEW trades \in Seq(Trade)
  PROVE  LET rows == AlignTrades(clean, trades) IN
         /\ rows \in Seq(DayRow(Deal)) /\ Rises(rows)
         /\ \A i \in DOMAIN rows : SoundRow(rows[i], raw, trades, 0)
<1> DEFINE recent(row) == {j \in DOMAIN trades : trades[j].ts <= row.ts /\ row.ts - trades[j].ts <= MaxDrift}
           deal(t) == [price |-> t.price, volume |-> t.volume, side |-> t.side]
           trade(row) == IF recent(row) = {} THEN NoTrade ELSE deal(LastAt(trades, recent(row)))
           rows == AlignTrades(clean, trades)
<1>1. rows = [i \in DOMAIN clean |-> [clean[i] EXCEPT !.trade = trade(clean[i])]]
  BY Zenon DEF AlignTrades
<1>2. /\ clean \in Seq(DayRow({NoTrade})) /\ Len(clean) \in Nat /\ DOMAIN clean = 1 .. Len(clean)
      /\ (\A i \in DOMAIN clean : clean[i] \in DayRow({NoTrade})) /\ Rises(clean)
  BY LenProperties, ElementOfSeq DEF Cleaned
<1>3. Len(trades) \in Nat /\ DOMAIN trades = 1 .. Len(trades) /\ \A j \in DOMAIN trades : trades[j] \in Trade
  BY LenProperties, ElementOfSeq
<1>4. \A t \in Trade : deal(t) \in Deal /\ deal(t).price = t.price /\ deal(t).volume = t.volume /\ t.ts \in Nat
  BY DEF Trade, Deal
<1> HIDE DEF deal
<1>5. ASSUME NEW row \in DayRow({NoTrade})
      PROVE  /\ trade(row) \in Deal
             /\ trade(row) # NoTrade =>
                  \E t \in ToSet(trades) : /\ t.price = trade(row).price /\ t.volume = trade(row).volume
                                           /\ Within(t, row.ts, 0)
  <2>1. CASE recent(row) = {}
    BY <2>1, NoTradeIsDeal
  <2>2. CASE recent(row) # {}
    <3>1. recent(row) \in SUBSET (1 .. Len(trades))
      BY <1>3
    <3>2. PICK j \in recent(row) : LastAt(trades, recent(row)) = trades[j]
      BY <1>3, <2>2, <3>1, LastIsOne
    <3>3. trades[j] \in Trade /\ trades[j].ts <= row.ts /\ row.ts - trades[j].ts <= MaxDrift
      BY <1>3, <3>2
    <3>4. trade(row) = deal(trades[j])
      BY <2>2, <3>2
    <3>5. Within(trades[j], row.ts, 0)
      <4>1. row.ts \in Nat /\ trades[j].ts \in Nat /\ MaxDrift \in Nat
        BY <1>4, <3>3, SynchronizingAssumption DEF DayRow
      <4> QED
        BY <3>3, <4>1 DEF Within, Greatest
    <3>6. trades[j] \in ToSet(trades)
      BY <1>3, <3>2 DEF ToSet
    <3> HIDE DEF trade, recent
    <3> QED
      BY <1>4, <3>3, <3>4, <3>5, <3>6
  <2> QED
    BY <2>1, <2>2
<1> HIDE DEF trade, rows
<1>6. ASSUME NEW i \in DOMAIN clean
      PROVE  /\ rows[i] \in DayRow(Deal) /\ rows[i].ts = clean[i].ts /\ SameSides(rows[i], clean[i])
             /\ rows[i].trade = trade(clean[i])
  <2>1. clean[i] \in DayRow({NoTrade}) /\ trade(clean[i]) \in Deal
    BY <1>2, <1>5
  <2>2. rows[i] = [clean[i] EXCEPT !.trade = trade(clean[i])]
    BY <1>1
  <2> QED
    BY <2>1, <2>2 DEF DayRow, SameSides
<1>7. rows \in Seq(DayRow(Deal)) /\ DOMAIN rows = DOMAIN clean
  <2>1. rows = [i \in 1 .. Len(clean) |-> rows[i]]
    BY <1>1, <1>2
  <2> QED
    BY <1>2, <1>6, <2>1, SequenceOf
<1>8. Rises(rows)
  BY <1>2, <1>6, <1>7 DEF Rises
<1>9. ASSUME NEW i \in DOMAIN rows
      PROVE  SoundRow(rows[i], raw, trades, 0)
  <2>1. i \in DOMAIN clean /\ clean[i] \in DayRow({NoTrade})
    BY <1>2, <1>7
  <2>2. /\ ~Inverted(clean[i]) /\ ~Wide(clean[i])
        /\ \E j \in DOMAIN raw : clean[i] = FixNegativeVolumes(raw[j])
    BY <2>1 DEF Cleaned
  <2>3. PICK j \in DOMAIN raw : clean[i] = FixNegativeVolumes(raw[j])
    BY <2>2
  <2>4. raw[j] \in DayRow({NoTrade})
    BY ElementOfSeq, LenProperties DEF IsRaw
  <2>5. clean[i].ts = raw[j].ts /\ clean[i].bids = Clipped(raw[j].bids) /\ clean[i].asks = Clipped(raw[j].asks)
    BY <2>3, <2>4, FixedRow
  <2>6. BookOfDay(rows[i], raw, 0)
    BY <1>6, <2>1, <2>5 DEF BookOfDay, SameSides
  <2>7. TradeOfDay(rows[i], trades, 0)
    <3>1. rows[i].trade = trade(clean[i]) /\ rows[i].ts = clean[i].ts
      BY <1>6, <2>1
    <3> QED
      BY <1>5, <2>1, <3>1 DEF TradeOfDay
  <2>8. ~Inverted(rows[i]) /\ ~Wide(rows[i])
    BY <1>6, <2>1, <2>2, SidesDecide
  <2> QED
    BY <2>6, <2>7, <2>8 DEF SoundRow
<1> QED
  BY <1>7, <1>8, <1>9 DEF rows

\* Whole multiples of a bucket.
LEMMA Divided ==
  ASSUME NEW a \in Nat, NEW f \in Nat \ {0}
  PROVE  a \div f \in Nat /\ f * (a \div f) <= a /\ a < f * (a \div f) + f
OBVIOUS

LEMMA Multiples ==
  ASSUME NEW f \in Nat \ {0}, NEW p \in Nat, NEW q \in Nat
  PROVE  /\ f * p \in Nat /\ f * (p + 1) = f * p + f
         /\ p < q => f * p + f <= f * q
         /\ p <= q => f * p <= f * q
<1>1. f * p \in Nat /\ f * (p + 1) = f * p + f
  OBVIOUS
<1>2. p <= q => f * p <= f * q
  <2> SUFFICES ASSUME p <= q
               PROVE  f * p <= f * q
    OBVIOUS
  <2>1. q - p \in Nat /\ f * (q - p) \in Nat
    OBVIOUS
  <2>2. f * q = f * p + f * (q - p)
    OBVIOUS
  <2>3. f * p \in Int /\ f * q \in Int
    OBVIOUS
  <2> QED
    BY <2>1, <2>2, <2>3
<1>3. p < q => f * p + f <= f * q
  <2> SUFFICES ASSUME p < q
               PROVE  f * p + f <= f * q
    OBVIOUS
  <2>1. q - p - 1 \in Nat /\ f * (q - p - 1) \in Nat
    OBVIOUS
  <2>2. f * q = f * p + f + f * (q - p - 1)
    OBVIOUS
  <2>3. f * p \in Int /\ f * q \in Int
    OBVIOUS
  <2> QED
    BY <2>1, <2>2, <2>3
<1> QED
  BY <1>1, <1>2, <1>3

\* The row a bucket starts from, with the time and the trade of the bucket.
LEMMA BucketRow ==
  ASSUME NEW r \in DayRow(Deal), NEW T, NEW t \in T, NEW ts \in Nat
  PROVE  LET b == [r EXCEPT !.ts = ts, !.trade = t] IN
         b \in DayRow(T) /\ b.ts = ts /\ b.trade = t /\ SameSides(b, r)
BY DEF DayRow, SameSides

LEMMA ResampledSound ==
  ASSUME NEW raw, IsRaw(raw), NEW trades \in Seq(Trade), NEW freq \in Nat \ {0},
         NEW rows \in Seq(DayRow(Deal)), \A i \in DOMAIN rows : SoundRow(rows[i], raw, trades, 0)
  PROVE  LET some == Resample(rows, freq) IN
         /\ \E T : some \in Seq(DayRow(T))
         /\ \A i \in DOMAIN some : SoundRow(some[i], raw, trades, freq)
         /\ Rises(some)
         /\ \A i \in DOMAIN some : i > 1 => some[i].ts - some[i - 1].ts = freq
<1> DEFINE h == Head(rows).ts \div freq
           bucket(row) == row.ts \div freq - h + 1
           upTo(k) == {i \in DOMAIN rows : bucket(rows[i]) <= k}
           with(k) == {i \in DOMAIN rows : bucket(rows[i]) = k /\ rows[i].trade # NoTrade}
           volume(k) == MapThenSumSet(LAMBDA i : rows[i].trade.volume, with(k))
           trade(k) == IF with(k) = {} THEN NoTrade
                       ELSE [LastAt(rows, with(k)).trade EXCEPT !.volume = volume(k)]
           start(k) == freq * (h + k - 1)
           n == bucket(Last(rows))
           T == {trade(k) : k \in 1 .. n}
           R == DayRow(T)
           some == Resample(rows, freq)
<1>1. Len(rows) \in Nat /\ DOMAIN rows = 1 .. Len(rows) /\ \A i \in DOMAIN rows : rows[i] \in DayRow(Deal)
  BY LenProperties, ElementOfSeq
<1>2. some = IF rows = <<>> THEN <<>>
             ELSE [k \in 1 .. n |-> [LastAt(rows, upTo(k)) EXCEPT !.ts = start(k), !.trade = trade(k)]]
  BY Zenon DEF Resample
<1> HIDE DEF some
<1>3. CASE rows = <<>>
  <2>1. some = <<>> /\ << >> \in Seq(DayRow({}))
    BY <1>2, <1>3, EmptySeq
  <2>2. DOMAIN some = {}
    BY <2>1
  <2> QED
    BY <2>1, <2>2 DEF Rises, some
<1>4. CASE rows # <<>>
  <2>1. 1 \in DOMAIN rows /\ Len(rows) \in DOMAIN rows /\ Head(rows) = rows[1] /\ Last(rows) = rows[Len(rows)]
    BY <1>1, <1>4, EmptySeq, HeadTailProperties DEF Last
  <2>2. \A i \in DOMAIN rows : rows[i].ts \in Nat
    BY <1>1 DEF DayRow
  <2>3. \A i \in DOMAIN rows : /\ rows[i].ts \div freq \in Nat /\ freq * (rows[i].ts \div freq) <= rows[i].ts
                               /\ rows[i].ts < freq * (rows[i].ts \div freq) + freq
    BY <2>2, Divided
  <2>4. h \in Nat /\ n \in Int /\ bucket(rows[1]) = 1
    BY <2>1, <2>3
  <2>5. \A k \in 1 .. n : h + k - 1 \in Nat /\ start(k) \in Nat
    <3> HIDE DEF h, n
    <3> QED
      BY <2>4, Multiples
  <2>6. ASSUME NEW k \in 1 .. n
        PROVE  \E i \in DOMAIN rows : LastAt(rows, upTo(k)) = rows[i] /\ rows[i].ts < start(k) + freq
    <3>1. 1 \in upTo(k)
      <4> HIDE DEF n
      <4> QED
        BY <2>1, <2>4
    <3>2. upTo(k) \in SUBSET (1 .. Len(rows))
      BY <1>1
    <3>3. PICK i \in upTo(k) : LastAt(rows, upTo(k)) = rows[i]
      <4> HIDE DEF upTo
      <4> QED
        BY <1>1, <3>1, <3>2, LastIsOne
    <3>4. i \in DOMAIN rows /\ bucket(rows[i]) <= k
      BY <3>3
    <3>5. rows[i].ts < start(k) + freq
      <4> DEFINE p == rows[i].ts \div freq
      <4>1. p \in Nat /\ rows[i].ts < freq * p + freq /\ rows[i].ts \in Nat
        BY <2>2, <2>3, <3>4
      <4>2. p <= h + k - 1
        <5> HIDE DEF h, n
        <5> QED
          BY <2>4, <3>4, <4>1
      <4>3. freq * p <= start(k) /\ freq * p \in Nat
        <5> HIDE DEF h, n, p
        <5> QED
          BY <2>5, <4>1, <4>2, Multiples
      <4> DEFINE m == freq * p
                 b == start(k)
      <4>4. /\ m \in Nat /\ b \in Nat /\ rows[i].ts \in Nat /\ rows[i].ts < m + freq /\ m <= b
        BY <2>5, <4>1, <4>3
      <4> HIDE DEF m, b
      <4>5. rows[i].ts < b + freq
        BY <4>4
      <4> QED
        BY <4>5 DEF b
    <3> QED
      BY <3>3, <3>4, <3>5
  <2>7. ASSUME NEW k \in 1 .. n, trade(k) # NoTrade
        PROVE  \E t \in ToSet(trades) : t.price = trade(k).price /\ Within(t, start(k), freq)
    <3>1. with(k) # {} /\ with(k) \in SUBSET (1 .. Len(rows))
      BY <1>1, <2>7
    <3>2. PICK i \in with(k) : LastAt(rows, with(k)) = rows[i]
      <4> HIDE DEF with
      <4> QED
        BY <1>1, <3>1, LastIsOne
    <3>3. i \in DOMAIN rows /\ bucket(rows[i]) = k /\ rows[i].trade # NoTrade
      BY <3>2
    <3>4. trade(k) = [rows[i].trade EXCEPT !.volume = volume(k)]
      <4> HIDE DEF with, volume
      <4> QED
        BY <3>1, <3>2
    <3>5. rows[i].trade \in Deal
      BY <1>1, <3>3 DEF DayRow
    <3>6. trade(k).price = rows[i].trade.price
      <4> HIDE DEF volume, with, trade
      <4> QED
        BY <3>4, <3>5 DEF Deal
    <3>7. PICK t \in ToSet(trades) : t.price = rows[i].trade.price /\ Within(t, rows[i].ts, 0)
      BY <3>3 DEF SoundRow, TradeOfDay
    <3>8. t.ts \in Nat
      <4>1. t \in Trade
        BY <3>7, ElementOfSeq, LenProperties DEF ToSet
      <4> QED
        BY <4>1 DEF Trade
    <3>9. start(k) <= rows[i].ts /\ rows[i].ts < start(k) + freq
      <4> DEFINE p == rows[i].ts \div freq
      <4>1. p \in Nat /\ freq * p <= rows[i].ts /\ rows[i].ts < freq * p + freq
        BY <2>3, <3>3
      <4>2. p = h + k - 1
        <5>1. p - h + 1 = k
          BY <3>3
        <5> HIDE DEF h, n, p
        <5> QED
          BY <2>4, <4>1, <5>1
      <4> QED
        BY <4>1, <4>2, Zenon
    <3>10. Within(t, start(k), freq)
      <4>1. rows[i].ts \in Nat /\ start(k) \in Nat /\ MaxDrift \in Nat
        BY <2>2, <2>5, <3>3, SynchronizingAssumption
      <4> HIDE DEF start, h, n
      <4> QED
        BY <3>7, <3>8, <3>9, <4>1 DEF Within, Greatest
    <3> QED
      BY <3>6, <3>7, <3>10
  <2> HIDE DEF upTo, with, volume, trade, h, n, bucket
  <2>8. ASSUME NEW k \in 1 .. n
        PROVE  /\ some[k] \in R /\ some[k].ts = start(k) /\ some[k].trade = trade(k)
               /\ \E i \in DOMAIN rows : SameSides(some[k], rows[i]) /\ rows[i].ts < start(k) + freq
    <3>1. PICK i \in DOMAIN rows : LastAt(rows, upTo(k)) = rows[i] /\ rows[i].ts < start(k) + freq
      BY <2>6
    <3>2. some[k] = [rows[i] EXCEPT !.ts = start(k), !.trade = trade(k)]
      BY <1>2, <1>4, <3>1
    <3>3. rows[i] \in DayRow(Deal) /\ trade(k) \in T /\ start(k) \in Nat
      BY <1>1, <2>5
    <3> HIDE DEF T, start
    <3>4. LET b == [rows[i] EXCEPT !.ts = start(k), !.trade = trade(k)]
          IN b \in DayRow(T) /\ b.ts = start(k) /\ b.trade = trade(k) /\ SameSides(b, rows[i])
      BY <3>3, BucketRow
    <3> QED
      BY <3>1, <3>2, <3>4
  <2>9. some \in Seq(R) /\ DOMAIN some = 1 .. n
    <3> DEFINE m == IF n < 0 THEN 0 ELSE n
    <3>1. m \in Nat /\ 1 .. m = 1 .. n
      BY <2>4
    <3>2. DOMAIN some = 1 .. n /\ some = [k \in 1 .. n |-> some[k]]
      BY <1>2, <1>4
    <3> HIDE DEF m, R
    <3>3. some = [k \in 1 .. m |-> some[k]] /\ \A k \in 1 .. m : some[k] \in R
      BY <2>8, <3>1, <3>2
    <3> QED
      BY <3>1, <3>2, <3>3, SequenceOf
  <2>10. ASSUME NEW k \in DOMAIN some
         PROVE  SoundRow(some[k], raw, trades, freq)
    <3>1. /\ k \in 1 .. n /\ some[k].ts = start(k) /\ some[k].trade = trade(k) /\ start(k) \in Nat
      BY <2>5, <2>8, <2>9
    <3>2. PICK i \in DOMAIN rows : SameSides(some[k], rows[i]) /\ rows[i].ts < start(k) + freq
      BY <2>8, <3>1
    <3>3. SoundRow(rows[i], raw, trades, 0)
      OBVIOUS
    <3>4. ~Inverted(some[k]) /\ ~Wide(some[k])
      BY <3>2, <3>3, SidesDecide DEF SoundRow
    <3> HIDE DEF start
    <3>5. BookOfDay(some[k], raw, freq)
      BY <3>1, <3>2, <3>3 DEF BookOfDay, SoundRow, SameSides
    <3>6. TradeOfDay(some[k], trades, freq)
      BY <2>7, <3>1 DEF TradeOfDay
    <3> QED
      BY <3>4, <3>5, <3>6 DEF SoundRow
  <2>11. Rises(some)
    <3>1. ASSUME NEW i \in DOMAIN some, NEW j \in DOMAIN some, i < j
          PROVE  start(i) < start(j)
      <4>1. i \in 1 .. n /\ j \in 1 .. n /\ h + i - 1 < h + j - 1 /\ h + i - 1 \in Nat /\ h + j - 1 \in Nat
        BY <2>4, <2>5, <2>9, <3>1
      <4>2. start(i) \in Nat /\ start(j) \in Nat /\ start(i) + freq <= start(j)
        BY <4>1, Multiples
      <4> HIDE DEF start
      <4> QED
        BY <4>2
    <3> HIDE DEF start
    <3> QED
      BY <2>8, <2>9, <3>1 DEF Rises
  <2>12. ASSUME NEW i \in DOMAIN some, i > 1
         PROVE  some[i].ts - some[i - 1].ts = freq
    <3>1. i \in 1 .. n /\ i - 1 \in 1 .. n
      BY <2>4, <2>9, <2>12
    <3>2. some[i].ts = start(i) /\ some[i - 1].ts = start(i - 1)
      BY <2>8, <3>1
    <3> DEFINE p == h + (i - 1) - 1
    <3>3. p \in Nat /\ h + i - 1 = p + 1
      BY <2>4, <3>1
    <3>4. start(i - 1) = freq * p /\ start(i) = freq * (p + 1)
      BY <3>3
    <3> HIDE DEF p, start
    <3>5. freq * p \in Nat /\ freq * (p + 1) = freq * p + freq
      BY <3>3, Multiples
    <3> QED
      BY <3>2, <3>4, <3>5
  <2> HIDE DEF T
  <2> QED
    BY <2>9, <2>10, <2>11, <2>12 DEF R, some
<1> QED
  BY <1>3, <1>4

\* The rows a day's states are built from.
DayRows(rows, raw, trades, freq) ==
  /\ \E T : rows \in Seq(DayRow(T))
  /\ \A i \in DOMAIN rows : /\ SoundRow(rows[i], raw, trades, freq)
                            /\ rows[i].drift => i > 1
                            /\ freq > MaxDrift /\ i > 1 => rows[i].drift
  /\ Rises(rows)

LEMMA FlaggedSound ==
  ASSUME NEW raw, NEW trades, NEW freq \in Nat, NEW T, NEW rows \in Seq(DayRow(T)), Rises(rows),
         \A i \in DOMAIN rows : SoundRow(rows[i], raw, trades, freq),
         freq > 0 => \A i \in DOMAIN rows : i > 1 => rows[i].ts - rows[i - 1].ts = freq
  PROVE  DayRows(FlagDrift(rows), raw, trades, freq)
<1> DEFINE flag(i) == i > 1 /\ rows[i].ts - rows[i - 1].ts > MaxDrift
           some == FlagDrift(rows)
<1>1. some = [i \in DOMAIN rows |-> [rows[i] EXCEPT !.drift = flag(i)]]
  BY Zenon DEF FlagDrift
<1>2. Len(rows) \in Nat /\ DOMAIN rows = 1 .. Len(rows) /\ \A i \in DOMAIN rows : rows[i] \in DayRow(T)
  BY LenProperties, ElementOfSeq
<1> HIDE DEF some
<1>3. ASSUME NEW i \in DOMAIN rows
      PROVE  /\ some[i] \in DayRow(T) /\ some[i].ts = rows[i].ts /\ SameSides(some[i], rows[i])
             /\ some[i].trade = rows[i].trade /\ some[i].drift = flag(i)
  <2>1. rows[i] \in DayRow(T) /\ flag(i) \in BOOLEAN
    BY <1>2
  <2>2. some[i] = [rows[i] EXCEPT !.drift = flag(i)]
    BY <1>1
  <2> HIDE DEF flag
  <2> QED
    BY <2>1, <2>2 DEF DayRow, SameSides
<1>4. some \in Seq(DayRow(T)) /\ DOMAIN some = DOMAIN rows
  <2>1. some = [i \in 1 .. Len(rows) |-> some[i]]
    BY <1>1, <1>2
  <2> QED
    BY <1>2, <1>3, <2>1, SequenceOf
<1>5. Rises(some)
  BY <1>3, <1>4 DEF Rises
<1>6. ASSUME NEW i \in DOMAIN some
      PROVE  /\ SoundRow(some[i], raw, trades, freq)
             /\ some[i].drift => i > 1
             /\ freq > MaxDrift /\ i > 1 => some[i].drift
  <2>1. SoundRow(rows[i], raw, trades, freq)
    BY <1>4
  <2>2. /\ some[i].ts = rows[i].ts /\ SameSides(some[i], rows[i]) /\ some[i].trade = rows[i].trade
        /\ some[i].drift = flag(i)
    BY <1>3, <1>4
  <2>3. SoundRow(some[i], raw, trades, freq)
    BY <2>1, <2>2, SidesDecide DEF SoundRow, BookOfDay, TradeOfDay, SameSides
  <2>4. freq > MaxDrift /\ i > 1 => rows[i].ts - rows[i - 1].ts = freq
    BY <1>4, SynchronizingAssumption
  <2> QED
    BY <2>2, <2>3, <2>4
<1> QED
  BY <1>4, <1>5, <1>6 DEF DayRows, some

LEMMA DayRowsSound ==
  ASSUME NEW raw, IsRaw(raw), NEW trades \in Seq(Trade), NEW freq \in Nat
  PROVE  DayRows(WorkingRows(raw, trades, freq), raw, trades, freq)
<1> DEFINE aligned == AlignTrades(Clean(raw), trades)
<1>1. /\ aligned \in Seq(DayRow(Deal)) /\ Rises(aligned)
      /\ \A i \in DOMAIN aligned : SoundRow(aligned[i], raw, trades, 0)
  BY CleanSound, AlignedSound
<1>2. WorkingRows(raw, trades, freq) = FlagDrift(IF freq = 0 THEN aligned ELSE Resample(aligned, freq))
  BY Zenon DEF WorkingRows
<1> HIDE DEF aligned
<1>3. CASE freq = 0
  BY <1>1, <1>2, <1>3, FlaggedSound
<1>4. CASE freq # 0
  <2> DEFINE some == Resample(aligned, freq)
  <2>1. /\ \E T : some \in Seq(DayRow(T))
        /\ \A i \in DOMAIN some : SoundRow(some[i], raw, trades, freq)
        /\ Rises(some)
        /\ \A i \in DOMAIN some : i > 1 => some[i].ts - some[i - 1].ts = freq
    BY <1>1, <1>4, ResampledSound
  <2> HIDE DEF some
  <2>2. DayRows(FlagDrift(some), raw, trades, freq)
    BY <2>1, FlaggedSound
  <2> QED
    BY <1>2, <1>4, <2>2 DEF some
<1> QED
  BY <1>3, <1>4

-----------------------------------------------------------------------------
(* The states of a day *)

\* Without a bid a spread is 20000 basis points, and no spread is wider: a limit
\* that is not below never drops a row for its spread.
SpreadLimited == MaxSpreadBps < 20000

LEMMA BothSidesPriced ==
  ASSUME SpreadLimited, NEW T, NEW row \in DayRow(T), ~Inverted(row), ~Wide(row)
  PROVE  Best(row.bids) > 0 /\ Best(row.asks) > 0
<1> DEFINE b == Best(row.bids)
           a == Best(row.asks)
<1>1. b \in Nat \cup {Missing} /\ a \in Nat \cup {Missing}
  <2>1. row.bids \in Levels /\ row.asks \in Levels
    BY DEF DayRow
  <2>2. row.bids[1] \in Level /\ row.asks[1] \in Level
    BY <2>1, LevelsTyped
  <2> QED
    BY <2>2 DEF Best, Level
<1>2. ~(a <= b) /\ a # Missing /\ b # Missing /\ ~(20000 * (a - b) > MaxSpreadBps * (b + a))
  BY DEF Inverted, Wide, DoubleMid
<1>3. MaxSpreadBps \in Nat /\ MaxSpreadBps < 20000
  BY CleaningAssumption DEF SpreadLimited
<1> HIDE DEF a, b
<1>4. a \in Nat \ {0} /\ b \in Nat
  BY <1>1, <1>2 DEF Missing
<1>5. b # 0
  <2> SUFFICES ASSUME b = 0
               PROVE  FALSE
    OBVIOUS
  <2>1. a * MaxSpreadBps + a <= a * 20000 /\ a * MaxSpreadBps \in Nat
    BY <1>3, <1>4, Multiples
  <2>2. a - b = a /\ b + a = a
    BY <1>4
  <2>3. ~(20000 * a > MaxSpreadBps * a)
    BY <1>2, <2>2
  <2>4. 20000 * a = a * 20000 /\ MaxSpreadBps * a = a * MaxSpreadBps
    BY <1>3, <1>4
  <2> HIDE DEF a
  <2>5. a * 20000 \in Nat
    BY <1>4
  <2> QED
    BY <1>4, <2>1, <2>3, <2>4, <2>5
<1> QED
  BY <1>4, <1>5 DEF a, b

\* The snapshot of a row is valid, and its best levels are those of the row.
LEMMA SnapshotSound ==
  ASSUME SpreadLimited, NEW T, NEW row \in DayRow(T), ~Inverted(row), ~Wide(row)
  PROVE  Valid(SnapshotOf(row)) /\ ~Wide(SnapshotOf(row))
<1> DEFINE s == SnapshotOf(row)
<1>1. s.bids = Priced(Clipped(row.bids)) /\ s.asks = Priced(Clipped(row.asks))
  BY SnapshotParts
<1>2. row.bids \in Levels /\ row.asks \in Levels
  BY DEF DayRow
<1>3. Best(row.bids) > 0 /\ Best(row.asks) > 0
  BY BothSidesPriced
<1>4. ASSUME NEW levels \in Levels, Best(levels) > 0
      PROVE  Priced(Clipped(levels)) # <<>> /\ Best(Priced(Clipped(levels))) = Best(levels)
  <2>1. Clipped(levels) \in Levels /\ Best(Clipped(levels)) = Best(levels)
    BY ClippedTyped
  <2> QED
    BY <1>4, <2>1, PricedFirst
<1>5. s.bids # <<>> /\ s.asks # <<>> /\ Best(s.bids) = Best(row.bids) /\ Best(s.asks) = Best(row.asks)
  BY <1>1, <1>2, <1>3, <1>4
<1> HIDE DEF s
<1>6. (Inverted(s) <=> Inverted(row)) /\ (Wide(s) <=> Wide(row))
  BY <1>5 DEF Inverted, Wide, DoubleMid
<1>7. Valid(s) /\ ~Wide(s)
  BY <1>5, <1>6 DEF Valid
<1> QED
  BY <1>7 DEF s

\* A state is the snapshot of its row, with the session and the trades of its time.
IsStateOf(s, row, date, trades) ==
  /\ s.ts = row.ts /\ SameSides(s, SnapshotOf(row)) /\ s.lastTrade = row.trade /\ s.drift = row.drift
  /\ s.trades = RelevantTrades(trades, row.ts)
  /\ s.tradable => SessionType(date, row.ts) = "regular"

IsRange(r) == {"dates", "freq"} \subseteq DOMAIN r /\ r.dates \subseteq DOMAIN Days /\ r.freq \in Nat

\* Every row so far has become a state.
StatesInv ==
  /\ IsRange(range)
  /\ \E X : states \in Seq(X)
  /\ outcome # "building" => states = <<>>
  /\ outcome = "building" =>
       /\ IsRaw(day.raw) /\ day.trades \in Seq(Trade)
       /\ DayRows(day.rows, day.raw, day.trades, range.freq)
       /\ next = Len(states) + 1
       /\ \A k \in DOMAIN states : /\ k \in DOMAIN day.rows
                                   /\ IsStateOf(states[k], day.rows[k], day.date, day.trades)

LEMMA StatesInit == Init => StatesInv
<1> SUFFICES ASSUME Init
             PROVE  StatesInv
  OBVIOUS
<1>1. states = <<>> /\ outcome = "loading"
  BY DEF Init
<1>2. PICK freq \in Freqs : \E layout : \E D, from, to :
        D \subseteq DOMAIN Days
        /\ range = [dates |-> SelectDates(D, from, to), layout |-> layout, freq |-> freq, any |-> FALSE]
  <2>1. PICK kinds \in SUBSET {"date", "symbol"} \ {{}}, freq \in Freqs,
             directories \in SUBSET DOMAIN Days, files \in SUBSET DOMAIN Days,
             from \in DOMAIN Days, to \in DOMAIN Days :
          range = [dates |-> SelectDates(ListDates(DetectLayout(kinds), directories, files), from, to),
                   layout |-> DetectLayout(kinds), freq |-> freq, any |-> FALSE]
    BY Zenon DEF Init
  <2>2. ListDates(DetectLayout(kinds), directories, files) \subseteq DOMAIN Days
    BY DEF ListDates
  <2> QED
    BY <2>1, <2>2, Zenon
<1>3. PICK layout, D, from, to :
        D \subseteq DOMAIN Days
        /\ range = [dates |-> SelectDates(D, from, to), layout |-> layout, freq |-> freq, any |-> FALSE]
  BY <1>2
<1>4. IsRange(range)
  <2>1. SelectDates(D, from, to) \subseteq DOMAIN Days
    BY <1>3 DEF SelectDates
  <2>2. freq \in Nat
    BY DataLayerAssumption
  <2> QED
    BY <1>3, <2>1, <2>2 DEF IsRange
<1> QED
  BY <1>1, <1>4, NoneBuilt DEF StatesInv

LEMMA StatesLoad ==
  ASSUME StatesInv, LoadDay
  PROVE  StatesInv'
<1>1. range.dates # {} /\ IsRange(range) /\ states' = <<>> /\ next' = 1
      /\ range' = [range EXCEPT !.dates = @ \ {NextDate}]
  BY Zenon DEF LoadDay, StatesInv
<1>2. NextDate \in DOMAIN Days
  <2>1. range.dates \subseteq Nat
    <3>1. DOMAIN Days \subseteq Nat
      BY DataLayerAssumption, LenProperties
    <3> QED
      BY <1>1, <3>1 DEF IsRange
  <2>2. PICK d \in range.dates : \A e \in range.dates : d <= e
    BY <1>1, <2>1, LeastNatural
  <2>3. NextDate \in range.dates
    BY <2>2, Zenon DEF NextDate
  <2> QED
    BY <1>1, <2>3 DEF IsRange
<1>3. Days[NextDate] \subseteq Frames(RawRow)
  <2>1. Days \in Seq(SUBSET Frames(RawRow))
    BY DataLayerAssumption DEF Frames
  <2> QED
    BY <1>2, <2>1, ElementOfSeq, LenProperties
<1>4. \E files \in Days[NextDate], given \in Trades : \E readable :
        \E raw \in LoadRawCsv(files, readable), trades \in NormaliseTrades(given) :
          day' = [date |-> NextDate, raw |-> raw, trades |-> trades, rows |-> WorkingRows(raw, trades, range.freq)]
  BY Zenon DEF LoadDay
<1>5. PICK files \in Days[NextDate], given \in Trades : \E readable :
        \E raw \in LoadRawCsv(files, readable), trades \in NormaliseTrades(given) :
          day' = [date |-> NextDate, raw |-> raw, trades |-> trades, rows |-> WorkingRows(raw, trades, range.freq)]
  BY <1>4
<1>6. PICK readable :
        \E raw \in LoadRawCsv(files, readable), trades \in NormaliseTrades(given) :
          day' = [date |-> NextDate, raw |-> raw, trades |-> trades, rows |-> WorkingRows(raw, trades, range.freq)]
  BY <1>5
<1>7. PICK raw \in LoadRawCsv(files, readable), trades \in NormaliseTrades(given) :
        day' = [date |-> NextDate, raw |-> raw, trades |-> trades, rows |-> WorkingRows(raw, trades, range.freq)]
  BY <1>6
<1>8. IsRaw(raw)
  BY <1>3, <1>5, RawLoaded
<1>9. trades \in Seq(Trade)
  BY DataLayerAssumption, InTimeOrderTyped DEF NormaliseTrades
<1>10. DayRows(WorkingRows(raw, trades, range.freq), raw, trades, range.freq)
  BY <1>1, <1>8, <1>9, DayRowsSound DEF IsRange
<1>11. IsRange(range') /\ range'.freq = range.freq
  BY <1>1 DEF IsRange
<1>12. DOMAIN states' = {}
  BY <1>1
<1> QED
  BY <1>1, <1>7, <1>8, <1>9, <1>10, <1>11, <1>12, NoneBuilt DEF StatesInv

LEMMA StatesBuild ==
  ASSUME SpreadLimited, StatesInv, BuildState
  PROVE  StatesInv'
<1> DEFINE row    == day.rows[next]
           mask   == SessionMask(day.date, day.rows)[next]
           lob    == SnapshotOf(row)
           trades == RelevantTrades(day.trades, lob.ts)
           c      == FP!Computed(pipe, lob, trades)
           s      == StateOf(lob, mask, trades, c.features)
           n      == Len(states)
<1>1. /\ outcome = "building" /\ next \in DOMAIN day.rows
      /\ outcome' = outcome /\ day' = day /\ range' = range /\ next' = next + 1
      /\ Valid(lob) => states' = Append(states, s)
  <2>1. IF Valid(lob) THEN states' = Append(states, s) ELSE UNCHANGED << states, pipe, watch >>
    BY Zenon DEF BuildState
  <2>2. /\ outcome = "building" /\ next \in DOMAIN day.rows
        /\ outcome' = outcome /\ day' = day /\ range' = range /\ next' = next + 1
    BY DEF BuildState
  <2> QED
    BY <2>1, <2>2, Zenon
<1>2. /\ DayRows(day.rows, day.raw, day.trades, range.freq)
      /\ next = n + 1 /\ IsRaw(day.raw) /\ day.trades \in Seq(Trade) /\ IsRange(range)
      /\ \A k \in DOMAIN states : k \in DOMAIN day.rows /\ IsStateOf(states[k], day.rows[k], day.date, day.trades)
  BY <1>1 DEF StatesInv
<1>3. PICK T : row \in DayRow(T)
  <2>1. PICK T : day.rows \in Seq(DayRow(T))
    BY <1>2 DEF DayRows
  <2>2. row \in DayRow(T)
    BY <1>1, <2>1, ElementOfSeq, LenProperties
  <2> QED
    BY <2>2
<1>4. ~Inverted(row) /\ ~Wide(row)
  BY <1>1, <1>2 DEF DayRows, SoundRow
<1>5. Valid(lob)
  BY <1>3, <1>4, SnapshotSound
<1>6. lob.ts = row.ts /\ lob.trade = row.trade /\ lob.drift = row.drift
  BY <1>3, SnapshotParts
<1>7. mask = [type |-> SessionType(day.date, row.ts), tradable |-> SessionType(day.date, row.ts) = "regular"]
  <2>1. next \in DOMAIN day.rows
    BY <1>1
  <2> QED
    BY <2>1, Zenon DEF SessionMask
<1>8. /\ s.ts = lob.ts /\ s.bids = lob.bids /\ s.asks = lob.asks /\ s.lastTrade = lob.trade /\ s.drift = lob.drift
      /\ s.trades = trades /\ s.tradable = mask.tradable
  <2> HIDE DEF lob, mask, trades, c
  <2> QED
    BY DEF StateOf
<1>9. IsStateOf(s, row, day.date, day.trades)
  <2>1. mask.tradable => SessionType(day.date, row.ts) = "regular"
    <3> HIDE DEF mask
    <3>1. mask.tradable = (SessionType(day.date, row.ts) = "regular")
      BY <1>7
    <3> QED
      BY <3>1, Zenon
  <2> HIDE DEF s, mask
  <2>2. s.trades = RelevantTrades(day.trades, row.ts)
    BY <1>6, <1>8
  <2> HIDE DEF lob
  <2> QED
    BY <1>6, <1>8, <2>1, <2>2 DEF IsStateOf, SameSides, lob
<1> HIDE DEF s
<1>10. PICK X : states \in Seq(X)
  BY DEF StatesInv
<1>11. n \in Nat /\ states' \in Seq(X \cup {s}) /\ Len(states') = n + 1 /\ states'[n + 1] = s
       /\ (\A k \in 1 .. n : states'[k] = states[k]) /\ DOMAIN states = 1 .. n /\ DOMAIN states' = 1 .. n + 1
  <2>1. states \in Seq(X \cup {s})
    BY <1>10, SeqMonotonic
  <2>2. n \in Nat /\ states' \in Seq(X \cup {s}) /\ Len(states') = n + 1 /\ states'[n + 1] = s
        /\ (\A k \in 1 .. n : states'[k] = states[k]) /\ DOMAIN states = 1 .. n
    BY <1>1, <1>5, <2>1, LenProperties, AppendProperties
  <2> QED
    BY <2>2, LenProperties
<1> HIDE DEF n, row
<1>12. ASSUME NEW k \in DOMAIN states'
       PROVE  k \in DOMAIN day.rows /\ IsStateOf(states'[k], day.rows[k], day.date, day.trades)
  <2>1. CASE k = n + 1
    BY <1>1, <1>2, <1>9, <1>11, <2>1 DEF row
  <2>2. CASE k # n + 1
    BY <1>2, <1>11, <2>2
  <2> QED
    BY <2>1, <2>2
<1> QED
  BY <1>1, <1>2, <1>11, <1>12 DEF StatesInv

LEMMA StatesStep ==
  ASSUME SpreadLimited
  PROVE  StatesInv /\ [Next]_vars => StatesInv'
<1> SUFFICES ASSUME StatesInv, [Next]_vars
             PROVE  StatesInv'
  OBVIOUS
<1>1. CASE LoadDay
  BY <1>1, StatesLoad
<1>2. CASE BuildState
  BY <1>2, StatesBuild
<1>3. CASE EndDay
  <2>1. states' = <<>> /\ outcome' # "building"
    BY <1>3 DEF EndDay
  <2> DEFINE any == range.any \/ states # <<>>
  <2>2. range' = [range EXCEPT !.any = any]
    BY <1>3, Zenon DEF EndDay
  <2> HIDE DEF any
  <2>3. IsRange(range')
    BY <2>2 DEF StatesInv, IsRange
  <2> QED
    BY <2>1, <2>3, NoneBuilt DEF StatesInv
<1>4. CASE Ended \/ UNCHANGED vars
  <2>1. range' = range /\ day' = day /\ next' = next /\ states' = states /\ outcome' = outcome
    BY <1>4 DEF Ended, vars
  <2> QED
    BY <2>1, Zenon DEF StatesInv
<1> QED
  BY <1>1, <1>2, <1>3, <1>4 DEF Next

\* A row's snapshot has the book of the row of the day it comes from.
LEMMA SameSnapshot ==
  ASSUME NEW T, NEW row \in DayRow(T), NEW U, NEW r \in DayRow(U),
         row.bids = Clipped(r.bids), row.asks = Clipped(r.asks)
  PROVE  Book(SnapshotOf(r)) = Book(SnapshotOf(row))
<1>1. r.bids \in Levels /\ r.asks \in Levels
  BY DEF DayRow
<1>2. Clipped(row.bids) = Clipped(r.bids) /\ Clipped(row.asks) = Clipped(r.asks)
  BY <1>1, ClippedTyped
<1>3. /\ SnapshotOf(row).bids = Priced(Clipped(row.bids)) /\ SnapshotOf(row).asks = Priced(Clipped(row.asks))
      /\ SnapshotOf(r).bids = Priced(Clipped(r.bids)) /\ SnapshotOf(r).asks = Priced(Clipped(r.asks))
  BY SnapshotParts
<1> QED
  BY <1>2, <1>3, Zenon DEF Book

\* The trades a state is given are none of the future, and all of the past
\* unless there are more than fit.
TradesGiven(given, trades, ts) ==
  /\ \A t \in ToSet(given) : t.ts <= ts
  /\ \A t \in ToSet(trades) : t.ts <= ts => t \in ToSet(given) \/ Len(given) = Lookback

LEMMA TradesAreGiven ==
  ASSUME NEW trades \in Seq(Trade), NEW ts
  PROVE  TradesGiven(RelevantTrades(trades, ts), trades, ts)
<1> DEFINE early == {i \in DOMAIN trades : trades[i].ts <= ts}
           until == At(trades, early)
           given == FP!LatestOf(until, Lookback)
           m     == IF Len(until) <= Lookback THEN Len(until) ELSE Lookback
<1>1. RelevantTrades(trades, ts) = given
  <2>1. FP!Until(trades, ts) = until
    BY SameSelection, Zenon DEF FP!Until
  <2> QED
    BY <2>1, Zenon DEF RelevantTrades
<1>2. until \in Seq(Trade) /\ \A k \in DOMAIN until : \E i \in DOMAIN trades : i \in early /\ until[k] = trades[i]
  <2> HIDE DEF early
  <2> QED
    BY AtFrom
<1>3. \A k \in DOMAIN until : until[k].ts <= ts
  BY <1>2
<1>4. \A i \in DOMAIN trades : trades[i].ts <= ts => \E k \in DOMAIN until : until[k] = trades[i]
  <2>1. \A i \in early : i \in 1 .. Len(trades)
    BY LenProperties
  <2> HIDE DEF early
  <2>2. \A i \in early : \E k \in 1 .. Len(At(trades, early)) : At(trades, early)[k] = trades[i]
    BY <2>1, AtMembers
  <2>3. \A i \in early : \E k \in DOMAIN until : until[k] = trades[i]
    BY <1>2, <2>2, LenProperties
  <2> QED
    BY <2>3 DEF early
<1> HIDE DEF until
<1>5. Lookback \in Nat /\ Len(until) \in Nat /\ DOMAIN until = 1 .. Len(until)
  BY <1>2, DataLayerAssumption, LenProperties
<1>6. given \in Seq(Trade) /\ Len(given) = m /\ \A i \in 1 .. m : given[i] = until[Len(until) - m + i]
  BY <1>2, <1>5, LatestProperties
<1> HIDE DEF given
<1>7. DOMAIN given = 1 .. m /\ m \in Nat /\ m <= Len(until)
  BY <1>5, <1>6, LenProperties
<1>8. \A t \in ToSet(given) : t.ts <= ts
  <2> SUFFICES ASSUME NEW i \in 1 .. m
               PROVE  given[i].ts <= ts
    BY <1>7 DEF ToSet
  <2>1. Len(until) - m + i \in DOMAIN until
    <3> HIDE DEF m
    <3> QED
      BY <1>5, <1>7
  <2> QED
    BY <1>3, <1>6, <2>1
<1>9. ASSUME NEW t \in ToSet(trades), t.ts <= ts, Len(given) # Lookback
      PROVE  t \in ToSet(given)
  <2>1. PICK i \in DOMAIN trades : t = trades[i]
    BY DEF ToSet
  <2>2. PICK k \in DOMAIN until : until[k] = t
    BY <1>4, <1>9, <2>1
  <2>3. m = Len(until)
    BY <1>5, <1>6, <1>9
  <2>4. given[k] = t /\ k \in DOMAIN given
    <3>1. Len(until) - m + k = k /\ k \in 1 .. m
      <4> HIDE DEF m
      <4> QED
        BY <1>5, <2>2, <2>3
    <3> QED
      BY <1>6, <1>7, <2>2, <3>1
  <2> QED
    BY <2>4 DEF ToSet
<1>10. TradesGiven(given, trades, ts)
  BY <1>8, <1>9 DEF TradesGiven
<1> QED
  BY <1>1, <1>10

LEMMA OnlyTheRegularSession ==
  ASSUME NEW date, NEW ts \in Nat, SessionType(date, ts) = "regular"
  PROVE  date \notin HolidayDates /\ ts \in RegularOpen .. RegularClose - 1
<1>1. /\ PreOpen \in Nat /\ RegularOpen \in Nat /\ RegularClose \in Nat /\ PostClose \in Nat
      /\ PreOpen < RegularOpen /\ RegularOpen < RegularClose /\ RegularClose < PostClose
  BY DataLayerAssumption
<1> QED
  BY <1>1 DEF SessionType

\* What StatesAreFaithful says of one state.
FaithfulState(k, s, freq) ==
  /\ Valid(s) /\ ~Wide(s)
  /\ s.tradable => day.date \notin HolidayDates /\ s.ts \in RegularOpen .. RegularClose - 1
  /\ \E r \in ToSet(day.raw) : /\ Book(SnapshotOf(r)) = Book(s)
                               /\ IF freq = 0 THEN r.ts = s.ts ELSE r.ts < s.ts + freq
  /\ TradesGiven(s.trades, day.trades, s.ts)
  /\ s.lastTrade # NoTrade =>
       \E t \in ToSet(day.trades) : /\ t.price = s.lastTrade.price /\ Within(t, s.ts, freq)
                                    /\ freq = 0 => t.volume = s.lastTrade.volume
  /\ s.drift => k > 1
  /\ freq > MaxDrift /\ k > 1 => s.drift

LEMMA RowFaithful ==
  ASSUME SpreadLimited, NEW freq, IsRaw(day.raw), day.trades \in Seq(Trade),
         DayRows(day.rows, day.raw, day.trades, freq),
         NEW k \in DOMAIN day.rows, NEW s, IsStateOf(s, day.rows[k], day.date, day.trades)
  PROVE  FaithfulState(k, s, freq)
<1> DEFINE row == day.rows[k]
           lob == SnapshotOf(row)
<1>1. PICK T : day.rows \in Seq(DayRow(T))
  BY DEF DayRows
<1>2. row \in DayRow(T) /\ row.ts \in Nat
  <2>1. row \in DayRow(T)
    BY <1>1, ElementOfSeq, LenProperties
  <2> QED
    BY <2>1 DEF DayRow
<1>3. /\ ~Inverted(row) /\ ~Wide(row) /\ BookOfDay(row, day.raw, freq) /\ TradeOfDay(row, day.trades, freq)
      /\ row.drift => k > 1
      /\ freq > MaxDrift /\ k > 1 => row.drift
  BY DEF DayRows, SoundRow
<1>4. Valid(lob) /\ ~Wide(lob)
  BY <1>2, <1>3, SnapshotSound
<1> HIDE DEF row, lob
<1>5. /\ s.ts = row.ts /\ SameSides(s, lob) /\ s.lastTrade = row.trade /\ s.drift = row.drift
      /\ s.trades = RelevantTrades(day.trades, row.ts)
      /\ s.tradable => SessionType(day.date, row.ts) = "regular"
  BY DEF IsStateOf, row, lob
<1>6. Valid(s) /\ ~Wide(s)
  <2>1. Inverted(s) <=> Inverted(lob)
    BY <1>5, SidesDecide
  <2>2. Wide(s) <=> Wide(lob)
    BY <1>5, SidesDecide
  <2> QED
    BY <1>4, <1>5, <2>1, <2>2, Zenon DEF Valid, SameSides
<1>7. s.tradable => day.date \notin HolidayDates /\ s.ts \in RegularOpen .. RegularClose - 1
  BY <1>2, <1>5, OnlyTheRegularSession
<1>8. \E r \in ToSet(day.raw) : /\ Book(SnapshotOf(r)) = Book(s)
                                /\ IF freq = 0 THEN r.ts = s.ts ELSE r.ts < s.ts + freq
  <2>1. PICK j \in DOMAIN day.raw :
          /\ row.bids = Clipped(day.raw[j].bids) /\ row.asks = Clipped(day.raw[j].asks)
          /\ IF freq = 0 THEN day.raw[j].ts = row.ts ELSE day.raw[j].ts < row.ts + freq
    BY <1>3 DEF BookOfDay
  <2>2. day.raw[j] \in DayRow({NoTrade})
    BY ElementOfSeq, LenProperties DEF IsRaw
  <2>3. Book(SnapshotOf(day.raw[j])) = Book(lob)
    BY <1>2, <2>1, <2>2, SameSnapshot DEF lob
  <2>4. Book(lob) = Book(s)
    BY <1>5 DEF Book, SameSides
  <2>5. day.raw[j] \in ToSet(day.raw)
    BY DEF ToSet
  <2> QED
    BY <1>5, <2>1, <2>3, <2>4, <2>5
<1>9. TradesGiven(s.trades, day.trades, s.ts)
  BY <1>5, TradesAreGiven
<1>10. s.lastTrade # NoTrade =>
         \E t \in ToSet(day.trades) : /\ t.price = s.lastTrade.price /\ Within(t, s.ts, freq)
                                      /\ freq = 0 => t.volume = s.lastTrade.volume
  BY <1>3, <1>5 DEF TradeOfDay
<1>11. /\ s.drift => k > 1
       /\ freq > MaxDrift /\ k > 1 => s.drift
  BY <1>3, <1>5
<1> QED
  BY <1>6, <1>7, <1>8, <1>9, <1>10, <1>11, Zenon DEF FaithfulState

LEMMA StatesMeant ==
  ASSUME SpreadLimited
  PROVE  StatesInv => StatesAreFaithful
<1> SUFFICES ASSUME StatesInv, NEW k \in DOMAIN states
             PROVE  FaithfulState(k, states[k], range.freq) /\ (k > 1 => states[k - 1].ts < states[k].ts)
  BY Zenon DEF StatesAreFaithful, FaithfulState, TradesGiven
<1>1. outcome = "building"
  BY DEF StatesInv
<1>2. PICK X : states \in Seq(X)
  BY DEF StatesInv
<1>3. DOMAIN states = 1 .. Len(states)
  BY <1>2, LenProperties
<1>4. /\ IsRaw(day.raw) /\ day.trades \in Seq(Trade) /\ DayRows(day.rows, day.raw, day.trades, range.freq)
      /\ \A j \in DOMAIN states : j \in DOMAIN day.rows /\ IsStateOf(states[j], day.rows[j], day.date, day.trades)
  BY <1>1 DEF StatesInv
<1>5. FaithfulState(k, states[k], range.freq)
  BY <1>4, RowFaithful
<1>6. ASSUME k > 1
      PROVE  states[k - 1].ts < states[k].ts
  <2>1. k - 1 \in DOMAIN states /\ k - 1 < k
    BY <1>3, <1>6
  <2>2. day.rows[k - 1].ts < day.rows[k].ts
    BY <1>4, <2>1 DEF DayRows, Rises
  <2> QED
    BY <1>4, <2>1, <2>2 DEF IsStateOf
<1> QED
  BY <1>5, <1>6

\* With a limit on the spread below 20000 basis points, which is the spread of a
\* row without a bid, every state of every day is faithful: its book, its
\* session, its trades, its drift flag and its place in time.
\* (build_from_dataframes, DataCleaner.clean, DataSynchronizer)
THEOREM StatesSound ==
  ASSUME SpreadLimited
  PROVE  Spec => []StatesAreFaithful
<1>1. Init => StatesInv
  BY StatesInit
<1>2. StatesInv /\ [Next]_vars => StatesInv'
  BY StatesStep
<1>3. StatesInv => StatesAreFaithful
  BY StatesMeant
<1> QED
  BY <1>1, <1>2, <1>3, PTL DEF Spec

-----------------------------------------------------------------------------
(* The two cleaners *)

\* The volume of a side, level by level.
VolumeSteps(H, levels) ==
  /\ H \in [0 .. Len(levels) -> Nat] /\ H[0] = 0
  /\ \A k \in 1 .. Len(levels) : H[k] = H[k - 1] + Greatest(0, levels[k].volume)

LEMMA PositivePart ==
  ASSUME NEW a \in Nat, NEW v \in Int
  PROVE  a + Greatest(0, v) \in Nat /\ Greatest(0, v) \in Nat
BY DEF Greatest

LEMMA VolumeTrace ==
  ASSUME NEW levels \in Seq(Level)
  PROVE  \E H : VolumeSteps(H, levels) /\ Volume(levels) = H[Len(levels)]
<1> DEFINE n == Len(levels)
           none == 0
           G == [p \in (1 .. n) \X Nat |-> p[2] + Greatest(0, levels[p[1]].volume)]
           IsIter(g) == g = [t \in SUBSET (1 .. n) |->
             IF t = {} THEN none ELSE g[t \ {Max(t)}] + Greatest(0, levels[Max(t)].volume)]
           iter == CHOOSE g : IsIter(g)
<1>1. n \in Nat /\ DOMAIN levels = 1 .. n /\ \A i \in 1 .. n : levels[i].volume \in Int
  <2>1. \A l \in Level : l.volume \in Int
    BY DEF Level
  <2>2. n \in Nat /\ DOMAIN levels = 1 .. n /\ \A i \in 1 .. n : levels[i] \in Level
    BY LenProperties, ElementOfSeq
  <2> QED
    BY <2>1, <2>2
<1>2. Volume(levels) = iter[1 .. n]
  <2>1. Volume(levels) = (CHOOSE g : g = [t \in SUBSET (DOMAIN levels) |->
          IF t = {} THEN none ELSE g[t \ {Max(t)}] + Greatest(0, levels[Max(t)].volume)])[DOMAIN levels]
    BY Zenon DEF Volume, FoldLeft, MapThenFoldSet
  <2> QED
    BY <1>1, <2>1, Zenon
<1>3. none \in Nat
  OBVIOUS
<1> HIDE DEF n, none
<1>4. ASSUME NEW i \in 1 .. n, NEW a \in Nat
      PROVE  G[<<i, a>>] = a + Greatest(0, levels[i].volume)
  OBVIOUS
<1> HIDE DEF G
<1>5. Keeps(G, 1 .. n, Nat)
  <2>1. ASSUME NEW i \in 1 .. n, NEW a \in Nat
        PROVE  G[<<i, a>>] \in Nat
    <3>1. a + Greatest(0, levels[i].volume) \in Nat
      BY <1>1, PositivePart
    <3> QED
      BY <1>4, <3>1, Zenon
  <2> QED
    BY <2>1, Zenon DEF Keeps
<1>6. \E g : IsIter(g)
  <2>1. PICK g \in [SUBSET (1 .. n) -> Nat] : IsLeftFold(G, none, n, g)
    BY <1>1, <1>3, <1>5, FoldLeftExists
  <2>2. ASSUME NEW t \in SUBSET (1 .. n)
        PROVE  g[t] = IF t = {} THEN none ELSE g[t \ {Max(t)}] + Greatest(0, levels[Max(t)].volume)
    <3>1. t # {} => Max(t) \in 1 .. n
      BY <1>1, LargestChosen
    <3>2. g[t \ {Max(t)}] \in Nat
      OBVIOUS
    <3> QED
      BY <1>4, <2>1, <3>1, <3>2 DEF IsLeftFold
  <2> QED
    BY <2>2
<1>7. IsIter(iter)
  BY <1>6
<1> HIDE DEF iter
<1>8. iter[{}] = none
  BY <1>7
<1>9. ASSUME NEW k \in 1 .. n, iter[1 .. k - 1] \in Nat
      PROVE  iter[1 .. k] = G[<<k, iter[1 .. k - 1]>>]
  <2>1. k \in Nat \ {0} /\ 1 .. k \in SUBSET (1 .. n)
    BY <1>1
  <2>2. iter[1 .. k] = iter[(1 .. k) \ {Max(1 .. k)}] + Greatest(0, levels[Max(1 .. k)].volume)
    BY <1>7, <2>1, LargestOfPrefix
  <2>3. Max(1 .. k) = k /\ (1 .. k) \ {k} = 1 .. k - 1
    BY <2>1, LargestOfPrefix
  <2>4. iter[1 .. k] = iter[1 .. k - 1] + Greatest(0, levels[k].volume)
    BY <2>2, <2>3, Zenon
  <2> QED
    BY <1>4, <1>9, <2>4, Zenon
<1>10. PICK H : IsTrace(G, Nat, none, n, H) /\ H[n] = iter[1 .. n]
  <2> DEFINE A == Nat
  <2>1. StepsOn(G, A, n, iter) /\ Keeps(G, 1 .. n, A) /\ none \in A
    BY <1>3, <1>5, <1>9, Zenon DEF StepsOn
  <2> HIDE DEF A
  <2>2. \E H : IsTrace(G, A, none, n, H) /\ H[n] = iter[1 .. n]
    BY <1>1, <1>8, <2>1, FoldLeftTrace
  <2> QED
    BY <2>2 DEF A
<1>11. ASSUME NEW k \in 1 .. n
       PROVE  H[k] = H[k - 1] + Greatest(0, levels[k].volume)
  <2>1. k - 1 \in 0 .. n
    BY <1>1
  <2>2. H[k - 1] \in Nat /\ H[k] = G[<<k, H[k - 1]>>]
    BY <1>10, <2>1 DEF IsTrace
  <2> QED
    BY <1>4, <2>2
<1> QED
  BY <1>2, <1>10, <1>11 DEF IsTrace, n, none, VolumeSteps

\* Whatever steps like the volume ends at it.
LEMMA VolumeIs ==
  ASSUME NEW levels \in Seq(Level), NEW K, VolumeSteps(K, levels)
  PROVE  Volume(levels) = K[Len(levels)]
<1> DEFINE n == Len(levels)
<1>1. PICK H : VolumeSteps(H, levels) /\ Volume(levels) = H[n]
  BY VolumeTrace
<1>2. n \in Nat
  BY LenProperties
<1>3. StepAlike(n, H, K)
  BY <1>1 DEF VolumeSteps, StepAlike
<1> HIDE DEF n
<1>4. SameTrace(n, H, K)
  BY <1>2, <1>3, TracesAgree
<1> QED
  BY <1>1, <1>2, <1>4 DEF SameTrace, n

LEMMA VolumeEmpty == Volume(<< >>) = 0
<1>1. << >> \in Seq(Level) /\ Len(<< >>) = 0
  BY EmptySeq
<1>2. PICK H : VolumeSteps(H, << >>) /\ Volume(<< >>) = H[Len(<< >>)]
  BY <1>1, VolumeTrace
<1> QED
  BY <1>1, <1>2 DEF VolumeSteps

LEMMA VolumeAppended ==
  ASSUME NEW levels \in Seq(Level), NEW l \in Level
  PROVE  Volume(Append(levels, l)) = Volume(levels) + Greatest(0, l.volume)
<1> DEFINE n == Len(levels)
           more == Append(levels, l)
<1>1. n \in Nat /\ more \in Seq(Level) /\ Len(more) = n + 1 /\ more[n + 1] = l /\ \A i \in 1 .. n : more[i] = levels[i]
  BY AppendProperties, LenProperties
<1>2. PICK H : VolumeSteps(H, more) /\ Volume(more) = H[n + 1]
  BY <1>1, VolumeTrace
<1> HIDE DEF more
<1>3. \A k \in 1 .. n + 1 : H[k] = H[k - 1] + Greatest(0, more[k].volume)
  BY <1>1, <1>2 DEF VolumeSteps
<1>4. H[n + 1] = H[n] + Greatest(0, l.volume)
  <2>1. n + 1 \in 1 .. n + 1 /\ (n + 1) - 1 = n
    BY <1>1
  <2> QED
    BY <1>1, <1>3, <2>1
<1>5. \E K : VolumeSteps(K, levels) /\ K[n] = H[n]
  <2> DEFINE K == [k \in 0 .. n |-> H[k]]
  <2>1. K \in [0 .. n -> Nat] /\ K[0] = 0 /\ K[n] = H[n]
    <3>1. H \in [0 .. n + 1 -> Nat] /\ H[0] = 0
      BY <1>1, <1>2 DEF VolumeSteps
    <3> QED
      BY <1>1, <3>1
  <2>2. ASSUME NEW k \in 1 .. n
        PROVE  K[k] = K[k - 1] + Greatest(0, levels[k].volume)
    <3>1. k \in 0 .. n /\ k - 1 \in 0 .. n /\ k \in 1 .. n + 1
      BY <1>1
    <3>2. K[k] = H[k] /\ K[k - 1] = H[k - 1]
      BY <3>1
    <3> QED
      BY <1>1, <1>3, <3>1, <3>2, Zenon
  <2> HIDE DEF K
  <2> QED
    BY <2>1, <2>2 DEF VolumeSteps
<1>6. Volume(levels) = H[n]
  BY <1>5, VolumeIs
<1> QED
  BY <1>2, <1>4, <1>6 DEF more

\* Some of the levels hold no more than all of them.
LEMMA VolumeOfSome ==
  ASSUME NEW levels \in Seq(Level), NEW positions
  PROVE  /\ Volume(At(levels, positions)) \in Nat /\ Volume(levels) \in Nat
         /\ Volume(At(levels, positions)) <= Volume(levels)
<1> DEFINE n == Len(levels)
<1>1. PICK H : VolumeSteps(H, levels) /\ Volume(levels) = H[n]
  BY VolumeTrace
<1>2. PICK kept \in [0 .. n -> Seq(Level)] : IsKept(levels, positions, kept) /\ At(levels, positions) = kept[n]
  BY AtKept
<1>3. n \in Nat /\ \A k \in 1 .. n : levels[k] \in Level
  BY LenProperties, ElementOfSeq
<1>4. kept[0] = << >> /\ \A k \in 1 .. n : KeepsStep(positions, levels, kept, k)
  BY <1>2, <1>3, KeptSteps
<1>5. H \in [0 .. n -> Nat] /\ H[0] = 0 /\ \A k \in 1 .. n : H[k] = H[k - 1] + Greatest(0, levels[k].volume)
  BY <1>1 DEF VolumeSteps
<1> DEFINE Good == {k \in 0 .. n : Volume(kept[k]) \in Nat /\ Volume(kept[k]) <= H[k]}
<1> HIDE DEF n
<1>6. 0 \in Good
  BY <1>3, <1>4, <1>5, VolumeEmpty
<1>7. ASSUME NEW k \in 1 .. n, k - 1 \in Good
      PROVE  k \in Good
  <2>1. k - 1 \in 0 .. n /\ k \in 0 .. n /\ kept[k - 1] \in Seq(Level) /\ levels[k] \in Level
    BY <1>3
  <2>2. Volume(kept[k - 1]) \in Nat /\ Volume(kept[k - 1]) <= H[k - 1] /\ H[k - 1] \in Nat
    BY <1>5, <1>7, <2>1
  <2>3. Greatest(0, levels[k].volume) \in Nat
    <3>1. levels[k].volume \in Int
      BY <2>1 DEF Level
    <3> QED
      BY <3>1 DEF Greatest
  <2>4. H[k] = H[k - 1] + Greatest(0, levels[k].volume)
    BY <1>5
  <2>5. CASE k \in positions
    <3>1. kept[k] = Append(kept[k - 1], levels[k])
      BY <1>4, <2>5 DEF KeepsStep
    <3>2. Volume(kept[k]) = Volume(kept[k - 1]) + Greatest(0, levels[k].volume)
      BY <2>1, <3>1, VolumeAppended
    <3> QED
      BY <2>1, <2>2, <2>3, <2>4, <3>2
  <2>6. CASE k \notin positions
    <3>1. kept[k] = kept[k - 1]
      BY <1>4, <2>6 DEF KeepsStep
    <3> QED
      BY <2>1, <2>2, <2>3, <2>4, <3>1
  <2> QED
    BY <2>5, <2>6
<1> HIDE DEF Good
<1>8. \A k \in 0 .. n : k \in Good
  BY <1>3, <1>6, <1>7, UpTo
<1>9. n \in Good
  BY <1>3, <1>8
<1> QED
  BY <1>1, <1>2, <1>3, <1>5, <1>9 DEF Good

\* Of the levels of a side, those without a price come last and do not decide
\* whether the side is deep enough: the feed pads with them what it does not have.
PaddedSide(levels) ==
  /\ levels[1].price <= 0 => \A i \in DOMAIN levels : levels[i].price <= 0
  /\ levels[1].price > 0 /\ Volume(Clipped(levels)) >= MinDepth
       => Volume(Priced(Clipped(levels))) >= MinDepth
PaddedRows(Rows) == {r \in Rows : PaddedSide(r.bids) /\ PaddedSide(r.asks)}

\* What each cleaner asks of a row.
Fit(row)  == ~Inverted(row) /\ ~Shallow(row)
Good(s)   == Valid(s) /\ ~Shallow(s) /\ ~Wide(s)

LEMMA SnapshotOfFixed ==
  ASSUME NEW T, NEW r \in DayRow(T)
  PROVE  SnapshotOf(FixNegativeVolumes(r)) = SnapshotOf(r)
<1> DEFINE fixed == FixNegativeVolumes(r)
           again == FixNegativeVolumes(fixed)
<1>1. fixed \in DayRow(T) /\ fixed.bids = Clipped(r.bids) /\ fixed.asks = Clipped(r.asks)
  BY FixedRow
<1>2. r.bids \in Levels /\ r.asks \in Levels
  BY DEF DayRow
<1>3. Clipped(fixed.bids) = fixed.bids /\ Clipped(fixed.asks) = fixed.asks
  BY <1>1, <1>2, ClippedTyped
<1>4. again = [fixed EXCEPT !.bids = Clipped(@), !.asks = Clipped(@)]
  BY Zenon DEF FixNegativeVolumes, Clipped
<1> HIDE DEF fixed
<1>5. again = fixed
  BY <1>1, <1>3, <1>4 DEF DayRow
<1> HIDE DEF again
<1>6. SnapshotOf(fixed) = [again EXCEPT !.bids = Priced(@), !.asks = Priced(@)]
  BY Zenon DEF SnapshotOf, Priced, again
<1>7. SnapshotOf(r) = [fixed EXCEPT !.bids = Priced(@), !.asks = Priced(@)]
  BY Zenon DEF SnapshotOf, Priced, fixed
<1> QED
  BY <1>5, <1>6, <1>7, Zenon DEF fixed

\* The best level of a side that has a level with a price, and its volume.
LEMMA PricedSide ==
  ASSUME NEW levels \in Levels, PaddedSide(levels)
  PROVE  /\ Priced(Clipped(levels)) # <<>> =>
              levels[1].price > 0 /\ Best(Priced(Clipped(levels))) = Best(Clipped(levels))
         /\ Volume(Priced(Clipped(levels))) \in Nat /\ Volume(Clipped(levels)) \in Nat
         /\ Volume(Priced(Clipped(levels))) <= Volume(Clipped(levels))
<1> DEFINE less == Clipped(levels)
           some == Priced(less)
<1>1. less \in Levels /\ Best(less) = Best(levels) /\ less \in Seq(Level)
  BY ClippedTyped, LevelsTyped
<1>2. DOMAIN less = DOMAIN levels /\ \A i \in DOMAIN levels : less[i].price = levels[i].price
  <2>1. \A i \in DOMAIN levels : levels[i] \in Level
    BY LevelsTyped
  <2> QED
    BY <2>1 DEF Clipped, Level
<1>3. Volume(some) \in Nat /\ Volume(less) \in Nat /\ Volume(some) <= Volume(less)
  BY <1>1, VolumeOfSome DEF Priced
<1>4. ASSUME some # <<>>
      PROVE  levels[1].price > 0 /\ Best(some) = Best(less)
  <2>1. \E i \in DOMAIN less : less[i].price > 0
    <3> DEFINE known == {i \in DOMAIN less : less[i].price > 0}
    <3>1. some = At(less, known)
      BY DEF Priced
    <3> HIDE DEF known, less
    <3>2. some \in Seq(Level) /\ \A k \in DOMAIN some : \E i \in DOMAIN less : i \in known /\ some[k] = less[i]
      BY <1>1, <3>1, AtFrom
    <3>3. 1 \in DOMAIN some
      <4> HIDE DEF some
      <4> QED
        BY <1>4, <3>2, LenProperties, EmptySeq
    <3>4. PICK i \in DOMAIN less : i \in known
      BY <3>2, <3>3
    <3> QED
      BY <3>4 DEF known
  <2>2. levels[1] \in Level /\ 1 \in DOMAIN levels /\ \A i \in DOMAIN levels : levels[i] \in Level
    BY LevelsTyped
  <2>3. levels[1].price > 0
    BY <1>2, <2>1, <2>2 DEF PaddedSide, Level, Missing
  <2>4. Best(less) > 0
    BY <1>1, <2>3 DEF Best
  <2> QED
    BY <1>1, <2>3, <2>4, PricedFirst
<1> QED
  BY <1>3, <1>4

\* The two cleaners judge one row alike.
LEMMA JudgedAlike ==
  ASSUME SpreadLimited, NEW T, NEW r \in DayRow(T), PaddedSide(r.bids), PaddedSide(r.asks)
  PROVE  /\ Good(SnapshotOf(r)) => Fit(FixNegativeVolumes(r))
         /\ Fit(FixNegativeVolumes(r)) /\ ~Wide(FixNegativeVolumes(r)) => Good(SnapshotOf(r))
<1> DEFINE fixed == FixNegativeVolumes(r)
           s == SnapshotOf(r)
<1>1. fixed \in DayRow(T) /\ fixed.bids = Clipped(r.bids) /\ fixed.asks = Clipped(r.asks)
  BY FixedRow
<1>2. s.bids = Priced(Clipped(r.bids)) /\ s.asks = Priced(Clipped(r.asks))
  BY SnapshotParts
<1>3. s = SnapshotOf(fixed)
  BY SnapshotOfFixed
<1>4. r.bids \in Levels /\ r.asks \in Levels
  BY DEF DayRow
<1>5. /\ s.bids # <<>> => r.bids[1].price > 0 /\ Best(s.bids) = Best(fixed.bids)
      /\ s.asks # <<>> => r.asks[1].price > 0 /\ Best(s.asks) = Best(fixed.asks)
      /\ {Volume(s.bids), Volume(fixed.bids), Volume(s.asks), Volume(fixed.asks)} \subseteq Nat
      /\ Volume(s.bids) <= Volume(fixed.bids) /\ Volume(s.asks) <= Volume(fixed.asks)
  BY <1>1, <1>2, <1>4, PricedSide
<1>6. Best(fixed.bids) = r.bids[1].price /\ Best(fixed.asks) = r.asks[1].price
  BY <1>1, <1>4, ClippedTyped DEF Best
<1>7. MinDepth \in Nat
  BY CleaningAssumption
<1>8. ASSUME Fit(fixed), ~Wide(fixed)
      PROVE  Valid(s) /\ ~Wide(s) /\ r.bids[1].price > 0 /\ r.asks[1].price > 0
  <2>1. ~Inverted(fixed)
    BY <1>8 DEF Fit
  <2>2. Best(fixed.bids) > 0 /\ Best(fixed.asks) > 0
    BY <1>1, <1>8, <2>1, BothSidesPriced
  <2>3. Valid(SnapshotOf(fixed)) /\ ~Wide(SnapshotOf(fixed))
    BY <1>1, <1>8, <2>1, SnapshotSound
  <2> QED
    BY <1>3, <1>6, <2>2, <2>3
<1>9. /\ r.bids[1].price > 0 /\ Volume(fixed.bids) >= MinDepth => Volume(s.bids) >= MinDepth
      /\ r.asks[1].price > 0 /\ Volume(fixed.asks) >= MinDepth => Volume(s.asks) >= MinDepth
  BY <1>1, <1>2 DEF PaddedSide
<1> HIDE DEF fixed, s
<1>10. ASSUME Good(s)
       PROVE  Fit(fixed)
  <2>1. s.bids # <<>> /\ s.asks # <<>> /\ ~Inverted(s) /\ ~Shallow(s)
    BY <1>10 DEF Good, Valid
  <2>2. ~Inverted(fixed)
    BY <1>5, <2>1 DEF Inverted
  <2>3. ~Shallow(fixed)
    BY <1>5, <1>7, <2>1 DEF Shallow
  <2> QED
    BY <2>2, <2>3 DEF Fit
<1>11. ASSUME Fit(fixed), ~Wide(fixed)
       PROVE  Good(s)
  <2>1. ~Shallow(s)
    BY <1>5, <1>7, <1>8, <1>9, <1>11 DEF Fit, Shallow
  <2> QED
    BY <1>8, <1>11, <2>1 DEF Good
<1> QED
  BY <1>10, <1>11 DEF fixed, s

\* The snapshots after each of the first ones.
DistinctSteps(H, S, snapshots) ==
  /\ H \in [0 .. Len(snapshots) -> Seq(S)] /\ H[0] = <<>>
  /\ \A k \in 1 .. Len(snapshots) : H[k] = Merged(H[k - 1], snapshots[k])

LEMMA MergedTyped ==
  ASSUME NEW S, NEW kept \in Seq(S), NEW s \in S
  PROVE  Merged(kept, s) \in Seq(S)
<1> DEFINE same == {i \in DOMAIN kept : kept[i].ts = s.ts}
           placed == [i \in DOMAIN kept |-> IF i \in same /\ ~KeepFirst THEN s ELSE kept[i]]
<1>1. Len(kept) \in Nat /\ DOMAIN kept = 1 .. Len(kept) /\ \A i \in 1 .. Len(kept) : kept[i] \in S
  BY LenProperties, ElementOfSeq
<1>2. Merged(kept, s) = IF ~Valid(s) \/ Shallow(s) \/ Wide(s) THEN kept
                        ELSE IF same = {} THEN Append(kept, s) ELSE placed
  BY Zenon DEF Merged
<1> HIDE DEF same
<1>3. placed \in Seq(S)
  <2>1. placed = [i \in 1 .. Len(kept) |-> placed[i]] /\ \A i \in 1 .. Len(kept) : placed[i] \in S
    BY <1>1
  <2> HIDE DEF placed
  <2> QED
    BY <1>1, <2>1, SequenceOf
<1>4. Append(kept, s) \in Seq(S)
  BY AppendProperties
<1> HIDE DEF placed
<1> QED
  BY <1>2, <1>3, <1>4

LEMMA DistinctTrace ==
  ASSUME NEW S, NEW snapshots \in Seq(S)
  PROVE  \E H : DistinctSteps(H, S, snapshots) /\ Distinct(snapshots) = H[Len(snapshots)]
<1> DEFINE n == Len(snapshots)
           A == Seq(S)
           none == <<>>
           G == [p \in (1 .. n) \X A |-> Merged(p[2], snapshots[p[1]])]
           IsIter(g) == g = [t \in SUBSET (1 .. n) |->
             IF t = {} THEN none ELSE Merged(g[t \ {Max(t)}], snapshots[Max(t)])]
           iter == CHOOSE g : IsIter(g)
<1>1. n \in Nat /\ DOMAIN snapshots = 1 .. n /\ \A i \in 1 .. n : snapshots[i] \in S
  BY LenProperties, ElementOfSeq
<1>2. Distinct(snapshots) = iter[1 .. n]
  <2>1. Distinct(snapshots) = (CHOOSE g : g = [t \in SUBSET (DOMAIN snapshots) |->
          IF t = {} THEN none ELSE Merged(g[t \ {Max(t)}], snapshots[Max(t)])])[DOMAIN snapshots]
    BY Zenon DEF Distinct, FoldLeft, MapThenFoldSet
  <2> QED
    BY <1>1, <2>1, Zenon
<1>3. none \in A
  BY EmptySeq
<1> HIDE DEF n, none
<1>4. ASSUME NEW i \in 1 .. n, NEW a \in A
      PROVE  G[<<i, a>>] = Merged(a, snapshots[i])
  OBVIOUS
<1> HIDE DEF G
<1>5. ASSUME NEW i \in 1 .. n, NEW a \in A
      PROVE  Merged(a, snapshots[i]) \in A
  BY <1>1, MergedTyped
<1> HIDE DEF A
<1>6. Keeps(G, 1 .. n, A)
  <2>1. ASSUME NEW i \in 1 .. n, NEW a \in A
        PROVE  G[<<i, a>>] \in A
    BY <1>4, <1>5, Zenon
  <2> QED
    BY <2>1, Zenon DEF Keeps
<1>7. \E g : IsIter(g)
  <2>1. PICK g \in [SUBSET (1 .. n) -> A] : IsLeftFold(G, none, n, g)
    BY <1>1, <1>3, <1>6, FoldLeftExists
  <2>2. ASSUME NEW t \in SUBSET (1 .. n)
        PROVE  g[t] = IF t = {} THEN none ELSE Merged(g[t \ {Max(t)}], snapshots[Max(t)])
    <3>1. t # {} => Max(t) \in 1 .. n
      BY <1>1, LargestChosen
    <3>2. g[t \ {Max(t)}] \in A
      OBVIOUS
    <3> QED
      BY <1>4, <2>1, <3>1, <3>2 DEF IsLeftFold
  <2> QED
    BY <2>2
<1>8. IsIter(iter)
  BY <1>7
<1> HIDE DEF iter
<1>9. iter[{}] = none
  BY <1>8
<1>10. ASSUME NEW k \in 1 .. n, iter[1 .. k - 1] \in A
       PROVE  iter[1 .. k] = G[<<k, iter[1 .. k - 1]>>]
  <2>1. k \in Nat \ {0} /\ 1 .. k \in SUBSET (1 .. n)
    BY <1>1
  <2>2. iter[1 .. k] = Merged(iter[(1 .. k) \ {Max(1 .. k)}], snapshots[Max(1 .. k)])
    BY <1>8, <2>1, LargestOfPrefix
  <2>3. Max(1 .. k) = k /\ (1 .. k) \ {k} = 1 .. k - 1
    BY <2>1, LargestOfPrefix
  <2>4. iter[1 .. k] = Merged(iter[1 .. k - 1], snapshots[k])
    BY <2>2, <2>3, Zenon
  <2> QED
    BY <1>4, <1>10, <2>4, Zenon
<1>11. PICK H : IsTrace(G, A, none, n, H) /\ H[n] = iter[1 .. n]
  <2>1. StepsOn(G, A, n, iter)
    BY <1>10, Zenon DEF StepsOn
  <2> QED
    BY <1>1, <1>3, <1>6, <1>9, <2>1, FoldLeftTrace
<1>12. ASSUME NEW k \in 1 .. n
       PROVE  H[k] = Merged(H[k - 1], snapshots[k])
  <2>1. k - 1 \in 0 .. n
    BY <1>1
  <2>2. H[k - 1] \in A /\ H[k] = G[<<k, H[k - 1]>>]
    BY <1>11, <2>1 DEF IsTrace
  <2> QED
    BY <1>4, <2>2
<1>13. H \in [0 .. n -> A] /\ H[0] = none
  BY <1>11 DEF IsTrace
<1> QED
  BY <1>2, <1>11, <1>12, <1>13 DEF n, none, A, DistinctSteps

\* A position among chosen ones that no other one of its time takes the place of.
Before(i, j) == IF KeepFirst THEN i < j ELSE i > j
Foremost(seq, chosen, i) ==
  /\ i \in chosen
  /\ \A j \in chosen : seq[j].ts = seq[i].ts => ~Before(j, i)

\* Among those of one time there is one.
LEMMA ForemostOne ==
  ASSUME NEW seq, NEW m \in Nat, NEW chosen \in SUBSET (1 .. m), NEW i \in chosen
  PROVE  \E j \in chosen : Foremost(seq, chosen, j) /\ seq[j].ts = seq[i].ts
<1> DEFINE alike == {j \in chosen : seq[j].ts = seq[i].ts}
<1>1. i \in alike /\ alike \subseteq 1 .. m
  OBVIOUS
<1>2. \A j : j \in alike <=> j \in chosen /\ seq[j].ts = seq[i].ts
  OBVIOUS
<1> HIDE DEF alike
<1>3. alike # {} /\ alike \subseteq Nat
  BY <1>1
<1>4. \E j \in alike : \A k \in alike : ~Before(k, j)
  <2>1. CASE KeepFirst
    <3>1. PICK j \in alike : \A k \in alike : j <= k
      BY <1>3, LeastNatural, Zenon
    <3> QED
      BY <1>3, <2>1, <3>1 DEF Before
  <2>2. CASE ~KeepFirst
    <3>1. PICK j \in alike : \A k \in alike : k <= j
      BY <1>1, <1>3, LargestIn
    <3> QED
      BY <1>3, <2>2, <3>1 DEF Before
  <2> QED
    BY <2>1, <2>2
<1>5. PICK j \in alike : \A k \in alike : ~Before(k, j)
  BY <1>4
<1> QED
  BY <1>2, <1>5 DEF Foremost

\* The good ones among the first m snapshots that stay, and that they are kept.
GoodAt(snapshots, m) == {i \in 1 .. m : Good(snapshots[i])}
Stays(snapshots, m, i) == Foremost(snapshots, GoodAt(snapshots, m), i)
AreThose(kept, snapshots, m) ==
  /\ \A k \in DOMAIN kept : \E i \in 1 .. m : Stays(snapshots, m, i) /\ kept[k] = snapshots[i]
  /\ \A i \in 1 .. m : Stays(snapshots, m, i) => \E k \in DOMAIN kept : kept[k] = snapshots[i]

LEMMA OneStays ==
  ASSUME NEW snapshots, NEW m \in Nat, NEW i \in 1 .. m, Good(snapshots[i])
  PROVE  \E j \in 1 .. m : Stays(snapshots, m, j) /\ snapshots[j].ts = snapshots[i].ts
<1>1. GoodAt(snapshots, m) \in SUBSET (1 .. m) /\ i \in GoodAt(snapshots, m)
  BY DEF GoodAt
<1>2. PICK j \in GoodAt(snapshots, m) : Foremost(snapshots, GoodAt(snapshots, m), j) /\ snapshots[j].ts = snapshots[i].ts
  BY <1>1, ForemostOne
<1> QED
  BY <1>1, <1>2 DEF Stays

LEMMA MergedThose ==
  ASSUME NEW S, NEW snapshots \in Seq(S), NEW k \in 1 .. Len(snapshots), NEW kept \in Seq(S),
         AreThose(kept, snapshots, k - 1)
  PROVE  AreThose(Merged(kept, snapshots[k]), snapshots, k)
<1> DEFINE s == snapshots[k]
           same == {i \in DOMAIN kept : kept[i].ts = s.ts}
           placed == [i \in DOMAIN kept |-> IF i \in same /\ ~KeepFirst THEN s ELSE kept[i]]
           more == Merged(kept, s)
<1>1. Len(snapshots) \in Nat /\ k \in Nat /\ k - 1 \in Nat /\ s \in S /\ (\A i \in 1 .. k : i = k \/ i \in 1 .. k - 1)
      /\ (\A i \in 1 .. k - 1 : i \in 1 .. k /\ i < k /\ ~(k < i) /\ i # k) /\ k \in 1 .. k
  BY LenProperties, ElementOfSeq
<1>2. Len(kept) \in Nat /\ DOMAIN kept = 1 .. Len(kept)
  BY LenProperties
<1>3. more = IF Good(s) THEN IF same = {} THEN Append(kept, s) ELSE placed ELSE kept
  BY Zenon DEF Merged, Good
<1>4. \A i \in DOMAIN kept : i \in same <=> kept[i].ts = s.ts
  OBVIOUS
<1>5. DOMAIN placed = DOMAIN kept /\ \A i \in DOMAIN kept : placed[i] = IF i \in same /\ ~KeepFirst THEN s ELSE kept[i]
  OBVIOUS
<1>6. DOMAIN Append(kept, s) = 1 .. Len(kept) + 1 /\ Append(kept, s)[Len(kept) + 1] = s
      /\ \A i \in 1 .. Len(kept) : Append(kept, s)[i] = kept[i]
  BY <1>1, <1>2, AppendProperties
<1> HIDE DEF s, same, placed, more
<1>7. \A i \in 1 .. k - 1 : /\ Before(i, k) <=> KeepFirst
                            /\ Before(k, i) <=> ~KeepFirst
  BY <1>1 DEF Before
<1>8. ~Before(k, k)
  BY <1>1 DEF Before
<1>9. CASE ~Good(s)
  <2>1. \A i \in 1 .. k : Stays(snapshots, k, i) <=> i \in 1 .. k - 1 /\ Stays(snapshots, k - 1, i)
    BY <1>1, <1>9 DEF Stays, Foremost, GoodAt, s
  <2> QED
    BY <1>1, <1>3, <1>9, <2>1 DEF AreThose, more, s
<1>10. CASE Good(s) /\ same = {}
  <2>1. \A i \in 1 .. k - 1 : Stays(snapshots, k - 1, i) => snapshots[i].ts # s.ts
    BY <1>4, <1>10 DEF AreThose
  <2>2. \A i \in 1 .. k - 1 : Good(snapshots[i]) => snapshots[i].ts # s.ts
    BY <1>1, <2>1, OneStays
  <2>3. \A i \in 1 .. k - 1 : Stays(snapshots, k, i) <=> Stays(snapshots, k - 1, i)
    BY <1>1, <2>2 DEF Stays, Foremost, GoodAt, s
  <2>4. Stays(snapshots, k, k)
    BY <1>1, <1>8, <1>10, <2>2 DEF Stays, Foremost, GoodAt, s
  <2>5. more = Append(kept, s)
    BY <1>3, <1>10
  <2>6. ASSUME NEW j \in DOMAIN more
        PROVE  \E i \in 1 .. k : Stays(snapshots, k, i) /\ more[j] = snapshots[i]
    <3>1. CASE j = Len(kept) + 1
      BY <1>1, <1>6, <2>4, <2>5, <3>1 DEF s
    <3>2. CASE j # Len(kept) + 1
      <4>1. j \in DOMAIN kept /\ more[j] = kept[j]
        BY <1>2, <1>6, <2>5, <3>2
      <4>2. PICK i \in 1 .. k - 1 : Stays(snapshots, k - 1, i) /\ kept[j] = snapshots[i]
        BY <4>1 DEF AreThose
      <4> QED
        BY <1>1, <2>3, <4>1, <4>2
    <3> QED
      BY <3>1, <3>2
  <2>7. ASSUME NEW i \in 1 .. k, Stays(snapshots, k, i)
        PROVE  \E j \in DOMAIN more : more[j] = snapshots[i]
    <3>1. CASE i = k
      <4>1. Len(kept) + 1 \in DOMAIN more
        BY <1>2, <1>6, <2>5
      <4> QED
        BY <1>6, <2>5, <3>1, <4>1 DEF s
    <3>2. CASE i # k
      <4>1. i \in 1 .. k - 1 /\ Stays(snapshots, k - 1, i)
        BY <1>1, <2>3, <2>7, <3>2
      <4>2. PICK j \in DOMAIN kept : kept[j] = snapshots[i]
        BY <4>1 DEF AreThose
      <4>3. j \in DOMAIN more /\ more[j] = kept[j]
        BY <1>2, <1>6, <2>5
      <4> QED
        BY <4>2, <4>3
    <3> QED
      BY <3>1, <3>2
  <2> QED
    BY <2>6, <2>7 DEF AreThose, more, s
<1>11. CASE Good(s) /\ same # {} /\ KeepFirst
  <2>1. PICK l \in DOMAIN kept : kept[l].ts = s.ts
    BY <1>4, <1>11 DEF same
  <2>2. PICK h \in 1 .. k - 1 : Stays(snapshots, k - 1, h) /\ kept[l] = snapshots[h]
    BY <2>1 DEF AreThose
  <2>3. Good(snapshots[h]) /\ snapshots[h].ts = s.ts
    BY <2>1, <2>2 DEF Stays, Foremost, GoodAt
  <2>4. ~Stays(snapshots, k, k)
    BY <1>1, <1>7, <1>11, <2>3 DEF Stays, Foremost, GoodAt, s
  <2>5. \A i \in 1 .. k - 1 : Stays(snapshots, k, i) <=> Stays(snapshots, k - 1, i)
    BY <1>1, <1>7, <1>11 DEF Stays, Foremost, GoodAt
  <2>6. DOMAIN more = DOMAIN kept /\ \A j \in DOMAIN kept : more[j] = kept[j]
    BY <1>3, <1>5, <1>11
  <2>7. ASSUME NEW j \in DOMAIN more
        PROVE  \E i \in 1 .. k : Stays(snapshots, k, i) /\ more[j] = snapshots[i]
    <3>1. PICK i \in 1 .. k - 1 : Stays(snapshots, k - 1, i) /\ kept[j] = snapshots[i]
      BY <2>6 DEF AreThose
    <3> QED
      BY <1>1, <2>5, <2>6, <3>1
  <2>8. ASSUME NEW i \in 1 .. k, Stays(snapshots, k, i)
        PROVE  \E j \in DOMAIN more : more[j] = snapshots[i]
    <3>1. i \in 1 .. k - 1 /\ Stays(snapshots, k - 1, i)
      BY <1>1, <2>4, <2>5, <2>8
    <3> QED
      BY <2>6, <3>1 DEF AreThose
  <2> QED
    BY <2>7, <2>8 DEF AreThose, more, s
<1>12. CASE Good(s) /\ same # {} /\ ~KeepFirst
  <2>1. PICK l \in DOMAIN kept : l \in same
    BY <1>12 DEF same
  <2>2. Stays(snapshots, k, k)
    BY <1>1, <1>7, <1>8, <1>12 DEF Stays, Foremost, GoodAt, s
  <2>3. ASSUME NEW i \in 1 .. k - 1
        PROVE  Stays(snapshots, k, i) <=> Stays(snapshots, k - 1, i) /\ snapshots[i].ts # s.ts
    BY <1>1, <1>7, <1>12 DEF Stays, Foremost, GoodAt, s
  <2>4. DOMAIN more = DOMAIN kept /\ \A j \in DOMAIN kept : more[j] = IF j \in same THEN s ELSE kept[j]
    BY <1>3, <1>5, <1>12
  <2>5. ASSUME NEW j \in DOMAIN more
        PROVE  \E i \in 1 .. k : Stays(snapshots, k, i) /\ more[j] = snapshots[i]
    <3>1. CASE j \in same
      BY <1>1, <2>2, <2>4, <3>1 DEF s
    <3>2. CASE j \notin same
      <4>1. PICK i \in 1 .. k - 1 : Stays(snapshots, k - 1, i) /\ kept[j] = snapshots[i]
        BY <2>4 DEF AreThose
      <4>2. snapshots[i].ts # s.ts
        BY <1>4, <2>4, <3>2, <4>1
      <4> QED
        BY <1>1, <2>3, <2>4, <3>2, <4>1, <4>2
    <3> QED
      BY <3>1, <3>2
  <2>6. ASSUME NEW i \in 1 .. k, Stays(snapshots, k, i)
        PROVE  \E j \in DOMAIN more : more[j] = snapshots[i]
    <3>1. CASE i = k
      BY <2>1, <2>4, <3>1 DEF s
    <3>2. CASE i # k
      <4>1. i \in 1 .. k - 1 /\ Stays(snapshots, k - 1, i) /\ snapshots[i].ts # s.ts
        BY <1>1, <2>3, <2>6, <3>2
      <4>2. PICK j \in DOMAIN kept : kept[j] = snapshots[i]
        BY <4>1 DEF AreThose
      <4> QED
        BY <1>4, <2>4, <4>1, <4>2
    <3> QED
      BY <3>1, <3>2
  <2> QED
    BY <2>5, <2>6 DEF AreThose, more, s
<1> QED
  BY <1>9, <1>10, <1>11, <1>12

LEMMA DistinctThose ==
  ASSUME NEW S, NEW snapshots \in Seq(S)
  PROVE  Distinct(snapshots) \in Seq(S) /\ AreThose(Distinct(snapshots), snapshots, Len(snapshots))
<1> DEFINE n == Len(snapshots)
<1>1. PICK H : DistinctSteps(H, S, snapshots) /\ Distinct(snapshots) = H[n]
  BY DistinctTrace
<1>2. n \in Nat
  BY LenProperties
<1>3. H \in [0 .. n -> Seq(S)] /\ H[0] = <<>> /\ \A k \in 1 .. n : H[k] = Merged(H[k - 1], snapshots[k])
  BY <1>1 DEF DistinctSteps
<1> DEFINE Right == {k \in 0 .. n : AreThose(H[k], snapshots, k)}
<1>4. 0 \in Right
  <2>1. AreThose(<<>>, snapshots, 0)
    BY DEF AreThose
  <2> QED
    BY <1>2, <1>3, <2>1
<1>5. ASSUME NEW k \in 1 .. n, k - 1 \in Right
      PROVE  k \in Right
  <2>1. k - 1 \in 0 .. n /\ k \in 0 .. n
    BY <1>2
  <2>2. H[k - 1] \in Seq(S) /\ AreThose(H[k - 1], snapshots, k - 1)
    BY <1>3, <1>5, <2>1
  <2>3. AreThose(Merged(H[k - 1], snapshots[k]), snapshots, k)
    BY <2>2, MergedThose
  <2> QED
    BY <1>3, <2>1, <2>3
<1> HIDE DEF Right, n
<1>6. \A k \in 0 .. n : k \in Right
  BY <1>2, <1>4, <1>5, UpTo
<1>7. n \in 0 .. n /\ n \in Right
  BY <1>2, <1>6
<1> QED
  BY <1>1, <1>3, <1>7 DEF Right, n

\* The rows of a day without negative volumes, and those clean can use.
Fixed(raw)  == [i \in DOMAIN raw |-> FixNegativeVolumes(raw[i])]
FitAt(rows) == {i \in DOMAIN rows : Fit(rows[i])}
Survives(raw, i) == Foremost(Fixed(raw), FitAt(Fixed(raw)), i)

LEMMA FixedRows ==
  ASSUME NEW raw \in Seq(DayRow({NoTrade}))
  PROVE  /\ Fixed(raw) \in Seq(DayRow({NoTrade})) /\ Len(raw) \in Nat
         /\ DOMAIN raw = 1 .. Len(raw) /\ DOMAIN Fixed(raw) = 1 .. Len(raw) /\ Len(Fixed(raw)) = Len(raw)
         /\ \A i \in 1 .. Len(raw) : /\ raw[i] \in DayRow({NoTrade}) /\ Fixed(raw)[i] = FixNegativeVolumes(raw[i])
                                     /\ Fixed(raw)[i].ts = raw[i].ts
<1> DEFINE R == DayRow({NoTrade})
           fixed == Fixed(raw)
<1>1. Len(raw) \in Nat /\ DOMAIN raw = 1 .. Len(raw) /\ \A i \in 1 .. Len(raw) : raw[i] \in R
  BY LenProperties, ElementOfSeq
<1>2. fixed = [i \in 1 .. Len(raw) |-> fixed[i]] /\ \A i \in 1 .. Len(raw) : fixed[i] = FixNegativeVolumes(raw[i])
  BY <1>1 DEF Fixed
<1>3. \A i \in 1 .. Len(raw) : FixNegativeVolumes(raw[i]) \in R /\ FixNegativeVolumes(raw[i]).ts = raw[i].ts
  BY <1>1, FixedRow
<1> HIDE DEF fixed, R
<1>4. fixed \in Seq(R) /\ DOMAIN fixed = 1 .. Len(raw) /\ Len(fixed) = Len(raw)
  <2>1. fixed \in Seq(R) /\ DOMAIN fixed = 1 .. Len(raw)
    BY <1>1, <1>2, <1>3, SequenceOf
  <2>2. Len(fixed) \in Nat /\ DOMAIN fixed = 1 .. Len(fixed)
    BY <2>1, LenProperties
  <2> QED
    BY <1>1, <2>1, <2>2
<1> QED
  BY <1>1, <1>2, <1>3, <1>4 DEF fixed, R

\* clean's rows before it looks for outliers: of each time the one that stays.
AreChosen(single, raw) ==
  /\ \A k \in DOMAIN single : \E i \in 1 .. Len(raw) : Survives(raw, i) /\ single[k] = Fixed(raw)[i]
  /\ \A i \in 1 .. Len(raw) : Survives(raw, i) => \E k \in DOMAIN single : single[k] = Fixed(raw)[i]

LEMMA SingleChosen ==
  ASSUME NEW raw \in Seq(DayRow({NoTrade}))
  PROVE  Dedup(Usable(raw)) \in Seq(DayRow({NoTrade})) /\ AreChosen(Dedup(Usable(raw)), raw)
<1> DEFINE R == DayRow({NoTrade})
           n == Len(raw)
           fixed  == Fixed(raw)
           fit    == FitAt(fixed)
           usable == At(fixed, fit)
           once   == {h \in DOMAIN usable : ~ \E g \in DOMAIN usable : usable[g].ts = usable[h].ts /\ Before(g, h)}
           single == At(usable, once)
<1>1. Usable(raw) = usable
  BY Zenon DEF Usable, Fixed, FitAt, Fit
<1>2. Dedup(Usable(raw)) = single
  BY <1>1, Zenon DEF Dedup, Before
<1>3. fixed \in Seq(R) /\ n \in Nat /\ DOMAIN fixed = 1 .. n /\ Len(fixed) = n
  BY FixedRows
<1> HIDE DEF R, n, fixed
<1>4. fit \subseteq 1 .. n
  BY <1>3 DEF FitAt
<1> HIDE DEF fit
<1>5. PICK place : Places(fixed, n, fit, usable, place)
  BY <1>3, AtPlaces
<1>6. usable \in Seq(R)
  BY <1>3, AtTyped
<1>7. DOMAIN usable = 1 .. Len(usable) /\ Len(usable) \in Nat
  BY <1>6, LenProperties
<1> HIDE DEF usable
<1>8. \A h \in DOMAIN usable : place[h] \in 1 .. n /\ place[h] \in fit /\ usable[h] = fixed[place[h]]
  BY <1>5, <1>7 DEF Places
<1>9. \A g, h \in DOMAIN usable : g < h => place[g] < place[h]
  BY <1>5, <1>7 DEF Places
<1>10. \A i \in fit : \E h \in DOMAIN usable : place[h] = i
  BY <1>4, <1>5, <1>7 DEF Places
<1>11. \A g, h \in DOMAIN usable : Before(g, h) <=> Before(place[g], place[h])
  BY <1>3, <1>7, <1>8, <1>9 DEF Before
<1>12. \A h \in DOMAIN usable : h \in once <=> Foremost(fixed, fit, place[h])
  <2>1. \A h \in DOMAIN usable : h \in once <=> ~ \E g \in DOMAIN usable : usable[g].ts = usable[h].ts /\ Before(g, h)
    OBVIOUS
  <2> HIDE DEF once
  <2>2. ASSUME NEW h \in DOMAIN usable, h \in once
        PROVE  Foremost(fixed, fit, place[h])
    <3>1. ASSUME NEW j \in fit, fixed[j].ts = fixed[place[h]].ts
          PROVE  ~Before(j, place[h])
      <4>1. PICK g \in DOMAIN usable : place[g] = j
        BY <1>10
      <4>2. usable[g].ts = usable[h].ts
        BY <1>8, <3>1, <4>1
      <4> QED
        BY <1>11, <2>1, <2>2, <4>1, <4>2
    <3> QED
      BY <1>8, <3>1 DEF Foremost
  <2>3. ASSUME NEW h \in DOMAIN usable, Foremost(fixed, fit, place[h])
        PROVE  h \in once
    <3>1. ASSUME NEW g \in DOMAIN usable, usable[g].ts = usable[h].ts
          PROVE  ~Before(g, h)
      <4>1. place[g] \in fit /\ fixed[place[g]].ts = fixed[place[h]].ts
        BY <1>8, <3>1
      <4> QED
        BY <1>11, <2>3, <4>1 DEF Foremost
    <3> QED
      BY <2>1, <3>1
  <2> QED
    BY <2>2, <2>3
<1> HIDE DEF once
<1>13. single \in Seq(R) /\ \A k \in DOMAIN single : \E h \in DOMAIN usable : h \in once /\ single[k] = usable[h]
  BY <1>6, AtFrom
<1>14. \A h \in DOMAIN usable : h \in once => \E k \in DOMAIN single : single[k] = usable[h]
  <2>1. DOMAIN single = 1 .. Len(single)
    BY <1>13, LenProperties
  <2> QED
    BY <1>6, <1>7, <2>1, AtMembers
<1> HIDE DEF single
<1>15. ASSUME NEW k \in DOMAIN single
       PROVE  \E i \in 1 .. n : Foremost(fixed, fit, i) /\ single[k] = fixed[i]
  <2>1. PICK h \in DOMAIN usable : h \in once /\ single[k] = usable[h]
    BY <1>13
  <2> QED
    BY <1>8, <1>12, <2>1
<1>16. ASSUME NEW i \in 1 .. n, Foremost(fixed, fit, i)
       PROVE  \E k \in DOMAIN single : single[k] = fixed[i]
  <2>1. i \in fit
    BY <1>16 DEF Foremost
  <2>2. PICK h \in DOMAIN usable : place[h] = i
    BY <1>10, <2>1
  <2> QED
    BY <1>8, <1>12, <1>14, <1>16, <2>2
<1>17. AreChosen(single, raw)
  BY <1>15, <1>16 DEF AreChosen, Survives, n, fixed, fit
<1> QED
  BY <1>2, <1>13, <1>17 DEF R

\* What is left then: no outlier, and not wide.
LEMMA CleanLeaves ==
  ASSUME NEW raw \in Seq(DayRow({NoTrade}))
  PROVE  LET single == Dedup(Usable(raw)) IN
         \A r : r \in ToSet(Clean(raw)) <=>
           \E k \in DOMAIN single : k \notin TagOutliers(single) /\ ~Wide(single[k]) /\ r = single[k]
<1> DEFINE R == DayRow({NoTrade})
           single == Dedup(Usable(raw))
           usual  == DOMAIN single \ TagOutliers(single)
           normal == At(single, usual)
           narrow == {i \in DOMAIN normal : ~Wide(normal[i])}
           clean  == At(normal, narrow)
<1>1. Clean(raw) = clean
  BY Zenon DEF Clean
<1>2. single \in Seq(R)
  BY SingleChosen
<1>3. \A k \in DOMAIN single : k \in usual <=> k \notin TagOutliers(single)
  OBVIOUS
<1> HIDE DEF R, single, usual
<1>4. normal \in Seq(R) /\ \A h \in DOMAIN normal : \E k \in DOMAIN single : k \in usual /\ normal[h] = single[k]
  BY <1>2, AtFrom
<1>5. \A k \in DOMAIN single : k \in usual => \E h \in DOMAIN normal : normal[h] = single[k]
  <2>1. DOMAIN normal = 1 .. Len(normal) /\ DOMAIN single = 1 .. Len(single)
    BY <1>2, <1>4, LenProperties
  <2> QED
    BY <1>2, <2>1, AtMembers
<1>6. \A h \in DOMAIN normal : h \in narrow <=> ~Wide(normal[h])
  OBVIOUS
<1> HIDE DEF normal, narrow
<1>7. clean \in Seq(R) /\ \A h \in DOMAIN clean : \E k \in DOMAIN normal : k \in narrow /\ clean[h] = normal[k]
  BY <1>4, AtFrom
<1>8. \A k \in DOMAIN normal : k \in narrow => \E h \in DOMAIN clean : clean[h] = normal[k]
  <2>1. DOMAIN clean = 1 .. Len(clean) /\ DOMAIN normal = 1 .. Len(normal)
    BY <1>4, <1>7, LenProperties
  <2>2. normal \in Seq(R)
    BY <1>4
  <2> QED
    BY <2>1, <2>2, AtMembers
<1> HIDE DEF clean
<1>9. ASSUME NEW r
      PROVE  r \in ToSet(clean) <=> \E k \in DOMAIN single : k \notin TagOutliers(single) /\ ~Wide(single[k]) /\ r = single[k]
  <2>1. ASSUME r \in ToSet(clean)
        PROVE  \E k \in DOMAIN single : k \notin TagOutliers(single) /\ ~Wide(single[k]) /\ r = single[k]
    <3>1. PICK l \in DOMAIN clean : r = clean[l]
      BY <2>1 DEF ToSet
    <3>2. PICK h \in DOMAIN normal : h \in narrow /\ clean[l] = normal[h]
      BY <1>7
    <3>3. PICK k \in DOMAIN single : k \in usual /\ normal[h] = single[k]
      BY <1>4
    <3> QED
      BY <1>3, <1>6, <3>1, <3>2, <3>3
  <2>2. ASSUME NEW k \in DOMAIN single, k \notin TagOutliers(single), ~Wide(single[k]), r = single[k]
        PROVE  r \in ToSet(clean)
    <3>1. PICK h \in DOMAIN normal : normal[h] = single[k]
      BY <1>3, <1>5, <2>2
    <3>2. PICK l \in DOMAIN clean : clean[l] = normal[h]
      BY <1>6, <1>8, <2>2, <3>1
    <3> QED
      BY <2>2, <3>1, <3>2 DEF ToSet
  <2> QED
    BY <2>1, <2>2
<1> QED
  BY <1>1, <1>9 DEF single

\* The snapshots of a day.
Snapshots(raw) == [i \in DOMAIN raw |-> SnapshotOf(raw[i])]

LEMMA SnapshotsOfDay ==
  ASSUME NEW raw \in Seq(DayRow({NoTrade}))
  PROVE  LET snapshots == Snapshots(raw) IN
         /\ snapshots \in Seq(ToSet(snapshots)) /\ Len(snapshots) = Len(raw)
         /\ \A i \in 1 .. Len(raw) : /\ snapshots[i] = SnapshotOf(raw[i]) /\ snapshots[i].ts = raw[i].ts
                                     /\ SnapshotOf(Fixed(raw)[i]) = snapshots[i]
<1> DEFINE snapshots == Snapshots(raw)
           n == Len(raw)
<1>1. n \in Nat /\ DOMAIN raw = 1 .. n /\ \A i \in 1 .. n : raw[i] \in DayRow({NoTrade}) /\ Fixed(raw)[i] = FixNegativeVolumes(raw[i])
  BY FixedRows
<1>2. \A i \in 1 .. n : SnapshotOf(raw[i]).ts = raw[i].ts /\ SnapshotOf(Fixed(raw)[i]) = SnapshotOf(raw[i])
  BY <1>1, SnapshotParts, SnapshotOfFixed
<1>3. snapshots = [i \in 1 .. n |-> snapshots[i]] /\ DOMAIN snapshots = 1 .. n
      /\ \A i \in 1 .. n : snapshots[i] = SnapshotOf(raw[i])
  BY <1>1 DEF Snapshots
<1> HIDE DEF snapshots, n
<1>4. \A i \in 1 .. n : snapshots[i] \in ToSet(snapshots)
  BY <1>3 DEF ToSet
<1>5. snapshots \in Seq(ToSet(snapshots))
  BY <1>1, <1>3, <1>4, SequenceOf
<1>6. Len(snapshots) = n
  <2>1. Len(snapshots) \in Nat /\ DOMAIN snapshots = 1 .. Len(snapshots)
    BY <1>5, LenProperties
  <2> QED
    BY <1>1, <1>3, <2>1
<1> QED
  BY <1>2, <1>3, <1>5, <1>6 DEF snapshots, n

\* The rows of the day, padded as the feed pads them.
CleanersInv == day.raw \in Seq(PaddedRows(DayRow({NoTrade})))

LEMMA CleanersMeant ==
  ASSUME SpreadLimited, CleanersInv
  PROVE  CleanersAgree
<1> DEFINE R == DayRow({NoTrade})
           raw == day.raw
           n == Len(raw)
           fixed == Fixed(raw)
           fit == FitAt(fixed)
           single == Dedup(Usable(raw))
           snapshots == Snapshots(raw)
           some == Distinct(snapshots)
           kept == {SnapshotOf(r) : r \in ToSet(Clean(raw))}
<1>1. n \in Nat /\ DOMAIN raw = 1 .. n /\ raw \in Seq(R) /\ \A i \in 1 .. n : raw[i] \in PaddedRows(R)
  <2>1. raw \in Seq(PaddedRows(R))
    BY DEF CleanersInv
  <2>2. n \in Nat /\ DOMAIN raw = 1 .. n /\ raw = [i \in 1 .. n |-> raw[i]] /\ \A i \in 1 .. n : raw[i] \in PaddedRows(R)
    BY <2>1, LenProperties, ElementOfSeq
  <2>3. \A i \in 1 .. n : raw[i] \in R
    BY <2>2 DEF PaddedRows
  <2>4. raw \in Seq(R)
    BY <2>2, <2>3, SequenceOf
  <2> QED
    BY <2>2, <2>4
<1>2. single \in Seq(R) /\ AreChosen(single, raw)
  BY <1>1, SingleChosen
<1>3. \A r : r \in ToSet(Clean(raw)) <=>
           \E k \in DOMAIN single : k \notin TagOutliers(single) /\ ~Wide(single[k]) /\ r = single[k]
  BY <1>1, CleanLeaves
<1>4. /\ snapshots \in Seq(ToSet(snapshots)) /\ Len(snapshots) = n
      /\ \A i \in 1 .. n : /\ snapshots[i] = SnapshotOf(raw[i]) /\ snapshots[i].ts = raw[i].ts
                           /\ SnapshotOf(fixed[i]) = snapshots[i]
  BY <1>1, SnapshotsOfDay
<1>5. DOMAIN fixed = 1 .. n
      /\ \A i \in 1 .. n : fixed[i] = FixNegativeVolumes(raw[i]) /\ fixed[i].ts = snapshots[i].ts
  BY <1>1, <1>4, FixedRows
<1>6. some \in Seq(ToSet(snapshots)) /\ AreThose(some, snapshots, n)
  BY <1>4, DistinctThose
<1>7. \A i \in 1 .. n : /\ Good(snapshots[i]) => Fit(fixed[i])
                        /\ Fit(fixed[i]) /\ ~Wide(fixed[i]) => Good(snapshots[i])
  BY <1>1, <1>4, <1>5, JudgedAlike DEF PaddedRows
<1>8. CleanersAgree <=>
        /\ kept \subseteq ToSet(some)
        /\ \A s \in ToSet(some) \ kept :
             \E i \in DOMAIN single : single[i].ts = s.ts /\ (Wide(single[i]) \/ i \in TagOutliers(single))
        /\ ToSet(CleanSnapshots(snapshots)) \subseteq ToSet(some)
  BY Zenon DEF CleanersAgree, Snapshots
<1>9. \A s : s \in kept <=> \E r \in ToSet(Clean(raw)) : s = SnapshotOf(r)
  OBVIOUS
<1> HIDE DEF R, raw, n, fixed, single, snapshots, some, kept
<1>10. fit \subseteq 1 .. n /\ \A i \in 1 .. n : i \in fit <=> Fit(fixed[i])
  BY <1>5 DEF FitAt
<1>11. \A i : Survives(raw, i) <=> Foremost(fixed, fit, i)
  BY DEF Survives, fixed
<1> HIDE DEF fit
<1>12. \A i \in 1 .. n : Stays(snapshots, n, i) <=>
          Good(snapshots[i]) /\ \A j \in 1 .. n : Good(snapshots[j]) /\ snapshots[j].ts = snapshots[i].ts => ~Before(j, i)
  BY DEF Stays, Foremost, GoodAt
<1>13. \A i \in 1 .. n : Foremost(fixed, fit, i) <=>
          Fit(fixed[i]) /\ \A j \in 1 .. n : Fit(fixed[j]) /\ snapshots[j].ts = snapshots[i].ts => ~Before(j, i)
  BY <1>5, <1>10 DEF Foremost
<1>14. kept \subseteq ToSet(some)
  <2> SUFFICES ASSUME NEW s \in kept
               PROVE  s \in ToSet(some)
    OBVIOUS
  <2>1. PICK r \in ToSet(Clean(raw)) : s = SnapshotOf(r)
    BY <1>9
  <2>2. PICK k \in DOMAIN single : ~Wide(single[k]) /\ r = single[k]
    BY <1>3
  <2>3. PICK i \in 1 .. n : Foremost(fixed, fit, i) /\ single[k] = fixed[i]
    BY <1>2, <1>11 DEF AreChosen, n, fixed
  <2>4. s = snapshots[i] /\ ~Wide(fixed[i])
    BY <1>4, <2>1, <2>2, <2>3
  <2>5. Stays(snapshots, n, i)
    BY <1>7, <1>12, <1>13, <2>3, <2>4
  <2>6. PICK l \in DOMAIN some : some[l] = snapshots[i]
    BY <1>6, <2>5 DEF AreThose
  <2> QED
    BY <2>4, <2>6 DEF ToSet
<1>15. ASSUME NEW s \in ToSet(some) \ kept
       PROVE  \E k \in DOMAIN single : single[k].ts = s.ts /\ (Wide(single[k]) \/ k \in TagOutliers(single))
  <2>1. PICK l \in DOMAIN some : s = some[l]
    BY DEF ToSet
  <2>2. PICK i \in 1 .. n : Stays(snapshots, n, i) /\ s = snapshots[i]
    BY <1>6, <2>1 DEF AreThose
  <2>3. i \in fit
    BY <1>7, <1>10, <1>12, <2>2
  <2>4. PICK j \in fit : Foremost(fixed, fit, j) /\ fixed[j].ts = fixed[i].ts
    BY <1>1, <1>10, <2>3, ForemostOne
  <2>5. j \in 1 .. n /\ snapshots[j].ts = snapshots[i].ts
    BY <1>5, <1>10, <2>4
  <2>6. PICK k \in DOMAIN single : single[k] = fixed[j]
    BY <1>2, <1>11, <2>4, <2>5 DEF AreChosen, n, fixed
  <2>7. single[k].ts = s.ts
    BY <1>5, <2>2, <2>5, <2>6
  <2>8. ASSUME ~Wide(single[k]), k \notin TagOutliers(single)
        PROVE  FALSE
    <3>1. Good(snapshots[j])
      BY <1>7, <1>10, <2>4, <2>5, <2>6, <2>8
    <3>2. ~Before(j, i) /\ ~Before(i, j)
      BY <1>10, <1>12, <1>13, <2>2, <2>3, <2>4, <2>5, <3>1
    <3>3. i = j
      BY <1>1, <2>5, <3>2 DEF Before
    <3>4. single[k] \in ToSet(Clean(raw))
      BY <1>3, <2>8
    <3>5. SnapshotOf(single[k]) = s
      BY <1>4, <2>2, <2>6, <3>3
    <3> QED
      BY <1>9, <3>4, <3>5
  <2> QED
    BY <2>7, <2>8
<1>16. ToSet(CleanSnapshots(snapshots)) \subseteq ToSet(some)
  <2> DEFINE usual == {i \in DOMAIN some : ~Far(some, i, DOMAIN some, 0)}
  <2>1. CleanSnapshots(snapshots) = IF Len(some) <= SnapshotsForOutliers THEN some ELSE At(some, usual)
    BY Zenon DEF CleanSnapshots, some
  <2> HIDE DEF usual
  <2>2. ToSet(At(some, usual)) \subseteq ToSet(some)
    BY <1>6, AtFrom
  <2> QED
    BY <2>1, <2>2
<1> QED
  BY <1>8, <1>14, <1>15, <1>16

\* Every file holds rows as the feed pads them.
RowsArePadded ==
  \A d \in DOMAIN Days : Days[d] \subseteq Frames(PaddedRows(RawRow))

LEMMA CleanersInit == Init => CleanersInv
<1>1. << >> \in Seq(PaddedRows(DayRow({NoTrade})))
  BY EmptySeq
<1> QED
  BY <1>1 DEF Init, NoDay, CleanersInv

LEMMA CleanersLoad ==
  ASSUME RowsArePadded, IsRange(range), LoadDay
  PROVE  CleanersInv'
<1>1. range.dates # {} /\ range.dates \subseteq DOMAIN Days
  BY Zenon DEF LoadDay, IsRange
<1>2. NextDate \in DOMAIN Days
  <2>1. range.dates \subseteq Nat
    <3>1. DOMAIN Days \subseteq Nat
      BY DataLayerAssumption, LenProperties
    <3> QED
      BY <1>1, <3>1
  <2>2. PICK d \in range.dates : \A e \in range.dates : d <= e
    BY <1>1, <2>1, LeastNatural
  <2>3. NextDate \in range.dates
    BY <2>2, Zenon DEF NextDate
  <2> QED
    BY <1>1, <2>3
<1>3. \E files \in Days[NextDate] : \E readable : \E raw \in LoadRawCsv(files, readable) : \E trades :
        day' = [date |-> NextDate, raw |-> raw, trades |-> trades, rows |-> WorkingRows(raw, trades, range.freq)]
  BY Zenon DEF LoadDay
<1>4. PICK files \in Days[NextDate] : \E readable : \E raw \in LoadRawCsv(files, readable) : \E trades :
        day' = [date |-> NextDate, raw |-> raw, trades |-> trades, rows |-> WorkingRows(raw, trades, range.freq)]
  BY <1>3
<1>5. PICK readable : \E raw \in LoadRawCsv(files, readable) : \E trades :
        day' = [date |-> NextDate, raw |-> raw, trades |-> trades, rows |-> WorkingRows(raw, trades, range.freq)]
  BY <1>4
<1>6. PICK raw \in LoadRawCsv(files, readable) : \E trades :
        day' = [date |-> NextDate, raw |-> raw, trades |-> trades, rows |-> WorkingRows(raw, trades, range.freq)]
  BY <1>5
<1>7. day'.raw = raw
  BY <1>6
<1>8. files \in Frames(PaddedRows(RawRow))
  BY <1>2, <1>4 DEF RowsArePadded
<1>9. Become(PaddedRows(RawRow), PaddedRows(DayRow({NoTrade})))
  <2>1. PaddedRows(RawRow) \subseteq RawRow
    BY DEF PaddedRows
  <2>2. ASSUME NEW r \in PaddedRows(RawRow), NEW ts \in Nat
        PROVE  ReadRow(r, ts) \in PaddedRows(DayRow({NoTrade}))
    <3>1. r \in RawRow /\ PaddedSide(r.bids) /\ PaddedSide(r.asks)
      BY DEF PaddedRows
    <3>2. ReadRow(r, ts) \in DayRow({NoTrade}) /\ ReadRow(r, ts).bids = r.bids /\ ReadRow(r, ts).asks = r.asks
      BY <3>1 DEF RawRow, DayRow, ReadRow
    <3> QED
      BY <3>1, <3>2 DEF PaddedRows
  <2> QED
    BY <2>1, <2>2 DEF Become
<1>10. raw \in Seq(PaddedRows(DayRow({NoTrade})))
  BY <1>6, <1>8, <1>9, LoadedFrom
<1> QED
  BY <1>7, <1>10 DEF CleanersInv

LEMMA CleanersStep ==
  ASSUME RowsArePadded, IsRange(range), CleanersInv, [Next]_vars
  PROVE  CleanersInv'
<1>1. CASE LoadDay
  BY <1>1, CleanersLoad
<1>2. CASE EndDay
  <2>1. day' = NoDay
    BY <1>2, Zenon DEF EndDay
  <2>2. << >> \in Seq(PaddedRows(DayRow({NoTrade})))
    BY EmptySeq
  <2> QED
    BY <2>1, <2>2 DEF NoDay, CleanersInv
<1>3. CASE BuildState \/ Ended \/ UNCHANGED vars
  <2>1. day' = day
    BY <1>3, Zenon DEF BuildState, Ended, vars
  <2> QED
    BY <2>1 DEF CleanersInv
<1> QED
  BY <1>1, <1>2, <1>3 DEF Next

\* Where the feed pads a side only behind its priced levels, and with less than
\* the depth that is asked for, the two cleaners differ on a day by outliers and
\* by times whose surviving row is too wide, and by nothing else.
\* (DataCleaner.clean, clean_snapshots)
THEOREM CleanersAlwaysAgree ==
  ASSUME SpreadLimited, RowsArePadded
  PROVE  Spec => []CleanersAgree
<1>1. Init => StatesInv /\ CleanersInv
  BY StatesInit, CleanersInit
<1>2. StatesInv /\ CleanersInv /\ [Next]_vars => (StatesInv /\ CleanersInv)'
  <2>1. StatesInv => IsRange(range)
    BY DEF StatesInv
  <2> QED
    BY <2>1, StatesStep, CleanersStep
<1>3. StatesInv /\ CleanersInv => CleanersAgree
  BY CleanersMeant
<1> QED
  BY <1>1, <1>2, <1>3, PTL DEF Spec
=============================================================================
