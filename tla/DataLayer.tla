----------------------------- MODULE DataLayer ------------------------------
(***************************************************************************)
(* How market states come into being: DataIngester finds the days of a     *)
(* symbol and reads one, MarketStateBuilder cleans it, joins the trades,   *)
(* resamples, flags and classifies its rows, and turns row after row into  *)
(* a MarketState.  One builder, with one feature pipeline, serves all days *)
(* of a range.  The pipeline's MicroEventHandler is shown each state when  *)
(* it is built, which is the order in which it sees them all.              *)
(*                                                                         *)
(* A day is a sequence of files, a file a sequence of rows [recv, clock,   *)
(* bids, asks]: the receive time, or Unread when it cannot be parsed, and  *)
(* the exchange's own clock.                                               *)
(***************************************************************************)
EXTENDS Synchronizing, TLC

CONSTANTS
  Days,                 \* Days[d] is the set of days that date d may hold
  HolidayDates,         \* dates that are no trading days
  Trades,               \* trades of a day, in any order; <<>>: none are given
  Freqs,                \* resampling intervals, 0 for none
  Lookback,             \* trade_lookback
  PreOpen, RegularOpen, RegularClose, PostClose,
  ImpactShares, TradeWindow, LongWindow, DeltaLag,
  SpreadMultiplier, DepthDivisor

FP == INSTANCE Features
ME == INSTANCE MicroEvents

Unread == -1
Levels == Seq(Level) \ {<<>>}
RawRow == [recv : Nat \cup {Unread}, clock : Nat, bids : Levels, asks : Levels]

ASSUME DataLayerAssumption ==
  /\ Days \in Seq(SUBSET Seq(Seq(RawRow))) /\ Trades \subseteq Seq(Trade)
  /\ Freqs \subseteq Nat /\ Lookback \in Nat /\ HolidayDates \subseteq DOMAIN Days
  /\ {SpreadMultiplier, DepthDivisor} \subseteq Nat \ {0}
  /\ {ImpactShares, DeltaLag} \subseteq Nat /\ TradeWindow \in Nat \ {0} /\ LongWindow \in Nat /\ LongWindow >= TradeWindow
  /\ {PreOpen, RegularOpen, RegularClose, PostClose} \subseteq Nat
  /\ PreOpen < RegularOpen /\ RegularOpen < RegularClose /\ RegularClose < PostClose

VARIABLES
  range,    \* [dates, layout, freq, any]: dates still to build, resampling interval, any state yet
  day,      \* the day being built: [date, raw, rows, trades], or NoDay
  next,     \* index of the row to turn into a state
  states,   \* states of this day
  pipe,     \* the builder's FeaturePipeline
  watch,    \* [handler, prev, events]: MicroEventHandler, the state before, its events
  outcome   \* "loading", "building", "states", "no states" or "KeyError"

vars == << range, day, next, states, pipe, watch, outcome >>

NoDay == [date |-> 0, raw |-> <<>>, rows |-> <<>>, trades |-> <<>>]

-----------------------------------------------------------------------------
(* DataIngester *)

\* _detect_layout, from the kinds of directories there are: one that is named
\* after a date decides, and then those named after a symbol are not looked at.
DetectLayout(kinds) == IF "date" \in kinds THEN "date_symbol_file" ELSE "symbol_date"

\* list_dates: a date directory of the symbol counts even without a file in it,
\* one that all symbols share only with the symbol's file.
ListDates(layout, directories, files) ==
  IF layout = "symbol_date" THEN directories ELSE directories \cap files

\* _resolve_csv_paths
PathsPossible(layout, files) == layout = "date_symbol_file" => Len(files) = 1

\* select_dates: the dates of the range that are there.
SelectDates(available, from, to) == {d \in available : from <= d /\ d <= to}

\* _parse_timestamp: the clock serves only when no receive time can be read;
\* otherwise the rows without one are dropped.
Parsed(df) ==
  LET row(r, ts) == [ts |-> ts, bids |-> r.bids, asks |-> r.asks, trade |-> NoTrade, drift |-> FALSE]
      read == At(df, {i \in DOMAIN df : df[i].recv # Unread})
  IN IF read = <<>> THEN [i \in DOMAIN df |-> row(df[i], df[i].clock)]
     ELSE [i \in DOMAIN read |-> row(read[i], read[i].recv)]

\* sort_values leaves the order of equal times open.
InTimeOrder(df) ==
  {[i \in DOMAIN df |-> df[p[i]]] : p \in
     {q \in [DOMAIN df -> DOMAIN df] :
        \A i, j \in DOMAIN df : i < j => q[i] # q[j] /\ df[q[i]].ts <= df[q[j]].ts}}

\* load_raw_csv: a file that cannot be read is left out.
LoadRawCsv(files, readable) ==
  InTimeOrder(Parsed(FoldLeft(LAMBDA all, df : all \o df, <<>>, At(files, readable))))

-----------------------------------------------------------------------------
(* MarketCalendar *)

SessionType(date, ts) ==
  IF date \in HolidayDates THEN "closed"
  ELSE CASE PreOpen <= ts /\ ts < RegularOpen      -> "pre"
         [] RegularOpen <= ts /\ ts < RegularClose -> "regular"
         [] RegularClose <= ts /\ ts < PostClose   -> "post"
         [] OTHER                                  -> "closed"

\* build_session_mask
SessionMask(date, rows) ==
  [i \in DOMAIN rows |-> LET type == SessionType(date, rows[i].ts)
                         IN [type |-> type, tradable |-> type = "regular"]]

-----------------------------------------------------------------------------
(* MarketStateBuilder *)

\* _normalise_trades
NormaliseTrades(trades) == InTimeOrder(trades)

\* The rows of a day after cleaning, joining, resampling and flagging.
WorkingRows(raw, trades, freq) ==
  LET aligned == AlignTrades(Clean(raw), trades)
  IN FlagDrift(IF freq = 0 THEN aligned ELSE Resample(aligned, freq))

\* _slice_relevant_trades: the latest trades up to the time of the state, so a
\* trade stays with the states after it until enough newer ones have come.
RelevantTrades(trades, ts) ==
  FP!LatestOf(FP!Until(trades, ts), Lookback)

StateOf(row, mask, trades, features) ==
  [ts |-> row.ts, bids |-> row.bids, asks |-> row.asks, lastTrade |-> row.trade,
   trades |-> trades, session |-> mask.type, tradable |-> mask.tradable,
   drift |-> row.drift, features |-> features]

Init ==
  /\ \E kinds \in SUBSET {"date", "symbol"} \ {{}}, freq \in Freqs,
        directories, files \in SUBSET DOMAIN Days, from, to \in DOMAIN Days :
       LET layout == DetectLayout(kinds)
       IN range = [dates |-> SelectDates(ListDates(layout, directories, files), from, to),
                   layout |-> layout, freq |-> freq, any |-> FALSE]
  /\ range.dates # {}
  /\ day = NoDay /\ next = 0 /\ states = <<>> /\ pipe = FP!FreshPipe
  /\ watch = [handler |-> ME!FreshHandler, prev |-> <<>>, events |-> {}]
  /\ outcome = "loading"

NextDate == CHOOSE date \in range.dates : \A d \in range.dates : date <= d

\* load_raw_csv and build_from_dataframes up to the loop over the rows.  When
\* trades are given and cleaning leaves no row, the join returns a frame without
\* a timestamp column and the session mask raises a KeyError.
LoadDay ==
  /\ outcome = "loading" /\ range.dates # {}
  /\ \E files \in Days[NextDate], given \in Trades :
     /\ PathsPossible(range.layout, files)
     /\ \E readable \in SUBSET DOMAIN files :
        \E raw \in LoadRawCsv(files, readable), trades \in NormaliseTrades(given) :
          /\ day' = [date |-> NextDate, raw |-> raw, trades |-> trades,
                     rows |-> WorkingRows(raw, trades, range.freq)]
          /\ outcome' = IF raw # <<>> /\ Clean(raw) = <<>> /\ trades # <<>> THEN "KeyError"
                        ELSE "building"
  /\ range' = [range EXCEPT !.dates = @ \ {NextDate}]
  /\ pipe' = FP!ResetPipe(pipe)
  /\ next' = 1 /\ states' = <<>>
  /\ UNCHANGED watch

\* _process_micro_events: the very first state is compared with nothing.
Watched(w, s) ==
  LET events == IF w.prev = <<>> THEN {} ELSE ME!Events(w.handler, w.prev[1], s)
  IN [handler |-> ME!After(w.handler, events), prev |-> << s >>, events |-> events]

\* One row of the loop: a snapshot that is not valid gives no state.
BuildState ==
  /\ outcome = "building" /\ next \in DOMAIN day.rows
  /\ LET row    == day.rows[next]
         lob    == SnapshotOf(row)
         trades == RelevantTrades(day.trades, lob.ts)
         c      == FP!Computed(pipe, lob, trades)
     IN IF Valid(lob)
        THEN LET state == StateOf(lob, SessionMask(day.date, day.rows)[next], trades, c.features)
             IN /\ states' = Append(states, state)
                /\ pipe' = c.pipe
                /\ watch' = Watched(watch, state)
        ELSE UNCHANGED << states, pipe, watch >>
  /\ next' = next + 1
  /\ UNCHANGED << range, day, outcome >>

\* The next date, or the end of the range, which is an error without any state.
EndDay ==
  /\ outcome = "building" /\ next \notin DOMAIN day.rows
  /\ range' = [range EXCEPT !.any = @ \/ states # <<>>]
  /\ outcome' = IF range.dates # {} THEN "loading" ELSE IF range'.any THEN "states" ELSE "no states"
  /\ day' = NoDay /\ next' = 0 /\ states' = <<>>
  /\ UNCHANGED << pipe, watch >>

Ended == outcome \in {"states", "no states", "KeyError"} /\ UNCHANGED vars

Next == LoadDay \/ BuildState \/ EndDay \/ Ended

Spec == Init /\ [][Next]_vars

-----------------------------------------------------------------------------
Book(r) == << r.bids, r.asks >>
Within(t, ts, freq) == ts - MaxDrift <= t.ts /\ t.ts < ts + Greatest(1, freq)

\* The states of a day: one per time, in order, tradable in the regular session
\* only, each with the book of a row that was recorded at its time or, after
\* resampling, before the end of its bucket, so up to a bucket later than its
\* time.  None carries a trade of the future, and a trade only leaves them when
\* enough newer ones have come; the trade joined to a book is at most the
\* tolerance older.  A gap is flagged, and after resampling to more than the
\* tolerance every state but the first is, whatever the gaps.
\* (build_from_dataframes, _slice_relevant_trades, DataSynchronizer)
StatesAreFaithful ==
  LET freq == range.freq IN
  \A k \in DOMAIN states :
    LET s == states[k] IN
      /\ Valid(s) /\ ~Wide(s) /\ (k > 1 => states[k - 1].ts < s.ts)
      /\ s.tradable => day.date \notin HolidayDates /\ s.ts \in RegularOpen .. RegularClose - 1
      /\ \E r \in ToSet(day.raw) : /\ Book(SnapshotOf(r)) = Book(s)
                                   /\ IF freq = 0 THEN r.ts = s.ts ELSE r.ts < s.ts + freq
      /\ \A t \in ToSet(s.trades) : t.ts <= s.ts
      /\ \A t \in ToSet(day.trades) :
           t.ts <= s.ts => t \in ToSet(s.trades) \/ Len(s.trades) = Lookback
      /\ s.lastTrade # NoTrade =>
           \E t \in ToSet(day.trades) : /\ t.price = s.lastTrade.price /\ Within(t, s.ts, freq)
                                        /\ freq = 0 => t.volume = s.lastTrade.volume
      /\ s.drift => k > 1
      /\ freq > MaxDrift /\ k > 1 => s.drift

\* The two cleaners agree on a day: the rows clean keeps are snapshots that
\* clean_snapshots keeps before it looks for outliers, and it keeps all of
\* those but outliers and the times at which the row that survives the
\* duplicates is itself too wide, where clean_snapshots falls back on another.
\* (clean, clean_snapshots)
CleanersAgree ==
  LET snapshots == [i \in DOMAIN day.raw |-> SnapshotOf(day.raw[i])]
      distinct  == Distinct(snapshots)
      kept      == {SnapshotOf(r) : r \in ToSet(Clean(day.raw))}
      single    == Dedup(Usable(day.raw))
  IN /\ kept \subseteq ToSet(distinct)
     /\ \A s \in ToSet(distinct) \ kept :
          \E i \in DOMAIN single : single[i].ts = s.ts /\ (Wide(single[i]) \/ i \in TagOutliers(single))
     /\ ToSet(CleanSnapshots(snapshots)) \subseteq ToSet(distinct)

\* However many days the builder has built, the features of a day's states are
\* those a fresh pipeline gives for its snapshots with all trades up to each:
\* nothing of the day before is left in them, and the lookback does not cut
\* what they are computed from.
\* (FeaturePipeline.reset, compute, compute_batch, build_from_dataframes)
FeaturesAreOfTheDay ==
  Lookback >= LongWindow =>
    [k \in DOMAIN states |-> states[k].features] = FP!Batch(FP!FreshPipe, states, day.trades)

\* What stops the pipeline at a state: nothing but the session and an
\* interruption that this very state begins.  The interruption is on exactly
\* when the latest state of a regular session jumped against the one before it,
\* so the next calm one ends it however wide the book still is, and one left on
\* at the close stays on over night and hides a jump at the next open.  A halt
\* is on after every untradable state but the very first.
\* (MicroEventHandler.process, detect_vi, detect_halt, is_tradable)
BlocksAreExact ==
  states # <<>> =>
    LET s == Last(states)
        before == IF Len(states) = 1 THEN <<>> ELSE << states[Len(states) - 1] >>
        jumped == before # <<>> /\ ME!Shaken(before[1], s)
        lately == {k \in 2 .. Len(states) : states[k].tradable}
        latest == CHOOSE k \in lately : \A j \in lately : j <= k
    IN /\ ~ME!IsTradable(s, watch.events) => ~s.tradable \/ "vi" \in watch.events
       /\ "vi" \in watch.events => watch.handler.vi /\ s.tradable /\ (before # <<>> => jumped)
       /\ lately # {} => watch.handler.vi = ME!Shaken(states[latest - 1], states[latest])
       /\ s.tradable => ~watch.handler.halt
       /\ before # <<>> /\ ~s.tradable => watch.handler.halt
=============================================================================
