------------------------------ MODULE Cleaning ------------------------------
(***************************************************************************)
(* DataCleaner.  A row of the data frame is [ts, bids, asks], each side a  *)
(* sequence of [price, volume] in the order of the columns; a price column *)
(* may be 0 (no level) or Missing (NaN), an unreadable volume counts as 0. *)
(* A snapshot is a row without the levels that have no price.              *)
(***************************************************************************)
EXTENDS Rounding, Selections, SequencesExt

CONSTANTS
  MaxSpreadBps, MinDepth,
  OutlierSq,            \* outlier_zscore squared
  OutlierWindow,        \* rows of the rolling z-score
  SnapshotsForOutliers, \* clean_snapshots looks for outliers in more than these
  KeepFirst             \* dedup_strategy = "first"

ASSUME CleaningAssumption ==
  /\ {MaxSpreadBps, MinDepth, OutlierSq, SnapshotsForOutliers} \subseteq Nat
  /\ OutlierWindow \in Nat \ {0} /\ KeepFirst \in BOOLEAN

Missing == -1
Level == [price : Nat \cup {Missing}, volume : Int]

Best(levels)  == levels[1].price
Volume(levels) == FoldLeft(LAMBDA sum, l : sum + Greatest(0, l.volume), 0, levels)
DoubleMid(row) == Best(row.bids) + Best(row.asks)

Inverted(row) == Best(row.asks) <= Best(row.bids) \/ Missing \in {Best(row.bids), Best(row.asks)}
Shallow(row)  == Volume(row.bids) < MinDepth \/ Volume(row.asks) < MinDepth
Wide(row) ==
  20000 * (Best(row.asks) - Best(row.bids)) > MaxSpreadBps * DoubleMid(row)

FixNegativeVolumes(row) ==
  LET clipped(levels) == [i \in DOMAIN levels |-> [levels[i] EXCEPT !.volume = Greatest(0, @)]]
  IN [row EXCEPT !.bids = clipped(@), !.asks = clipped(@)]

\* _row_to_snapshot
SnapshotOf(row) ==
  LET priced(levels) == At(levels, {i \in DOMAIN levels : levels[i].price > 0})
      fixed == FixNegativeVolumes(row)
  IN [fixed EXCEPT !.bids = priced(@), !.asks = priced(@)]

Valid(snapshot) == snapshot.bids # <<>> /\ snapshot.asks # <<>> /\ ~Inverted(snapshot)

Dedup_Kept(rows) == rows     \* mutant
\* merge_same_timestamp
Dedup(rows) ==
  At(rows, {i \in DOMAIN rows :
              ~ \E j \in DOMAIN rows : /\ rows[j].ts = rows[i].ts
                                       /\ IF KeepFirst THEN j < i ELSE j > i})

\* The mid of row i is more than the z-score away from the mean of the mids at
\* some positions; the deviation divides by their number less ddof.
Far(rows, i, positions, ddof) ==
  LET n  == Cardinality(positions)
      s  == MapThenSumSet(LAMBDA j : DoubleMid(rows[j]), positions)
      sq == MapThenSumSet(LAMBDA j : DoubleMid(rows[j]) * DoubleMid(rows[j]), positions)
      d  == n * DoubleMid(rows[i]) - s
  IN d * d * (n - ddof) > OutlierSq * n * (n * sq - s * s)

TagOutliers(rows) ==
  IF Len(rows) < 3 THEN {}
  ELSE {i \in DOMAIN rows : Far(rows, i, Greatest(1, i - OutlierWindow + 1) .. i, 1)}

\* The rows that have both best prices, not crossed, and enough depth.
Usable(rows) ==
  LET fixed == [i \in DOMAIN rows |-> FixNegativeVolumes(rows[i])]
  IN At(fixed, {i \in DOMAIN fixed : ~Inverted(fixed[i]) /\ ~Shallow(fixed[i])})

\* clean: a wide spread is looked at last, after duplicates and outliers.
Clean(rows) ==
  LET single == Dedup(Usable(rows))
      normal == At(single, DOMAIN single \ TagOutliers(single))
  IN At(normal, {i \in DOMAIN normal : ~Wide(normal[i])})

Distinct_FirstKept(snapshots) ==     \* mutant
  LET good == SelectSeq(snapshots, LAMBDA s : Valid(s) /\ ~Shallow(s) /\ ~Wide(s))
  IN At(good, {i \in DOMAIN good : \A j \in 1 .. i - 1 : good[j].ts # good[i].ts})

\* clean_snapshots up to its duplicates: here a wide spread is looked at first,
\* and a later duplicate takes the place of the earlier one.
Merged(kept, s) ==
  LET same == {i \in DOMAIN kept : kept[i].ts = s.ts}
  IN IF ~Valid(s) \/ Shallow(s) \/ Wide(s) THEN kept
     ELSE IF same = {} THEN Append(kept, s)
     ELSE [i \in DOMAIN kept |-> IF i \in same /\ ~KeepFirst THEN s ELSE kept[i]]
Distinct(snapshots) == FoldLeft(Merged, <<>>, snapshots)

CleanSnapshots(snapshots) ==
  LET kept == Distinct(snapshots)
  IN IF Len(kept) <= SnapshotsForOutliers THEN kept
     ELSE At(kept, {i \in DOMAIN kept : ~Far(kept, i, DOMAIN kept, 0)})
=============================================================================
