----------------------------- MODULE Selections -----------------------------
(***************************************************************************)
(* The elements of a sequence at some of its positions, in order: what the *)
(* code writes as a list comprehension with a condition, or as a data      *)
(* frame with a mask.  The lemmas about it are in DataTheorems.            *)
(***************************************************************************)
EXTENDS Integers, Sequences

At(seq, positions) ==
  LET kept[n \in 0 .. Len(seq)] ==
        IF n = 0 THEN <<>>
        ELSE IF n \in positions THEN Append(kept[n - 1], seq[n]) ELSE kept[n - 1]
  IN kept[Len(seq)]

\* The last of them.
LastAt(seq, positions) == seq[CHOOSE i \in positions : \A j \in positions : j <= i]
=============================================================================
