---------------------------- MODULE MCAccounting ----------------------------
(***************************************************************************)
(* Constant values for checking Accounting with TLC.  Renaming symbols     *)
(* maps behaviours to behaviours.                                          *)
(***************************************************************************)
EXTENDS Accounting, TLC

Symbols == Permutations(Symbol)
=============================================================================
