-------------------------- MODULE MCOrderLifecycle --------------------------
(***************************************************************************)
(* Constant values for checking OrderLifecycle with TLC.                   *)
(***************************************************************************)
EXTENDS OrderLifecycle
=============================================================================
