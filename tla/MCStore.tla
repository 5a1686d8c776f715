------------------------------ MODULE MCStore ------------------------------
(***************************************************************************)
(* The store for TLC: two or three callers, faults unbounded.  A command   *)
(* is committed at most once, so the state space is finite as it is.       *)
(***************************************************************************)
EXTENDS CoordinatorStore
=============================================================================
