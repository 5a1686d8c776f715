------------------------------- MODULE MCSwap -------------------------------
(***************************************************************************)
(* The projection swap for TLC.  A build runs once, so the number of       *)
(* builds bounds the run: three of them are a first pack, one that is      *)
(* interrupted over it, and one that recovers.  Two values and two         *)
(* changes let the source move before and after any check, and away and    *)
(* back between two of them.                                               *)
(***************************************************************************)
EXTENDS ProjectionSwap
=============================================================================
