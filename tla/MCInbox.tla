------------------------------- MODULE MCInbox -------------------------------
(***************************************************************************)
(* The growth inbox for TLC: two processes, two assessments that share a   *)
(* key and a third with its own, so that a key conflict, a duplicate and a *)
(* free key all occur.  A scan accepts one name, so that two are too many. *)
(***************************************************************************)
EXTENDS GrowthInbox

CONSTANTS a1, a2, b1, ka, kb

MCRequests == {a1, a2, b1}
MCKeys == {ka, kb}
MCKeyOf == [r \in MCRequests |-> IF r = b1 THEN kb ELSE ka]
=============================================================================
