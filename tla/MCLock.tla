-------------------------------- MODULE MCLock --------------------------------
(***************************************************************************)
(* The capability lock for TLC: two bindings, of which one selects the     *)
(* external capability, a registry with an old and a new version, and one  *)
(* in which the external capability has become internal.                   *)
(***************************************************************************)
EXTENDS CapabilityLock

CONSTANTS p1, p2, i1, i2

MCBindings ==
  {[disabled |-> "d1", reasons |-> "both", external |-> TRUE],
   [disabled |-> "d2", reasons |-> "internal", external |-> FALSE]}

MCRegistries ==
  {[active |-> "v1", usable |-> {"v1"}, shadows |-> FALSE],
   [active |-> "v2", usable |-> {"v1", "v2"}, shadows |-> TRUE]}

\* Packs are interchangeable, and so are integrations: one of each to begin with.
MCInit == LockInit /\ pack = p1 /\ integration = i1

MCSpec == MCInit /\ [][LockNext]_lockVars /\ LockFairness
=============================================================================
