---------------------------- MODULE MCCoordinator ----------------------------
(***************************************************************************)
(* Small instances of Coordinator for TLC.  A request is written as what   *)
(* distinguishes it; the plan-derived fields come from its batch.          *)
(***************************************************************************)
EXTENDS Coordinator, TLC

\* A footprint of policy version 1 that declares nothing but what is given.
Footprint(slice, owner, exact, ephemeral) ==
  [sliceId |-> slice, ownerSet |-> {owner}, factFamilySet |-> {},
   publicContractSet |-> {}, producerConsumerSet |-> {}, bindingSet |-> {},
   exactWriteSet |-> exact, ephemeralWriteSet |-> ephemeral,
   sharedArtifactSet |-> {}, dependencySet |-> {}, migrationResourceSet |-> {},
   authorityReferences |-> {}]

Src(name) == <<"src", name>>

F1 == Footprint("s1", "o1", {Src("a")}, {})
F2 == Footprint("s2", "o2", {Src("b")}, {<<"tmp">>})
F3 == Footprint("s3", "o3", {<<"src", "a", "x">>}, {})
\* Its owner consumes from a producer that consumes from o1.
F4 == [Footprint("s4", "o4", {Src("d")}, {})
         EXCEPT !.producerConsumerSet = {<<"o1", "o9">>, <<"o9", "o4">>}]

Batch(id, head, fingerprint, envelope, cap, graph) ==
  [batchPlanId |-> id, expectedLaneBase |-> head, fingerprint |-> fingerprint,
   envelope |-> envelope, conflictPolicyVersion |-> "v1", maxParallelLanes |-> cap,
   planningFootprints |-> graph, snapshotPaths |-> {<<"auth">>}]

Request(batch, footprint, attempt, lane) ==
  [batchPlanId |-> batch.batchPlanId, sliceId |-> footprint.sliceId,
   attemptId |-> attempt, expectedLaneBase |-> batch.expectedLaneBase,
   fingerprint |-> batch.fingerprint, envelope |-> batch.envelope,
   conflictPolicyVersion |-> batch.conflictPolicyVersion,
   maxParallelLanes |-> batch.maxParallelLanes,
   planningFootprints |-> batch.planningFootprints,
   snapshotPaths |-> batch.snapshotPaths,
   fullFootprint |-> footprint, laneRoot |-> lane]

-----------------------------------------------------------------------------
(***************************************************************************)
(* Admission: four batches and two envelopes over three lane roots.  s1    *)
(* conflicts with s3 by path ancestry and with s4 by a producer-consumer   *)
(* path through an owner of no Slice; s2, s3 and s4 are compatible, so the *)
(* lane cap of two is what keeps the third of them out.                    *)
(***************************************************************************)
B1 == Batch("b1", "h1", "f1", "e1", 2, {F1, F2, F3})
B2 == Batch("b2", "h1", "f1", "e1", 2, {F1, F3})
B3 == Batch("b3", "h1", "f1", "e1", 2, {F1, F4})
B4 == Batch("b4", "h1", "f1", "e2", 3, {F2, F3, F4})

AdmissionRequests ==
  {Request(B1, F1, "a1", "l3"), Request(B1, F2, "a1", "l2"),
   Request(B2, F3, "a2", "l3"), Request(B3, F4, "a3", "l1"),
   Request(B4, F2, "a4", "l3")}

(***************************************************************************)
(* Recovery: two Slices of one batch, a fresh plan for the first of them,  *)
(* and a plan that reuses a retired attempt.                               *)
(***************************************************************************)
BFresh == Batch("b9", "h1", "f1", "e1", 2, {F1, F2})
BReuse == Batch("b8", "h1", "f1", "e1", 2, {F1, F2})

RecoveryRequests ==
  {Request(B1, F1, "a1", "l1"), Request(B1, F2, "a1", "l2"),
   Request(BFresh, F1, "a9", "l1"), Request(BReuse, F2, "a1", "l2")}

(***************************************************************************)
(* Lifecycle: one lane through review to closure, with a second command    *)
(* for the same acquisition key and another payload.                       *)
(***************************************************************************)
LifecycleRequests ==
  {Request(B1, F1, "a1", "l1"), Request(B1, F1, "a1", "l2"),
   Request(B1, F2, "a1", "l2")}

AdmissionPaths == {<<"etc">>}
RecoveryPaths == {<<"tmp">>, <<"etc">>}
LifecycleStates == {"ACTIVE", "STALE"} \cup CandidateStates

(***************************************************************************)
(* Two states that differ only in the last answer have the same future.    *)
(***************************************************************************)
WithoutReply == <<journal, guard, signed, world>>

\* Directory identities are only ever compared with each other.
IdentitySymmetry == Permutations(Identities)
=============================================================================
