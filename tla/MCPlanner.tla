------------------------------ MODULE MCPlanner ------------------------------
(***************************************************************************)
(* Small instances of Planner.  A descriptor is written as what            *)
(* distinguishes it; the rest of the request is the one all of them share. *)
(***************************************************************************)
EXTENDS Planner, TLC

Slice(id, state, priority, owner, exact, deps) ==
  [sliceId |-> id, state |-> state, priority |-> priority,
   ownerSet |-> {owner}, factFamilySet |-> {}, publicContractSet |-> {},
   producerConsumerSet |-> {}, bindingSet |-> {}, exactWriteSet |-> exact,
   ephemeralWriteSet |-> {}, sharedArtifactSet |-> {}, dependencySet |-> deps,
   migrationResourceSet |-> {}, authorityReferences |-> {<<"auth">>},
   portfolioId |-> "p", deliveryTrackId |-> "t", sliceClass |-> "c",
   authorizationClass |-> "edit", descriptorDigest |-> id, digestMatches |-> TRUE]

MCEnvelope(cap) ==
  [projectId |-> "x", portfolioId |-> "p", permittedDeliveryTracks |-> {"t"},
   permittedSliceClasses |-> {"c"}, permittedActionClasses |-> {"edit", "push"},
   deniedActions |-> {"drop"}, permittedPathPrefixes |-> {<<"src">>},
   maxParallelLanes |-> cap, issuedAt |-> 1, expiresAt |-> 3,
   issuerId |-> "issuer", issuerReference |-> <<"auth">>, issuerDigest |-> "i",
   envelopeDigest |-> "e", digestMatches |-> TRUE]

Fact(value) == [owner |-> "manifest", path |-> <<"plan">>, choices |-> {value}]

MCRequest(name, cap, slices) ==
  [name |-> name, projectId |-> "x", batchBaseCommit |-> "h", planningMode |-> "m",
   contractRegistryDigest |-> "r", dependencyGraphDigest |-> "g",
   graphDigestMatches |-> TRUE, conflictPolicyVersion |-> "v1", asOf |-> 2,
   slices |-> slices, envelope |-> MCEnvelope(cap),
   snapshot |->
     [projectId |-> "x", head |-> "h", fingerprintMatches |-> TRUE,
      setDigestMatches |-> TRUE, gate |-> "PASS", unresolved |-> {}, clean |-> TRUE,
      authorities |-> {[id |-> "issuer", path |-> <<"auth">>, sha256 |-> "i"],
                       [id |-> "manifest", path |-> <<"plan">>, sha256 |-> "j"]},
      facts |-> [mode |-> Fact("m"), registry |-> Fact("r"), graph |-> Fact("g"),
                 envelope |-> Fact("e"), policy |-> Fact("v1"),
                 slices |-> Fact({d.descriptorDigest : d \in slices})]]]

Src(name) == <<"src", name>>
Owner == <<"o1", "o2", "o3", "o4">>

-----------------------------------------------------------------------------
(***************************************************************************)
(* Every dependency graph over three Slices, and over four of which the    *)
(* first depends on nothing: self-loops, cycles, an unknown dependency,    *)
(* and Slices the heap reaches before a shallower dependency.              *)
(***************************************************************************)
GraphRequests ==
  {MCRequest("graph", 3,
     {Slice(i, IF i = 1 THEN "CLOSED" ELSE "READY", 1, Owner[i], {Src(Owner[i])},
            deps[i]) : i \in 1..3}) :
     deps \in [1..3 -> SUBSET (1..3)]}
  \cup {MCRequest("graph", 3,
          {Slice(i, "READY", 1, Owner[i], {Src(Owner[i])}, deps[i]) : i \in 1..4}) :
          deps \in {f \in [1..4 -> SUBSET (1..4)] :
                     f[1] = {} /\ \A i \in 1..4 : i \notin f[i]}}
  \cup {MCRequest("unknown", 3, {Slice(1, "READY", 1, "o1", {Src("a")}, {4})})}

(***************************************************************************)
(* Six Slices with every assignment of two priorities to four of them.     *)
(* Slices 1 and 2 are in one cluster through the closed Slice 5 only;      *)
(* Slice 4 depends on 6, and in one variant writes below where 3 does.     *)
(***************************************************************************)
BatchSlices(pri, target) ==
  {Slice(1, "READY", pri[1], "o1", {Src("a")}, {}),
   Slice(2, "READY", pri[2], "o2", {Src("b")}, {}),
   Slice(3, "READY", pri[3], "o3", {Src("c")}, {}),
   Slice(4, "READY", pri[4], "o4", {target}, {6}),
   [Slice(5, "CLOSED", 1, "o5", {Src("z")}, {})
      EXCEPT !.producerConsumerSet = {<<"o1", "o5">>, <<"o2", "o5">>}],
   Slice(6, "CLOSED", 1, "o6", {Src("y")}, {})}

Priorities == [1..4 -> {1, 2}]

BatchRequests ==
  {MCRequest("batch", cap, BatchSlices(pri, at)) :
     cap \in {1, 2, 3}, pri \in Priorities, at \in {Src("d"), <<"src", "c", "x">>}}

(***************************************************************************)
(* Requests that normalisation refuses, and Slices that are not eligible.  *)
(***************************************************************************)
Base == MCRequest("base", 2, {Slice(1, "READY", 1, "o1", {Src("a")}, {}),
                              Slice(2, "READY", 1, "o2", {Src("b")}, {1})})

With(d) == [Base EXCEPT !.slices = {d, Slice(2, "READY", 1, "o2", {Src("b")}, {})}]
One == Slice(1, "READY", 1, "o1", {Src("a")}, {})

RefusedRequests ==
  {[Base EXCEPT !.asOf = 0], [Base EXCEPT !.asOf = 3],
   [Base EXCEPT !.slices = @ \cup {One, Slice(1, "READY", 2, "o1", {Src("a")}, {})}],
   [Base EXCEPT !.envelope.digestMatches = FALSE],
   [Base EXCEPT !.snapshot.fingerprintMatches = FALSE],
   [Base EXCEPT !.snapshot.setDigestMatches = FALSE],
   [Base EXCEPT !.snapshot.authorities =
      @ \cup {[id |-> "issuer", path |-> <<"more">>, sha256 |-> "k"]}],
   [Base EXCEPT !.snapshot.gate = "NO_GO"],
   [Base EXCEPT !.snapshot.clean = FALSE],
   [Base EXCEPT !.batchBaseCommit = "h0"],
   [Base EXCEPT !.projectId = "w"],
   [Base EXCEPT !.graphDigestMatches = FALSE],
   [Base EXCEPT !.snapshot.facts.policy.choices = {"v0"}],
   [Base EXCEPT !.snapshot.facts.policy.owner = "issuer"],
   [Base EXCEPT !.envelope.issuerId = "manifest"],
   [Base EXCEPT !.envelope.issuerDigest = "k"],
   [Base EXCEPT !.envelope.expiresAt = 1],
   With([One EXCEPT !.digestMatches = FALSE]),
   With([One EXCEPT !.authorityReferences = {<<"none">>}]),
   With([One EXCEPT !.state = "PROPOSED"]),
   With([One EXCEPT !.portfolioId = "q"]),
   With([One EXCEPT !.deliveryTrackId = "u"]),
   With([One EXCEPT !.sliceClass = "d"]),
   With([One EXCEPT !.authorizationClass = "drop"]),
   With([One EXCEPT !.authorizationClass = "push"]),
   With([One EXCEPT !.exactWriteSet = {<<"etc">>}]),
   With([One EXCEPT !.publicContractSet = {"k"}])}

MCRequests == GraphRequests \cup BatchRequests \cup RefusedRequests \cup {Base}

-----------------------------------------------------------------------------
(***************************************************************************)
(* Snapshots.  The lease of Slice 7, from an earlier batch, conflicts with *)
(* Slice 3 only through the owners its own planning graph adds; that of    *)
(* Slice 8 conflicts with nothing and takes a lane.                        *)
(***************************************************************************)
F(d) == FootprintOf(d)

Seven == Slice(7, "ACTIVE", 1, "o7", {Src("g")}, {})
Link == [Slice(9, "READY", 1, "o9", {Src("i")}, {})
           EXCEPT !.producerConsumerSet = {<<"o7", "o9">>, <<"o9", "o3">>}]
Eight == Slice(8, "ACTIVE", 1, "o8", {Src("h")}, {})

Lease(d, planned, state, released) ==
  [state |-> state, released |-> released, fullFootprint |-> F(d),
   planningFootprints |-> {F(e) : e \in planned}, envelopeDigest |-> "e",
   conflictPolicyVersion |-> "v1", expectedLaneBase |-> "h"]

Snapshot(name, leases) ==
  [intact |-> TRUE, recoveryState |-> "CLEAR", projectId |-> "x",
   baseBatchPlanId |-> name, bindsJournal |-> TRUE, envelopeDigest |-> "e",
   conflictPolicyVersion |-> "v1", expectedLaneBase |-> "h",
   acquireProjects |-> {"x"}, leases |-> leases]

LeaseSeven == Lease(Seven, {Seven, Link}, "ACTIVE", FALSE)
LeaseEight == Lease(Eight, {Eight}, "ACTIVE", FALSE)
LeaseGone == Lease(Slice(1, "READY", 1, "o1", {Src("a")}, {}), {}, "CLOSED", TRUE)
Changed == Lease(Eight, {Eight, Slice(3, "READY", 1, "o4", {Src("c")}, {})}, "ACTIVE", FALSE)

MCSnapshots ==
  {Snapshot("batch", leases) :
     leases \in {{LeaseSeven}, {LeaseEight, LeaseGone}, {LeaseSeven, LeaseEight}, {Changed}}}
  \cup {Snapshot("other", {}),
        [Snapshot("batch", {}) EXCEPT !.intact = FALSE],
        [Snapshot("batch", {}) EXCEPT !.recoveryState = "REQUIRED"],
        [Snapshot("batch", {}) EXCEPT !.acquireProjects = {"x", "w"}],
        Snapshot("batch", {[LeaseEight EXCEPT !.envelopeDigest = "e0"]})}

MCProtected == {"push"}
=============================================================================
