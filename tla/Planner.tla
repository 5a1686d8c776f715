------------------------------- MODULE Planner -------------------------------
(***************************************************************************)
(* The controlled planner (controlled_planner.py over controlled_inputs.py *)
(* and controlled_conflicts.py): one planning request becomes a batch plan *)
(* that proposes, queues, blocks or rejects each of its Slices, and, with  *)
(* a coordinator snapshot, a projection of the proposals that still fit    *)
(* beside the leases of the journal.  The plan is what the coordinator     *)
(* binds an acquire command to, and the module Coordinator assumes of      *)
(* every plan what PlanIsAdmissible states here.                           *)
(*                                                                         *)
(* A Slice identity is a natural number, ordered as the identities are.    *)
(* Times are naturals.  A digest is a name; that a stored digest is the    *)
(* one recomputed from the normalised content is the field digestMatches.  *)
(***************************************************************************)
EXTENDS ConflictPolicy, FiniteSetsExt

CONSTANTS Requests,      \* the planning requests, each with its name
          Snapshots,     \* the coordinator snapshots that may be supplied
          Protected      \* PROTECTED_ACTION_CLASSES

\* What the schemas of the inputs say: lists are finite, priorities and the lane
\* limit are natural numbers.
ASSUME PlannerAssumption ==
  /\ \A r \in Requests :
       /\ IsFiniteSet(r.slices)
       /\ r.envelope.maxParallelLanes \in Nat
       /\ \A d \in r.slices :
            d.sliceId \in Nat /\ d.priority \in Nat /\ IsFiniteSet(d.dependencySet)
  /\ \A s \in Snapshots : IsFiniteSet(s.leases)

None == "none"
PolicyLaneCap == 3

VARIABLES request,   \* the request being planned
          pc,        \* the phase of build_provisional_execution_plan
          code,      \* the code of the ControlledPlanningError raised, or None
          left,      \* remaining_dependencies
          ready,     \* the heap of Slices whose dependencies are all ordered
          depth,     \* depths
          edges,     \* the edges of the conflict report
          todo,      \* the Slices the current loop has still to decide
          proposed, queued, blocked, rejected,    \* the lists of the plan
          active,    \* the leases of the snapshot that are not terminal
          graph,     \* by_slice: the merged planning graph
          retained, waiting                       \* the lists of the projection

vars == <<request, pc, code, left, ready, depth, edges, todo, proposed, queued,
          blocked, rejected, active, graph, retained, waiting>>

planVars == <<proposed, queued, blocked, rejected>>
orderVars == <<left, ready, depth>>
projectionVars == <<active, graph, retained, waiting>>

FootprintFields ==
  {"sliceId", "ownerSet", "factFamilySet", "publicContractSet",
   "producerConsumerSet", "bindingSet", "exactWriteSet", "ephemeralWriteSet",
   "sharedArtifactSet", "dependencySet", "migrationResourceSet",
   "authorityReferences"}

\* _footprint: what a conflict report keeps of a descriptor.
FootprintOf(d) == [field \in FootprintFields |-> d[field]]

RequestGraph == {FootprintOf(d) : d \in request.slices}

Ids == {d.sliceId : d \in request.slices}
Descriptor(id) == CHOOSE d \in request.slices : d.sliceId = id
Envelope == request.envelope

-----------------------------------------------------------------------------
(***************************************************************************)
(* normalize_planning_request: the checks in the order they are made.      *)
(***************************************************************************)

\* One check: the code it raises, or None.
Fail(error, fails) == IF fails THEN error ELSE None

\* _validate_snapshot.
SnapshotErrors(r) ==
  LET s == r.snapshot
  IN <<Fail("AUTHORITY_SNAPSHOT_FINGERPRINT_MISMATCH", ~s.fingerprintMatches),
       Fail("AUTHORITY_SET_DIGEST_MISMATCH", ~s.setDigestMatches),
       Fail("AUTHORITY_RECORD_DUPLICATE",
         \E a, b \in s.authorities : a # b /\ (a.id = b.id \/ a.path = b.path)),
       Fail("AUTHORITY_SNAPSHOT_NO_GO", s.gate # "PASS" \/ s.unresolved # {}),
       Fail("AUTHORITY_SOURCE_NOT_CLEAN_GIT", ~s.clean),
       Fail("BATCH_BASE_MISMATCH", s.head # r.batchBaseCommit)>>

\* The value each of _FACT_IDS must authorise.
ExpectedFacts(r) ==
  [mode |-> r.planningMode, registry |-> r.contractRegistryDigest,
   graph |-> r.dependencyGraphDigest, envelope |-> r.envelope.envelopeDigest,
   slices |-> {d.descriptorDigest : d \in r.slices},
   policy |-> r.conflictPolicyVersion]

FactIds == <<"mode", "registry", "graph", "envelope", "slices", "policy">>

Manifest(r) == <<r.snapshot.facts["mode"].owner, r.snapshot.facts["mode"].path>>

\* The check of one fact: it is there, its value is the expected one or a list of
\* choices that holds it, and it names the manifest the first fact names.
FactCode(r, f) ==
  LET facts == r.snapshot.facts
  IN CASE f \notin DOMAIN facts -> "AUTHORITY_FACT_MISSING"
       [] ExpectedFacts(r)[f] \notin facts[f].choices -> "AUTHORITY_FACT_MISMATCH"
       [] <<facts[f].owner, facts[f].path>> # Manifest(r) -> "AUTHORITY_FACT_MISMATCH"
       [] OTHER -> None

\* _validate_authority_facts: the facts in order, then the manifest: an authority
\* of the snapshot other than the envelope's issuer.
FactErrors(r) ==
  [i \in DOMAIN FactIds |-> FactCode(r, FactIds[i])]
  \o <<Fail("AUTHORITY_REFERENCE_UNBOUND",
         Manifest(r) \notin {<<a.id, a.path>> : a \in r.snapshot.authorities}),
       Fail("AUTHORITY_FACT_MISMATCH",
         \/ Manifest(r)[1] = r.envelope.issuerId
         \/ Manifest(r)[2] = r.envelope.issuerReference)>>

\* _validate_authority_references.
ReferenceErrors(r) ==
  LET e == r.envelope
      paths == {a.path : a \in r.snapshot.authorities}
  IN <<Fail("AUTHORITY_REFERENCE_UNBOUND",
         ~\E a \in r.snapshot.authorities :
            /\ a.path = e.issuerReference
            /\ a.id = e.issuerId
            /\ a.sha256 = e.issuerDigest),
       Fail("AUTHORITY_REFERENCE_UNBOUND",
         \E d \in r.slices : ~(d.authorityReferences \subseteq paths))>>

RequestChecks(r) ==
  <<Fail("DUPLICATE_SLICE_ID", ~GraphIsConsistent(r.slices)),
    Fail("DIGEST_MISMATCH", \E d \in r.slices : ~d.digestMatches),
    Fail("DIGEST_MISMATCH", ~r.envelope.digestMatches)>>
  \o SnapshotErrors(r)
  \o <<Fail("PROJECT_ID_MISMATCH",
         \/ r.projectId # r.snapshot.projectId
         \/ r.projectId # r.envelope.projectId),
       Fail("DEPENDENCY_GRAPH_DIGEST_MISMATCH", ~r.graphDigestMatches)>>
  \o FactErrors(r)
  \o ReferenceErrors(r)
  \o <<Fail("AUTHORIZATION_INTERVAL_INVALID",
         r.envelope.issuedAt >= r.envelope.expiresAt)>>

\* The code of the first of the checks made in turn that fails.
FirstFailure(checks) ==
  LET failing == {i \in DOMAIN checks : checks[i] # None}
  IN IF failing = {} THEN None ELSE checks[Min(failing)]

-----------------------------------------------------------------------------
(***************************************************************************)
(* Authorisation of one Slice.                                             *)
(***************************************************************************)

DeclaredWrites(d) == d.exactWriteSet \cup d.ephemeralWriteSet

\* _authorization_reasons.
AuthorizationReasons(d) ==
  {reason \in {"ENVELOPE_NOT_YET_VALID", "ENVELOPE_EXPIRED", "PORTFOLIO_NOT_PERMITTED",
               "DELIVERY_TRACK_NOT_PERMITTED", "SLICE_CLASS_NOT_PERMITTED",
               "ACTION_CLASS_NOT_PERMITTED", "ACTION_EXPLICITLY_DENIED",
               "WRITESET_OUTSIDE_PREFIX", "SLICE_NOT_READY"} :
     CASE reason = "ENVELOPE_NOT_YET_VALID" -> request.asOf < Envelope.issuedAt
       [] reason = "ENVELOPE_EXPIRED" -> request.asOf >= Envelope.expiresAt
       [] reason = "PORTFOLIO_NOT_PERMITTED" -> d.portfolioId # Envelope.portfolioId
       [] reason = "DELIVERY_TRACK_NOT_PERMITTED" ->
            d.deliveryTrackId \notin Envelope.permittedDeliveryTracks
       [] reason = "SLICE_CLASS_NOT_PERMITTED" ->
            d.sliceClass \notin Envelope.permittedSliceClasses
       [] reason = "ACTION_CLASS_NOT_PERMITTED" ->
            d.authorizationClass \notin Envelope.permittedActionClasses
       [] reason = "ACTION_EXPLICITLY_DENIED" ->
            d.authorizationClass \in Protected \cup Envelope.deniedActions
       [] reason = "WRITESET_OUTSIDE_PREFIX" ->
            \E w \in DeclaredWrites(d) :
               \A p \in Envelope.permittedPathPrefixes : ~PathIsWithin(w, p)
       [] reason = "SLICE_NOT_READY" -> d.state # "READY"}

\* A Slice that is only not ready is blocked, not rejected.
Rejected(d) == AuthorizationReasons(d) \notin {{}, {"SLICE_NOT_READY"}}

DependenciesClosed(d) ==
  \A id \in d.dependencySet : Descriptor(id).state = "CLOSED"

LaneCap == Min({Envelope.maxParallelLanes, PolicyLaneCap})

-----------------------------------------------------------------------------
(***************************************************************************)
(* The phases.                                                             *)
(***************************************************************************)

Init ==
  /\ request \in Requests
  /\ pc = "normalize"
  /\ code = None
  /\ left = <<>> /\ ready = {} /\ depth = <<>>
  /\ edges = {} /\ todo = {}
  /\ proposed = {} /\ queued = {} /\ blocked = {} /\ rejected = {}
  /\ active = {} /\ graph = {} /\ retained = {} /\ waiting = {}

Raise(error) ==
  /\ code' = error
  /\ pc' = "raised"
  /\ UNCHANGED <<request, orderVars, edges, todo, planVars, projectionVars>>

Normalize ==
  /\ pc = "normalize"
  /\ IF FirstFailure(RequestChecks(request)) # None
       THEN Raise(FirstFailure(RequestChecks(request)))
       ELSE /\ pc' = "index"
            /\ UNCHANGED <<request, code, orderVars, edges, todo, planVars,
                           projectionVars>>

\* _dependency_depths, the counting: every dependency is a Slice of the request.
CountDependencies ==
  /\ pc = "index"
  /\ IF \E d \in request.slices : ~(d.dependencySet \subseteq Ids)
       THEN Raise("UNKNOWN_DEPENDENCY")
       ELSE /\ left' = [id \in Ids |-> Cardinality(Descriptor(id).dependencySet)]
            /\ ready' = {id \in Ids : Descriptor(id).dependencySet = {}}
            /\ depth' = [id \in Ids |-> 0]
            /\ todo' = Ids
            /\ pc' = "order"
            /\ UNCHANGED <<request, code, edges, planVars, projectionVars>>

Dependents(id) == {s \in Ids : id \in Descriptor(s).dependencySet}

\* Mutant: the depth of the last dependency seen, not the largest.
OrderNextLast ==
  /\ pc = "order"
  /\ ready # {}
  /\ LET id == Min(ready)
     IN /\ depth' = [s \in Ids |-> IF s \in Dependents(id) THEN depth[id] + 1
                                                           ELSE depth[s]]
        /\ left' = [s \in Ids |-> IF s \in Dependents(id) THEN left[s] - 1
                                                          ELSE left[s]]
        /\ ready' = (ready \ {id}) \cup {s \in Dependents(id) : left[s] = 1}
        /\ todo' = todo \ {id}
  /\ UNCHANGED <<request, pc, code, edges, planVars, projectionVars>>

\* One pop of the heap: the Slice's dependents lose one dependency each.
OrderNext ==
  /\ pc = "order"
  /\ ready # {}
  /\ LET id == Min(ready)
     IN /\ depth' = [s \in Ids |-> IF s \in Dependents(id)
                                     THEN Max({depth[s], depth[id] + 1})
                                     ELSE depth[s]]
        /\ left' = [s \in Ids |-> IF s \in Dependents(id) THEN left[s] - 1
                                                          ELSE left[s]]
        /\ ready' = (ready \ {id}) \cup {s \in Dependents(id) : left[s] = 1}
        /\ todo' = todo \ {id}
  /\ UNCHANGED <<request, pc, code, edges, planVars, projectionVars>>

\* The heap is empty: a Slice never popped is on, or behind, a cycle.
EndOrder ==
  /\ pc = "order"
  /\ ready = {}
  /\ IF todo # {}
       THEN Raise("DEPENDENCY_CYCLE")
       ELSE /\ pc' = "classify"
            /\ UNCHANGED <<request, code, orderVars, edges, todo, planVars,
                           projectionVars>>

\* The conflict report, the authorisation decision, and the split of the Slices
\* into rejected, blocked and eligible.
Classify ==
  /\ pc = "classify"
  /\ edges' = ConflictEdges(RequestGraph)
  /\ LET out == {d \in request.slices : Rejected(d)}
         held == {d \in request.slices \ out :
                    d.state # "READY" \/ ~DependenciesClosed(d)}
     IN /\ rejected' = {d.sliceId : d \in out}
        /\ blocked' = {d.sliceId : d \in held}
        /\ todo' = Ids \ (rejected' \cup blocked')
  /\ pc' = "admit"
  /\ UNCHANGED <<request, code, orderVars, proposed, queued, projectionVars>>

\* The sort key (priority, depth, sliceId).
Precedes(a, b) ==
  LET key(id) == <<Descriptor(id).priority, depth[id], id>>
      first == {i \in 1..3 : key(a)[i] # key(b)[i]}
  IN first # {} /\ key(a)[Min(first)] < key(b)[Min(first)]

NextEligible == CHOOSE id \in todo : \A other \in todo \ {id} : Precedes(id, other)

\* Mutant: only direct conflicts count, not the cluster.
ClusterBusyDirect(id) == \E other \in proposed : <<id, other>> \in edges

\* The cluster of the Slice already has a proposed Slice.  A cluster joins Slices
\* through every Slice of the request, rejected and closed ones included.
ClusterBusy(id) ==
  LET closure == TransitiveClosureOf(edges)
  IN \E other \in proposed : <<id, other>> \in closure

\* Mutant: the walk ends at the first Slice that has to wait.
AdmitNextGivesUp ==
  /\ pc = "admit"
  /\ todo # {}
  /\ LET id == NextEligible
     IN IF ClusterBusy(id) \/ Cardinality(proposed) >= LaneCap
          THEN queued' = queued \cup todo /\ todo' = {} /\ UNCHANGED proposed
          ELSE /\ proposed' = proposed \cup {id} /\ todo' = todo \ {id}
               /\ UNCHANGED queued
  /\ UNCHANGED <<request, pc, code, orderVars, edges, blocked, rejected,
                 projectionVars>>

\* Mutant: the walk ends there, and the rest of the Slices are in no list.
AdmitNextForgets ==
  /\ pc = "admit"
  /\ todo # {}
  /\ LET id == NextEligible
     IN IF ClusterBusy(id) \/ Cardinality(proposed) >= LaneCap
          THEN queued' = queued \cup {id} /\ todo' = {} /\ UNCHANGED proposed
          ELSE /\ proposed' = proposed \cup {id} /\ todo' = todo \ {id}
               /\ UNCHANGED queued
  /\ UNCHANGED <<request, pc, code, orderVars, edges, blocked, rejected,
                 projectionVars>>

\* One turn of the walk over the eligible Slices: CONFLICT_CLUSTER_BUSY,
\* PROJECT_CAPACITY_LIMIT, or a proposed admission.
AdmitNext ==
  /\ pc = "admit"
  /\ todo # {}
  /\ LET id == NextEligible
     IN /\ todo' = todo \ {id}
        /\ IF ClusterBusy(id) \/ Cardinality(proposed) >= LaneCap
             THEN queued' = queued \cup {id} /\ UNCHANGED proposed
             ELSE proposed' = proposed \cup {id} /\ UNCHANGED queued
  /\ UNCHANGED <<request, pc, code, orderVars, edges, blocked, rejected,
                 projectionVars>>

\* The plan is complete; without a snapshot it is the result.
EndPlan ==
  /\ pc = "admit"
  /\ todo = {}
  /\ pc' = "planned"
  /\ UNCHANGED <<request, code, orderVars, edges, todo, planVars, projectionVars>>

-----------------------------------------------------------------------------
(***************************************************************************)
(* _coordinator_projection.                                                *)
(***************************************************************************)

\* The leases that are not both terminal and released.
ActiveLeases(snapshot) ==
  {l \in snapshot.leases : ~(l.state \in {"CLOSED", "CANCELLED"} /\ l.released)}

MergedGraph(snapshot) ==
  (UNION {l.planningFootprints : l \in ActiveLeases(snapshot)}) \cup RequestGraph

\* The integrity check of the journal, the recovery state, and what the snapshot,
\* its leases and their footprints must share with the plan.
SnapshotBindingChecks(snapshot) ==
  LET binds(x) == /\ x.envelopeDigest = Envelope.envelopeDigest
                  /\ x.conflictPolicyVersion = request.conflictPolicyVersion
                  /\ x.expectedLaneBase = request.batchBaseCommit
  IN <<Fail("COORDINATOR_SNAPSHOT_CORRUPT", ~snapshot.intact),
       Fail("COORDINATOR_RECOVERY_REQUIRED", snapshot.recoveryState # "CLEAR"),
       Fail("COORDINATOR_SNAPSHOT_BINDING_MISMATCH",
         \/ snapshot.projectId # request.projectId
         \/ ~snapshot.bindsJournal
         \/ snapshot.baseBatchPlanId # request.name
         \/ ~binds(snapshot)),
       Fail("COORDINATOR_SNAPSHOT_BINDING_MISMATCH",
         \E l \in ActiveLeases(snapshot) : ~binds(l)),
       Fail("COORDINATOR_SNAPSHOT_BINDING_MISMATCH",
         snapshot.acquireProjects \notin {{}, {snapshot.projectId}}),
       Fail("COORDINATOR_SNAPSHOT_BINDING_MISMATCH",
         ~GraphIsConsistent(MergedGraph(snapshot)))>>

BeginProjection(snapshot) ==
  /\ pc = "planned"
  /\ LET error == FirstFailure(SnapshotBindingChecks(snapshot))
     IN IF error # None
          THEN Raise(error)
          ELSE /\ active' = ActiveLeases(snapshot)
               /\ graph' = MergedGraph(snapshot)
               /\ todo' = proposed
               /\ pc' = "project"
               /\ UNCHANGED <<request, code, orderVars, edges, planVars, retained,
                              waiting>>

\* Mutant: the closures of the request alone, without the leases' graphs.
ConflictsWithActiveAlone(id) ==
  \E l \in active :
     FootprintsConflict(l.fullFootprint, FootprintOf(Descriptor(id)), RequestGraph)

ConflictsWithActive(id) ==
  LET dependency == DependencyClosure(graph)
      owners == OwnerClosure(graph)
  IN \E l \in active :
       ConflictReasons(l.fullFootprint, FootprintOf(Descriptor(id)), dependency, owners) # {}

\* One turn of the loop over the proposed admissions, in the order of their
\* Slice identities: ACTIVE_LEASE_CONFLICT, PROJECT_CAPACITY_LIMIT, or retained.
ProjectNext ==
  /\ pc = "project"
  /\ todo # {}
  /\ LET id == Min(todo)
     IN /\ todo' = todo \ {id}
        /\ IF \/ ConflictsWithActive(id)
              \/ Cardinality(active) + Cardinality(retained) >= LaneCap
             THEN waiting' = waiting \cup {id} /\ UNCHANGED retained
             ELSE retained' = retained \cup {id} /\ UNCHANGED waiting
  /\ UNCHANGED <<request, pc, code, orderVars, edges, planVars, active, graph>>

EndProjection ==
  /\ pc = "project"
  /\ todo = {}
  /\ pc' = "projected"
  /\ UNCHANGED <<request, code, orderVars, edges, todo, planVars, projectionVars>>

Next ==
  \/ Normalize
  \/ CountDependencies
  \/ OrderNext
  \/ EndOrder
  \/ Classify
  \/ AdmitNext
  \/ EndPlan
  \/ \E snapshot \in Snapshots : BeginProjection(snapshot)
  \/ ProjectNext
  \/ EndProjection

Spec == Init /\ [][Next]_vars

-----------------------------------------------------------------------------
(***************************************************************************)
(* Properties.                                                             *)
(***************************************************************************)

\* Type correctness, and the account of the Slices: from the classification on,
\* every Slice is in exactly one of the plan's lists or still to be decided.
PlannerTypeOK ==
  /\ request \in Requests
  /\ pc \in {"normalize", "index", "order", "classify", "admit", "planned",
             "project", "projected", "raised"}
  /\ DOMAIN left \subseteq Ids /\ ready \subseteq Ids /\ todo \subseteq Ids
  /\ \A id \in DOMAIN left : left[id] \in Nat /\ depth[id] \in Nat
  /\ pc \in {"admit", "planned"} =>
       LET parts == <<todo, proposed, queued, blocked, rejected>>
       IN /\ UNION {parts[i] : i \in DOMAIN parts} = Ids
          /\ \A i, j \in DOMAIN parts : i # j => parts[i] \cap parts[j] = {}

Acyclic == \A id \in Ids :
  <<id, id>> \notin TransitiveClosureOf(DependencyEdges(request.slices))

\* The longest chain of dependencies below a Slice, by the definition of depth.
LongestChain ==
  LET below[id \in Ids] ==
        IF Descriptor(id).dependencySet = {} THEN 0
        ELSE 1 + Max({below[d] : d \in Descriptor(id).dependencySet})
  IN below

\* The worklist orders exactly the acyclic requests, and gives every Slice the
\* length of its longest dependency chain, whatever the order of the heap: a
\* request is refused as cyclic only when it is, and one that is goes no further.
DepthsAreLongestChains ==
  /\ (pc = "raised" /\ code = "DEPENDENCY_CYCLE") => ~Acyclic
  /\ pc = "classify" => Acyclic /\ depth = LongestChain

\* What the coordinator relies on when it binds an acquire command to a plan: the
\* proposed Slices may all run side by side.  No two conflict, directly or through
\* the paths of any Slice of the request; they fit the lanes; each is authorised
\* by a current envelope and writes below its prefixes only; and everything it
\* depends on is closed.
PlanIsAdmissible ==
  pc \in {"planned", "project", "projected"} =>
    /\ Cardinality(proposed) <= LaneCap
    /\ \A a, b \in proposed : a # b => ~SameCluster(RequestGraph, a, b)
    /\ \A id \in proposed :
         LET d == Descriptor(id)
         IN /\ AuthorizationReasons(d) = {}
            /\ \A e \in d.dependencySet : Descriptor(e).state = "CLOSED"

\* Priority is honoured by the plan: a Slice that has to wait precedes no proposed
\* Slice, unless one of its own cluster that precedes it was proposed; and a free
\* lane is left only when every cluster with an eligible Slice has one proposed.
NoOvertaking ==
  pc \in {"planned", "project", "projected"} =>
    \A w \in queued :
      LET rivals == {p \in proposed : SameCluster(RequestGraph, w, p)}
      IN \/ \E p \in rivals : Precedes(p, w)
         \/ /\ rivals = {}
            /\ Cardinality(proposed) = LaneCap
            /\ \A p \in proposed : Precedes(p, w)

\* What the projection retains can be acquired beside the leases of the journal:
\* it conflicts with none of them under the merged planning graph, closures
\* through Slices of other batches included, and with them it fits the lanes.
ProjectionFitsActive ==
  pc = "projected" =>
    /\ retained = {} \/ Cardinality(active) + Cardinality(retained) <= LaneCap
    /\ \A id \in retained, l \in active :
         ~FootprintsConflict(l.fullFootprint, FootprintOf(Descriptor(id)), graph)

\* The invariant of the lists: every Slice is in one of them, the proposed ones
\* can be admitted together, and what the projection keeps fits the leases.
PlanInv == PlannerTypeOK /\ PlanIsAdmissible /\ ProjectionFitsActive

\* The invariant of the order: depths are the longest chains, and no Slice waits
\* for one that it precedes by priority, depth and sliceId.
OrderInv == DepthsAreLongestChains /\ NoOvertaking
=============================================================================
