---------------------------- MODULE PlannerProofs ----------------------------
(***************************************************************************)
(* Theorems about the controlled planner, for every set of requests and    *)
(* snapshots of finitely many Slices and leases: the proposed Slices can   *)
(* all run side by side, the projection fits the leases of the journal,    *)
(* depths are the longest chains of dependencies, exactly the cyclic       *)
(* requests are refused as cyclic, and no Slice is overtaken.              *)
(***************************************************************************)
EXTENDS Planner, PolicyProofs

-----------------------------------------------------------------------------
(***************************************************************************)
(* The inductive invariant, phase by phase.                                *)
(***************************************************************************)

DependenciesOf(id) == Descriptor(id).dependencySet

RequestEdges == DependencyEdges(request.slices)

\* What normalisation and the counting have made sure of.
CheckedInv ==
  /\ pc \notin {"normalize", "raised"} => GraphIsConsistent(request.slices)
  /\ pc \notin {"normalize", "index", "raised"} =>
       /\ \A id \in Ids : DependenciesOf(id) \subseteq Ids
       /\ left \in [Ids -> Nat]
       /\ depth \in [Ids -> Nat]

\* One more than the deepest dependency that is already ordered.
DepthSoFar(s) ==
  LET seen == DependenciesOf(s) \ todo
  IN /\ seen = {} => depth[s] = 0
     /\ \A d \in seen : depth[d] < depth[s]
     /\ seen # {} => \E d \in seen : depth[s] = depth[d] + 1

\* The heap: todo are the Slices not yet popped, left counts the dependencies among
\* them, and what is popped is closed under dependency and on no cycle.
HeapInv ==
  pc = "order" =>
    /\ \A s \in Ids : left[s] = Cardinality(DependenciesOf(s) \cap todo)
    /\ ready = {s \in todo : DependenciesOf(s) \cap todo = {}}
    /\ \A s \in Ids \ todo : /\ DependenciesOf(s) \cap todo = {}
                             /\ <<s, s>> \notin TransitiveClosureOf(RequestEdges)
    /\ \A s \in Ids : DepthSoFar(s)

Rivals(w) == {p \in proposed : SameCluster(RequestGraph, w, p)}

\* What NoOvertaking says of one queued Slice.
WaitsRightly(w) ==
  \/ \E p \in Rivals(w) : Precedes(p, w)
  \/ /\ Rivals(w) = {}
     /\ Cardinality(proposed) = LaneCap
     /\ \A p \in proposed : Precedes(p, w)

\* The walk over the eligible Slices: what is decided precedes what is not.
WalkInv ==
  /\ pc \in {"normalize", "index", "order", "classify"} => proposed = {} /\ queued = {}
  /\ pc \in {"admit", "planned", "project", "projected"} =>
       /\ edges = ConflictEdges(RequestGraph)
       /\ proposed \subseteq Ids /\ queued \subseteq Ids
       /\ \A id \in proposed \cup todo :
            AuthorizationReasons(Descriptor(id)) = {} /\ DependenciesClosed(Descriptor(id))
       /\ Cardinality(proposed) <= LaneCap
       /\ \A a, b \in proposed : a # b => ~SameCluster(RequestGraph, a, b)
       /\ \A w \in queued : WaitsRightly(w)
  /\ pc = "admit" => \A p \in proposed \cup queued, t \in todo : Precedes(p, t)

\* The projection keeps to the lanes and to the leases at every turn.
FitInv ==
  /\ pc \notin {"project", "projected", "raised"} => retained = {}
  /\ pc \in {"project", "projected"} =>
       /\ IsFiniteSet(active)
       /\ retained \subseteq proposed /\ todo \subseteq proposed
       /\ retained \cap todo = {}
       /\ retained = {} \/ Cardinality(active) + Cardinality(retained) <= LaneCap
       /\ \A id \in retained, l \in active :
            ~FootprintsConflict(l.fullFootprint, FootprintOf(Descriptor(id)), graph)

PlanningInv ==
  PlannerTypeOK /\ CheckedInv /\ HeapInv /\ DepthsAreLongestChains /\ WalkInv /\ FitInv

-----------------------------------------------------------------------------
(***************************************************************************)
(* Checks made in turn.                                                    *)
(***************************************************************************)

\* A list of checks whose codes, where they fail, are in codes.
ChecksIn(checks, codes) == checks \in Seq(codes \cup {None})

LEMMA FirstFailureIsOne ==
  ASSUME NEW checks, NEW codes, None \notin codes, ChecksIn(checks, codes)
  PROVE  /\ FirstFailure(checks) # None => FirstFailure(checks) \in codes
         /\ FirstFailure(checks) = None => \A i \in 1..Len(checks) : checks[i] = None
<1> DEFINE failing == {i \in DOMAIN checks : checks[i] # None}
<1>1. DOMAIN checks = 1..Len(checks) /\ Len(checks) \in Nat
  BY DEF ChecksIn
<1>2. CASE failing = {}
  <2>1. FirstFailure(checks) = None
    BY <1>2 DEF FirstFailure
  <2> QED BY <1>1, <1>2, <2>1
<1>3. CASE failing # {}
  <2>1. failing \in SUBSET Nat
    BY <1>1
  <2>2. PICK n \in failing : \A m \in failing : n <= m
    <3> HIDE DEF failing
    <3> QED BY <1>3, <2>1, LeastElement
  <2>3. Min(failing) \in failing
    <3> HIDE DEF failing
    <3> QED BY <2>2 DEF Min
  <2>4. FirstFailure(checks) = checks[Min(failing)]
    BY <1>3 DEF FirstFailure
  <2>5. checks[Min(failing)] \in codes
    BY <1>1, <2>3 DEF ChecksIn
  <2> QED BY <2>4, <2>5
<1> QED BY <1>2, <1>3

PlanningCodes ==
  {"DUPLICATE_SLICE_ID", "DIGEST_MISMATCH", "AUTHORITY_SNAPSHOT_FINGERPRINT_MISMATCH",
   "AUTHORITY_SET_DIGEST_MISMATCH", "AUTHORITY_RECORD_DUPLICATE",
   "AUTHORITY_SNAPSHOT_NO_GO", "AUTHORITY_SOURCE_NOT_CLEAN_GIT", "BATCH_BASE_MISMATCH",
   "PROJECT_ID_MISMATCH", "DEPENDENCY_GRAPH_DIGEST_MISMATCH", "AUTHORITY_FACT_MISSING",
   "AUTHORITY_FACT_MISMATCH", "AUTHORITY_REFERENCE_UNBOUND",
   "AUTHORIZATION_INTERVAL_INVALID", "COORDINATOR_SNAPSHOT_CORRUPT",
   "COORDINATOR_RECOVERY_REQUIRED", "COORDINATOR_SNAPSHOT_BINDING_MISMATCH"}

\* None of these codes says that the request is cyclic.
LEMMA PlanningCodesOther ==
  None \notin PlanningCodes /\ "DEPENDENCY_CYCLE" \notin PlanningCodes
BY DEF PlanningCodes, None

LEMMA BindingChecksAreChecks ==
  ASSUME NEW snapshot
  PROVE  ChecksIn(SnapshotBindingChecks(snapshot), PlanningCodes)
BY DEF SnapshotBindingChecks, ChecksIn, PlanningCodes, Fail

\* A request that passes has one Slice per identity.
LEMMA RequestChecksAreChecks ==
  ASSUME NEW r
  PROVE  /\ ChecksIn(RequestChecks(r), PlanningCodes)
         /\ FirstFailure(RequestChecks(r)) = None => GraphIsConsistent(r.slices)
<1> DEFINE codes == PlanningCodes \cup {None}
           first == <<Fail("DUPLICATE_SLICE_ID", ~GraphIsConsistent(r.slices)),
                      Fail("DIGEST_MISMATCH", \E d \in r.slices : ~d.digestMatches),
                      Fail("DIGEST_MISMATCH", ~r.envelope.digestMatches)>>
           ids == <<Fail("PROJECT_ID_MISMATCH",
                      \/ r.projectId # r.snapshot.projectId
                      \/ r.projectId # r.envelope.projectId),
                    Fail("DEPENDENCY_GRAPH_DIGEST_MISMATCH", ~r.graphDigestMatches)>>
           interval == <<Fail("AUTHORIZATION_INTERVAL_INVALID",
                           r.envelope.issuedAt >= r.envelope.expiresAt)>>
<1>1. first \in Seq(codes) /\ Len(first) = 3 /\ first[1] = Fail("DUPLICATE_SLICE_ID", ~GraphIsConsistent(r.slices))
  BY DEF Fail, PlanningCodes
<1>2. ids \in Seq(codes)
  BY DEF Fail, PlanningCodes
<1>3. interval \in Seq(codes)
  BY DEF Fail, PlanningCodes
<1>4. SnapshotErrors(r) \in Seq(codes)
  BY DEF SnapshotErrors, Fail, PlanningCodes
<1>5. ReferenceErrors(r) \in Seq(codes)
  BY DEF ReferenceErrors, Fail, PlanningCodes
<1>6. FactErrors(r) \in Seq(codes)
  <2> DEFINE facts == [i \in DOMAIN FactIds |-> FactCode(r, FactIds[i])]
             last == <<Fail("AUTHORITY_REFERENCE_UNBOUND",
                         Manifest(r) \notin {<<a.id, a.path>> : a \in r.snapshot.authorities}),
                       Fail("AUTHORITY_FACT_MISMATCH",
                         \/ Manifest(r)[1] = r.envelope.issuerId
                         \/ Manifest(r)[2] = r.envelope.issuerReference)>>
  <2>1. \A f : FactCode(r, f) \in codes
    BY DEF FactCode, PlanningCodes
  <2>2. DOMAIN FactIds = 1..6
    BY DEF FactIds
  <2>3. facts \in Seq(codes)
    <3> HIDE DEF codes
    <3> QED BY <2>1, <2>2
  <2>4. last \in Seq(codes)
    BY DEF Fail, PlanningCodes
  <2>5. FactErrors(r) = facts \o last
    BY DEF FactErrors
  <2> HIDE DEF codes, facts, last
  <2> QED BY <2>3, <2>4, <2>5
<1>7. RequestChecks(r) = first \o SnapshotErrors(r) \o ids \o FactErrors(r) \o ReferenceErrors(r) \o interval
  BY DEF RequestChecks
<1> HIDE DEF codes, first, ids, interval
<1>8. /\ RequestChecks(r) \in Seq(codes)
      /\ Len(RequestChecks(r)) >= 1
      /\ RequestChecks(r)[1] = first[1]
  <2> DEFINE a == first \o SnapshotErrors(r)
             b == a \o ids
             c == b \o FactErrors(r)
             d == c \o ReferenceErrors(r)
  <2>1. a \in Seq(codes) /\ Len(a) >= 1 /\ a[1] = first[1]
    BY <1>1, <1>4
  <2> HIDE DEF a
  <2>2. b \in Seq(codes) /\ Len(b) >= 1 /\ b[1] = first[1]
    BY <2>1, <1>2
  <2> HIDE DEF b
  <2>3. c \in Seq(codes) /\ Len(c) >= 1 /\ c[1] = first[1]
    BY <2>2, <1>6
  <2> HIDE DEF c
  <2>4. d \in Seq(codes) /\ Len(d) >= 1 /\ d[1] = first[1]
    BY <2>3, <1>5
  <2>5. RequestChecks(r) = d \o interval
    BY <1>7 DEF a, b, c, d
  <2> HIDE DEF d
  <2> QED BY <2>4, <2>5, <1>3
<1>9. ChecksIn(RequestChecks(r), PlanningCodes)
  BY <1>8 DEF ChecksIn, codes
<1>10. ASSUME FirstFailure(RequestChecks(r)) = None PROVE GraphIsConsistent(r.slices)
  <2>1. RequestChecks(r)[1] = None
    BY <1>8, <1>9, <1>10, FirstFailureIsOne, PlanningCodesOther
  <2> QED BY <2>1, <1>1, <1>8 DEF Fail, None
<1> QED BY <1>9, <1>10

-----------------------------------------------------------------------------
(***************************************************************************)
(* Finite relations.                                                       *)
(***************************************************************************)

\* A transitive relation without loops has a last element in a finite set.
LEMMA LastElement ==
  ASSUME NEW S, IsFiniteSet(S), S # {}, NEW R, IsTransitive(R), \A x \in S : <<x, x>> \notin R
  PROVE  \E x \in S : \A y \in S : <<x, y>> \notin R
<1> DEFINE after(x) == {y \in S : <<x, y>> \in R}
           sizes == {Cardinality(after(x)) : x \in S}
<1>1. \A x \in S : IsFiniteSet(after(x)) /\ Cardinality(after(x)) \in Nat
  BY FS_Subset, FS_CardinalityType
<1>2. sizes \in SUBSET Nat /\ sizes # {}
  BY <1>1
<1>3. PICK n \in sizes : \A m \in sizes : n <= m
  <2> HIDE DEF sizes
  <2> QED BY <1>2, LeastElement
<1>4. PICK x \in S : n = Cardinality(after(x))
  BY <1>3
<1>5. ASSUME NEW y \in S, <<x, y>> \in R PROVE FALSE
  <2>1. after(y) \subseteq after(x)
    BY <1>5 DEF IsTransitive
  <2>2. y \in after(x) /\ y \notin after(y)
    BY <1>5
  <2>3. Cardinality(after(y)) < Cardinality(after(x))
    <3> HIDE DEF after
    <3>1. IsFiniteSet(after(x)) /\ after(y) # after(x)
      BY <1>1, <2>2
    <3>2. Cardinality(after(y)) <= Cardinality(after(x))
          /\ (Cardinality(after(y)) = Cardinality(after(x)) => after(y) = after(x))
      BY <2>1, <3>1, FS_Subset
    <3> QED BY <1>1, <3>1, <3>2
  <2>4. Cardinality(after(y)) \in sizes
    OBVIOUS
  <2> HIDE DEF after, sizes
  <2> QED BY <1>1, <1>3, <1>4, <2>3, <2>4
<1> QED BY <1>5

\* If every edge that leaves S ends in D, and D is in S, every path that leaves S
\* ends in D.
LEMMA PathsEndIn ==
  ASSUME NEW edges0, IsFiniteSet(GraphNodes(edges0)), NEW S, NEW D, D \subseteq S,
         edges0 \subseteq GraphNodes(edges0) \X GraphNodes(edges0),
         \A x \in S : \A y : <<x, y>> \in edges0 => y \in D
  PROVE  \A x \in S : \A y : <<x, y>> \in TransitiveClosureOf(edges0) => y \in D
<1> DEFINE N == GraphNodes(edges0)
           R == {p \in N \X N : p[1] \in S => p[2] \in D}
<1>1. edges0 \subseteq R
  OBVIOUS
<1>2. IsTransitive(R)
  BY DEF IsTransitive
<1> HIDE DEF R
<1>3. TransitiveClosureOf(edges0) \subseteq R
  BY <1>1, <1>2, ClosureIsLeastTransitive
<1> QED BY <1>3 DEF R

\* The closure of a symmetric relation is symmetric.
LEMMA ClosureSymmetric ==
  ASSUME NEW edges0, IsFiniteSet(GraphNodes(edges0)),
         edges0 \subseteq GraphNodes(edges0) \X GraphNodes(edges0),
         \A x, y : <<x, y>> \in edges0 => <<y, x>> \in edges0
  PROVE  \A x, y : <<x, y>> \in TransitiveClosureOf(edges0) => <<y, x>> \in TransitiveClosureOf(edges0)
<1> DEFINE N == GraphNodes(edges0)
           C == TransitiveClosureOf(edges0)
           R == {p \in N \X N : <<p[2], p[1]>> \in C}
<1>1. edges0 \subseteq C /\ IsTransitive(C)
  BY ClosureIsLeastTransitive
<1>2. edges0 \subseteq R
  <2> SUFFICES ASSUME NEW p \in edges0 PROVE p \in R
    OBVIOUS
  <2>1. p \in N \X N /\ p = <<p[1], p[2]>>
    OBVIOUS
  <2>2. <<p[2], p[1]>> \in edges0
    BY <2>1
  <2> HIDE DEF C, N
  <2> QED BY <1>1, <2>1, <2>2
<1>3. IsTransitive(R)
  <2> HIDE DEF C, N
  <2> QED BY <1>1 DEF IsTransitive
<1>4. C \subseteq R
  <2> HIDE DEF R
  <2> QED BY <1>2, <1>3, ClosureIsLeastTransitive
<1> HIDE DEF C
<1> SUFFICES ASSUME NEW x, NEW y, <<x, y>> \in C PROVE <<y, x>> \in C
  BY DEF C
<1>5. <<x, y>> \in R
  BY <1>4
<1> QED BY <1>5

-----------------------------------------------------------------------------
(***************************************************************************)
(* The request.                                                            *)
(***************************************************************************)

LEMMA DescriptorOfId ==
  ASSUME NEW id \in Ids
  PROVE  Descriptor(id) \in request.slices /\ Descriptor(id).sliceId = id
BY DEF Ids, Descriptor

LEMMA DescriptorIsUnique ==
  ASSUME GraphIsConsistent(request.slices)
  PROVE  \A d \in request.slices : d.sliceId \in Ids /\ Descriptor(d.sliceId) = d
BY DEF GraphIsConsistent, Ids, Descriptor

LEMMA RequestIsFinite ==
  ASSUME request \in Requests
  PROVE  /\ IsFiniteSet(Ids)
         /\ Ids \subseteq Nat
         /\ \A id \in Ids : IsFiniteSet(DependenciesOf(id)) /\ Descriptor(id).priority \in Nat
         /\ LaneCap \in Nat
<1>1. IsFiniteSet(Ids)
  <2> DEFINE f == [d \in request.slices |-> d.sliceId]
  <2>1. f \in Surjection(request.slices, Ids)
    BY DEF Surjection, Ids
  <2>2. IsFiniteSet(request.slices)
    BY PlannerAssumption
  <2> QED BY <2>1, <2>2, FS_Surjection
<1>2. Ids \subseteq Nat
  BY PlannerAssumption DEF Ids
<1>3. \A id \in Ids : IsFiniteSet(DependenciesOf(id)) /\ Descriptor(id).priority \in Nat
  BY DescriptorOfId, PlannerAssumption DEF DependenciesOf
<1>4. LaneCap \in Nat
  <2>1. Envelope.maxParallelLanes \in Nat /\ PolicyLaneCap \in Nat
    BY PlannerAssumption DEF Envelope, PolicyLaneCap
  <2> QED BY <2>1 DEF LaneCap, Min
<1> QED BY <1>1, <1>2, <1>3, <1>4

LEMMA RequestEdgePairs ==
  ASSUME request \in Requests, GraphIsConsistent(request.slices),
         \A id \in Ids : DependenciesOf(id) \subseteq Ids
  PROVE  /\ \A x, y : <<x, y>> \in RequestEdges <=> x \in Ids /\ y \in DependenciesOf(x)
         /\ IsFiniteSet(GraphNodes(RequestEdges))
         /\ RequestEdges \subseteq GraphNodes(RequestEdges) \X GraphNodes(RequestEdges)
<1>1. \A e : e \in RequestEdges <=> \E d \in request.slices : \E y \in d.dependencySet : e = <<d.sliceId, y>>
  BY DEF RequestEdges, DependencyEdges
<1>2. \A x, y : <<x, y>> \in RequestEdges <=> x \in Ids /\ y \in DependenciesOf(x)
  BY <1>1, DescriptorIsUnique, DescriptorOfId DEF DependenciesOf
<1>3. \A e \in RequestEdges : e \in Ids \X Ids
  BY <1>1, DescriptorIsUnique DEF DependenciesOf
<1>4. GraphNodes(RequestEdges) \subseteq Ids
  BY <1>3 DEF GraphNodes
<1>5. IsFiniteSet(GraphNodes(RequestEdges))
  BY <1>4, RequestIsFinite, FS_Subset
<1>6. RequestEdges \subseteq GraphNodes(RequestEdges) \X GraphNodes(RequestEdges)
  BY <1>3 DEF GraphNodes
<1> QED BY <1>2, <1>5, <1>6

\* The sort key is compared field by field.
LEMMA PrecedesByKey ==
  ASSUME request \in Requests, depth \in [Ids -> Nat], NEW a \in Ids, NEW b \in Ids
  PROVE  Precedes(a, b) <=>
           \/ Descriptor(a).priority < Descriptor(b).priority
           \/ /\ Descriptor(a).priority = Descriptor(b).priority
              /\ depth[a] < depth[b]
           \/ /\ Descriptor(a).priority = Descriptor(b).priority
              /\ depth[a] = depth[b]
              /\ a < b
<1> DEFINE ka == <<Descriptor(a).priority, depth[a], a>>
           kb == <<Descriptor(b).priority, depth[b], b>>
           first == {i \in 1..3 : ka[i] # kb[i]}
<1>1. Precedes(a, b) <=> first # {} /\ ka[Min(first)] < kb[Min(first)]
  BY DEF Precedes
<1>2. \A i \in 1..3 : ka[i] \in Nat /\ kb[i] \in Nat
  BY RequestIsFinite
<1>3. /\ ka[1] = Descriptor(a).priority /\ kb[1] = Descriptor(b).priority
      /\ ka[2] = depth[a] /\ kb[2] = depth[b] /\ ka[3] = a /\ kb[3] = b
  OBVIOUS
<1> HIDE DEF ka, kb
<1>4. CASE ka[1] # kb[1]
  <2>1. 1 \in first /\ Min(first) = 1
    BY <1>4 DEF Min
  <2> QED BY <1>1, <1>2, <1>3, <1>4, <2>1
<1>5. CASE ka[1] = kb[1] /\ ka[2] # kb[2]
  <2>1. 2 \in first /\ Min(first) = 2
    BY <1>5 DEF Min
  <2> QED BY <1>1, <1>2, <1>3, <1>5, <2>1
<1>6. CASE ka[1] = kb[1] /\ ka[2] = kb[2] /\ ka[3] # kb[3]
  <2>1. 3 \in first /\ Min(first) = 3
    BY <1>6 DEF Min
  <2> QED BY <1>1, <1>2, <1>3, <1>6, <2>1
<1>7. CASE ka[1] = kb[1] /\ ka[2] = kb[2] /\ ka[3] = kb[3]
  <2>1. first = {}
    BY <1>7
  <2> QED BY <1>1, <1>2, <1>3, <1>7, <2>1
<1> QED BY <1>4, <1>5, <1>6, <1>7

\* The walk always has a next Slice, which precedes all that are left.
LEMMA NextPrecedes ==
  ASSUME request \in Requests, depth \in [Ids -> Nat], todo \subseteq Ids, todo # {}
  PROVE  /\ NextEligible \in todo
         /\ \A other \in todo \ {NextEligible} : Precedes(NextEligible, other)
<1> DEFINE R == {p \in todo \X todo : Precedes(p[2], p[1])}
<1>1. \A a, b \in todo : <<a, b>> \in R <=> Precedes(b, a)
  OBVIOUS
<1>2. IsTransitive(R)
  <2> SUFFICES ASSUME NEW x, NEW y, NEW z, <<x, y>> \in R, <<y, z>> \in R PROVE <<x, z>> \in R
    BY DEF IsTransitive
  <2>1. x \in todo /\ y \in todo /\ z \in todo /\ Precedes(y, x) /\ Precedes(z, y)
    OBVIOUS
  <2>2. Precedes(z, x)
    BY <2>1, PrecedesByKey, RequestIsFinite
  <2> QED BY <2>1, <2>2
<1>3. \A x \in todo : <<x, x>> \notin R
  <2> SUFFICES ASSUME NEW x \in todo PROVE ~Precedes(x, x)
    OBVIOUS
  <2> QED BY PrecedesByKey, RequestIsFinite
<1>4. IsFiniteSet(todo)
  BY RequestIsFinite, FS_Subset
<1> HIDE DEF R
<1>5. PICK x \in todo : \A y \in todo : <<x, y>> \notin R
  BY <1>2, <1>3, <1>4, LastElement
<1>6. \A y \in todo \ {x} : Precedes(x, y)
  <2> SUFFICES ASSUME NEW y \in todo, y # x PROVE Precedes(x, y)
    OBVIOUS
  <2>1. ~Precedes(y, x)
    BY <1>1, <1>5
  <2> QED BY <2>1, PrecedesByKey, RequestIsFinite
<1> QED BY <1>6 DEF NextEligible

\* Clusters are classes: the conflict edges go both ways.
LEMMA ClustersSymmetric ==
  ASSUME request \in Requests
  PROVE  \A a, b : SameCluster(RequestGraph, a, b) => SameCluster(RequestGraph, b, a)
<1> DEFINE E == ConflictEdges(RequestGraph)
           N == GraphNodes(E)
<1>1. \A e : e \in E <=> \E f, g \in RequestGraph :
                           /\ f # g
                           /\ FootprintsConflict(f, g, RequestGraph)
                           /\ e = <<f.sliceId, g.sliceId>>
  <2> DEFINE pairs == {p \in RequestGraph \X RequestGraph :
                         p[1] # p[2] /\ FootprintsConflict(p[1], p[2], RequestGraph)}
  <2>1. E = {<<p[1].sliceId, p[2].sliceId>> : p \in pairs}
    BY DEF ConflictEdges, FootprintsConflict
  <2>2. \A f, g : <<f, g>> \in pairs <=> /\ f \in RequestGraph /\ g \in RequestGraph
                                         /\ f # g /\ FootprintsConflict(f, g, RequestGraph)
    OBVIOUS
  <2>3. \A p \in pairs : p = <<p[1], p[2]>>
    OBVIOUS
  <2> HIDE DEF pairs, E
  <2>4. ASSUME NEW e \in E
        PROVE  \E f, g \in RequestGraph :
                 /\ f # g
                 /\ FootprintsConflict(f, g, RequestGraph)
                 /\ e = <<f.sliceId, g.sliceId>>
    <3>1. PICK p \in pairs : e = <<p[1].sliceId, p[2].sliceId>>
      BY <2>1
    <3>2. <<p[1], p[2]>> \in pairs
      BY <2>3
    <3> QED BY <2>2, <3>1, <3>2
  <2>5. ASSUME NEW f \in RequestGraph, NEW g \in RequestGraph, f # g,
               FootprintsConflict(f, g, RequestGraph)
        PROVE  <<f.sliceId, g.sliceId>> \in E
    <3>1. <<f, g>> \in pairs /\ <<f, g>>[1] = f /\ <<f, g>>[2] = g
      BY <2>2, <2>5
    <3> QED BY <2>1, <3>1
  <2> QED BY <2>4, <2>5
<1>2. \A f \in RequestGraph : f.sliceId \in Ids
  BY DEF RequestGraph, FootprintOf, FootprintFields, Ids
<1> HIDE DEF E
<1>3. \A x, y : <<x, y>> \in E => <<y, x>> \in E
  BY <1>1, ConflictSymmetric
<1>4. \A e \in E : e \in Ids \X Ids
  BY <1>1, <1>2
<1>5. N \subseteq Ids /\ E \subseteq N \X N
  BY <1>4 DEF GraphNodes
<1>6. IsFiniteSet(N)
  BY <1>5, RequestIsFinite, FS_Subset
<1>7. \A x, y : <<x, y>> \in TransitiveClosureOf(E) => <<y, x>> \in TransitiveClosureOf(E)
  BY <1>3, <1>5, <1>6, ClosureSymmetric
<1> QED BY <1>7 DEF SameCluster, E

\* What is about the request alone does not change while it is planned.
LEMMA RequestKept ==
  ASSUME UNCHANGED request
  PROVE  /\ Ids' = Ids
         /\ LaneCap' = LaneCap
         /\ RequestGraph' = RequestGraph
         /\ RequestEdges' = RequestEdges
         /\ Acyclic' = Acyclic
         /\ LongestChain' = LongestChain
         /\ \A id : Descriptor(id)' = Descriptor(id)
         /\ \A id : DependenciesOf(id)' = DependenciesOf(id)
         /\ \A d : AuthorizationReasons(d)' = AuthorizationReasons(d)
         /\ \A d : DependenciesClosed(d)' = DependenciesClosed(d)
<1>1. Ids' = Ids
  BY DEF Ids
<1>2. LaneCap' = LaneCap
  BY DEF LaneCap, Envelope
<1>3. RequestGraph' = RequestGraph
  BY DEF RequestGraph
<1>4. RequestEdges' = RequestEdges
  BY DEF RequestEdges
<1>5. \A id : Descriptor(id)' = Descriptor(id)
  BY DEF Descriptor
<1>6. \A id : DependenciesOf(id)' = DependenciesOf(id)
  BY <1>5 DEF DependenciesOf
<1>7. Acyclic' = Acyclic
  BY <1>1 DEF Acyclic
<1>8. LongestChain' = LongestChain
  BY <1>1, <1>5 DEF LongestChain, Descriptor
<1>9. \A d : AuthorizationReasons(d)' = AuthorizationReasons(d)
  BY DEF AuthorizationReasons, Envelope
<1>10. \A d : DependenciesClosed(d)' = DependenciesClosed(d)
  BY <1>5 DEF DependenciesClosed
<1> QED BY <1>1, <1>2, <1>3, <1>4, <1>5, <1>6, <1>7, <1>8, <1>9, <1>10

LEMMA PrecedesKept ==
  ASSUME UNCHANGED <<request, depth>>
  PROVE  \A a, b : Precedes(a, b)' = Precedes(a, b)
BY RequestKept DEF Precedes

LEMMA WaitsKept ==
  ASSUME UNCHANGED <<request, depth, proposed>>
  PROVE  \A w : WaitsRightly(w)' = WaitsRightly(w)
BY RequestKept, PrecedesKept DEF WaitsRightly, Rivals, SameCluster

-----------------------------------------------------------------------------
(***************************************************************************)
(* The lists of the plan.                                                  *)
(***************************************************************************)

\* Five sets that share nothing and have all of ids.
Apart(a, b, c, d, e, ids) ==
  /\ a \cup b \cup c \cup d \cup e = ids
  /\ a \cap b = {} /\ a \cap c = {} /\ a \cap d = {} /\ a \cap e = {}
  /\ b \cap c = {} /\ b \cap d = {} /\ b \cap e = {}
  /\ c \cap d = {} /\ c \cap e = {} /\ d \cap e = {}

LEMMA PartsApart ==
  ASSUME NEW a, NEW b, NEW c, NEW d, NEW e, NEW ids
  PROVE  LET parts == <<a, b, c, d, e>>
         IN (/\ UNION {parts[i] : i \in DOMAIN parts} = ids
             /\ \A i, j \in DOMAIN parts : i # j => parts[i] \cap parts[j] = {})
            <=> Apart(a, b, c, d, e, ids)
<1> DEFINE parts == <<a, b, c, d, e>>
<1>1. DOMAIN parts = 1..5
  OBVIOUS
<1>2. parts[1] = a /\ parts[2] = b /\ parts[3] = c /\ parts[4] = d /\ parts[5] = e
  OBVIOUS
<1> HIDE DEF parts
<1>3. UNION {parts[i] : i \in DOMAIN parts} = a \cup b \cup c \cup d \cup e
  BY <1>1, <1>2
<1>4. (\A i, j \in DOMAIN parts : i # j => parts[i] \cap parts[j] = {})
        => /\ a \cap b = {} /\ a \cap c = {} /\ a \cap d = {} /\ a \cap e = {}
           /\ b \cap c = {} /\ b \cap d = {} /\ b \cap e = {}
           /\ c \cap d = {} /\ c \cap e = {} /\ d \cap e = {}
  BY <1>1, <1>2
<1>5. ASSUME a \cap b = {}, a \cap c = {}, a \cap d = {}, a \cap e = {},
             b \cap c = {}, b \cap d = {}, b \cap e = {},
             c \cap d = {}, c \cap e = {}, d \cap e = {},
             NEW i \in DOMAIN parts, NEW j \in DOMAIN parts, i # j
      PROVE  parts[i] \cap parts[j] = {}
  <2>1. i \in {1, 2, 3, 4, 5} /\ j \in {1, 2, 3, 4, 5}
    BY <1>1
  <2> QED BY <1>2, <1>5, <2>1
<1> QED BY <1>3, <1>4, <1>5 DEF Apart, parts

\* The type invariant without its LET.
TypesOf ==
  /\ request \in Requests
  /\ pc \in {"normalize", "index", "order", "classify", "admit", "planned",
             "project", "projected", "raised"}
  /\ DOMAIN left \subseteq Ids /\ ready \subseteq Ids /\ todo \subseteq Ids
  /\ \A id \in DOMAIN left : left[id] \in Nat /\ depth[id] \in Nat
  /\ pc \in {"admit", "planned"} => Apart(todo, proposed, queued, blocked, rejected, Ids)

LEMMA TypesAre == PlannerTypeOK <=> TypesOf
BY PartsApart DEF PlannerTypeOK, TypesOf

LEMMA TypesAreNext == PlannerTypeOK' <=> TypesOf'
BY PartsApart DEF PlannerTypeOK, TypesOf

-----------------------------------------------------------------------------
(***************************************************************************)
(* The steps.                                                              *)
(***************************************************************************)

LEMMA PlanningInit == Init => PlanningInv
<1> SUFFICES ASSUME Init PROVE PlanningInv
  OBVIOUS
<1>1. DOMAIN left = {}
  BY DEF Init
<1>2. TypesOf
  BY <1>1 DEF Init, TypesOf
<1>3. CheckedInv /\ HeapInv /\ DepthsAreLongestChains /\ WalkInv /\ FitInv
  BY DEF Init, CheckedInv, HeapInv, DepthsAreLongestChains, WalkInv, FitInv
<1> QED BY <1>2, <1>3, TypesAre DEF PlanningInv

\* An error ends the call, and only a cycle is called one.
LEMMA RaiseStep ==
  ASSUME PlanningInv, NEW error, Raise(error), error = "DEPENDENCY_CYCLE" => ~Acyclic
  PROVE  PlanningInv'
<1>1. TypesOf'
  BY TypesAre, RequestKept DEF PlanningInv, TypesOf, Raise, orderVars, planVars, projectionVars
<1>2. DepthsAreLongestChains'
  BY RequestKept DEF Raise, DepthsAreLongestChains
<1>3. CheckedInv' /\ HeapInv' /\ WalkInv' /\ FitInv'
  BY DEF Raise, CheckedInv, HeapInv, WalkInv, FitInv
<1> QED BY <1>1, <1>2, <1>3, TypesAreNext DEF PlanningInv

LEMMA NormalizeStep ==
  ASSUME PlanningInv, Normalize
  PROVE  PlanningInv'
<1> DEFINE error == FirstFailure(RequestChecks(request))
<1>1. CASE error # None
  <2>1. error \in PlanningCodes
    BY <1>1, RequestChecksAreChecks, FirstFailureIsOne, PlanningCodesOther
  <2>2. Raise(error)
    BY <1>1 DEF Normalize
  <2> HIDE DEF error
  <2> QED BY <2>1, <2>2, RaiseStep, PlanningCodesOther
<1>2. CASE error = None
  <2>1. /\ pc = "normalize" /\ pc' = "index"
        /\ UNCHANGED <<request, code, orderVars, edges, todo, planVars, projectionVars>>
    BY <1>2 DEF Normalize
  <2> USE <2>1 DEF orderVars, planVars, projectionVars
  <2>2. GraphIsConsistent(request.slices)
    BY <1>2, RequestChecksAreChecks
  <2>3. TypesOf'
    BY TypesAre, RequestKept DEF PlanningInv, TypesOf
  <2>4. CheckedInv' /\ HeapInv' /\ DepthsAreLongestChains' /\ FitInv'
    BY <2>2 DEF PlanningInv, CheckedInv, HeapInv, DepthsAreLongestChains, FitInv
  <2>5. WalkInv'
    BY DEF PlanningInv, WalkInv
  <2> QED BY <2>3, <2>4, <2>5, TypesAreNext DEF PlanningInv
<1> QED BY <1>1, <1>2

LEMMA CountStep ==
  ASSUME PlanningInv, CountDependencies
  PROVE  PlanningInv'
<1>0. pc = "index" /\ request \in Requests /\ GraphIsConsistent(request.slices)
  BY TypesAre DEF PlanningInv, TypesOf, CheckedInv, CountDependencies
<1>1. CASE \E d \in request.slices : ~(d.dependencySet \subseteq Ids)
  <2>1. Raise("UNKNOWN_DEPENDENCY")
    BY <1>1 DEF CountDependencies
  <2> QED BY <2>1, RaiseStep
<1>2. CASE \A d \in request.slices : d.dependencySet \subseteq Ids
  <2>1. /\ left' = [id \in Ids |-> Cardinality(DependenciesOf(id))]
        /\ ready' = {id \in Ids : DependenciesOf(id) = {}}
        /\ depth' = [id \in Ids |-> 0]
        /\ todo' = Ids
        /\ pc' = "order"
        /\ UNCHANGED <<request, code, edges, planVars, projectionVars>>
    BY <1>2 DEF CountDependencies, DependenciesOf
  <2> USE <2>1 DEF planVars, projectionVars
  <2>2. \A id \in Ids : DependenciesOf(id) \subseteq Ids
    BY <1>2, DescriptorOfId DEF DependenciesOf
  <2>3. \A id \in Ids : /\ Cardinality(DependenciesOf(id)) \in Nat
                        /\ DependenciesOf(id) \cap Ids = DependenciesOf(id)
                        /\ DependenciesOf(id) \ Ids = {}
    BY <1>0, <2>2, RequestIsFinite, FS_CardinalityType
  <2>4. left' \in [Ids -> Nat] /\ depth' \in [Ids -> Nat]
    BY <2>3
  <2>5. TypesOf'
    BY <1>0, <2>4, RequestKept DEF TypesOf
  <2>6. CheckedInv'
    BY <1>0, <2>2, <2>4, RequestKept DEF CheckedInv
  <2>7. HeapInv'
    BY <2>3, RequestKept DEF HeapInv, DepthSoFar
  <2>8. DepthsAreLongestChains' /\ WalkInv' /\ FitInv'
    BY <1>0 DEF PlanningInv, DepthsAreLongestChains, WalkInv, FitInv
  <2> QED BY <2>5, <2>6, <2>7, <2>8, TypesAreNext DEF PlanningInv
<1> QED BY <1>1, <1>2

LEMMA MinInSet ==
  ASSUME NEW S \in SUBSET Nat, S # {}
  PROVE  Min(S) \in S /\ \A y \in S : Min(S) <= y
<1>1. PICK n \in S : \A m \in S : n <= m
  BY LeastElement
<1> QED BY <1>1 DEF Min

LEMMA MaxIsGreatest ==
  ASSUME NEW S \in SUBSET Nat, NEW m \in S, \A y \in S : y <= m
  PROVE  Max(S) = m
<1>1. m \in S /\ \A y \in S : m >= y
  OBVIOUS
<1>2. Max(S) \in S /\ \A y \in S : Max(S) >= y
  BY <1>1 DEF Max
<1>3. Max(S) \in Nat /\ m \in Nat /\ Max(S) >= m /\ m >= Max(S)
  BY <1>1, <1>2
<1> QED BY <1>3

\* A pop takes a Slice whose dependencies are all popped; what depends on it is
\* still to come and has one dependency less.
LEMMA OrderStep ==
  ASSUME PlanningInv, OrderNext
  PROVE  PlanningInv'
<1> DEFINE id == Min(ready)
           closure == TransitiveClosureOf(RequestEdges)
<1>0. /\ pc = "order" /\ ready # {} /\ pc' = pc
      /\ UNCHANGED <<request, code, edges, planVars, projectionVars>>
      /\ todo' = todo \ {id}
      /\ ready' = (ready \ {id}) \cup {s \in Dependents(id) : left[s] = 1}
      /\ left' = [s \in Ids |-> IF s \in Dependents(id) THEN left[s] - 1 ELSE left[s]]
      /\ depth' = [s \in Ids |-> IF s \in Dependents(id) THEN Max({depth[s], depth[id] + 1})
                                                         ELSE depth[s]]
  BY DEF OrderNext
<1>1. /\ request \in Requests /\ todo \subseteq Ids /\ ready \subseteq Ids
      /\ GraphIsConsistent(request.slices)
      /\ \A s \in Ids : DependenciesOf(s) \subseteq Ids
      /\ left \in [Ids -> Nat] /\ depth \in [Ids -> Nat]
  BY <1>0, TypesAre DEF PlanningInv, TypesOf, CheckedInv
<1>2. /\ \A s \in Ids : left[s] = Cardinality(DependenciesOf(s) \cap todo)
      /\ ready = {s \in todo : DependenciesOf(s) \cap todo = {}}
      /\ \A s \in Ids \ todo : DependenciesOf(s) \cap todo = {} /\ <<s, s>> \notin closure
      /\ \A s \in Ids : DepthSoFar(s)
  BY <1>0 DEF PlanningInv, HeapInv
<1>3. id \in ready
  BY <1>0, <1>1, RequestIsFinite, MinInSet
<1> HIDE DEF id, closure
<1>4. id \in todo /\ id \in Ids /\ DependenciesOf(id) \cap todo = {}
  BY <1>1, <1>2, <1>3
<1>5. \A s : s \in Dependents(id) <=> s \in Ids /\ id \in DependenciesOf(s)
  BY DEF Dependents, DependenciesOf
<1>6. \A s \in Dependents(id) : s \in todo /\ s # id /\ s \in Ids
  BY <1>2, <1>4, <1>5
<1>7. \A s \in Ids : /\ IsFiniteSet(DependenciesOf(s) \cap todo)
                     /\ IsFiniteSet(DependenciesOf(s) \cap todo')
                     /\ Cardinality(DependenciesOf(s) \cap todo') \in Nat
  BY <1>1, RequestIsFinite, FS_Subset, FS_CardinalityType
<1>8. ASSUME NEW s \in Ids
      PROVE  left'[s] = Cardinality(DependenciesOf(s) \cap todo')
  <2>1. CASE s \in Dependents(id)
    <3>1. DependenciesOf(s) \cap todo' = (DependenciesOf(s) \cap todo) \ {id}
      BY <1>0
    <3>2. id \in DependenciesOf(s) \cap todo
      BY <1>4, <1>5, <2>1
    <3>3. Cardinality(DependenciesOf(s) \cap todo') = Cardinality(DependenciesOf(s) \cap todo) - 1
      BY <1>7, <3>1, <3>2, FS_RemoveElement
    <3> QED BY <1>0, <1>2, <2>1, <3>3
  <2>2. CASE s \notin Dependents(id)
    <3>1. DependenciesOf(s) \cap todo' = DependenciesOf(s) \cap todo
      BY <1>0, <1>5, <2>2
    <3> QED BY <1>0, <1>2, <2>2, <3>1
  <2> QED BY <2>1, <2>2
<1>9. left' \in [Ids -> Nat]
  <2>1. \A s \in Ids : left'[s] \in Nat
    BY <1>7, <1>8
  <2> QED BY <1>0, <2>1
<1>10. depth' \in [Ids -> Nat]
  <2>1. \A a, b \in Nat : Max({a, b}) \in Nat
    BY DEF Max
  <2>2. \A s \in Ids : depth'[s] \in Nat
    BY <1>0, <1>1, <1>4, <2>1
  <2> QED BY <1>0, <2>2
<1>11. ready' = {s \in todo' : DependenciesOf(s) \cap todo' = {}}
  <2>1. ASSUME NEW s \in Dependents(id)
        PROVE  left[s] = 1 <=> DependenciesOf(s) \cap todo' = {}
    <3>1. left'[s] = left[s] - 1 /\ s \in Ids
      BY <1>0, <1>6
    <3>2. left'[s] = 0 <=> DependenciesOf(s) \cap todo' = {}
      BY <1>7, <1>8, <3>1, FS_EmptySet
    <3> QED BY <1>1, <3>1, <3>2
  <2>2. \A s \in Ids \ Dependents(id) : DependenciesOf(s) \cap todo' = DependenciesOf(s) \cap todo
    BY <1>0, <1>5
  <2>3. ASSUME NEW s \in ready' PROVE s \in todo' /\ DependenciesOf(s) \cap todo' = {}
    BY <1>0, <1>2, <1>6, <2>1, <2>3
  <2>4. ASSUME NEW s \in todo', DependenciesOf(s) \cap todo' = {} PROVE s \in ready'
    BY <1>0, <1>1, <1>2, <2>1, <2>2, <2>4
  <2> QED BY <2>3, <2>4
<1>12. \A s \in Ids \ todo' : DependenciesOf(s) \cap todo' = {} /\ <<s, s>> \notin closure
  <2> DEFINE D == Ids \ todo
             S == D \cup {id}
  <2>1. \A x \in S : DependenciesOf(x) \cap todo = {} /\ x \in Ids
    BY <1>2, <1>4
  <2>2. \A x \in S : \A y : <<x, y>> \in RequestEdges => y \in D
    BY <1>1, <2>1, RequestEdgePairs
  <2>3. \A x \in S : \A y : <<x, y>> \in closure => y \in D
    <3> HIDE DEF D
    <3>1. D \subseteq S
      OBVIOUS
    <3> HIDE DEF S
    <3> QED BY <1>1, <2>2, <3>1, RequestEdgePairs, PathsEndIn DEF closure
  <2>4. <<id, id>> \notin closure
    BY <1>4, <2>3
  <2> QED BY <1>0, <1>2, <1>4, <2>1, <2>4
<1>13. \A s \in Ids : DepthSoFar(s)'
  <2> SUFFICES ASSUME NEW s \in Ids PROVE DepthSoFar(s)'
    OBVIOUS
  <2> DEFINE seen == DependenciesOf(s) \ todo
             seen1 == DependenciesOf(s) \ todo'
  <2>1. DependenciesOf(s)' = DependenciesOf(s)
    BY <1>0, RequestKept
  <2>2. \A d \in seen1 : depth'[d] = depth[d] /\ depth[d] \in Nat
    BY <1>0, <1>1, <1>6
  <2>3. /\ seen = {} => depth[s] = 0
        /\ \A d \in seen : depth[d] < depth[s]
        /\ seen # {} => \E d \in seen : depth[s] = depth[d] + 1
    BY <1>2 DEF DepthSoFar
  <2>4. CASE s \notin Dependents(id)
    <3>1. seen1 = seen /\ depth'[s] = depth[s]
      BY <1>0, <1>5, <2>4
    <3> QED BY <2>1, <2>2, <2>3, <3>1 DEF DepthSoFar
  <2>5. CASE s \in Dependents(id)
    <3>1. seen1 = seen \cup {id}
      BY <1>0, <1>4, <1>5, <2>5
    <3>2. depth[s] \in Nat /\ depth[id] \in Nat
      BY <1>1, <1>4
    <3>3. /\ depth[s] >= depth[id] + 1 => depth'[s] = depth[s]
          /\ depth[s] < depth[id] + 1 => depth'[s] = depth[id] + 1
      <4>1. \A a, b \in Nat : (a >= b => Max({a, b}) = a) /\ (a < b => Max({a, b}) = b)
        BY DEF Max
      <4>2. depth'[s] = Max({depth[s], depth[id] + 1})
        BY <1>0, <2>5
      <4> QED BY <3>2, <4>1, <4>2
    <3>4. \A d \in seen1 : depth'[d] < depth'[s]
      BY <2>2, <2>3, <3>1, <3>2, <3>3
    <3>5. \E d \in seen1 : depth'[s] = depth'[d] + 1
      <4>1. CASE depth[s] < depth[id] + 1
        BY <2>2, <3>1, <3>3, <4>1
      <4>2. CASE depth[s] >= depth[id] + 1
        <5>1. seen # {}
          BY <2>3, <3>2, <4>2
        <5> QED BY <2>2, <2>3, <3>1, <3>3, <4>2, <5>1
      <4> QED BY <3>2, <4>1, <4>2
    <3> QED BY <2>1, <3>1, <3>4, <3>5 DEF DepthSoFar
  <2> QED BY <2>4, <2>5
<1>14. HeapInv'
  BY <1>0, <1>8, <1>11, <1>12, <1>13, RequestKept DEF HeapInv, closure
<1>15. CheckedInv'
  BY <1>0, <1>1, <1>9, <1>10, RequestKept DEF CheckedInv
<1>16. TypesOf'
  <2>1. ready' \subseteq Ids /\ todo' \subseteq Ids
    BY <1>0, <1>1, <1>6
  <2> QED BY <1>0, <1>1, <1>9, <1>10, <2>1, RequestKept DEF TypesOf
<1>17. DepthsAreLongestChains' /\ WalkInv' /\ FitInv'
  BY <1>0 DEF PlanningInv, DepthsAreLongestChains, WalkInv, FitInv, planVars, projectionVars
<1> QED BY <1>14, <1>15, <1>16, <1>17, TypesAreNext DEF PlanningInv

\* On a request without cycles the definition of the longest chain has one solution.
LEMMA LongestChainIs ==
  ASSUME request \in Requests, GraphIsConsistent(request.slices), Acyclic,
         \A id \in Ids : DependenciesOf(id) \subseteq Ids,
         NEW f, f = [id \in Ids |-> IF DependenciesOf(id) = {} THEN 0
                                    ELSE 1 + Max({f[d] : d \in DependenciesOf(id)})]
  PROVE  f = LongestChain
<1> DEFINE Solves(g) == g = [id \in Ids |-> IF Descriptor(id).dependencySet = {} THEN 0
                                ELSE 1 + Max({g[d] : d \in Descriptor(id).dependencySet})]
           closure == TransitiveClosureOf(RequestEdges)
<1>1. Solves(f)
  BY DEF DependenciesOf
<1>2. LongestChain = CHOOSE g : Solves(g)
  BY DEF LongestChain
<1>3. Solves(LongestChain)
  <2> HIDE DEF Solves
  <2> QED BY <1>1, <1>2
<1>4. ASSUME NEW g, Solves(g), f # g PROVE FALSE
  <2> DEFINE differ == {id \in Ids : f[id] # g[id]}
  <2>1. differ # {}
    <3>1. ASSUME NEW h, Solves(h) PROVE h = [id \in Ids |-> h[id]]
      <4> DEFINE value(id) == IF Descriptor(id).dependencySet = {} THEN 0
                              ELSE 1 + Max({h[d] : d \in Descriptor(id).dependencySet})
      <4>1. h = [id \in Ids |-> value(id)]
        BY <3>1
      <4> HIDE DEF value
      <4> QED BY <4>1
    <3> HIDE DEF Solves
    <3>2. f = [id \in Ids |-> f[id]] /\ g = [id \in Ids |-> g[id]]
      BY <1>1, <1>4, <3>1
    <3> QED BY <1>4, <3>2
  <2>2. IsFiniteSet(differ)
    BY RequestIsFinite, FS_Subset
  <2>3. IsTransitive(closure) /\ RequestEdges \subseteq closure
    BY RequestEdgePairs, ClosureIsLeastTransitive
  <2>4. \A x \in differ : <<x, x>> \notin closure
    BY DEF Acyclic, RequestEdges
  <2> HIDE DEF closure
  <2>5. PICK x \in differ : \A y \in differ : <<x, y>> \notin closure
    <3> HIDE DEF differ
    <3> QED BY <2>1, <2>2, <2>3, <2>4, LastElement
  <2>6. \A d \in DependenciesOf(x) : f[d] = g[d]
    BY <2>3, <2>5, RequestEdgePairs
  <2> DEFINE below(h) == {h[d] : d \in DependenciesOf(x)}
  <2>7. below(f) = below(g)
    BY <2>6
  <2>8. f[x] = IF DependenciesOf(x) = {} THEN 0 ELSE 1 + Max(below(f))
    BY <1>1 DEF DependenciesOf
  <2>9. g[x] = IF DependenciesOf(x) = {} THEN 0 ELSE 1 + Max(below(g))
    BY <1>4 DEF DependenciesOf
  <2> HIDE DEF below
  <2>10. f[x] = g[x]
    BY <2>7, <2>8, <2>9
  <2> QED BY <2>5, <2>10
<1> HIDE DEF Solves
<1> QED BY <1>3, <1>4

\* When the heap is empty, either every Slice left has a dependency left, and there is
\* a cycle, or all are ordered and the depths solve the definition of the longest chain.
LEMMA EndOrderStep ==
  ASSUME PlanningInv, EndOrder
  PROVE  PlanningInv'
<1> DEFINE closure == TransitiveClosureOf(RequestEdges)
<1>0. pc = "order" /\ ready = {}
  BY DEF EndOrder
<1>1. /\ request \in Requests /\ todo \subseteq Ids
      /\ GraphIsConsistent(request.slices)
      /\ \A s \in Ids : DependenciesOf(s) \subseteq Ids
      /\ left \in [Ids -> Nat] /\ depth \in [Ids -> Nat]
  BY <1>0, TypesAre DEF PlanningInv, TypesOf, CheckedInv
<1>2. /\ ready = {s \in todo : DependenciesOf(s) \cap todo = {}}
      /\ \A s \in Ids \ todo : <<s, s>> \notin closure
      /\ \A s \in Ids : DepthSoFar(s)
  BY <1>0 DEF PlanningInv, HeapInv
<1>3. IsTransitive(closure) /\ RequestEdges \subseteq closure
  BY <1>1, RequestEdgePairs, ClosureIsLeastTransitive
<1>4. Acyclic <=> \A s \in Ids : <<s, s>> \notin closure
  BY DEF Acyclic, RequestEdges
<1> HIDE DEF closure
<1>5. CASE todo # {}
  <2>1. Raise("DEPENDENCY_CYCLE")
    BY <1>5 DEF EndOrder
  <2>2. ASSUME Acyclic PROVE FALSE
    <3>1. IsFiniteSet(todo) /\ \A s \in todo : <<s, s>> \notin closure
      BY <1>1, <1>4, <2>2, RequestIsFinite, FS_Subset
    <3>2. PICK x \in todo : \A y \in todo : <<x, y>> \notin closure
      BY <1>3, <1>5, <3>1, LastElement
    <3>3. PICK y \in todo : y \in DependenciesOf(x)
      BY <1>0, <1>2
    <3>4. <<x, y>> \in RequestEdges
      BY <1>1, <3>3, RequestEdgePairs
    <3> QED BY <1>3, <3>2, <3>4
  <2> QED BY <2>1, <2>2, RaiseStep
<1>6. CASE todo = {}
  <2>1. /\ pc' = "classify"
        /\ UNCHANGED <<request, code, orderVars, edges, todo, planVars, projectionVars>>
    BY <1>6 DEF EndOrder
  <2> USE <2>1 DEF orderVars, planVars, projectionVars
  <2>2. Acyclic
    BY <1>2, <1>4, <1>6
  <2>3. ASSUME NEW s \in Ids
        PROVE  depth[s] = IF DependenciesOf(s) = {} THEN 0
                          ELSE 1 + Max({depth[d] : d \in DependenciesOf(s)})
    <3> DEFINE depths == {depth[d] : d \in DependenciesOf(s)}
    <3>1. /\ DependenciesOf(s) = {} => depth[s] = 0
          /\ \A d \in DependenciesOf(s) : depth[d] < depth[s]
          /\ DependenciesOf(s) # {} => \E d \in DependenciesOf(s) : depth[s] = depth[d] + 1
      BY <1>2, <1>6 DEF DepthSoFar
    <3>2. CASE DependenciesOf(s) # {}
      <4>1. PICK d \in DependenciesOf(s) : depth[s] = depth[d] + 1
        BY <3>1, <3>2
      <4>2. depths \subseteq Nat /\ depth[d] \in depths /\ depth[s] \in Nat
        BY <1>1
      <4>3. \A n \in depths : n <= depth[d]
        BY <1>1, <3>1, <4>1
      <4> HIDE DEF depths
      <4>4. Max(depths) = depth[d]
        BY <4>2, <4>3, MaxIsGreatest
      <4> QED BY <3>2, <4>1, <4>2, <4>4 DEF depths
    <3> QED BY <3>1, <3>2
  <2>4. depth = LongestChain
    <3>1. depth = [id \in Ids |-> IF DependenciesOf(id) = {} THEN 0
                                  ELSE 1 + Max({depth[d] : d \in DependenciesOf(id)})]
      BY <1>1, <2>3
    <3> QED BY <1>1, <2>2, <3>1, LongestChainIs
  <2>5. DepthsAreLongestChains'
    BY <2>2, <2>4, RequestKept DEF DepthsAreLongestChains
  <2>6. TypesOf'
    BY TypesAre, RequestKept DEF PlanningInv, TypesOf
  <2>7. CheckedInv'
    BY <1>1, RequestKept DEF CheckedInv
  <2>8. HeapInv' /\ WalkInv' /\ FitInv'
    BY <1>0 DEF PlanningInv, HeapInv, WalkInv, FitInv
  <2> QED BY <2>5, <2>6, <2>7, <2>8, TypesAreNext DEF PlanningInv
<1> QED BY <1>5, <1>6

\* What is neither rejected nor blocked is authorised and depends on closed Slices.
LEMMA ClassifyStep ==
  ASSUME PlanningInv, Classify
  PROVE  PlanningInv'
<1> DEFINE out == {d \in request.slices : Rejected(d)}
           held == {d \in request.slices \ out : d.state # "READY" \/ ~DependenciesClosed(d)}
<1>0. /\ pc = "classify" /\ pc' = "admit"
      /\ edges' = ConflictEdges(RequestGraph)
      /\ rejected' = {d.sliceId : d \in out}
      /\ blocked' = {d.sliceId : d \in held}
      /\ todo' = Ids \ (rejected' \cup blocked')
      /\ UNCHANGED <<request, code, orderVars, proposed, queued, projectionVars>>
  BY DEF Classify
<1>1. /\ request \in Requests /\ GraphIsConsistent(request.slices)
      /\ left \in [Ids -> Nat] /\ depth \in [Ids -> Nat]
      /\ \A s \in Ids : DependenciesOf(s) \subseteq Ids
      /\ proposed = {} /\ queued = {} /\ retained = {}
  BY <1>0, TypesAre DEF PlanningInv, TypesOf, CheckedInv, WalkInv, FitInv
<1>2. rejected' \cap blocked' = {} /\ rejected' \subseteq Ids /\ blocked' \subseteq Ids
  BY <1>0, <1>1, DescriptorIsUnique
<1>3. Apart(todo', proposed', queued', blocked', rejected', Ids)
  <2>1. proposed' = {} /\ queued' = {}
    BY <1>0, <1>1
  <2> HIDE DEF out, held
  <2> QED BY <1>0, <1>2, <2>1 DEF Apart
<1>4. ASSUME NEW id \in todo'
      PROVE  AuthorizationReasons(Descriptor(id)) = {} /\ DependenciesClosed(Descriptor(id))
  <2> DEFINE d == Descriptor(id)
  <2>1. id \in Ids /\ id \notin rejected' /\ id \notin blocked'
    BY <1>0
  <2>2. d \in request.slices /\ d.sliceId = id
    BY <2>1, DescriptorOfId
  <2>3. d \notin out /\ d \notin held
    <3> HIDE DEF out, held
    <3> QED BY <1>0, <2>1, <2>2
  <2>4. ~Rejected(d) /\ d.state = "READY" /\ DependenciesClosed(d)
    BY <2>2, <2>3
  <2>5. AuthorizationReasons(d) \in {{}, {"SLICE_NOT_READY"}}
    BY <2>4 DEF Rejected
  <2>6. "SLICE_NOT_READY" \notin AuthorizationReasons(d)
    BY <2>4 DEF AuthorizationReasons
  <2> QED BY <2>4, <2>5, <2>6
<1>5. LaneCap \in Nat /\ Cardinality({}) = 0
  BY <1>1, RequestIsFinite, FS_EmptySet
<1> HIDE DEF out, held
<1>6. WalkInv'
  <2>1. /\ edges' = ConflictEdges(RequestGraph') /\ proposed' = {} /\ queued' = {}
        /\ LaneCap' = LaneCap
    BY <1>0, <1>1, RequestKept
  <2>2. \A id \in proposed' \cup todo' :
          AuthorizationReasons(Descriptor(id))' = {} /\ DependenciesClosed(Descriptor(id))'
    <3> SUFFICES ASSUME NEW id \in todo'
                 PROVE  AuthorizationReasons(Descriptor(id))' = {} /\ DependenciesClosed(Descriptor(id))'
      BY <2>1
    <3>1. Descriptor(id)' = Descriptor(id)
      BY <1>0, RequestKept
    <3> QED BY <1>0, <1>4, <3>1, RequestKept
  <2> QED BY <1>0, <1>5, <2>1, <2>2 DEF WalkInv
<1>7. TypesOf'
  <2>1. ready \subseteq Ids
    BY TypesAre DEF PlanningInv, TypesOf
  <2> QED BY <1>0, <1>1, <1>3, <2>1, RequestKept DEF TypesOf, orderVars
<1>8. CheckedInv'
  BY <1>0, <1>1, RequestKept DEF CheckedInv, orderVars
<1>9. HeapInv' /\ DepthsAreLongestChains' /\ FitInv'
  BY <1>0, <1>1 DEF HeapInv, DepthsAreLongestChains, FitInv, projectionVars
<1> QED BY <1>6, <1>7, <1>8, <1>9, TypesAreNext DEF PlanningInv

\* One turn of the walk.  A Slice that has to wait is behind all that are proposed; one
\* that is proposed is of a cluster of its own.
LEMMA AdmitStep ==
  ASSUME PlanningInv, AdmitNext
  PROVE  PlanningInv'
<1> DEFINE id == NextEligible
<1>0. /\ pc = "admit" /\ pc' = pc /\ todo # {}
      /\ todo' = todo \ {id}
      /\ UNCHANGED <<request, code, orderVars, edges, blocked, rejected, projectionVars>>
      /\ IF ClusterBusy(id) \/ Cardinality(proposed) >= LaneCap
           THEN queued' = queued \cup {id} /\ UNCHANGED proposed
           ELSE proposed' = proposed \cup {id} /\ UNCHANGED queued
  BY DEF AdmitNext
<1> USE DEF orderVars, projectionVars
<1>1. /\ request \in Requests /\ todo \subseteq Ids /\ ready \subseteq Ids
      /\ GraphIsConsistent(request.slices)
      /\ left \in [Ids -> Nat] /\ depth \in [Ids -> Nat]
      /\ \A s \in Ids : DependenciesOf(s) \subseteq Ids
      /\ Apart(todo, proposed, queued, blocked, rejected, Ids)
      /\ retained = {}
  BY <1>0, TypesAre DEF PlanningInv, TypesOf, CheckedInv, FitInv
<1>2. /\ edges = ConflictEdges(RequestGraph)
      /\ proposed \subseteq Ids /\ queued \subseteq Ids
      /\ \A s \in proposed \cup todo :
           AuthorizationReasons(Descriptor(s)) = {} /\ DependenciesClosed(Descriptor(s))
      /\ Cardinality(proposed) <= LaneCap
      /\ \A a, b \in proposed : a # b => ~SameCluster(RequestGraph, a, b)
      /\ \A w \in queued : WaitsRightly(w)
      /\ \A p \in proposed \cup queued, t \in todo : Precedes(p, t)
  BY <1>0 DEF PlanningInv, WalkInv
<1>3. id \in todo /\ \A other \in todo \ {id} : Precedes(id, other)
  BY <1>0, <1>1, NextPrecedes
<1>4. ClusterBusy(id) <=> Rivals(id) # {}
  BY <1>2 DEF ClusterBusy, Rivals, SameCluster
<1> HIDE DEF id
<1>5. /\ IsFiniteSet(proposed) /\ Cardinality(proposed) \in Nat /\ LaneCap \in Nat
      /\ id \notin proposed /\ id \in Ids
  BY <1>1, <1>2, <1>3, RequestIsFinite, FS_Subset, FS_CardinalityType DEF Apart
<1>6. (/\ Apart(todo', proposed', queued', blocked', rejected', Ids)
       /\ proposed' \subseteq Ids /\ queued' \subseteq Ids
       /\ proposed' \cup todo' \subseteq proposed \cup todo
       /\ proposed' \cup queued' = proposed \cup queued \cup {id}
       /\ Cardinality(proposed') <= LaneCap
       /\ \A a, b \in proposed' : a # b => ~SameCluster(RequestGraph, a, b)
       /\ \A w \in queued' : WaitsRightly(w)')
  <2>1. CASE ClusterBusy(id) \/ Cardinality(proposed) >= LaneCap
    <3>1. queued' = queued \cup {id} /\ proposed' = proposed
      BY <1>0, <2>1
    <3>2. Apart(todo', proposed', queued', blocked', rejected', Ids)
      BY <1>0, <1>1, <1>3, <3>1 DEF Apart
    <3>3. WaitsRightly(id)
      <4>1. \A p \in proposed : Precedes(p, id)
        BY <1>2, <1>3
      <4>2. CASE Rivals(id) # {}
        BY <4>1, <4>2 DEF WaitsRightly, Rivals
      <4>3. CASE Rivals(id) = {}
        <5>1. Cardinality(proposed) = LaneCap
          BY <1>2, <1>4, <1>5, <2>1, <4>3
        <5> QED BY <4>1, <4>3, <5>1 DEF WaitsRightly
      <4> QED BY <4>2, <4>3
    <3>4. \A w \in queued' : WaitsRightly(w)'
      BY <1>0, <1>2, <3>1, <3>3, WaitsKept
    <3> QED BY <1>0, <1>2, <1>5, <3>1, <3>2, <3>4
  <2>2. CASE ~(ClusterBusy(id) \/ Cardinality(proposed) >= LaneCap)
    <3>1. queued' = queued /\ proposed' = proposed \cup {id}
      BY <1>0, <2>2
    <3>2. Apart(todo', proposed', queued', blocked', rejected', Ids)
      BY <1>0, <1>1, <1>3, <3>1 DEF Apart
    <3>3. Cardinality(proposed') <= LaneCap
      <4>1. Cardinality(proposed') = Cardinality(proposed) + 1
        BY <1>5, <3>1, FS_AddElement
      <4> QED BY <1>5, <2>2, <4>1
    <3>4. \A a, b \in proposed' : a # b => ~SameCluster(RequestGraph, a, b)
      <4>1. \A p \in proposed : ~SameCluster(RequestGraph, id, p)
        BY <1>4, <2>2 DEF Rivals
      <4>2. \A p \in proposed : ~SameCluster(RequestGraph, p, id)
        BY <1>1, <4>1, ClustersSymmetric
      <4> QED BY <1>2, <3>1, <4>1, <4>2
    <3>5. ASSUME NEW w \in queued PROVE WaitsRightly(w)'
      <4>1. PICK p \in Rivals(w) : Precedes(p, w)
        BY <1>2, <1>5, <2>2 DEF WaitsRightly
      <4>2. p \in Rivals(w)' /\ Precedes(p, w)'
        BY <1>0, <3>1, <4>1, RequestKept, PrecedesKept DEF Rivals, SameCluster
      <4> QED BY <4>2 DEF WaitsRightly
    <3> QED BY <1>0, <1>2, <1>3, <1>5, <3>1, <3>2, <3>3, <3>4, <3>5
  <2> QED BY <2>1, <2>2
<1>7. \A p \in proposed' \cup queued', t \in todo' : Precedes(p, t)'
  BY <1>0, <1>2, <1>3, <1>6, PrecedesKept
<1>8. WalkInv'
  <2>1. edges' = ConflictEdges(RequestGraph') /\ LaneCap' = LaneCap /\ Ids' = Ids
    BY <1>0, <1>2, RequestKept
  <2>2. \A s \in proposed' \cup todo' :
          AuthorizationReasons(Descriptor(s))' = {} /\ DependenciesClosed(Descriptor(s))'
    <3> SUFFICES ASSUME NEW s \in proposed' \cup todo'
                 PROVE  AuthorizationReasons(Descriptor(s))' = {} /\ DependenciesClosed(Descriptor(s))'
      OBVIOUS
    <3>1. Descriptor(s)' = Descriptor(s)
      BY <1>0, RequestKept
    <3> QED BY <1>0, <1>2, <1>6, <3>1, RequestKept
  <2>3. \A a, b : SameCluster(RequestGraph, a, b)' <=> SameCluster(RequestGraph, a, b)
    BY <1>0, RequestKept DEF SameCluster
  <2> QED BY <1>0, <1>6, <1>7, <2>1, <2>2, <2>3 DEF WalkInv
<1>9. TypesOf'
  BY <1>0, <1>1, <1>6, RequestKept DEF TypesOf
<1>10. CheckedInv'
  BY <1>0, <1>1, RequestKept DEF CheckedInv
<1>11. HeapInv' /\ DepthsAreLongestChains' /\ FitInv'
  BY <1>0, <1>1 DEF HeapInv, DepthsAreLongestChains, FitInv
<1> QED BY <1>8, <1>9, <1>10, <1>11, TypesAreNext DEF PlanningInv

\* The part of the invariant about the plan, once its lists are complete.
LEMMA PlanKept ==
  ASSUME PlanningInv, pc \in {"admit", "planned", "project", "projected"},
         pc' \in {"planned", "project", "projected"},
         UNCHANGED <<request, orderVars, edges, planVars>>,
         proposed' \cup todo' \subseteq proposed \cup todo
  PROVE  CheckedInv' /\ HeapInv' /\ DepthsAreLongestChains' /\ WalkInv'
<1> USE DEF orderVars, planVars
<1>1. CheckedInv'
  BY RequestKept DEF PlanningInv, CheckedInv
<1>2. HeapInv' /\ DepthsAreLongestChains'
  BY DEF HeapInv, DepthsAreLongestChains
<1>3. /\ edges = ConflictEdges(RequestGraph)
      /\ proposed \subseteq Ids /\ queued \subseteq Ids
      /\ \A s \in proposed \cup todo :
           AuthorizationReasons(Descriptor(s)) = {} /\ DependenciesClosed(Descriptor(s))
      /\ Cardinality(proposed) <= LaneCap
      /\ \A a, b \in proposed : a # b => ~SameCluster(RequestGraph, a, b)
      /\ \A w \in queued : WaitsRightly(w)
  BY DEF PlanningInv, WalkInv
<1>4. \A s \in proposed' \cup todo' :
        AuthorizationReasons(Descriptor(s))' = {} /\ DependenciesClosed(Descriptor(s))'
  <2> SUFFICES ASSUME NEW s \in proposed' \cup todo'
               PROVE  AuthorizationReasons(Descriptor(s))' = {} /\ DependenciesClosed(Descriptor(s))'
    OBVIOUS
  <2>1. Descriptor(s)' = Descriptor(s)
    BY RequestKept
  <2> QED BY <1>3, <2>1, RequestKept
<1>5. \A a, b : SameCluster(RequestGraph, a, b)' <=> SameCluster(RequestGraph, a, b)
  BY RequestKept DEF SameCluster
<1>6. \A w \in queued' : WaitsRightly(w)'
  BY <1>3, WaitsKept
<1>7. edges' = ConflictEdges(RequestGraph') /\ LaneCap' = LaneCap /\ Ids' = Ids
  BY <1>3, RequestKept
<1>8. WalkInv'
  BY <1>3, <1>4, <1>5, <1>6, <1>7 DEF WalkInv
<1> QED BY <1>1, <1>2, <1>8

LEMMA EndPlanStep ==
  ASSUME PlanningInv, EndPlan
  PROVE  PlanningInv'
<1>0. /\ pc = "admit" /\ pc' = "planned"
      /\ UNCHANGED <<request, code, orderVars, edges, todo, planVars, projectionVars>>
  BY DEF EndPlan
<1> USE <1>0 DEF orderVars, planVars, projectionVars
<1>1. CheckedInv' /\ HeapInv' /\ DepthsAreLongestChains' /\ WalkInv'
  BY PlanKept
<1>2. TypesOf'
  BY TypesAre, RequestKept DEF PlanningInv, TypesOf
<1>3. FitInv'
  BY DEF PlanningInv, FitInv
<1> QED BY <1>1, <1>2, <1>3, TypesAreNext DEF PlanningInv

LEMMA BeginProjectionStep ==
  ASSUME PlanningInv, NEW snapshot \in Snapshots, BeginProjection(snapshot)
  PROVE  PlanningInv'
<1> DEFINE error == FirstFailure(SnapshotBindingChecks(snapshot))
<1>1. CASE error # None
  <2>1. error \in PlanningCodes
    BY <1>1, BindingChecksAreChecks, FirstFailureIsOne, PlanningCodesOther
  <2>2. Raise(error)
    BY <1>1 DEF BeginProjection
  <2> HIDE DEF error
  <2> QED BY <2>1, <2>2, RaiseStep, PlanningCodesOther
<1>2. CASE error = None
  <2>0. /\ pc = "planned" /\ pc' = "project" /\ todo' = proposed
        /\ active' = ActiveLeases(snapshot)
        /\ UNCHANGED <<request, code, orderVars, edges, planVars, retained, waiting>>
    BY <1>2 DEF BeginProjection
  <2> USE <2>0 DEF orderVars, planVars
  <2>1. CheckedInv' /\ HeapInv' /\ DepthsAreLongestChains' /\ WalkInv'
    BY PlanKept
  <2>2. proposed \subseteq Ids /\ retained = {}
    BY DEF PlanningInv, WalkInv, FitInv
  <2>3. TypesOf'
    BY <2>2, TypesAre, RequestKept DEF PlanningInv, TypesOf
  <2>4. IsFiniteSet(active')
    BY PlannerAssumption, FS_Subset DEF ActiveLeases
  <2>5. FitInv'
    BY <2>2, <2>4 DEF FitInv
  <2> QED BY <2>1, <2>3, <2>5, TypesAreNext DEF PlanningInv
<1> QED BY <1>1, <1>2

LEMMA ProjectStep ==
  ASSUME PlanningInv, ProjectNext
  PROVE  PlanningInv'
<1> DEFINE id == Min(todo)
           conflicts(s) == \E l \in active :
              FootprintsConflict(l.fullFootprint, FootprintOf(Descriptor(s)), graph)
<1>0. /\ pc = "project" /\ pc' = pc /\ todo # {}
      /\ todo' = todo \ {id}
      /\ UNCHANGED <<request, code, orderVars, edges, planVars, active, graph>>
      /\ IF ConflictsWithActive(id) \/ Cardinality(active) + Cardinality(retained) >= LaneCap
           THEN UNCHANGED retained
           ELSE retained' = retained \cup {id}
  BY DEF ProjectNext
<1>1. \A s : ConflictsWithActive(s) <=> conflicts(s)
  BY DEF ConflictsWithActive, FootprintsConflict
<1>2. /\ request \in Requests /\ todo \subseteq Ids /\ proposed \subseteq Ids
      /\ IsFiniteSet(active)
      /\ retained \subseteq proposed /\ todo \subseteq proposed
      /\ retained \cap todo = {}
      /\ retained = {} \/ Cardinality(active) + Cardinality(retained) <= LaneCap
      /\ \A s \in retained, l \in active :
           ~FootprintsConflict(l.fullFootprint, FootprintOf(Descriptor(s)), graph)
  BY <1>0, TypesAre DEF PlanningInv, TypesOf, WalkInv, FitInv
<1>3. id \in todo
  BY <1>0, <1>2, RequestIsFinite, MinInSet
<1> HIDE DEF id
<1>4. /\ IsFiniteSet(retained) /\ Cardinality(retained) \in Nat
      /\ Cardinality(active) \in Nat /\ LaneCap \in Nat
  BY <1>2, RequestIsFinite, FS_Subset, FS_CardinalityType
<1>5. CheckedInv' /\ HeapInv' /\ DepthsAreLongestChains' /\ WalkInv'
  <2>1. proposed' \cup todo' \subseteq proposed \cup todo
    BY <1>0 DEF planVars
  <2> QED BY <1>0, <2>1, PlanKept
<1>6. TypesOf'
  BY <1>0, TypesAre, RequestKept DEF PlanningInv, TypesOf, orderVars
<1>7. /\ retained' \subseteq proposed /\ retained' \cap todo' = {}
      /\ retained' = {} \/ Cardinality(active) + Cardinality(retained') <= LaneCap
      /\ \A s \in retained', l \in active :
           ~FootprintsConflict(l.fullFootprint, FootprintOf(Descriptor(s)), graph)
  <2>1. CASE retained' = retained
    BY <1>0, <1>2, <2>1
  <2>2. CASE /\ retained' = retained \cup {id}
             /\ ~conflicts(id)
             /\ ~(Cardinality(active) + Cardinality(retained) >= LaneCap)
    <3>1. Cardinality(retained') = Cardinality(retained) + 1
      BY <1>2, <1>3, <1>4, <2>2, FS_AddElement
    <3>2. Cardinality(active) + Cardinality(retained') <= LaneCap
      BY <1>4, <2>2, <3>1
    <3> QED BY <1>0, <1>2, <1>3, <2>2, <3>2
  <2> HIDE DEF conflicts
  <2> QED BY <1>0, <1>1, <2>1, <2>2
<1>8. FitInv'
  <2>1. /\ \A s : Descriptor(s)' = Descriptor(s)
        /\ LaneCap' = LaneCap
    BY <1>0, RequestKept
  <2> QED BY <1>0, <1>2, <1>7, <2>1 DEF FitInv, planVars, FootprintOf
<1> QED BY <1>5, <1>6, <1>8, TypesAreNext DEF PlanningInv

LEMMA EndProjectionStep ==
  ASSUME PlanningInv, EndProjection
  PROVE  PlanningInv'
<1>0. /\ pc = "project" /\ pc' = "projected"
      /\ UNCHANGED <<request, code, orderVars, edges, todo, planVars, projectionVars>>
  BY DEF EndProjection
<1> USE <1>0 DEF orderVars, planVars, projectionVars
<1>1. CheckedInv' /\ HeapInv' /\ DepthsAreLongestChains' /\ WalkInv'
  BY PlanKept
<1>2. TypesOf'
  BY TypesAre, RequestKept DEF PlanningInv, TypesOf
<1>3. \A s : Descriptor(s)' = Descriptor(s)
  BY RequestKept
<1>4. FitInv'
  BY <1>3, RequestKept DEF PlanningInv, FitInv, FootprintOf
<1> QED BY <1>1, <1>2, <1>4, TypesAreNext DEF PlanningInv

LEMMA PlanningStutter ==
  ASSUME PlanningInv, UNCHANGED vars
  PROVE  PlanningInv'
<1> USE DEF vars
<1>1. PlannerTypeOK'
  <2>1. TypesOf'
    BY TypesAre, RequestKept DEF PlanningInv, TypesOf
  <2> QED BY <2>1, TypesAreNext
<1>2. CheckedInv'
  BY RequestKept DEF PlanningInv, CheckedInv
<1>3. HeapInv'
  BY RequestKept DEF PlanningInv, HeapInv, DepthSoFar
<1>4. DepthsAreLongestChains'
  BY RequestKept DEF PlanningInv, DepthsAreLongestChains
<1>5. WalkInv'
  <2>1. CASE pc \in {"planned", "project", "projected"}
    BY <2>1, PlanKept DEF orderVars, planVars
  <2>2. CASE pc \notin {"planned", "project", "projected", "admit"}
    BY <2>2 DEF PlanningInv, WalkInv
  <2>3. CASE pc = "admit"
    <3>1. \A s : AuthorizationReasons(Descriptor(s))' = AuthorizationReasons(Descriptor(s))
      BY RequestKept DEF Descriptor
    <3>2. \A s : DependenciesClosed(Descriptor(s))' = DependenciesClosed(Descriptor(s))
      BY RequestKept DEF Descriptor
    <3>3. \A a, b : SameCluster(RequestGraph, a, b)' <=> SameCluster(RequestGraph, a, b)
      BY RequestKept DEF SameCluster
    <3> QED BY <2>3, <3>1, <3>2, <3>3, RequestKept, PrecedesKept, WaitsKept DEF PlanningInv, WalkInv
  <2> QED BY <2>1, <2>2, <2>3
<1>6. FitInv'
  BY RequestKept DEF PlanningInv, FitInv, FootprintOf
<1> QED BY <1>1, <1>2, <1>3, <1>4, <1>5, <1>6 DEF PlanningInv

LEMMA PlanningInvariant == Spec => []PlanningInv
<1>1. PlanningInv /\ [Next]_vars => PlanningInv'
  BY NormalizeStep, CountStep, OrderStep, EndOrderStep, ClassifyStep, AdmitStep, EndPlanStep,
     BeginProjectionStep, ProjectStep, EndProjectionStep, PlanningStutter DEF Next
<1> QED BY <1>1, PlanningInit, PTL DEF Spec

(***************************************************************************)
(* What the coordinator binds an acquire command to can be admitted: every *)
(* Slice is in exactly one list of the plan, no two proposed Slices are of *)
(* one cluster of build_conflict_report, they fit the lanes, each is       *)
(* authorised and depends on closed Slices only, and what                  *)
(* _coordinator_projection retains fits beside the active leases.          *)
(***************************************************************************)
THEOREM PlanIsSound == Spec => []PlanInv
<1>1. PlanningInv => PlanInv
  <2> SUFFICES ASSUME PlanningInv PROVE PlanInv
    OBVIOUS
  <2>1. PlanIsAdmissible
    BY DEF PlanningInv, WalkInv, PlanIsAdmissible, DependenciesClosed
  <2>2. ProjectionFitsActive
    BY DEF PlanningInv, FitInv, ProjectionFitsActive
  <2> QED BY <2>1, <2>2 DEF PlanningInv, PlanInv
<1> QED BY <1>1, PlanningInvariant, PTL

(***************************************************************************)
(* _dependency_depths raises DEPENDENCY_CYCLE for exactly the requests     *)
(* with a cycle and gives every Slice the length of its longest chain of   *)
(* dependencies, and the walk of build_provisional_execution_plan lets no  *)
(* Slice be overtaken by one that it precedes.                             *)
(***************************************************************************)
THEOREM OrderIsSound == Spec => []OrderInv
<1>1. PlanningInv => OrderInv
  BY DEF PlanningInv, WalkInv, WaitsRightly, Rivals, NoOvertaking, OrderInv
<1> QED BY <1>1, PlanningInvariant, PTL
=============================================================================
