---------------------------- MODULE PolicyProofs ----------------------------
(***************************************************************************)
(* Proofs about the change-conflict predicate, for every graph of finitely *)
(* many Slices and owners: the closure the predicate looks paths up in is  *)
(* the transitive closure, the predicate is symmetric, and a larger        *)
(* planning graph can only add conflicts.                                  *)
(*                                                                         *)
(* The closure is a fold over a set.  What such a recursion computes is    *)
(* shown by a least counterexample in place of an induction: first that    *)
(* the recursive function exists, then what each of its values satisfies.  *)
(***************************************************************************)
EXTENDS ConflictPolicy, TLAPS, FiniteSetTheorems, WellFoundedInduction

-----------------------------------------------------------------------------
(***************************************************************************)
(* Folding over a finite set.                                              *)
(***************************************************************************)

\* A nonempty set of naturals has a least element.
LEMMA LeastElement ==
  ASSUME NEW S \in SUBSET Nat, S # {}
  PROVE  \E n \in S : \A m \in S : n <= m
<1>1. PICK n \in S : \A m \in S : ~(<<m, n>> \in OpToRel(<, Nat))
  BY WFMin, NatLessThanWellFounded
<1>2. \A m \in S : n <= m
  <2> SUFFICES ASSUME NEW m \in S, m < n PROVE FALSE
    OBVIOUS
  <2>1. <<m, n>> \in OpToRel(<, Nat)
    BY DEF OpToRel
  <2> QED BY <1>1, <2>1
<1> QED BY <1>2

\* The node the fold takes out of s.
PivotOf(s) == CHOOSE x \in s : TRUE

LEMMA PivotTaken ==
  ASSUME NEW nodes, IsFiniteSet(nodes), NEW s \in SUBSET nodes
  PROVE  /\ Cardinality(s) \in Nat
         /\ Cardinality(s) = 0 <=> s = {}
         /\ Cardinality(s) <= Cardinality(nodes)
         /\ s # {} => /\ PivotOf(s) \in s
                      /\ s \ {PivotOf(s)} \in SUBSET nodes
                      /\ Cardinality(s \ {PivotOf(s)}) = Cardinality(s) - 1
<1>1. IsFiniteSet(s) /\ Cardinality(s) <= Cardinality(nodes)
  BY FS_Subset
<1>2. Cardinality(s) \in Nat /\ (Cardinality(s) = 0 <=> s = {})
  BY <1>1, FS_CardinalityType, FS_EmptySet
<1>3. s # {} => PivotOf(s) \in s
  BY DEF PivotOf
<1>4. s # {} => Cardinality(s \ {PivotOf(s)}) = Cardinality(s) - 1
  BY <1>1, <1>3, FS_RemoveElement
<1> QED BY <1>1, <1>2, <1>3, <1>4

\* Induction over the fold: a family of node sets that has the empty one and,
\* with s less its pivot, also s, has them all.
LEMMA FoldInduction ==
  ASSUME NEW nodes, IsFiniteSet(nodes), NEW good,
         {} \in good,
         \A s \in SUBSET nodes : s # {} /\ s \ {PivotOf(s)} \in good => s \in good
  PROVE  \A s \in SUBSET nodes : s \in good
<1> DEFINE bad == {n \in Nat : \E s \in SUBSET nodes : s \notin good /\ Cardinality(s) = n}
<1>1. ASSUME bad # {} PROVE FALSE
  <2>1. PICK n \in bad : \A m \in bad : n <= m
    <3>1. bad \in SUBSET Nat
      OBVIOUS
    <3> HIDE DEF bad
    <3> QED BY <1>1, <3>1, LeastElement
  <2>2. PICK s \in SUBSET nodes : s \notin good /\ Cardinality(s) = n
    BY <2>1
  <2>3. s # {}
    BY <2>2
  <2>4. /\ n \in Nat
        /\ s \ {PivotOf(s)} \in SUBSET nodes
        /\ Cardinality(s \ {PivotOf(s)}) = n - 1
        /\ Cardinality(s \ {PivotOf(s)}) \in Nat
    BY <2>2, <2>3, PivotTaken
  <2>5. s \ {PivotOf(s)} \notin good
    BY <2>2, <2>3
  <2>6. n - 1 \in bad
    BY <2>4, <2>5
  <2> QED BY <2>1, <2>4, <2>6
<1>2. \A s \in SUBSET nodes : Cardinality(s) \in Nat
  BY PivotTaken
<1> QED BY <1>1, <1>2

\* The recursive function that FoldSet picks for the closure.
IsClosing(f, edges, nodes) ==
  f = [s \in SUBSET nodes |-> IF s = {} THEN edges
                              ELSE PivotRound(PivotOf(s), f[s \ {PivotOf(s)}])]

ClosingOf(edges, nodes) == CHOOSE f : IsClosing(f, edges, nodes)

LEMMA ClosureIsClosing ==
  ASSUME NEW edges
  PROVE TransitiveClosureOf(edges) = ClosingOf(edges, GraphNodes(edges))[GraphNodes(edges)]
BY DEF TransitiveClosureOf, FoldSet, MapThenFoldSet, ClosingOf, IsClosing, PivotOf

LEMMA ClosingExists ==
  ASSUME NEW edges, NEW nodes, IsFiniteSet(nodes)
  PROVE  IsClosing(ClosingOf(edges, nodes), edges, nodes)
<1> DEFINE layer(n) == {s \in SUBSET nodes : Cardinality(s) <= n}
           body(f, s) == IF s = {} THEN edges ELSE PivotRound(PivotOf(s), f[s \ {PivotOf(s)}])
           partial(f, n) == f = [s \in layer(n) |-> body(f, s)]
           without == {n \in Nat : ~\E f : partial(f, n)}
<1>1. ASSUME without # {} PROVE FALSE
  <2>1. PICK n \in without : \A m \in without : n <= m
    <3>1. without \in SUBSET Nat
      OBVIOUS
    <3> HIDE DEF without
    <3> QED BY <1>1, <3>1, LeastElement
  <2>2. CASE n = 0
    <3> DEFINE f == [s \in layer(0) |-> edges]
    <3>1. \A s \in layer(0) : s = {}
      <4> SUFFICES ASSUME NEW s \in SUBSET nodes, Cardinality(s) <= 0 PROVE s = {}
        OBVIOUS
      <4>1. Cardinality(s) \in Nat /\ (Cardinality(s) = 0 <=> s = {})
        BY PivotTaken
      <4> QED BY <4>1
    <3> HIDE DEF layer
    <3>2. \A s \in layer(0) : body(f, s) = edges
      BY <3>1
    <3>3. f = [s \in layer(0) |-> body(f, s)]
      <4> HIDE DEF body
      <4> QED BY <3>2
    <3>4. partial(f, 0)
      BY <3>3
    <3> HIDE DEF f, partial
    <3> QED BY <2>1, <2>2, <3>4
  <2>3. CASE n > 0
    <3>1. n \in Nat /\ n - 1 \in Nat /\ n - 1 \notin without
      <4> HIDE DEF partial
      <4> QED BY <2>1, <2>3
    <3>2. PICK g : partial(g, n - 1)
      <4> HIDE DEF partial
      <4> QED BY <3>1
    <3> DEFINE f == [s \in layer(n) |-> body(g, s)]
    <3>3. \A s \in layer(n) : s # {} => s \ {PivotOf(s)} \in layer(n - 1)
      <4> SUFFICES ASSUME NEW s \in SUBSET nodes, Cardinality(s) <= n, s # {}
                   PROVE  s \ {PivotOf(s)} \in SUBSET nodes /\ Cardinality(s \ {PivotOf(s)}) <= n - 1
        OBVIOUS
      <4> QED BY <3>1, PivotTaken
    <3>4. \A s \in layer(n - 1) : s \in layer(n)
      <4> SUFFICES ASSUME NEW s \in SUBSET nodes, Cardinality(s) <= n - 1
                   PROVE  Cardinality(s) <= n
        OBVIOUS
      <4>1. Cardinality(s) \in Nat
        BY PivotTaken
      <4> QED BY <3>1, <4>1
    <3> HIDE DEF layer
    <3>5. \A s \in layer(n - 1) : g[s] = body(g, s)
      <4> HIDE DEF body
      <4> QED BY <3>2
    <3>6. \A s \in layer(n - 1) : f[s] = g[s]
      <4> HIDE DEF body
      <4> QED BY <3>4, <3>5
    <3>7. \A s \in layer(n) : body(f, s) = body(g, s)
      <4> HIDE DEF f
      <4> QED BY <3>3, <3>6
    <3>8. f = [s \in layer(n) |-> body(f, s)]
      <4>1. [s \in layer(n) |-> body(f, s)] = [s \in layer(n) |-> body(g, s)]
        <5> HIDE DEF body, f
        <5> QED BY <3>7
      <4> QED BY <4>1
    <3>9. partial(f, n)
      BY <3>8
    <3> HIDE DEF f, partial
    <3> QED BY <2>1, <3>9
  <2> QED BY <2>1, <2>2, <2>3
<1>2. Cardinality(nodes) \in Nat
  BY FS_CardinalityType
<1>3. layer(Cardinality(nodes)) = SUBSET nodes
  BY PivotTaken
<1>4. PICK f : partial(f, Cardinality(nodes))
  <2> HIDE DEF partial
  <2> QED BY <1>1, <1>2
<1>5. IsClosing(f, edges, nodes)
  BY <1>3, <1>4 DEF IsClosing
<1> QED BY <1>5 DEF ClosingOf

-----------------------------------------------------------------------------
(***************************************************************************)
(* The closure.  After the rounds of the nodes in s, whatever two edges    *)
(* through a node of s connect is connected by one.                        *)
(***************************************************************************)

IsTransitive(R) == \A x, y, z : <<x, y>> \in R /\ <<y, z>> \in R => <<x, z>> \in R

\* R has what paths of two edges through a node of s have.
ClosedThrough(R, s) ==
  \A y \in s : \A x, z : <<x, y>> \in R /\ <<y, z>> \in R => <<x, z>> \in R

LEMMA PivotRoundPairs ==
  ASSUME NEW p, NEW R
  PROVE  \A x, z : <<x, z>> \in PivotRound(p, R) <=>
                     <<x, z>> \in R \/ (<<x, p>> \in R /\ <<p, z>> \in R)
<1> SUFFICES ASSUME NEW x, NEW z, <<x, p>> \in R, <<p, z>> \in R
             PROVE  <<x, z>> \in GraphNodes(R) \X GraphNodes(R)
  BY DEF PivotRound
<1>1. <<x, p>>[1] = x /\ <<p, z>>[2] = z
  OBVIOUS
<1>2. x \in GraphNodes(R) /\ z \in GraphNodes(R)
  BY <1>1 DEF GraphNodes
<1> QED BY <1>2

LEMMA PivotRoundNodes ==
  ASSUME NEW p, NEW R, NEW nodes, GraphNodes(R) \subseteq nodes
  PROVE  GraphNodes(PivotRound(p, R)) \subseteq nodes
<1>1. \A e \in PivotRound(p, R) : e \in R \/ e \in GraphNodes(R) \X GraphNodes(R)
  BY DEF PivotRound
<1>2. \A e \in R : e[1] \in nodes /\ e[2] \in nodes
  BY DEF GraphNodes
<1>3. \A e \in GraphNodes(R) \X GraphNodes(R) : e[1] \in nodes /\ e[2] \in nodes
  OBVIOUS
<1>4. \A e \in PivotRound(p, R) : e[1] \in nodes /\ e[2] \in nodes
  BY <1>1, <1>2, <1>3
<1> QED BY <1>4 DEF GraphNodes

LEMMA PivotRoundCloses ==
  ASSUME NEW s, NEW p, NEW R, ClosedThrough(R, s)
  PROVE  ClosedThrough(PivotRound(p, R), s \cup {p})
<1> DEFINE Q == PivotRound(p, R)
<1>1. \A x, z : <<x, z>> \in Q <=> <<x, z>> \in R \/ (<<x, p>> \in R /\ <<p, z>> \in R)
  BY PivotRoundPairs
<1> HIDE DEF Q
<1> SUFFICES ASSUME NEW y \in s \cup {p}, NEW x, NEW z, <<x, y>> \in Q, <<y, z>> \in Q
             PROVE  <<x, z>> \in Q
  BY DEF Q, ClosedThrough
<1>2. CASE y = p
  BY <1>1, <1>2
<1>3. CASE y \in s
  <2>1. \A a, b : <<a, y>> \in R /\ <<y, b>> \in R => <<a, b>> \in R
    BY <1>3 DEF ClosedThrough
  <2>2. <<x, y>> \in R \/ (<<x, p>> \in R /\ <<p, y>> \in R)
    BY <1>1
  <2>3. <<y, z>> \in R \/ (<<y, p>> \in R /\ <<p, z>> \in R)
    BY <1>1
  <2>4. <<x, z>> \in R \/ (<<x, p>> \in R /\ <<p, z>> \in R)
    BY <2>1, <2>2, <2>3
  <2> QED BY <1>1, <2>4
<1> QED BY <1>2, <1>3

LEMMA ClosingSteps ==
  ASSUME NEW edges, NEW nodes, IsFiniteSet(nodes), NEW f, IsClosing(f, edges, nodes)
  PROVE  /\ f[{}] = edges
         /\ \A s \in SUBSET nodes :
              s # {} => f[s] = PivotRound(PivotOf(s), f[s \ {PivotOf(s)}])
BY DEF IsClosing

(***************************************************************************)
(* _transitive_closure computes the least transitive relation that         *)
(* contains the edges, whatever order it visits the nodes in.              *)
(***************************************************************************)
THEOREM ClosureIsLeastTransitive ==
  ASSUME NEW edges, IsFiniteSet(GraphNodes(edges))
  PROVE  /\ edges \subseteq TransitiveClosureOf(edges)
         /\ IsTransitive(TransitiveClosureOf(edges))
         /\ \A R : edges \subseteq R /\ IsTransitive(R) => TransitiveClosureOf(edges) \subseteq R
<1> DEFINE nodes == GraphNodes(edges)
           f == ClosingOf(edges, nodes)
<1>0. TransitiveClosureOf(edges) = f[nodes]
  BY ClosureIsClosing
<1>1. IsClosing(f, edges, nodes)
  BY ClosingExists
<1> HIDE DEF f
<1>2. /\ f[{}] = edges
      /\ \A s \in SUBSET nodes :
           s # {} => f[s] = PivotRound(PivotOf(s), f[s \ {PivotOf(s)}])
  BY <1>1, ClosingSteps
<1>3. edges \subseteq f[nodes] /\ GraphNodes(f[nodes]) \subseteq nodes /\ ClosedThrough(f[nodes], nodes)
  <2> DEFINE holds(s) == /\ edges \subseteq f[s]
                         /\ GraphNodes(f[s]) \subseteq nodes
                         /\ ClosedThrough(f[s], s)
             good == {s \in SUBSET nodes : holds(s)}
  <2>1. {} \in good
    BY <1>2 DEF ClosedThrough
  <2>2. ASSUME NEW s \in SUBSET nodes, s # {}, s \ {PivotOf(s)} \in good
        PROVE  s \in good
    <3> DEFINE p == PivotOf(s)
               R == f[s \ {p}]
    <3>1. f[s] = PivotRound(p, R)
      BY <1>2, <2>2
    <3>2. edges \subseteq R /\ GraphNodes(R) \subseteq nodes /\ ClosedThrough(R, s \ {p})
      BY <2>2
    <3>3. (s \ {p}) \cup {p} = s
      BY <2>2 DEF PivotOf
    <3> HIDE DEF p, R
    <3>4. edges \subseteq f[s]
      BY <3>1, <3>2 DEF PivotRound
    <3>5. GraphNodes(f[s]) \subseteq nodes
      <4> HIDE DEF nodes
      <4> QED BY <3>1, <3>2, PivotRoundNodes
    <3>6. ClosedThrough(f[s], s)
      <4>1. ClosedThrough(PivotRound(p, R), (s \ {p}) \cup {p})
        BY <3>2, PivotRoundCloses
      <4> QED BY <3>1, <3>3, <4>1
    <3> QED BY <3>4, <3>5, <3>6
  <2>3. \A s \in SUBSET nodes : s \in good
    <3> HIDE DEF good, nodes
    <3>1. IsFiniteSet(nodes)
      BY DEF nodes
    <3> QED BY <2>1, <2>2, <3>1, FoldInduction
  <2>4. nodes \in good
    <3> HIDE DEF good, nodes
    <3> QED BY <2>3
  <2> QED BY <2>4
<1>4. IsTransitive(f[nodes])
  <2> SUFFICES ASSUME NEW x, NEW y, NEW z, <<x, y>> \in f[nodes], <<y, z>> \in f[nodes]
               PROVE  <<x, z>> \in f[nodes]
    BY DEF IsTransitive
  <2>1. <<y, z>>[1] = y
    OBVIOUS
  <2>2. y \in GraphNodes(f[nodes])
    BY <2>1 DEF GraphNodes
  <2>3. y \in nodes
    BY <1>3, <2>2
  <2> HIDE DEF nodes
  <2> QED BY <1>3, <2>3 DEF ClosedThrough
<1>5. ASSUME NEW R, edges \subseteq R, IsTransitive(R) PROVE f[nodes] \subseteq R
  <2> DEFINE good == {s \in SUBSET nodes : f[s] \subseteq R}
  <2>1. {} \in good
    BY <1>2, <1>5
  <2>2. ASSUME NEW s \in SUBSET nodes, s # {}, s \ {PivotOf(s)} \in good
        PROVE  s \in good
    <3> DEFINE p == PivotOf(s)
               Q == f[s \ {p}]
    <3>1. f[s] = PivotRound(p, Q)
      BY <1>2, <2>2
    <3>2. Q \subseteq R
      BY <2>2
    <3> HIDE DEF p, Q
    <3>3. ASSUME NEW e \in PivotRound(p, Q) PROVE e \in R
      <4>1. CASE e \in Q
        BY <3>2, <4>1
      <4>2. CASE e \notin Q
        <5>1. /\ e \in GraphNodes(Q) \X GraphNodes(Q)
              /\ <<e[1], p>> \in Q /\ <<p, e[2]>> \in Q
          BY <3>3, <4>2 DEF PivotRound
        <5>2. e = <<e[1], e[2]>>
          BY <5>1
        <5>3. <<e[1], e[2]>> \in R
          BY <1>5, <3>2, <5>1 DEF IsTransitive
        <5> QED BY <5>2, <5>3
      <4> QED BY <4>1, <4>2
    <3> QED BY <3>1, <3>3
  <2>3. \A s \in SUBSET nodes : s \in good
    <3> HIDE DEF good, nodes
    <3>1. IsFiniteSet(nodes)
      BY DEF nodes
    <3> QED BY <2>1, <2>2, <3>1, FoldInduction
  <2>4. nodes \in good
    <3> HIDE DEF good, nodes
    <3> QED BY <2>3
  <2> QED BY <2>4
<1> HIDE DEF nodes
<1> QED BY <1>0, <1>3, <1>4, <1>5

\* A larger graph has the larger closure.
LEMMA ClosureMonotone ==
  ASSUME NEW edges, NEW more, edges \subseteq more, IsFiniteSet(GraphNodes(more))
  PROVE  TransitiveClosureOf(edges) \subseteq TransitiveClosureOf(more)
<1>1. GraphNodes(edges) \subseteq GraphNodes(more)
  BY DEF GraphNodes
<1>2. IsFiniteSet(GraphNodes(edges))
  BY <1>1, FS_Subset
<1>3. edges \subseteq TransitiveClosureOf(more) /\ IsTransitive(TransitiveClosureOf(more))
  BY ClosureIsLeastTransitive
<1> QED BY <1>2, <1>3, ClosureIsLeastTransitive

-----------------------------------------------------------------------------
(***************************************************************************)
(* The conflict predicate.                                                 *)
(***************************************************************************)

LEMMA OverlapSymmetric ==
  \A lefts, rights : AnyPathOverlap(lefts, rights) <=> AnyPathOverlap(rights, lefts)
BY DEF AnyPathOverlap, PathsOverlap

\* The reasons that do not depend on the graph, and those that do.
LocalConflict(left, right) ==
  \/ left.ownerSet \cap right.ownerSet # {}
  \/ left.factFamilySet \cap right.factFamilySet # {}
  \/ left.bindingSet \cap right.bindingSet # {}
  \/ AnyPathOverlap(left.exactWriteSet, right.exactWriteSet)
  \/ AnyPathOverlap(left.ephemeralWriteSet, right.exactWriteSet)
  \/ AnyPathOverlap(left.exactWriteSet, right.ephemeralWriteSet)
  \/ AnyPathOverlap(left.ephemeralWriteSet, right.ephemeralWriteSet)
  \/ left.sharedArtifactSet \cap right.sharedArtifactSet # {}
  \/ WritesAuthorityOf(left, right) \/ WritesAuthorityOf(right, left)
  \/ left.publicContractSet # {} \/ right.publicContractSet # {}
  \/ left.migrationResourceSet # {} \/ right.migrationResourceSet # {}
  \/ GlobalArtifactBarrier(left) \/ GlobalArtifactBarrier(right)

GraphConflict(left, right, dependency, owners) ==
  \/ <<left.sliceId, right.sliceId>> \in dependency
  \/ <<right.sliceId, left.sliceId>> \in dependency
  \/ HasPath(owners, left.ownerSet, right.ownerSet)
  \/ HasPath(owners, right.ownerSet, left.ownerSet)

LEMMA ConflictParts ==
  ASSUME NEW left, NEW right, NEW dependency, NEW owners
  PROVE  ConflictReasons(left, right, dependency, owners) # {} <=>
           LocalConflict(left, right) \/ GraphConflict(left, right, dependency, owners)
<1> DEFINE reasons == ConflictReasons(left, right, dependency, owners)
<1>1. /\ "SAME_OWNER" \in reasons <=> left.ownerSet \cap right.ownerSet # {}
      /\ "FACT_FAMILY_OVERLAP" \in reasons <=> left.factFamilySet \cap right.factFamilySet # {}
      /\ "BINDING_OVERLAP" \in reasons <=> left.bindingSet \cap right.bindingSet # {}
      /\ "EXACT_WRITESET_OVERLAP" \in reasons <=>
           AnyPathOverlap(left.exactWriteSet, right.exactWriteSet)
  BY DEF ConflictReasons
<1>2. /\ "EPHEMERAL_WRITESET_OVERLAP" \in reasons <=>
           \/ AnyPathOverlap(left.ephemeralWriteSet, right.exactWriteSet)
           \/ AnyPathOverlap(left.exactWriteSet, right.ephemeralWriteSet)
           \/ AnyPathOverlap(left.ephemeralWriteSet, right.ephemeralWriteSet)
      /\ "SHARED_ARTIFACT_OVERLAP" \in reasons <=>
           left.sharedArtifactSet \cap right.sharedArtifactSet # {}
      /\ "AUTHORITY_INPUT_WRITE" \in reasons <=>
           WritesAuthorityOf(left, right) \/ WritesAuthorityOf(right, left)
  BY DEF ConflictReasons
<1>3. /\ "DEPENDENCY_PATH" \in reasons <=>
           \/ <<left.sliceId, right.sliceId>> \in dependency
           \/ <<right.sliceId, left.sliceId>> \in dependency
      /\ "PRODUCER_CONSUMER_PATH" \in reasons <=>
           \/ HasPath(owners, left.ownerSet, right.ownerSet)
           \/ HasPath(owners, right.ownerSet, left.ownerSet)
  BY DEF ConflictReasons
<1>4. /\ "PUBLIC_CONTRACT_SERIAL_BARRIER" \in reasons <=>
           left.publicContractSet # {} \/ right.publicContractSet # {}
      /\ "MIGRATION_SERIAL_BARRIER" \in reasons <=>
           left.migrationResourceSet # {} \/ right.migrationResourceSet # {}
      /\ "GLOBAL_SHARED_ARTIFACT_BARRIER" \in reasons <=>
           GlobalArtifactBarrier(left) \/ GlobalArtifactBarrier(right)
  BY DEF ConflictReasons
<1>5. reasons \subseteq
        {"SAME_OWNER", "FACT_FAMILY_OVERLAP", "BINDING_OVERLAP",
         "EXACT_WRITESET_OVERLAP", "EPHEMERAL_WRITESET_OVERLAP",
         "SHARED_ARTIFACT_OVERLAP", "AUTHORITY_INPUT_WRITE",
         "DEPENDENCY_PATH", "PRODUCER_CONSUMER_PATH",
         "PUBLIC_CONTRACT_SERIAL_BARRIER", "MIGRATION_SERIAL_BARRIER",
         "GLOBAL_SHARED_ARTIFACT_BARRIER"}
  BY DEF ConflictReasons
<1> HIDE DEF reasons
<1>6. LocalConflict(left, right) \/ GraphConflict(left, right, dependency, owners)
        => reasons # {}
  BY <1>1, <1>2, <1>3, <1>4 DEF LocalConflict, GraphConflict
<1>7. reasons # {} =>
        LocalConflict(left, right) \/ GraphConflict(left, right, dependency, owners)
  BY <1>1, <1>2, <1>3, <1>4, <1>5 DEF LocalConflict, GraphConflict
<1> QED BY <1>6, <1>7 DEF reasons

LEMMA ConflictSymmetric ==
  \A left, right, graph :
    FootprintsConflict(left, right, graph) <=> FootprintsConflict(right, left, graph)
<1> SUFFICES ASSUME NEW left, NEW right, NEW graph
             PROVE  FootprintsConflict(left, right, graph) <=> FootprintsConflict(right, left, graph)
  OBVIOUS
<1>1. LocalConflict(left, right) <=> LocalConflict(right, left)
  BY OverlapSymmetric DEF LocalConflict
<1>2. GraphConflict(left, right, DependencyClosure(graph), OwnerClosure(graph)) <=>
        GraphConflict(right, left, DependencyClosure(graph), OwnerClosure(graph))
  BY DEF GraphConflict
<1> QED BY <1>1, <1>2, ConflictParts DEF FootprintsConflict

\* The planning graph has finitely many nodes of either kind.
FiniteGraph(graph) ==
  /\ IsFiniteSet(GraphNodes(DependencyEdges(graph)))
  /\ IsFiniteSet(GraphNodes(UNION {f.producerConsumerSet : f \in graph}))

(***************************************************************************)
(* A larger planning graph only adds conflicts.                            *)
(***************************************************************************)
LEMMA ConflictMonotone ==
  ASSUME NEW left, NEW right, NEW graph, NEW more, graph \subseteq more, FiniteGraph(more),
         FootprintsConflict(left, right, graph)
  PROVE  FootprintsConflict(left, right, more)
<1>1. DependencyClosure(graph) \subseteq DependencyClosure(more)
  <2>1. DependencyEdges(graph) \subseteq DependencyEdges(more)
    BY DEF DependencyEdges
  <2> QED BY <2>1, ClosureMonotone DEF DependencyClosure, FiniteGraph
<1>2. OwnerClosure(graph) \subseteq OwnerClosure(more)
  <2> DEFINE edges(g) == UNION {f.producerConsumerSet : f \in g}
  <2>1. edges(graph) \subseteq edges(more)
    OBVIOUS
  <2>2. IsFiniteSet(GraphNodes(edges(more)))
    BY DEF FiniteGraph
  <2>3. OwnerClosure(graph) = TransitiveClosureOf(edges(graph))
        /\ OwnerClosure(more) = TransitiveClosureOf(edges(more))
    BY DEF OwnerClosure
  <2> HIDE DEF edges
  <2> QED BY <2>1, <2>2, <2>3, ClosureMonotone
<1>3. GraphConflict(left, right, DependencyClosure(graph), OwnerClosure(graph)) =>
        GraphConflict(left, right, DependencyClosure(more), OwnerClosure(more))
  BY <1>1, <1>2 DEF GraphConflict, HasPath
<1> QED BY <1>3, ConflictParts DEF FootprintsConflict
=============================================================================
