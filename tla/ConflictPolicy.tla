--------------------------- MODULE ConflictPolicy ---------------------------
(***************************************************************************)
(* The change-conflict predicate of controlled_conflicts.py: when may two  *)
(* Slices of one project not run side by side?  The same predicate is      *)
(* evaluated by the planner (over one planning request) and, under the     *)
(* project lock, by the coordinator (over the merged graph of the active   *)
(* leases and the proposed command).                                       *)
(*                                                                         *)
(* A footprint is a record with the fields of _FOOTPRINT_FIELDS.  A path   *)
(* is the sequence of its components; every other field is a set of        *)
(* abstract names, except producerConsumerSet, a set of <<producer,        *)
(* consumer>> pairs of owners, and sharedArtifactSet, whose members are    *)
(* <<scope, name>> pairs ("global:" artifacts have scope "global").        *)
(***************************************************************************)
EXTENDS Naturals, Sequences, FiniteSets, FiniteSetsExt

-----------------------------------------------------------------------------
(***************************************************************************)
(* Paths.                                                                  *)
(***************************************************************************)

\* path is root or lies below it.
PathIsWithin(path, root) ==
  /\ Len(root) <= Len(path)
  /\ SubSeq(path, 1, Len(root)) = root

\* Directory and file ancestry counts as overlap, in both directions.
PathsOverlap(left, right) ==
  PathIsWithin(left, right) \/ PathIsWithin(right, left)

AnyPathOverlap(lefts, rights) ==
  \E l \in lefts, r \in rights : PathsOverlap(l, r)

-----------------------------------------------------------------------------
(***************************************************************************)
(* Graphs, as sets of <<source, target>> pairs.                            *)
(***************************************************************************)

GraphNodes(edges) == {e[1] : e \in edges} \cup {e[2] : e \in edges}

\* One round of the closure: every source that reaches the pivot inherits
\* what the pivot reaches.
PivotRound(pivot, edges) ==
  edges \cup {e \in GraphNodes(edges) \X GraphNodes(edges) :
                 <<e[1], pivot>> \in edges /\ <<pivot, e[2]>> \in edges}

\* The in-place closure: one round per node, each over the result so far.
TransitiveClosureOf(edges) == FoldSet(PivotRound, edges, GraphNodes(edges))

DependencyEdges(graph) ==
  UNION {{<<f.sliceId, d>> : d \in f.dependencySet} : f \in graph}

DependencyClosure(graph) == TransitiveClosureOf(DependencyEdges(graph))

OwnerClosure(graph) ==
  TransitiveClosureOf(UNION {f.producerConsumerSet : f \in graph})

HasPath(closure, lefts, rights) ==
  \E l \in lefts, r \in rights : <<l, r>> \in closure

-----------------------------------------------------------------------------
(***************************************************************************)
(* The predicate.                                                          *)
(***************************************************************************)

WritesAuthorityOf(writer, reader) ==
  \/ AnyPathOverlap(writer.exactWriteSet, reader.authorityReferences)
  \/ AnyPathOverlap(writer.ephemeralWriteSet, reader.authorityReferences)

GlobalArtifactBarrier(f) == \E a \in f.sharedArtifactSet : a[1] = "global"

ConflictReasons(left, right, dependency, owners) ==
  {reason \in {"SAME_OWNER", "FACT_FAMILY_OVERLAP", "BINDING_OVERLAP",
               "EXACT_WRITESET_OVERLAP", "EPHEMERAL_WRITESET_OVERLAP",
               "SHARED_ARTIFACT_OVERLAP", "AUTHORITY_INPUT_WRITE",
               "DEPENDENCY_PATH", "PRODUCER_CONSUMER_PATH",
               "PUBLIC_CONTRACT_SERIAL_BARRIER", "MIGRATION_SERIAL_BARRIER",
               "GLOBAL_SHARED_ARTIFACT_BARRIER"} :
     CASE reason = "SAME_OWNER" ->
            left.ownerSet \cap right.ownerSet # {}
       [] reason = "FACT_FAMILY_OVERLAP" ->
            left.factFamilySet \cap right.factFamilySet # {}
       [] reason = "BINDING_OVERLAP" ->
            left.bindingSet \cap right.bindingSet # {}
       [] reason = "EXACT_WRITESET_OVERLAP" ->
            AnyPathOverlap(left.exactWriteSet, right.exactWriteSet)
       [] reason = "EPHEMERAL_WRITESET_OVERLAP" ->
            \/ AnyPathOverlap(left.ephemeralWriteSet, right.exactWriteSet)
            \/ AnyPathOverlap(left.exactWriteSet, right.ephemeralWriteSet)
            \/ AnyPathOverlap(left.ephemeralWriteSet, right.ephemeralWriteSet)
       [] reason = "SHARED_ARTIFACT_OVERLAP" ->
            left.sharedArtifactSet \cap right.sharedArtifactSet # {}
       [] reason = "AUTHORITY_INPUT_WRITE" ->
            WritesAuthorityOf(left, right) \/ WritesAuthorityOf(right, left)
       [] reason = "DEPENDENCY_PATH" ->
            \/ <<left.sliceId, right.sliceId>> \in dependency
            \/ <<right.sliceId, left.sliceId>> \in dependency
       [] reason = "PRODUCER_CONSUMER_PATH" ->
            \/ HasPath(owners, left.ownerSet, right.ownerSet)
            \/ HasPath(owners, right.ownerSet, left.ownerSet)
       [] reason = "PUBLIC_CONTRACT_SERIAL_BARRIER" ->
            left.publicContractSet # {} \/ right.publicContractSet # {}
       [] reason = "MIGRATION_SERIAL_BARRIER" ->
            left.migrationResourceSet # {} \/ right.migrationResourceSet # {}
       [] reason = "GLOBAL_SHARED_ARTIFACT_BARRIER" ->
            GlobalArtifactBarrier(left) \/ GlobalArtifactBarrier(right)}

\* _footprints_conflict: some reason applies, with the closures of the graph.
FootprintsConflict(left, right, graph) ==
  ConflictReasons(left, right, DependencyClosure(graph), OwnerClosure(graph)) # {}

\* build_conflict_report: the conflicts between the Slices of one planning
\* request, in both directions, as pairs of Slice identities.
ConflictEdges(graph) ==
  LET dependency == DependencyClosure(graph)
      owners == OwnerClosure(graph)
  IN {<<pair[1].sliceId, pair[2].sliceId>> : pair \in
        {p \in graph \X graph :
           /\ p[1] # p[2]
           /\ ConflictReasons(p[1], p[2], dependency, owners) # {}}}

\* _clusters: the connected components of those conflicts.
SameCluster(graph, left, right) ==
  <<left, right>> \in TransitiveClosureOf(ConflictEdges(graph))

\* The same Slice identity carries one footprint throughout a graph.
GraphIsConsistent(graph) ==
  \A f, g \in graph : f.sliceId = g.sliceId => f = g
=============================================================================
