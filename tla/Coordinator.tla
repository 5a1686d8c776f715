----------------------------- MODULE Coordinator -----------------------------
(***************************************************************************)
(* The Project Concurrency Coordinator (Phase 1B): the durable journal of  *)
(* fenced lane leases of one project, and the operations that change it:   *)
(*                                                                         *)
(*   controlled_coordinator.py  acquire_lane_lease, transition_lane_lease  *)
(*   controlled_write_guard.py  run_guarded_command                        *)
(*   controlled_recovery.py     observe_lane_writes,                       *)
(*                              record_project_recovery                    *)
(*                                                                         *)
(* Every operation reads the journal, decides and replaces the journal     *)
(* while it holds the exclusive project lock, so each is one action here;  *)
(* module CoordinatorStore models the lock and the replacement step by     *)
(* step.  The exception is a guarded command, which keeps the lock while a *)
(* foreground program runs: it is a beginning and an end, between which    *)
(* the lane changes and every other operation finds the lock busy.  An     *)
(* operation that raises leaves the journal alone and is no step at all.   *)
(*                                                                         *)
(* The world outside the coordinator is part of the state: the source HEAD *)
(* and the authority snapshot that a live rebuild would return, and for    *)
(* each lane directory its physical identity, its changed paths and its    *)
(* checked-out candidate.  Signatures are abstracted to their effect: a    *)
(* command the project's controller did not sign is refused, so the        *)
(* commands below are the ones it could have signed.                       *)
(***************************************************************************)
EXTENDS Integers, Sequences, FiniteSets, ConflictPolicy

CONSTANTS
  Requests,            \* the well-formed acquisition commands
  Lanes,               \* lane roots
  Identities,          \* physical directory identities (device, inode)
  Fingerprints,        \* authority snapshot fingerprints
  DevelopmentAllowed,  \* those whose permission.development fact is ALLOW
  Heads,               \* source commits
  Paths,               \* lane-relative paths
  Candidates,          \* Candidate/Parent/Tree identities
  NoCandidate,         \* candidateIdentity is None
  NextStates,          \* the states transition commands ask for
  NoKey,               \* no lease
  MaxReceipts          \* bound on the length of the journal

\* _idempotency_tuple / _lease_tuple: leaseId is the hash of this key.
Key(c) == <<c.batchPlanId, c.sliceId, c.attemptId>>

Keys == {Key(c) : c \in Requests}

(***************************************************************************)
(* What normalize_acquire_command guarantees of the commands it accepts.   *)
(***************************************************************************)
LaneCap(c) == IF c.maxParallelLanes < 3 THEN c.maxParallelLanes ELSE 3

\* A command carries the footprint of its own Slice out of its planning request.
BindsPlanningRequest(c) ==
  /\ c.laneRoot \in Lanes
  /\ c.fingerprint \in Fingerprints
  /\ c.expectedLaneBase \in Heads
  /\ c.maxParallelLanes \in Nat \ {0}
  /\ c.fullFootprint \in c.planningFootprints
  /\ c.fullFootprint.sliceId = c.sliceId
  /\ IsFiniteSet(c.planningFootprints)
  /\ \A f \in c.planningFootprints :
       IsFiniteSet(f.dependencySet) /\ IsFiniteSet(f.producerConsumerSet)

\* The batch plan identity, a digest of the plan, fixes everything in the plan.
SamePlan(c, d) ==
  /\ c.fingerprint = d.fingerprint
  /\ c.expectedLaneBase = d.expectedLaneBase
  /\ c.envelope = d.envelope
  /\ c.conflictPolicyVersion = d.conflictPolicyVersion
  /\ c.planningFootprints = d.planningFootprints

ProposedWith(c) == {d.sliceId : d \in {e \in Requests : e.batchPlanId = c.batchPlanId}}

\* The plan is the one the planner rebuilds from the request, and it proposes at
\* most one Slice of a conflict cluster and no more Slices than lanes.
PlanRebuilds(c) ==
  /\ Cardinality(ProposedWith(c)) <= LaneCap(c)
  /\ \A s, t \in ProposedWith(c) : s # t => ~SameCluster(c.planningFootprints, s, t)

ASSUME RequestsAssumption ==
  /\ IsFiniteSet(Requests)
  /\ \A c \in Requests : BindsPlanningRequest(c) /\ PlanRebuilds(c)
  /\ \A c, d \in Requests : c.batchPlanId = d.batchPlanId => SamePlan(c, d)
  /\ \A c, d \in Requests :
       c.envelope = d.envelope => c.maxParallelLanes = d.maxParallelLanes

ASSUME NoKeyAssumption == NoKey \notin Keys

ASSUME CandidateAssumption == NoCandidate \notin Candidates

ASSUME MaxReceiptsAssumption == MaxReceipts \in Nat

VARIABLES
  leases,              \* journal: the durable leases, by key
  nextFencingToken,    \* journal
  recoveryState,       \* journal
  recoveryEvidence,    \* journal
  receipts,            \* journal: one receipt for every mutation
  guard,               \* the guarded command that holds the project lock
  signed,              \* the recovery commands the controller has signed
  liveFingerprint,     \* world: what a live snapshot rebuild returns
  liveHead,            \* world: HEAD of the registered source
  laneIdentity,        \* world: the directory each lane root now names
  laneTree,            \* world: the changed paths each lane now contains
  laneCandidate,       \* world: the commit each lane has checked out
  reply                \* the last answer a caller was given

journal == <<leases, nextFencingToken, recoveryState, recoveryEvidence, receipts>>
world == <<liveFingerprint, liveHead, laneIdentity, laneTree, laneCandidate>>
vars == <<leases, nextFencingToken, recoveryState, recoveryEvidence, receipts,
          guard, signed, liveFingerprint, liveHead, laneIdentity, laneTree,
          laneCandidate, reply>>

-----------------------------------------------------------------------------
(***************************************************************************)
(* Lease states.                                                           *)
(***************************************************************************)

TerminalStates == {"CLOSED", "CANCELLED"}

ExceptionalStates == {"BLOCKED", "NO_GO", "STALE", "CANCELLED"}

RevocationStates == {"STALE", "CANCELLED"}

CandidateStates ==
  {"FIXED_CANDIDATE", "REVIEW_GO", "QUEUED_FOR_INTEGRATION", "INTEGRATING", "CLOSED"}

LeaseStates == {"ADMITTED", "ACTIVE"} \cup CandidateStates \cup ExceptionalStates

\* The edges of the lifecycle; an exceptional state has no way out.
AllowedTransitions ==
  {<<"ADMITTED", "ACTIVE">>, <<"ACTIVE", "FIXED_CANDIDATE">>,
   <<"FIXED_CANDIDATE", "REVIEW_GO">>, <<"REVIEW_GO", "QUEUED_FOR_INTEGRATION">>,
   <<"QUEUED_FOR_INTEGRATION", "INTEGRATING">>, <<"INTEGRATING", "CLOSED">>}
  \cup ({"ADMITTED", "ACTIVE", "FIXED_CANDIDATE", "REVIEW_GO",
         "QUEUED_FOR_INTEGRATION", "INTEGRATING"} \X ExceptionalStates)

\* _is_nonterminal.
IsNonterminal(lease) == ~(lease.state \in TerminalStates /\ lease.released)

\* The leases admission, planning and the journal validator count as active.
Active == {k \in DOMAIN leases : IsNonterminal(leases[k])}

\* _recoverable_leases.
Recoverable ==
  {k \in DOMAIN leases : ~leases[k].released /\ leases[k].state # "CLOSED"}

journalVersion == Len(receipts)

NoEvidence == [observedWriteSet |-> {}, decisions |-> [k \in {} |-> "STALE"]]

\* evidence.revokedLeaseIds: the decisions name exactly the revoked leases.
Revoked(evidence) == DOMAIN evidence.decisions

Idle == [key |-> NoKey, before |-> {}]

NoReply == [op |-> "NONE", key |-> NoKey, state |-> "NONE"]

Reply(op, key, state) == [op |-> op, key |-> key, state |-> state]

-----------------------------------------------------------------------------
(***************************************************************************)
(* Types.                                                                  *)
(***************************************************************************)

CandidateIds == Candidates \cup {NoCandidate}

Lease ==
  [cmd : Requests,               \* every field the ACQUIRE command fixes
   lanePhysicalIdentity : Identities,
   fencingToken : Nat,
   state : LeaseStates,
   candidateIdentity : CandidateIds,
   released : BOOLEAN,
   recoveryStatus : {"CLEAR", "PROJECT_WRITESET_RECOVERY"}]

Decisions == UNION {[D -> RevocationStates] : D \in SUBSET Keys}

Evidence == [observedWriteSet : SUBSET Paths, decisions : Decisions]

RecoveryCommand ==
  [expectedJournalVersion : Nat, observedWriteSet : SUBSET Paths, decisions : Decisions]

AcquireReceipt ==
  [receiptType : {"ACQUIRE"}, key : Keys, fencingToken : Nat]

TransitionReceipt ==
  [receiptType : {"TRANSITION"}, key : Keys, fencingToken : Nat,
   previousState : LeaseStates, nextState : LeaseStates,
   fingerprint : Fingerprints, candidateIdentity : CandidateIds]

ObservationReceipt ==
  [receiptType : {"WRITE_OBSERVATION"}, key : Keys, fencingToken : Nat,
   beforeInventory : SUBSET Paths, observedPaths : SUBSET Paths,
   evidence : Evidence]

RecoveryReceipt ==
  [receiptType : {"RECOVERY"}, fencingToken : Nat, command : RecoveryCommand,
   evidence : Evidence]

Receipt ==
  AcquireReceipt \cup TransitionReceipt \cup ObservationReceipt \cup RecoveryReceipt

Answer ==
  [op : {"NONE", "ACQUIRE", "TRANSITION", "OBSERVE", "GUARD", "RECOVER"},
   key : Keys \cup {NoKey},
   state : LeaseStates \cup {"NONE", "PROJECT_WRITESET_RECOVERY", "WRITESET_BREACH",
                             "DONE", "CLEAR"}]

(***************************************************************************)
(* The type invariant.                                                     *)
(***************************************************************************)
TypeOK ==
  /\ DOMAIN leases \subseteq Keys
  /\ leases \in [DOMAIN leases -> Lease]
  /\ nextFencingToken \in Nat
  /\ recoveryState \in {"CLEAR", "PROJECT_WRITESET_RECOVERY"}
  /\ recoveryEvidence \in Evidence
  /\ receipts \in Seq(Receipt)
  /\ guard \in [key : Keys \cup {NoKey}, before : SUBSET Paths]
  /\ signed \subseteq RecoveryCommand
  /\ liveFingerprint \in Fingerprints
  /\ liveHead \in Heads
  /\ laneIdentity \in [Lanes -> Identities]
  /\ laneTree \in [Lanes -> SUBSET Paths]
  /\ laneCandidate \in [Lanes -> CandidateIds]
  /\ reply \in Answer

-----------------------------------------------------------------------------
(***************************************************************************)
(* Lanes and observed writes.                                              *)
(***************************************************************************)

LaneOf(k) == leases[k].cmd.laneRoot

FootprintOf(k) == leases[k].cmd.fullFootprint

\* The lane root still names the directory that was leased.
LaneIdentityHolds(k) == laneIdentity[LaneOf(k)] = leases[k].lanePhysicalIdentity

\* _validate_live_lane_candidate.
LiveLaneReproduces(k, candidate) ==
  /\ LaneIdentityHolds(k)
  /\ laneCandidate[LaneOf(k)] = candidate

\* _persistent_breaches: what lies outside the declared WriteSets.
PersistentBreaches(paths, footprint) ==
  {p \in paths :
     /\ \A allowed \in footprint.exactWriteSet : ~PathsOverlap(p, allowed)
     /\ \A temporary \in footprint.ephemeralWriteSet : ~PathIsWithin(p, temporary)}

\* The declared ephemeral paths that are still present.
RemainingEphemeral(paths, footprint) ==
  {p \in paths : \E temporary \in footprint.ephemeralWriteSet : PathIsWithin(p, temporary)}

LiveBreaches(k) == PersistentBreaches(laneTree[LaneOf(k)], FootprintOf(k))

LiveEphemeral(k) == RemainingEphemeral(laneTree[LaneOf(k)], FootprintOf(k))

\* _affected_decisions, for one lease: what recovery will do with it.
AffectedDecision(k, observed) ==
  LET footprint == FootprintOf(k)
      authorityPaths == footprint.authorityReferences \cup leases[k].cmd.snapshotPaths
      declared == footprint.exactWriteSet \cup footprint.ephemeralWriteSet
  IN  IF \/ AnyPathOverlap(observed, authorityPaths)
         \/ AnyPathOverlap(observed, declared)
      THEN "STALE" ELSE "CANCELLED"

-----------------------------------------------------------------------------
(***************************************************************************)
(* Receipts, read back.                                                    *)
(***************************************************************************)

ReceiptsOfType(type) == {i \in DOMAIN receipts : receipts[i].receiptType = type}

RecoveredKeys ==
  UNION {Revoked(receipts[i].evidence) : i \in ReceiptsOfType("RECOVERY")}

\* _retired_recovery_identities: batch and attempt are retired independently.
RetiredBatches == {leases[k].cmd.batchPlanId : k \in RecoveredKeys}

\* Mutant: only a STALE decision retires the attempt.
RetiredStaleAttempts ==
  {leases[k].cmd.attemptId : k \in {j \in RecoveredKeys : leases[j].state = "STALE"}}

RetiredAttempts == {leases[k].cmd.attemptId : k \in RecoveredKeys}

\* Mutant: the lock is not kept while a guarded program runs.
LockNotKept == TRUE

\* exclusive_project_lock does not wait: COORDINATOR_LOCK_BUSY otherwise.
LockFree == guard = Idle

\* The lock is free and the journal has room below the model's bound.
CanWrite == LockFree /\ Len(receipts) < MaxReceipts

\* Mutant: a pending WriteSet recovery does not stop the project.
RecoveryNotLost == recoveryState \in {"CLEAR", "PROJECT_WRITESET_RECOVERY"}

\* COORDINATOR_RECOVERY_REQUIRED is raised otherwise.
RecoveryClear == recoveryState = "CLEAR"

Record(receipt) == receipts' = Append(receipts, receipt)

-----------------------------------------------------------------------------
(***************************************************************************)
(* acquire_lane_lease.                                                     *)
(***************************************************************************)

\* _validate_live_bindings.
LiveBindingsHold(c) ==
  /\ c.expectedLaneBase = liveHead
  /\ c.fingerprint = liveFingerprint
  /\ c.fingerprint \in DevelopmentAllowed

\* Mutant: the active leases' own graphs are left out.
PlanningGraphOfCommand(c) == c.planningFootprints

\* _planning_graph: the active leases' planning footprints and the command's.
PlanningGraph(c) ==
  (UNION {leases[k].cmd.planningFootprints : k \in Active}) \cup c.planningFootprints

\* Mutant: lanes are told apart by name only.
LaneNameApart(k, c) == LaneOf(k) # c.laneRoot

\* Lane roots are exclusive by name and by directory.
LaneApart(k, c) ==
  /\ leases[k].lanePhysicalIdentity # laneIdentity[c.laneRoot]
  /\ LaneOf(k) # c.laneRoot

\* c can run beside the active lease k.
CompatibleWith(k, c) ==
  /\ leases[k].cmd.envelope = c.envelope
  /\ leases[k].cmd.conflictPolicyVersion = c.conflictPolicyVersion
  /\ leases[k].cmd.expectedLaneBase = c.expectedLaneBase
  /\ LaneApart(k, c)
  /\ ~FootprintsConflict(FootprintOf(k), c.fullFootprint, PlanningGraph(c))

\* Mutant: the token is the number of lanes in use.
NewLeaseCounted(c) ==
  [cmd |-> c, lanePhysicalIdentity |-> laneIdentity[c.laneRoot],
   fencingToken |-> Cardinality(Active) + 1, state |-> "ADMITTED",
   candidateIdentity |-> NoCandidate, released |-> FALSE, recoveryStatus |-> "CLEAR"]

NewLease(c) ==
  [cmd |-> c, lanePhysicalIdentity |-> laneIdentity[c.laneRoot],
   fencingToken |-> nextFencingToken, state |-> "ADMITTED",
   candidateIdentity |-> NoCandidate, released |-> FALSE, recoveryStatus |-> "CLEAR"]

\* Mutant: one lane too many.
CapacityNotExceeded(c) == Cardinality(Active) <= LaneCap(c)

CapacityLeft(c) == Cardinality(Active) < LaneCap(c)

AdmissionChecks(c) ==
  /\ Key(c) \notin DOMAIN leases
  /\ c.batchPlanId \notin RetiredBatches
  /\ c.attemptId \notin RetiredAttempts
  /\ LiveBindingsHold(c)
  /\ GraphIsConsistent(PlanningGraph(c))
  /\ \A k \in Active : CompatibleWith(k, c)
  /\ CapacityLeft(c)

Acquire(c) ==
  /\ CanWrite
  /\ RecoveryClear
  /\ AdmissionChecks(c)
  /\ leases' = [k \in DOMAIN leases \cup {Key(c)} |->
                  IF k = Key(c) THEN NewLease(c) ELSE leases[k]]
  /\ nextFencingToken' = nextFencingToken + 1
  /\ Record([receiptType |-> "ACQUIRE", key |-> Key(c), fencingToken |-> nextFencingToken])
  /\ reply' = Reply("ACQUIRE", Key(c), "ADMITTED")
  /\ UNCHANGED <<recoveryState, recoveryEvidence, guard, signed, world>>

\* The same command again: the historical admission is answered, as long as
\* the lease is nonterminal and the command still matches the live world.
AcquireReplay(c) ==
  /\ LockFree
  /\ RecoveryClear
  /\ Key(c) \in DOMAIN leases
  /\ IsNonterminal(leases[Key(c)])
  /\ leases[Key(c)].cmd = c
  /\ LiveBindingsHold(c)
  /\ LaneIdentityHolds(Key(c))
  /\ reply' = Reply("ACQUIRE", Key(c), "ADMITTED")
  /\ UNCHANGED <<journal, guard, signed, world>>

-----------------------------------------------------------------------------
(***************************************************************************)
(* transition_lane_lease.  A command names the lease, its attempt and its  *)
(* token, the expected and the next state and the candidate, and is signed *)
(* against the live snapshot; the actions take the commands that agree.    *)
(***************************************************************************)

AuthorityDrifted(k) == leases[k].cmd.fingerprint # liveFingerprint

\* Mutant: drift only stops the work that still writes.
DriftStopsWriters(k, nextState) ==
  AuthorityDrifted(k) => nextState \notin {"ACTIVE", "FIXED_CANDIDATE"}

\* Authority drift leaves only explicit revocation.
DriftPermits(k, nextState) == AuthorityDrifted(k) => nextState \in RevocationStates

\* The edge is already bound to a durable command.
EdgeRecorded(k, from, to) ==
  \E i \in ReceiptsOfType("TRANSITION") :
    /\ receipts[i].key = k
    /\ receipts[i].previousState = from
    /\ receipts[i].nextState = to

\* Mutant: after fixation any candidate the lane has checked out is taken.
CandidateIsLive(k, nextState, candidate) ==
  /\ nextState \in CandidateStates => candidate # NoCandidate
  /\ candidate # NoCandidate => LiveLaneReproduces(k, candidate)

\* A candidate appears at FIXED_CANDIDATE and never changes afterwards.
CandidateAdmissible(k, nextState, candidate) ==
  /\ IF leases[k].candidateIdentity = NoCandidate
     THEN nextState = "FIXED_CANDIDATE" \/ candidate = NoCandidate
     ELSE candidate = leases[k].candidateIdentity
  /\ nextState \in CandidateStates => candidate # NoCandidate
  /\ candidate # NoCandidate => LiveLaneReproduces(k, candidate)

Transition(k, nextState, candidate) ==
  /\ CanWrite
  /\ RecoveryClear
  /\ DriftPermits(k, nextState)
  /\ ~EdgeRecorded(k, leases[k].state, nextState)
  /\ leases[k].state \notin TerminalStates
  /\ ~leases[k].released
  /\ <<leases[k].state, nextState>> \in AllowedTransitions
  /\ CandidateAdmissible(k, nextState, candidate)
  /\ leases' = [leases EXCEPT ![k].state = nextState,
                              ![k].candidateIdentity = candidate,
                              ![k].released = (nextState = "CLOSED")]
  /\ nextFencingToken' =
       IF nextState \in RevocationStates \/ AuthorityDrifted(k)
       THEN Max({nextFencingToken, leases[k].fencingToken + 1})
       ELSE nextFencingToken
  /\ Record([receiptType |-> "TRANSITION", key |-> k,
             fencingToken |-> leases[k].fencingToken,
             previousState |-> leases[k].state, nextState |-> nextState,
             fingerprint |-> liveFingerprint, candidateIdentity |-> candidate])
  /\ reply' = Reply("TRANSITION", k, nextState)
  /\ UNCHANGED <<recoveryState, recoveryEvidence, guard, signed, world>>

\* An exact replay answers what was recorded, whatever the lease is by now.
TransitionReplay(i) ==
  LET r == receipts[i] IN
  /\ LockFree
  /\ RecoveryClear
  /\ r.fingerprint = liveFingerprint
  /\ DriftPermits(r.key, r.nextState)
  /\ r.candidateIdentity # NoCandidate => LiveLaneReproduces(r.key, r.candidateIdentity)
  /\ reply' = Reply("TRANSITION", r.key, r.nextState)
  /\ UNCHANGED <<journal, guard, signed, world>>

-----------------------------------------------------------------------------
(***************************************************************************)
(* quarantine_observed_writes_locked: record a breach seen in the lane of  *)
(* k, revoke every recoverable lease of the project, raise the fencing     *)
(* floor and stop the project.  The inventory digest is the inventory.     *)
(***************************************************************************)

ObservationRecorded(k, before) ==
  \E i \in ReceiptsOfType("WRITE_OBSERVATION") :
    receipts[i].key = k /\ receipts[i].beforeInventory = before

\* Mutant: every observation starts over.
PriorEvidenceForgotten == NoEvidence

PriorEvidence == IF recoveryState = "CLEAR" THEN NoEvidence ELSE recoveryEvidence

\* Mutant: only the ACTIVE leases are marked.
QuarantinedRunning ==
  [j \in DOMAIN leases |->
     IF j \in Recoverable /\ leases[j].state = "ACTIVE"
     THEN [leases[j] EXCEPT !.recoveryStatus = "PROJECT_WRITESET_RECOVERY"]
     ELSE leases[j]]

\* The leases once every recoverable one is marked.
Quarantined ==
  [j \in DOMAIN leases |->
     IF j \in Recoverable
     THEN [leases[j] EXCEPT !.recoveryStatus = "PROJECT_WRITESET_RECOVERY"]
     ELSE leases[j]]

Quarantine(k, before, breaches) ==
  LET observed == PriorEvidence.observedWriteSet \cup breaches
      newlyRevoked == Recoverable \ Revoked(PriorEvidence)
      evidence == [observedWriteSet |-> observed,
                   decisions |-> [j \in Recoverable |-> AffectedDecision(j, observed)]]
  IN  /\ Len(receipts) < MaxReceipts
      /\ ~ObservationRecorded(k, before)
      /\ ~leases[k].released
      /\ leases' = Quarantined
      /\ nextFencingToken' =
           Max({nextFencingToken + Cardinality(newlyRevoked)}
               \cup {leases[j].fencingToken + 1 : j \in Recoverable})
      /\ recoveryState' = "PROJECT_WRITESET_RECOVERY"
      /\ recoveryEvidence' = evidence
      /\ Record([receiptType |-> "WRITE_OBSERVATION", key |-> k,
                 fencingToken |-> leases[k].fencingToken, beforeInventory |-> before,
                 observedPaths |-> breaches, evidence |-> evidence])
      /\ UNCHANGED <<signed, world>>

(***************************************************************************)
(* observe_lane_writes: the caller's observation must equal the complete   *)
(* live breach, with no ephemeral path left behind.                        *)
(***************************************************************************)
Observe(k) ==
  /\ LockFree
  /\ LaneIdentityHolds(k)
  /\ LiveEphemeral(k) = {}
  /\ LiveBreaches(k) # {}
  /\ Quarantine(k, laneTree[LaneOf(k)], LiveBreaches(k))
  /\ reply' = Reply("OBSERVE", k, "PROJECT_WRITESET_RECOVERY")
  /\ UNCHANGED guard

\* A repeated observation is answered before anything live is looked at.
ObserveReplay(i) ==
  /\ LockFree
  /\ reply' = Reply("OBSERVE", receipts[i].key, "PROJECT_WRITESET_RECOVERY")
  /\ UNCHANGED <<journal, guard, signed, world>>

-----------------------------------------------------------------------------
(***************************************************************************)
(* run_guarded_command.                                                    *)
(***************************************************************************)

\* _current_durable_lease and the lane identity check.
GuardAdmits(k) ==
  /\ LockFree
  /\ RecoveryClear
  /\ leases[k].state = "ACTIVE"
  /\ ~leases[k].released
  /\ leases[k].recoveryStatus = "CLEAR"
  /\ LaneIdentityHolds(k)

\* The lane is clean: the program starts and the lock stays held.
GuardBegin(k) ==
  /\ GuardAdmits(k)
  /\ LiveBreaches(k) = {}
  /\ guard' = [key |-> k, before |-> laneTree[LaneOf(k)]]
  /\ UNCHANGED <<journal, signed, world, reply>>

\* The lane already holds a breach: it is quarantined and nothing runs.
GuardRefuse(k) ==
  /\ GuardAdmits(k)
  /\ LiveBreaches(k) # {}
  /\ Quarantine(k, laneTree[LaneOf(k)], LiveBreaches(k))
  /\ reply' = Reply("GUARD", k, "WRITESET_BREACH")
  /\ UNCHANGED guard

\* The program ended and the lane holds nothing outside the exact WriteSet.
GuardFinish ==
  /\ guard # Idle
  /\ LaneIdentityHolds(guard.key)
  /\ LiveBreaches(guard.key) = {}
  /\ LiveEphemeral(guard.key) = {}
  /\ guard' = Idle
  /\ reply' = Reply("GUARD", guard.key, "DONE")
  /\ UNCHANGED <<journal, signed, world>>

\* The program ended and left a breach: quarantined under the same lock, and
\* bound to the inventory taken before the program ran.
GuardBreach ==
  /\ guard # Idle
  /\ LaneIdentityHolds(guard.key)
  /\ LiveBreaches(guard.key) # {}
  /\ Quarantine(guard.key, guard.before, LiveBreaches(guard.key))
  /\ guard' = Idle
  /\ reply' = Reply("GUARD", guard.key, "WRITESET_BREACH")

\* The guard raises (ephemeral paths left, a write target or the lane was
\* swapped, a scan failed) or its process dies: the lock is released and
\* nothing is recorded.
GuardFail ==
  /\ guard # Idle
  /\ guard' = Idle
  /\ UNCHANGED <<journal, signed, world, reply>>

-----------------------------------------------------------------------------
(***************************************************************************)
(* record_project_recovery.                                                *)
(***************************************************************************)

\* External: the project's recovery controller signs the evidence that is
\* pending now.  A signed command may be delivered late, or more than once.
SignRecovery ==
  /\ recoveryState = "PROJECT_WRITESET_RECOVERY"
  /\ signed' = signed \cup {[expectedJournalVersion |-> journalVersion,
                             observedWriteSet |-> recoveryEvidence.observedWriteSet,
                             decisions |-> recoveryEvidence.decisions]}
  /\ UNCHANGED <<journal, guard, world, reply>>

\* Every revoked lease was admitted under the snapshot that is live now.
RecoverySnapshotHolds ==
  /\ Revoked(recoveryEvidence) # {}
  /\ \A k \in Revoked(recoveryEvidence) : leases[k].cmd.fingerprint = liveFingerprint

\* The command binds the pending version, WriteSet and decisions exactly.
BindsPendingEvidence(command) ==
  /\ command.expectedJournalVersion = journalVersion
  /\ command.observedWriteSet = recoveryEvidence.observedWriteSet
  /\ command.decisions = recoveryEvidence.decisions

\* Mutant: a STALE lease keeps its lane.
RecoveredCancelled(command) ==
  [k \in DOMAIN leases |->
     IF k \in Revoked(recoveryEvidence)
     THEN [leases[k] EXCEPT !.state = command.decisions[k],
                            !.released = (command.decisions[k] = "CANCELLED"),
                            !.recoveryStatus = "CLEAR"]
     ELSE leases[k]]

\* The leases once every revoked one is decided and released.
Recovered(command) ==
  [k \in DOMAIN leases |->
     IF k \in Revoked(recoveryEvidence)
     THEN [leases[k] EXCEPT !.state = command.decisions[k],
                            !.released = TRUE,
                            !.recoveryStatus = "CLEAR"]
     ELSE leases[k]]

Recover(command) ==
  /\ CanWrite
  /\ recoveryState = "PROJECT_WRITESET_RECOVERY"
  /\ RecoverySnapshotHolds
  /\ BindsPendingEvidence(command)
  /\ \A k \in Revoked(recoveryEvidence) : LaneIdentityHolds(k) /\ LiveEphemeral(k) = {}
  /\ leases' = Recovered(command)
  /\ recoveryState' = "CLEAR"
  /\ Record([receiptType |-> "RECOVERY",
             fencingToken |-> Max({leases[k].fencingToken : k \in Revoked(recoveryEvidence)}),
             command |-> command, evidence |-> recoveryEvidence])
  /\ reply' = Reply("RECOVER", NoKey, "CLEAR")
  /\ UNCHANGED <<nextFencingToken, recoveryEvidence, guard, signed, world>>

\* A recorded recovery command again.
RecoverReplay ==
  /\ LockFree
  /\ ReceiptsOfType("RECOVERY") # {}
  /\ RecoverySnapshotHolds
  /\ reply' = Reply("RECOVER", NoKey, "CLEAR")
  /\ UNCHANGED <<journal, guard, signed, world>>

-----------------------------------------------------------------------------
(***************************************************************************)
(* External: what happens around the coordinator.                          *)
(***************************************************************************)

ChangeAuthority(f) ==
  /\ f # liveFingerprint
  /\ liveFingerprint' = f
  /\ UNCHANGED <<journal, guard, signed, liveHead, laneIdentity, laneTree, laneCandidate, reply>>

AdvanceHead(h) ==
  /\ h # liveHead
  /\ liveHead' = h
  /\ UNCHANGED <<journal, guard, signed, liveFingerprint, laneIdentity, laneTree,
                 laneCandidate, reply>>

\* A file of the lane is changed, by a guarded program or by anyone else.
LaneWrite(l, p) ==
  /\ p \notin laneTree[l]
  /\ laneTree' = [laneTree EXCEPT ![l] = @ \cup {p}]
  /\ UNCHANGED <<journal, guard, signed, liveFingerprint, liveHead, laneIdentity,
                 laneCandidate, reply>>

LaneClean(l, p) ==
  /\ p \in laneTree[l]
  /\ laneTree' = [laneTree EXCEPT ![l] = @ \ {p}]
  /\ UNCHANGED <<journal, guard, signed, liveFingerprint, liveHead, laneIdentity,
                 laneCandidate, reply>>

\* The lane's checked-out commit moves.
LaneCommit(l, c) ==
  /\ c # laneCandidate[l]
  /\ laneCandidate' = [laneCandidate EXCEPT ![l] = c]
  /\ UNCHANGED <<journal, guard, signed, liveFingerprint, liveHead, laneIdentity,
                 laneTree, reply>>

\* The lane directory is replaced by another one.
LaneReplace(l, d) ==
  /\ \A m \in Lanes : laneIdentity[m] # d
  /\ laneIdentity' = [laneIdentity EXCEPT ![l] = d]
  /\ laneTree' = [laneTree EXCEPT ![l] = {}]
  /\ UNCHANGED <<journal, guard, signed, liveFingerprint, liveHead, laneCandidate, reply>>

-----------------------------------------------------------------------------
(***************************************************************************)
(* The specification.                                                      *)
(***************************************************************************)

Init ==
  /\ leases = [k \in {} |-> NoKey]
  /\ nextFencingToken = 1
  /\ recoveryState = "CLEAR"
  /\ recoveryEvidence = NoEvidence
  /\ receipts = <<>>
  /\ guard = Idle
  /\ signed = {}
  /\ liveFingerprint \in Fingerprints
  /\ liveHead \in Heads
  /\ laneIdentity \in [Lanes -> Identities]
  /\ \A l, m \in Lanes : l # m => laneIdentity[l] # laneIdentity[m]
  /\ laneTree = [l \in Lanes |-> {}]
  /\ laneCandidate = [l \in Lanes |-> NoCandidate]
  /\ reply = NoReply

Coordinate ==
  \/ \E c \in Requests : Acquire(c) \/ AcquireReplay(c)
  \/ \E k \in DOMAIN leases, s \in NextStates, d \in CandidateIds : Transition(k, s, d)
  \/ \E i \in ReceiptsOfType("TRANSITION") : TransitionReplay(i)
  \/ \E k \in DOMAIN leases : Observe(k)
  \/ \E i \in ReceiptsOfType("WRITE_OBSERVATION") : ObserveReplay(i)
  \/ \E k \in DOMAIN leases : GuardBegin(k) \/ GuardRefuse(k)
  \/ GuardFinish
  \/ GuardBreach
  \/ GuardFail
  \/ \E command \in signed : Recover(command)
  \/ RecoverReplay

Environment ==
  \/ SignRecovery
  \/ \E f \in Fingerprints : ChangeAuthority(f)
  \/ \E h \in Heads : AdvanceHead(h)
  \/ \E l \in Lanes, p \in Paths : LaneWrite(l, p) \/ LaneClean(l, p)
  \/ \E l \in Lanes, c \in Candidates : LaneCommit(l, c)
  \/ \E l \in Lanes, d \in Identities : LaneReplace(l, d)

Next == Coordinate \/ Environment

Spec == Init /\ [][Next]_vars

-----------------------------------------------------------------------------
(***************************************************************************)
(* What the journal validator recomputes (_validate_recovery_integrity and *)
(* _validate_journal_integrity).  replace_journal refuses a journal that   *)
(* fails it, and a journal that fails it cannot be read any more, so an    *)
(* operation that could produce one would stop the project for good.  The  *)
(* actions above do not consult it: that they never need to is a property. *)
(***************************************************************************)

\* The effect of one receipt on the replayed <<state, released>> of each lease.
ReplayReceipt(history, r) ==
  CASE r.receiptType = "ACQUIRE" ->
         [k \in DOMAIN history \cup {r.key} |->
            IF k = r.key THEN <<"ADMITTED", FALSE>> ELSE history[k]]
    [] r.receiptType = "TRANSITION" ->
         [history EXCEPT ![r.key] = <<r.nextState, r.nextState = "CLOSED">>]
    [] r.receiptType = "WRITE_OBSERVATION" -> history
    [] r.receiptType = "RECOVERY" ->
         [k \in DOMAIN history |->
            IF k \in Revoked(r.evidence) THEN <<r.evidence.decisions[k], TRUE>>
            ELSE history[k]]

\* historical_leases after the first n receipts.
HistoricalLeases(n) ==
  LET replay[i \in 0..n] ==
        IF i = 0 THEN [k \in {} |-> <<"ADMITTED", FALSE>>]
        ELSE ReplayReceipt(replay[i - 1], receipts[i])
  IN  replay[n]

\* The observations of the recovery cycle that receipt n belongs to or ends.
CycleOf(n) ==
  {i \in ReceiptsOfType("WRITE_OBSERVATION") :
     i <= n /\ \A j \in ReceiptsOfType("RECOVERY") : ~(i < j /\ j < n)}

CycleWriteSet(n) == UNION {receipts[i].observedPaths : i \in CycleOf(n)}

-----------------------------------------------------------------------------
(***************************************************************************)
(* Safety.                                                                 *)
(***************************************************************************)

(***************************************************************************)
(* Fencing: no two leases of the project ever carry the same token, and    *)
(* the next token lies above every token that is durable anywhere in the   *)
(* journal, through transitions, revocations and recoveries (acquire,      *)
(* transition, quarantine and recovery each compute it on their own).      *)
(***************************************************************************)
TokensFenced ==
  /\ \A k \in DOMAIN leases : leases[k].fencingToken < nextFencingToken
  /\ \A i \in DOMAIN receipts : receipts[i].fencingToken < nextFencingToken
  /\ \A j, k \in DOMAIN leases :
       leases[j].fencingToken = leases[k].fencingToken => j = k

(***************************************************************************)
(* Project-wide capacity: admissions of any number of batches never hold   *)
(* more lanes than min(maxParallelLanes, 3) of the envelope of ANY lease   *)
(* that is still counted, although each admission consults its own         *)
(* envelope only.                                                          *)
(***************************************************************************)
CapacityBound ==
  \A k \in Active : Cardinality(Active) <= LaneCap(leases[k].cmd)

(***************************************************************************)
(* Lane exclusivity: two active leases never name the same lane root nor   *)
(* the same physical directory, also after lane directories were replaced. *)
(***************************************************************************)
ActiveLanesExclusive ==
  \A j, k \in Active :
    j # k => /\ LaneOf(j) # LaneOf(k)
             /\ leases[j].lanePhysicalIdentity # leases[k].lanePhysicalIdentity

(***************************************************************************)
(* Conflict freedom: two active leases never conflict over the planning    *)
(* graph of the two of them, whichever was admitted first, from whichever  *)
(* batch, and they share envelope, policy and source HEAD.                 *)
(***************************************************************************)
ActiveFootprintsDisjoint ==
  \A j, k \in Active :
    j # k =>
      /\ ~FootprintsConflict(FootprintOf(j), FootprintOf(k),
            leases[j].cmd.planningFootprints \cup leases[k].cmd.planningFootprints)
      /\ leases[j].cmd.envelope = leases[k].cmd.envelope
      /\ leases[j].cmd.conflictPolicyVersion = leases[k].cmd.conflictPolicyVersion
      /\ leases[j].cmd.expectedLaneBase = leases[k].cmd.expectedLaneBase

(***************************************************************************)
(* A breach stops the whole project: while recovery is pending the         *)
(* evidence revokes every lease that is not released or closed, each of    *)
(* them is marked, and no guarded program is running; with recovery closed *)
(* no mark is left.                                                        *)
(***************************************************************************)
QuarantineCoversProject ==
  IF recoveryState = "CLEAR"
  THEN \A k \in DOMAIN leases : leases[k].recoveryStatus = "CLEAR"
  ELSE /\ Revoked(recoveryEvidence) = Recoverable
       /\ Recoverable # {}
       /\ guard = Idle
       /\ \A k \in DOMAIN leases :
            leases[k].recoveryStatus = "PROJECT_WRITESET_RECOVERY" <=> k \in Recoverable

(***************************************************************************)
(* The receipt chain is the truth: replaying it reproduces the state and   *)
(* the release flag of every durable lease, so that the validator accepts  *)
(* whatever the operations write.                                          *)
(***************************************************************************)
ReceiptChainReproducesLeases ==
  HistoricalLeases(journalVersion)
    = [k \in DOMAIN leases |-> <<leases[k].state, leases[k].released>>]

(***************************************************************************)
(* Evidence is never lost within a recovery cycle: every observation       *)
(* carries the union of what its cycle has seen so far and revokes what    *)
(* was recoverable then, and a recovery closes exactly the last evidence   *)
(* of its cycle, under a command signed for exactly that evidence.         *)
(***************************************************************************)
CycleEvidenceComplete ==
  /\ \A i \in ReceiptsOfType("WRITE_OBSERVATION") :
       LET history == HistoricalLeases(i - 1) IN
       /\ receipts[i].evidence.observedWriteSet = CycleWriteSet(i)
       /\ Revoked(receipts[i].evidence) =
            {k \in DOMAIN history : ~history[k][2] /\ history[k][1] # "CLOSED"}
       /\ receipts[i].key \in Revoked(receipts[i].evidence)
  /\ \A i \in ReceiptsOfType("RECOVERY") :
       /\ i > 1
       /\ receipts[i - 1].receiptType = "WRITE_OBSERVATION"
       /\ receipts[i].evidence = receipts[i - 1].evidence
       /\ receipts[i].command.expectedJournalVersion = i - 1
       /\ receipts[i].command.observedWriteSet = CycleWriteSet(i)
       /\ receipts[i].command.decisions = receipts[i].evidence.decisions

(***************************************************************************)
(* Retirement is permanent: no lease is ever admitted under a batch or an  *)
(* attempt identity that an earlier recovery revoked.                      *)
(***************************************************************************)
RetiredStayRetired ==
  \A i \in ReceiptsOfType("RECOVERY"), j \in ReceiptsOfType("ACQUIRE") :
    i < j => \A k \in Revoked(receipts[i].evidence) :
               /\ leases[receipts[j].key].cmd.batchPlanId # leases[k].cmd.batchPlanId
               /\ leases[receipts[j].key].cmd.attemptId # leases[k].cmd.attemptId

(***************************************************************************)
(* A running guarded program stays fenced in: for as long as it holds the  *)
(* lock its lease is the ACTIVE, unreleased, unrevoked one it started      *)
(* under, and a breach it leaves can be quarantined: no earlier            *)
(* observation of that lease blocks it as a conflicting replay.            *)
(***************************************************************************)
GuardStaysFenced ==
  guard # Idle =>
    /\ guard.key \in DOMAIN leases
    /\ leases[guard.key].state = "ACTIVE"
    /\ guard.key \in Recoverable
    /\ recoveryState = "CLEAR"
    /\ ~\E i \in ReceiptsOfType("WRITE_OBSERVATION") : receipts[i].key = guard.key

(***************************************************************************)
(* What is integrated is what was reviewed: a lease at or beyond           *)
(* REVIEW_GO, closed ones included, has a review receipt, and every        *)
(* candidate recorded for it since fixation is the one it carries.         *)
(***************************************************************************)
ReviewedCandidateIsIntegrated ==
  \A k \in DOMAIN leases :
    /\ leases[k].state \in CandidateStates \ {"FIXED_CANDIDATE"} =>
         EdgeRecorded(k, "FIXED_CANDIDATE", "REVIEW_GO")
    /\ \A i \in ReceiptsOfType("TRANSITION") :
         receipts[i].key = k /\ receipts[i].candidateIdentity # NoCandidate =>
           receipts[i].candidateIdentity = leases[k].candidateIdentity

(***************************************************************************)
(* Under a drifted authority a lease only moves to revocation: a step that *)
(* changes the state of a lease admitted under another snapshot makes it   *)
(* STALE or CANCELLED, whatever operation takes it.                        *)
(***************************************************************************)
DriftOnlyRevokes ==
  [][\A k \in DOMAIN leases :
       leases'[k].state # leases[k].state /\ leases[k].cmd.fingerprint # liveFingerprint
         => leases'[k].state \in RevocationStates]_vars

(***************************************************************************)
(* A released lease is immutable.                                          *)
(***************************************************************************)
ReleasedImmutable ==
  [][\A k \in DOMAIN leases : leases[k].released => leases'[k] = leases[k]]_vars

(***************************************************************************)
(* While recovery is pending nothing is admitted and no lease changes      *)
(* state, except by the recovery that closes it, which releases every      *)
(* revoked lease at once.                                                  *)
(***************************************************************************)
RecoveryStopsProject ==
  [][recoveryState # "CLEAR" =>
       /\ DOMAIN leases' = DOMAIN leases
       /\ IF recoveryState' = "CLEAR"
          THEN \A k \in DOMAIN leases : leases'[k].released
          ELSE \A k \in DOMAIN leases : leases'[k].state = leases[k].state]_vars

-----------------------------------------------------------------------------
(***************************************************************************)
(* What the documentation says and the code does not do.                   *)
(***************************************************************************)

(***************************************************************************)
(* "Recovery releases retained capacity" (README.md): a released lease no  *)
(* longer counts against admission.                                        *)
(***************************************************************************)
RecoveryReleasesCapacity ==
  \A k \in DOMAIN leases : leases[k].released => k \notin Active
=============================================================================
