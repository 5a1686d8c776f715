-------------------------- MODULE CoordinatorProofs --------------------------
(***************************************************************************)
(* Proofs about the coordinator, for every set of requests, lanes, paths   *)
(* and candidates and every length of the journal: that tokens are fenced, *)
(* that a breach stops the whole project and recovery restarts it cleanly, *)
(* and that admission keeps the active leases apart from each other.       *)
(* The second half is about the receipts: what they say of the leases, and *)
(* that no operation ever contradicts one that is already durable.  The    *)
(* last part is about the store under the journal, for any set of callers  *)
(* and any number of aborts and losses of power.                           *)
(***************************************************************************)
EXTENDS Coordinator, CoordinatorStore, PolicyProofs, TLAPS, FiniteSetTheorems,
        SequenceTheorems, WellFoundedInduction

-----------------------------------------------------------------------------
(***************************************************************************)
(* Numbers and finite sets.                                                *)
(***************************************************************************)

(***************************************************************************)
(* A nonempty set of naturals with an upper bound has a greatest element,  *)
(* and Max is it: the fencing floors are maxima of such sets.              *)
(***************************************************************************)
LEMMA MaxOfBounded ==
  ASSUME NEW S \in SUBSET Nat, S # {}, NEW b \in Nat, \A x \in S : x <= b
  PROVE  /\ Max(S) \in S
         /\ \A y \in S : y <= Max(S)
<1> DEFINE gaps == {n \in Nat : b - n \in S}
<1>1. gaps \subseteq Nat /\ gaps # {}
  <2>1. PICK x \in S : TRUE
    OBVIOUS
  <2>2. b - x \in Nat /\ b - (b - x) = x
    OBVIOUS
  <2>3. b - x \in gaps
    BY <2>1, <2>2
  <2> QED BY <2>3
<1>2. PICK n \in gaps : \A m \in gaps : ~(<<m, n>> \in OpToRel(<, Nat))
  <2> HIDE DEF gaps
  <2> QED BY <1>1, WFMin, NatLessThanWellFounded
<1>3. \A m \in gaps : n <= m
  <2> SUFFICES ASSUME NEW m \in gaps, m < n PROVE FALSE
    BY <1>1
  <2>1. <<m, n>> \in OpToRel(<, Nat)
    BY <1>1 DEF OpToRel
  <2> QED BY <1>2, <2>1
<1>4. \A y \in S : y <= b - n
  <2> SUFFICES ASSUME NEW y \in S PROVE y <= b - n
    OBVIOUS
  <2>1. b - y \in Nat /\ b - (b - y) = y
    OBVIOUS
  <2>2. b - y \in gaps
    BY <2>1
  <2>3. n <= b - y
    BY <1>3, <2>2
  <2> QED BY <2>3, <1>1
<1>5. b - n \in S
  OBVIOUS
<1>6. \E x \in S : \A y \in S : x >= y
  BY <1>4, <1>5
<1> QED BY <1>6 DEF Max

\* There are finitely many leases: their keys are keys of requests.
LEMMA KeysFinite == IsFiniteSet(Keys)
<1> DEFINE f == [c \in Requests |-> Key(c)]
<1>1. f \in Surjection(Requests, Keys)
  BY DEF Surjection, Keys
<1> HIDE DEF f
<1> QED BY <1>1, FS_Surjection, RequestsAssumption
-----------------------------------------------------------------------------
(***************************************************************************)
(* The inductive invariant.  Types and tokens do not carry themselves:     *)
(* recovery reads the tokens of the leases its evidence revokes, and a     *)
(* guarded command ends with a receipt under the token of the lease it     *)
(* began with, so both must name leases that exist.                        *)
(***************************************************************************)

\* The evidence and the running guard name durable leases.
ReferencesResolve ==
  /\ Revoked(recoveryEvidence) \subseteq DOMAIN leases
  /\ guard # Idle => guard.key \in DOMAIN leases

FencingInv == TypeOK /\ TokensFenced /\ ReferencesResolve

(***************************************************************************)
(* Facts about the operators.                                              *)
(***************************************************************************)

LEMMA RevocationIsLeaseState == RevocationStates \subseteq LeaseStates
BY DEF LeaseStates, CandidateStates, ExceptionalStates, RevocationStates

LEMMA KeyOfRequest == \A c \in Requests : Key(c) \in Keys
BY DEF Keys

LEMMA NoEvidenceType == NoEvidence \in Evidence /\ Revoked(NoEvidence) = {}
<1> DEFINE none == [k \in {} |-> "STALE"]
<1>1. none \in [{} -> RevocationStates] /\ DOMAIN none = {}
  OBVIOUS
<1>2. none \in Decisions
  BY <1>1 DEF Decisions
<1> QED BY <1>1, <1>2 DEF NoEvidence, Evidence, Revoked

\* The kinds of a receipt are told apart by its receiptType.
LEMMA ReceiptKinds ==
  ASSUME receipts \in Seq(Receipt), NEW i \in DOMAIN receipts
  PROVE  /\ receipts[i] \in Receipt
         /\ receipts[i].receiptType = "TRANSITION" => receipts[i] \in TransitionReceipt
         /\ receipts[i].receiptType = "WRITE_OBSERVATION" => receipts[i] \in ObservationReceipt
<1>1. receipts[i] \in Receipt
  OBVIOUS
<1> QED BY <1>1 DEF Receipt, AcquireReceipt, TransitionReceipt, ObservationReceipt,
              RecoveryReceipt

LEMMA AppendedReceipt ==
  ASSUME receipts \in Seq(Receipt), NEW r \in Receipt, Record(r)
  PROVE  /\ receipts' \in Seq(Receipt)
         /\ \A i \in DOMAIN receipts' :
              (i \in DOMAIN receipts /\ receipts'[i] = receipts[i]) \/ receipts'[i] = r
BY DEF Record

LEMMA LeasesFinite ==
  ASSUME TypeOK, NEW D \in SUBSET (DOMAIN leases)
  PROVE  IsFiniteSet(D) /\ Cardinality(D) \in Nat
<1>1. D \in SUBSET Keys
  BY DEF TypeOK
<1> QED BY <1>1, KeysFinite, FS_Subset, FS_CardinalityType

-----------------------------------------------------------------------------
(***************************************************************************)
(* One lemma for each operation that writes the journal: what it leaves    *)
(* true of the journal.                                                    *)
(***************************************************************************)

\* The part of the invariant that is about the journal alone.
JournalInv ==
  /\ DOMAIN leases \subseteq Keys
  /\ leases \in [DOMAIN leases -> Lease]
  /\ nextFencingToken \in Nat
  /\ recoveryState \in {"CLEAR", "PROJECT_WRITESET_RECOVERY"}
  /\ recoveryEvidence \in Evidence
  /\ receipts \in Seq(Receipt)
  /\ TokensFenced
  /\ Revoked(recoveryEvidence) \subseteq DOMAIN leases

\* A step that keeps the tokens and the journal's references, appends one
\* receipt below the next token and does not lower that token stays fenced.
LEMMA FencedByFloor ==
  ASSUME JournalInv, NEW r \in Receipt, Record(r),
         DOMAIN leases' = DOMAIN leases,
         \A k \in DOMAIN leases : leases'[k].fencingToken = leases[k].fencingToken,
         nextFencingToken' \in Nat,
         nextFencingToken <= nextFencingToken',
         r.fencingToken \in Nat,
         r.fencingToken < nextFencingToken'
  PROVE  TokensFenced'
<1>1. \A k \in DOMAIN leases : leases[k].fencingToken \in Nat
  BY DEF JournalInv, Lease
<1>2. \A i \in DOMAIN receipts : receipts[i].fencingToken \in Nat
  BY DEF JournalInv, Receipt, AcquireReceipt, TransitionReceipt, ObservationReceipt,
         RecoveryReceipt
<1>3. \A k \in DOMAIN leases' : leases'[k].fencingToken < nextFencingToken'
  BY <1>1 DEF JournalInv, TokensFenced
<1>4. \A i \in DOMAIN receipts' : receipts'[i].fencingToken < nextFencingToken'
  <2>1. \A i \in DOMAIN receipts : receipts[i].fencingToken < nextFencingToken'
    BY <1>2 DEF JournalInv, TokensFenced
  <2> QED BY <2>1, AppendedReceipt DEF JournalInv
<1>5. \A j, k \in DOMAIN leases' :
        leases'[j].fencingToken = leases'[k].fencingToken => j = k
  BY DEF JournalInv, TokensFenced
<1> QED BY <1>3, <1>4, <1>5 DEF TokensFenced

LEMMA TypeGivesJournal == FencingInv => JournalInv
BY DEF FencingInv, TypeOK, JournalInv, ReferencesResolve

LEMMA AcquireKeepsJournal ==
  ASSUME FencingInv, NEW c \in Requests, Acquire(c)
  PROVE  JournalInv'
<1> USE TypeGivesJournal
<1> DEFINE r == [receiptType |-> "ACQUIRE", key |-> Key(c), fencingToken |-> nextFencingToken]
<1>1. Key(c) \in Keys /\ Key(c) \notin DOMAIN leases
  BY KeyOfRequest DEF Acquire, AdmissionChecks
<1>2. nextFencingToken \in Nat /\ nextFencingToken' = nextFencingToken + 1
  BY DEF Acquire, JournalInv
<1>3. r \in Receipt
  BY <1>1, <1>2 DEF Receipt, AcquireReceipt
<1>4. Record(r)
  BY DEF Acquire
<1>5. receipts' \in Seq(Receipt)
  BY <1>3, <1>4, AppendedReceipt DEF JournalInv
<1>6. NewLease(c) \in Lease
  <2>1. laneIdentity[c.laneRoot] \in Identities
    BY RequestsAssumption DEF BindsPlanningRequest, FencingInv, TypeOK
  <2> QED BY <2>1, <1>2 DEF NewLease, Lease, CandidateIds, LeaseStates
<1>7. DOMAIN leases' = DOMAIN leases \cup {Key(c)}
  BY DEF Acquire
<1>8. /\ leases'[Key(c)] = NewLease(c)
      /\ \A k \in DOMAIN leases : leases'[k] = leases[k]
  BY <1>1 DEF Acquire
<1>9. leases' \in [DOMAIN leases' -> Lease]
  BY <1>6 DEF Acquire, JournalInv
<1>10. TokensFenced'
  <2>1. \A k \in DOMAIN leases : leases[k].fencingToken \in Nat
    BY DEF JournalInv, Lease
  <2>2. \A i \in DOMAIN receipts : receipts[i].fencingToken \in Nat
    BY DEF JournalInv, Receipt, AcquireReceipt, TransitionReceipt, ObservationReceipt,
           RecoveryReceipt
  <2>3. leases'[Key(c)].fencingToken = nextFencingToken
    BY <1>8 DEF NewLease
  <2>4. \A k \in DOMAIN leases : leases'[k].fencingToken < nextFencingToken
    BY <1>8 DEF JournalInv, TokensFenced
  <2>5. \A k \in DOMAIN leases' : leases'[k].fencingToken < nextFencingToken'
    BY <1>2, <1>7, <1>8, <2>1, <2>3, <2>4
  <2>6. \A i \in DOMAIN receipts' : receipts'[i].fencingToken < nextFencingToken'
    <3>1. \A i \in DOMAIN receipts : receipts[i].fencingToken < nextFencingToken'
      BY <1>2, <2>2 DEF JournalInv, TokensFenced
    <3>2. r.fencingToken < nextFencingToken'
      BY <1>2
    <3> HIDE DEF r
    <3> QED BY <1>3, <1>4, <3>1, <3>2, AppendedReceipt DEF JournalInv
  <2>7. \A j, k \in DOMAIN leases' :
          leases'[j].fencingToken = leases'[k].fencingToken => j = k
    <3>1. \A j, k \in DOMAIN leases :
            leases'[j].fencingToken = leases'[k].fencingToken => j = k
      BY <1>8 DEF JournalInv, TokensFenced
    <3>2. \A k \in DOMAIN leases : leases'[k].fencingToken # nextFencingToken
      BY <1>2, <1>8, <2>1, <2>4
    <3> QED BY <1>7, <2>3, <3>1, <3>2
  <2> QED BY <2>5, <2>6, <2>7 DEF TokensFenced
<1> QED
  BY <1>1, <1>2, <1>5, <1>7, <1>9, <1>10 DEF JournalInv, Acquire, Revoked

LEMMA TransitionKeepsJournal ==
  ASSUME FencingInv, NEW k \in DOMAIN leases, NEW s, NEW d \in CandidateIds,
         Transition(k, s, d)
  PROVE  JournalInv'
<1> USE TypeGivesJournal
<1> DEFINE r == [receiptType |-> "TRANSITION", key |-> k,
                 fencingToken |-> leases[k].fencingToken,
                 previousState |-> leases[k].state, nextState |-> s,
                 fingerprint |-> liveFingerprint, candidateIdentity |-> d]
<1>1. s \in LeaseStates
  BY DEF Transition, AllowedTransitions, LeaseStates, ExceptionalStates, CandidateStates
<1>2. leases[k] \in Lease /\ leases[k].fencingToken \in Nat /\ k \in Keys
  BY DEF JournalInv, Lease
<1>3. r \in Receipt
  BY <1>1, <1>2 DEF Receipt, TransitionReceipt, FencingInv, TypeOK, Lease
<1>4. Record(r)
  BY DEF Transition
<1>5. receipts' \in Seq(Receipt)
  BY <1>3, <1>4, AppendedReceipt DEF JournalInv
<1>6. /\ DOMAIN leases' = DOMAIN leases
      /\ leases'[k] = [leases[k] EXCEPT !.state = s, !.candidateIdentity = d,
                                        !.released = (s = "CLOSED")]
      /\ \A j \in DOMAIN leases : j # k => leases'[j] = leases[j]
      /\ leases' = [j \in DOMAIN leases |-> leases'[j]]
  BY DEF Transition, JournalInv
<1>7. leases'[k] \in Lease
  BY <1>1, <1>2, <1>6 DEF Lease
<1>8. leases' \in [DOMAIN leases' -> Lease]
  BY <1>6, <1>7 DEF JournalInv
<1>9. nextFencingToken' \in Nat /\ nextFencingToken <= nextFencingToken'
  <2> DEFINE floors == {nextFencingToken, leases[k].fencingToken + 1}
  <2>1. floors \in SUBSET Nat /\ floors # {} /\ nextFencingToken \in floors
    BY <1>2 DEF JournalInv
  <2>2. \A x \in floors : x <= nextFencingToken + leases[k].fencingToken + 1
    BY <1>2 DEF JournalInv
  <2>3. nextFencingToken + leases[k].fencingToken + 1 \in Nat
    BY <1>2 DEF JournalInv
  <2>4. Max(floors) \in Nat /\ nextFencingToken <= Max(floors)
    <3> HIDE DEF floors
    <3> QED BY <2>1, <2>2, <2>3, MaxOfBounded
  <2> QED BY <2>4 DEF Transition, JournalInv
<1>10. \A j \in DOMAIN leases : leases'[j].fencingToken = leases[j].fencingToken
  BY <1>2, <1>6 DEF Lease
<1>11. r.fencingToken \in Nat /\ r.fencingToken < nextFencingToken'
  <2>1. leases[k].fencingToken < nextFencingToken
    BY DEF JournalInv, TokensFenced
  <2> QED BY <1>2, <1>9, <2>1 DEF JournalInv
<1>12. TokensFenced'
  <2> HIDE DEF r
  <2> QED BY <1>3, <1>4, <1>6, <1>9, <1>10, <1>11, FencedByFloor
<1> QED
  BY <1>5, <1>6, <1>8, <1>9, <1>12 DEF JournalInv, Transition, Revoked

LEMMA QuarantineKeepsJournal ==
  ASSUME FencingInv, NEW k \in DOMAIN leases,
         NEW before \in SUBSET Paths, NEW breaches \in SUBSET Paths,
         Quarantine(k, before, breaches)
  PROVE  /\ JournalInv'
         /\ DOMAIN leases' = DOMAIN leases
<1> USE TypeGivesJournal
<1> DEFINE observed == PriorEvidence.observedWriteSet \cup breaches
           newlyRevoked == Recoverable \ Revoked(PriorEvidence)
           decided == [j \in Recoverable |-> AffectedDecision(j, observed)]
           evidence == [observedWriteSet |-> observed, decisions |-> decided]
           r == [receiptType |-> "WRITE_OBSERVATION", key |-> k,
                 fencingToken |-> leases[k].fencingToken, beforeInventory |-> before,
                 observedPaths |-> breaches, evidence |-> evidence]
           floors == {nextFencingToken + Cardinality(newlyRevoked)}
                       \cup {leases[j].fencingToken + 1 : j \in Recoverable}
<1>1. /\ leases' = Quarantined
      /\ nextFencingToken' = Max(floors)
      /\ recoveryState' = "PROJECT_WRITESET_RECOVERY"
      /\ recoveryEvidence' = evidence
      /\ Record(r)
  BY DEF Quarantine
<1>2. Recoverable \in SUBSET (DOMAIN leases) /\ Recoverable \in SUBSET Keys
  BY DEF Recoverable, JournalInv
<1>3. \A j \in DOMAIN leases : leases[j] \in Lease /\ leases[j].fencingToken \in Nat
  BY DEF JournalInv, Lease
<1>4. evidence \in Evidence
  <2>1. observed \in SUBSET Paths
    BY NoEvidenceType DEF PriorEvidence, JournalInv, Evidence
  <2>2. \A j \in Recoverable : AffectedDecision(j, observed) \in RevocationStates
    BY DEF AffectedDecision, RevocationStates
  <2>3. decided \in [Recoverable -> RevocationStates]
    BY <2>2
  <2>4. decided \in Decisions
    BY <1>2, <2>3 DEF Decisions
  <2> HIDE DEF observed, decided
  <2> QED BY <2>1, <2>4 DEF Evidence
<1>5. r \in Receipt
  <2> HIDE DEF evidence
  <2>1. k \in Keys /\ leases[k].fencingToken \in Nat
    BY <1>3 DEF JournalInv
  <2> QED BY <1>4, <2>1 DEF Receipt, ObservationReceipt
<1>6. receipts' \in Seq(Receipt)
  <2> HIDE DEF r
  <2> QED BY <1>1, <1>5, AppendedReceipt DEF JournalInv
<1>7. /\ DOMAIN leases' = DOMAIN leases
      /\ leases' \in [DOMAIN leases' -> Lease]
      /\ \A j \in DOMAIN leases : leases'[j].fencingToken = leases[j].fencingToken
  <2>1. \A j \in DOMAIN leases :
          LET marked == [leases[j] EXCEPT !.recoveryStatus = "PROJECT_WRITESET_RECOVERY"]
          IN  marked \in Lease /\ marked.fencingToken = leases[j].fencingToken
    BY <1>3 DEF Lease
  <2> QED BY <1>1, <1>3, <2>1 DEF Quarantined
<1>8. nextFencingToken' \in Nat /\ nextFencingToken <= nextFencingToken'
  <2> DEFINE raised == nextFencingToken + Cardinality(newlyRevoked)
  <2>1. Cardinality(newlyRevoked) \in Nat
    BY <1>2, LeasesFinite DEF FencingInv
  <2>2. raised \in Nat /\ nextFencingToken <= raised
    BY <2>1 DEF JournalInv
  <2>3. \A j \in Recoverable : leases[j].fencingToken + 1 <= nextFencingToken
    BY <1>2, <1>3 DEF JournalInv, TokensFenced
  <2>4. \A x \in floors : x \in Nat /\ x <= raised
    <3> HIDE DEF newlyRevoked
    <3> QED BY <1>2, <1>3, <2>1, <2>2, <2>3 DEF JournalInv
  <2>5. raised \in floors
    OBVIOUS
  <2> HIDE DEF floors, raised
  <2>6. Max(floors) \in Nat /\ raised <= Max(floors)
    BY <2>2, <2>4, <2>5, MaxOfBounded
  <2> QED BY <1>1, <2>2, <2>6 DEF JournalInv
<1>9. r.fencingToken \in Nat /\ r.fencingToken < nextFencingToken'
  <2>1. leases[k].fencingToken < nextFencingToken
    BY DEF JournalInv, TokensFenced
  <2>2. r.fencingToken = leases[k].fencingToken
    OBVIOUS
  <2> HIDE DEF r
  <2> QED BY <1>3, <1>8, <2>1, <2>2 DEF JournalInv
<1>10. TokensFenced'
  <2> HIDE DEF r
  <2> QED BY <1>1, <1>5, <1>7, <1>8, <1>9, FencedByFloor
<1>11. Revoked(recoveryEvidence)' \subseteq DOMAIN leases'
  BY <1>1, <1>2, <1>7 DEF Revoked
<1> QED
  <2> HIDE DEF evidence, r, floors
  <2> QED BY <1>1, <1>4, <1>6, <1>7, <1>8, <1>10, <1>11 DEF JournalInv

LEMMA RecoverKeepsJournal ==
  ASSUME FencingInv, NEW command \in signed, Recover(command)
  PROVE  /\ JournalInv'
         /\ DOMAIN leases' = DOMAIN leases
<1> USE TypeGivesJournal
<1> DEFINE tokens == {leases[k].fencingToken : k \in Revoked(recoveryEvidence)}
           r == [receiptType |-> "RECOVERY", fencingToken |-> Max(tokens),
                 command |-> command, evidence |-> recoveryEvidence]
<1>1. /\ leases' = Recovered(command)
      /\ recoveryState' = "CLEAR"
      /\ nextFencingToken' = nextFencingToken
      /\ recoveryEvidence' = recoveryEvidence
      /\ Record(r)
  BY DEF Recover
<1>2. Revoked(recoveryEvidence) \subseteq DOMAIN leases /\ Revoked(recoveryEvidence) # {}
  BY DEF JournalInv, Recover, RecoverySnapshotHolds
<1>3. \A j \in DOMAIN leases : leases[j] \in Lease /\ leases[j].fencingToken \in Nat
  BY DEF JournalInv, Lease
<1>4. Max(tokens) \in Nat /\ Max(tokens) < nextFencingToken
  <2>1. tokens \in SUBSET Nat /\ tokens # {} /\ nextFencingToken \in Nat
    BY <1>2, <1>3 DEF JournalInv
  <2>2. \A x \in tokens : x < nextFencingToken /\ x <= nextFencingToken
    BY <1>2, <1>3, <2>1 DEF JournalInv, TokensFenced
  <2> HIDE DEF tokens
  <2>3. Max(tokens) \in tokens
    BY <2>1, <2>2, MaxOfBounded
  <2> QED BY <2>1, <2>2, <2>3
<1>5. command \in RecoveryCommand /\ recoveryEvidence \in Evidence
  BY DEF FencingInv, TypeOK
<1>6. r \in Receipt /\ r.fencingToken = Max(tokens)
  <2> HIDE DEF tokens
  <2> QED BY <1>4, <1>5 DEF Receipt, RecoveryReceipt
<1>7. receipts' \in Seq(Receipt)
  <2> HIDE DEF r
  <2> QED BY <1>1, <1>6, AppendedReceipt DEF JournalInv
<1>8. \A k \in Revoked(recoveryEvidence) : command.decisions[k] \in RevocationStates
  <2>1. command.decisions = recoveryEvidence.decisions
    BY DEF Recover, BindsPendingEvidence
  <2>2. PICK D \in SUBSET Keys : recoveryEvidence.decisions \in [D -> RevocationStates]
    BY <1>5 DEF Evidence, Decisions
  <2> QED BY <2>1, <2>2 DEF Revoked
<1>9. /\ DOMAIN leases' = DOMAIN leases
      /\ leases' \in [DOMAIN leases' -> Lease]
      /\ \A j \in DOMAIN leases : leases'[j].fencingToken = leases[j].fencingToken
  <2>1. \A j \in Revoked(recoveryEvidence) :
          LET decided == [leases[j] EXCEPT !.state = command.decisions[j],
                                           !.released = TRUE, !.recoveryStatus = "CLEAR"]
          IN  decided \in Lease /\ decided.fencingToken = leases[j].fencingToken
    BY <1>2, <1>3, <1>8, RevocationIsLeaseState DEF Lease
  <2> QED BY <1>1, <1>3, <2>1 DEF Recovered
<1>10. TokensFenced'
  <2>1. r.fencingToken \in Nat /\ r.fencingToken < nextFencingToken'
    BY <1>1, <1>4, <1>6
  <2>2. nextFencingToken' \in Nat /\ nextFencingToken <= nextFencingToken'
    BY <1>1 DEF JournalInv
  <2> HIDE DEF r
  <2> QED BY <1>1, <1>6, <1>9, <2>1, <2>2, FencedByFloor
<1>11. Revoked(recoveryEvidence)' \subseteq DOMAIN leases'
  BY <1>1, <1>2, <1>9 DEF Revoked
<1> QED
  <2> HIDE DEF r
  <2> QED BY <1>1, <1>7, <1>9, <1>10, <1>11 DEF JournalInv

-----------------------------------------------------------------------------
(***************************************************************************)
(* The invariant is inductive.                                             *)
(***************************************************************************)

LEMMA FencingInit == Init => FencingInv
<1> SUFFICES ASSUME Init PROVE FencingInv
  OBVIOUS
<1>1. TypeOK
  BY NoEvidenceType
     DEF Init, TypeOK, Idle, NoReply, Answer, CandidateIds
<1>2. TokensFenced
  BY DEF Init, TokensFenced
<1>3. ReferencesResolve
  BY NoEvidenceType DEF Init, ReferencesResolve
<1> QED BY <1>1, <1>2, <1>3 DEF FencingInv

\* What a step must establish besides the journal.
LEMMA FencingFromParts ==
  ASSUME JournalInv',
         guard' \in [key : Keys \cup {NoKey}, before : SUBSET Paths],
         signed' \subseteq RecoveryCommand,
         liveFingerprint' \in Fingerprints, liveHead' \in Heads,
         laneIdentity' \in [Lanes -> Identities],
         laneTree' \in [Lanes -> SUBSET Paths],
         laneCandidate' \in [Lanes -> CandidateIds],
         reply' \in Answer,
         guard' # Idle => guard'.key \in DOMAIN leases'
  PROVE  FencingInv'
BY DEF JournalInv, FencingInv, TypeOK, ReferencesResolve, Revoked, Idle

LEMMA JournalUnchanged ==
  ASSUME FencingInv, UNCHANGED journal
  PROVE  /\ JournalInv'
         /\ DOMAIN leases' = DOMAIN leases
BY TypeGivesJournal DEF journal, JournalInv, TokensFenced, Revoked

LEMMA BreachesArePaths ==
  ASSUME TypeOK, NEW k \in DOMAIN leases
  PROVE  /\ k \in Keys
         /\ LiveBreaches(k) \in SUBSET Paths
         /\ laneTree[LaneOf(k)] \in SUBSET Paths
<1>1. k \in Keys /\ leases[k].cmd \in Requests
  BY DEF TypeOK, Lease
<1>2. LaneOf(k) \in Lanes
  BY <1>1, RequestsAssumption DEF LaneOf, BindsPlanningRequest
<1>3. laneTree[LaneOf(k)] \in SUBSET Paths
  BY <1>2 DEF TypeOK
<1> QED BY <1>1, <1>3 DEF LiveBreaches, PersistentBreaches

LEMMA AnswerType ==
  ASSUME NEW k \in Keys \cup {NoKey}
  PROVE  /\ \A t \in LeaseStates : /\ Reply("ACQUIRE", k, t) \in Answer
                                   /\ Reply("TRANSITION", k, t) \in Answer
         /\ Reply("ACQUIRE", k, "ADMITTED") \in Answer
         /\ Reply("OBSERVE", k, "PROJECT_WRITESET_RECOVERY") \in Answer
         /\ Reply("GUARD", k, "WRITESET_BREACH") \in Answer
         /\ Reply("GUARD", k, "DONE") \in Answer
         /\ Reply("RECOVER", k, "CLEAR") \in Answer
BY DEF Reply, Answer, LeaseStates

\* The steps of the coordinator's operations.
LEMMA FencingCoordinate ==
  ASSUME FencingInv, Coordinate
  PROVE  FencingInv'
<1> USE DEF FencingInv
<1>types. /\ guard \in [key : Keys \cup {NoKey}, before : SUBSET Paths]
          /\ signed \subseteq RecoveryCommand
          /\ liveFingerprint \in Fingerprints /\ liveHead \in Heads
          /\ laneIdentity \in [Lanes -> Identities]
          /\ laneTree \in [Lanes -> SUBSET Paths]
          /\ laneCandidate \in [Lanes -> CandidateIds]
          /\ reply \in Answer
          /\ DOMAIN leases \subseteq Keys
          /\ guard # Idle => guard.key \in DOMAIN leases
          /\ Idle \in [key : Keys \cup {NoKey}, before : SUBSET Paths]
  BY DEF TypeOK, ReferencesResolve, Idle
<1>1. ASSUME NEW c \in Requests, Acquire(c) PROVE FencingInv'
  <2>1. JournalInv' /\ DOMAIN leases \subseteq DOMAIN leases'
    BY <1>1, AcquireKeepsJournal DEF Acquire
  <2>2. reply' \in Answer
    BY <1>1, KeyOfRequest, AnswerType DEF Acquire
  <2> QED BY <1>1, <1>types, <2>1, <2>2, FencingFromParts DEF Acquire, world
<1>2. ASSUME NEW c \in Requests, AcquireReplay(c) PROVE FencingInv'
  <2>1. reply' \in Answer
    BY <1>2, KeyOfRequest, AnswerType DEF AcquireReplay
  <2> QED
    BY <1>2, <1>types, <2>1, JournalUnchanged, FencingFromParts DEF AcquireReplay, world
<1>3. ASSUME NEW k \in DOMAIN leases, NEW t \in NextStates, NEW d \in CandidateIds,
             Transition(k, t, d)
      PROVE  FencingInv'
  <2>1. JournalInv'
    BY <1>3, TransitionKeepsJournal
  <2>2. DOMAIN leases' = DOMAIN leases
    BY <1>3 DEF Transition
  <2>3. t \in LeaseStates
    BY <1>3 DEF Transition, AllowedTransitions, LeaseStates, ExceptionalStates,
                CandidateStates
  <2>4. reply' \in Answer
    BY <1>3, <1>types, <2>3, AnswerType DEF Transition
  <2> QED BY <1>3, <1>types, <2>1, <2>2, <2>4, FencingFromParts DEF Transition, world
<1>4. ASSUME NEW i \in ReceiptsOfType("TRANSITION"), TransitionReplay(i) PROVE FencingInv'
  <2>1. receipts[i].key \in Keys /\ receipts[i].nextState \in LeaseStates
    BY ReceiptKinds DEF ReceiptsOfType, TypeOK, TransitionReceipt
  <2>2. reply' \in Answer
    BY <1>4, <2>1, AnswerType DEF TransitionReplay
  <2> QED
    BY <1>4, <1>types, <2>2, JournalUnchanged, FencingFromParts DEF TransitionReplay, world
<1>5. ASSUME NEW k \in DOMAIN leases, Observe(k) PROVE FencingInv'
  <2>1. JournalInv' /\ DOMAIN leases' = DOMAIN leases
    BY <1>5, BreachesArePaths, QuarantineKeepsJournal DEF Observe
  <2>2. reply' \in Answer
    BY <1>5, <1>types, AnswerType DEF Observe
  <2> QED
    BY <1>5, <1>types, <2>1, <2>2, FencingFromParts DEF Observe, Quarantine, world
<1>6. ASSUME NEW i \in ReceiptsOfType("WRITE_OBSERVATION"), ObserveReplay(i)
      PROVE  FencingInv'
  <2>1. receipts[i].key \in Keys
    BY ReceiptKinds DEF ReceiptsOfType, TypeOK, ObservationReceipt
  <2>2. reply' \in Answer
    BY <1>6, <2>1, AnswerType DEF ObserveReplay
  <2> QED
    BY <1>6, <1>types, <2>2, JournalUnchanged, FencingFromParts DEF ObserveReplay, world
<1>7. ASSUME NEW k \in DOMAIN leases, GuardBegin(k) PROVE FencingInv'
  <2>1. guard' \in [key : Keys \cup {NoKey}, before : SUBSET Paths] /\ guard'.key = k
    BY <1>7, <1>types, BreachesArePaths DEF GuardBegin
  <2> QED
    BY <1>7, <1>types, <2>1, JournalUnchanged, FencingFromParts DEF GuardBegin, world
<1>8. ASSUME NEW k \in DOMAIN leases, GuardRefuse(k) PROVE FencingInv'
  <2>1. JournalInv' /\ DOMAIN leases' = DOMAIN leases
    BY <1>8, BreachesArePaths, QuarantineKeepsJournal DEF GuardRefuse
  <2>2. reply' \in Answer
    BY <1>8, <1>types, AnswerType DEF GuardRefuse
  <2> QED
    BY <1>8, <1>types, <2>1, <2>2, FencingFromParts DEF GuardRefuse, Quarantine, world
<1>9. ASSUME GuardFinish PROVE FencingInv'
  <2>1. reply' \in Answer
    BY <1>9, <1>types, AnswerType DEF GuardFinish
  <2> QED
    BY <1>9, <1>types, <2>1, JournalUnchanged, FencingFromParts DEF GuardFinish, world
<1>10. ASSUME GuardBreach PROVE FencingInv'
  <2>1. guard.key \in DOMAIN leases /\ guard.before \in SUBSET Paths
    BY <1>10, <1>types DEF GuardBreach
  <2>2. JournalInv' /\ DOMAIN leases' = DOMAIN leases
    BY <1>10, <2>1, BreachesArePaths, QuarantineKeepsJournal DEF GuardBreach
  <2>3. reply' \in Answer
    BY <1>10, <1>types, <2>1, AnswerType DEF GuardBreach
  <2> QED
    BY <1>10, <1>types, <2>2, <2>3, FencingFromParts DEF GuardBreach, Quarantine, world
<1>11. ASSUME GuardFail PROVE FencingInv'
  BY <1>11, <1>types, JournalUnchanged, FencingFromParts DEF GuardFail, world
<1>12. ASSUME NEW command \in signed, Recover(command) PROVE FencingInv'
  <2>1. JournalInv' /\ DOMAIN leases' = DOMAIN leases
    BY <1>12, RecoverKeepsJournal
  <2>2. reply' \in Answer
    BY <1>12, AnswerType DEF Recover
  <2> QED BY <1>12, <1>types, <2>1, <2>2, FencingFromParts DEF Recover, world
<1>13. ASSUME RecoverReplay PROVE FencingInv'
  <2>1. reply' \in Answer
    BY <1>13, AnswerType DEF RecoverReplay
  <2> QED
    BY <1>13, <1>types, <2>1, JournalUnchanged, FencingFromParts DEF RecoverReplay, world
<1> QED
  BY <1>1, <1>2, <1>3, <1>4, <1>5, <1>6, <1>7, <1>8, <1>9, <1>10, <1>11, <1>12, <1>13
     DEF Coordinate

\* The steps of the world leave the journal alone.
LEMMA FencingEnvironment ==
  ASSUME FencingInv, Environment
  PROVE  FencingInv'
<1> USE DEF FencingInv
<1>types. /\ guard \in [key : Keys \cup {NoKey}, before : SUBSET Paths]
          /\ signed \subseteq RecoveryCommand
          /\ liveFingerprint \in Fingerprints /\ liveHead \in Heads
          /\ laneIdentity \in [Lanes -> Identities]
          /\ laneTree \in [Lanes -> SUBSET Paths]
          /\ laneCandidate \in [Lanes -> CandidateIds]
          /\ reply \in Answer
          /\ guard # Idle => guard.key \in DOMAIN leases
  BY DEF TypeOK, ReferencesResolve
<1>1. UNCHANGED journal
  BY DEF Environment, SignRecovery, ChangeAuthority, AdvanceHead, LaneWrite, LaneClean,
         LaneCommit, LaneReplace
<1>2. UNCHANGED <<guard, reply>>
  BY DEF Environment, SignRecovery, ChangeAuthority, AdvanceHead, LaneWrite, LaneClean,
         LaneCommit, LaneReplace
<1>3. JournalInv' /\ DOMAIN leases' = DOMAIN leases
  BY <1>1, JournalUnchanged
<1>4. signed' \subseteq RecoveryCommand
  <2>1. CASE SignRecovery
    <3>1. journalVersion \in Nat
      BY DEF journalVersion, TypeOK
    <3> QED BY <1>types, <2>1, <3>1 DEF SignRecovery, RecoveryCommand, TypeOK, Evidence
  <2>2. CASE ~SignRecovery
    BY <1>types, <2>2 DEF Environment, ChangeAuthority, AdvanceHead, LaneWrite, LaneClean,
                   LaneCommit, LaneReplace
  <2> QED BY <2>1, <2>2
<1>5. /\ liveFingerprint' \in Fingerprints /\ liveHead' \in Heads
      /\ laneIdentity' \in [Lanes -> Identities]
  BY <1>types DEF Environment, SignRecovery, ChangeAuthority, AdvanceHead, LaneWrite,
            LaneClean, LaneCommit, LaneReplace, world
<1>6. laneTree' \in [Lanes -> SUBSET Paths]
  BY <1>types DEF Environment, SignRecovery, ChangeAuthority, AdvanceHead, LaneWrite,
            LaneClean, LaneCommit, LaneReplace, world
<1>7. laneCandidate' \in [Lanes -> CandidateIds]
  BY <1>types DEF Environment, SignRecovery, ChangeAuthority, AdvanceHead, LaneWrite,
            LaneClean, LaneCommit, LaneReplace, world, CandidateIds
<1> QED BY <1>types, <1>2, <1>3, <1>4, <1>5, <1>6, <1>7, FencingFromParts

LEMMA FencingNext == FencingInv /\ [Next]_vars => FencingInv'
<1> SUFFICES ASSUME FencingInv, [Next]_vars PROVE FencingInv'
  OBVIOUS
<1>1. CASE Coordinate
  BY <1>1, FencingCoordinate
<1>2. CASE Environment
  BY <1>2, FencingEnvironment
<1>3. CASE UNCHANGED vars
  BY <1>3 DEF vars, FencingInv, TypeOK, TokensFenced, ReferencesResolve, Revoked
<1> QED BY <1>1, <1>2, <1>3 DEF Next

(***************************************************************************)
(* TypeOK holds in every state of every instance of the coordinator.       *)
(***************************************************************************)
THEOREM TypeCorrect == Spec => []TypeOK
<1>1. FencingInv => TypeOK
  BY DEF FencingInv
<1> QED BY <1>1, FencingInit, FencingNext, PTL DEF Spec

(***************************************************************************)
(* Fencing tokens are unique and lie below the next one, for any number of *)
(* requests, lanes and receipts: no transition, quarantine or recovery of  *)
(* controlled_coordinator.py and controlled_recovery.py ever makes a token *)
(* that was handed out available again.                                    *)
(***************************************************************************)
THEOREM TokensAreFenced == Spec => []TokensFenced
<1>1. FencingInv => TokensFenced
  BY DEF FencingInv
<1> QED BY <1>1, FencingInit, FencingNext, PTL DEF Spec

-----------------------------------------------------------------------------
(***************************************************************************)
(* Five ways for a step to treat the journal.                              *)
(***************************************************************************)

AcquireStep == \E c \in Requests : Acquire(c)

TransitionStep ==
  \E k \in DOMAIN leases, t \in NextStates, d \in CandidateIds : Transition(k, t, d)

QuarantineStep ==
  \E k \in DOMAIN leases, before \in SUBSET Paths, breaches \in SUBSET Paths :
    Quarantine(k, before, breaches) /\ guard' = Idle

RecoverStep == \E command \in signed : Recover(command)

QuietStep ==
  /\ UNCHANGED journal
  /\ guard' # Idle => recoveryState = "CLEAR" \/ guard' = guard

LEMMA JournalSteps ==
  ASSUME FencingInv, [Next]_vars
  PROVE  \/ AcquireStep \/ TransitionStep \/ QuarantineStep \/ RecoverStep \/ QuietStep
<1> USE DEF FencingInv
<1>1. ASSUME NEW k \in DOMAIN leases, Observe(k) PROVE QuarantineStep
  BY <1>1, BreachesArePaths DEF Observe, LockFree, QuarantineStep
<1>2. ASSUME NEW k \in DOMAIN leases, GuardRefuse(k) PROVE QuarantineStep
  BY <1>2, BreachesArePaths DEF GuardRefuse, GuardAdmits, LockFree, QuarantineStep
<1>3. ASSUME GuardBreach PROVE QuarantineStep
  <2>1. guard.key \in DOMAIN leases /\ guard.before \in SUBSET Paths
    BY <1>3 DEF GuardBreach, ReferencesResolve, TypeOK
  <2> QED BY <1>3, <2>1, BreachesArePaths DEF GuardBreach, QuarantineStep
<1>4. ASSUME NEW k \in DOMAIN leases, GuardBegin(k) PROVE QuietStep
  BY <1>4 DEF GuardBegin, GuardAdmits, RecoveryClear, QuietStep
<1>5. ASSUME Environment PROVE QuietStep
  BY <1>5 DEF Environment, SignRecovery, ChangeAuthority, AdvanceHead, LaneWrite,
              LaneClean, LaneCommit, LaneReplace, QuietStep
<1>6. ASSUME \/ \E c \in Requests : AcquireReplay(c)
             \/ \E i \in ReceiptsOfType("TRANSITION") : TransitionReplay(i)
             \/ \E i \in ReceiptsOfType("WRITE_OBSERVATION") : ObserveReplay(i)
             \/ RecoverReplay
      PROVE  QuietStep
  BY <1>6 DEF AcquireReplay, TransitionReplay, ObserveReplay, RecoverReplay, QuietStep
<1>7. ASSUME GuardFinish \/ GuardFail PROVE QuietStep
  BY <1>7 DEF GuardFinish, GuardFail, QuietStep
<1>8. ASSUME UNCHANGED vars PROVE QuietStep
  BY <1>8 DEF vars, journal, QuietStep
<1> QED
  BY <1>1, <1>2, <1>3, <1>4, <1>5, <1>6, <1>7, <1>8
     DEF Next, Coordinate, AcquireStep, TransitionStep, RecoverStep

-----------------------------------------------------------------------------
(***************************************************************************)
(* What each way does to a lease.                                          *)
(***************************************************************************)

LEMMA AcquireEffect ==
  ASSUME NEW c \in Requests, Acquire(c)
  PROVE  /\ recoveryState = "CLEAR"
         /\ UNCHANGED <<recoveryState, recoveryEvidence, guard>>
         /\ Key(c) \notin DOMAIN leases
         /\ DOMAIN leases' = DOMAIN leases \cup {Key(c)}
         /\ leases'[Key(c)].cmd = c
         /\ leases'[Key(c)].lanePhysicalIdentity = laneIdentity[c.laneRoot]
         /\ leases'[Key(c)].state = "ADMITTED"
         /\ leases'[Key(c)].recoveryStatus = "CLEAR"
         /\ \A j \in DOMAIN leases : leases'[j] = leases[j]
BY DEF Acquire, AdmissionChecks, RecoveryClear, NewLease

LEMMA TransitionEffect ==
  ASSUME TypeOK, NEW k \in DOMAIN leases, NEW t, NEW d, Transition(k, t, d)
  PROVE  /\ recoveryState = "CLEAR"
         /\ UNCHANGED <<recoveryState, recoveryEvidence, guard>>
         /\ DOMAIN leases' = DOMAIN leases
         /\ ~leases[k].released
         /\ leases'[k].released = (t = "CLOSED")
         /\ leases'[k].state = t
         /\ leases'[k].cmd = leases[k].cmd
         /\ leases'[k].lanePhysicalIdentity = leases[k].lanePhysicalIdentity
         /\ leases'[k].recoveryStatus = leases[k].recoveryStatus
         /\ \A j \in DOMAIN leases : j # k => leases'[j] = leases[j]
<1>1. leases[k] \in Lease
  BY DEF TypeOK
<1>2. leases'[k] = [leases[k] EXCEPT !.state = t, !.candidateIdentity = d,
                                     !.released = (t = "CLOSED")]
  BY DEF Transition, TypeOK
<1> QED BY <1>1, <1>2 DEF Transition, RecoveryClear, TypeOK, Lease

LEMMA QuarantineEffect ==
  ASSUME TypeOK, NEW k \in DOMAIN leases, NEW before, NEW breaches,
         Quarantine(k, before, breaches)
  PROVE  /\ recoveryState' = "PROJECT_WRITESET_RECOVERY"
         /\ Revoked(recoveryEvidence)' = Recoverable
         /\ DOMAIN leases' = DOMAIN leases
         /\ ~leases[k].released
         /\ \A j \in DOMAIN leases :
              /\ leases'[j].released = leases[j].released
              /\ leases'[j].state = leases[j].state
              /\ leases'[j].cmd = leases[j].cmd
              /\ leases'[j].lanePhysicalIdentity = leases[j].lanePhysicalIdentity
              /\ j \notin Recoverable => leases'[j] = leases[j]
              /\ j \in Recoverable => leases'[j].recoveryStatus = "PROJECT_WRITESET_RECOVERY"
<1>1. \A j \in DOMAIN leases : leases[j] \in Lease
  BY DEF TypeOK
<1>2. leases' = Quarantined
  BY DEF Quarantine
<1>3. Revoked(recoveryEvidence)' = Recoverable
  BY DEF Quarantine, Revoked
<1>4. recoveryState' = "PROJECT_WRITESET_RECOVERY" /\ ~leases[k].released
  BY DEF Quarantine
<1>5. \A j \in DOMAIN leases :
        /\ leases'[j].released = leases[j].released
        /\ leases'[j].state = leases[j].state
        /\ leases'[j].cmd = leases[j].cmd
        /\ leases'[j].lanePhysicalIdentity = leases[j].lanePhysicalIdentity
        /\ j \notin Recoverable => leases'[j] = leases[j]
        /\ j \in Recoverable => leases'[j].recoveryStatus = "PROJECT_WRITESET_RECOVERY"
  BY <1>1, <1>2 DEF Quarantined, Lease
<1> QED BY <1>2, <1>3, <1>4, <1>5 DEF Quarantined

LEMMA RecoverEffect ==
  ASSUME TypeOK, NEW command, Recover(command)
  PROVE  /\ recoveryState = "PROJECT_WRITESET_RECOVERY"
         /\ recoveryState' = "CLEAR"
         /\ guard' = guard
         /\ DOMAIN leases' = DOMAIN leases
         /\ \A j \in DOMAIN leases :
              /\ leases'[j].cmd = leases[j].cmd
              /\ leases'[j].lanePhysicalIdentity = leases[j].lanePhysicalIdentity
              /\ j \notin Revoked(recoveryEvidence) => leases'[j] = leases[j]
              /\ j \in Revoked(recoveryEvidence) =>
                   leases'[j].released /\ leases'[j].recoveryStatus = "CLEAR"
<1>1. \A j \in DOMAIN leases : leases[j] \in Lease
  BY DEF TypeOK
<1>2. leases' = Recovered(command)
  BY DEF Recover
<1>3. \A j \in DOMAIN leases :
        /\ leases'[j].cmd = leases[j].cmd
        /\ leases'[j].lanePhysicalIdentity = leases[j].lanePhysicalIdentity
        /\ j \notin Revoked(recoveryEvidence) => leases'[j] = leases[j]
        /\ j \in Revoked(recoveryEvidence) =>
             leases'[j].released /\ leases'[j].recoveryStatus = "CLEAR"
  BY <1>1, <1>2 DEF Recovered, Lease
<1> QED BY <1>2, <1>3 DEF Recover, Recovered
-----------------------------------------------------------------------------
(***************************************************************************)
(* Quarantine.  That the lease a breach is observed in is among the        *)
(* recoverable ones needs one more fact: a closed lease is released.       *)
(***************************************************************************)

ClosedIsReleased ==
  \A k \in DOMAIN leases : leases[k].state = "CLOSED" => leases[k].released

QuarantineInv == FencingInv /\ ClosedIsReleased /\ QuarantineCoversProject

LEMMA ClosedIsReleasedNext ==
  ASSUME QuarantineInv, [Next]_vars
  PROVE  ClosedIsReleased'
<1> USE DEF QuarantineInv, FencingInv
<1>1. CASE AcquireStep
  <2>1. PICK c \in Requests : Acquire(c)
    BY <1>1 DEF AcquireStep
  <2>2. leases'[Key(c)].state # "CLOSED"
    BY <2>1, AcquireEffect
  <2>3. \A j \in DOMAIN leases : leases'[j].state = "CLOSED" => leases'[j].released
    BY <2>1, AcquireEffect DEF ClosedIsReleased
  <2>4. DOMAIN leases' = DOMAIN leases \cup {Key(c)}
    BY <2>1, AcquireEffect
  <2> QED BY <2>2, <2>3, <2>4 DEF ClosedIsReleased
<1>2. CASE TransitionStep
  BY <1>2, TransitionEffect DEF TransitionStep, ClosedIsReleased
<1>3. CASE QuarantineStep
  BY <1>3, QuarantineEffect DEF QuarantineStep, ClosedIsReleased
<1>4. CASE RecoverStep
  BY <1>4, RecoverEffect DEF RecoverStep, ClosedIsReleased
<1>5. CASE QuietStep
  BY <1>5 DEF QuietStep, journal, ClosedIsReleased
<1> QED BY <1>1, <1>2, <1>3, <1>4, <1>5, JournalSteps

LEMMA QuarantineCoversNext ==
  ASSUME QuarantineInv, [Next]_vars
  PROVE  QuarantineCoversProject'
<1> USE DEF QuarantineInv, FencingInv
<1>1. CASE AcquireStep
  BY <1>1, AcquireEffect DEF AcquireStep, QuarantineCoversProject
<1>2. CASE TransitionStep
  BY <1>2, TransitionEffect DEF TransitionStep, QuarantineCoversProject
<1>3. CASE QuarantineStep
  <2>1. PICK k \in DOMAIN leases, before \in SUBSET Paths, breaches \in SUBSET Paths :
          Quarantine(k, before, breaches) /\ guard' = Idle
    BY <1>3 DEF QuarantineStep
  <2>2. k \in Recoverable
    BY <2>1, QuarantineEffect DEF Recoverable, ClosedIsReleased
  <2>3. Recoverable' = Recoverable
    BY <2>1, QuarantineEffect DEF Recoverable
  <2>4. \A j \in DOMAIN leases : j \notin Recoverable =>
          leases[j].recoveryStatus # "PROJECT_WRITESET_RECOVERY"
    BY DEF QuarantineCoversProject, TypeOK, Lease
  <2>5. \A j \in DOMAIN leases' :
          leases'[j].recoveryStatus = "PROJECT_WRITESET_RECOVERY" <=> j \in Recoverable
    BY <2>1, <2>4, QuarantineEffect
  <2>6. Revoked(recoveryEvidence') = Recoverable'
    BY <2>1, <2>3, QuarantineEffect
  <2> QED BY <2>1, <2>2, <2>3, <2>5, <2>6, QuarantineEffect DEF QuarantineCoversProject
<1>4. CASE RecoverStep
  <2>1. PICK command \in signed : Recover(command)
    BY <1>4 DEF RecoverStep
  <2>2. Revoked(recoveryEvidence) = Recoverable
    BY <2>1, RecoverEffect DEF QuarantineCoversProject
  <2>3. \A j \in DOMAIN leases : j \notin Recoverable => leases[j].recoveryStatus = "CLEAR"
    BY <2>1, RecoverEffect DEF QuarantineCoversProject, TypeOK, Lease
  <2> QED BY <2>1, <2>2, <2>3, RecoverEffect DEF QuarantineCoversProject
<1>5. CASE QuietStep
  <2>1. /\ leases' = leases /\ recoveryState' = recoveryState
        /\ Revoked(recoveryEvidence)' = Revoked(recoveryEvidence)
        /\ Recoverable' = Recoverable
    BY <1>5 DEF QuietStep, journal, Revoked, Recoverable
  <2> QED BY <1>5, <2>1 DEF QuietStep, QuarantineCoversProject
<1> QED BY <1>1, <1>2, <1>3, <1>4, <1>5, JournalSteps

LEMMA QuarantineInvariant == Spec => []QuarantineInv
<1>1. Init => QuarantineInv
  BY FencingInit
     DEF Init, QuarantineInv, ClosedIsReleased, QuarantineCoversProject
<1>2. QuarantineInv /\ [Next]_vars => QuarantineInv'
  BY FencingNext, ClosedIsReleasedNext, QuarantineCoversNext DEF QuarantineInv
<1> QED BY <1>1, <1>2, PTL DEF Spec

(***************************************************************************)
(* A breach seen in one lane stops every lane: from the observation to the *)
(* recovery receipt, exactly the unreleased leases are revoked and marked  *)
(* and no guarded program runs (quarantine_observed_writes_locked,         *)
(* run_guarded_command, record_project_recovery).                          *)
(***************************************************************************)
THEOREM QuarantineCovers == Spec => []QuarantineCoversProject
<1>1. QuarantineInv => QuarantineCoversProject
  BY DEF QuarantineInv
<1> QED BY <1>1, QuarantineInvariant, PTL

(***************************************************************************)
(* No operation ever changes a released lease again: neither a transition  *)
(* nor a later quarantine or recovery of the project reaches back to it.   *)
(***************************************************************************)
THEOREM ReleasedNeverChanges == Spec => ReleasedImmutable
<1> DEFINE Kept == \A k \in DOMAIN leases : leases[k].released => leases'[k] = leases[k]
<1>1. QuarantineInv /\ [Next]_vars => Kept
  <2> SUFFICES ASSUME QuarantineInv, [Next]_vars PROVE Kept
    OBVIOUS
  <2> USE DEF QuarantineInv, FencingInv
  <2>1. CASE AcquireStep
    BY <2>1, AcquireEffect DEF AcquireStep
  <2>2. CASE TransitionStep
    BY <2>2, TransitionEffect DEF TransitionStep
  <2>3. CASE QuarantineStep
    BY <2>3, QuarantineEffect DEF QuarantineStep, Recoverable
  <2>4. CASE RecoverStep
    BY <2>4, RecoverEffect DEF RecoverStep, QuarantineCoversProject, Recoverable
  <2>5. CASE QuietStep
    BY <2>5 DEF QuietStep, journal
  <2> QED BY <2>1, <2>2, <2>3, <2>4, <2>5, JournalSteps
<1>2. QuarantineInv /\ [Next]_vars => [Kept]_vars
  BY <1>1
<1> QED BY <1>2, QuarantineInvariant, PTL DEF Spec, ReleasedImmutable

(***************************************************************************)
(* While recovery is pending nothing is admitted and nothing moves, and    *)
(* the one step that ends it releases every lease of the project.          *)
(***************************************************************************)
THEOREM RecoveryStops == Spec => RecoveryStopsProject
<1> DEFINE Stopped ==
      recoveryState # "CLEAR" =>
        /\ DOMAIN leases' = DOMAIN leases
        /\ IF recoveryState' = "CLEAR"
           THEN \A k \in DOMAIN leases : leases'[k].released
           ELSE \A k \in DOMAIN leases : leases'[k].state = leases[k].state
<1>1. QuarantineInv /\ [Next]_vars => Stopped
  <2> SUFFICES ASSUME QuarantineInv, [Next]_vars PROVE Stopped
    OBVIOUS
  <2> USE DEF QuarantineInv, FencingInv
  <2>1. CASE AcquireStep
    BY <2>1, AcquireEffect DEF AcquireStep
  <2>2. CASE TransitionStep
    BY <2>2, TransitionEffect DEF TransitionStep
  <2>3. CASE QuarantineStep
    BY <2>3, QuarantineEffect DEF QuarantineStep
  <2>4. CASE RecoverStep
    <3>1. PICK command \in signed : Recover(command)
      BY <2>4 DEF RecoverStep
    <3>2. Revoked(recoveryEvidence) = Recoverable
      BY <3>1, RecoverEffect DEF QuarantineCoversProject
    <3>3. \A k \in DOMAIN leases : k \notin Recoverable => leases[k].released
      BY DEF Recoverable, ClosedIsReleased, TypeOK, Lease
    <3>4. \A k \in DOMAIN leases : leases'[k].released
      BY <3>1, <3>2, <3>3, RecoverEffect
    <3> QED BY <3>1, <3>4, RecoverEffect
  <2>5. CASE QuietStep
    BY <2>5 DEF QuietStep, journal
  <2> QED BY <2>1, <2>2, <2>3, <2>4, <2>5, JournalSteps
<1>2. QuarantineInv /\ [Next]_vars => [Stopped]_vars
  BY <1>1
<1> QED BY <1>2, QuarantineInvariant, PTL DEF Spec, RecoveryStopsProject

-----------------------------------------------------------------------------
(***************************************************************************)
(* Admission.  Acquisition is the only step that adds an active lease;     *)
(* that no other step does (a recovery in particular does not bring one    *)
(* back) rests on the quarantine invariant.                                *)
(***************************************************************************)

\* A step other than an acquisition adds no active lease, and no step changes
\* what was admitted.
LEMMA ActiveShrinks ==
  ASSUME QuarantineInv,
         TransitionStep \/ QuarantineStep \/ RecoverStep \/ QuietStep
  PROVE  /\ Active' \subseteq Active
         /\ \A k \in Active' :
              /\ leases'[k].cmd = leases[k].cmd
              /\ leases'[k].lanePhysicalIdentity = leases[k].lanePhysicalIdentity
<1> USE DEF QuarantineInv, FencingInv, Active, IsNonterminal
<1>1. CASE TransitionStep
  BY <1>1, TransitionEffect DEF TransitionStep
<1>2. CASE QuarantineStep
  BY <1>2, QuarantineEffect DEF QuarantineStep
<1>3. CASE RecoverStep
  <2>1. PICK command \in signed : Recover(command)
    BY <1>3 DEF RecoverStep
  <2>2. \A k \in Revoked(recoveryEvidence) : ~leases[k].released
    BY <2>1, RecoverEffect DEF QuarantineCoversProject, Recoverable
  <2> QED BY <2>1, <2>2, RecoverEffect
<1>4. CASE QuietStep
  BY <1>4 DEF QuietStep, journal
<1> QED BY <1>1, <1>2, <1>3, <1>4

\* An acquisition adds exactly its own lease.
LEMMA ActiveGrows ==
  ASSUME NEW c \in Requests, Acquire(c)
  PROVE  /\ Key(c) \notin Active
         /\ Active' = Active \cup {Key(c)}
         /\ \A k \in Active : leases'[k] = leases[k]
         /\ leases'[Key(c)].cmd = c
         /\ leases'[Key(c)].lanePhysicalIdentity = laneIdentity[c.laneRoot]
<1>1. /\ Key(c) \notin DOMAIN leases
      /\ DOMAIN leases' = DOMAIN leases \cup {Key(c)}
      /\ leases'[Key(c)].state \notin TerminalStates
      /\ \A j \in DOMAIN leases : leases'[j] = leases[j]
  BY AcquireEffect DEF TerminalStates
<1> QED BY <1>1, AcquireEffect DEF Active, IsNonterminal

-----------------------------------------------------------------------------

(***************************************************************************)
(* Two active leases never share a lane root or a physical directory,      *)
(* however many requests, lanes and directories there are and however the  *)
(* directories behind the lane roots are exchanged meanwhile.              *)
(***************************************************************************)
THEOREM LanesExclusive == Spec => []ActiveLanesExclusive
<1>1. Init => ActiveLanesExclusive
  BY DEF Init, ActiveLanesExclusive, Active
<1>2. QuarantineInv /\ ActiveLanesExclusive /\ [Next]_vars => ActiveLanesExclusive'
  <2> SUFFICES ASSUME QuarantineInv, ActiveLanesExclusive, [Next]_vars
               PROVE  ActiveLanesExclusive'
    OBVIOUS
  <2>1. CASE AcquireStep
    <3>1. PICK c \in Requests : Acquire(c)
      BY <2>1 DEF AcquireStep
    <3>2. \A k \in Active : /\ leases[k].cmd.laneRoot # c.laneRoot
                            /\ leases[k].lanePhysicalIdentity # laneIdentity[c.laneRoot]
      BY <3>1 DEF Acquire, AdmissionChecks, CompatibleWith, LaneApart, LaneOf
    <3> QED BY <3>1, <3>2, ActiveGrows DEF ActiveLanesExclusive, LaneOf
  <2>2. CASE TransitionStep \/ QuarantineStep \/ RecoverStep \/ QuietStep
    BY <2>2, ActiveShrinks DEF ActiveLanesExclusive, LaneOf
  <2> QED BY <2>1, <2>2, JournalSteps DEF QuarantineInv
<1> QED BY <1>1, <1>2, QuarantineInvariant, PTL DEF Spec

(***************************************************************************)
(* The number of active leases never exceeds min(maxParallelLanes, 3) of   *)
(* the envelope of any of them.  An admission looks at its own envelope    *)
(* only; the bound holds for the others because admission also demands one *)
(* envelope, so the invariant carries that agreement.                      *)
(***************************************************************************)
THEOREM CapacityIsBounded == Spec => []CapacityBound
<1> DEFINE OneEnvelope == \A j, k \in Active : leases[j].cmd.envelope = leases[k].cmd.envelope
           Bounded == CapacityBound /\ OneEnvelope
<1>1. Init => Bounded
  BY DEF Init, CapacityBound, Active
<1>2. QuarantineInv /\ Bounded /\ [Next]_vars => Bounded'
  <2> SUFFICES ASSUME QuarantineInv, Bounded, [Next]_vars PROVE Bounded'
    OBVIOUS
  <2>1. \A k \in Active : leases[k].cmd \in Requests
    BY DEF Active, QuarantineInv, FencingInv, TypeOK, Lease
  <2>2. IsFiniteSet(Active) /\ Cardinality(Active) \in Nat
    BY LeasesFinite DEF Active, QuarantineInv, FencingInv
  <2>3. \A c \in Requests : LaneCap(c) \in Nat
    BY RequestsAssumption DEF LaneCap, BindsPlanningRequest
  <2>4. CASE AcquireStep
    <3>1. PICK c \in Requests : Acquire(c)
      BY <2>4 DEF AcquireStep
    <3>2. \A k \in Active : leases[k].cmd.envelope = c.envelope
      BY <3>1 DEF Acquire, AdmissionChecks, CompatibleWith
    <3>3. \A k \in Active : LaneCap(leases[k].cmd) = LaneCap(c)
      BY <2>1, <3>2, RequestsAssumption DEF LaneCap
    <3>4. Cardinality(Active') <= LaneCap(c)
      <4>1. Cardinality(Active) < LaneCap(c)
        BY <3>1 DEF Acquire, AdmissionChecks, CapacityLeft
      <4>2. Cardinality(Active') = Cardinality(Active) + 1
        BY <2>2, <3>1, ActiveGrows, FS_AddElement
      <4> QED BY <2>2, <2>3, <4>1, <4>2
    <3>5. CapacityBound'
      BY <3>1, <3>3, <3>4, ActiveGrows DEF CapacityBound
    <3>6. OneEnvelope'
      BY <3>1, <3>2, ActiveGrows
    <3> QED BY <3>5, <3>6
  <2>5. CASE TransitionStep \/ QuarantineStep \/ RecoverStep \/ QuietStep
    <3>1. Active' \in SUBSET Active /\ \A k \in Active' : leases'[k].cmd = leases[k].cmd
      BY <2>5, ActiveShrinks
    <3>2. Cardinality(Active') <= Cardinality(Active) /\ Cardinality(Active') \in Nat
      BY <2>2, <3>1, FS_Subset, FS_CardinalityType
    <3>3. CapacityBound'
      BY <2>1, <2>2, <2>3, <3>1, <3>2 DEF CapacityBound
    <3>4. OneEnvelope'
      BY <3>1
    <3> QED BY <3>3, <3>4
  <2> QED BY <2>4, <2>5, JournalSteps DEF QuarantineInv
<1>3. Bounded => CapacityBound
  OBVIOUS
<1> HIDE DEF Bounded
<1> QED BY <1>1, <1>2, <1>3, QuarantineInvariant, PTL DEF Spec

(***************************************************************************)
(* The graphs of all requests together have finitely many nodes, so any    *)
(* planning graph that admission builds has.                               *)
(***************************************************************************)

AllFootprints == UNION {c.planningFootprints : c \in Requests}

\* The image of a finite set: FS_Image for a function.
LEMMA FiniteRange ==
  ASSUME NEW S, IsFiniteSet(S), NEW f, DOMAIN f = S
  PROVE  IsFiniteSet({f[x] : x \in S})
<1> DEFINE T == {f[x] : x \in S}
           g == [x \in S |-> f[x]]
<1>1. g \in Surjection(S, T)
  BY DEF Surjection
<1> HIDE DEF g, T
<1>2. IsFiniteSet(T)
  BY <1>1, FS_Surjection
<1> QED BY <1>2 DEF T

\* The nodes of a finite set of edges.
LEMMA FiniteNodes ==
  ASSUME NEW edges, IsFiniteSet(edges)
  PROVE  IsFiniteSet(GraphNodes(edges))
<1> DEFINE sources == [e \in edges |-> e[1]]
           targets == [e \in edges |-> e[2]]
<1>1. IsFiniteSet({sources[e] : e \in edges}) /\ IsFiniteSet({targets[e] : e \in edges})
  BY FiniteRange
<1>2. GraphNodes(edges) = {sources[e] : e \in edges} \cup {targets[e] : e \in edges}
  BY DEF GraphNodes
<1> HIDE DEF sources, targets
<1> QED BY <1>1, <1>2, FS_Union

LEMMA AllFootprintsFinite ==
  /\ IsFiniteSet(AllFootprints)
  /\ \A f \in AllFootprints : IsFiniteSet(f.dependencySet) /\ IsFiniteSet(f.producerConsumerSet)
<1> DEFINE graphs == [c \in Requests |-> c.planningFootprints]
           sets == {graphs[c] : c \in Requests}
<1>1. \A c \in Requests :
        /\ IsFiniteSet(c.planningFootprints)
        /\ \A f \in c.planningFootprints :
             IsFiniteSet(f.dependencySet) /\ IsFiniteSet(f.producerConsumerSet)
  BY RequestsAssumption DEF BindsPlanningRequest
<1>2. IsFiniteSet(sets)
  BY RequestsAssumption, FiniteRange
<1>3. \A T \in sets : IsFiniteSet(T)
  BY <1>1
<1>4. AllFootprints = UNION sets
  BY DEF AllFootprints
<1> HIDE DEF sets
<1>5. IsFiniteSet(AllFootprints)
  BY <1>2, <1>3, <1>4, FS_UNION
<1> QED BY <1>1, <1>5 DEF AllFootprints

LEMMA AllGraphFinite == FiniteGraph(AllFootprints)
<1>1. IsFiniteSet(DependencyEdges(AllFootprints))
  <2> DEFINE edgesOf == [f \in AllFootprints |-> {<<f.sliceId, d>> : d \in f.dependencySet}]
             sets == {edgesOf[f] : f \in AllFootprints}
  <2>1. IsFiniteSet(sets)
    BY AllFootprintsFinite, FiniteRange
  <2>2. ASSUME NEW f \in AllFootprints
        PROVE  IsFiniteSet({<<f.sliceId, d>> : d \in f.dependencySet})
    <3> DEFINE g == [d \in f.dependencySet |-> <<f.sliceId, d>>]
    <3>1. IsFiniteSet({g[d] : d \in f.dependencySet})
      BY AllFootprintsFinite, FiniteRange
    <3>2. {g[d] : d \in f.dependencySet} = {<<f.sliceId, d>> : d \in f.dependencySet}
      OBVIOUS
    <3> QED BY <3>1, <3>2
  <2>3. \A T \in sets : IsFiniteSet(T)
    BY <2>2
  <2>4. DependencyEdges(AllFootprints) = UNION sets
    BY DEF DependencyEdges
  <2> HIDE DEF sets
  <2> QED BY <2>1, <2>3, <2>4, FS_UNION
<1>2. IsFiniteSet(UNION {f.producerConsumerSet : f \in AllFootprints})
  <2> DEFINE edgesOf == [f \in AllFootprints |-> f.producerConsumerSet]
             sets == {edgesOf[f] : f \in AllFootprints}
  <2>1. IsFiniteSet(sets)
    BY AllFootprintsFinite, FiniteRange
  <2>2. \A T \in sets : IsFiniteSet(T)
    BY AllFootprintsFinite
  <2>3. sets = {f.producerConsumerSet : f \in AllFootprints}
    OBVIOUS
  <2> HIDE DEF sets
  <2> QED BY <2>1, <2>2, <2>3, FS_UNION
<1> QED BY <1>1, <1>2, FiniteNodes DEF FiniteGraph

LEMMA FiniteSubgraph ==
  ASSUME NEW graph \in SUBSET AllFootprints
  PROVE  FiniteGraph(graph)
<1> DEFINE owners(g) == UNION {f.producerConsumerSet : f \in g}
<1>1. GraphNodes(DependencyEdges(graph)) \subseteq GraphNodes(DependencyEdges(AllFootprints))
  BY DEF GraphNodes, DependencyEdges
<1>2. GraphNodes(owners(graph)) \subseteq GraphNodes(owners(AllFootprints))
  <2>1. owners(graph) \subseteq owners(AllFootprints)
    OBVIOUS
  <2> HIDE DEF owners
  <2> QED BY <2>1 DEF GraphNodes
<1> QED BY <1>1, <1>2, AllGraphFinite, FS_Subset DEF FiniteGraph

(***************************************************************************)
(* Two active leases never conflict over the graph of the two of them,     *)
(* whichever was admitted first and however many other leases came and     *)
(* went.  Admission looks for paths in the merged graph of everything that *)
(* is active then; the theorem needs that a conflict in a part of that     *)
(* graph is one in the whole, and that the predicate is symmetric.         *)
(***************************************************************************)
THEOREM FootprintsDisjoint == Spec => []ActiveFootprintsDisjoint
<1>1. Init => ActiveFootprintsDisjoint
  BY DEF Init, ActiveFootprintsDisjoint, Active
<1>2. QuarantineInv /\ ActiveFootprintsDisjoint /\ [Next]_vars => ActiveFootprintsDisjoint'
  <2> SUFFICES ASSUME QuarantineInv, ActiveFootprintsDisjoint, [Next]_vars
               PROVE  ActiveFootprintsDisjoint'
    OBVIOUS
  <2> DEFINE apart(a, b) ==
        /\ ~FootprintsConflict(a.fullFootprint, b.fullFootprint,
                               a.planningFootprints \cup b.planningFootprints)
        /\ a.envelope = b.envelope
        /\ a.conflictPolicyVersion = b.conflictPolicyVersion
        /\ a.expectedLaneBase = b.expectedLaneBase
  <2>1. \A j, k \in Active : j # k => apart(leases[j].cmd, leases[k].cmd)
    BY DEF ActiveFootprintsDisjoint, FootprintOf
  <2>2. \A a, b : apart(a, b) => apart(b, a)
    <3> SUFFICES ASSUME NEW a, NEW b, apart(a, b) PROVE apart(b, a)
      OBVIOUS
    <3>1. a.planningFootprints \cup b.planningFootprints
            = b.planningFootprints \cup a.planningFootprints
      OBVIOUS
    <3> QED BY <3>1, ConflictSymmetric
  <2>3. (\A j, k \in Active' : j # k => apart(leases'[j].cmd, leases'[k].cmd))
          => ActiveFootprintsDisjoint'
    BY DEF ActiveFootprintsDisjoint, FootprintOf
  <2>4. CASE AcquireStep
    <3>1. PICK c \in Requests : Acquire(c)
      BY <2>4 DEF AcquireStep
    <3>2. ASSUME NEW k \in Active PROVE apart(leases[k].cmd, c)
      <4>1. CompatibleWith(k, c)
        BY <3>1 DEF Acquire, AdmissionChecks
      <4>2. \A j \in Active : leases[j].cmd \in Requests
        BY DEF Active, QuarantineInv, FencingInv, TypeOK, Lease
      <4> DEFINE others == UNION {leases[j].cmd.planningFootprints : j \in Active}
      <4>3. /\ PlanningGraph(c) = others \cup c.planningFootprints
            /\ leases[k].cmd.planningFootprints \subseteq others
        <5>1. leases[k].cmd.planningFootprints \subseteq others
          OBVIOUS
        <5> HIDE DEF apart
        <5>2. PlanningGraph(c) = others \cup c.planningFootprints
          BY Zenon DEF PlanningGraph
        <5> QED BY <5>1, <5>2
      <4>4. others \subseteq AllFootprints /\ c.planningFootprints \subseteq AllFootprints
        <5>1. \A j \in Active : leases[j].cmd.planningFootprints \subseteq AllFootprints
          BY <4>2 DEF AllFootprints
        <5>2. c.planningFootprints \subseteq AllFootprints
          BY DEF AllFootprints
        <5> QED BY <5>1, <5>2
      <4> HIDE DEF others
      <4>5. ~FootprintsConflict(leases[k].cmd.fullFootprint, c.fullFootprint,
                                leases[k].cmd.planningFootprints \cup c.planningFootprints)
        <5>1. /\ PlanningGraph(c) \in SUBSET AllFootprints
              /\ leases[k].cmd.planningFootprints \cup c.planningFootprints
                   \subseteq PlanningGraph(c)
          BY <4>3, <4>4
        <5> QED BY <4>1, <5>1, FiniteSubgraph, ConflictMonotone DEF CompatibleWith, FootprintOf
      <4> QED BY <4>1, <4>5 DEF CompatibleWith
    <3> HIDE DEF apart
    <3> QED BY <2>1, <2>2, <2>3, <3>1, <3>2, ActiveGrows
  <2>5. CASE TransitionStep \/ QuarantineStep \/ RecoverStep \/ QuietStep
    <3> HIDE DEF apart
    <3> QED BY <2>1, <2>3, <2>5, ActiveShrinks
  <2> QED BY <2>4, <2>5, JournalSteps DEF QuarantineInv
<1> QED BY <1>1, <1>2, QuarantineInvariant, PTL DEF Spec

-----------------------------------------------------------------------------
(***************************************************************************)
(* Receipts are appended and never changed.                                *)
(***************************************************************************)

LEMMA ReceiptAppended ==
  ASSUME receipts \in Seq(Receipt), NEW r \in Receipt, Record(r)
  PROVE  /\ Len(receipts) \in Nat
         /\ DOMAIN receipts = 1..Len(receipts)
         /\ Len(receipts') = Len(receipts) + 1
         /\ DOMAIN receipts' = 1..(Len(receipts) + 1)
         /\ \A i \in DOMAIN receipts : receipts'[i] = receipts[i]
         /\ receipts'[Len(receipts) + 1] = r
BY DEF Record

LEMMA TypeAppended ==
  ASSUME receipts \in Seq(Receipt), NEW r \in Receipt, Record(r), NEW type
  PROVE  /\ \A i \in ReceiptsOfType(type)' :
              \/ i \in ReceiptsOfType(type) /\ receipts'[i] = receipts[i]
              \/ i = Len(receipts) + 1 /\ receipts'[i] = r /\ r.receiptType = type
         /\ \A i \in ReceiptsOfType(type) :
              i \in ReceiptsOfType(type)' /\ receipts'[i] = receipts[i]
         /\ r.receiptType = type => Len(receipts) + 1 \in ReceiptsOfType(type)'
<1> DEFINE n == Len(receipts)
<1>1. /\ n \in Nat
      /\ DOMAIN receipts = 1..n
      /\ DOMAIN receipts' = 1..(n + 1)
      /\ \A i \in DOMAIN receipts : receipts'[i] = receipts[i]
      /\ receipts'[n + 1] = r
  BY ReceiptAppended
<1>2. \A i \in DOMAIN receipts' : i \in DOMAIN receipts \/ i = n + 1
  BY <1>1
<1>3. n + 1 \in DOMAIN receipts' /\ \A i \in DOMAIN receipts : i \in DOMAIN receipts'
  BY <1>1
<1> QED BY <1>1, <1>2, <1>3 DEF ReceiptsOfType

\* What each operation that writes the journal records.
LEMMA AcquireRecords ==
  ASSUME FencingInv, NEW c \in Requests, Acquire(c)
  PROVE  \E r \in AcquireReceipt : Record(r) /\ r.key = Key(c)
<1> DEFINE r == [receiptType |-> "ACQUIRE", key |-> Key(c), fencingToken |-> nextFencingToken]
<1>1. r \in AcquireReceipt
  BY KeyOfRequest DEF AcquireReceipt, FencingInv, TypeOK
<1>2. Record(r) /\ r.key = Key(c)
  BY DEF Acquire
<1> HIDE DEF r
<1> QED BY <1>1, <1>2

LEMMA TransitionRecords ==
  ASSUME FencingInv, NEW k \in DOMAIN leases, NEW t, NEW d \in CandidateIds,
         Transition(k, t, d)
  PROVE  \E r \in TransitionReceipt :
           /\ Record(r)
           /\ r.key = k /\ r.previousState = leases[k].state /\ r.nextState = t
           /\ r.candidateIdentity = d
<1> DEFINE r == [receiptType |-> "TRANSITION", key |-> k,
                 fencingToken |-> leases[k].fencingToken,
                 previousState |-> leases[k].state, nextState |-> t,
                 fingerprint |-> liveFingerprint, candidateIdentity |-> d]
<1>1. t \in LeaseStates
  BY DEF Transition, AllowedTransitions, LeaseStates, ExceptionalStates, CandidateStates
<1>2. leases[k] \in Lease /\ k \in Keys /\ liveFingerprint \in Fingerprints
  BY DEF FencingInv, TypeOK
<1>3. r \in TransitionReceipt
  BY <1>1, <1>2 DEF TransitionReceipt, Lease
<1>4. Record(r)
  BY DEF Transition
<1>5. /\ r.key = k /\ r.previousState = leases[k].state /\ r.nextState = t
      /\ r.candidateIdentity = d
  OBVIOUS
<1> HIDE DEF r
<1> QED BY <1>3, <1>4, <1>5

LEMMA QuarantineRecords ==
  ASSUME FencingInv, NEW k \in DOMAIN leases,
         NEW before \in SUBSET Paths, NEW breaches \in SUBSET Paths,
         Quarantine(k, before, breaches)
  PROVE  \E r \in ObservationReceipt :
           /\ Record(r)
           /\ r.key = k /\ r.observedPaths = breaches /\ r.evidence = recoveryEvidence'
<1> DEFINE r == [receiptType |-> "WRITE_OBSERVATION", key |-> k,
                 fencingToken |-> leases[k].fencingToken, beforeInventory |-> before,
                 observedPaths |-> breaches, evidence |-> recoveryEvidence']
<1>1. recoveryEvidence' \in Evidence
  BY QuarantineKeepsJournal DEF JournalInv
<1>2. k \in Keys /\ leases[k].fencingToken \in Nat
  BY DEF FencingInv, TypeOK, Lease
<1>3. r \in ObservationReceipt
  BY <1>1, <1>2 DEF ObservationReceipt
<1>4. Record(r)
  BY DEF Quarantine
<1>5. r.key = k /\ r.observedPaths = breaches /\ r.evidence = recoveryEvidence'
  OBVIOUS
<1> HIDE DEF r
<1> QED BY <1>3, <1>4, <1>5

LEMMA RecoverRecords ==
  ASSUME FencingInv, NEW command \in signed, Recover(command)
  PROVE  \E r \in RecoveryReceipt :
           Record(r) /\ r.command = command /\ r.evidence = recoveryEvidence
<1> DEFINE tokens == {leases[k].fencingToken : k \in Revoked(recoveryEvidence)}
           r == [receiptType |-> "RECOVERY", fencingToken |-> Max(tokens),
                 command |-> command, evidence |-> recoveryEvidence]
<1>1. Max(tokens) \in Nat
  <2>1. /\ Revoked(recoveryEvidence) \subseteq DOMAIN leases
        /\ Revoked(recoveryEvidence) # {}
        /\ nextFencingToken \in Nat
    BY DEF FencingInv, TypeOK, ReferencesResolve, Recover, RecoverySnapshotHolds
  <2>2. \A k \in DOMAIN leases :
          leases[k].fencingToken \in Nat /\ leases[k].fencingToken <= nextFencingToken
    BY <2>1 DEF FencingInv, TypeOK, Lease, TokensFenced
  <2>3. tokens \in SUBSET Nat /\ tokens # {} /\ \A x \in tokens : x <= nextFencingToken
    BY <2>1, <2>2
  <2> HIDE DEF tokens
  <2> QED BY <2>1, <2>3, MaxOfBounded
<1>2. Record(r)
  BY DEF Recover
<1>3. r \in RecoveryReceipt /\ r.command = command /\ r.evidence = recoveryEvidence
  <2> HIDE DEF tokens
  <2> QED BY <1>1 DEF RecoveryReceipt, FencingInv, TypeOK
<1> HIDE DEF r
<1> QED BY <1>2, <1>3

-----------------------------------------------------------------------------
(***************************************************************************)
(* Every receipt names leases that exist.                                  *)
(***************************************************************************)

ReceiptsResolve ==
  /\ \A i \in ReceiptsOfType("ACQUIRE") : receipts[i].key \in DOMAIN leases
  /\ \A i \in ReceiptsOfType("TRANSITION") : receipts[i].key \in DOMAIN leases
  /\ \A i \in ReceiptsOfType("WRITE_OBSERVATION") : receipts[i].key \in DOMAIN leases
  /\ \A i \in ReceiptsOfType("RECOVERY") : Revoked(receipts[i].evidence) \subseteq DOMAIN leases

\* A kind of receipt is a receipt of that type.
LEMMA KindsOfReceipt ==
  /\ \A r \in AcquireReceipt : r \in Receipt /\ r.receiptType = "ACQUIRE"
  /\ \A r \in TransitionReceipt : r \in Receipt /\ r.receiptType = "TRANSITION"
  /\ \A r \in ObservationReceipt : r \in Receipt /\ r.receiptType = "WRITE_OBSERVATION"
  /\ \A r \in RecoveryReceipt : r \in Receipt /\ r.receiptType = "RECOVERY"
<1>1. \A r \in AcquireReceipt : r.receiptType = "ACQUIRE"
  BY DEF AcquireReceipt
<1>2. \A r \in TransitionReceipt : r.receiptType = "TRANSITION"
  BY DEF TransitionReceipt
<1>3. \A r \in ObservationReceipt : r.receiptType = "WRITE_OBSERVATION"
  BY DEF ObservationReceipt
<1>4. \A r \in RecoveryReceipt : r.receiptType = "RECOVERY"
  BY DEF RecoveryReceipt
<1> QED BY <1>1, <1>2, <1>3, <1>4 DEF Receipt

LEMMA ResolveNext ==
  ASSUME QuarantineInv, ReceiptsResolve, [Next]_vars
  PROVE  ReceiptsResolve'
<1> USE DEF QuarantineInv, FencingInv
<1>0. receipts \in Seq(Receipt)
  BY DEF TypeOK
<1>1. CASE AcquireStep
  <2>1. PICK c \in Requests : Acquire(c)
    BY <1>1 DEF AcquireStep
  <2>2. PICK r \in AcquireReceipt : Record(r) /\ r.key = Key(c)
    BY <2>1, AcquireRecords
  <2>3. r \in Receipt /\ r.receiptType = "ACQUIRE"
    BY KindsOfReceipt
  <2>4. DOMAIN leases' = DOMAIN leases \cup {Key(c)}
    BY <2>1, AcquireEffect
  <2> QED BY <1>0, <2>2, <2>3, <2>4, TypeAppended DEF ReceiptsResolve
<1>2. CASE TransitionStep
  <2>1. PICK k \in DOMAIN leases, t \in NextStates, d \in CandidateIds : Transition(k, t, d)
    BY <1>2 DEF TransitionStep
  <2>2. PICK r \in TransitionReceipt : Record(r) /\ r.key = k
    BY <2>1, TransitionRecords
  <2>3. r \in Receipt /\ r.receiptType = "TRANSITION"
    BY KindsOfReceipt
  <2>4. DOMAIN leases' = DOMAIN leases
    BY <2>1, TransitionEffect
  <2> QED BY <1>0, <2>2, <2>3, <2>4, TypeAppended DEF ReceiptsResolve
<1>3. CASE QuarantineStep
  <2>1. PICK k \in DOMAIN leases, before \in SUBSET Paths, breaches \in SUBSET Paths :
          Quarantine(k, before, breaches) /\ guard' = Idle
    BY <1>3 DEF QuarantineStep
  <2>2. PICK r \in ObservationReceipt : Record(r) /\ r.key = k
    BY <2>1, QuarantineRecords
  <2>3. r \in Receipt /\ r.receiptType = "WRITE_OBSERVATION"
    BY KindsOfReceipt
  <2>4. DOMAIN leases' = DOMAIN leases
    BY <2>1, QuarantineEffect
  <2> QED BY <1>0, <2>2, <2>3, <2>4, TypeAppended DEF ReceiptsResolve
<1>4. CASE RecoverStep
  <2>1. PICK command \in signed : Recover(command)
    BY <1>4 DEF RecoverStep
  <2>2. PICK r \in RecoveryReceipt : Record(r) /\ r.evidence = recoveryEvidence
    BY <2>1, RecoverRecords
  <2>3. r \in Receipt /\ r.receiptType = "RECOVERY"
    BY KindsOfReceipt
  <2>4. DOMAIN leases' = DOMAIN leases
    BY <2>1, RecoverEffect
  <2>5. Revoked(r.evidence) \subseteq DOMAIN leases
    BY <2>2 DEF ReferencesResolve
  <2> QED BY <1>0, <2>2, <2>3, <2>4, <2>5, TypeAppended DEF ReceiptsResolve
<1>5. CASE QuietStep
  BY <1>5 DEF QuietStep, journal, ReceiptsResolve, ReceiptsOfType
<1> QED BY <1>1, <1>2, <1>3, <1>4, <1>5, JournalSteps

-----------------------------------------------------------------------------
(***************************************************************************)
(* Drift.                                                                  *)
(***************************************************************************)

\* A recovery decides every lease it revokes STALE or CANCELLED.
LEMMA RecoverDecides ==
  ASSUME TypeOK, NEW command, Recover(command)
  PROVE  \A k \in DOMAIN leases :
           /\ k \in Revoked(recoveryEvidence) =>
                /\ leases'[k].state = recoveryEvidence.decisions[k]
                /\ leases'[k].state \in RevocationStates
           /\ leases'[k].candidateIdentity = leases[k].candidateIdentity
<1>1. \A k \in DOMAIN leases : leases[k] \in Lease
  BY DEF TypeOK
<1>2. command.decisions = recoveryEvidence.decisions
  BY DEF Recover, BindsPendingEvidence
<1>3. PICK D \in SUBSET Keys : recoveryEvidence.decisions \in [D -> RevocationStates]
  BY DEF TypeOK, Evidence, Decisions
<1>4. \A k \in Revoked(recoveryEvidence) : recoveryEvidence.decisions[k] \in RevocationStates
  BY <1>3 DEF Revoked
<1>5. leases' = Recovered(command)
  BY DEF Recover
<1> QED BY <1>1, <1>2, <1>4, <1>5 DEF Recovered, Lease

(***************************************************************************)
(* Once the live snapshot differs from the one a lease was admitted under, *)
(* every operation that moves the lease makes it STALE or CANCELLED:       *)
(* transition_lane_lease because it looks, record_project_recovery because *)
(* its evidence decides nothing else.                                      *)
(***************************************************************************)
THEOREM DriftRevokes == Spec => DriftOnlyRevokes
<1> DEFINE Moved ==
      \A k \in DOMAIN leases :
        leases'[k].state # leases[k].state /\ leases[k].cmd.fingerprint # liveFingerprint
          => leases'[k].state \in RevocationStates
<1>1. QuarantineInv /\ [Next]_vars => Moved
  <2> SUFFICES ASSUME QuarantineInv, [Next]_vars PROVE Moved
    OBVIOUS
  <2> USE DEF QuarantineInv, FencingInv
  <2>1. CASE AcquireStep
    BY <2>1, AcquireEffect DEF AcquireStep
  <2>2. CASE TransitionStep
    <3>1. PICK k \in DOMAIN leases, t \in NextStates, d \in CandidateIds :
            Transition(k, t, d)
      BY <2>2 DEF TransitionStep
    <3>2. leases[k].cmd.fingerprint # liveFingerprint => t \in RevocationStates
      BY <3>1 DEF Transition, DriftPermits, AuthorityDrifted
    <3> QED BY <3>1, <3>2, TransitionEffect
  <2>3. CASE QuarantineStep
    BY <2>3, QuarantineEffect DEF QuarantineStep
  <2>4. CASE RecoverStep
    <3>1. PICK command \in signed : Recover(command)
      BY <2>4 DEF RecoverStep
    <3> QED BY <3>1, RecoverEffect, RecoverDecides
  <2>5. CASE QuietStep
    BY <2>5 DEF QuietStep, journal
  <2> QED BY <2>1, <2>2, <2>3, <2>4, <2>5, JournalSteps
<1>2. QuarantineInv /\ [Next]_vars => [Moved]_vars
  BY <1>1
<1> QED BY <1>2, QuarantineInvariant, PTL DEF Spec, DriftOnlyRevokes

-----------------------------------------------------------------------------
(***************************************************************************)
(* The guard.  That a breach of a running program can be quarantined rests *)
(* on the history: a lease that was ever observed is released by the time  *)
(* the project runs again, so it is not the lease of a program that runs.  *)
(***************************************************************************)

ObservedAreReleased ==
  recoveryState = "CLEAR" =>
    \A i \in ReceiptsOfType("WRITE_OBSERVATION") : leases[receipts[i].key].released

\* The running program's lease, without the history.
GuardedLease ==
  guard # Idle =>
    /\ guard.key \in DOMAIN leases
    /\ leases[guard.key].state = "ACTIVE"
    /\ ~leases[guard.key].released
    /\ recoveryState = "CLEAR"

GuardInv == QuarantineInv /\ ReceiptsResolve /\ ObservedAreReleased /\ GuardedLease

LEMMA ObservedAreReleasedNext ==
  ASSUME GuardInv, [Next]_vars
  PROVE  ObservedAreReleased'
<1> USE DEF GuardInv, QuarantineInv, FencingInv
<1>0. receipts \in Seq(Receipt)
  BY DEF TypeOK
<1>1. CASE AcquireStep
  <2>1. PICK c \in Requests : Acquire(c)
    BY <1>1 DEF AcquireStep
  <2>2. PICK r \in AcquireReceipt : Record(r)
    BY <2>1, AcquireRecords
  <2>3. r \in Receipt /\ r.receiptType = "ACQUIRE"
    BY KindsOfReceipt
  <2>4. recoveryState = "CLEAR" /\ \A j \in DOMAIN leases : leases'[j] = leases[j]
    BY <2>1, AcquireEffect
  <2> QED BY <1>0, <2>2, <2>3, <2>4, TypeAppended DEF ReceiptsResolve, ObservedAreReleased
<1>2. CASE TransitionStep
  <2>1. PICK k \in DOMAIN leases, t \in NextStates, d \in CandidateIds : Transition(k, t, d)
    BY <1>2 DEF TransitionStep
  <2>2. PICK r \in TransitionReceipt : Record(r)
    BY <2>1, TransitionRecords
  <2>3. r \in Receipt /\ r.receiptType = "TRANSITION"
    BY KindsOfReceipt
  <2>4. /\ recoveryState = "CLEAR"
        /\ \A j \in DOMAIN leases : leases[j].released => leases'[j].released
    BY <2>1, TransitionEffect
  <2> QED BY <1>0, <2>2, <2>3, <2>4, TypeAppended DEF ReceiptsResolve, ObservedAreReleased
<1>3. CASE QuarantineStep
  BY <1>3, QuarantineEffect DEF QuarantineStep, ObservedAreReleased
<1>4. CASE RecoverStep
  <2>1. PICK command \in signed : Recover(command)
    BY <1>4 DEF RecoverStep
  <2>2. PICK r \in RecoveryReceipt : Record(r)
    BY <2>1, RecoverRecords
  <2>3. r \in Receipt /\ r.receiptType = "RECOVERY"
    BY KindsOfReceipt
  <2>4. Revoked(recoveryEvidence) = Recoverable
    BY <2>1, RecoverEffect DEF QuarantineCoversProject
  <2>5. \A k \in DOMAIN leases : k \notin Recoverable => leases[k].released
    BY DEF Recoverable, ClosedIsReleased, TypeOK, Lease
  <2>6. \A k \in DOMAIN leases : leases'[k].released
    BY <2>1, <2>4, <2>5, RecoverEffect
  <2> QED BY <1>0, <2>2, <2>3, <2>6, TypeAppended DEF ReceiptsResolve, ObservedAreReleased
<1>5. CASE QuietStep
  BY <1>5 DEF QuietStep, journal, ObservedAreReleased, ReceiptsOfType
<1> QED BY <1>1, <1>2, <1>3, <1>4, <1>5, JournalSteps

LEMMA GuardedLeaseNext ==
  ASSUME GuardInv, [Next]_vars
  PROVE  GuardedLease'
<1> USE DEF GuardInv, QuarantineInv, FencingInv
<1>1. ASSUME NEW k \in DOMAIN leases, GuardBegin(k) PROVE GuardedLease'
  <2>1. /\ recoveryState = "CLEAR" /\ leases[k].state = "ACTIVE" /\ ~leases[k].released
        /\ guard'.key = k
    BY <1>1 DEF GuardBegin, GuardAdmits, RecoveryClear
  <2> QED BY <1>1, <2>1 DEF GuardBegin, GuardedLease, journal
<1>2. ASSUME UNCHANGED journal, guard' = guard \/ guard' = Idle PROVE GuardedLease'
  BY <1>2 DEF GuardedLease, journal
<1>3. ASSUME guard' = Idle PROVE GuardedLease'
  BY <1>3 DEF GuardedLease
<1>4. ASSUME guard = Idle, guard' = guard PROVE GuardedLease'
  BY <1>4 DEF GuardedLease
<1>5. CASE \/ \E c \in Requests : Acquire(c)
           \/ \E k \in DOMAIN leases, s \in NextStates, d \in CandidateIds : Transition(k, s, d)
           \/ \E command \in signed : Recover(command)
  BY <1>4, <1>5 DEF Acquire, Transition, Recover, CanWrite, LockFree
<1>6. CASE \/ \E c \in Requests : AcquireReplay(c)
           \/ \E i \in ReceiptsOfType("TRANSITION") : TransitionReplay(i)
           \/ \E i \in ReceiptsOfType("WRITE_OBSERVATION") : ObserveReplay(i)
           \/ RecoverReplay
  BY <1>2, <1>6 DEF AcquireReplay, TransitionReplay, ObserveReplay, RecoverReplay
<1>7. CASE \E k \in DOMAIN leases : Observe(k) \/ GuardRefuse(k)
  BY <1>4, <1>7 DEF Observe, GuardRefuse, GuardAdmits, LockFree
<1>8. CASE GuardFinish \/ GuardBreach \/ GuardFail
  BY <1>3, <1>8 DEF GuardFinish, GuardBreach, GuardFail
<1>9. CASE Environment
  BY <1>2, <1>9 DEF Environment, SignRecovery, ChangeAuthority, AdvanceHead, LaneWrite,
                    LaneClean, LaneCommit, LaneReplace
<1>10. CASE UNCHANGED vars
  BY <1>2, <1>10 DEF vars, journal
<1> QED BY <1>1, <1>5, <1>6, <1>7, <1>8, <1>9, <1>10 DEF Next, Coordinate

(***************************************************************************)
(* A program under run_guarded_command keeps an ACTIVE, unreleased and     *)
(* unrevoked lease for as long as it runs, and the quarantine of a breach  *)
(* it leaves is never refused as the replay of an earlier observation.     *)
(***************************************************************************)
THEOREM GuardIsFenced == Spec => []GuardStaysFenced
<1>1. Init => GuardInv
  <2> SUFFICES ASSUME Init PROVE GuardInv
    OBVIOUS
  <2>1. QuarantineInv
    BY FencingInit
       DEF Init, QuarantineInv, ClosedIsReleased, QuarantineCoversProject
  <2>2. ReceiptsResolve /\ ObservedAreReleased /\ GuardedLease
    BY DEF Init, ReceiptsResolve, ObservedAreReleased, GuardedLease, ReceiptsOfType
  <2> QED BY <2>1, <2>2 DEF GuardInv
<1>2. GuardInv /\ [Next]_vars => ReceiptsResolve' /\ ObservedAreReleased' /\ GuardedLease'
  BY ResolveNext, ObservedAreReleasedNext, GuardedLeaseNext DEF GuardInv
<1>3. GuardInv => GuardStaysFenced
  BY DEF GuardInv, GuardedLease, ObservedAreReleased, GuardStaysFenced, Recoverable
<1>4. GuardInv <=> QuarantineInv /\ ReceiptsResolve /\ ObservedAreReleased /\ GuardedLease
  BY DEF GuardInv
<1> QED BY <1>1, <1>2, <1>3, <1>4, QuarantineInvariant, PTL DEF Spec

-----------------------------------------------------------------------------
(***************************************************************************)
(* Retirement.                                                             *)
(***************************************************************************)

\* No step changes what a durable lease was admitted for.
LEMMA CommandsStay ==
  ASSUME QuarantineInv, [Next]_vars
  PROVE  \A k \in DOMAIN leases : k \in DOMAIN leases' /\ leases'[k].cmd = leases[k].cmd
<1> USE DEF QuarantineInv, FencingInv
<1>1. CASE AcquireStep
  BY <1>1, AcquireEffect DEF AcquireStep
<1>2. CASE TransitionStep
  BY <1>2, TransitionEffect DEF TransitionStep
<1>3. CASE QuarantineStep
  BY <1>3, QuarantineEffect DEF QuarantineStep
<1>4. CASE RecoverStep
  BY <1>4, RecoverEffect DEF RecoverStep
<1>5. CASE QuietStep
  BY <1>5 DEF QuietStep, journal
<1> QED BY <1>1, <1>2, <1>3, <1>4, <1>5, JournalSteps

\* What an acquisition leaves true of the retired identities.
LEMMA AcquireAvoidsRetired ==
  ASSUME NEW c \in Requests, Acquire(c), NEW i \in ReceiptsOfType("RECOVERY"),
         NEW k \in Revoked(receipts[i].evidence)
  PROVE  c.batchPlanId # leases[k].cmd.batchPlanId /\ c.attemptId # leases[k].cmd.attemptId
<1>1. k \in RecoveredKeys
  BY DEF RecoveredKeys
<1> QED BY <1>1 DEF Acquire, AdmissionChecks, RetiredBatches, RetiredAttempts

(***************************************************************************)
(* No lease is admitted under a batch or an attempt identity that a        *)
(* recovery receipt revoked before, however many recoveries, batches and   *)
(* attempts lie between (_retired_recovery_identities).                    *)
(***************************************************************************)
THEOREM RetirementIsPermanent == Spec => []RetiredStayRetired
<1> DEFINE Inv == ReceiptsResolve /\ RetiredStayRetired
<1>1. Init => Inv
  BY DEF Init, ReceiptsResolve, RetiredStayRetired, ReceiptsOfType
<1>2. QuarantineInv /\ Inv /\ [Next]_vars => Inv'
  <2> SUFFICES ASSUME QuarantineInv, ReceiptsResolve, RetiredStayRetired, [Next]_vars
               PROVE  RetiredStayRetired'
    BY ResolveNext
  <2> USE DEF QuarantineInv, FencingInv
  <2>0. receipts \in Seq(Receipt)
    BY DEF TypeOK
  <2>keep. \A k \in DOMAIN leases : leases'[k].cmd = leases[k].cmd
    BY CommandsStay
  <2>1. CASE AcquireStep
    <3>1. PICK c \in Requests : Acquire(c)
      BY <2>1 DEF AcquireStep
    <3>2. PICK r \in AcquireReceipt : Record(r) /\ r.key = Key(c)
      BY <3>1, AcquireRecords
    <3>3. r \in Receipt /\ r.receiptType = "ACQUIRE"
      BY KindsOfReceipt
    <3>4. leases'[Key(c)].cmd = c
      BY <3>1, AcquireEffect
    <3> SUFFICES ASSUME NEW i \in ReceiptsOfType("RECOVERY")',
                        NEW j \in ReceiptsOfType("ACQUIRE")', i < j,
                        NEW k \in Revoked(receipts[i].evidence)'
                 PROVE  /\ leases'[receipts'[j].key].cmd.batchPlanId # leases'[k].cmd.batchPlanId
                        /\ leases'[receipts'[j].key].cmd.attemptId # leases'[k].cmd.attemptId
      BY DEF RetiredStayRetired
    <3>5. i \in ReceiptsOfType("RECOVERY") /\ receipts'[i] = receipts[i]
      BY <2>0, <3>2, <3>3, TypeAppended
    <3>6. k \in Revoked(receipts[i].evidence) /\ k \in DOMAIN leases
      BY <3>5 DEF Revoked, ReceiptsResolve
    <3>7. CASE j \in ReceiptsOfType("ACQUIRE") /\ receipts'[j] = receipts[j]
      BY <2>keep, <3>5, <3>6, <3>7 DEF RetiredStayRetired, ReceiptsResolve
    <3>8. CASE receipts'[j] = r
      BY <2>keep, <3>1, <3>2, <3>4, <3>5, <3>6, <3>8, AcquireAvoidsRetired
    <3> QED BY <2>0, <3>2, <3>3, <3>7, <3>8, TypeAppended
  <2>2. CASE TransitionStep
    <3>1. PICK k \in DOMAIN leases, t \in NextStates, d \in CandidateIds :
            Transition(k, t, d)
      BY <2>2 DEF TransitionStep
    <3>2. PICK r \in TransitionReceipt : Record(r)
      BY <3>1, TransitionRecords
    <3>3. r \in Receipt /\ r.receiptType = "TRANSITION"
      BY KindsOfReceipt
    <3> QED BY <2>0, <2>keep, <3>2, <3>3, TypeAppended
               DEF RetiredStayRetired, ReceiptsResolve, Revoked
  <2>3. CASE QuarantineStep
    <3>1. PICK k \in DOMAIN leases, before \in SUBSET Paths, breaches \in SUBSET Paths :
            Quarantine(k, before, breaches) /\ guard' = Idle
      BY <2>3 DEF QuarantineStep
    <3>2. PICK r \in ObservationReceipt : Record(r)
      BY <3>1, QuarantineRecords
    <3>3. r \in Receipt /\ r.receiptType = "WRITE_OBSERVATION"
      BY KindsOfReceipt
    <3> QED BY <2>0, <2>keep, <3>2, <3>3, TypeAppended
               DEF RetiredStayRetired, ReceiptsResolve, Revoked
  <2>4. CASE RecoverStep
    <3>1. PICK command \in signed : Recover(command)
      BY <2>4 DEF RecoverStep
    <3>2. PICK r \in RecoveryReceipt : Record(r)
      BY <3>1, RecoverRecords
    <3>3. r \in Receipt /\ r.receiptType = "RECOVERY"
      BY KindsOfReceipt
    <3>4. \A j \in ReceiptsOfType("ACQUIRE")' :
            /\ j \in ReceiptsOfType("ACQUIRE") /\ receipts'[j] = receipts[j]
            /\ ~(Len(receipts) + 1 < j)
      BY <2>0, <3>2, <3>3, TypeAppended, ReceiptAppended DEF ReceiptsOfType
    <3> QED BY <2>0, <2>keep, <3>2, <3>3, <3>4, TypeAppended
               DEF RetiredStayRetired, ReceiptsResolve, Revoked
  <2>5. CASE QuietStep
    BY <2>5 DEF QuietStep, journal, RetiredStayRetired, ReceiptsOfType, Revoked
  <2> QED BY <2>1, <2>2, <2>3, <2>4, <2>5, JournalSteps
<1> QED BY <1>1, <1>2, QuarantineInvariant, PTL DEF Spec

-----------------------------------------------------------------------------
(***************************************************************************)
(* Review.                                                                 *)
(***************************************************************************)

\* A recorded edge stays recorded, and a new one is recorded.
LEMMA EdgesStay ==
  ASSUME receipts \in Seq(Receipt), NEW r \in Receipt, Record(r)
  PROVE  \A k, from, to : EdgeRecorded(k, from, to) => EdgeRecorded(k, from, to)'
BY TypeAppended DEF EdgeRecorded

LEMMA EdgeAppended ==
  ASSUME receipts \in Seq(Receipt), NEW r \in TransitionReceipt, Record(r)
  PROVE  EdgeRecorded(r.key, r.previousState, r.nextState)'
<1>1. r \in Receipt /\ r.receiptType = "TRANSITION"
  BY KindsOfReceipt
<1>2. /\ Len(receipts) + 1 \in ReceiptsOfType("TRANSITION")'
      /\ receipts'[Len(receipts) + 1] = r
  BY <1>1, TypeAppended, ReceiptAppended
<1> QED BY <1>2 DEF EdgeRecorded

\* The lifecycle reaches the states behind REVIEW_GO only through it.
LEMMA ReviewedEdges ==
  ASSUME NEW s, NEW t, <<s, t>> \in AllowedTransitions,
         t \in CandidateStates \ {"FIXED_CANDIDATE"}
  PROVE  \/ s = "FIXED_CANDIDATE" /\ t = "REVIEW_GO"
         \/ s \in CandidateStates \ {"FIXED_CANDIDATE"}
BY DEF AllowedTransitions, CandidateStates, ExceptionalStates

LEMMA TransitionCandidate ==
  ASSUME TypeOK, NEW k \in DOMAIN leases, NEW t, NEW d, Transition(k, t, d)
  PROVE  /\ leases'[k].candidateIdentity = d
         /\ leases[k].candidateIdentity # NoCandidate => d = leases[k].candidateIdentity
         /\ <<leases[k].state, t>> \in AllowedTransitions
<1>1. leases[k] \in Lease
  BY DEF TypeOK
<1>2. leases'[k] = [leases[k] EXCEPT !.state = t, !.candidateIdentity = d,
                                     !.released = (t = "CLOSED")]
  BY DEF Transition, TypeOK
<1>3. leases'[k].candidateIdentity = d
  BY <1>1, <1>2 DEF Lease
<1> QED BY <1>3 DEF Transition, CandidateAdmissible

LEMMA ReviewedNext ==
  ASSUME QuarantineInv, ReceiptsResolve, ReviewedCandidateIsIntegrated, [Next]_vars
  PROVE  ReviewedCandidateIsIntegrated'
<1> USE DEF QuarantineInv, FencingInv
<1>0. receipts \in Seq(Receipt)
  BY DEF TypeOK
<1> DEFINE Reviewed == CandidateStates \ {"FIXED_CANDIDATE"}
           ReviewOf(k) == EdgeRecorded(k, "FIXED_CANDIDATE", "REVIEW_GO")
<1>1. CASE AcquireStep
  <2>1. PICK c \in Requests : Acquire(c)
    BY <1>1 DEF AcquireStep
  <2>2. PICK r \in AcquireReceipt : Record(r)
    BY <2>1, AcquireRecords
  <2>3. r \in Receipt /\ r.receiptType = "ACQUIRE"
    BY KindsOfReceipt
  <2>4. /\ Key(c) \notin DOMAIN leases
        /\ DOMAIN leases' = DOMAIN leases \cup {Key(c)}
        /\ leases'[Key(c)].state = "ADMITTED"
        /\ \A j \in DOMAIN leases : leases'[j] = leases[j]
    BY <2>1, AcquireEffect
  <2>5. \A i \in ReceiptsOfType("TRANSITION")' :
          /\ i \in ReceiptsOfType("TRANSITION")
          /\ receipts'[i] = receipts[i]
          /\ receipts[i].key \in DOMAIN leases
    BY <1>0, <2>2, <2>3, TypeAppended DEF ReceiptsResolve
  <2>6. \A k \in DOMAIN leases' : leases'[k].state \in Reviewed => ReviewOf(k)'
    BY <1>0, <2>2, <2>3, <2>4, EdgesStay DEF ReviewedCandidateIsIntegrated, CandidateStates
  <2> QED BY <2>4, <2>5, <2>6 DEF ReviewedCandidateIsIntegrated
<1>2. CASE TransitionStep
  <2>1. PICK k \in DOMAIN leases, t \in NextStates, d \in CandidateIds : Transition(k, t, d)
    BY <1>2 DEF TransitionStep
  <2>2. PICK r \in TransitionReceipt :
          /\ Record(r)
          /\ r.key = k /\ r.previousState = leases[k].state /\ r.nextState = t
          /\ r.candidateIdentity = d
    BY <2>1, TransitionRecords
  <2>3. r \in Receipt /\ r.receiptType = "TRANSITION"
    BY KindsOfReceipt
  <2>4. /\ DOMAIN leases' = DOMAIN leases
        /\ leases'[k].state = t
        /\ \A j \in DOMAIN leases : j # k => leases'[j] = leases[j]
    BY <2>1, TransitionEffect
  <2>5. /\ leases'[k].candidateIdentity = d
        /\ leases[k].candidateIdentity # NoCandidate => d = leases[k].candidateIdentity
        /\ <<leases[k].state, t>> \in AllowedTransitions
    BY <2>1, TransitionCandidate
  <2>6. \A j \in DOMAIN leases : leases[j].state \in Reviewed => ReviewOf(j)'
    BY <1>0, <2>2, <2>3, EdgesStay DEF ReviewedCandidateIsIntegrated
  <2>7. t \in Reviewed => ReviewOf(k)'
    <3>1. \A from \in {leases[k].state} : EdgeRecorded(k, from, t)'
      <4>1. EdgeRecorded(r.key, r.previousState, r.nextState)'
        BY <1>0, <2>2, EdgeAppended
      <4> QED BY <2>2, <4>1 DEF EdgeRecorded
    <3>2. t \in Reviewed /\ leases[k].state \in Reviewed => ReviewOf(k)'
      BY <2>6
    <3>3. leases[k].state = "FIXED_CANDIDATE" /\ t = "REVIEW_GO" => ReviewOf(k)'
      BY <3>1
    <3> QED BY <2>5, <3>2, <3>3, ReviewedEdges
  <2>8. \A j \in DOMAIN leases' : leases'[j].state \in Reviewed => ReviewOf(j)'
    BY <2>4, <2>6, <2>7
  <2>9. ASSUME NEW i \in ReceiptsOfType("TRANSITION")',
               receipts'[i].candidateIdentity # NoCandidate
        PROVE  receipts'[i].candidateIdentity = leases'[receipts'[i].key].candidateIdentity
    <3>1. CASE i \in ReceiptsOfType("TRANSITION") /\ receipts'[i] = receipts[i]
      <4>1. /\ receipts[i].key \in DOMAIN leases
            /\ receipts[i].candidateIdentity = leases[receipts[i].key].candidateIdentity
        BY <2>9, <3>1 DEF ReceiptsResolve, ReviewedCandidateIsIntegrated
      <4> QED BY <2>4, <2>5, <2>9, <3>1, <4>1
    <3>2. CASE receipts'[i] = r
      BY <2>2, <2>5, <3>2
    <3> QED BY <1>0, <2>2, <2>3, <3>1, <3>2, TypeAppended
  <2> QED BY <2>8, <2>9 DEF ReviewedCandidateIsIntegrated
<1>3. CASE QuarantineStep
  <2>1. PICK k \in DOMAIN leases, before \in SUBSET Paths, breaches \in SUBSET Paths :
          Quarantine(k, before, breaches) /\ guard' = Idle
    BY <1>3 DEF QuarantineStep
  <2>2. PICK r \in ObservationReceipt : Record(r)
    BY <2>1, QuarantineRecords
  <2>3. r \in Receipt /\ r.receiptType = "WRITE_OBSERVATION"
    BY KindsOfReceipt
  <2>4. /\ DOMAIN leases' = DOMAIN leases
        /\ \A j \in DOMAIN leases : leases'[j].state = leases[j].state
    BY <2>1, QuarantineEffect
  <2>5. \A j \in DOMAIN leases : leases'[j].candidateIdentity = leases[j].candidateIdentity
    <3>1. leases' = Quarantined /\ \A j \in DOMAIN leases : leases[j] \in Lease
      BY <2>1 DEF Quarantine, TypeOK
    <3> QED BY <3>1 DEF Quarantined, Lease
  <2>6. \A j \in DOMAIN leases' : leases'[j].state \in Reviewed => ReviewOf(j)'
    BY <1>0, <2>2, <2>3, <2>4, EdgesStay DEF ReviewedCandidateIsIntegrated
  <2> QED BY <1>0, <2>2, <2>3, <2>4, <2>5, <2>6, TypeAppended DEF ReviewedCandidateIsIntegrated
<1>4. CASE RecoverStep
  <2>1. PICK command \in signed : Recover(command)
    BY <1>4 DEF RecoverStep
  <2>2. PICK r \in RecoveryReceipt : Record(r)
    BY <2>1, RecoverRecords
  <2>3. r \in Receipt /\ r.receiptType = "RECOVERY"
    BY KindsOfReceipt
  <2>4. /\ DOMAIN leases' = DOMAIN leases
        /\ \A j \in DOMAIN leases : \/ leases'[j].state = leases[j].state
                                    \/ leases'[j].state \in RevocationStates
    BY <2>1, RecoverEffect, RecoverDecides
  <2>5. \A j \in DOMAIN leases : leases'[j].candidateIdentity = leases[j].candidateIdentity
    BY <2>1, RecoverDecides
  <2>6. \A j \in DOMAIN leases' : leases'[j].state \in Reviewed => ReviewOf(j)'
    BY <1>0, <2>2, <2>3, <2>4, EdgesStay
       DEF ReviewedCandidateIsIntegrated, RevocationStates, CandidateStates
  <2> QED BY <1>0, <2>2, <2>3, <2>4, <2>5, <2>6, TypeAppended DEF ReviewedCandidateIsIntegrated
<1>5. CASE QuietStep
  BY <1>5 DEF QuietStep, journal, ReviewedCandidateIsIntegrated, EdgeRecorded, ReceiptsOfType
<1> QED BY <1>1, <1>2, <1>3, <1>4, <1>5, JournalSteps

(***************************************************************************)
(* What is integrated is what was reviewed: behind REVIEW_GO there is a    *)
(* review receipt, and every candidate the receipts name for a lease since *)
(* its fixation is the one it carries, through every transition,           *)
(* quarantine and recovery.                                                *)
(***************************************************************************)
THEOREM ReviewedIsIntegrated == Spec => []ReviewedCandidateIsIntegrated
<1>1. Init => ReceiptsResolve /\ ReviewedCandidateIsIntegrated
  BY DEF Init, ReceiptsResolve, ReviewedCandidateIsIntegrated, ReceiptsOfType
<1>2. QuarantineInv /\ ReceiptsResolve /\ ReviewedCandidateIsIntegrated /\ [Next]_vars
        => ReceiptsResolve' /\ ReviewedCandidateIsIntegrated'
  BY ResolveNext, ReviewedNext
<1> QED BY <1>1, <1>2, QuarantineInvariant, PTL DEF Spec

-----------------------------------------------------------------------------
(***************************************************************************)
(* The history that the validator replays.  It is a recursive function of  *)
(* the receipts: that it exists, and that it depends on no later receipt,  *)
(* is shown by a least counterexample.                                     *)
(***************************************************************************)

NoHistory == [k \in {} |-> <<"ADMITTED", FALSE>>]

\* replay is the history of the leases along the first n receipts of rs.
IsReplay(replay, rs, n) ==
  replay = [i \in 0..n |-> IF i = 0 THEN NoHistory ELSE ReplayReceipt(replay[i - 1], rs[i])]

ReplayOf(rs, n) == CHOOSE replay : IsReplay(replay, rs, n)

LEMMA HistoryIsReplay ==
  ASSUME NEW n
  PROVE  /\ HistoricalLeases(n) = ReplayOf(receipts, n)[n]
         /\ HistoricalLeases(n)' = ReplayOf(receipts', n)[n]
BY DEF HistoricalLeases, ReplayOf, IsReplay, NoHistory

LEMMA ReplayFacts ==
  ASSUME NEW f, NEW rs, NEW n \in Nat, IsReplay(f, rs, n)
  PROVE  /\ DOMAIN f = 0..n
         /\ f[0] = NoHistory
         /\ \A i \in 1..n : f[i] = ReplayReceipt(f[i - 1], rs[i])
BY DEF IsReplay

\* By the least number of receipts that had no replay.
LEMMA ReplayExists ==
  ASSUME NEW rs, NEW n \in Nat
  PROVE  IsReplay(ReplayOf(rs, n), rs, n)
<1> DEFINE without == {m \in Nat : ~\E f : IsReplay(f, rs, m)}
<1>1. ASSUME without # {} PROVE FALSE
  <2>1. PICK m \in without : \A j \in without : m <= j
    <3> HIDE DEF without
    <3>1. without \in SUBSET Nat
      BY DEF without
    <3> QED BY <1>1, <3>1, LeastElement
  <2>2. CASE m = 0
    <3> DEFINE f == [i \in 0..0 |-> NoHistory]
    <3>1. f = [i \in 0..0 |-> IF i = 0 THEN NoHistory ELSE ReplayReceipt(f[i - 1], rs[i])]
      OBVIOUS
    <3>2. IsReplay(f, rs, 0)
      BY <3>1 DEF IsReplay
    <3> HIDE DEF f
    <3> QED BY <2>1, <2>2, <3>2
  <2>3. CASE m > 0
    <3>1. m \in Nat /\ m - 1 \in Nat /\ m - 1 \notin without
      BY <2>1, <2>3
    <3>2. PICK g : IsReplay(g, rs, m - 1)
      BY <3>1
    <3>3. /\ DOMAIN g = 0..(m - 1)
          /\ g[0] = NoHistory
          /\ \A i \in 1..(m - 1) : g[i] = ReplayReceipt(g[i - 1], rs[i])
      BY <3>1, <3>2, ReplayFacts
    <3> DEFINE f == [i \in 0..m |-> IF i = m THEN ReplayReceipt(g[m - 1], rs[m]) ELSE g[i]]
               e(i) == IF i = 0 THEN NoHistory ELSE ReplayReceipt(f[i - 1], rs[i])
    <3>4. \A i \in 0..m : f[i] = IF i = m THEN ReplayReceipt(g[m - 1], rs[m]) ELSE g[i]
      OBVIOUS
    <3>5. f[0] = NoHistory
      BY <2>3, <3>1, <3>3
    <3>6. \A i \in 1..m : f[i] = ReplayReceipt(f[i - 1], rs[i])
      <4> SUFFICES ASSUME NEW i \in 1..m PROVE f[i] = ReplayReceipt(f[i - 1], rs[i])
        OBVIOUS
      <4>1. f[i - 1] = g[i - 1]
        BY <3>1, <3>4
      <4>2. f[i] = ReplayReceipt(g[i - 1], rs[i])
        BY <3>1, <3>3, <3>4
      <4> HIDE DEF f
      <4> QED BY <4>1, <4>2
    <3>7. f = [i \in 0..m |-> f[i]]
      OBVIOUS
    <3>8. \A i \in 0..m : f[i] = e(i)
      <4> HIDE DEF f
      <4> QED BY <3>1, <3>5, <3>6
    <3>9. f = [i \in 0..m |-> e(i)]
      <4> HIDE DEF f, e
      <4> QED BY <3>7, <3>8
    <3>10. IsReplay(f, rs, m)
      BY <3>9, Zenon DEF IsReplay
    <3> HIDE DEF f
    <3> QED BY <2>1, <3>10
  <2> QED BY <2>1, <2>2, <2>3
<1>2. \E f : IsReplay(f, rs, n)
  BY <1>1
<1> QED BY <1>2 DEF ReplayOf

\* Two replays agree as far as their receipts do.
LEMMA ReplaysAgree ==
  ASSUME NEW f, NEW g, NEW rs, NEW ss, NEW n \in Nat, NEW m \in Nat, NEW k \in Nat,
         IsReplay(f, rs, n), IsReplay(g, ss, m), k <= n, k <= m,
         \A i \in 1..k : rs[i] = ss[i]
  PROVE  f[k] = g[k]
<1> DEFINE apart == {i \in 0..k : f[i] # g[i]}
<1>1. ASSUME apart # {} PROVE FALSE
  <2>1. PICK i \in apart : \A j \in apart : i <= j
    <3>1. apart \in SUBSET Nat
      OBVIOUS
    <3> HIDE DEF apart
    <3> QED BY <1>1, <3>1, LeastElement
  <2>2. /\ f[0] = NoHistory /\ g[0] = NoHistory
        /\ \A j \in 1..n : f[j] = ReplayReceipt(f[j - 1], rs[j])
        /\ \A j \in 1..m : g[j] = ReplayReceipt(g[j - 1], ss[j])
    BY ReplayFacts
  <2>3. i \in 1..k /\ i - 1 \in 0..k /\ i - 1 \notin apart
    BY <2>1, <2>2
  <2>4. f[i - 1] = g[i - 1]
    BY <2>3
  <2>5. f[i] = ReplayReceipt(f[i - 1], rs[i]) /\ g[i] = ReplayReceipt(g[i - 1], ss[i])
    BY <2>2, <2>3
  <2>6. rs[i] = ss[i]
    BY <2>3
  <2> QED BY <2>1, <2>4, <2>5, <2>6
<1> QED BY <1>1

\* The history before receipt n + 1 depends on the first n receipts only, and
\* a new receipt extends it by one step.
LEMMA HistoryStays ==
  ASSUME receipts \in Seq(Receipt), NEW r \in Receipt, Record(r),
         NEW n \in 0..Len(receipts)
  PROVE  HistoricalLeases(n)' = HistoricalLeases(n)
<1>1. n \in Nat /\ \A i \in 1..n : receipts'[i] = receipts[i]
  BY ReceiptAppended
<1>2. HistoricalLeases(n) = ReplayOf(receipts, n)[n]
  BY HistoryIsReplay
<1>3. HistoricalLeases(n)' = ReplayOf(receipts', n)[n]
  BY HistoryIsReplay
<1>4. IsReplay(ReplayOf(receipts, n), receipts, n) /\ IsReplay(ReplayOf(receipts', n), receipts', n)
  BY <1>1, ReplayExists
<1>5. ReplayOf(receipts', n)[n] = ReplayOf(receipts, n)[n]
  BY <1>1, <1>4, ReplaysAgree
<1> QED BY <1>2, <1>3, <1>5

LEMMA HistoryGrows ==
  ASSUME receipts \in Seq(Receipt), NEW r \in Receipt, Record(r)
  PROVE  HistoricalLeases(journalVersion)' = ReplayReceipt(HistoricalLeases(journalVersion), r)
<1> DEFINE n == Len(receipts)
           old == ReplayOf(receipts, n)
           new == ReplayOf(receipts', n + 1)
<1>1. n \in Nat /\ n + 1 \in Nat /\ n + 1 - 1 = n /\ n \in 0..(n + 1) /\ n + 1 \in 1..(n + 1)
  BY ReceiptAppended
<1>2. journalVersion = n /\ journalVersion' = n + 1 /\ receipts'[n + 1] = r
  BY ReceiptAppended DEF journalVersion
<1>3. \A i \in 1..n : receipts'[i] = receipts[i]
  BY ReceiptAppended
<1>4. HistoricalLeases(journalVersion) = old[n]
  BY <1>2, HistoryIsReplay
<1>5. HistoricalLeases(journalVersion)' = new[n + 1]
  <2>1. \A m : HistoricalLeases(m)' = ReplayOf(receipts', m)[m]
    BY HistoryIsReplay
  <2> QED BY <1>2, <2>1 DEF HistoricalLeases
<1> HIDE DEF n
<1>6. IsReplay(old, receipts, n) /\ IsReplay(new, receipts', n + 1)
  BY <1>1, ReplayExists
<1> HIDE DEF old, new
<1>7. new[n] = old[n]
  BY <1>1, <1>3, <1>6, ReplaysAgree
<1>8. new[n + 1] = ReplayReceipt(new[n], receipts'[n + 1])
  BY <1>1, <1>6, ReplayFacts
<1> QED BY <1>2, <1>4, <1>5, <1>7, <1>8

-----------------------------------------------------------------------------
(***************************************************************************)
(* The chain of receipts: each operation does to the leases what its       *)
(* receipt does to the replay.                                             *)
(***************************************************************************)

\* What the replay of the durable receipts must come to.
DurableStates == [k \in DOMAIN leases |-> <<leases[k].state, leases[k].released>>]

LEMMA ChainAcquire ==
  ASSUME FencingInv, ReceiptChainReproducesLeases, NEW c \in Requests, Acquire(c)
  PROVE  ReceiptChainReproducesLeases'
<1>0. receipts \in Seq(Receipt)
  BY DEF FencingInv, TypeOK
<1>1. PICK r \in AcquireReceipt : Record(r) /\ r.key = Key(c)
  BY AcquireRecords
<1>2. r \in Receipt /\ r.receiptType = "ACQUIRE"
  BY KindsOfReceipt
<1>3. HistoricalLeases(journalVersion)' = ReplayReceipt(DurableStates, r)
  BY <1>0, <1>1, <1>2, HistoryGrows DEF ReceiptChainReproducesLeases, DurableStates
<1>4. ReplayReceipt(DurableStates, r) =
        [k \in DOMAIN leases \cup {Key(c)} |->
           IF k = Key(c) THEN <<"ADMITTED", FALSE>> ELSE DurableStates[k]]
  BY <1>1, <1>2 DEF ReplayReceipt, DurableStates
<1>5. /\ DOMAIN leases' = DOMAIN leases \cup {Key(c)}
      /\ leases'[Key(c)].state = "ADMITTED"
      /\ \A j \in DOMAIN leases : leases'[j] = leases[j]
  BY AcquireEffect
<1>6. leases'[Key(c)].released = FALSE
  BY DEF Acquire, NewLease
<1>7. Key(c) \notin DOMAIN leases
  BY AcquireEffect
<1>8. DurableStates' =
        [k \in DOMAIN leases \cup {Key(c)} |->
           IF k = Key(c) THEN <<"ADMITTED", FALSE>> ELSE DurableStates[k]]
  BY <1>5, <1>6, <1>7 DEF DurableStates
<1> QED BY <1>3, <1>4, <1>8 DEF ReceiptChainReproducesLeases, DurableStates

LEMMA ChainTransition ==
  ASSUME FencingInv, ReceiptChainReproducesLeases, NEW k \in DOMAIN leases, NEW t,
         NEW d \in CandidateIds, Transition(k, t, d)
  PROVE  ReceiptChainReproducesLeases'
<1>0. receipts \in Seq(Receipt)
  BY DEF FencingInv, TypeOK
<1>1. PICK r \in TransitionReceipt : Record(r) /\ r.key = k /\ r.nextState = t
  BY TransitionRecords
<1>2. r \in Receipt /\ r.receiptType = "TRANSITION"
  BY KindsOfReceipt
<1>3. HistoricalLeases(journalVersion)' = ReplayReceipt(DurableStates, r)
  BY <1>0, <1>1, <1>2, HistoryGrows DEF ReceiptChainReproducesLeases, DurableStates
<1>4. ReplayReceipt(DurableStates, r) = [DurableStates EXCEPT ![k] = <<t, t = "CLOSED">>]
  BY <1>1, <1>2 DEF ReplayReceipt
<1>5. /\ DOMAIN leases' = DOMAIN leases
      /\ leases'[k].state = t
      /\ leases'[k].released = (t = "CLOSED")
      /\ \A j \in DOMAIN leases : j # k => leases'[j] = leases[j]
  BY TransitionEffect DEF FencingInv
<1>6. DurableStates' = [DurableStates EXCEPT ![k] = <<t, t = "CLOSED">>]
  BY <1>5 DEF DurableStates
<1> QED BY <1>3, <1>4, <1>6 DEF ReceiptChainReproducesLeases, DurableStates

LEMMA ChainQuarantine ==
  ASSUME FencingInv, ReceiptChainReproducesLeases, NEW k \in DOMAIN leases,
         NEW before \in SUBSET Paths, NEW breaches \in SUBSET Paths,
         Quarantine(k, before, breaches)
  PROVE  ReceiptChainReproducesLeases'
<1>0. receipts \in Seq(Receipt)
  BY DEF FencingInv, TypeOK
<1>1. PICK r \in ObservationReceipt : Record(r)
  BY QuarantineRecords
<1>2. r \in Receipt /\ r.receiptType = "WRITE_OBSERVATION"
  BY KindsOfReceipt
<1>3. HistoricalLeases(journalVersion)' = ReplayReceipt(DurableStates, r)
  BY <1>0, <1>1, <1>2, HistoryGrows DEF ReceiptChainReproducesLeases, DurableStates
<1>4. ReplayReceipt(DurableStates, r) = DurableStates
  BY <1>2 DEF ReplayReceipt
<1>5. /\ DOMAIN leases' = DOMAIN leases
      /\ \A j \in DOMAIN leases : /\ leases'[j].released = leases[j].released
                                  /\ leases'[j].state = leases[j].state
  BY QuarantineEffect DEF FencingInv
<1>6. DurableStates' = DurableStates
  BY <1>5 DEF DurableStates
<1> QED BY <1>3, <1>4, <1>6 DEF ReceiptChainReproducesLeases, DurableStates

LEMMA ChainRecover ==
  ASSUME FencingInv, ReceiptChainReproducesLeases, NEW command \in signed, Recover(command)
  PROVE  ReceiptChainReproducesLeases'
<1>0. receipts \in Seq(Receipt)
  BY DEF FencingInv, TypeOK
<1>1. PICK r \in RecoveryReceipt : Record(r) /\ r.evidence = recoveryEvidence
  BY RecoverRecords
<1>2. r \in Receipt /\ r.receiptType = "RECOVERY"
  BY KindsOfReceipt
<1>3. HistoricalLeases(journalVersion)' = ReplayReceipt(DurableStates, r)
  BY <1>0, <1>1, <1>2, HistoryGrows DEF ReceiptChainReproducesLeases, DurableStates
<1>4. ReplayReceipt(DurableStates, r) =
        [k \in DOMAIN leases |->
           IF k \in Revoked(recoveryEvidence) THEN <<recoveryEvidence.decisions[k], TRUE>>
           ELSE DurableStates[k]]
  BY <1>1, <1>2 DEF ReplayReceipt, DurableStates
<1>5. /\ DOMAIN leases' = DOMAIN leases
      /\ \A j \in DOMAIN leases :
           /\ j \notin Revoked(recoveryEvidence) => leases'[j] = leases[j]
           /\ j \in Revoked(recoveryEvidence) =>
                /\ leases'[j].state = recoveryEvidence.decisions[j]
                /\ leases'[j].released = TRUE
  <2>1. \A j \in DOMAIN leases : leases[j] \in Lease
    BY DEF FencingInv, TypeOK
  <2>2. leases' = Recovered(command)
    BY DEF Recover
  <2>3. \A j \in Revoked(recoveryEvidence) \cap DOMAIN leases : leases'[j].released = TRUE
    BY <2>1, <2>2 DEF Recovered, Lease
  <2> QED BY <2>3, RecoverEffect, RecoverDecides DEF FencingInv
<1>6. DurableStates' =
        [k \in DOMAIN leases |->
           IF k \in Revoked(recoveryEvidence) THEN <<recoveryEvidence.decisions[k], TRUE>>
           ELSE DurableStates[k]]
  BY <1>5 DEF DurableStates
<1> QED BY <1>3, <1>4, <1>6 DEF ReceiptChainReproducesLeases, DurableStates

LEMMA ChainNext ==
  ASSUME QuarantineInv, ReceiptChainReproducesLeases, [Next]_vars
  PROVE  ReceiptChainReproducesLeases'
<1> USE DEF QuarantineInv
<1>1. CASE AcquireStep
  BY <1>1, ChainAcquire DEF AcquireStep
<1>2. CASE TransitionStep
  BY <1>2, ChainTransition DEF TransitionStep
<1>3. CASE QuarantineStep
  BY <1>3, ChainQuarantine DEF QuarantineStep
<1>4. CASE RecoverStep
  BY <1>4, ChainRecover DEF RecoverStep
<1>5. CASE QuietStep
  <2>1. leases' = leases /\ receipts' = receipts
    BY <1>5 DEF QuietStep, journal
  <2>2. \A n : HistoricalLeases(n)' = HistoricalLeases(n)
    BY <2>1, HistoryIsReplay
  <2> QED BY <2>1, <2>2 DEF ReceiptChainReproducesLeases, journalVersion
<1> QED BY <1>1, <1>2, <1>3, <1>4, <1>5, JournalSteps

(***************************************************************************)
(* Replaying the receipts reproduces the state and the release flag of     *)
(* every durable lease, after any number of admissions, transitions,       *)
(* quarantines and recoveries: what the operations write is what           *)
(* _validate_journal_integrity recomputes, so no operation can leave a     *)
(* journal behind that cannot be read any more.                            *)
(***************************************************************************)
THEOREM ReceiptChainIsTheTruth == Spec => []ReceiptChainReproducesLeases
<1>1. Init => ReceiptChainReproducesLeases
  <2> SUFFICES ASSUME Init PROVE ReceiptChainReproducesLeases
    OBVIOUS
  <2>1. journalVersion = 0 /\ 0 \in Nat
    BY DEF Init, journalVersion
  <2>2. HistoricalLeases(journalVersion) = ReplayOf(receipts, 0)[0]
    BY <2>1, HistoryIsReplay
  <2>3. ReplayOf(receipts, 0)[0] = NoHistory
    BY <2>1, ReplayExists, ReplayFacts
  <2>4. NoHistory = DurableStates
    BY DEF Init, NoHistory, DurableStates
  <2> QED BY <2>2, <2>3, <2>4 DEF ReceiptChainReproducesLeases, DurableStates
<1>2. QuarantineInv /\ ReceiptChainReproducesLeases /\ [Next]_vars
        => ReceiptChainReproducesLeases'
  BY ChainNext
<1> QED BY <1>1, <1>2, QuarantineInvariant, PTL DEF Spec

-----------------------------------------------------------------------------
(***************************************************************************)
(* Recovery cycles.  A new observation reads the evidence that is pending  *)
(* and not the receipts, so the invariant says that the one is the sum of  *)
(* the others: EvidenceOfCycle.                                            *)
(***************************************************************************)

\* The observations since the last recovery.
OpenCycle ==
  {i \in ReceiptsOfType("WRITE_OBSERVATION") : \A j \in ReceiptsOfType("RECOVERY") : j < i}

\* The pending evidence is that of the last receipt and the union of its cycle.
EvidenceOfCycle ==
  IF recoveryState = "CLEAR"
  THEN OpenCycle = {}
  ELSE /\ Len(receipts) \in ReceiptsOfType("WRITE_OBSERVATION")
       /\ receipts[Len(receipts)].evidence = recoveryEvidence
       /\ recoveryEvidence.observedWriteSet = UNION {receipts[i].observedPaths : i \in OpenCycle}

\* The two halves of CycleEvidenceComplete, for one receipt.
ObservationComplete(i) ==
  LET history == HistoricalLeases(i - 1) IN
  /\ receipts[i].evidence.observedWriteSet = CycleWriteSet(i)
  /\ Revoked(receipts[i].evidence) =
       {k \in DOMAIN history : ~history[k][2] /\ history[k][1] # "CLOSED"}
  /\ receipts[i].key \in Revoked(receipts[i].evidence)

RecoveryComplete(i) ==
  /\ i > 1
  /\ receipts[i - 1].receiptType = "WRITE_OBSERVATION"
  /\ receipts[i].evidence = receipts[i - 1].evidence
  /\ receipts[i].command.expectedJournalVersion = i - 1
  /\ receipts[i].command.observedWriteSet = CycleWriteSet(i)
  /\ receipts[i].command.decisions = receipts[i].evidence.decisions

LEMMA CompleteParts ==
  /\ CycleEvidenceComplete =>
       /\ \A i \in ReceiptsOfType("WRITE_OBSERVATION") : ObservationComplete(i)
       /\ \A i \in ReceiptsOfType("RECOVERY") : RecoveryComplete(i)
  /\ /\ \A i \in ReceiptsOfType("WRITE_OBSERVATION")' : ObservationComplete(i)'
     /\ \A i \in ReceiptsOfType("RECOVERY")' : RecoveryComplete(i)'
     => CycleEvidenceComplete'
BY DEF CycleEvidenceComplete, ObservationComplete, RecoveryComplete

\* The receipts of one type lie among the receipts, and no receipt has two types.
LEMMA TypesApart ==
  ASSUME receipts \in Seq(Receipt)
  PROVE  /\ Len(receipts) \in Nat
         /\ \A type : ReceiptsOfType(type) \subseteq 1..Len(receipts)
         /\ ReceiptsOfType("WRITE_OBSERVATION") \cap ReceiptsOfType("RECOVERY") = {}
BY DEF ReceiptsOfType

\* What a new receipt does to the cycles.
LEMMA CyclesStay ==
  ASSUME receipts \in Seq(Receipt), NEW r \in Receipt, Record(r),
         NEW n \in 1..Len(receipts)
  PROVE  CycleOf(n)' = CycleOf(n) /\ CycleWriteSet(n)' = CycleWriteSet(n)
<1>1. Len(receipts) \in Nat /\ n \in Nat /\ n <= Len(receipts)
  BY TypesApart
<1>2. \A type : \A i \in ReceiptsOfType(type)' : i \in Nat
  BY <1>1, TypeAppended, TypesApart
<1>3. \A type, i : i \in ReceiptsOfType(type)' /\ i <= n => i \in ReceiptsOfType(type)
  BY <1>1, <1>2, TypeAppended
<1>4. \A type : \A i \in ReceiptsOfType(type) :
        i \in Nat /\ i \in ReceiptsOfType(type)' /\ receipts'[i] = receipts[i]
  BY <1>1, TypeAppended, TypesApart
<1>5. CycleOf(n)' \subseteq CycleOf(n)
  BY <1>3, <1>4 DEF CycleOf
<1>6. CycleOf(n) \subseteq CycleOf(n)'
  <2> SUFFICES ASSUME NEW i \in CycleOf(n), NEW j \in ReceiptsOfType("RECOVERY")', i < j, j < n
               PROVE  FALSE
    BY <1>4 DEF CycleOf
  <2>1. j \in Nat /\ j <= n
    BY <1>1, <1>2
  <2>2. j \in ReceiptsOfType("RECOVERY")
    BY <1>3, <2>1
  <2> QED BY <2>2 DEF CycleOf
<1>7. CycleOf(n)' = CycleOf(n)
  BY <1>5, <1>6
<1>8. \A i \in CycleOf(n) : receipts'[i] = receipts[i]
  BY <1>4 DEF CycleOf
<1> QED BY <1>7, <1>8 DEF CycleWriteSet

\* A receipt of one type leaves the receipts of another type alone.
LEMMA OtherTypesStay ==
  ASSUME receipts \in Seq(Receipt), NEW r \in Receipt, Record(r),
         NEW type, r.receiptType # type
  PROVE  ReceiptsOfType(type)' = ReceiptsOfType(type)
<1>1. \A i \in ReceiptsOfType(type)' : i \in ReceiptsOfType(type)
  BY TypeAppended
<1>2. \A i \in ReceiptsOfType(type) : i \in ReceiptsOfType(type)'
  BY TypeAppended
<1> QED BY <1>1, <1>2

LEMMA CycleObserved ==
  ASSUME receipts \in Seq(Receipt), NEW r \in ObservationReceipt, Record(r),
         NEW n, n = Len(receipts) + 1
  PROVE  /\ OpenCycle' = OpenCycle \cup {n}
         /\ CycleOf(n)' = OpenCycle'
<1>1. r \in Receipt /\ r.receiptType = "WRITE_OBSERVATION"
  BY KindsOfReceipt
<1>2. n \in Nat /\ ReceiptsOfType("WRITE_OBSERVATION")' = ReceiptsOfType("WRITE_OBSERVATION") \cup {n}
  BY <1>1, TypeAppended, TypesApart
<1>3. ReceiptsOfType("RECOVERY")' = ReceiptsOfType("RECOVERY")
  BY <1>1, OtherTypesStay
<1>4. \A i \in ReceiptsOfType("WRITE_OBSERVATION") \cup ReceiptsOfType("RECOVERY") :
        i \in Nat /\ i < n
  BY TypesApart
<1>5. \A i \in ReceiptsOfType("WRITE_OBSERVATION")', j \in ReceiptsOfType("RECOVERY")' : i # j
  BY <1>2, <1>3, <1>4, TypesApart
<1> QED BY <1>2, <1>3, <1>4, <1>5 DEF OpenCycle, CycleOf

LEMMA CycleRecovered ==
  ASSUME receipts \in Seq(Receipt), NEW r \in RecoveryReceipt, Record(r),
         NEW n, n = Len(receipts) + 1
  PROVE  /\ OpenCycle' = {}
         /\ CycleOf(n)' = OpenCycle
<1>1. r \in Receipt /\ r.receiptType = "RECOVERY"
  BY KindsOfReceipt
<1>2. n \in Nat /\ ReceiptsOfType("RECOVERY")' = ReceiptsOfType("RECOVERY") \cup {n}
  BY <1>1, TypeAppended, TypesApart
<1>3. ReceiptsOfType("WRITE_OBSERVATION")' = ReceiptsOfType("WRITE_OBSERVATION")
  BY <1>1, OtherTypesStay
<1>4. \A i \in ReceiptsOfType("WRITE_OBSERVATION") \cup ReceiptsOfType("RECOVERY") :
        i \in Nat /\ i < n
  BY TypesApart
<1>5. \A i \in ReceiptsOfType("WRITE_OBSERVATION"), j \in ReceiptsOfType("RECOVERY") : i # j
  BY TypesApart
<1> QED BY <1>2, <1>3, <1>4, <1>5 DEF OpenCycle, CycleOf

\* The other operations add nothing to a cycle.
LEMMA CycleKept ==
  ASSUME receipts \in Seq(Receipt), NEW r \in AcquireReceipt \cup TransitionReceipt, Record(r)
  PROVE  /\ OpenCycle' = OpenCycle
         /\ ReceiptsOfType("WRITE_OBSERVATION")' = ReceiptsOfType("WRITE_OBSERVATION")
         /\ ReceiptsOfType("RECOVERY")' = ReceiptsOfType("RECOVERY")
<1>1. r \in Receipt /\ r.receiptType \in {"ACQUIRE", "TRANSITION"}
  BY KindsOfReceipt
<1>2. /\ ReceiptsOfType("WRITE_OBSERVATION")' = ReceiptsOfType("WRITE_OBSERVATION")
      /\ ReceiptsOfType("RECOVERY")' = ReceiptsOfType("RECOVERY")
  BY <1>1, OtherTypesStay
<1> QED BY <1>2 DEF OpenCycle

\* A new receipt leaves the old ones complete.
LEMMA CompleteStays ==
  ASSUME receipts \in Seq(Receipt), NEW r \in Receipt, Record(r), CycleEvidenceComplete
  PROVE  /\ \A i \in ReceiptsOfType("WRITE_OBSERVATION") : ObservationComplete(i)'
         /\ \A i \in ReceiptsOfType("RECOVERY") : RecoveryComplete(i)'
<1>1. ASSUME NEW i \in ReceiptsOfType("WRITE_OBSERVATION") PROVE ObservationComplete(i)'
  <2>1. ObservationComplete(i)
    BY CompleteParts
  <2>2. i \in 1..Len(receipts) /\ i - 1 \in 0..Len(receipts)
    BY TypesApart
  <2>3. receipts'[i] = receipts[i]
    BY <2>2, ReceiptAppended
  <2>4. CycleWriteSet(i)' = CycleWriteSet(i)
    BY <2>2, CyclesStay
  <2>5. HistoricalLeases(i - 1)' = HistoricalLeases(i - 1)
    BY <2>2, HistoryStays
  <2> QED BY <2>1, <2>3, <2>4, <2>5 DEF ObservationComplete, Revoked
<1>2. ASSUME NEW i \in ReceiptsOfType("RECOVERY") PROVE RecoveryComplete(i)'
  <2>1. RecoveryComplete(i)
    BY CompleteParts
  <2>2. i \in 1..Len(receipts) /\ i - 1 \in 1..Len(receipts)
    BY <2>1, TypesApart DEF RecoveryComplete
  <2>3. receipts'[i] = receipts[i] /\ receipts'[i - 1] = receipts[i - 1]
    BY <2>2, ReceiptAppended
  <2>4. CycleWriteSet(i)' = CycleWriteSet(i)
    BY <2>2, CyclesStay
  <2> QED BY <2>1, <2>3, <2>4 DEF RecoveryComplete
<1> QED BY <1>1, <1>2

\* The inductive invariant of the recovery cycles.
CycleInv ==
  /\ QuarantineInv
  /\ ReceiptChainReproducesLeases
  /\ EvidenceOfCycle
  /\ CycleEvidenceComplete

\* An admission or a transition: the project runs, and no cycle is open.
LEMMA CycleQuiet ==
  ASSUME CycleInv, NEW r \in AcquireReceipt \cup TransitionReceipt, Record(r),
         recoveryState = "CLEAR", recoveryState' = "CLEAR"
  PROVE  EvidenceOfCycle' /\ CycleEvidenceComplete'
<1>0. receipts \in Seq(Receipt)
  BY DEF CycleInv, QuarantineInv, FencingInv, TypeOK
<1>1. r \in Receipt
  BY KindsOfReceipt
<1>2. /\ OpenCycle' = OpenCycle
      /\ ReceiptsOfType("WRITE_OBSERVATION")' = ReceiptsOfType("WRITE_OBSERVATION")
      /\ ReceiptsOfType("RECOVERY")' = ReceiptsOfType("RECOVERY")
  BY <1>0, CycleKept
<1>3. EvidenceOfCycle'
  BY <1>2 DEF CycleInv, EvidenceOfCycle
<1>4. /\ \A i \in ReceiptsOfType("WRITE_OBSERVATION")' : ObservationComplete(i)'
      /\ \A i \in ReceiptsOfType("RECOVERY")' : RecoveryComplete(i)'
  BY <1>0, <1>1, <1>2, CompleteStays DEF CycleInv
<1>5. CycleEvidenceComplete'
  BY <1>4, CompleteParts
<1> QED BY <1>3, <1>5

LEMMA CycleQuarantine ==
  ASSUME CycleInv, NEW k \in DOMAIN leases,
         NEW before \in SUBSET Paths, NEW breaches \in SUBSET Paths,
         Quarantine(k, before, breaches)
  PROVE  EvidenceOfCycle' /\ CycleEvidenceComplete'
<1> USE DEF CycleInv, QuarantineInv, FencingInv
<1> DEFINE m == Len(receipts) + 1
<1>0. receipts \in Seq(Receipt)
  BY DEF TypeOK
<1>1. PICK r \in ObservationReceipt :
        /\ Record(r)
        /\ r.key = k /\ r.observedPaths = breaches /\ r.evidence = recoveryEvidence'
  BY QuarantineRecords
<1>2. r \in Receipt /\ r.receiptType = "WRITE_OBSERVATION"
  BY KindsOfReceipt
<1>3. /\ Len(receipts') = m /\ receipts'[m] = r
      /\ m - 1 = Len(receipts) /\ m - 1 \in 0..Len(receipts)
  BY <1>0, <1>1, <1>2, ReceiptAppended
<1>4. PICK n : n = m
  OBVIOUS
<1>5. OpenCycle' = OpenCycle \cup {n} /\ CycleOf(n)' = OpenCycle'
  BY <1>0, <1>1, <1>4, CycleObserved
<1>6. ReceiptsOfType("WRITE_OBSERVATION")' = ReceiptsOfType("WRITE_OBSERVATION") \cup {n}
  BY <1>0, <1>1, <1>2, <1>4, TypeAppended
<1>7. ReceiptsOfType("RECOVERY")' = ReceiptsOfType("RECOVERY")
  BY <1>0, <1>1, <1>2, OtherTypesStay
<1>8. recoveryEvidence'.observedWriteSet = UNION {receipts'[i].observedPaths : i \in OpenCycle'}
  <2>1. recoveryEvidence'.observedWriteSet = PriorEvidence.observedWriteSet \cup breaches
    BY DEF Quarantine
  <2>2. PriorEvidence.observedWriteSet = UNION {receipts[i].observedPaths : i \in OpenCycle}
    <3>1. CASE recoveryState = "CLEAR"
      BY <3>1 DEF EvidenceOfCycle, PriorEvidence, NoEvidence
    <3>2. CASE recoveryState # "CLEAR"
      BY <3>2 DEF EvidenceOfCycle, PriorEvidence
    <3> QED BY <3>1, <3>2
  <2>3. \A i \in OpenCycle : receipts'[i] = receipts[i]
    BY <1>0, <1>1, <1>2, TypeAppended DEF OpenCycle
  <2> QED BY <1>1, <1>3, <1>4, <1>5, <2>1, <2>2, <2>3
<1>9. EvidenceOfCycle'
  <2>1. recoveryState' # "CLEAR"
    BY QuarantineEffect
  <2> QED BY <1>1, <1>3, <1>4, <1>6, <1>8, <2>1 DEF EvidenceOfCycle
<1>10. ObservationComplete(n)'
  <2>1. receipts'[n].evidence.observedWriteSet = CycleWriteSet(n)'
    BY <1>1, <1>3, <1>4, <1>5, <1>8 DEF CycleWriteSet
  <2>2. HistoricalLeases(n - 1)' = DurableStates
    <3>1. HistoricalLeases(n - 1)' = HistoricalLeases(n - 1)
      BY <1>0, <1>1, <1>2, <1>3, <1>4, HistoryStays
    <3> QED BY <1>3, <1>4, <3>1
            DEF ReceiptChainReproducesLeases, DurableStates, journalVersion
  <2>3. Revoked(receipts'[n].evidence) = Recoverable
    <3>1. Revoked(recoveryEvidence') = Recoverable
      BY QuarantineEffect
    <3> QED BY <1>1, <1>3, <1>4, <3>1
  <2>4. Recoverable = {j \in DOMAIN DurableStates :
                         ~DurableStates[j][2] /\ DurableStates[j][1] # "CLOSED"}
    BY DEF Recoverable, DurableStates
  <2>5. receipts'[n].key = k /\ k \in Recoverable
    BY <1>1, <1>3, <1>4, QuarantineEffect DEF Recoverable, ClosedIsReleased
  <2> QED BY <2>1, <2>2, <2>3, <2>4, <2>5 DEF ObservationComplete, Revoked
<1>11. /\ \A i \in ReceiptsOfType("WRITE_OBSERVATION")' : ObservationComplete(i)'
       /\ \A i \in ReceiptsOfType("RECOVERY")' : RecoveryComplete(i)'
  BY <1>0, <1>1, <1>2, <1>6, <1>7, <1>10, CompleteStays
<1>12. CycleEvidenceComplete'
  BY <1>11, CompleteParts
<1> QED BY <1>9, <1>12

LEMMA CycleRecover ==
  ASSUME CycleInv, NEW command \in signed, Recover(command)
  PROVE  EvidenceOfCycle' /\ CycleEvidenceComplete'
<1> USE DEF CycleInv, QuarantineInv, FencingInv
<1> DEFINE m == Len(receipts) + 1
<1>0. receipts \in Seq(Receipt)
  BY DEF TypeOK
<1>1. PICK r \in RecoveryReceipt :
        Record(r) /\ r.command = command /\ r.evidence = recoveryEvidence
  BY RecoverRecords
<1>2. r \in Receipt /\ r.receiptType = "RECOVERY"
  BY KindsOfReceipt
<1>3. /\ Len(receipts) \in Nat /\ m - 1 = Len(receipts) /\ receipts'[m] = r
      /\ \A i \in 1..Len(receipts) : receipts'[i] = receipts[i]
  BY <1>0, <1>1, <1>2, ReceiptAppended
<1>4. PICK n : n = m
  OBVIOUS
<1>5. OpenCycle' = {} /\ CycleOf(n)' = OpenCycle
  BY <1>0, <1>1, <1>4, CycleRecovered
<1>6. ReceiptsOfType("RECOVERY")' = ReceiptsOfType("RECOVERY") \cup {n}
  BY <1>0, <1>1, <1>2, <1>4, TypeAppended
<1>7. ReceiptsOfType("WRITE_OBSERVATION")' = ReceiptsOfType("WRITE_OBSERVATION")
  BY <1>0, <1>1, <1>2, OtherTypesStay
<1>8. EvidenceOfCycle'
  BY <1>5, RecoverEffect DEF EvidenceOfCycle
<1>9. RecoveryComplete(n)'
  <2>1. /\ Len(receipts) \in ReceiptsOfType("WRITE_OBSERVATION")
        /\ receipts[Len(receipts)].evidence = recoveryEvidence
        /\ recoveryEvidence.observedWriteSet = UNION {receipts[i].observedPaths : i \in OpenCycle}
    BY RecoverEffect DEF EvidenceOfCycle
  <2>2. /\ Len(receipts) \in 1..Len(receipts)
        /\ receipts[Len(receipts)].receiptType = "WRITE_OBSERVATION"
    BY <1>0, <2>1, TypesApart DEF ReceiptsOfType
  <2>3. /\ command.expectedJournalVersion = Len(receipts)
        /\ command.observedWriteSet = recoveryEvidence.observedWriteSet
        /\ command.decisions = recoveryEvidence.decisions
    BY DEF Recover, BindsPendingEvidence, journalVersion
  <2>4. CycleWriteSet(n)' = UNION {receipts[i].observedPaths : i \in OpenCycle}
    <3>1. \A i \in OpenCycle : receipts'[i] = receipts[i]
      BY <1>0, <1>1, <1>2, TypeAppended DEF OpenCycle
    <3> QED BY <1>5, <3>1 DEF CycleWriteSet
  <2>5. n > 1 /\ n - 1 = Len(receipts) /\ receipts'[n - 1] = receipts[Len(receipts)]
    BY <1>3, <1>4, <2>2
  <2>6. receipts'[n] = r
    BY <1>3, <1>4
  <2> HIDE DEF m
  <2> QED BY <1>1, <2>1, <2>2, <2>3, <2>4, <2>5, <2>6 DEF RecoveryComplete
<1>10. /\ \A i \in ReceiptsOfType("WRITE_OBSERVATION")' : ObservationComplete(i)'
       /\ \A i \in ReceiptsOfType("RECOVERY")' : RecoveryComplete(i)'
  BY <1>0, <1>1, <1>2, <1>6, <1>7, <1>9, CompleteStays
<1>11. CycleEvidenceComplete'
  BY <1>10, CompleteParts
<1> QED BY <1>8, <1>11

LEMMA CycleNext ==
  ASSUME CycleInv, [Next]_vars
  PROVE  EvidenceOfCycle' /\ CycleEvidenceComplete'
<1> USE DEF CycleInv, QuarantineInv
<1>1. CASE AcquireStep
  <2>1. PICK c \in Requests : Acquire(c)
    BY <1>1 DEF AcquireStep
  <2>2. PICK r \in AcquireReceipt : Record(r)
    BY <2>1, AcquireRecords
  <2>3. recoveryState = "CLEAR" /\ recoveryState' = "CLEAR"
    BY <2>1, AcquireEffect
  <2> QED BY <2>2, <2>3, CycleQuiet
<1>2. CASE TransitionStep
  <2>1. PICK k \in DOMAIN leases, t \in NextStates, d \in CandidateIds : Transition(k, t, d)
    BY <1>2 DEF TransitionStep
  <2>2. PICK r \in TransitionReceipt : Record(r)
    BY <2>1, TransitionRecords
  <2>3. recoveryState = "CLEAR" /\ recoveryState' = "CLEAR"
    BY <2>1, TransitionEffect DEF FencingInv
  <2> QED BY <2>2, <2>3, CycleQuiet
<1>3. CASE QuarantineStep
  BY <1>3, CycleQuarantine DEF QuarantineStep
<1>4. CASE RecoverStep
  BY <1>4, CycleRecover DEF RecoverStep
<1>5. CASE QuietStep
  <2>1. receipts' = receipts /\ recoveryState' = recoveryState /\ recoveryEvidence' = recoveryEvidence
    BY <1>5 DEF QuietStep, journal
  <2>2. \A n : HistoricalLeases(n)' = HistoricalLeases(n)
    BY <2>1, HistoryIsReplay
  <2>3. \A type : ReceiptsOfType(type)' = ReceiptsOfType(type)
    BY <2>1 DEF ReceiptsOfType
  <2>4. OpenCycle' = OpenCycle /\ \A n : CycleWriteSet(n)' = CycleWriteSet(n)
    BY <2>1, <2>3 DEF OpenCycle, CycleWriteSet, CycleOf
  <2>5. EvidenceOfCycle'
    BY <2>1, <2>3, <2>4 DEF EvidenceOfCycle
  <2>6. CycleEvidenceComplete'
    BY <2>1, <2>2, <2>3, <2>4 DEF CycleEvidenceComplete, Revoked
  <2> QED BY <2>5, <2>6
<1> QED BY <1>1, <1>2, <1>3, <1>4, <1>5, JournalSteps

(***************************************************************************)
(* No evidence is lost within a recovery cycle: each observation carries   *)
(* everything its cycle has seen and revokes what was recoverable, and a   *)
(* recovery closes exactly the last evidence of its cycle under a command  *)
(* signed for it.  This is what _validate_recovery_integrity recomputes.   *)
(***************************************************************************)
THEOREM CycleEvidenceIsComplete == Spec => []CycleEvidenceComplete
<1>1. Init => EvidenceOfCycle /\ CycleEvidenceComplete
  <2> SUFFICES ASSUME Init PROVE EvidenceOfCycle /\ CycleEvidenceComplete
    OBVIOUS
  <2>1. recoveryState = "CLEAR" /\ \A type : ReceiptsOfType(type) = {}
    BY DEF Init, ReceiptsOfType
  <2> QED BY <2>1 DEF EvidenceOfCycle, CycleEvidenceComplete, OpenCycle
<1>2. CycleInv /\ [Next]_vars => EvidenceOfCycle' /\ CycleEvidenceComplete'
  BY CycleNext
<1>3. CycleInv <=> /\ QuarantineInv /\ ReceiptChainReproducesLeases
                   /\ EvidenceOfCycle /\ CycleEvidenceComplete
  BY DEF CycleInv
<1> QED BY <1>1, <1>2, <1>3, QuarantineInvariant, ReceiptChainIsTheTruth, PTL DEF Spec

-----------------------------------------------------------------------------
(***************************************************************************)
(* The state store: a journal that exists stays usable, and the store      *)
(* implements the log of JournalLog.                                       *)
(* The inductive invariant StorageInv is what each step of a process has   *)
(* made sure of.                                                           *)
(***************************************************************************)

Journals == Seq(Callers) \cup {NoJournal}

Roots == [lock : {"ABSENT", "COMPLETE"}, lockIdentity : FileStates, marker : FileStates,
          journal : Journals]

RootsOK ==
  /\ visible \in Roots
  /\ durable \in Roots
  /\ holder \in Callers \cup {NoHolder}
  /\ pc \in [Callers -> {"IDLE", "OPEN", "FLOCK"} \cup HoldingSteps]
  /\ initialized \in [Callers -> {"ABSENT", "COMPLETE"}]
  /\ snapshot \in [Callers -> Journals]
  /\ confirmed \in SUBSET Callers

\* Only the process that holds the flock is past it.
FlockInv == \A p \in Callers : pc[p] \in HoldingSteps => holder = p

\* A loss of power mixes the entries of both roots: what one entry presupposes is
\* there in both before the entry is in either.
OrderInv ==
  /\ visible.journal # NoJournal \/ durable.journal # NoJournal =>
       /\ visible.marker = "COMPLETE" /\ durable.marker = "COMPLETE"
       /\ visible.lockIdentity = "COMPLETE" /\ durable.lockIdentity = "COMPLETE"
  /\ visible.lockIdentity # "ABSENT" \/ durable.lockIdentity # "ABSENT" =>
       visible.lock = "COMPLETE" /\ durable.lock = "COMPLETE"

\* What a process has made sure of by the time it is where it is.
Bound == HoldingSteps \ {"BIND", "BIND_WRITE"}
Staged == {"STAGE", "CAS", "MARK", "MARK_WRITE", "MARK_SYNC", "REPLACE"}
Marking == {"MARK", "MARK_WRITE", "MARK_SYNC"}

ProgressInv ==
  \A p \in Callers :
    /\ pc[p] \notin {"IDLE", "OPEN"} => visible.lock = "COMPLETE"
    /\ pc[p] = "BIND_WRITE" => visible.lockIdentity = "PARTIAL"
    /\ pc[p] \in Bound => visible.lockIdentity = "COMPLETE"
    /\ pc[p] \in Staged => visible.journal = snapshot[p] /\ ~InChain(p, visible)
    /\ pc[p] \in Marking => snapshot[p] = NoJournal
    /\ pc[p] = "MARK_SYNC" => visible.marker = "COMPLETE"
    /\ pc[p] = "REPLACE" => visible.marker = "COMPLETE" /\ durable.marker = "COMPLETE"
                            /\ durable.lockIdentity = "COMPLETE"
    /\ pc[p] \in {"SYNC", "REREAD"} => visible.journal = Candidate(p)
    /\ pc[p] = "REREAD" => durable.journal = visible.journal

\* The synced journal is the beginning of the one that is seen, and has every
\* command whose caller was told of success.
ChainInv ==
  /\ durable.journal # NoJournal => visible.journal # NoJournal
  /\ Len(Chain(durable)) <= Len(Chain(visible))
  /\ \A i \in 1..Len(Chain(durable)) : Chain(durable)[i] = Chain(visible)[i]
  /\ \A c \in confirmed : InChain(c, durable)

StorageInv == RootsOK /\ FlockInv /\ OrderInv /\ ProgressInv /\ ChainInv

-----------------------------------------------------------------------------
(***************************************************************************)
(* Facts about the journal.                                                *)
(***************************************************************************)

LEMMA SameChain ==
  ASSUME NEW r, NEW s, r.journal = s.journal
  PROVE  Chain(r) = Chain(s) /\ \A c : InChain(c, r) <=> InChain(c, s)
  BY DEF Chain, InChain

LEMMA ChainsAreSequences ==
  ASSUME RootsOK
  PROVE  Chain(visible) \in Seq(Callers) /\ Chain(durable) \in Seq(Callers)
  BY DEF RootsOK, Roots, Journals, Chain

LEMMA CandidateHasCommand ==
  ASSUME RootsOK, NEW p \in Callers
  PROVE  /\ Candidate(p) \in Seq(Callers) /\ Candidate(p) # NoJournal
         /\ Candidate(p)[Len(Candidate(p))] = p
         /\ Len(Candidate(p)) \in DOMAIN Candidate(p)
<1> DEFINE read == IF snapshot[p] = NoJournal THEN <<>> ELSE snapshot[p]
<1>1. read \in Seq(Callers)
  BY DEF RootsOK, Journals
<1> QED
  BY <1>1, AppendProperties, StoreAssumption DEF Candidate

LEMMA ChainRests ==
  ASSUME ChainInv, visible'.journal = visible.journal, durable'.journal = durable.journal,
         confirmed' = confirmed
  PROVE  ChainInv'
  BY SameChain DEF ChainInv

LEMMA ChainSynced ==
  ASSUME RootsOK, ChainInv, durable' = visible, visible'.journal = visible.journal,
         confirmed' = confirmed
  PROVE  ChainInv'
<1>1. Chain(durable)' = Chain(visible) /\ Chain(visible)' = Chain(visible)
  BY SameChain
<1>2. Chain(visible) \in Seq(Callers) /\ Chain(durable) \in Seq(Callers)
  BY ChainsAreSequences
<1>3. \A c \in confirmed : InChain(c, visible)
  BY <1>2 DEF ChainInv, InChain
<1> QED
  BY <1>1, <1>2, <1>3 DEF ChainInv, InChain

LEMMA ChainGrows ==
  ASSUME RootsOK, ChainInv, NEW p \in Callers, visible'.journal = Append(Chain(visible), p),
         UNCHANGED <<durable, confirmed>>
  PROVE  ChainInv'
<1>1. Chain(visible) \in Seq(Callers) /\ Chain(durable) \in Seq(Callers)
  BY ChainsAreSequences
<1>2. visible'.journal \in Seq(Callers) /\ visible'.journal # NoJournal
  BY <1>1, StoreAssumption
<1>3. Chain(visible)' = Append(Chain(visible), p)
  BY <1>2 DEF Chain
<1> QED
  BY <1>1, <1>2, <1>3 DEF ChainInv

-----------------------------------------------------------------------------
(***************************************************************************)
(* Every step keeps the invariant, part by part.                           *)
(***************************************************************************)

\* Every step keeps the types.
LEMMA RootsOKKept ==
  ASSUME StorageInv, NEW p \in Callers, Step(p) \/ Abort(p)
  PROVE  RootsOK'
<1> USE StoreAssumption DEF StorageInv, RootsOK, Roots, Journals, FileStates, At, Go, Leave,
    locals, Continue, Refuse, SyncRoot, HoldingSteps
<1>1. CASE Refuse(p)
  BY <1>1 DEF Refuse
<1>2. CASE ReadMarker(p)
  BY <1>2 DEF ReadMarker
<1>3. CASE OpenLock(p) /\ ~Refuse(p)
  BY <1>3 DEF OpenLock
<1>4. CASE Flock(p) /\ ~Refuse(p)
  BY <1>4 DEF Flock
<1>5. CASE BindLock(p) /\ ~Refuse(p)
  BY <1>5 DEF BindLock
<1>6. CASE BindWrite(p)
  BY <1>6 DEF BindWrite
<1>7. CASE BindSync(p)
  BY <1>7 DEF BindSync
<1>8. CASE ReadJournal(p)
  BY <1>8 DEF ReadJournal
<1>9. CASE StageTemporary(p)
  BY <1>9 DEF StageTemporary
<1>10. CASE VerifyCas(p) /\ ~Refuse(p)
  BY <1>10 DEF VerifyCas
<1>11. CASE CreateMarker(p)
  BY <1>11 DEF CreateMarker
<1>12. CASE WriteMarker(p)
  BY <1>12 DEF WriteMarker
<1>13. CASE SyncMarker(p)
  BY <1>13 DEF SyncMarker
<1>14. CASE Replace(p)
  <2>1. Candidate(p) \in Seq(Callers)
    BY DEF Candidate
  <2> QED
    BY <1>14, <2>1 DEF Replace
<1>15. CASE SyncJournal(p)
  BY <1>15 DEF SyncJournal
<1>16. CASE Confirm(p) /\ ~Refuse(p)
  <2>1. confirmed' = confirmed \cup {p} /\ Leave(p) /\ UNCHANGED <<visible, durable>>
    BY <1>16 DEF Confirm
  <2> QED
    BY <2>1
<1> QED
  BY <1>1, <1>2, <1>3, <1>4, <1>5, <1>6, <1>7, <1>8, <1>9, <1>10, <1>11, <1>12, <1>13, <1>14,
     <1>15, <1>16 DEF Step, Abort, Replay, RefuseJournal

\* Every step keeps the flock with one process.
LEMMA FlockInvKept ==
  ASSUME StorageInv, NEW p \in Callers, Step(p) \/ Abort(p)
  PROVE  FlockInv'
<1> USE StoreAssumption DEF StorageInv, RootsOK, FlockInv, At, Go, Leave, locals, Continue,
    Refuse, SyncRoot, HoldingSteps
<1>1. CASE Refuse(p)
  BY <1>1 DEF Refuse
<1>2. CASE ReadMarker(p)
  BY <1>2 DEF ReadMarker
<1>3. CASE OpenLock(p) /\ ~Refuse(p)
  BY <1>3 DEF OpenLock
<1>4. CASE Flock(p) /\ ~Refuse(p)
  BY <1>4 DEF Flock
<1>5. CASE BindLock(p) /\ ~Refuse(p)
  BY <1>5 DEF BindLock
<1>6. CASE BindWrite(p)
  BY <1>6 DEF BindWrite
<1>7. CASE BindSync(p)
  BY <1>7 DEF BindSync
<1>8. CASE ReadJournal(p)
  BY <1>8 DEF ReadJournal
<1>9. CASE StageTemporary(p)
  BY <1>9 DEF StageTemporary
<1>10. CASE VerifyCas(p) /\ ~Refuse(p)
  BY <1>10 DEF VerifyCas
<1>11. CASE CreateMarker(p)
  BY <1>11 DEF CreateMarker
<1>12. CASE WriteMarker(p)
  BY <1>12 DEF WriteMarker
<1>13. CASE SyncMarker(p)
  BY <1>13 DEF SyncMarker
<1>14. CASE Replace(p)
  BY <1>14 DEF Replace
<1>15. CASE SyncJournal(p)
  BY <1>15 DEF SyncJournal
<1>16. CASE Confirm(p) /\ ~Refuse(p)
  BY <1>16 DEF Confirm
<1> QED
  BY <1>1, <1>2, <1>3, <1>4, <1>5, <1>6, <1>7, <1>8, <1>9, <1>10, <1>11, <1>12, <1>13, <1>14,
     <1>15, <1>16 DEF Step, Abort, Replay, RefuseJournal

\* Every step keeps the order in which entries reach the disk.
LEMMA OrderInvKept ==
  ASSUME StorageInv, NEW p \in Callers, Step(p) \/ Abort(p)
  PROVE  OrderInv'
<1> USE StoreAssumption DEF StorageInv, RootsOK, OrderInv, Roots, FileStates, At, Go, Leave,
    locals, Continue, Refuse, SyncRoot, HoldingSteps
<1>1. CASE Refuse(p)
  BY <1>1 DEF Refuse
<1>2. CASE ReadMarker(p)
  BY <1>2 DEF ReadMarker
<1>3. CASE OpenLock(p) /\ ~Refuse(p)
  BY <1>3 DEF OpenLock
<1>4. CASE Flock(p) /\ ~Refuse(p)
  BY <1>4 DEF Flock
<1>5. CASE BindLock(p) /\ ~Refuse(p)
  BY <1>5 DEF BindLock, ProgressInv
<1>6. CASE BindWrite(p)
  BY <1>6 DEF BindWrite, ProgressInv
<1>7. CASE BindSync(p)
  BY <1>7 DEF BindSync
<1>8. CASE ReadJournal(p)
  BY <1>8 DEF ReadJournal
<1>9. CASE StageTemporary(p)
  BY <1>9 DEF StageTemporary
<1>10. CASE VerifyCas(p) /\ ~Refuse(p)
  BY <1>10 DEF VerifyCas
<1>11. CASE CreateMarker(p)
  BY <1>11 DEF CreateMarker, ProgressInv, ChainInv, Staged, Marking
<1>12. CASE WriteMarker(p)
  BY <1>12 DEF WriteMarker, ProgressInv, Marking
<1>13. CASE SyncMarker(p)
  BY <1>13 DEF SyncMarker
<1>14. CASE Replace(p)
  BY <1>14 DEF Replace, ProgressInv, Bound
<1>15. CASE SyncJournal(p)
  BY <1>15 DEF SyncJournal
<1>16. CASE Confirm(p) /\ ~Refuse(p)
  BY <1>16 DEF Confirm
<1> QED
  BY <1>1, <1>2, <1>3, <1>4, <1>5, <1>6, <1>7, <1>8, <1>9, <1>10, <1>11, <1>12, <1>13, <1>14,
     <1>15, <1>16 DEF Step, Abort, Replay, RefuseJournal

\* Every step keeps what the processes rely on.
LEMMA ProgressInvKept ==
  ASSUME StorageInv, NEW p \in Callers, Step(p) \/ Abort(p)
  PROVE  ProgressInv'
<1> USE StoreAssumption DEF StorageInv, RootsOK, FlockInv, OrderInv, ProgressInv, Roots,
    FileStates, Bound, Staged, Marking, JournalReadable, Candidate, At, Go, Leave, locals,
    Continue, Refuse, SyncRoot, HoldingSteps
<1>1. CASE Refuse(p)
  BY <1>1, SameChain DEF Refuse
<1>2. CASE ReadMarker(p)
  BY <1>2, SameChain DEF ReadMarker
<1>3. CASE OpenLock(p) /\ ~Refuse(p)
  BY <1>3, SameChain DEF OpenLock
<1>4. CASE Flock(p) /\ ~Refuse(p)
  BY <1>4, SameChain DEF Flock
<1>5. CASE BindLock(p) /\ ~Refuse(p)
  BY <1>5, SameChain DEF BindLock
<1>6. CASE BindWrite(p)
  BY <1>6, SameChain DEF BindWrite
<1>7. CASE BindSync(p)
  BY <1>7, SameChain DEF BindSync
<1>8. CASE ReadJournal(p)
  BY <1>8, SameChain DEF ReadJournal
<1>9. CASE StageTemporary(p)
  BY <1>9, SameChain DEF StageTemporary
<1>10. CASE VerifyCas(p) /\ ~Refuse(p)
  BY <1>10, SameChain DEF VerifyCas
<1>11. CASE CreateMarker(p)
  BY <1>11, SameChain DEF CreateMarker
<1>12. CASE WriteMarker(p)
  BY <1>12, SameChain DEF WriteMarker
<1>13. CASE SyncMarker(p)
  BY <1>13, SameChain DEF SyncMarker
<1>14. CASE Replace(p)
  BY <1>14, SameChain DEF Replace
<1>15. CASE SyncJournal(p)
  BY <1>15, SameChain DEF SyncJournal
<1>16. CASE Confirm(p) /\ ~Refuse(p)
  BY <1>16, SameChain DEF Confirm
<1> QED
  BY <1>1, <1>2, <1>3, <1>4, <1>5, <1>6, <1>7, <1>8, <1>9, <1>10, <1>11, <1>12, <1>13, <1>14,
     <1>15, <1>16 DEF Step, Abort, Replay, RefuseJournal

\* Every step keeps the synced journal a beginning of the one that is seen.
LEMMA ChainInvKept ==
  ASSUME StorageInv, NEW p \in Callers, Step(p) \/ Abort(p)
  PROVE  ChainInv'
<1> USE StoreAssumption DEF StorageInv, RootsOK, Roots, At, Go, Leave, locals, Continue, Refuse,
    SyncRoot, HoldingSteps
<1>1. CASE Refuse(p)
  BY <1>1, ChainRests DEF Refuse
<1>2. CASE ReadMarker(p)
  BY <1>2, ChainRests DEF ReadMarker
<1>3. CASE OpenLock(p) /\ ~Refuse(p)
  BY <1>3, ChainRests DEF OpenLock
<1>4. CASE Flock(p) /\ ~Refuse(p)
  BY <1>4, ChainRests DEF Flock
<1>5. CASE BindLock(p) /\ ~Refuse(p)
  <2>1. CASE UNCHANGED <<visible, durable>>
    BY <1>5, <2>1, ChainRests DEF BindLock
  <2>2. CASE SyncRoot
    BY <1>5, <2>2, ChainSynced DEF BindLock
  <2> QED
    BY <1>5, <2>1, <2>2 DEF BindLock
<1>6. CASE BindWrite(p)
  BY <1>6, ChainRests DEF BindWrite
<1>7. CASE BindSync(p)
  BY <1>7, ChainSynced DEF BindSync
<1>8. CASE ReadJournal(p)
  BY <1>8, ChainRests DEF ReadJournal
<1>9. CASE StageTemporary(p)
  BY <1>9, ChainRests DEF StageTemporary
<1>10. CASE VerifyCas(p) /\ ~Refuse(p)
  BY <1>10, ChainRests DEF VerifyCas
<1>11. CASE CreateMarker(p)
  BY <1>11, ChainRests DEF CreateMarker
<1>12. CASE WriteMarker(p)
  BY <1>12, ChainRests DEF WriteMarker
<1>13. CASE SyncMarker(p)
  BY <1>13, ChainSynced DEF SyncMarker
<1>14. CASE Replace(p)
  <2>1. visible'.journal = Append(Chain(visible), p) /\ Chain(visible) \in Seq(Callers)
    BY <1>14 DEF Replace, ProgressInv, Staged, Candidate, Chain, Journals
  <2> QED
    BY <1>14, <2>1, ChainGrows DEF Replace
<1>15. CASE SyncJournal(p)
  BY <1>15, ChainSynced DEF SyncJournal
<1>16. CASE Confirm(p) /\ ~Refuse(p)
  <2>1. InChain(p, durable)
    BY <1>16, CandidateHasCommand DEF Confirm, ProgressInv, InChain, Chain
  <2> QED
    BY <1>16, <2>1, SameChain DEF Confirm, ChainInv
<1> QED
  BY <1>1, <1>2, <1>3, <1>4, <1>5, <1>6, <1>7, <1>8, <1>9, <1>10, <1>11, <1>12, <1>13, <1>14,
     <1>15, <1>16 DEF Step, Abort, Replay, RefuseJournal

\* A loss of power keeps the invariant, whatever mixture of entries is found.
LEMMA PowerLossKeeps ==
  ASSUME StorageInv, PowerLoss
  PROVE  StorageInv'
<1> USE DEF StorageInv
<1>1. PICK found \in [lock : {visible.lock, durable.lock},
                      lockIdentity : {visible.lockIdentity, durable.lockIdentity},
                      marker : {visible.marker, durable.marker},
                      journal : {visible.journal, durable.journal}] :
         visible' = found /\ durable' = found
  BY DEF PowerLoss
<1>2. found \in Roots
  BY DEF RootsOK, Roots
<1>3. /\ found.lock \in {visible.lock, durable.lock}
      /\ found.lockIdentity \in {visible.lockIdentity, durable.lockIdentity}
      /\ found.marker \in {visible.marker, durable.marker}
      /\ found.journal \in {visible.journal, durable.journal}
  OBVIOUS
<1>4. RootsOK' /\ FlockInv' /\ ProgressInv'
  BY <1>1, <1>2
     DEF PowerLoss, RootsOK, Journals, FlockInv, ProgressInv, HoldingSteps, Bound, Staged, Marking
<1>5. OrderInv'
  BY <1>1, <1>3 DEF OrderInv
<1>6. ChainInv'
  <2>1. Chain(visible) \in Seq(Callers) /\ Chain(durable) \in Seq(Callers)
    BY ChainsAreSequences
  <2>2. \A c \in confirmed : InChain(c, visible)
    BY <2>1 DEF ChainInv, InChain
  <2>3. \A c \in confirmed : InChain(c, found)
    BY <1>3, <2>2, SameChain DEF ChainInv
  <2>4. Chain(found) \in Seq(Callers)
    BY <1>2 DEF Chain, Roots, Journals
  <2> QED
    BY <1>1, <2>3, <2>4 DEF ChainInv, PowerLoss
<1> QED
  BY <1>4, <1>5, <1>6

-----------------------------------------------------------------------------
(***************************************************************************)
(* The theorems.                                                           *)
(***************************************************************************)

\* Every behaviour of the store keeps the inductive invariant.
LEMMA JournalIsInvariant == StoreSpec => []StorageInv
<1>1. StoreInit => StorageInv
  BY StoreAssumption
     DEF StoreInit, EmptyRoot, StorageInv, RootsOK, Roots, Journals, FileStates, FlockInv, OrderInv,
         ProgressInv, ChainInv, Chain, InChain, HoldingSteps, Bound, Staged, Marking
<1>2. StorageInv /\ [StoreNext]_storeVars => StorageInv'
  <2>1. ASSUME StorageInv, NEW p \in Callers, Step(p) \/ Abort(p)
        PROVE  StorageInv'
    BY <2>1, RootsOKKept, FlockInvKept, OrderInvKept, ProgressInvKept, ChainInvKept DEF StorageInv
  <2>2. ASSUME StorageInv, UNCHANGED storeVars
        PROVE  StorageInv'
    BY <2>2, SameChain
       DEF storeVars, StorageInv, RootsOK, FlockInv, OrderInv, ProgressInv, ChainInv, Candidate
  <2> QED
    BY <2>1, <2>2, PowerLossKeeps DEF StoreNext
<1> QED
  BY <1>1, <1>2, PTL DEF StoreSpec

\* In every behaviour of the state store, a journal that exists has its marker, the
\* lock identity and the lock, in what is seen and in what is synced.
THEOREM StoreStaysUsable == StoreSpec => []StoreInv
<1>1. StorageInv => StoreInv
  BY DEF StorageInv, RootsOK, Roots, Journals, OrderInv, StoreInv, StoreTypeOK, JournalStaysUsable
<1> QED
  BY <1>1, JournalIsInvariant, PTL

\* A step that changes neither the seen journal nor the confirmed commands is
\* no step of the log.
LEMMA LogRests ==
  ASSUME visible'.journal = visible.journal, confirmed' = confirmed
  PROVE  UNCHANGED Log!logVars
  BY SameChain DEF Log!logVars

LEMMA LogForgets ==
  ASSUME StorageInv, PowerLoss
  PROVE  Log!Forget \/ UNCHANGED Log!logVars
<1> USE DEF StorageInv
<1>1. visible'.journal \in {visible.journal, durable.journal} /\ confirmed' = confirmed
  BY DEF PowerLoss
<1>2. CASE visible'.journal = durable.journal
  <2> DEFINE n == Len(Chain(durable))
  <2>1. Chain(visible) \in Seq(Callers) /\ Chain(durable) \in Seq(Callers)
    BY ChainsAreSequences
  <2>2. n \in 0..Len(Chain(visible))
    BY <2>1 DEF ChainInv
  <2>3. Chain(visible)' = Chain(durable)
    BY <1>2, SameChain
  <2>4. SubSeq(Chain(visible), 1, n) = Chain(durable)
    <3>1. \A i \in 1..n : Chain(visible)[i] \in Callers
      BY <2>1, <2>2
    <3>2. /\ SubSeq(Chain(visible), 1, n) \in Seq(Callers)
          /\ Len(SubSeq(Chain(visible), 1, n)) = n
          /\ \A i \in 1..n : SubSeq(Chain(visible), 1, n)[i] = Chain(visible)[i]
      BY <2>1, <2>2, <3>1, SubSeqProperties
    <3> QED
      BY <2>1, <3>2, SeqEqual DEF ChainInv
  <2>5. confirmed \subseteq {Chain(visible)[i] : i \in 1..n}
    BY <2>1 DEF ChainInv, InChain
  <2> QED
    BY <1>1, <2>2, <2>3, <2>4, <2>5 DEF Log!Forget
<1>3. CASE visible'.journal = visible.journal
  BY <1>1, <1>3, LogRests
<1> QED
  BY <1>1, <1>2, <1>3

LEMMA LogSteps ==
  ASSUME StorageInv, NEW p \in Callers, Step(p) \/ Abort(p)
  PROVE  Log!Commit(p) \/ Log!Acknowledge(p) \/ UNCHANGED Log!logVars
<1> USE DEF StorageInv
<1>1. CASE Replace(p)
  <2>1. Chain(visible)' = Append(Chain(visible), p)
    <3>1. Candidate(p) = Append(Chain(visible), p)
      BY <1>1 DEF Replace, At, ProgressInv, Staged, Candidate, Chain
    <3>2. visible'.journal = Candidate(p)
      BY <1>1 DEF Replace, RootsOK, Roots
    <3> QED
      BY <3>1, <3>2, CandidateHasCommand DEF Chain
  <2>2. p \notin Log!Committed
    BY <1>1 DEF Replace, At, ProgressInv, Staged, InChain, Log!Committed
  <2> QED
    BY <1>1, <2>1, <2>2 DEF Replace, Continue, Log!Commit
<1>2. CASE Confirm(p) /\ ~Refuse(p)
  <2>1. p \in Log!Committed
    BY <1>2, CandidateHasCommand DEF Confirm, At, ProgressInv, Log!Committed, Chain
  <2> QED
    BY <1>2, <2>1 DEF Confirm, Log!Acknowledge
<1>3. CASE Refuse(p)
  BY <1>3, LogRests DEF Refuse
<1>4. CASE ~Replace(p) /\ ~Confirm(p) /\ ~Refuse(p)
  <2>1. visible'.journal = visible.journal /\ confirmed' = confirmed
    BY <1>4
       DEF Step, Abort, ReadMarker, OpenLock, Flock, BindLock, BindWrite, BindSync, ReadJournal, Replay,
           RefuseJournal, StageTemporary, VerifyCas, CreateMarker, WriteMarker, SyncMarker,
           SyncJournal, Continue, RootsOK, Roots
  <2> QED
    BY <2>1, LogRests
<1> QED
  BY <1>1, <1>2, <1>3, <1>4

\* The store implements the log of JournalLog: a command is committed at most once
\* and by one step, and what replace_journal confirmed survives every abort
\* and every loss of power.
THEOREM StoreImplementsLog == StoreSpec => ImplementsLog
<1>1. StoreInit => Log!LogInit
  BY DEF StoreInit, EmptyRoot, Log!LogInit, Chain
<1>2. StorageInv /\ [StoreNext]_storeVars => [Log!LogNext]_(Log!logVars)
  <2>1. ASSUME StorageInv, UNCHANGED storeVars
        PROVE  UNCHANGED Log!logVars
    BY <2>1, LogRests DEF storeVars
  <2> QED
    BY <2>1, LogForgets, LogSteps DEF StoreNext, Log!LogNext
<1> QED
  BY <1>1, <1>2, JournalIsInvariant, PTL DEF StoreSpec, ImplementsLog, Log!LogSpec
=============================================================================
