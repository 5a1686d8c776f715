-------------------------- MODULE CoordinatorStore --------------------------
(***************************************************************************)
(* The coordinator's state store, coordinator_state.py, file by file and   *)
(* step by step: the non-blocking project lock with its persistent         *)
(* identity, the initialization marker, and the replacement of the journal *)
(* by a rename.  Module Coordinator takes each operation as one step; this *)
(* module is why it may.                                                   *)
(*                                                                         *)
(* A caller is a process with one command (an acquire, say) that it        *)
(* submits, and may submit again after an error.  The journal is the       *)
(* sequence of the commands its receipts bind.  A caller can be killed     *)
(* between any two steps, a system call of its own can fail, and the host  *)
(* can lose power: then every process is gone, and each directory entry    *)
(* that was not yet synced is found as it was or as it had last been       *)
(* synced, in any combination.                                             *)
(***************************************************************************)
EXTENDS Naturals, Sequences, FiniteSets

CONSTANTS
  Callers,     \* the processes; each owns one command
  NoJournal,   \* the journal file is absent
  NoHolder     \* nobody holds the flock

ASSUME StoreAssumption ==
  /\ NoHolder \notin Callers
  /\ NoJournal \notin Seq(Callers)

VARIABLES
  visible,      \* the state root as running processes see it
  durable,      \* the state root as last synced
  holder,       \* the process that holds the flock
  pc,           \* where each process is
  initialized,  \* local: the marker as read before the lock was tried
  snapshot,     \* local: the journal as read under the lock
  confirmed     \* the commands acknowledged by the call that wrote them

storeVars ==
  <<visible, durable, holder, pc, initialized, snapshot, confirmed>>

-----------------------------------------------------------------------------
(***************************************************************************)
(* Files.  A file written in place exists with partial content between its *)
(* creation and the end of its write; the journal is only ever renamed     *)
(* into place from a complete, synced temporary file.                      *)
(***************************************************************************)

FileStates == {"ABSENT", "PARTIAL", "COMPLETE"}

EmptyRoot ==
  [lock |-> "ABSENT", lockIdentity |-> "ABSENT", marker |-> "ABSENT",
   journal |-> NoJournal]

Chain(root) == IF root.journal = NoJournal THEN <<>> ELSE root.journal

InChain(command, root) == \E i \in DOMAIN Chain(root) : Chain(root)[i] = command

\* os.fsync of the root directory.
SyncRoot == durable' = visible

HoldingSteps ==
  {"BIND", "BIND_WRITE", "BIND_SYNC", "READ", "STAGE", "CAS", "MARK",
   "MARK_WRITE", "MARK_SYNC", "REPLACE", "SYNC", "REREAD"}

(***************************************************************************)
(* The type invariant.                                                     *)
(***************************************************************************)
StoreTypeOK ==
  /\ \A root \in {visible, durable} :
       /\ root.lock \in {"ABSENT", "COMPLETE"}
       /\ root.lockIdentity \in FileStates
       /\ root.marker \in FileStates
       /\ root.journal \in Seq(Callers) \cup {NoJournal}
  /\ holder \in Callers \cup {NoHolder}
  /\ pc \in [Callers -> {"IDLE", "OPEN", "FLOCK"} \cup HoldingSteps]
  /\ initialized \in [Callers -> {"ABSENT", "COMPLETE"}]
  /\ snapshot \in [Callers -> Seq(Callers) \cup {NoJournal}]
  /\ confirmed \subseteq Callers

-----------------------------------------------------------------------------
(***************************************************************************)
(* Control.                                                                *)
(***************************************************************************)

At(p, step) == pc[p] = step

Go(p, step) == pc' = [pc EXCEPT ![p] = step]

\* The call returns or raises: the lock, if held, is released by its context
\* manager, and the local state is gone.
Leave(p) ==
  /\ Go(p, "IDLE")
  /\ holder' = IF holder = p THEN NoHolder ELSE holder
  /\ initialized' = [initialized EXCEPT ![p] = "ABSENT"]
  /\ snapshot' = [snapshot EXCEPT ![p] = NoJournal]

locals == <<initialized, snapshot>>

Refuse(p) == Leave(p) /\ UNCHANGED <<visible, durable, confirmed>>

Continue(p, step) == Go(p, step) /\ UNCHANGED <<durable, holder, locals, confirmed>>

-----------------------------------------------------------------------------
(***************************************************************************)
(* exclusive_project_lock.                                                 *)
(***************************************************************************)

\* Mutant: a marker that cannot be parsed passes for one.
ReadMarkerUnparsed(p) ==
  /\ At(p, "IDLE")
  /\ initialized' = [initialized EXCEPT ![p] = visible.marker]
  /\ Go(p, "OPEN")
  /\ UNCHANGED <<visible, durable, holder, snapshot, confirmed>>

\* The marker, and for an initialized project the lock identity, are read
\* before the lock: an unreadable file or a missing identity is refused.
ReadMarker(p) ==
  /\ At(p, "IDLE")
  /\ visible.marker # "PARTIAL"
  /\ visible.marker = "COMPLETE" => visible.lockIdentity = "COMPLETE"
  /\ initialized' = [initialized EXCEPT ![p] = visible.marker]
  /\ Go(p, "OPEN")
  /\ UNCHANGED <<visible, durable, holder, snapshot, confirmed>>

\* Only an uninitialized project may create the lock file.
OpenLock(p) ==
  /\ At(p, "OPEN")
  /\ IF initialized[p] = "COMPLETE" /\ visible.lock = "ABSENT"
     THEN Refuse(p)
     ELSE /\ visible' = [visible EXCEPT !.lock = "COMPLETE"]
          /\ Continue(p, "FLOCK")

\* LOCK_NB: a busy lock is an error, never a wait.
Flock(p) ==
  /\ At(p, "FLOCK")
  /\ IF holder # NoHolder
     THEN Refuse(p)
     ELSE /\ holder' = p
          /\ Go(p, "BIND")
          /\ UNCHANGED <<visible, durable, locals, confirmed>>

\* _bind_or_validate_lock_identity: the first holder binds the identity, once
\* the lock file itself has been synced; everyone else validates it.
BindLock(p) ==
  /\ At(p, "BIND")
  /\ \/ /\ visible.lockIdentity = "PARTIAL"
        /\ Refuse(p)
     \/ /\ visible.lockIdentity = "COMPLETE"
        /\ UNCHANGED visible
        /\ Continue(p, "READ")
     \/ /\ visible.lockIdentity = "ABSENT"
        /\ SyncRoot
        /\ visible' = [visible EXCEPT !.lockIdentity = "PARTIAL"]
        /\ Go(p, "BIND_WRITE")
        /\ UNCHANGED <<holder, locals, confirmed>>

BindWrite(p) ==
  /\ At(p, "BIND_WRITE")
  /\ visible' = [visible EXCEPT !.lockIdentity = "COMPLETE"]
  /\ Continue(p, "BIND_SYNC")

BindSync(p) ==
  /\ At(p, "BIND_SYNC")
  /\ SyncRoot
  /\ Go(p, "READ")
  /\ UNCHANGED <<visible, holder, locals, confirmed>>

-----------------------------------------------------------------------------
(***************************************************************************)
(* read_journal, and what an operation does with the result: a command the *)
(* journal already binds is answered from it, any other is to be written.  *)
(***************************************************************************)

\* A journal without its marker, or a marker without its journal, is an error.
JournalReadable == (visible.marker = "COMPLETE") = (visible.journal # NoJournal)

ReadJournal(p) ==
  /\ At(p, "READ")
  /\ visible.marker # "PARTIAL"
  /\ JournalReadable
  /\ ~InChain(p, visible)
  /\ snapshot' = [snapshot EXCEPT ![p] = visible.journal]
  /\ Go(p, "STAGE")
  /\ UNCHANGED <<visible, durable, holder, initialized, confirmed>>

Replay(p) ==
  /\ At(p, "READ")
  /\ visible.marker # "PARTIAL"
  /\ JournalReadable
  /\ InChain(p, visible)
  /\ Refuse(p)

\* Mutant: the error path forgets to release the lock.
RefuseJournalLocked(p) ==
  /\ At(p, "READ")
  /\ visible.marker = "PARTIAL" \/ ~JournalReadable
  /\ Go(p, "IDLE")
  /\ UNCHANGED <<visible, durable, holder, locals, confirmed>>

RefuseJournal(p) ==
  /\ At(p, "READ")
  /\ visible.marker = "PARTIAL" \/ ~JournalReadable
  /\ Refuse(p)

-----------------------------------------------------------------------------
(***************************************************************************)
(* replace_journal.                                                        *)
(***************************************************************************)

\* The temporary file has a random name, is written and synced.
StageTemporary(p) ==
  /\ At(p, "STAGE")
  /\ UNCHANGED visible
  /\ Continue(p, "CAS")

\* _verify_cas_snapshot: the journal is still the one that was read.
VerifyCas(p) ==
  /\ At(p, "CAS")
  /\ IF visible.journal # snapshot[p]
     THEN Refuse(p)
     ELSE /\ UNCHANGED visible
          /\ Continue(p, IF snapshot[p] = NoJournal THEN "MARK" ELSE "REPLACE")

\* _write_initialized_marker, on the first journal only.
CreateMarker(p) ==
  /\ At(p, "MARK")
  /\ visible' = [visible EXCEPT !.marker = "PARTIAL"]
  /\ Continue(p, "MARK_WRITE")

WriteMarker(p) ==
  /\ At(p, "MARK_WRITE")
  /\ visible' = [visible EXCEPT !.marker = "COMPLETE"]
  /\ Continue(p, "MARK_SYNC")

\* Mutant: the directory is not synced after the marker.
SyncMarkerSkipped(p) ==
  /\ At(p, "MARK_SYNC")
  /\ UNCHANGED visible
  /\ Continue(p, "REPLACE")

SyncMarker(p) ==
  /\ At(p, "MARK_SYNC")
  /\ SyncRoot
  /\ Go(p, "REPLACE")
  /\ UNCHANGED <<visible, holder, locals, confirmed>>

\* The candidate is the journal that was read, with one receipt appended.
Candidate(p) == Append(IF snapshot[p] = NoJournal THEN <<>> ELSE snapshot[p], p)

Replace(p) ==
  /\ At(p, "REPLACE")
  /\ visible' = [visible EXCEPT !.journal = Candidate(p)]
  /\ Continue(p, "SYNC")

\* Mutant: the directory is not synced after the rename.
SyncJournalSkipped(p) ==
  /\ At(p, "SYNC")
  /\ UNCHANGED visible
  /\ Continue(p, "REREAD")

SyncJournal(p) ==
  /\ At(p, "SYNC")
  /\ SyncRoot
  /\ Go(p, "REREAD")
  /\ UNCHANGED <<visible, holder, locals, confirmed>>

\* The journal is read back and compared before the caller is told.
Confirm(p) ==
  /\ At(p, "REREAD")
  /\ IF visible.journal # Candidate(p)
     THEN Refuse(p)
     ELSE /\ confirmed' = confirmed \cup {p}
          /\ Leave(p)
          /\ UNCHANGED <<visible, durable>>

-----------------------------------------------------------------------------
(***************************************************************************)
(* Faults.                                                                 *)
(***************************************************************************)

\* A system call of p fails and the operation raises, or p is killed: either
\* way the descriptor is closed, and with it the lock is released.
Abort(p) == pc[p] # "IDLE" /\ Refuse(p)

\* External: the host loses power.
PowerLoss ==
  /\ \E found \in [lock : {visible.lock, durable.lock},
                   lockIdentity : {visible.lockIdentity, durable.lockIdentity},
                   marker : {visible.marker, durable.marker},
                   journal : {visible.journal, durable.journal}] :
       visible' = found /\ durable' = found
  /\ holder' = NoHolder
  /\ pc' = [p \in Callers |-> "IDLE"]
  /\ initialized' = [p \in Callers |-> "ABSENT"]
  /\ snapshot' = [p \in Callers |-> NoJournal]
  /\ UNCHANGED confirmed

-----------------------------------------------------------------------------
StoreInit ==
  /\ visible = EmptyRoot
  /\ durable = EmptyRoot
  /\ holder = NoHolder
  /\ pc = [p \in Callers |-> "IDLE"]
  /\ initialized = [p \in Callers |-> "ABSENT"]
  /\ snapshot = [p \in Callers |-> NoJournal]
  /\ confirmed = {}

Step(p) ==
  \/ ReadMarker(p) \/ OpenLock(p) \/ Flock(p)
  \/ BindLock(p) \/ BindWrite(p) \/ BindSync(p)
  \/ ReadJournal(p) \/ Replay(p) \/ RefuseJournal(p)
  \/ StageTemporary(p) \/ VerifyCas(p)
  \/ CreateMarker(p) \/ WriteMarker(p) \/ SyncMarker(p)
  \/ Replace(p) \/ SyncJournal(p) \/ Confirm(p)

StoreNext == PowerLoss \/ \E p \in Callers : Step(p) \/ Abort(p)

\* A process inside a call keeps running until the call ends or it dies; the
\* operating system schedules it.  Nothing obliges anybody to start a call.
StoreSpec ==
  /\ StoreInit
  /\ [][StoreNext]_storeVars
  /\ \A p \in Callers : WF_storeVars(pc[p] # "IDLE" /\ Step(p))

-----------------------------------------------------------------------------
(***************************************************************************)
(* Properties.                                                             *)
(***************************************************************************)

(***************************************************************************)
(* The store implements the log: commits are atomic and never repeated by  *)
(* a retry, whatever fails in between, and what replace_journal confirmed  *)
(* survives every kill and every loss of power.                            *)
(***************************************************************************)
Log == INSTANCE JournalLog WITH
         Commands <- Callers, log <- Chain(visible), acknowledged <- confirmed

ImplementsLog == Log!LogSpec

(***************************************************************************)
(* A journal that exists stays usable: whatever is interrupted, and in     *)
(* whichever combination unsynced entries are found afterwards, it has its *)
(* marker, the lock identity and the lock, so that a crash after the first *)
(* commit never locks the project out (COORDINATOR_STATE_INCONSISTENT,     *)
(* COORDINATOR_LOCK_IDENTITY_MISMATCH); and an identity never outlives its *)
(* lock file.                                                              *)
(***************************************************************************)
JournalStaysUsable ==
  \A root \in {visible, durable} :
    /\ root.journal # NoJournal =>
         root.marker = "COMPLETE" /\ root.lockIdentity = "COMPLETE"
    /\ root.lockIdentity # "ABSENT" => root.lock = "COMPLETE"

(***************************************************************************)
(* The lock is always released again: no path through an operation, none   *)
(* of its errors included, keeps the project locked.                       *)
(***************************************************************************)
LockReleased == \A p \in Callers : holder = p ~> holder # p

(***************************************************************************)
(* The invariant of the store: the types, and a journal that exists can be *)
(* read by every later operation.                                          *)
(***************************************************************************)
StoreInv == StoreTypeOK /\ JournalStaysUsable
=============================================================================
