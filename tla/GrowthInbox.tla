----------------------------- MODULE GrowthInbox -----------------------------
(***************************************************************************)
(* The growth inbox, growth_store.py: assessments are recorded once under  *)
(* their key, as files that are written in a staging directory and         *)
(* published by a hard link, and looked up and scanned under a shared      *)
(* lock.  System calls fail, processes are killed and the host loses power *)
(* between any two of them.                                                *)
(*                                                                         *)
(* The inbox directory exists twice: as processes see it, and as it was    *)
(* last synced.  A receipt is the assessment it holds; a file is a receipt *)
(* and how much of it is written and synced.                               *)
(***************************************************************************)
EXTENDS FiniteSets, Naturals

CONSTANTS
  Callers,     \* processes, each with one GrowthInbox instance at a time
  Requests,    \* normalized assessments
  Keys,        \* assessment keys: the names in the inbox
  KeyOf,       \* growth_assessment_key
  ScanLimit,   \* _SCAN_LIMIT
  NoCaller,    \* nobody holds the exclusive lock
  NoFile,      \* no such name in the directory
  NoRequest,   \* no call is under way that names an assessment
  Junk         \* an entry that the program did not write and does not accept

ASSUME InboxAssumption ==
  /\ KeyOf \in [Requests -> Keys]
  /\ IsFiniteSet(Keys)
  /\ ScanLimit \in Nat
  /\ NoCaller \notin Callers
  /\ NoRequest \notin Requests
  /\ NoFile # Junk
  /\ {NoFile, Junk} \cap [request : Requests, data : {"PART", "WRITTEN", "SYNCED"}] = {}

VARIABLES
  root,        \* the state root: "ABSENT", "CREATED" or "SYNCED" in its parent
  inbox,       \* inbox/ as seen
  synced,      \* inbox/ as synced
  stage,       \* the staging file of each publication
  leftovers,   \* the names in inbox/ to which a staging link was left behind
  writer,      \* who holds the exclusive lock
  readers,     \* who hold the shared lock
  pc,          \* where each process is
  job,         \* the assessment each process records or looks up
  uncertain,   \* _publication_uncertain of each instance
  todo,        \* the names a reader has yet to read
  got,         \* the names and files a reader has read
  recorded     \* the assessments answered RECORDED in a synced state root

disk == <<root, inbox, synced, stage, leftovers>>
locks == <<writer, readers>>
reading == <<todo, got>>
inboxVars == <<disk, locks, pc, job, uncertain, reading, recorded>>

-----------------------------------------------------------------------------
Files == [request : Requests, data : {"PART", "WRITTEN", "SYNCED"}]
Entries == Files \cup {NoFile, Junk}

\* The steps of publish_bytes_no_replace.
Publishing == {"STAGE", "WRITE", "SYNC_FILE", "LINK", "SYNC_INBOX", "UNSTAGE", "SYNC_STAGING"}

Reading == {"SCAN_LIST", "SCAN_READ", "RECEIPT_LIST", "RECEIPT_READ"}

(***************************************************************************)
(* The type invariant.                                                     *)
(***************************************************************************)
InboxTypeOK ==
  /\ root \in {"ABSENT", "CREATED", "SYNCED"}
  /\ inbox \in [Keys -> Entries]
  /\ synced \in [Keys -> Entries]
  /\ stage \in [Callers -> Files \cup {NoFile}]
  /\ leftovers \in SUBSET Keys
  /\ writer \in Callers \cup {NoCaller}
  /\ readers \in SUBSET Callers
  /\ pc \in [Callers -> {"CLOSED", "SYNC_ROOT", "READY", "LOOKUP"} \cup Publishing \cup Reading]
  /\ job \in [Callers -> Requests \cup {NoRequest}]
  /\ uncertain \in [Callers -> BOOLEAN]
  /\ todo \in [Callers -> SUBSET Keys]
  /\ got \in [Callers -> SUBSET (Keys \X Entries)]
  /\ recorded \in SUBSET Requests

Empty == [k \in Keys |-> NoFile]
Names == {k \in Keys : inbox[k] # NoFile}
Holds(entry, r) == entry \in Files /\ entry.request = r /\ entry.data # "PART"

Go(p, step) == pc' = [pc EXCEPT ![p] = step]

\* A call ends: the lock is released and what the call knew is forgotten.
Leave(p, next) ==
  /\ Go(p, next)
  /\ writer' = IF writer = p THEN NoCaller ELSE writer
  /\ readers' = readers \ {p}
  /\ job' = [job EXCEPT ![p] = NoRequest]
  /\ todo' = [todo EXCEPT ![p] = {}]
  /\ got' = [got EXCEPT ![p] = {}]

-----------------------------------------------------------------------------
(***************************************************************************)
(* Opening.  A state root that exists is not synced again.                 *)
(***************************************************************************)
CreateRoot(p) ==
  /\ pc[p] = "CLOSED"
  /\ root = "ABSENT"
  /\ root' = "CREATED"
  /\ Go(p, "SYNC_ROOT")
  /\ UNCHANGED <<inbox, synced, stage, leftovers, locks, job, uncertain, reading, recorded>>

SyncRoot(p) ==
  /\ pc[p] = "SYNC_ROOT"
  /\ root' = "SYNCED"
  /\ Go(p, "READY")
  /\ UNCHANGED <<inbox, synced, stage, leftovers, locks, job, uncertain, reading, recorded>>

OpenExisting(p) ==
  /\ pc[p] = "CLOSED"
  /\ root # "ABSENT"
  /\ Go(p, "READY")
  /\ UNCHANGED <<disk, locks, job, uncertain, reading, recorded>>

-----------------------------------------------------------------------------
(***************************************************************************)
(* record.                                                                 *)
(***************************************************************************)

\* Mutant: the exclusive lock does not look at the shared ones.
BeginRecordBesideReaders(p, r) ==
  /\ pc[p] = "READY"
  /\ ~uncertain[p]
  /\ writer = NoCaller
  /\ writer' = p
  /\ job' = [job EXCEPT ![p] = r]
  /\ Go(p, "LOOKUP")
  /\ UNCHANGED <<disk, readers, uncertain, reading, recorded>>

\* The lock does not wait: a busy inbox defers the assessment.
BeginRecord(p, r) ==
  /\ pc[p] = "READY"
  /\ ~uncertain[p]
  /\ writer = NoCaller
  /\ readers = {}
  /\ writer' = p
  /\ job' = [job EXCEPT ![p] = r]
  /\ Go(p, "LOOKUP")
  /\ UNCHANGED <<disk, readers, uncertain, reading, recorded>>

\* The key is free: publish.
LookUpFree(p) ==
  /\ pc[p] = "LOOKUP"
  /\ inbox[KeyOf[job[p]]] = NoFile
  /\ Go(p, "STAGE")
  /\ UNCHANGED <<disk, locks, job, uncertain, reading, recorded>>

\* The same bytes are there already: DUPLICATE.
LookUpDuplicate(p) ==
  /\ pc[p] = "LOOKUP"
  /\ Holds(inbox[KeyOf[job[p]]], job[p])
  /\ Leave(p, "READY")
  /\ UNCHANGED <<disk, uncertain, recorded>>

\* Mutant: the lock is not released when the key is taken.
LookUpConflictLocked(p) ==
  /\ pc[p] = "LOOKUP"
  /\ inbox[KeyOf[job[p]]] # NoFile
  /\ ~Holds(inbox[KeyOf[job[p]]], job[p])
  /\ Go(p, "READY")
  /\ UNCHANGED <<disk, locks, job, uncertain, reading, recorded>>

\* The key is taken by another receipt, or the entry is not one: an error.
LookUpConflict(p) ==
  /\ pc[p] = "LOOKUP"
  /\ inbox[KeyOf[job[p]]] # NoFile
  /\ ~Holds(inbox[KeyOf[job[p]]], job[p])
  /\ Leave(p, "READY")
  /\ UNCHANGED <<disk, uncertain, recorded>>

-----------------------------------------------------------------------------
(***************************************************************************)
(* publish_bytes_no_replace, one system call at a time.                    *)
(***************************************************************************)
Staging(p, file, next) ==
  /\ stage' = [stage EXCEPT ![p] = file]
  /\ Go(p, next)
  /\ UNCHANGED <<root, inbox, synced, leftovers, locks, job, uncertain, reading, recorded>>

\* os.open of a new random name in staging/.
CreateStaged(p) ==
  /\ pc[p] = "STAGE"
  /\ Staging(p, [request |-> job[p], data |-> "PART"], "WRITE")

WriteStaged(p) ==
  /\ pc[p] = "WRITE"
  /\ Staging(p, [stage[p] EXCEPT !.data = "WRITTEN"], "SYNC_FILE")

\* Mutant: the file is linked before it is synced.
SyncStagedSkipped(p) ==
  /\ pc[p] = "SYNC_FILE"
  /\ Staging(p, stage[p], "LINK")

SyncStaged(p) ==
  /\ pc[p] = "SYNC_FILE"
  /\ Staging(p, [stage[p] EXCEPT !.data = "SYNCED"], "LINK")

\* os.link never replaces a name.
Link(p) ==
  /\ pc[p] = "LINK"
  /\ inbox[KeyOf[job[p]]] = NoFile
  /\ inbox' = [inbox EXCEPT ![KeyOf[job[p]]] = stage[p]]
  /\ Go(p, "SYNC_INBOX")
  /\ UNCHANGED <<root, synced, stage, leftovers, locks, job, uncertain, reading, recorded>>

\* Mutant: the inbox directory is not synced.
SyncInboxSkipped(p) ==
  /\ pc[p] = "SYNC_INBOX"
  /\ Go(p, "UNSTAGE")
  /\ UNCHANGED <<disk, locks, job, uncertain, reading, recorded>>

SyncInbox(p) ==
  /\ pc[p] = "SYNC_INBOX"
  /\ synced' = inbox
  /\ Go(p, "UNSTAGE")
  /\ UNCHANGED <<root, inbox, stage, leftovers, locks, job, uncertain, reading, recorded>>

Unstage(p) ==
  /\ pc[p] = "UNSTAGE"
  /\ Staging(p, NoFile, "SYNC_STAGING")

\* Mutant: the call is forgotten before its answer is noted.
SyncStagingForgotten(p) ==
  /\ pc[p] = "SYNC_STAGING"
  /\ Leave(p, "READY")
  /\ recorded' = IF root = "SYNCED" THEN recorded \cup {job'[p]} ELSE recorded
  /\ UNCHANGED <<disk, uncertain>>

\* staging/ is synced and the receipt returned: RECORDED.
SyncStaging(p) ==
  /\ pc[p] = "SYNC_STAGING"
  /\ recorded' = IF root = "SYNCED" THEN recorded \cup {job[p]} ELSE recorded
  /\ Leave(p, "READY")
  /\ UNCHANGED <<disk, uncertain>>

\* The staging file of an ended publication stays.  Only the links to receipts
\* matter: a scratch file that was never linked is read by nobody.
LeaveStaged(p) ==
  leftovers' = IF pc[p] \in {"SYNC_INBOX", "UNSTAGE"}
               THEN leftovers \cup {KeyOf[job[p]]} ELSE leftovers

\* Mutant: the staging file is cleaned up whether the receipt is synced or not.
CleanUpAlways(p) == UNCHANGED leftovers \/ LeaveStaged(p)

\* Unless a receipt was linked and is not synced, the staging file is unlinked;
\* a failure to do so is ignored.
CleanUp(p) ==
  \/ pc[p] # "SYNC_INBOX" /\ UNCHANGED leftovers
  \/ LeaveStaged(p)

\* A system call of the publication fails, before or after it had its effect.
FailPublication(p) ==
  /\ pc[p] \in Publishing
  /\ CleanUp(p)
  /\ stage' = [stage EXCEPT ![p] = NoFile]
  /\ uncertain' = [uncertain EXCEPT ![p] = TRUE]
  /\ Leave(p, "READY")
  /\ UNCHANGED <<root, inbox, synced, recorded>>

-----------------------------------------------------------------------------
(***************************************************************************)
(* receipt and scan: list the names, read them one by one.                 *)
(***************************************************************************)
BeginReading(p, r, step) ==
  /\ pc[p] = "READY"
  /\ writer = NoCaller
  /\ readers' = readers \cup {p}
  /\ job' = [job EXCEPT ![p] = r]
  /\ Go(p, step)
  /\ UNCHANGED <<disk, writer, uncertain, reading, recorded>>

BeginScan(p) == BeginReading(p, NoRequest, "SCAN_LIST")

BeginReceipt(p, r) == BeginReading(p, r, "RECEIPT_LIST")

ListNames(p, next) ==
  /\ todo' = [todo EXCEPT ![p] = Names]
  /\ Go(p, next)
  /\ UNCHANGED <<disk, locks, job, uncertain, got, recorded>>

\* A scan refuses an inbox over its limit; a lookup has none.
List(p) ==
  \/ /\ pc[p] = "SCAN_LIST"
     /\ Cardinality(Names) <= ScanLimit
     /\ ListNames(p, "SCAN_READ")
  \/ /\ pc[p] = "RECEIPT_LIST"
     /\ ListNames(p, "RECEIPT_READ")

\* A scan reports an entry it does not accept; a lookup raises on it.
ReadEntry(p, k) ==
  /\ pc[p] \in {"SCAN_READ", "RECEIPT_READ"}
  /\ k \in todo[p]
  /\ pc[p] = "RECEIPT_READ" => \E r \in Requests : Holds(inbox[k], r)
  /\ todo' = [todo EXCEPT ![p] = @ \ {k}]
  /\ got' = [got EXCEPT ![p] = @ \cup {<<k, inbox[k]>>}]
  /\ UNCHANGED <<disk, locks, pc, job, uncertain, recorded>>

\* The reader returns its report or receipt, or it raises: too many names, an
\* entry it does not accept, a receipt later than the scan's time, none or
\* several that match, a failing system call.
EndReading(p) ==
  /\ pc[p] \in Reading
  /\ Leave(p, "READY")
  /\ UNCHANGED <<disk, uncertain, recorded>>

-----------------------------------------------------------------------------
(***************************************************************************)
(* Faults and the world.                                                   *)
(***************************************************************************)

\* The process ends, by itself or killed, and with it its instance.
Die(p) ==
  /\ pc[p] # "CLOSED"
  /\ LeaveStaged(p)
  /\ stage' = [stage EXCEPT ![p] = NoFile]
  /\ uncertain' = [uncertain EXCEPT ![p] = FALSE]
  /\ Leave(p, "CLOSED")
  /\ UNCHANGED <<root, inbox, synced, recorded>>

\* What was not synced of a file's data is lost.
Survivor(entry) ==
  IF entry \in Files /\ entry.data # "SYNCED" THEN [entry EXCEPT !.data = "PART"] ELSE entry

\* Power is lost: each name is found as it was seen or as it was synced, and a
\* state root that was never synced may be gone with all that is in it.
PowerLoss ==
  /\ \/ /\ root = "CREATED"
        /\ root' = "ABSENT"
        /\ inbox' = Empty
        /\ leftovers' = {}
     \/ /\ root' = IF root = "CREATED" THEN "SYNCED" ELSE root
        /\ \E kept \in SUBSET Keys :
             inbox' = [k \in Keys |-> Survivor(IF k \in kept THEN inbox[k] ELSE synced[k])]
        /\ leftovers' \in SUBSET {k \in leftovers : inbox'[k] # NoFile}
  /\ synced' = inbox'
  /\ stage' = [p \in Callers |-> NoFile]
  /\ uncertain' = [p \in Callers |-> FALSE]
  /\ pc' = [p \in Callers |-> "CLOSED"]
  /\ writer' = NoCaller
  /\ readers' = {}
  /\ job' = [p \in Callers |-> NoRequest]
  /\ todo' = [p \in Callers |-> {}]
  /\ got' = [p \in Callers |-> {}]
  /\ UNCHANGED recorded

\* External: somebody puts a file into the inbox that is not a receipt.
Deposit(k) ==
  /\ root # "ABSENT"
  /\ inbox[k] = NoFile
  /\ inbox' = [inbox EXCEPT ![k] = Junk]
  /\ UNCHANGED <<root, synced, stage, leftovers, locks, pc, job, uncertain, reading, recorded>>

-----------------------------------------------------------------------------
InboxInit ==
  /\ root = "ABSENT"
  /\ inbox = Empty
  /\ synced = Empty
  /\ stage = [p \in Callers |-> NoFile]
  /\ leftovers = {}
  /\ writer = NoCaller
  /\ readers = {}
  /\ pc = [p \in Callers |-> "CLOSED"]
  /\ job = [p \in Callers |-> NoRequest]
  /\ uncertain = [p \in Callers |-> FALSE]
  /\ todo = [p \in Callers |-> {}]
  /\ got = [p \in Callers |-> {}]
  /\ recorded = {}

\* The steps of a call that has begun.
Proceed(p) ==
  \/ SyncRoot(p)
  \/ LookUpFree(p) \/ LookUpDuplicate(p) \/ LookUpConflict(p)
  \/ CreateStaged(p) \/ WriteStaged(p) \/ SyncStaged(p) \/ Link(p) \/ SyncInbox(p)
  \/ Unstage(p) \/ SyncStaging(p) \/ FailPublication(p)
  \/ List(p) \/ (\E k \in Keys : ReadEntry(p, k)) \/ EndReading(p)

Call(p) ==
  \/ CreateRoot(p) \/ OpenExisting(p) \/ BeginScan(p)
  \/ \E r \in Requests : BeginRecord(p, r) \/ BeginReceipt(p, r)

InboxNext ==
  \/ \E p \in Callers : Call(p) \/ Proceed(p) \/ Die(p)
  \/ \E k \in Keys : Deposit(k)
  \/ PowerLoss

\* A call that has begun goes on: no system call of it waits for another.
InboxSpec ==
  /\ InboxInit
  /\ [][InboxNext]_inboxVars
  /\ \A p \in Callers : WF_inboxVars(Proceed(p))

-----------------------------------------------------------------------------
(***************************************************************************)
(* Properties.                                                             *)
(***************************************************************************)

(***************************************************************************)
(* No name in the inbox ever shows a receipt that is not whole, whichever  *)
(* call fails and whenever power is lost: "a final entry observed after    *)
(* hard-link publication is always complete".                              *)
(***************************************************************************)
PublishedWhole == \A k \in Keys : inbox[k] \in Files => inbox[k].data # "PART"

(***************************************************************************)
(* An assessment that was answered RECORDED in a synced state root is in   *)
(* the inbox for ever: no failure, loss of power, other recorder of the    *)
(* same key or leftover takes it away.                                     *)
(***************************************************************************)
RecordedStays ==
  \A r \in recorded : Holds(inbox[KeyOf[r]], r)

(***************************************************************************)
(* While a published receipt is not synced, a staging link to it remains:  *)
(* cleaning up after a failed publication never removes the last link that *)
(* may survive.                                                            *)
(***************************************************************************)
StagedUntilSynced ==
  \A k \in Keys :
    inbox[k] \in Files /\ inbox[k] # synced[k] =>
      \/ k \in leftovers
      \/ \E p \in Callers : stage[p] = inbox[k]

(***************************************************************************)
(* A reader that has read all its names has read the inbox as it is: no    *)
(* receipt was recorded while it read.  (Other programs do as they like.)  *)
(***************************************************************************)
ReadersSeeSnapshot ==
  \A p \in Callers :
    pc[p] \in {"SCAN_READ", "RECEIPT_READ"} /\ todo[p] = {} =>
      got[p] \cap (Keys \X Files) = {<<k, inbox[k]>> : k \in {n \in Keys : inbox[n] \in Files}}

(***************************************************************************)
(* The exclusive lock is always released.                                  *)
(***************************************************************************)
InboxUnlocked == \A p \in Callers : writer = p ~> writer # p

(***************************************************************************)
(* The invariant of the inbox: the types, a published name shows a whole   *)
(* receipt, a recorded one stays, and a receipt keeps its staging link     *)
(* until the inbox is synced.                                              *)
(***************************************************************************)
InboxInv == InboxTypeOK /\ PublishedWhole /\ RecordedStays /\ StagedUntilSynced
=============================================================================
