----------------------------- MODULE InboxProofs -----------------------------
(***************************************************************************)
(* Theorems about the growth inbox, for any set of callers, assessments    *)
(* and keys, and any number of failures, deaths and losses of power.       *)
(***************************************************************************)
EXTENDS GrowthInbox, TLAPS

-----------------------------------------------------------------------------
(***************************************************************************)
(* The inductive invariant.                                                *)
(***************************************************************************)

Recording == {"LOOKUP"} \cup Publishing
Unlinked == {"STAGE", "WRITE", "SYNC_FILE", "LINK"}
ReadSteps == {"SCAN_READ", "RECEIPT_READ"}

\* A recorder is alone, and a recorder has its assessment.
LocksInv ==
  /\ writer # NoCaller => readers = {}
  /\ \A p \in Callers :
       /\ pc[p] \in Recording => writer = p /\ job[p] \in Requests
       /\ pc[p] \in Reading => p \in readers

\* A receipt is synced before it has a name, and the name is its own key.
FilesInv ==
  \A k \in Keys : \A entry \in {inbox[k], synced[k]} :
    entry \in Files => entry.data = "SYNCED" /\ KeyOf[entry.request] = k

\* What is synced is seen: a name is never replaced or removed.
SyncedSeen == \A k \in Keys : synced[k] # NoFile => inbox[k] = synced[k]

\* Where a publication is, and what it has staged, linked and synced by then.
Staged(p, data) == stage[p] = [request |-> job[p], data |-> data]

PublicationInv ==
  \A p \in Callers :
    /\ pc[p] = "WRITE" => Staged(p, "PART")
    /\ pc[p] = "SYNC_FILE" => Staged(p, "WRITTEN")
    /\ pc[p] \in {"LINK", "SYNC_INBOX", "UNSTAGE"} => Staged(p, "SYNCED")
    /\ pc[p] \in Unlinked => inbox[KeyOf[job[p]]] \notin Files
    /\ pc[p] \in {"SYNC_INBOX", "UNSTAGE", "SYNC_STAGING"} =>
         inbox[KeyOf[job[p]]] = [request |-> job[p], data |-> "SYNCED"]
    /\ pc[p] \in {"UNSTAGE", "SYNC_STAGING"} => synced[KeyOf[job[p]]] = inbox[KeyOf[job[p]]]
    /\ pc[p] \notin {"WRITE", "SYNC_FILE", "LINK", "SYNC_INBOX", "UNSTAGE"} => stage[p] = NoFile

\* What was answered RECORDED is synced.
RecordedSynced ==
  \A r \in recorded : root = "SYNCED" /\ synced[KeyOf[r]] = [request |-> r, data |-> "SYNCED"]

\* A reader has read, or has yet to read, each receipt.
SnapshotInv ==
  \A p \in Callers :
    /\ pc[p] \notin ReadSteps => todo[p] = {} /\ got[p] = {}
    /\ pc[p] \in ReadSteps =>
         /\ \A k \in Keys : inbox[k] \in Files => k \in todo[p] \/ <<k, inbox[k]>> \in got[p]
         /\ \A k \in Keys : \A entry \in Files : <<k, entry>> \in got[p] => inbox[k] = entry

GrowthInv ==
  /\ InboxTypeOK
  /\ LocksInv
  /\ FilesInv
  /\ SyncedSeen
  /\ PublicationInv
  /\ RecordedSynced
  /\ SnapshotInv
  /\ StagedUntilSynced

-----------------------------------------------------------------------------
(***************************************************************************)
(* Facts that the steps rest on.                                           *)
(***************************************************************************)

LEMMA NoFiles == NoFile \notin Files /\ Junk \notin Files /\ NoFile # Junk
  BY InboxAssumption DEF Files

LEMMA FileOf ==
  ASSUME NEW r \in Requests, NEW data \in {"PART", "WRITTEN", "SYNCED"}
  PROVE  /\ [request |-> r, data |-> data] \in Files
         /\ [request |-> r, data |-> data].request = r
         /\ [request |-> r, data |-> data].data = data
  BY DEF Files

LEMMA StagedFields ==
  ASSUME NEW p, NEW data, Staged(p, data)
  PROVE  stage[p].request = job[p] /\ stage[p].data = data
  BY DEF Staged

\* Nothing in the inbox is lost by halves.
LEMMA SurvivorsAreWhole ==
  ASSUME GrowthInv
  PROVE  \A k \in Keys : Survivor(inbox[k]) = inbox[k] /\ Survivor(synced[k]) = synced[k]
  BY DEF GrowthInv, FilesInv, Survivor

\* After a loss of power a name is as it was seen or synced, but for a state root
\* that is gone as a whole.
LEMMA PowerLossFinds ==
  ASSUME GrowthInv, PowerLoss
  PROVE  /\ \A k \in Keys : inbox'[k] \in {NoFile, inbox[k], synced[k]} /\ synced'[k] = inbox'[k]
         /\ root = "SYNCED" =>
              root' = "SYNCED" /\ \A k \in Keys : synced'[k] \in {inbox[k], synced[k]}
<1>1. CASE root = "CREATED" /\ root' = "ABSENT" /\ inbox' = Empty
  BY <1>1 DEF PowerLoss, Empty
<1>2. CASE /\ root' = IF root = "CREATED" THEN "SYNCED" ELSE root
           /\ \E kept \in SUBSET Keys :
                inbox' = [k \in Keys |-> Survivor(IF k \in kept THEN inbox[k] ELSE synced[k])]
  BY <1>2, SurvivorsAreWhole DEF PowerLoss
<1> QED
  BY <1>1, <1>2 DEF PowerLoss

\* What was recorded is synced, and therefore seen.
LEMMA RecordedSeen ==
  ASSUME GrowthInv
  PROVE  \A r \in recorded :
           /\ KeyOf[r] \in Keys /\ root = "SYNCED"
           /\ inbox[KeyOf[r]] = synced[KeyOf[r]]
           /\ inbox[KeyOf[r]] = [request |-> r, data |-> "SYNCED"]
<1> SUFFICES ASSUME NEW r \in recorded
             PROVE  /\ KeyOf[r] \in Keys /\ root = "SYNCED"
                    /\ inbox[KeyOf[r]] = synced[KeyOf[r]]
                    /\ inbox[KeyOf[r]] = [request |-> r, data |-> "SYNCED"]
  BY Zenon
<1>1. r \in Requests /\ KeyOf[r] \in Keys
  BY InboxAssumption DEF GrowthInv, InboxTypeOK
<1>2. root = "SYNCED" /\ synced[KeyOf[r]] = [request |-> r, data |-> "SYNCED"]
  BY DEF GrowthInv, RecordedSynced
<1>3. [request |-> r, data |-> "SYNCED"] \in Files
  BY <1>1, FileOf
<1>4. synced[KeyOf[r]] # NoFile
  BY <1>2, <1>3, NoFiles
<1> QED
  BY <1>1, <1>2, <1>4 DEF GrowthInv, SyncedSeen

\* The link that keeps a receipt that is not synced belongs to a publication
\* that is about to sync it.
LEMMA UnsyncedIsOwn ==
  ASSUME GrowthInv, NEW p \in Callers, NEW k \in Keys,
         inbox[k] \in Files, inbox[k] # synced[k], stage[p] = inbox[k]
  PROVE  pc[p] = "SYNC_INBOX" /\ KeyOf[job[p]] = k
<1> USE DEF GrowthInv
<1>1. inbox[k].data = "SYNCED" /\ KeyOf[inbox[k].request] = k
  BY DEF FilesInv
<1>2. pc[p] \in {"WRITE", "SYNC_FILE", "LINK", "SYNC_INBOX", "UNSTAGE"}
  BY NoFiles DEF PublicationInv
<1>3. CASE pc[p] = "WRITE"
  <2>1. Staged(p, "PART")
    BY <1>3 DEF PublicationInv
  <2> QED
    BY <1>1, <2>1, StagedFields
<1>4. CASE pc[p] = "SYNC_FILE"
  <2>1. Staged(p, "WRITTEN")
    BY <1>4 DEF PublicationInv
  <2> QED
    BY <1>1, <2>1, StagedFields
<1>5. CASE pc[p] \in {"LINK", "SYNC_INBOX", "UNSTAGE"}
  <2>1. Staged(p, "SYNCED")
    BY <1>5 DEF PublicationInv
  <2>2. KeyOf[job[p]] = k
    BY <1>1, <2>1, StagedFields
  <2> QED
    BY <1>5, <2>2 DEF PublicationInv, Unlinked
<1> QED
  BY <1>2, <1>3, <1>4, <1>5

\* The staging file of one process may change unless it is that link.
LEMMA StagedRests ==
  ASSUME GrowthInv, UNCHANGED <<inbox, synced>>, leftovers \subseteq leftovers', NEW p \in Callers,
         \A q \in Callers \ {p} : stage'[q] = stage[q],
         pc[p] = "SYNC_INBOX" => KeyOf[job[p]] \in leftovers'
  PROVE  StagedUntilSynced'
<1> SUFFICES ASSUME NEW k \in Keys, inbox[k] \in Files, inbox[k] # synced[k]
             PROVE  k \in leftovers' \/ \E q \in Callers : stage'[q] = inbox[k]
  BY DEF StagedUntilSynced
<1>1. k \in leftovers \/ \E q \in Callers : stage[q] = inbox[k]
  BY DEF GrowthInv, StagedUntilSynced
<1>2. CASE stage[p] = inbox[k]
  BY <1>2, UnsyncedIsOwn
<1> QED
  BY <1>1, <1>2

-----------------------------------------------------------------------------
(***************************************************************************)
(* Every step keeps the invariant, part by part.                           *)
(***************************************************************************)

\* Every step keeps the types.
LEMMA InboxTypeOKKept ==
  ASSUME GrowthInv, InboxNext
  PROVE  InboxTypeOK'
<1> USE InboxAssumption, NoFiles DEF GrowthInv, InboxTypeOK, Entries, Go, Leave, Recording,
    Publishing, Reading, disk, locks, reading, Staging, LeaveStaged, CleanUp, LocksInv
<1>1. ASSUME NEW p \in Callers, Call(p) \/ Proceed(p) \/ Die(p)
      PROVE  InboxTypeOK'
  <2>1. CASE SyncRoot(p)
    BY <2>1 DEF SyncRoot
  <2>2. CASE LookUpFree(p)
    BY <2>2 DEF LookUpFree
  <2>3. CASE LookUpDuplicate(p)
    BY <2>3 DEF LookUpDuplicate
  <2>4. CASE LookUpConflict(p)
    BY <2>4 DEF LookUpConflict
  <2>5. CASE CreateStaged(p)
    BY <2>5, FileOf DEF CreateStaged
  <2>6. CASE WriteStaged(p)
    <3>1. [stage[p] EXCEPT !.data = "WRITTEN"] \in Files
      <4>1. Staged(p, "PART") /\ job[p] \in Requests
        BY <2>6 DEF WriteStaged, PublicationInv
      <4> QED
        BY <4>1 DEF Staged, Files
    <3> QED
      BY <2>6, <3>1 DEF WriteStaged
  <2>7. CASE SyncStaged(p)
    <3>1. [stage[p] EXCEPT !.data = "SYNCED"] \in Files
      <4>1. Staged(p, "WRITTEN") /\ job[p] \in Requests
        BY <2>7 DEF SyncStaged, PublicationInv
      <4> QED
        BY <4>1 DEF Staged, Files
    <3> QED
      BY <2>7, <3>1 DEF SyncStaged
  <2>8. CASE Link(p)
    BY <2>8, FileOf DEF Link, PublicationInv, Staged
  <2>9. CASE SyncInbox(p)
    BY <2>9 DEF SyncInbox
  <2>10. CASE Unstage(p)
    BY <2>10 DEF Unstage
  <2>11. CASE SyncStaging(p)
    BY <2>11 DEF SyncStaging
  <2>12. CASE FailPublication(p)
    BY <2>12 DEF FailPublication
  <2>13. CASE List(p)
    BY <2>13 DEF List, ListNames, Names
  <2>14. CASE EndReading(p)
    BY <2>14 DEF EndReading
  <2>15. CASE CreateRoot(p)
    BY <2>15 DEF CreateRoot
  <2>16. CASE OpenExisting(p)
    BY <2>16 DEF OpenExisting
  <2>17. CASE BeginScan(p)
    BY <2>17 DEF BeginScan, BeginReading
  <2>18. CASE Die(p)
    BY <2>18 DEF Die
  <2>19. ASSUME NEW k \in Keys, ReadEntry(p, k)
         PROVE  InboxTypeOK'
    BY <2>19 DEF ReadEntry
  <2>20. ASSUME NEW r \in Requests, BeginRecord(p, r)
         PROVE  InboxTypeOK'
    BY <2>20 DEF BeginRecord
  <2>21. ASSUME NEW r \in Requests, BeginReceipt(p, r)
         PROVE  InboxTypeOK'
    BY <2>21 DEF BeginReceipt, BeginReading
  <2> QED
    BY <1>1, <2>1, <2>2, <2>3, <2>4, <2>5, <2>6, <2>7, <2>8, <2>9, <2>10, <2>11, <2>12, <2>13,
       <2>14, <2>15, <2>16, <2>17, <2>18, <2>19, <2>20, <2>21
       DEF Call, Proceed
<1>2. ASSUME NEW k \in Keys, Deposit(k)
      PROVE  InboxTypeOK'
  BY <1>2 DEF Deposit
<1>3. CASE PowerLoss
  <2>1. CASE root' = "ABSENT" /\ inbox' = Empty /\ leftovers' = {}
    BY <1>3, <2>1 DEF PowerLoss, Empty
  <2>2. CASE /\ root' = IF root = "CREATED" THEN "SYNCED" ELSE root
             /\ \E kept \in SUBSET Keys :
                  inbox' = [k \in Keys |-> Survivor(IF k \in kept THEN inbox[k] ELSE synced[k])]
             /\ leftovers' \in SUBSET {k \in leftovers : inbox'[k] # NoFile}
    <3>1. inbox' \in [Keys -> Entries]
      BY <2>2, SurvivorsAreWhole
    <3> QED
      BY <1>3, <2>2, <3>1 DEF PowerLoss
  <2> QED
    BY <1>3, <2>1, <2>2 DEF PowerLoss
<1> QED
  BY <1>1, <1>2, <1>3 DEF InboxNext

\* Every step keeps a recorder alone.
LEMMA LocksInvKept ==
  ASSUME GrowthInv, InboxNext
  PROVE  LocksInv'
<1> USE InboxAssumption, NoFiles DEF GrowthInv, InboxTypeOK, Entries, Go, Leave, Recording,
    Publishing, Reading, disk, locks, reading, Staging, LocksInv
<1>1. ASSUME NEW p \in Callers, Call(p) \/ Proceed(p) \/ Die(p)
      PROVE  LocksInv'
  <2>1. CASE SyncRoot(p)
    BY <2>1 DEF SyncRoot
  <2>2. CASE LookUpFree(p)
    BY <2>2 DEF LookUpFree
  <2>3. CASE LookUpDuplicate(p)
    BY <2>3 DEF LookUpDuplicate
  <2>4. CASE LookUpConflict(p)
    BY <2>4 DEF LookUpConflict
  <2>5. CASE CreateStaged(p)
    BY <2>5 DEF CreateStaged
  <2>6. CASE WriteStaged(p)
    BY <2>6 DEF WriteStaged
  <2>7. CASE SyncStaged(p)
    BY <2>7 DEF SyncStaged
  <2>8. CASE Link(p)
    BY <2>8 DEF Link
  <2>9. CASE SyncInbox(p)
    BY <2>9 DEF SyncInbox
  <2>10. CASE Unstage(p)
    BY <2>10 DEF Unstage
  <2>11. CASE SyncStaging(p)
    BY <2>11 DEF SyncStaging
  <2>12. CASE FailPublication(p)
    BY <2>12 DEF FailPublication
  <2>13. CASE List(p)
    BY <2>13 DEF List, ListNames, Names
  <2>14. CASE EndReading(p)
    BY <2>14 DEF EndReading
  <2>15. CASE CreateRoot(p)
    BY <2>15 DEF CreateRoot
  <2>16. CASE OpenExisting(p)
    BY <2>16 DEF OpenExisting
  <2>17. CASE BeginScan(p)
    BY <2>17 DEF BeginScan, BeginReading
  <2>18. CASE Die(p)
    BY <2>18 DEF Die
  <2>19. ASSUME NEW k \in Keys, ReadEntry(p, k)
         PROVE  LocksInv'
    BY <2>19 DEF ReadEntry
  <2>20. ASSUME NEW r \in Requests, BeginRecord(p, r)
         PROVE  LocksInv'
    BY <2>20 DEF BeginRecord
  <2>21. ASSUME NEW r \in Requests, BeginReceipt(p, r)
         PROVE  LocksInv'
    BY <2>21 DEF BeginReceipt, BeginReading
  <2> QED
    BY <1>1, <2>1, <2>2, <2>3, <2>4, <2>5, <2>6, <2>7, <2>8, <2>9, <2>10, <2>11, <2>12, <2>13,
       <2>14, <2>15, <2>16, <2>17, <2>18, <2>19, <2>20, <2>21
       DEF Call, Proceed
<1>2. ASSUME NEW k \in Keys, Deposit(k)
      PROVE  LocksInv'
  BY <1>2 DEF Deposit
<1>3. CASE PowerLoss
  BY <1>3 DEF PowerLoss
<1> QED
  BY <1>1, <1>2, <1>3 DEF InboxNext

\* Every step keeps the receipts whole and under their keys.
LEMMA FilesInvKept ==
  ASSUME GrowthInv, InboxNext
  PROVE  FilesInv'
<1> USE InboxAssumption, NoFiles DEF GrowthInv, InboxTypeOK, Entries, Go, Leave, Recording,
    Publishing, Reading, disk, locks, reading, Staging, FilesInv
<1>1. ASSUME NEW p \in Callers, Call(p) \/ Proceed(p) \/ Die(p)
      PROVE  FilesInv'
  <2>1. CASE SyncRoot(p)
    BY <2>1 DEF SyncRoot
  <2>2. CASE LookUpFree(p)
    BY <2>2 DEF LookUpFree
  <2>3. CASE LookUpDuplicate(p)
    BY <2>3 DEF LookUpDuplicate
  <2>4. CASE LookUpConflict(p)
    BY <2>4 DEF LookUpConflict
  <2>5. CASE CreateStaged(p)
    BY <2>5 DEF CreateStaged
  <2>6. CASE WriteStaged(p)
    BY <2>6 DEF WriteStaged
  <2>7. CASE SyncStaged(p)
    BY <2>7 DEF SyncStaged
  <2>8. CASE Link(p)
    <3>1. stage[p].data = "SYNCED" /\ stage[p].request = job[p] /\ KeyOf[job[p]] \in Keys
      <4>1. Staged(p, "SYNCED") /\ job[p] \in Requests
        BY <2>8 DEF Link, PublicationInv, LocksInv
      <4> QED
        BY <4>1, StagedFields
    <3>2. \A k \in Keys : inbox'[k] = inbox[k] \/ (k = KeyOf[job[p]] /\ inbox'[k] = stage[p])
      BY <2>8 DEF Link
    <3> QED
      BY <2>8, <3>1, <3>2 DEF Link
  <2>9. CASE SyncInbox(p)
    BY <2>9 DEF SyncInbox
  <2>10. CASE Unstage(p)
    BY <2>10 DEF Unstage
  <2>11. CASE SyncStaging(p)
    BY <2>11 DEF SyncStaging
  <2>12. CASE FailPublication(p)
    BY <2>12 DEF FailPublication
  <2>13. CASE List(p)
    BY <2>13 DEF List, ListNames, Names
  <2>14. CASE EndReading(p)
    BY <2>14 DEF EndReading
  <2>15. CASE CreateRoot(p)
    BY <2>15 DEF CreateRoot
  <2>16. CASE OpenExisting(p)
    BY <2>16 DEF OpenExisting
  <2>17. CASE BeginScan(p)
    BY <2>17 DEF BeginScan, BeginReading
  <2>18. CASE Die(p)
    BY <2>18 DEF Die
  <2>19. ASSUME NEW k \in Keys, ReadEntry(p, k)
         PROVE  FilesInv'
    BY <2>19 DEF ReadEntry
  <2>20. ASSUME NEW r \in Requests, BeginRecord(p, r)
         PROVE  FilesInv'
    BY <2>20 DEF BeginRecord
  <2>21. ASSUME NEW r \in Requests, BeginReceipt(p, r)
         PROVE  FilesInv'
    BY <2>21 DEF BeginReceipt, BeginReading
  <2> QED
    BY <1>1, <2>1, <2>2, <2>3, <2>4, <2>5, <2>6, <2>7, <2>8, <2>9, <2>10, <2>11, <2>12, <2>13,
       <2>14, <2>15, <2>16, <2>17, <2>18, <2>19, <2>20, <2>21
       DEF Call, Proceed
<1>2. ASSUME NEW k \in Keys, Deposit(k)
      PROVE  FilesInv'
  BY <1>2 DEF Deposit
<1>3. CASE PowerLoss
  <2>1. \A k \in Keys : inbox'[k] \in {NoFile, inbox[k], synced[k]} /\ synced'[k] = inbox'[k]
    BY <1>3, PowerLossFinds
  <2> QED
    BY <2>1
<1> QED
  BY <1>1, <1>2, <1>3 DEF InboxNext

\* Every step keeps what is synced seen.
LEMMA SyncedSeenKept ==
  ASSUME GrowthInv, InboxNext
  PROVE  SyncedSeen'
<1> USE InboxAssumption, NoFiles DEF GrowthInv, InboxTypeOK, Entries, Go, Leave, Recording,
    Publishing, Reading, disk, locks, reading, Staging, SyncedSeen
<1>1. ASSUME NEW p \in Callers, Call(p) \/ Proceed(p) \/ Die(p)
      PROVE  SyncedSeen'
  <2>1. CASE SyncRoot(p)
    BY <2>1 DEF SyncRoot
  <2>2. CASE LookUpFree(p)
    BY <2>2 DEF LookUpFree
  <2>3. CASE LookUpDuplicate(p)
    BY <2>3 DEF LookUpDuplicate
  <2>4. CASE LookUpConflict(p)
    BY <2>4 DEF LookUpConflict
  <2>5. CASE CreateStaged(p)
    BY <2>5 DEF CreateStaged
  <2>6. CASE WriteStaged(p)
    BY <2>6 DEF WriteStaged
  <2>7. CASE SyncStaged(p)
    BY <2>7 DEF SyncStaged
  <2>8. CASE Link(p)
    BY <2>8 DEF Link
  <2>9. CASE SyncInbox(p)
    BY <2>9 DEF SyncInbox
  <2>10. CASE Unstage(p)
    BY <2>10 DEF Unstage
  <2>11. CASE SyncStaging(p)
    BY <2>11 DEF SyncStaging
  <2>12. CASE FailPublication(p)
    BY <2>12 DEF FailPublication
  <2>13. CASE List(p)
    BY <2>13 DEF List, ListNames, Names
  <2>14. CASE EndReading(p)
    BY <2>14 DEF EndReading
  <2>15. CASE CreateRoot(p)
    BY <2>15 DEF CreateRoot
  <2>16. CASE OpenExisting(p)
    BY <2>16 DEF OpenExisting
  <2>17. CASE BeginScan(p)
    BY <2>17 DEF BeginScan, BeginReading
  <2>18. CASE Die(p)
    BY <2>18 DEF Die
  <2>19. ASSUME NEW k \in Keys, ReadEntry(p, k)
         PROVE  SyncedSeen'
    BY <2>19 DEF ReadEntry
  <2>20. ASSUME NEW r \in Requests, BeginRecord(p, r)
         PROVE  SyncedSeen'
    BY <2>20 DEF BeginRecord
  <2>21. ASSUME NEW r \in Requests, BeginReceipt(p, r)
         PROVE  SyncedSeen'
    BY <2>21 DEF BeginReceipt, BeginReading
  <2> QED
    BY <1>1, <2>1, <2>2, <2>3, <2>4, <2>5, <2>6, <2>7, <2>8, <2>9, <2>10, <2>11, <2>12, <2>13,
       <2>14, <2>15, <2>16, <2>17, <2>18, <2>19, <2>20, <2>21
       DEF Call, Proceed
<1>2. ASSUME NEW k \in Keys, Deposit(k)
      PROVE  SyncedSeen'
  BY <1>2 DEF Deposit
<1>3. CASE PowerLoss
  BY <1>3 DEF PowerLoss
<1> QED
  BY <1>1, <1>2, <1>3 DEF InboxNext

\* Every step keeps what a publication relies on.
LEMMA PublicationInvKept ==
  ASSUME GrowthInv, InboxNext
  PROVE  PublicationInv'
<1> USE InboxAssumption, NoFiles DEF GrowthInv, InboxTypeOK, Entries, Go, Leave, Recording,
    Publishing, Reading, disk, locks, reading, Staging, Staged, Unlinked, LocksInv, PublicationInv
<1>1. ASSUME NEW p \in Callers, Call(p) \/ Proceed(p) \/ Die(p)
      PROVE  PublicationInv'
  <2>1. CASE SyncRoot(p)
    BY <2>1 DEF SyncRoot
  <2>2. CASE LookUpFree(p)
    BY <2>2 DEF LookUpFree
  <2>3. CASE LookUpDuplicate(p)
    BY <2>3 DEF LookUpDuplicate
  <2>4. CASE LookUpConflict(p)
    BY <2>4 DEF LookUpConflict
  <2>5. CASE CreateStaged(p)
    BY <2>5 DEF CreateStaged
  <2>6. CASE WriteStaged(p)
    BY <2>6, FileOf DEF WriteStaged
  <2>7. CASE SyncStaged(p)
    BY <2>7, FileOf DEF SyncStaged
  <2>8. CASE Link(p)
    BY <2>8, FileOf DEF Link
  <2>9. CASE SyncInbox(p)
    BY <2>9 DEF SyncInbox
  <2>10. CASE Unstage(p)
    BY <2>10 DEF Unstage
  <2>11. CASE SyncStaging(p)
    BY <2>11 DEF SyncStaging
  <2>12. CASE FailPublication(p)
    BY <2>12 DEF FailPublication
  <2>13. CASE List(p)
    BY <2>13 DEF List, ListNames, Names
  <2>14. CASE EndReading(p)
    BY <2>14 DEF EndReading
  <2>15. CASE CreateRoot(p)
    BY <2>15 DEF CreateRoot
  <2>16. CASE OpenExisting(p)
    BY <2>16 DEF OpenExisting
  <2>17. CASE BeginScan(p)
    BY <2>17 DEF BeginScan, BeginReading
  <2>18. CASE Die(p)
    BY <2>18 DEF Die
  <2>19. ASSUME NEW k \in Keys, ReadEntry(p, k)
         PROVE  PublicationInv'
    BY <2>19 DEF ReadEntry
  <2>20. ASSUME NEW r \in Requests, BeginRecord(p, r)
         PROVE  PublicationInv'
    BY <2>20 DEF BeginRecord
  <2>21. ASSUME NEW r \in Requests, BeginReceipt(p, r)
         PROVE  PublicationInv'
    BY <2>21 DEF BeginReceipt, BeginReading
  <2> QED
    BY <1>1, <2>1, <2>2, <2>3, <2>4, <2>5, <2>6, <2>7, <2>8, <2>9, <2>10, <2>11, <2>12, <2>13,
       <2>14, <2>15, <2>16, <2>17, <2>18, <2>19, <2>20, <2>21
       DEF Call, Proceed
<1>2. ASSUME NEW k \in Keys, Deposit(k)
      PROVE  PublicationInv'
  BY <1>2 DEF Deposit
<1>3. CASE PowerLoss
  BY <1>3 DEF PowerLoss
<1> QED
  BY <1>1, <1>2, <1>3 DEF InboxNext

\* Every step keeps what was recorded.
LEMMA RecordedSyncedKept ==
  ASSUME GrowthInv, InboxNext
  PROVE  RecordedSynced'
<1> USE InboxAssumption, NoFiles DEF GrowthInv, InboxTypeOK, Entries, Go, Leave, Recording,
    Publishing, Reading, disk, locks, reading, Staging, RecordedSynced
<1>1. ASSUME NEW p \in Callers, Call(p) \/ Proceed(p) \/ Die(p)
      PROVE  RecordedSynced'
  <2>1. CASE SyncRoot(p)
    BY <2>1 DEF SyncRoot
  <2>2. CASE LookUpFree(p)
    BY <2>2 DEF LookUpFree
  <2>3. CASE LookUpDuplicate(p)
    BY <2>3 DEF LookUpDuplicate
  <2>4. CASE LookUpConflict(p)
    BY <2>4 DEF LookUpConflict
  <2>5. CASE CreateStaged(p)
    BY <2>5 DEF CreateStaged
  <2>6. CASE WriteStaged(p)
    BY <2>6 DEF WriteStaged
  <2>7. CASE SyncStaged(p)
    BY <2>7 DEF SyncStaged
  <2>8. CASE Link(p)
    BY <2>8 DEF Link
  <2>9. CASE SyncInbox(p)
    <3>1. \A r \in recorded : inbox[KeyOf[r]] = synced[KeyOf[r]]
      BY RecordedSeen
    <3> QED
      BY <2>9, <3>1 DEF SyncInbox
  <2>10. CASE Unstage(p)
    BY <2>10 DEF Unstage
  <2>11. CASE SyncStaging(p)
    BY <2>11 DEF SyncStaging, PublicationInv, LocksInv
  <2>12. CASE FailPublication(p)
    BY <2>12 DEF FailPublication
  <2>13. CASE List(p)
    <3>1. UNCHANGED <<root, synced, recorded>>
      BY <2>13 DEF List, ListNames
    <3> QED
      BY <3>1
  <2>14. CASE EndReading(p)
    BY <2>14 DEF EndReading
  <2>15. CASE CreateRoot(p)
    BY <2>15 DEF CreateRoot
  <2>16. CASE OpenExisting(p)
    BY <2>16 DEF OpenExisting
  <2>17. CASE BeginScan(p)
    BY <2>17 DEF BeginScan, BeginReading
  <2>18. CASE Die(p)
    BY <2>18 DEF Die
  <2>19. ASSUME NEW k \in Keys, ReadEntry(p, k)
         PROVE  RecordedSynced'
    BY <2>19 DEF ReadEntry
  <2>20. ASSUME NEW r \in Requests, BeginRecord(p, r)
         PROVE  RecordedSynced'
    BY <2>20 DEF BeginRecord
  <2>21. ASSUME NEW r \in Requests, BeginReceipt(p, r)
         PROVE  RecordedSynced'
    BY <2>21 DEF BeginReceipt, BeginReading
  <2> QED
    BY <1>1, <2>1, <2>2, <2>3, <2>4, <2>5, <2>6, <2>7, <2>8, <2>9, <2>10, <2>11, <2>12, <2>13,
       <2>14, <2>15, <2>16, <2>17, <2>18, <2>19, <2>20, <2>21
       DEF Call, Proceed
<1>2. ASSUME NEW k \in Keys, Deposit(k)
      PROVE  RecordedSynced'
  BY <1>2 DEF Deposit
<1>3. CASE PowerLoss
  <2>1. \A r \in recorded : root = "SYNCED" /\ inbox[KeyOf[r]] = synced[KeyOf[r]] /\ KeyOf[r] \in Keys
    BY RecordedSeen
  <2>2. recorded # {} => root' = "SYNCED" /\ \A k \in Keys : synced'[k] \in {inbox[k], synced[k]}
    BY <1>3, <2>1, PowerLossFinds
  <2> QED
    BY <1>3, <2>1, <2>2 DEF PowerLoss
<1> QED
  BY <1>1, <1>2, <1>3 DEF InboxNext

\* Every step keeps what readers have read.
LEMMA SnapshotInvKept ==
  ASSUME GrowthInv, InboxNext
  PROVE  SnapshotInv'
<1> USE InboxAssumption, NoFiles DEF GrowthInv, InboxTypeOK, Entries, Go, Leave, Recording,
    Publishing, Reading, disk, locks, reading, Staging, ReadSteps, LocksInv, SnapshotInv
<1>1. ASSUME NEW p \in Callers, Call(p) \/ Proceed(p) \/ Die(p)
      PROVE  SnapshotInv'
  <2>1. CASE SyncRoot(p)
    BY <2>1 DEF SyncRoot
  <2>2. CASE LookUpFree(p)
    BY <2>2 DEF LookUpFree
  <2>3. CASE LookUpDuplicate(p)
    BY <2>3 DEF LookUpDuplicate
  <2>4. CASE LookUpConflict(p)
    BY <2>4 DEF LookUpConflict
  <2>5. CASE CreateStaged(p)
    BY <2>5 DEF CreateStaged
  <2>6. CASE WriteStaged(p)
    BY <2>6 DEF WriteStaged
  <2>7. CASE SyncStaged(p)
    BY <2>7 DEF SyncStaged
  <2>8. CASE Link(p)
    BY <2>8 DEF Link
  <2>9. CASE SyncInbox(p)
    BY <2>9 DEF SyncInbox
  <2>10. CASE Unstage(p)
    BY <2>10 DEF Unstage
  <2>11. CASE SyncStaging(p)
    BY <2>11 DEF SyncStaging
  <2>12. CASE FailPublication(p)
    BY <2>12 DEF FailPublication
  <2>13. CASE List(p)
    BY <2>13 DEF List, ListNames, Names
  <2>14. CASE EndReading(p)
    BY <2>14 DEF EndReading
  <2>15. CASE CreateRoot(p)
    BY <2>15 DEF CreateRoot
  <2>16. CASE OpenExisting(p)
    BY <2>16 DEF OpenExisting
  <2>17. CASE BeginScan(p)
    BY <2>17 DEF BeginScan, BeginReading
  <2>18. CASE Die(p)
    BY <2>18 DEF Die
  <2>19. ASSUME NEW k \in Keys, ReadEntry(p, k)
         PROVE  SnapshotInv'
    BY <2>19 DEF ReadEntry
  <2>20. ASSUME NEW r \in Requests, BeginRecord(p, r)
         PROVE  SnapshotInv'
    BY <2>20 DEF BeginRecord
  <2>21. ASSUME NEW r \in Requests, BeginReceipt(p, r)
         PROVE  SnapshotInv'
    BY <2>21 DEF BeginReceipt, BeginReading
  <2> QED
    BY <1>1, <2>1, <2>2, <2>3, <2>4, <2>5, <2>6, <2>7, <2>8, <2>9, <2>10, <2>11, <2>12, <2>13,
       <2>14, <2>15, <2>16, <2>17, <2>18, <2>19, <2>20, <2>21
       DEF Call, Proceed
<1>2. ASSUME NEW k \in Keys, Deposit(k)
      PROVE  SnapshotInv'
  BY <1>2 DEF Deposit
<1>3. CASE PowerLoss
  BY <1>3 DEF PowerLoss
<1> QED
  BY <1>1, <1>2, <1>3 DEF InboxNext

\* Every step keeps a link to each receipt that is not synced.
LEMMA StagedUntilSyncedKept ==
  ASSUME GrowthInv, InboxNext
  PROVE  StagedUntilSynced'
<1> USE InboxAssumption, NoFiles DEF GrowthInv, InboxTypeOK, Entries, Go, Leave, Recording,
    Publishing, Reading, disk, locks, reading, Staging, LeaveStaged, CleanUp
<1>1. ASSUME NEW p \in Callers, Call(p) \/ Proceed(p) \/ Die(p)
      PROVE  StagedUntilSynced'
  <2>1. CASE SyncRoot(p)
    BY <2>1 DEF SyncRoot, StagedUntilSynced
  <2>2. CASE LookUpFree(p)
    BY <2>2 DEF LookUpFree, StagedUntilSynced
  <2>3. CASE LookUpDuplicate(p)
    BY <2>3 DEF LookUpDuplicate, StagedUntilSynced
  <2>4. CASE LookUpConflict(p)
    BY <2>4 DEF LookUpConflict, StagedUntilSynced
  <2>5. CASE CreateStaged(p)
    <3>1. /\ UNCHANGED <<inbox, synced>> /\ leftovers \subseteq leftovers'
          /\ \A q \in Callers \ {p} : stage'[q] = stage[q]
      BY <2>5 DEF CreateStaged
    <3>2. pc[p] = "SYNC_INBOX" => KeyOf[job[p]] \in leftovers'
      BY <2>5 DEF CreateStaged
    <3> QED
      BY <3>1, <3>2, StagedRests
  <2>6. CASE WriteStaged(p)
    <3>1. /\ UNCHANGED <<inbox, synced>> /\ leftovers \subseteq leftovers'
          /\ \A q \in Callers \ {p} : stage'[q] = stage[q]
      BY <2>6 DEF WriteStaged
    <3>2. pc[p] = "SYNC_INBOX" => KeyOf[job[p]] \in leftovers'
      BY <2>6 DEF WriteStaged
    <3> QED
      BY <3>1, <3>2, StagedRests
  <2>7. CASE SyncStaged(p)
    <3>1. /\ UNCHANGED <<inbox, synced>> /\ leftovers \subseteq leftovers'
          /\ \A q \in Callers \ {p} : stage'[q] = stage[q]
      BY <2>7 DEF SyncStaged
    <3>2. pc[p] = "SYNC_INBOX" => KeyOf[job[p]] \in leftovers'
      BY <2>7 DEF SyncStaged
    <3> QED
      BY <3>1, <3>2, StagedRests
  <2>8. CASE Link(p)
    BY <2>8 DEF Link, StagedUntilSynced
  <2>9. CASE SyncInbox(p)
    BY <2>9 DEF SyncInbox, StagedUntilSynced
  <2>10. CASE Unstage(p)
    <3>1. /\ UNCHANGED <<inbox, synced>> /\ leftovers \subseteq leftovers'
          /\ \A q \in Callers \ {p} : stage'[q] = stage[q]
      BY <2>10 DEF Unstage
    <3>2. pc[p] = "SYNC_INBOX" => KeyOf[job[p]] \in leftovers'
      BY <2>10 DEF Unstage
    <3> QED
      BY <3>1, <3>2, StagedRests
  <2>11. CASE SyncStaging(p)
    BY <2>11 DEF SyncStaging, StagedUntilSynced
  <2>12. CASE FailPublication(p)
    <3>1. /\ UNCHANGED <<inbox, synced>> /\ leftovers \subseteq leftovers'
          /\ \A q \in Callers \ {p} : stage'[q] = stage[q]
      BY <2>12 DEF FailPublication
    <3>2. pc[p] = "SYNC_INBOX" => KeyOf[job[p]] \in leftovers'
      BY <2>12 DEF FailPublication
    <3> QED
      BY <3>1, <3>2, StagedRests
  <2>13. CASE List(p)
    BY <2>13 DEF List, StagedUntilSynced, ListNames, Names
  <2>14. CASE EndReading(p)
    BY <2>14 DEF EndReading, StagedUntilSynced
  <2>15. CASE CreateRoot(p)
    BY <2>15 DEF CreateRoot, StagedUntilSynced
  <2>16. CASE OpenExisting(p)
    BY <2>16 DEF OpenExisting, StagedUntilSynced
  <2>17. CASE BeginScan(p)
    BY <2>17 DEF BeginScan, StagedUntilSynced, BeginReading
  <2>18. CASE Die(p)
    <3>1. /\ UNCHANGED <<inbox, synced>> /\ leftovers \subseteq leftovers'
          /\ \A q \in Callers \ {p} : stage'[q] = stage[q]
      BY <2>18 DEF Die
    <3>2. pc[p] = "SYNC_INBOX" => KeyOf[job[p]] \in leftovers'
      BY <2>18 DEF Die
    <3> QED
      BY <3>1, <3>2, StagedRests
  <2>19. ASSUME NEW k \in Keys, ReadEntry(p, k)
         PROVE  StagedUntilSynced'
    BY <2>19 DEF ReadEntry, StagedUntilSynced
  <2>20. ASSUME NEW r \in Requests, BeginRecord(p, r)
         PROVE  StagedUntilSynced'
    BY <2>20 DEF BeginRecord, StagedUntilSynced
  <2>21. ASSUME NEW r \in Requests, BeginReceipt(p, r)
         PROVE  StagedUntilSynced'
    BY <2>21 DEF BeginReceipt, StagedUntilSynced, BeginReading
  <2> QED
    BY <1>1, <2>1, <2>2, <2>3, <2>4, <2>5, <2>6, <2>7, <2>8, <2>9, <2>10, <2>11, <2>12, <2>13,
       <2>14, <2>15, <2>16, <2>17, <2>18, <2>19, <2>20, <2>21
       DEF Call, Proceed
<1>2. ASSUME NEW k \in Keys, Deposit(k)
      PROVE  StagedUntilSynced'
  BY <1>2 DEF Deposit, StagedUntilSynced
<1>3. CASE PowerLoss
  BY <1>3 DEF PowerLoss, StagedUntilSynced
<1> QED
  BY <1>1, <1>2, <1>3 DEF InboxNext

-----------------------------------------------------------------------------
(***************************************************************************)
(* The theorems.                                                           *)
(***************************************************************************)

\* Every behaviour of the inbox keeps the inductive invariant.
LEMMA GrowthIsInvariant == InboxSpec => []GrowthInv
<1>1. InboxInit => GrowthInv
  BY InboxAssumption, NoFiles
     DEF InboxInit, Empty, GrowthInv, InboxTypeOK, Entries, LocksInv, FilesInv, SyncedSeen, PublicationInv,
         Unlinked, RecordedSynced, SnapshotInv, ReadSteps, StagedUntilSynced, Recording, Publishing,
         Reading
<1>2. GrowthInv /\ [InboxNext]_inboxVars => GrowthInv'
  <2>1. ASSUME GrowthInv, InboxNext
        PROVE  GrowthInv'
    BY <2>1, InboxTypeOKKept, LocksInvKept, FilesInvKept, SyncedSeenKept, PublicationInvKept,
       RecordedSyncedKept, SnapshotInvKept, StagedUntilSyncedKept
       DEF GrowthInv
  <2>2. ASSUME GrowthInv, UNCHANGED inboxVars
        PROVE  GrowthInv'
    BY <2>2
       DEF inboxVars, disk, locks, reading, GrowthInv, InboxTypeOK, LocksInv, FilesInv, SyncedSeen,
           PublicationInv, Staged, RecordedSynced, SnapshotInv, StagedUntilSynced
  <2> QED
    BY <2>1, <2>2
<1> QED
  BY <1>1, <1>2, PTL DEF InboxSpec

\* In every behaviour of the inbox: what a name shows is a whole receipt, an
\* assessment answered RECORDED stays, and a receipt keeps its staging link
\* until the inbox is synced.
THEOREM InboxIsSound == InboxSpec => []InboxInv
<1>1. ASSUME GrowthInv
      PROVE  InboxInv
  <2>1. PublishedWhole
    BY <1>1 DEF GrowthInv, FilesInv, PublishedWhole
  <2>2. RecordedStays
    <3> SUFFICES ASSUME NEW r \in recorded
                 PROVE  Holds(inbox[KeyOf[r]], r)
      BY DEF RecordedStays
    <3>1. r \in Requests
      BY <1>1 DEF GrowthInv, InboxTypeOK
    <3> QED
      BY <1>1, <3>1, RecordedSeen, FileOf DEF Holds
  <2> QED
    BY <1>1, <2>1, <2>2 DEF GrowthInv, InboxInv
<1> QED
  BY <1>1, GrowthIsInvariant, PTL

\* In every behaviour, a reader that is through has read the inbox as it is.
THEOREM ReadersSeeTheInbox == InboxSpec => []ReadersSeeSnapshot
<1>1. ASSUME GrowthInv
      PROVE  ReadersSeeSnapshot
  <2> SUFFICES ASSUME NEW p \in Callers, pc[p] \in {"SCAN_READ", "RECEIPT_READ"}, todo[p] = {}
               PROVE  got[p] \cap (Keys \X Files)
                        = {<<k, inbox[k]>> : k \in {n \in Keys : inbox[n] \in Files}}
    BY DEF ReadersSeeSnapshot
  <2>1. /\ \A k \in Keys : inbox[k] \in Files => <<k, inbox[k]>> \in got[p]
        /\ \A k \in Keys : \A entry \in Files : <<k, entry>> \in got[p] => inbox[k] = entry
    BY <1>1 DEF GrowthInv, SnapshotInv, ReadSteps
  <2> QED
    BY <2>1
<1> QED
  BY <1>1, GrowthIsInvariant, PTL
=============================================================================
