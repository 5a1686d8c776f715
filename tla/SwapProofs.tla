----------------------------- MODULE SwapProofs -----------------------------
(***************************************************************************)
(* Theorems about the projection swap, for every set of builds, all values *)
(* of the sources and every number of their changes.                       *)
(***************************************************************************)
EXTENDS ProjectionSwap, TLAPS

-----------------------------------------------------------------------------
(***************************************************************************)
(* The inductive invariant.                                                *)
(***************************************************************************)

Journaled(b, phase) ==
  /\ journal # NoJournal
  /\ journal.token = b
  /\ journal.phase = phase

\* The steps of a build before it wrote the journal, before its pack became
\* the target, and before it was published.
Unjournaled == {"READY", "BEGIN", "RECOVER", "RENDER", "WRITE", "CHECK", "PREPARE"}
Unswapped == Unjournaled \cup {"BACKUP", "SWAP"}
Uncommitted == Unswapped \cup {"VERIFY", "COMMIT"}

\* Exactly the holder of the process lock is running.
LockInv == \A b \in Builds : holder = b <=> pc[b] \in Running

\* What the trees and the journal are at each step of a running build.
StageInv ==
  \A b \in Builds :
    /\ pc[b] \in {"READY", "BEGIN", "RECOVER"} => temporary[b] = NoTree
    /\ pc[b] \in {"CHECK", "PREPARE", "BACKUP", "SWAP"} => temporary[b] = Whole(b)
    /\ pc[b] \in {"RENDER", "WRITE", "CHECK", "PREPARE", "RETURN"} => journal = NoJournal
    /\ pc[b] \in {"BACKUP", "SWAP", "VERIFY", "COMMIT"} => Journaled(b, "PREPARED")
    /\ pc[b] \in {"CLEAN", "UNLINK"} => Journaled(b, "COMMITTED")
    /\ pc[b] = "BACKUP" => journal.hadTarget /\ Exists(target) /\ ~Exists(backup[b])
    /\ pc[b] = "SWAP" => ~Exists(target)
    /\ pc[b] \in {"SWAP", "VERIFY", "COMMIT"} => (journal.hadTarget <=> Exists(backup[b]))
    /\ pc[b] \in {"VERIFY", "COMMIT", "CLEAN", "UNLINK", "RETURN"} =>
         target = Whole(b) /\ ~Exists(temporary[b])
    /\ pc[b] = "UNLINK" => ~Exists(backup[b])

\* A build is in no journal, in no target and in no backup before its time.
FreshInv ==
  \A b \in Builds :
    /\ pc[b] \in Unjournaled /\ journal # NoJournal => journal.token # b
    /\ pc[b] \in Unswapped /\ Exists(target) => target.pack # b
    /\ pc[b] \in Uncommitted =>
         \A c \in Builds : Exists(backup[c]) => backup[c].pack # b

\* The value a check has just found, and what the two histories hold since
\* then: after the check before the swap, and after the check that follows it.
SourceInv ==
  \A b \in Builds :
    /\ pc[b] = "CHECK" => source \in staged[b]
    /\ pc[b] = "VERIFY" => source \in shown[b]
    /\ pc[b] \in {"PREPARE", "BACKUP", "SWAP", "VERIFY", "COMMIT", "CLEAN", "UNLINK", "RETURN"} =>
         built[b] \in staged[b]
    /\ pc[b] \in {"COMMIT", "CLEAN", "UNLINK", "RETURN"} => built[b] \in shown[b]

SwapInv ==
  /\ SwapTypeOK
  /\ LockInv
  /\ StageInv
  /\ FreshInv
  /\ PublishedPackIntact
  /\ RecoveryAccepts
  /\ BackupsAreJournaled

-----------------------------------------------------------------------------
(***************************************************************************)
(* Lemmas.                                                                 *)
(***************************************************************************)

\* Removing a tree leaves a tree of the same pack that is torn, or none.
LEMMA RemovalTears ==
  ASSUME NEW tree \in Trees, NEW rest \in Removal(tree)
  PROVE  rest = NoTree \/ (rest \in Trees /\ rest.pack = tree.pack)
  BY DEF Removal, Torn, Trees

\* A whole tree is a tree, and so is a torn one.
LEMMA WholeTree ==
  ASSUME NEW b \in Builds
  PROVE  /\ Whole(b) \in Trees /\ Whole(b) # NoTree
         /\ Whole(b).pack = b /\ Whole(b).whole = TRUE
         /\ Torn(Whole(b)) \in Trees
<1>1. Whole(b) \in Trees /\ Whole(b).pack = b /\ Whole(b).whole = TRUE
  BY DEF Whole, Trees
<1>2. Torn(Whole(b)) \in Trees
  BY <1>1 DEF Torn, Trees
<1> QED BY <1>1, <1>2, NamesAssumption DEF Trees

\* A journal is not the absence of one.
LEMMA JournalExists ==
  ASSUME NEW j \in Journals
  PROVE  /\ j # NoJournal /\ j.token \in Builds /\ j.hadTarget \in BOOLEAN
         /\ j.phase \in {"PREPARED", "COMMITTED"}
  BY NamesAssumption DEF Journals

-----------------------------------------------------------------------------
(***************************************************************************)
(* Recovery, by a later build or by the handler, keeps the invariant.      *)
(***************************************************************************)
LEMMA RecoveryKeepsInv ==
  ASSUME SwapInv, NEW b \in Builds, holder = b, pc[b] \in {"RECOVER", "HANDLER"},
         RecoverStep(b)
  PROVE  SwapInv'
<1> USE DEF SwapInv, histories
<1> DEFINE t == journal.token
<1>0. /\ journal # NoJournal /\ journal \in Journals /\ t \in Builds
      /\ journal.hadTarget \in BOOLEAN
      /\ journal.phase \in {"PREPARED", "COMMITTED"}
      /\ UNCHANGED <<holder, pc, source, built, histories>>
  BY JournalExists DEF RecoverStep, SwapTypeOK
<1>1. \A c \in Builds : pc[c] \in {"READY", "RECOVER", "HANDLER", "SUCCESS", "ERROR", "KILLED"}
  BY DEF LockInv, SwapTypeOK, Ended
<1> DEFINE Shrunk(old, new) == \/ new = NoTree
                               \/ old # NoTree /\ new \in Trees /\ new.pack = old.pack
           Shrinks == /\ \A c \in Builds : Shrunk(temporary[c], temporary'[c])
                      /\ \A c \in Builds : Shrunk(backup[c], backup'[c])
                      /\ \/ Shrunk(target, target')
                         \/ Shrunk(backup[t], target')
                      /\ temporary' \in [Builds -> Trees \cup {NoTree}]
                      /\ backup' \in [Builds -> Trees \cup {NoTree}]
           Kept == /\ Shrinks /\ (journal' = journal \/ journal' = NoJournal)
                   /\ PublishedPackIntact' /\ RecoveryAccepts' /\ BackupsAreJournaled'
<1>2. ASSUME RecoverCommitted, UNCHANGED journal PROVE Kept
  <2>1. PICK rest \in Removal(backup[t]) : backup' = [backup EXCEPT ![t] = rest]
    BY <1>2 DEF RecoverCommitted
  <2>2. Shrunk(backup[t], rest)
    BY <1>0, <1>2, RemovalTears DEF RecoverCommitted, SwapTypeOK, Exists
  <2>3. Shrinks
    BY <1>0, <1>2, <2>1, <2>2 DEF RecoverCommitted, SwapTypeOK
  <2>4. PublishedPackIntact' /\ RecoveryAccepts' /\ BackupsAreJournaled'
    BY <1>0, <1>2, <2>1, <2>2
       DEF RecoverCommitted, PublishedPackIntact, PublishedTree, RecoveryAccepts,
           BackupsAreJournaled
  <2> QED BY <1>2, <2>3, <2>4
<1>3. ASSUME RestoreBackup, UNCHANGED journal PROVE Kept
  <2>1. CASE Exists(target)
    <3>1. Shrunk(target, target') /\ UNCHANGED <<temporary, backup>>
      BY <1>3, <2>1, RemovalTears DEF RestoreBackup, SwapTypeOK, Exists
    <3>2. Shrinks
      BY <1>0, <3>1 DEF SwapTypeOK
    <3>3. PublishedPackIntact' /\ RecoveryAccepts' /\ BackupsAreJournaled'
      BY <1>0, <1>3, <3>1
         DEF RestoreBackup, PublishedPackIntact, PublishedTree, RecoveryAccepts,
             BackupsAreJournaled
    <3> QED BY <1>3, <3>2, <3>3
  <2>2. CASE ~Exists(target)
    <3>1. /\ backup[t] # NoTree /\ target' = backup[t] /\ UNCHANGED temporary
          /\ backup' = [backup EXCEPT ![t] = NoTree]
      BY <1>3, <2>2 DEF RestoreBackup, Exists
    <3>2. Shrinks
      BY <1>0, <3>1 DEF SwapTypeOK
    <3>3. PublishedPackIntact' /\ RecoveryAccepts' /\ BackupsAreJournaled'
      BY <1>0, <1>3, <3>1
         DEF RestoreBackup, PublishedPackIntact, PublishedTree, RecoveryAccepts,
             BackupsAreJournaled, Exists
    <3> QED BY <1>3, <3>2, <3>3
  <2> QED BY <2>1, <2>2
<1>4. ASSUME RemoveTarget, UNCHANGED journal PROVE Kept
  <2>1. Shrunk(target, target') /\ UNCHANGED <<temporary, backup>>
    BY <1>4, RemovalTears DEF RemoveTarget, SwapTypeOK, Exists
  <2>2. Shrinks
    BY <1>0, <2>1 DEF SwapTypeOK
  <2>3. PublishedPackIntact' /\ RecoveryAccepts' /\ BackupsAreJournaled'
    BY <1>0, <1>4, <2>1
       DEF RemoveTarget, PublishedPackIntact, PublishedTree, RecoveryAccepts,
           BackupsAreJournaled
  <2> QED BY <1>4, <2>2, <2>3
<1>5. ASSUME RemoveTemporary, UNCHANGED journal PROVE Kept
  <2>1. PICK rest \in Removal(temporary[t]) : temporary' = [temporary EXCEPT ![t] = rest]
    BY <1>5 DEF RemoveTemporary
  <2>2. Shrunk(temporary[t], rest)
    BY <1>0, <1>5, RemovalTears DEF RemoveTemporary, SwapTypeOK, Exists
  <2>3. Shrinks
    BY <1>0, <1>5, <2>1, <2>2 DEF RemoveTemporary, SwapTypeOK
  <2>4. PublishedPackIntact' /\ RecoveryAccepts' /\ BackupsAreJournaled'
    BY <1>0, <1>5
       DEF RemoveTemporary, PublishedPackIntact, PublishedTree, RecoveryAccepts,
           BackupsAreJournaled
  <2> QED BY <1>5, <2>3, <2>4
<1>6. ASSUME RecoverySettled, journal' = NoJournal, UNCHANGED trees PROVE Kept
  <2>1. Shrinks
    BY <1>0, <1>6 DEF SwapTypeOK, trees
  <2>2. PublishedPackIntact' /\ RecoveryAccepts' /\ BackupsAreJournaled'
    BY <1>0, <1>6
       DEF RecoverySettled, TargetSettled, PublishedPackIntact, PublishedTree,
           RecoveryAccepts, BackupsAreJournaled, trees
  <2> QED BY <1>6, <2>1, <2>2
<1>7. Kept
  BY <1>2, <1>3, <1>4, <1>5, <1>6 DEF RecoverStep
<1>8. SwapTypeOK'
  BY <1>0, <1>7 DEF SwapTypeOK
<1>9. LockInv'
  BY <1>0 DEF LockInv
<1>10. StageInv'
  BY <1>0, <1>1, <1>7 DEF StageInv
<1>11. FreshInv'
  BY <1>0, <1>7 DEF FreshInv, Uncommitted, Exists
<1> QED BY <1>7, <1>8, <1>9, <1>10, <1>11

-----------------------------------------------------------------------------
(***************************************************************************)
(* The other steps.                                                        *)
(***************************************************************************)

LEMMA InitInv == ASSUME SwapInit PROVE SwapInv
  BY NamesAssumption
     DEF SwapInit, SwapInv, SwapTypeOK, LockInv, StageInv, FreshInv,
         PublishedPackIntact, PublishedTree, RecoveryAccepts, BackupsAreJournaled,
         Exists, Running, Guarded

LEMMA NextKeepsInv == ASSUME SwapInv, [SwapNext]_swapVars PROVE SwapInv'
<1> USE DEF SwapInv, histories
<1>1. ASSUME NEW b \in Builds, Start(b) PROVE SwapInv'
  <2>1. SwapTypeOK'
    BY <1>1 DEF Start, SwapTypeOK, trees, Go, Running
  <2>2. LockInv'
    BY <1>1, NamesAssumption DEF Start, LockInv, SwapTypeOK, Go, Running
  <2>3. StageInv'
    BY <1>1 DEF Start, StageInv, Journaled, trees, Go
  <2>4. FreshInv'
    BY <1>1 DEF Start, FreshInv, trees, Go, Unjournaled, Unswapped, Uncommitted
  <2>5. PublishedPackIntact' /\ RecoveryAccepts' /\ BackupsAreJournaled'
    BY <1>1
       DEF Start, PublishedPackIntact, PublishedTree, RecoveryAccepts,
           BackupsAreJournaled, trees
  <2> QED BY <2>1, <2>2, <2>3, <2>4, <2>5
<1>2. ASSUME NEW b \in Builds, MakeTemporary(b) PROVE SwapInv'
  <2>1. SwapTypeOK'
    BY <1>2, WholeTree DEF MakeTemporary, SwapTypeOK, Go, Running, Guarded
  <2>2. LockInv'
    BY <1>2 DEF MakeTemporary, LockInv, At, Go, Running, Guarded
  <2>3. StageInv'
    BY <1>2 DEF MakeTemporary, StageInv, LockInv, SwapTypeOK, At, Go, Ended
  <2>4. FreshInv'
    BY <1>2 DEF MakeTemporary, FreshInv, At, Go, Unjournaled, Unswapped, Uncommitted
  <2>5. PublishedPackIntact' /\ RecoveryAccepts' /\ BackupsAreJournaled'
    BY <1>2
       DEF MakeTemporary, PublishedPackIntact, PublishedTree, RecoveryAccepts,
           BackupsAreJournaled
  <2> QED BY <2>1, <2>2, <2>3, <2>4, <2>5
<1>3. ASSUME NEW b \in Builds, WritePack(b) PROVE SwapInv'
  <2>1. SwapTypeOK'
    BY <1>3, WholeTree DEF WritePack, SwapTypeOK, Go, Running, Guarded
  <2>2. LockInv'
    BY <1>3 DEF WritePack, LockInv, At, Go, Running, Guarded
  <2>3. StageInv'
    BY <1>3 DEF WritePack, StageInv, LockInv, SwapTypeOK, At, Go, Ended
  <2>4. FreshInv'
    BY <1>3 DEF WritePack, FreshInv, At, Go, Unjournaled, Unswapped, Uncommitted
  <2>5. PublishedPackIntact' /\ RecoveryAccepts' /\ BackupsAreJournaled'
    BY <1>3
       DEF WritePack, PublishedPackIntact, PublishedTree, RecoveryAccepts,
           BackupsAreJournaled, StageInv, At
  <2> QED BY <2>1, <2>2, <2>3, <2>4, <2>5
<1>4. ASSUME NEW b \in Builds, CheckSources(b) PROVE SwapInv'
  <2>1. SwapTypeOK'
    BY <1>4 DEF CheckSources, SwapTypeOK, trees, Go, Running, Guarded
  <2>2. LockInv'
    BY <1>4 DEF CheckSources, LockInv, At, Go, Running, Guarded
  <2>3. StageInv'
    BY <1>4 DEF CheckSources, StageInv, LockInv, trees, At, Go, Running, Guarded
  <2>4. FreshInv'
    BY <1>4
       DEF CheckSources, FreshInv, trees, At, Go, Unjournaled, Unswapped, Uncommitted
  <2>5. PublishedPackIntact' /\ RecoveryAccepts' /\ BackupsAreJournaled'
    BY <1>4
       DEF CheckSources, PublishedPackIntact, PublishedTree, RecoveryAccepts,
           BackupsAreJournaled, trees
  <2> QED BY <2>1, <2>2, <2>3, <2>4, <2>5
<1>5. ASSUME NEW b \in Builds, PrepareSwap(b) PROVE SwapInv'
  <2>0. /\ journal' \in Journals /\ journal'.token = b /\ journal'.phase = "PREPARED"
        /\ journal'.hadTarget = Exists(target)
        /\ journal' # NoJournal
    BY <1>5, JournalExists DEF PrepareSwap, Journals, Exists
  <2>1. SwapTypeOK'
    BY <1>5, <2>0 DEF PrepareSwap, SwapTypeOK, trees, Go, Running, Guarded
  <2>2. LockInv'
    BY <1>5, <2>0 DEF PrepareSwap, LockInv, At, Go, Running, Guarded
  <2>3. StageInv'
    BY <1>5, <2>0
       DEF PrepareSwap, StageInv, Journaled, LockInv, SwapTypeOK, BackupsAreJournaled,
           trees, At, Go, Ended
  <2>4. FreshInv'
    BY <1>5, <2>0
       DEF PrepareSwap, FreshInv, SwapTypeOK, trees, At, Go, Unjournaled, Unswapped,
           Uncommitted
  <2>5. PublishedPackIntact' /\ RecoveryAccepts' /\ BackupsAreJournaled'
    BY <1>5, <2>0
       DEF PrepareSwap, PublishedPackIntact, PublishedTree, RecoveryAccepts,
           BackupsAreJournaled, StageInv, trees, At, Exists
  <2> QED BY <2>1, <2>2, <2>3, <2>4, <2>5
<1>6. ASSUME NEW b \in Builds, BackupTarget(b) PROVE SwapInv'
  <2>1. SwapTypeOK'
    BY <1>6 DEF BackupTarget, SwapTypeOK, Go, Running, Guarded
  <2>2. LockInv'
    BY <1>6 DEF BackupTarget, LockInv, At, Go, Running, Guarded
  <2>3. StageInv'
    BY <1>6 DEF BackupTarget, StageInv, Journaled, SwapTypeOK, At, Go, Exists
  <2>4. FreshInv'
    BY <1>6
       DEF BackupTarget, FreshInv, LockInv, At, Go, Unjournaled, Unswapped,
           Uncommitted, Running, Guarded, Exists
  <2>5. PublishedPackIntact' /\ RecoveryAccepts' /\ BackupsAreJournaled'
    BY <1>6
       DEF BackupTarget, PublishedPackIntact, PublishedTree, RecoveryAccepts,
           BackupsAreJournaled, StageInv, Journaled, SwapTypeOK, At
  <2> QED BY <2>1, <2>2, <2>3, <2>4, <2>5
<1>7. ASSUME NEW b \in Builds, Swap(b) PROVE SwapInv'
  <2>1. SwapTypeOK'
    BY <1>7 DEF Swap, SwapTypeOK, Go, Running, Guarded
  <2>2. LockInv'
    BY <1>7 DEF Swap, LockInv, At, Go, Running, Guarded
  <2>a. /\ temporary[b] = Whole(b) /\ journal' = journal /\ backup' = backup
        /\ Journaled(b, "PREPARED") /\ (journal.hadTarget <=> Exists(backup[b]))
        /\ target' = Whole(b) /\ temporary'[b] = NoTree
        /\ pc' = [pc EXCEPT ![b] = "VERIFY"]
    BY <1>7 DEF Swap, At, Go, StageInv, SwapTypeOK
  <2>b. \A c \in Builds : c # b => pc'[c] \notin Running /\ temporary'[c] = temporary[c] /\ pc'[c] = pc[c]
    BY <1>7, <2>a DEF Swap, At, LockInv
  <2>c. pc[b] = "SWAP" /\ pc'[b] = "VERIFY"
    BY <1>7, <2>a DEF Swap, At, SwapTypeOK
  <2>3. StageInv'
    BY <2>a, <2>b, <2>c DEF StageInv, Journaled, Exists
  <2>4. FreshInv'
    <3>1. \A c \in Builds : Exists(backup'[c]) => backup'[c].pack # b
      BY <2>a, <2>c DEF FreshInv, Uncommitted, Unswapped
    <3>2. \A c \in Builds : pc'[c] \in Unswapped => c # b /\ pc[c] \in Unswapped
      BY <2>b, <2>c DEF Unswapped, Unjournaled
    <3>3. \A c \in Builds : pc'[c] \in Unjournaled => journal.token # c
      BY <2>a, <2>b, <2>c DEF Journaled, Unjournaled
    <3>4. target'.pack = b
      BY <2>a, WholeTree
    <3> QED BY <2>a, <2>b, <3>1, <3>2, <3>3, <3>4 DEF FreshInv
  <2>5. PublishedPackIntact' /\ RecoveryAccepts' /\ BackupsAreJournaled'
    BY <1>7
       DEF Swap, PublishedPackIntact, PublishedTree, RecoveryAccepts,
           BackupsAreJournaled, StageInv, Journaled, At
  <2> QED BY <2>1, <2>2, <2>3, <2>4, <2>5
<1>8. ASSUME NEW b \in Builds, VerifySwapped(b) PROVE SwapInv'
  <2>1. SwapTypeOK'
    BY <1>8 DEF VerifySwapped, SwapTypeOK, trees, Go, Running, Guarded
  <2>2. LockInv'
    BY <1>8 DEF VerifySwapped, LockInv, At, Go, Running, Guarded
  <2>3. StageInv'
    BY <1>8 DEF VerifySwapped, StageInv, Journaled, trees, At, Go
  <2>4. FreshInv'
    BY <1>8
       DEF VerifySwapped, FreshInv, trees, At, Go, Unjournaled, Unswapped, Uncommitted
  <2>5. PublishedPackIntact' /\ RecoveryAccepts' /\ BackupsAreJournaled'
    BY <1>8
       DEF VerifySwapped, PublishedPackIntact, PublishedTree, RecoveryAccepts,
           BackupsAreJournaled, trees
  <2> QED BY <2>1, <2>2, <2>3, <2>4, <2>5
<1>9. ASSUME NEW b \in Builds, Commit(b) PROVE SwapInv'
  <2>0. /\ journal \in Journals /\ journal.token = b
    BY <1>9 DEF Commit, At, StageInv, Journaled, SwapTypeOK
  <2>a. /\ journal' \in Journals /\ journal'.token = b /\ journal'.phase = "COMMITTED"
        /\ journal'.hadTarget = journal.hadTarget
        /\ journal' # NoJournal
    BY <1>9, <2>0, JournalExists DEF Commit, Journals
  <2>1. SwapTypeOK'
    BY <1>9, <2>0, <2>a DEF Commit, SwapTypeOK, trees, Go, Running, Guarded
  <2>2. LockInv'
    BY <1>9, <2>0, <2>a DEF Commit, LockInv, At, Go, Running, Guarded
  <2>3. StageInv'
    BY <1>9, <2>0, <2>a DEF Commit, StageInv, Journaled, SwapTypeOK, trees, At, Go
  <2>4. FreshInv'
    BY <1>9, <2>0, <2>a
       DEF Commit, FreshInv, trees, At, Go, Unjournaled, Unswapped, Uncommitted
  <2>5. PublishedPackIntact' /\ RecoveryAccepts' /\ BackupsAreJournaled'
    <3>1. target = Whole(b) /\ temporary[b] = NoTree
      BY <1>9 DEF Commit, At, StageInv, Exists
    <3>2. target' = target /\ temporary' = temporary /\ backup' = backup
      BY <1>9 DEF Commit, trees
    <3>3. PublishedPackIntact'
      BY <2>a, <3>1, <3>2, WholeTree DEF PublishedPackIntact, PublishedTree
    <3>4. RecoveryAccepts'
      BY <2>a, <3>1, <3>2, WholeTree DEF RecoveryAccepts, Exists
    <3>5. BackupsAreJournaled'
      BY <2>0, <2>a, <3>2 DEF BackupsAreJournaled, Exists
    <3> QED
      BY <3>3, <3>4, <3>5
  <2> QED BY <2>1, <2>2, <2>3, <2>4, <2>5
<1>10. ASSUME NEW b \in Builds, RemoveBackup(b) PROVE SwapInv'
  <2>1. SwapTypeOK'
    BY <1>10, RemovalTears DEF RemoveBackup, SwapTypeOK, Go, Running, Guarded, Exists
  <2>2. LockInv'
    BY <1>10 DEF RemoveBackup, LockInv, SwapTypeOK, At, Go, Running, Guarded
  <2>3. StageInv'
    BY <1>10 DEF RemoveBackup, StageInv, Journaled, SwapTypeOK, At, Go
  <2>4. FreshInv'
    BY <1>10, RemovalTears
       DEF RemoveBackup, FreshInv, SwapTypeOK, Go, Unjournaled, Unswapped, Uncommitted,
           Exists
  <2>5. PublishedPackIntact' /\ RecoveryAccepts' /\ BackupsAreJournaled'
    BY <1>10
       DEF RemoveBackup, PublishedPackIntact, PublishedTree, RecoveryAccepts,
           BackupsAreJournaled, StageInv, Journaled, SwapTypeOK, At
  <2> QED BY <2>1, <2>2, <2>3, <2>4, <2>5
<1>11. ASSUME NEW b \in Builds, UnlinkJournal(b) PROVE SwapInv'
  <2>1. SwapTypeOK'
    BY <1>11 DEF UnlinkJournal, SwapTypeOK, trees, Go, Running, Guarded
  <2>2. LockInv'
    BY <1>11 DEF UnlinkJournal, LockInv, At, Go, Running, Guarded
  <2>3. StageInv'
    BY <1>11 DEF UnlinkJournal, StageInv, LockInv, SwapTypeOK, trees, At, Go, Ended
  <2>4. FreshInv'
    BY <1>11 DEF UnlinkJournal, FreshInv, trees, Go, Unjournaled, Unswapped, Uncommitted
  <2>5. PublishedPackIntact' /\ RecoveryAccepts' /\ BackupsAreJournaled'
    BY <1>11
       DEF UnlinkJournal, PublishedPackIntact, PublishedTree, RecoveryAccepts,
           BackupsAreJournaled, StageInv, Journaled, trees, At
  <2> QED BY <2>1, <2>2, <2>3, <2>4, <2>5
<1>12. ASSUME NEW b \in Builds, Return(b) PROVE SwapInv'
  <2>1. SwapTypeOK'
    BY <1>12 DEF Return, SwapTypeOK, trees, Go, Finish, Ended
  <2>2. LockInv'
    BY <1>12, NamesAssumption
       DEF Return, LockInv, SwapTypeOK, At, Go, Finish, Running, Guarded
  <2>3. StageInv'
    BY <1>12 DEF Return, StageInv, LockInv, trees, At, Go, Finish, Running, Guarded
  <2>4. FreshInv'
    BY <1>12
       DEF Return, FreshInv, trees, Go, Finish, Unjournaled, Unswapped, Uncommitted
  <2>5. PublishedPackIntact' /\ RecoveryAccepts' /\ BackupsAreJournaled'
    BY <1>12
       DEF Return, PublishedPackIntact, PublishedTree, RecoveryAccepts,
           BackupsAreJournaled, trees
  <2> QED BY <2>1, <2>2, <2>3, <2>4, <2>5
<1>13. ASSUME NEW b \in Builds, Raise(b) PROVE SwapInv'
  <2>1. SwapTypeOK'
    BY <1>13 DEF Raise, SwapTypeOK, trees, Go, Running
  <2>2. LockInv'
    BY <1>13 DEF Raise, LockInv, Go, Running
  <2>3. StageInv'
    BY <1>13 DEF Raise, StageInv, LockInv, SwapTypeOK, trees, Go, Ended
  <2>4. FreshInv'
    BY <1>13 DEF Raise, FreshInv, trees, Go, Unjournaled, Unswapped, Uncommitted
  <2>5. PublishedPackIntact' /\ RecoveryAccepts' /\ BackupsAreJournaled'
    BY <1>13
       DEF Raise, PublishedPackIntact, PublishedTree, RecoveryAccepts,
           BackupsAreJournaled, trees
  <2> QED BY <2>1, <2>2, <2>3, <2>4, <2>5
<1>14. ASSUME NEW b \in Builds, EndInError(b) PROVE SwapInv'
  <2>1. SwapTypeOK'
    BY <1>14 DEF EndInError, SwapTypeOK, trees, Go, Finish, Ended
  <2>2. LockInv'
    BY <1>14, NamesAssumption
       DEF EndInError, LockInv, SwapTypeOK, Go, Finish, Running, Guarded
  <2>3. StageInv'
    BY <1>14 DEF EndInError, StageInv, LockInv, trees, Go, Finish, Running, Guarded
  <2>4. FreshInv'
    BY <1>14
       DEF EndInError, FreshInv, trees, Go, Finish, Unjournaled, Unswapped, Uncommitted
  <2>5. PublishedPackIntact' /\ RecoveryAccepts' /\ BackupsAreJournaled'
    BY <1>14
       DEF EndInError, PublishedPackIntact, PublishedTree, RecoveryAccepts,
           BackupsAreJournaled, trees
  <2> QED BY <2>1, <2>2, <2>3, <2>4, <2>5
<1>15. ASSUME NEW b \in Builds, Kill(b) PROVE SwapInv'
  <2>1. SwapTypeOK'
    BY <1>15 DEF Kill, SwapTypeOK, trees, Go, Finish, Ended
  <2>2. LockInv'
    BY <1>15, NamesAssumption
       DEF Kill, LockInv, SwapTypeOK, Go, Finish, Running, Guarded
  <2>3. StageInv'
    BY <1>15 DEF Kill, StageInv, LockInv, SwapTypeOK, trees, Go, Finish, Ended
  <2>4. FreshInv'
    BY <1>15 DEF Kill, FreshInv, trees, Go, Finish, Unjournaled, Unswapped, Uncommitted
  <2>5. PublishedPackIntact' /\ RecoveryAccepts' /\ BackupsAreJournaled'
    BY <1>15
       DEF Kill, PublishedPackIntact, PublishedTree, RecoveryAccepts,
           BackupsAreJournaled, trees
  <2> QED BY <2>1, <2>2, <2>3, <2>4, <2>5
<1>16. ASSUME NEW b \in Builds, Recover(b) PROVE SwapInv'
  BY <1>16, RecoveryKeepsInv DEF Recover, At
<1>17. ASSUME NEW b \in Builds, Handle(b) PROVE SwapInv'
  <2>1. CASE RecoverStep(b)
    BY <1>17, <2>1, RecoveryKeepsInv DEF Handle, At
  <2>2. ASSUME journal = NoJournal, Exists(temporary[b]), NEW rest \in Removal(temporary[b]),
               temporary' = [temporary EXCEPT ![b] = rest],
               UNCHANGED <<target, backup, journal, holder, pc, source, built, histories>>
        PROVE  SwapInv'
    <3>1. rest \in Trees \cup {NoTree}
      BY <2>2, RemovalTears DEF SwapTypeOK, Exists
    <3>2. SwapTypeOK'
      BY <2>2, <3>1 DEF SwapTypeOK
    <3>3. LockInv' /\ FreshInv' /\ BackupsAreJournaled' /\ PublishedPackIntact' /\ RecoveryAccepts'
      BY <2>2
         DEF LockInv, FreshInv, BackupsAreJournaled, PublishedPackIntact,
             PublishedTree, RecoveryAccepts
    <3>4. \A c \in Builds : pc[c] \notin Running \/ c = b
      BY <1>17 DEF Handle, At, LockInv
    <3>5. StageInv'
      BY <1>17, <2>2, <3>4 DEF Handle, At, StageInv, Running, Guarded
    <3> QED BY <3>2, <3>3, <3>5
  <2> QED BY <1>17, <2>1, <2>2 DEF Handle
<1>18. CASE DriftSource
  BY <1>18, NamesAssumption
     DEF DriftSource, Grown, SwapTypeOK, LockInv, StageInv, FreshInv, Journaled,
         PublishedPackIntact, PublishedTree, RecoveryAccepts, BackupsAreJournaled,
         trees
<1>19. CASE UNCHANGED swapVars
  BY <1>19
     DEF swapVars, SwapTypeOK, LockInv, StageInv, FreshInv, Journaled,
         PublishedPackIntact, PublishedTree, RecoveryAccepts, BackupsAreJournaled
<1>20. ASSUME NEW b \in Builds, VerifyContext(b) PROVE SwapInv'
  <2>1. SwapTypeOK'
    BY <1>20 DEF VerifyContext, SwapTypeOK, trees, Go, Running
  <2>2. LockInv'
    BY <1>20 DEF VerifyContext, LockInv, At, Go, Running
  <2>3. StageInv'
    BY <1>20 DEF VerifyContext, StageInv, LockInv, trees, At, Go, Running, Guarded
  <2>4. FreshInv'
    BY <1>20
       DEF VerifyContext, FreshInv, trees, At, Go, Unjournaled, Unswapped, Uncommitted
  <2>5. PublishedPackIntact' /\ RecoveryAccepts' /\ BackupsAreJournaled'
    BY <1>20
       DEF VerifyContext, PublishedPackIntact, PublishedTree, RecoveryAccepts,
           BackupsAreJournaled, trees
  <2> QED BY <2>1, <2>2, <2>3, <2>4, <2>5
<1>21. ASSUME NEW b \in Builds, CheckPayloads(b) PROVE SwapInv'
  <2>1. SwapTypeOK'
    BY <1>21 DEF CheckPayloads, SwapTypeOK, trees, Go, Running, Guarded
  <2>2. LockInv'
    BY <1>21 DEF CheckPayloads, LockInv, At, Go, Running, Guarded
  <2>3. StageInv'
    BY <1>21 DEF CheckPayloads, StageInv, LockInv, trees, At, Go, Running, Guarded
  <2>4. FreshInv'
    BY <1>21
       DEF CheckPayloads, FreshInv, trees, At, Go, Unjournaled, Unswapped, Uncommitted
  <2>5. PublishedPackIntact' /\ RecoveryAccepts' /\ BackupsAreJournaled'
    BY <1>21
       DEF CheckPayloads, PublishedPackIntact, PublishedTree, RecoveryAccepts,
           BackupsAreJournaled, trees
  <2> QED BY <2>1, <2>2, <2>3, <2>4, <2>5
<1> QED
  BY <1>1, <1>2, <1>3, <1>4, <1>5, <1>6, <1>7, <1>8, <1>9, <1>10, <1>11, <1>12, <1>13,
     <1>14, <1>15, <1>16, <1>17, <1>18, <1>19, <1>20,
     <1>21
     DEF SwapNext, Build

-----------------------------------------------------------------------------
(***************************************************************************)
(* What is published.                                                      *)
(***************************************************************************)

LEMMA PublishedIsBuilt ==
  ASSUME SwapInv
  PROVE  PublishedTree \in Trees \cup {NoTree} /\ PublishedPack \in Builds \cup {NoPack}
<1>1. PublishedTree \in Trees \cup {NoTree}
  BY JournalExists DEF SwapInv, SwapTypeOK, PublishedTree
<1> QED BY <1>1 DEF PublishedPack, Exists, Trees

\* A build that has not committed is not the published one.
LEMMA UncommittedUnpublished ==
  ASSUME SwapInv, NEW b \in Builds, pc[b] \in Uncommitted
  PROVE  PublishedPack # b
<1> USE DEF SwapInv, histories
<1>1. NoPack # b
  BY NamesAssumption
<1>2. CASE pc[b] \in Unswapped
  BY <1>1, <1>2, JournalExists
     DEF FreshInv, SwapTypeOK, PublishedPack, PublishedTree, Exists
<1>3. CASE pc[b] \in {"VERIFY", "COMMIT"}
  BY <1>1, <1>3 DEF FreshInv, StageInv, Journaled, PublishedPack, PublishedTree, Exists
<1> QED BY <1>2, <1>3 DEF Uncommitted

\* Recovery publishes nothing and takes nothing back.
LEMMA RecoveryKeepsPack ==
  ASSUME SwapInv, NEW b \in Builds, RecoverStep(b)
  PROVE  PublishedPack' = PublishedPack
<1> USE DEF SwapInv, histories
<1>0. /\ journal # NoJournal /\ journal \in Journals /\ journal.token \in Builds
      /\ journal.phase \in {"PREPARED", "COMMITTED"}
  BY JournalExists DEF RecoverStep, SwapTypeOK
<1>2. CASE RecoverCommitted /\ UNCHANGED journal
  BY <1>0, <1>2 DEF RecoverCommitted, PublishedPack, PublishedTree
<1>3. CASE RestoreBackup /\ UNCHANGED journal
  BY <1>0, <1>3 DEF RestoreBackup, SwapTypeOK, PublishedPack, PublishedTree, Exists
<1>4. CASE RemoveTarget /\ UNCHANGED journal
  BY <1>0, <1>4 DEF RemoveTarget, PublishedPack, PublishedTree
<1>5. CASE RemoveTemporary /\ UNCHANGED journal
  BY <1>0, <1>5 DEF RemoveTemporary, PublishedPack, PublishedTree
<1>6. CASE RecoverySettled /\ journal' = NoJournal /\ UNCHANGED trees
  BY <1>0, <1>6
     DEF RecoverySettled, TargetSettled, trees, PublishedPack, PublishedTree, Exists
<1> QED BY <1>2, <1>3, <1>4, <1>5, <1>6 DEF RecoverStep

\* A commit publishes the pack of its build.
LEMMA CommitPublishes ==
  ASSUME SwapInv, NEW b \in Builds, Commit(b)
  PROVE  PublishedPack' = b
<1>1. /\ journal \in Journals /\ target = Whole(b) /\ target' = target
  BY DEF SwapInv, SwapTypeOK, Commit, At, StageInv, Journaled, trees
<1>2. journal'.phase = "COMMITTED" /\ journal' # NoJournal
  BY <1>1, JournalExists DEF Commit, Journals
<1> QED BY <1>1, <1>2, WholeTree DEF PublishedPack, PublishedTree, Exists

\* No other step of a build changes what is published.
LEMMA OthersKeepPack ==
  ASSUME SwapInv, NEW b \in Builds,
         Start(b) \/ Build(b) \/ Raise(b) \/ EndInError(b) \/ Kill(b), ~Commit(b)
  PROVE  PublishedPack' = PublishedPack
<1> USE DEF SwapInv, PublishedPack, PublishedTree, Exists
<1>1. CASE Start(b) \/ Raise(b) \/ EndInError(b) \/ Kill(b)
  BY <1>1 DEF Start, Raise, EndInError, Kill, trees
<1>2. CASE \/ VerifyContext(b) \/ MakeTemporary(b) \/ CheckPayloads(b) \/ WritePack(b)
           \/ CheckSources(b) \/ VerifySwapped(b) \/ Return(b)
  BY <1>2
     DEF VerifyContext, MakeTemporary, CheckPayloads, WritePack, CheckSources, VerifySwapped, Return,
         trees
<1>3. CASE PrepareSwap(b)
  <2>1. /\ journal' # NoJournal /\ journal'.phase = "PREPARED" /\ journal'.token = b
        /\ journal'.hadTarget <=> Exists(target)
    BY <1>3, JournalExists DEF PrepareSwap, Journals
  <2> QED BY <1>3, <2>1 DEF PrepareSwap, At, StageInv, BackupsAreJournaled, trees
<1>4. CASE BackupTarget(b)
  BY <1>4 DEF BackupTarget, At, StageInv, Journaled, SwapTypeOK
<1>5. CASE Swap(b)
  BY <1>5 DEF Swap, At, StageInv, Journaled
<1>6. CASE RemoveBackup(b)
  BY <1>6 DEF RemoveBackup, At, StageInv, Journaled
<1>7. CASE UnlinkJournal(b)
  BY <1>7 DEF UnlinkJournal, At, StageInv, Journaled, trees
<1>8. CASE Recover(b)
  BY <1>8, RecoveryKeepsPack DEF Recover
<1>9. CASE Handle(b)
  BY <1>9, RecoveryKeepsPack DEF Handle
<1> QED BY <1>1, <1>2, <1>3, <1>4, <1>5, <1>6, <1>7, <1>8, <1>9 DEF Build

-----------------------------------------------------------------------------
(***************************************************************************)
(* Invariants.                                                             *)
(***************************************************************************)

LEMMA InvHolds == SwapSpec => []SwapInv
  BY InitInv, NextKeepsInv, PTL DEF SwapSpec

(***************************************************************************)
(* Every reachable state of the swap is well typed.                        *)
(***************************************************************************)
THEOREM SwapTypeCorrect == SwapSpec => []SwapTypeOK
<1>1. SwapInv => SwapTypeOK
  BY DEF SwapInv
<1> QED BY InvHolds, <1>1, PTL

(***************************************************************************)
(* Whichever step raises and whichever process is killed, the published    *)
(* pack is whole in the target or in the backup that recovery restores.    *)
(***************************************************************************)
THEOREM PackStaysIntact == SwapSpec => []PublishedPackIntact
<1>1. SwapInv => PublishedPackIntact
  BY DEF SwapInv
<1> QED BY InvHolds, <1>1, PTL

(***************************************************************************)
(* _recover_projection_swap_anchored never raises on a state that a crash  *)
(* of a build, or of a recovery, can leave.                                *)
(***************************************************************************)
THEOREM RecoveryNeverRefuses == SwapSpec => []RecoveryAccepts
<1>1. SwapInv => RecoveryAccepts
  BY DEF SwapInv
<1> QED BY InvHolds, <1>1, PTL

(***************************************************************************)
(* A backup directory exists only while the swap journal names it.         *)
(***************************************************************************)
THEOREM BackupsStayJournaled == SwapSpec => []BackupsAreJournaled
<1>1. SwapInv => BackupsAreJournaled
  BY DEF SwapInv
<1> QED BY InvHolds, <1>1, PTL

-----------------------------------------------------------------------------
(***************************************************************************)
(* The sources.  Each check finds what the pack was built from, at a       *)
(* moment of its own window, and the histories only grow.                  *)
(***************************************************************************)

LEMMA SourceInit ==
  ASSUME SwapInit PROVE SourceInv /\ PublishedUnderItsSources
  BY DEF SwapInit, SourceInv, PublishedUnderItsSources, PublishedPack, PublishedTree, Exists

\* A step of a build that has not committed does not touch what is published.
LEMMA UncommittedKeeps ==
  ASSUME SwapInv, PublishedUnderItsSources, NEW b \in Builds, Build(b), ~Commit(b),
         pc[b] \in Uncommitted,
         \A c \in Builds \ {b} :
           built'[c] = built[c] /\ staged'[c] = staged[c] /\ shown'[c] = shown[c]
  PROVE  PublishedUnderItsSources'
<1>1. PublishedPack' = PublishedPack /\ PublishedPack # b
  BY OthersKeepPack, UncommittedUnpublished
<1>2. PublishedPack \in Builds \cup {NoPack}
  BY PublishedIsBuilt
<1> QED BY <1>1, <1>2 DEF PublishedUnderItsSources

LEMMA SourceStep ==
  ASSUME SwapInv, SourceInv, PublishedUnderItsSources, [SwapNext]_swapVars
  PROVE  SourceInv' /\ PublishedUnderItsSources'
<1> USE DEF SwapInv, histories
<1>0. /\ source \in Sources /\ built \in [Builds -> Sources]
      /\ staged \in [Builds -> SUBSET Sources] /\ shown \in [Builds -> SUBSET Sources]
      /\ pc \in [Builds -> {"READY"} \cup Running \cup Ended]
  BY DEF SwapTypeOK
<1>a. PublishedPack \in Builds \cup {NoPack}
  BY PublishedIsBuilt
<1>1. ASSUME NEW b \in Builds, VerifyContext(b)
      PROVE  SourceInv' /\ PublishedUnderItsSources'
  <2>1. SourceInv'
    BY <1>0, <1>1 DEF VerifyContext, Go, SourceInv
  <2>2. ~Commit(b) /\ pc[b] \in Uncommitted
    BY <1>1 DEF VerifyContext, Commit, At, Uncommitted, Unswapped, Unjournaled
  <2>3. \A c \in Builds \ {b} : built'[c] = built[c] /\ staged'[c] = staged[c] /\ shown'[c] = shown[c]
    BY <1>0, <1>1 DEF VerifyContext
  <2> QED BY <1>1, <2>1, <2>2, <2>3, UncommittedKeeps DEF Build
<1>2. ASSUME NEW b \in Builds, WritePack(b)
      PROVE  SourceInv' /\ PublishedUnderItsSources'
  <2>1. SourceInv'
    BY <1>0, <1>2 DEF WritePack, Go, SourceInv
  <2>2. ~Commit(b) /\ pc[b] \in Uncommitted
    BY <1>2 DEF WritePack, Commit, At, Uncommitted, Unswapped, Unjournaled
  <2>3. \A c \in Builds \ {b} : built'[c] = built[c] /\ staged'[c] = staged[c] /\ shown'[c] = shown[c]
    BY <1>0, <1>2 DEF WritePack
  <2> QED BY <1>2, <2>1, <2>2, <2>3, UncommittedKeeps DEF Build
<1>3. ASSUME NEW b \in Builds, Swap(b)
      PROVE  SourceInv' /\ PublishedUnderItsSources'
  <2>1. SourceInv'
    BY <1>0, <1>3 DEF Swap, At, Go, SourceInv
  <2>2. ~Commit(b) /\ pc[b] \in Uncommitted
    BY <1>3 DEF Swap, Commit, At, Uncommitted, Unswapped
  <2>3. \A c \in Builds \ {b} : built'[c] = built[c] /\ staged'[c] = staged[c] /\ shown'[c] = shown[c]
    BY <1>0, <1>3 DEF Swap
  <2> QED BY <1>3, <2>1, <2>2, <2>3, UncommittedKeeps DEF Build
<1>4. ASSUME NEW b \in Builds, Commit(b)
      PROVE  SourceInv' /\ PublishedUnderItsSources'
  <2>1. SourceInv'
    BY <1>0, <1>4 DEF Commit, At, Go, SourceInv
  <2> QED
    BY <1>4, <2>1, CommitPublishes DEF Commit, At, SourceInv, PublishedUnderItsSources
<1>5. ASSUME NEW b \in Builds, CheckSources(b) \/ VerifySwapped(b)
      PROVE  SourceInv'
  BY <1>0, <1>5 DEF CheckSources, VerifySwapped, Verified, At, Go, SourceInv
<1>6. ASSUME NEW b \in Builds,
             \/ Start(b) \/ Recover(b) \/ MakeTemporary(b) \/ CheckPayloads(b)
             \/ PrepareSwap(b) \/ BackupTarget(b) \/ RemoveBackup(b) \/ UnlinkJournal(b)
             \/ Return(b) \/ Handle(b) \/ Raise(b) \/ EndInError(b) \/ Kill(b)
      PROVE  SourceInv'
  <2> DEFINE Staged == {"PREPARE", "BACKUP", "SWAP", "VERIFY", "COMMIT", "CLEAN", "UNLINK", "RETURN"}
             Shown == {"COMMIT", "CLEAN", "UNLINK", "RETURN"}
  <2>1. /\ UNCHANGED <<source, built, staged, shown>>
        /\ \E step : pc' = [pc EXCEPT ![b] = step]
        /\ pc'[b] \in {"CHECK", "VERIFY"} => pc'[b] = pc[b]
        /\ pc'[b] \in Staged => pc[b] \in Staged
        /\ pc'[b] \in Shown => pc[b] \in Shown
    <3>1. CASE Start(b) \/ Return(b) \/ Raise(b) \/ EndInError(b) \/ Kill(b)
      BY <1>0, <1>6, <3>1 DEF Start, Return, Raise, EndInError, Kill, Go, Finish, At
    <3>2. CASE MakeTemporary(b) \/ CheckPayloads(b) \/ PrepareSwap(b) \/ BackupTarget(b) \/ RemoveBackup(b) \/ UnlinkJournal(b)
      BY <1>0, <1>6, <3>2
         DEF MakeTemporary, CheckPayloads, PrepareSwap, BackupTarget, RemoveBackup,
             UnlinkJournal, Go, At
    <3>3. CASE Recover(b) \/ Handle(b)
      BY <1>0, <1>6, <3>3 DEF Recover, Handle, RecoverStep
    <3> QED BY <1>6, <3>1, <3>2, <3>3
  <2> QED BY <1>0, <2>1 DEF SourceInv
<1>7. ASSUME NEW b \in Builds,
             Start(b) \/ Build(b) \/ Raise(b) \/ EndInError(b) \/ Kill(b),
             ~VerifyContext(b), ~WritePack(b), ~Swap(b), ~Commit(b)
      PROVE  SourceInv' /\ PublishedUnderItsSources'
  <2>1. SourceInv'
    BY <1>5, <1>6, <1>7 DEF Build
  <2>2. UNCHANGED <<built, staged, shown>>
    BY <1>7
       DEF Start, Build, Recover, MakeTemporary, CheckPayloads, CheckSources,
           PrepareSwap, BackupTarget, VerifySwapped, RemoveBackup, UnlinkJournal,
           Return, Handle, Raise, EndInError, Kill, RecoverStep
  <2>3. PublishedPack' = PublishedPack
    BY <1>7, OthersKeepPack
  <2> QED BY <2>1, <2>2, <2>3 DEF PublishedUnderItsSources
<1>8. CASE DriftSource
  <2>1. /\ \A c \in Builds : staged[c] \subseteq staged'[c] /\ shown[c] \subseteq shown'[c]
        /\ \A c \in Builds : pc[c] = "CHECK" => source' \in staged'[c]
        /\ \A c \in Builds : pc[c] = "VERIFY" => source' \in shown'[c]
        /\ UNCHANGED <<built, pc>>
    BY <1>8 DEF DriftSource, Grown
  <2>2. SourceInv'
    BY <2>1 DEF SourceInv
  <2>3. PublishedPack' = PublishedPack
    BY <1>8 DEF DriftSource, PublishedPack, PublishedTree, trees
  <2> QED BY <1>a, <2>1, <2>2, <2>3 DEF PublishedUnderItsSources
<1>9. CASE UNCHANGED swapVars
  BY <1>9
     DEF swapVars, SourceInv, PublishedUnderItsSources, PublishedPack, PublishedTree
<1> QED BY <1>1, <1>2, <1>3, <1>4, <1>7, <1>8, <1>9 DEF SwapNext

(***************************************************************************)
(* However the sources change and change back, a published pack was built  *)
(* from what they held at a moment before it became visible and at a       *)
(* moment after.                                                           *)
(***************************************************************************)
THEOREM PublishedUnderSources == SwapSpec => []PublishedUnderItsSources
  BY InvHolds, SourceInit, SourceStep, PTL DEF SwapSpec

-----------------------------------------------------------------------------
(***************************************************************************)
(* Refinement.                                                             *)
(***************************************************************************)

LEMMA SlotStarts == ASSUME SwapInit PROVE Slot!SlotInit
  BY DEF SwapInit, Slot!SlotInit, PublishedPack, PublishedTree, Exists, Outcome, Ended

LEMMA SlotSteps ==
  ASSUME SwapInv, [SwapNext]_swapVars
  PROVE  [Slot!SlotNext]_(Slot!slotVars)
<1> USE DEF SwapInv, histories
<1>0. pc \in [Builds -> {"READY"} \cup Running \cup Ended]
  BY DEF SwapTypeOK
<1>1. ASSUME NEW b \in Builds, Commit(b)
      PROVE  Slot!Publish(b)
  <2>1. PublishedPack # b
    BY <1>1, UncommittedUnpublished DEF Commit, At, Uncommitted
  <2>2. Outcome[b] = "OPEN" /\ Outcome' = Outcome
    BY <1>0, <1>1 DEF Commit, At, Go, Outcome, Ended
  <2> QED BY <1>1, <2>1, <2>2, CommitPublishes DEF Slot!Publish
<1>2. ASSUME NEW b \in Builds, Return(b)
      PROVE  Slot!Succeed(b)
  <2>1. PublishedPack = b
    BY <1>2, WholeTree DEF Return, At, StageInv, PublishedPack, PublishedTree, Exists
  <2>2. ~Commit(b)
    BY <1>2 DEF Return, Commit, At
  <2>3. PublishedPack' = PublishedPack
    BY <1>2, <2>2, OthersKeepPack DEF Build
  <2>4. Outcome[b] = "OPEN" /\ Outcome' = [Outcome EXCEPT ![b] = "SUCCESS"]
    BY <1>0, <1>2 DEF Return, At, Finish, Go, Outcome, Ended
  <2> QED BY <2>1, <2>3, <2>4 DEF Slot!Succeed
<1>3. ASSUME NEW b \in Builds, EndInError(b) \/ Kill(b)
      PROVE  Slot!GiveUp(b)
  <2>1. pc[b] \in Running
    BY <1>3 DEF EndInError, Kill, LockInv
  <2>2. \E result \in {"ERROR", "KILLED"} : pc' = [pc EXCEPT ![b] = result]
    BY <1>3 DEF EndInError, Kill, Finish, Go
  <2>3. /\ Outcome[b] = "OPEN"
        /\ \E result \in {"ERROR", "KILLED"} : Outcome' = [Outcome EXCEPT ![b] = result]
    BY <1>0, <2>1, <2>2 DEF Outcome, Ended, Running, Guarded
  <2>4. PublishedPack' = PublishedPack
    BY <1>3 DEF EndInError, Kill, PublishedPack, PublishedTree, trees
  <2> QED BY <2>3, <2>4 DEF Slot!GiveUp
<1>4. ASSUME NEW b \in Builds, Start(b) \/ Build(b) \/ Raise(b), ~Commit(b), ~Return(b)
      PROVE  UNCHANGED Slot!slotVars
  <2>1. /\ pc[b] \notin Ended
        /\ \E step : step \notin Ended /\ pc' = [pc EXCEPT ![b] = step]
    BY <1>0, <1>4
       DEF Start, Build, VerifyContext, Recover, MakeTemporary,
           CheckPayloads, WritePack, CheckSources, PrepareSwap, BackupTarget, Swap,
           VerifySwapped, RemoveBackup, UnlinkJournal, Handle, Raise, RecoverStep, At, Go, Ended, Guarded
  <2>2. Outcome' = Outcome
    BY <1>0, <2>1 DEF Outcome
  <2> QED BY <1>4, <2>2, OthersKeepPack DEF Slot!slotVars
<1>5. CASE DriftSource \/ UNCHANGED swapVars
  BY <1>5
     DEF DriftSource, swapVars, trees, Slot!slotVars, Outcome, PublishedPack,
         PublishedTree
<1> QED BY <1>1, <1>2, <1>3, <1>4, <1>5 DEF SwapNext, Slot!SlotNext

(***************************************************************************)
(* The swap implements the slot: a pack is published by one step, a        *)
(* reported success is of the published pack, and recovery publishes       *)
(* nothing and takes nothing back.                                         *)
(***************************************************************************)
THEOREM SwapImplementsSlot == SwapSpec => ImplementsSlot
  BY InvHolds, SlotStarts, SlotSteps, PTL DEF SwapSpec, ImplementsSlot, Slot!SlotSpec
=============================================================================
