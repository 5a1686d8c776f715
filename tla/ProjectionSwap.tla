--------------------------- MODULE ProjectionSwap ---------------------------
(***************************************************************************)
(* Building a projection pack, projection.py: the pack is written beside   *)
(* its target and swapped in by two renames, under a process lock and a    *)
(* journal that a later build recovers from.  A build can raise at any     *)
(* step, also inside its own clean-up, and its process can be killed       *)
(* between any two file operations or in the middle of a removal.          *)
(*                                                                         *)
(* AnchoredRoot syncs the directory inside each of its operations, so that *)
(* an operation is durable before the next one begins: what a loss of      *)
(* power leaves is what a kill before or after the operation leaves.       *)
(*                                                                         *)
(* Each call of build_projection_pack has a random token of its own, which *)
(* names its temporary and its backup directory; a build is its token and  *)
(* the pack it builds.                                                     *)
(*                                                                         *)
(* The external sources are followed one at a time: `source' is what one   *)
(* of them holds, which a verification session reads once in each check    *)
(* and compares with what the build started from.  A source may return to  *)
(* a value that it held before, which no check can notice.                 *)
(***************************************************************************)
EXTENDS Naturals

CONSTANTS
  Builds,      \* the calls of build_projection_pack for one target
  NoBuild,     \* nobody holds the process lock
  NoTree,      \* a directory that is absent
  NoPack,      \* no pack was published yet
  NoJournal,   \* no swap is in progress
  Sources,     \* what an external source may hold
  MaxDrift     \* bound on the changes of the external sources

ASSUME NamesAssumption ==
  /\ NoBuild \notin Builds
  /\ NoPack \notin Builds
  /\ NoTree \notin [pack : Builds, whole : BOOLEAN]
  /\ NoJournal \notin [phase : {"PREPARED", "COMMITTED"}, token : Builds, hadTarget : BOOLEAN]
  /\ MaxDrift \in Nat

VARIABLES
  target,      \* the canonical pack directory
  temporary,   \* the directory .<name>.tmp-<token> of each build
  backup,      \* the directory .<name>.backup-<token> of each build
  journal,     \* the file .<name>.swap-transaction.json
  holder,      \* the build that holds the process lock
  pc,          \* where each build is
  source,      \* what the external source holds
  built,       \* what each build verified first

  \* Histories, which the program does not keep.
  staged,      \* what the source held between the last write of each build's
               \* pack and the rename that made it the target
  shown,       \* what it held between that rename and the commit
  drifts       \* how often it changed

trees == <<target, temporary, backup>>
histories == <<staged, shown, drifts>>
swapVars == <<target, temporary, backup, journal, holder, pc, source, built, histories>>

-----------------------------------------------------------------------------
Trees == [pack : Builds, whole : BOOLEAN]

Journals == [phase : {"PREPARED", "COMMITTED"}, token : Builds, hadTarget : BOOLEAN]

Ended == {"SUCCESS", "ERROR", "KILLED"}

\* Inside the try block: an exception runs the handler.
Guarded == {"RENDER", "WRITE", "CHECK", "PREPARE", "BACKUP", "SWAP", "VERIFY", "COMMIT", "CLEAN",
            "UNLINK", "RETURN"}

Running == {"BEGIN", "RECOVER", "HANDLER"} \cup Guarded

(***************************************************************************)
(* The type invariant.                                                     *)
(***************************************************************************)
SwapTypeOK ==
  /\ target \in Trees \cup {NoTree}
  /\ temporary \in [Builds -> Trees \cup {NoTree}]
  /\ backup \in [Builds -> Trees \cup {NoTree}]
  /\ journal \in Journals \cup {NoJournal}
  /\ holder \in Builds \cup {NoBuild}
  /\ pc \in [Builds -> {"READY"} \cup Running \cup Ended]
  /\ source \in Sources
  /\ built \in [Builds -> Sources]
  /\ staged \in [Builds -> SUBSET Sources]
  /\ shown \in [Builds -> SUBSET Sources]
  /\ drifts \in 0..MaxDrift

Exists(tree) == tree # NoTree

Whole(b) == [pack |-> b, whole |-> TRUE]
Torn(tree) == [tree EXCEPT !.whole = FALSE]

\* remove_tree deletes file by file: it tears the tree, then it is gone.
Removal(tree) == IF tree.whole THEN {Torn(tree), NoTree} ELSE {NoTree}

At(b, step) == holder = b /\ pc[b] = step

Go(b, step) == pc' = [pc EXCEPT ![b] = step]

\* The call ends and the process lock is released.
Finish(b, result) == Go(b, result) /\ holder' = NoBuild

-----------------------------------------------------------------------------
(***************************************************************************)
(* _recover_projection_swap_anchored.  Every file operation of the code    *)
(* leads to a state in which the same code, run from its beginning, goes   *)
(* on with the operation that follows, so that recovery is the repetition  *)
(* of the one operation that is due.                                       *)
(***************************************************************************)

\* Mutant: the phase is not looked at while there is a backup.
RecoverCommittedBack ==
  /\ journal.phase = "COMMITTED"
  /\ Exists(backup[journal.token])
  /\ target' = backup[journal.token]
  /\ backup' = [backup EXCEPT ![journal.token] = NoTree]
  /\ UNCHANGED temporary

\* The swap was committed: drop the backup.
RecoverCommitted ==
  /\ journal.phase = "COMMITTED"
  /\ Exists(target)
  /\ ~Exists(temporary[journal.token])
  /\ Exists(backup[journal.token])
  /\ \E rest \in Removal(backup[journal.token]) :
       backup' = [backup EXCEPT ![journal.token] = rest]
  /\ UNCHANGED <<target, temporary>>

\* Mutant: a target in place is taken for the restored one.
RestoreBackupOnlyIfMissing ==
  /\ journal.phase = "PREPARED"
  /\ journal.hadTarget
  /\ Exists(backup[journal.token])
  /\ IF Exists(target)
     THEN /\ \E rest \in Removal(backup[journal.token]) :
               backup' = [backup EXCEPT ![journal.token] = rest]
          /\ UNCHANGED <<target, temporary>>
     ELSE /\ target' = backup[journal.token]
          /\ backup' = [backup EXCEPT ![journal.token] = NoTree]
          /\ UNCHANGED temporary

\* It was not, and there was a pack before: put that one back.
RestoreBackup ==
  /\ journal.phase = "PREPARED"
  /\ journal.hadTarget
  /\ Exists(backup[journal.token])
  /\ IF Exists(target)
     THEN /\ target' \in Removal(target)
          /\ UNCHANGED <<temporary, backup>>
     ELSE /\ target' = backup[journal.token]
          /\ backup' = [backup EXCEPT ![journal.token] = NoTree]
          /\ UNCHANGED temporary

\* It was not, and there was none before: remove what was put there.
RemoveTarget ==
  /\ journal.phase = "PREPARED"
  /\ ~journal.hadTarget
  /\ ~Exists(backup[journal.token])
  /\ Exists(target)
  /\ target' \in Removal(target)
  /\ UNCHANGED <<temporary, backup>>

\* Nothing is left to do for the target.
TargetSettled ==
  /\ ~Exists(backup[journal.token])
  /\ IF journal.phase = "COMMITTED" \/ journal.hadTarget
     THEN Exists(target) ELSE ~Exists(target)

RemoveTemporary ==
  /\ journal.phase = "PREPARED"
  /\ TargetSettled
  /\ Exists(temporary[journal.token])
  /\ \E rest \in Removal(temporary[journal.token]) :
       temporary' = [temporary EXCEPT ![journal.token] = rest]
  /\ UNCHANGED <<target, backup>>

\* Everything is in place: the journal goes last.
RecoverySettled == TargetSettled /\ ~Exists(temporary[journal.token])

RecoverStep(b) ==
  /\ journal # NoJournal
  /\ \/ /\ RecoverCommitted \/ RestoreBackup \/ RemoveTarget \/ RemoveTemporary
        /\ UNCHANGED journal
     \/ /\ RecoverySettled
        /\ journal' = NoJournal
        /\ UNCHANGED trees
  /\ UNCHANGED <<holder, pc, source, built, histories>>

-----------------------------------------------------------------------------
(***************************************************************************)
(* build_projection_pack.                                                  *)
(***************************************************************************)

\* _verify_external_source_snapshot.
Verified(b) == built[b] = source

\* The process lock does not wait: a second builder is refused.
Start(b) ==
  /\ pc[b] = "READY"
  /\ holder = NoBuild
  /\ holder' = b
  /\ Go(b, "BEGIN")
  /\ UNCHANGED <<trees, journal, source, built, histories>>

\* verify_capability_lock_context: the sources as the build will use them.
VerifyContext(b) ==
  /\ At(b, "BEGIN")
  /\ built' = [built EXCEPT ![b] = source]
  /\ Go(b, "RECOVER")
  /\ UNCHANGED <<trees, journal, holder, source, histories>>

\* Recovery of whatever an earlier build left.
Recover(b) == At(b, "RECOVER") /\ RecoverStep(b)

MakeTemporary(b) ==
  /\ At(b, "RECOVER")
  /\ journal = NoJournal
  /\ temporary' = [temporary EXCEPT ![b] = Torn(Whole(b))]
  /\ Go(b, "RENDER")
  /\ UNCHANGED <<target, backup, journal, holder, source, built, histories>>

\* The payloads are rendered from the verified sources, which are looked at
\* again.
CheckPayloads(b) ==
  /\ At(b, "RENDER")
  /\ Verified(b)
  /\ Go(b, "WRITE")
  /\ UNCHANGED <<trees, journal, holder, source, built, histories>>

\* They are written file by file.
WritePack(b) ==
  /\ At(b, "WRITE")
  /\ temporary' = [temporary EXCEPT ![b] = Whole(b)]
  /\ staged' = [staged EXCEPT ![b] = {source}]
  /\ Go(b, "CHECK")
  /\ UNCHANGED <<target, backup, journal, holder, source, built, shown, drifts>>

\* Mutant: the payloads were checked already.
CheckSourcesSkipped(b) ==
  /\ At(b, "CHECK")
  /\ Go(b, "PREPARE")
  /\ UNCHANGED <<trees, journal, holder, source, built, histories>>

\* The last look at the sources before the swap.
CheckSources(b) ==
  /\ At(b, "CHECK")
  /\ Verified(b)
  /\ Go(b, "PREPARE")
  /\ UNCHANGED <<trees, journal, holder, source, built, histories>>

\* Mutant: the journal does not tell whether there was a pack to restore.
PrepareSwapBlind(b) ==
  /\ At(b, "PREPARE")
  /\ journal' = [phase |-> "PREPARED", token |-> b, hadTarget |-> FALSE]
  /\ Go(b, IF Exists(target) THEN "BACKUP" ELSE "SWAP")
  /\ UNCHANGED <<trees, holder, source, built, histories>>

PrepareSwap(b) ==
  /\ At(b, "PREPARE")
  /\ journal' = [phase |-> "PREPARED", token |-> b, hadTarget |-> Exists(target)]
  /\ Go(b, IF Exists(target) THEN "BACKUP" ELSE "SWAP")
  /\ UNCHANGED <<trees, holder, source, built, histories>>

BackupTarget(b) ==
  /\ At(b, "BACKUP")
  /\ backup' = [backup EXCEPT ![b] = target]
  /\ target' = NoTree
  /\ Go(b, "SWAP")
  /\ UNCHANGED <<temporary, journal, holder, source, built, histories>>

Swap(b) ==
  /\ At(b, "SWAP")
  /\ target' = temporary[b]
  /\ temporary' = [temporary EXCEPT ![b] = NoTree]
  /\ shown' = [shown EXCEPT ![b] = {source}]
  /\ Go(b, "VERIFY")
  /\ UNCHANGED <<backup, journal, holder, source, built, staged, drifts>>

\* Mutant: the sources are not looked at again after the swap.
VerifySwappedSkipped(b) ==
  /\ At(b, "VERIFY")
  /\ Go(b, "COMMIT")
  /\ UNCHANGED <<trees, journal, holder, source, built, histories>>

VerifySwapped(b) ==
  /\ At(b, "VERIFY")
  /\ Verified(b)
  /\ Go(b, "COMMIT")
  /\ UNCHANGED <<trees, journal, holder, source, built, histories>>

Commit(b) ==
  /\ At(b, "COMMIT")
  /\ journal' = [journal EXCEPT !.phase = "COMMITTED"]
  /\ Go(b, "CLEAN")
  /\ UNCHANGED <<trees, holder, source, built, histories>>

RemoveBackup(b) ==
  /\ At(b, "CLEAN")
  /\ IF Exists(backup[b])
     THEN /\ \E rest \in Removal(backup[b]) : backup' = [backup EXCEPT ![b] = rest]
          /\ UNCHANGED pc
     ELSE Go(b, "UNLINK") /\ UNCHANGED backup
  /\ UNCHANGED <<target, temporary, journal, holder, source, built, histories>>

UnlinkJournal(b) ==
  /\ At(b, "UNLINK")
  /\ journal' = NoJournal
  /\ Go(b, "RETURN")
  /\ UNCHANGED <<trees, holder, source, built, histories>>

Return(b) ==
  /\ At(b, "RETURN")
  /\ Finish(b, "SUCCESS")
  /\ UNCHANGED <<trees, journal, source, built, histories>>

\* A step raises inside the try block: the sources drifted, or a system call
\* failed, before or after it had its effect.
Raise(b) ==
  /\ holder = b
  /\ pc[b] \in Guarded
  /\ Go(b, "HANDLER")
  /\ UNCHANGED <<trees, journal, holder, source, built, histories>>

\* The handler recovers from the journal if there is one, and otherwise only
\* removes its own temporary directory.
Handle(b) ==
  /\ At(b, "HANDLER")
  /\ \/ RecoverStep(b)
     \/ /\ journal = NoJournal
        /\ Exists(temporary[b])
        /\ \E rest \in Removal(temporary[b]) : temporary' = [temporary EXCEPT ![b] = rest]
        /\ UNCHANGED <<target, backup, journal, holder, pc, source, built, histories>>

\* The handler raises the exception again, or an exception of its own; before
\* the try block, the creation of the temporary directory included, there is
\* no handler.
EndInError(b) ==
  /\ holder = b
  /\ pc[b] \in {"BEGIN", "RECOVER", "RENDER", "HANDLER"}
  /\ Finish(b, "ERROR")
  /\ UNCHANGED <<trees, journal, source, built, histories>>

\* The process is killed: the operating system releases its lock.
Kill(b) ==
  /\ holder = b
  /\ Finish(b, "KILLED")
  /\ UNCHANGED <<trees, journal, source, built, histories>>

\* The history of a build's window: while the build is at one of the steps,
\* it grows with every value.
Grown(history, steps, value) ==
  [b \in Builds |-> IF pc[b] \in steps THEN history[b] \cup {value} ELSE history[b]]

\* External: a registered source changes, or changes back.
DriftSource ==
  /\ drifts < MaxDrift
  /\ drifts' = drifts + 1
  /\ source' \in Sources \ {source}
  /\ staged' = Grown(staged, {"CHECK", "PREPARE", "BACKUP", "SWAP"}, source')
  /\ shown' = Grown(shown, {"VERIFY", "COMMIT"}, source')
  /\ UNCHANGED <<trees, journal, holder, pc, built>>

-----------------------------------------------------------------------------
SwapInit ==
  /\ target = NoTree
  /\ temporary = [b \in Builds |-> NoTree]
  /\ backup = [b \in Builds |-> NoTree]
  /\ journal = NoJournal
  /\ holder = NoBuild
  /\ pc = [b \in Builds |-> "READY"]
  /\ source \in Sources
  /\ built = [b \in Builds |-> source]
  /\ staged = [b \in Builds |-> {}]
  /\ shown = [b \in Builds |-> {}]
  /\ drifts = 0

Build(b) ==
  \/ VerifyContext(b) \/ Recover(b) \/ MakeTemporary(b) \/ CheckPayloads(b)
  \/ WritePack(b) \/ CheckSources(b) \/ PrepareSwap(b) \/ BackupTarget(b) \/ Swap(b)
  \/ VerifySwapped(b) \/ Commit(b) \/ RemoveBackup(b) \/ UnlinkJournal(b) \/ Return(b) \/ Handle(b)

SwapNext ==
  \/ DriftSource
  \/ \E b \in Builds : Start(b) \/ Build(b) \/ Raise(b) \/ EndInError(b) \/ Kill(b)

SwapSpec == SwapInit /\ [][SwapNext]_swapVars

-----------------------------------------------------------------------------
(***************************************************************************)
(* Properties.                                                             *)
(***************************************************************************)

\* The tree that stands, or that recovery will put back.
PublishedTree ==
  IF journal = NoJournal \/ (journal # NoJournal /\ journal.phase = "COMMITTED") THEN target
  ELSE IF ~journal.hadTarget THEN NoTree
  ELSE IF Exists(backup[journal.token]) THEN backup[journal.token]
  ELSE target

PublishedPack == IF Exists(PublishedTree) THEN PublishedTree.pack ELSE NoPack

Outcome == [b \in Builds |-> IF pc[b] \in Ended THEN pc[b] ELSE "OPEN"]

Slot == INSTANCE PackSlot WITH slot <- PublishedPack, outcome <- Outcome

(***************************************************************************)
(* The swap implements the slot: whatever raises and whoever is killed,    *)
(* packs are published by one step (the COMMITTED journal), a reported     *)
(* success is of the published pack, and recovery by a later build never   *)
(* publishes or takes back what an ended build left.                       *)
(***************************************************************************)
ImplementsSlot == Slot!SlotSpec

(***************************************************************************)
(* The published pack is never a torn one: every file of it is in the      *)
(* target or in the backup that recovery restores, at every moment.        *)
(***************************************************************************)
PublishedPackIntact == Exists(PublishedTree) => PublishedTree.whole

(***************************************************************************)
(* Recovery never refuses a state that a crash can leave ("swap state is   *)
(* inconsistent", "cannot restore its original target", "unexpected        *)
(* backup"): the project can always be built again.                        *)
(***************************************************************************)
RecoveryAccepts ==
  journal # NoJournal =>
    LET t == journal.token IN
    IF journal.phase = "COMMITTED" THEN Exists(target) /\ ~Exists(temporary[t])
    ELSE IF journal.hadTarget THEN Exists(backup[t]) \/ Exists(target)
    ELSE ~Exists(backup[t])

(***************************************************************************)
(* No backup is orphaned: a backup directory exists only while the journal *)
(* names it, so some recovery will restore or remove it.                   *)
(***************************************************************************)
BackupsAreJournaled ==
  \A b \in Builds :
    Exists(backup[b]) => journal # NoJournal /\ journal.token = b

(***************************************************************************)
(* The published pack is vouched for on both sides of its rename: at a     *)
(* moment after its last file was written and before it became visible,    *)
(* and at a moment after it became visible and before it was published,    *)
(* the source held what the pack was built from.  No more is true: a       *)
(* source that changes and changes back around the rename is not noticed.  *)
(***************************************************************************)
PublishedUnderItsSources ==
  PublishedPack # NoPack =>
    /\ built[PublishedPack] \in staged[PublishedPack]
    /\ built[PublishedPack] \in shown[PublishedPack]
=============================================================================
