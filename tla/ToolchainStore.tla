---------------------------- MODULE ToolchainStore ----------------------------
(***************************************************************************)
(* provision_toolchain, toolchain_provisioning.py: processes extract the   *)
(* same artifact side by side, publish it once in the managed store by a   *)
(* rename, and write the host's binding record by a replace that is        *)
(* verified afterwards and withdrawn on failure.  There is no lock.        *)
(* System calls fail, processes are killed and the host loses power        *)
(* between any two of them.                                                *)
(*                                                                         *)
(* A run is a process and its number: it stands for the inodes the run     *)
(* makes and for the explicit paths it binds.                              *)
(***************************************************************************)
EXTENDS Naturals

CONSTANTS
  Hosts,       \* processes that provision
  MaxRuns,     \* bound on the runs of a process
  MaxLosses,   \* bound on power losses
  NoStore,     \* nothing under the content-addressed name
  NoBinding,   \* no binding record
  NoRun        \* no run

Runs == Hosts \X (1..MaxRuns)
Trees == [by : Runs, data : {"PART", "WHOLE", "SEALED"}]

ASSUME ToolchainAssumption ==
  /\ MaxRuns \in Nat
  /\ MaxLosses \in Nat
  /\ NoStore \notin Trees
  /\ {NoBinding, NoRun} \cap Runs = {}

VARIABLES
  store,          \* the tree under the final name, as seen
  storeSynced,    \* the same as synced
  stage,          \* the temporary tree of each process
  binding,        \* the run whose record is the binding, as seen
  bindingSynced,  \* the same as synced
  revoked,        \* the records whose mode was set to 000
  at,             \* where each process is
  runs,           \* how many runs each has begun
  opened,         \* the run that made the store it holds open
  loaded,         \* the run whose record it loaded and verified
  outcome,        \* how its last run ended: "ERROR" when an error was raised before
                  \* the record was in place or after it was withdrawn, "LEFT" when
                  \* one was raised that says nothing of the record
  losses          \* how often power was lost

storeVars == <<store, storeSynced, stage>>
bindingVars == <<binding, bindingSynced, revoked>>
toolchainVars == <<storeVars, bindingVars, at, runs, opened, loaded, outcome, losses>>

-----------------------------------------------------------------------------
\* Before the record is put in place, while it is being confirmed, and while it
\* is withdrawn.
Preparing == {"STAGE", "EXTRACT", "SEAL", "LOOK", "COMPARE", "RENAME", "SYNC_STORE", "VERIFY", "WRITE",
              "PUBLIC"}
Confirming == {"CONFIRM", "SYNC_BINDING", "LOAD", "RECONFIRM", "PUBLIC_AGAIN"}
Withdrawing == {"REVOKE", "LOOK_BACK", "UNLINK", "SYNC_BACK"}

(***************************************************************************)
(* The type invariant, and that a process binds a store it holds open.     *)
(***************************************************************************)
ToolchainTypeOK ==
  /\ store \in Trees \cup {NoStore}
  /\ storeSynced \in Trees \cup {NoStore}
  /\ stage \in [Hosts -> {"NONE", "PART", "WHOLE", "SEALED"}]
  /\ binding \in Runs \cup {NoBinding}
  /\ bindingSynced \in Runs \cup {NoBinding}
  /\ revoked \in SUBSET Runs
  /\ at \in [Hosts -> {"IDLE", "REPLACE", "CLEAN"} \cup Preparing \cup Confirming \cup Withdrawing]
  /\ runs \in [Hosts -> 0..MaxRuns]
  /\ opened \in [Hosts -> Runs \cup {NoRun}]
  /\ loaded \in [Hosts -> Runs \cup {NoRun}]
  /\ outcome \in [Hosts -> {"NONE", "OK", "ERROR", "LEFT", "UNPROVEN", "KILLED"}]
  /\ losses \in 0..MaxLosses
  /\ \A p \in Hosts :
       at[p] \in {"VERIFY", "WRITE", "PUBLIC", "REPLACE"} \cup Confirming => opened[p] \in Runs

ToolchainInit ==
  /\ store = NoStore
  /\ storeSynced = NoStore
  /\ stage = [p \in Hosts |-> "NONE"]
  /\ binding = NoBinding
  /\ bindingSynced = NoBinding
  /\ revoked = {}
  /\ at = [p \in Hosts |-> "IDLE"]
  /\ runs = [p \in Hosts |-> 0]
  /\ opened = [p \in Hosts |-> NoRun]
  /\ loaded = [p \in Hosts |-> NoRun]
  /\ outcome = [p \in Hosts |-> "NONE"]
  /\ losses = 0

Run(p) == <<p, runs[p]>>
Go(p, step) == at' = [at EXCEPT ![p] = step]
Result(p, r) == outcome' = [outcome EXCEPT ![p] = r]

-----------------------------------------------------------------------------
(***************************************************************************)
(* The store.                                                              *)
(***************************************************************************)

\* The archive was read and has the pinned digest: a fresh temporary directory
\* is made.
StageArchive(p) ==
  /\ at[p] = "IDLE"
  /\ runs[p] < MaxRuns
  /\ runs' = [runs EXCEPT ![p] = @ + 1]
  /\ opened' = [opened EXCEPT ![p] = NoRun]
  /\ loaded' = [loaded EXCEPT ![p] = NoRun]
  /\ Result(p, "NONE")
  /\ Go(p, "STAGE")
  /\ UNCHANGED <<storeVars, bindingVars, losses>>

\* The store's directory is synced, with whatever another process has renamed
\* into it, and the temporary directory is opened: from now on the run can
\* remove it.
OpenStage(p) ==
  /\ at[p] = "STAGE"
  /\ storeSynced' = store
  /\ stage' = [stage EXCEPT ![p] = "PART"]
  /\ Go(p, "EXTRACT")
  /\ UNCHANGED <<store, bindingVars, runs, opened, loaded, outcome, losses>>

\* _extract_archive writes and syncs every member, and the commands are verified.
Extract(p) ==
  /\ at[p] = "EXTRACT"
  /\ stage' = [stage EXCEPT ![p] = "WHOLE"]
  /\ Go(p, "SEAL")
  /\ UNCHANGED <<store, storeSynced, bindingVars, runs, opened, loaded, outcome, losses>>

\* Mutant: the tree is neither made read-only nor are its directories synced.
SealSkipped(p) ==
  /\ at[p] = "SEAL"
  /\ Go(p, "LOOK")
  /\ UNCHANGED <<storeVars, bindingVars, runs, opened, loaded, outcome, losses>>

\* _make_tree_read_only, and the commands are verified once more.
Seal(p) ==
  /\ at[p] = "SEAL"
  /\ stage' = [stage EXCEPT ![p] = "SEALED"]
  /\ Go(p, "LOOK")
  /\ UNCHANGED <<store, storeSynced, bindingVars, runs, opened, loaded, outcome, losses>>

\* _publish_store: is there a store already?
Look(p) ==
  /\ at[p] = "LOOK"
  /\ Go(p, IF store = NoStore THEN "RENAME" ELSE "COMPARE")
  /\ UNCHANGED <<storeVars, bindingVars, runs, opened, loaded, outcome, losses>>

\* The store that is there has the identity of the temporary tree: it is reused.
Compare(p) ==
  /\ at[p] = "COMPARE"
  /\ store.data = stage[p]
  /\ opened' = [opened EXCEPT ![p] = store.by]
  /\ Go(p, "VERIFY")
  /\ UNCHANGED <<storeVars, bindingVars, runs, loaded, outcome, losses>>

\* The rename does not replace a directory that has entries: if another process
\* was faster, it fails.
Rename(p) ==
  /\ at[p] = "RENAME"
  /\ store = NoStore
  /\ store' = [by |-> Run(p), data |-> stage[p]]
  /\ stage' = [stage EXCEPT ![p] = "NONE"]
  /\ opened' = [opened EXCEPT ![p] = Run(p)]
  /\ Go(p, "SYNC_STORE")
  /\ UNCHANGED <<storeSynced, bindingVars, runs, loaded, outcome, losses>>

SyncStore(p) ==
  /\ at[p] = "SYNC_STORE"
  /\ storeSynced' = store
  /\ Go(p, "VERIFY")
  /\ UNCHANGED <<store, stage, bindingVars, runs, opened, loaded, outcome, losses>>

\* verify_profile_toolchain, with the record that is about to be written.
Verify(p) ==
  /\ at[p] = "VERIFY"
  /\ store # NoStore
  /\ Go(p, "WRITE")
  /\ UNCHANGED <<storeVars, bindingVars, runs, opened, loaded, outcome, losses>>

-----------------------------------------------------------------------------
(***************************************************************************)
(* The binding: _write_binding.                                            *)
(***************************************************************************)

\* The record is written and synced under a temporary name.
WriteRecord(p) ==
  /\ at[p] = "WRITE"
  /\ Go(p, "PUBLIC")
  /\ UNCHANGED <<storeVars, bindingVars, runs, opened, loaded, outcome, losses>>

\* _require_public_store_identity: the name still leads to the store held open.
StoreIsPublic(p) == store # NoStore /\ store.by = opened[p]

CheckPublic(p) ==
  /\ at[p] = "PUBLIC"
  /\ StoreIsPublic(p)
  /\ Go(p, "REPLACE")
  /\ UNCHANGED <<storeVars, bindingVars, runs, opened, loaded, outcome, losses>>

\* Whatever binding there was is gone.
Replace(p) ==
  /\ at[p] = "REPLACE"
  /\ binding' = Run(p)
  /\ Go(p, "CONFIRM")
  /\ UNCHANGED <<storeVars, bindingSynced, revoked, runs, opened, loaded, outcome, losses>>

\* The name leads to the record of this run.
Confirm(p) ==
  /\ at[p] = "CONFIRM"
  /\ binding = Run(p)
  /\ Go(p, "SYNC_BINDING")
  /\ UNCHANGED <<storeVars, bindingVars, runs, opened, loaded, outcome, losses>>

SyncBinding(p) ==
  /\ at[p] = "SYNC_BINDING"
  /\ bindingSynced' = binding
  /\ Go(p, "LOAD")
  /\ UNCHANGED <<storeVars, binding, revoked, runs, opened, loaded, outcome, losses>>

\* verify_installed loads the record that is there, which may be another run's.
LoadInstalled(p) ==
  /\ at[p] = "LOAD"
  /\ binding \in Runs \ revoked
  /\ store # NoStore
  /\ loaded' = [loaded EXCEPT ![p] = binding]
  /\ Go(p, "RECONFIRM")
  /\ UNCHANGED <<storeVars, bindingVars, runs, opened, outcome, losses>>

\* Mutant: the record is not compared again after it was loaded.
ReconfirmSkipped(p) ==
  /\ at[p] = "RECONFIRM"
  /\ Go(p, "PUBLIC_AGAIN")
  /\ UNCHANGED <<storeVars, bindingVars, runs, opened, loaded, outcome, losses>>

Reconfirm(p) ==
  /\ at[p] = "RECONFIRM"
  /\ binding = Run(p)
  /\ Go(p, "PUBLIC_AGAIN")
  /\ UNCHANGED <<storeVars, bindingVars, runs, opened, loaded, outcome, losses>>

Succeed(p) ==
  /\ at[p] = "PUBLIC_AGAIN"
  /\ StoreIsPublic(p)
  /\ Result(p, "OK")
  /\ Go(p, "CLEAN")
  /\ UNCHANGED <<storeVars, bindingVars, runs, opened, loaded, losses>>

-----------------------------------------------------------------------------
(***************************************************************************)
(* Failure and _rollback_binding.                                          *)
(***************************************************************************)

\* A call or a check fails before the record is in place.
FailEarly(p) ==
  /\ at[p] \in Preparing \cup {"REPLACE"}
  /\ Result(p, "ERROR")
  /\ Go(p, "CLEAN")
  /\ UNCHANGED <<storeVars, bindingVars, runs, opened, loaded, losses>>

\* A call or a check fails when the record is in place, or was, and the name of
\* the record is looked at before the rollback.
FailLate(p) ==
  /\ at[p] \in Confirming
  /\ Go(p, "REVOKE")
  /\ UNCHANGED <<storeVars, bindingVars, runs, opened, loaded, outcome, losses>>

\* That look fails too.  It is not inside the rollback's own try block: its error
\* leaves _write_binding, and nothing is rolled back.
FailLook(p) ==
  /\ at[p] \in Confirming
  /\ Result(p, "LEFT")
  /\ Go(p, "CLEAN")
  /\ UNCHANGED <<storeVars, bindingVars, runs, opened, loaded, losses>>

\* The record's own inode is made unreadable; a failure to do so is ignored.
Revoke(p) ==
  /\ at[p] = "REVOKE"
  /\ revoked' \in {revoked, revoked \cup {Run(p)}}
  /\ Go(p, "LOOK_BACK")
  /\ UNCHANGED <<storeVars, binding, bindingSynced, runs, opened, loaded, outcome, losses>>

LookBack(p) ==
  /\ at[p] = "LOOK_BACK"
  /\ \/ binding = NoBinding /\ Go(p, "SYNC_BACK") /\ UNCHANGED outcome
     \/ binding = Run(p) /\ Go(p, "UNLINK") /\ UNCHANGED outcome
     \/ binding \notin {NoBinding, Run(p)} /\ Result(p, "UNPROVEN") /\ Go(p, "CLEAN")
  /\ UNCHANGED <<storeVars, bindingVars, runs, opened, loaded, losses>>

\* The name is removed, whoever's record is under it by now.
Unlink(p) ==
  /\ at[p] = "UNLINK"
  /\ binding # NoBinding
  /\ binding' = NoBinding
  /\ Go(p, "SYNC_BACK")
  /\ UNCHANGED <<storeVars, bindingSynced, revoked, runs, opened, loaded, outcome, losses>>

\* Mutant: the withdrawal is not synced.
SyncBackSkipped(p) ==
  /\ at[p] = "SYNC_BACK"
  /\ Result(p, "ERROR")
  /\ Go(p, "CLEAN")
  /\ UNCHANGED <<storeVars, bindingVars, runs, opened, loaded, losses>>

SyncBack(p) ==
  /\ at[p] = "SYNC_BACK"
  /\ bindingSynced' = binding
  /\ Result(p, "ERROR")
  /\ Go(p, "CLEAN")
  /\ UNCHANGED <<storeVars, binding, revoked, runs, opened, loaded, losses>>

\* The name is found gone or taken again, or a call fails: not proven.
FailBack(p) ==
  /\ at[p] \in {"LOOK_BACK", "UNLINK", "SYNC_BACK"}
  /\ Result(p, "UNPROVEN")
  /\ Go(p, "CLEAN")
  /\ UNCHANGED <<storeVars, bindingVars, runs, opened, loaded, losses>>

\* Mutant: the removal of the temporary tree is not synced.
CleanUnsynced(p) ==
  /\ at[p] = "CLEAN"
  /\ stage' = [stage EXCEPT ![p] = "NONE"]
  /\ Go(p, "IDLE")
  /\ UNCHANGED <<store, storeSynced, bindingVars, runs, opened, loaded, outcome, losses>>

\* The temporary record and the temporary tree are removed.  A run that renamed
\* its tree has none any more; the removal of a tree syncs the store's directory.
Clean(p) ==
  /\ at[p] = "CLEAN"
  /\ stage' = [stage EXCEPT ![p] = "NONE"]
  /\ storeSynced' = IF stage[p] = "NONE" THEN storeSynced ELSE store
  /\ Go(p, "IDLE")
  /\ UNCHANGED <<store, bindingVars, runs, opened, loaded, outcome, losses>>

\* A removal fails, before or after the directory was synced: its error takes
\* the place of the run's success, and of the report of a rollback not proven.
CleanFails(p) ==
  /\ at[p] = "CLEAN"
  /\ stage' = [stage EXCEPT ![p] = "NONE"]
  /\ storeSynced' \in {storeSynced, store}
  /\ Result(p, IF outcome[p] = "ERROR" THEN "ERROR" ELSE "LEFT")
  /\ Go(p, "IDLE")
  /\ UNCHANGED <<store, bindingVars, runs, opened, loaded, losses>>

-----------------------------------------------------------------------------
(***************************************************************************)
(* Faults.                                                                 *)
(***************************************************************************)

\* The process is killed; its temporary names are never used again.
Kill(p) ==
  /\ at[p] # "IDLE"
  /\ stage' = [stage EXCEPT ![p] = "NONE"]
  /\ Result(p, "KILLED")
  /\ Go(p, "IDLE")
  /\ UNCHANGED <<store, storeSynced, bindingVars, runs, opened, loaded, losses>>

\* A tree whose directories were not synced is found with names missing.
Survivor(tree) == IF tree = NoStore \/ tree.data = "SEALED" THEN tree ELSE [tree EXCEPT !.data = "PART"]

\* Power is lost: a name is found as it was seen or as it was synced.
LosePower ==
  /\ losses < MaxLosses
  /\ losses' = losses + 1
  /\ store' \in {Survivor(store), Survivor(storeSynced)}
  /\ storeSynced' = store'
  /\ binding' \in {binding, bindingSynced}
  /\ bindingSynced' = binding'
  /\ stage' = [p \in Hosts |-> "NONE"]
  /\ at' = [p \in Hosts |-> "IDLE"]
  /\ outcome' = [p \in Hosts |-> IF at[p] = "IDLE" THEN outcome[p] ELSE "KILLED"]
  /\ UNCHANGED <<revoked, runs, opened, loaded>>

HostStep(p) ==
  \/ OpenStage(p) \/ Extract(p) \/ Seal(p) \/ Look(p) \/ Compare(p) \/ Rename(p) \/ SyncStore(p)
  \/ Verify(p) \/ WriteRecord(p) \/ CheckPublic(p) \/ Replace(p) \/ Confirm(p) \/ SyncBinding(p)
  \/ LoadInstalled(p) \/ Reconfirm(p) \/ Succeed(p)
  \/ FailEarly(p) \/ FailLate(p) \/ FailLook(p) \/ Revoke(p) \/ LookBack(p) \/ Unlink(p) \/ SyncBack(p)
  \/ FailBack(p) \/ Clean(p) \/ CleanFails(p)

ToolchainNext ==
  \/ \E p \in Hosts : StageArchive(p) \/ HostStep(p) \/ Kill(p)
  \/ LosePower

ToolchainSpec == ToolchainInit /\ [][ToolchainNext]_toolchainVars

-----------------------------------------------------------------------------
(***************************************************************************)
(* Properties.                                                             *)
(***************************************************************************)

\* Whatever is killed, fails or loses power, the content-addressed name never
\* leads to a tree that is not complete and read-only.
StoreAlwaysWhole == store # NoStore => store.data = "SEALED"

\* A run that answers with success has loaded and verified the record it wrote
\* itself, though others may have replaced it in between, and its store.
SuccessIsOwn ==
  \A p \in Hosts : outcome[p] = "OK" /\ at[p] = "CLEAN" => loaded[p] = Run(p) /\ StoreIsPublic(p)

\* A run that answered with success leaves a store that a power loss does not
\* take away, also when it reused a store that another process had renamed but
\* not yet synced: its clean-up syncs the directory that both names are in.
SuccessIsDurable ==
  \A p \in Hosts : outcome[p] = "OK" /\ at[p] = "IDLE" => storeSynced # NoStore

\* A run that raised before its record was in place, or whose rollback went
\* through, has withdrawn its record for good: neither as seen nor as synced is
\* it the binding, so that no other run and no power loss brings it back.  (An
\* error of the look before the rollback, or of the clean-up after success,
\* leaves the record where it is and says nothing of it.)
WithdrawnForGood ==
  \A p \in Hosts : outcome[p] = "ERROR" => Run(p) \notin {binding, bindingSynced}

\* The invariant of provisioning: the store is whole, and success is about the
\* store and the record of the run that reports it.
ToolchainInv == ToolchainTypeOK /\ StoreAlwaysWhole /\ SuccessIsOwn
=============================================================================
