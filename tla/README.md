# A TLA+ model of the evolution harness

This directory holds a formal model of the harness in `src/src/evolution_harness`:
TLA+ modules, the TLC configurations that check them on small instances, and
theorems proved with TLAPS for every instance. `PROJECT.json` maps each
definition to the source lines it stands for and lists runs, mutants, findings,
hazards and theorems.

## 1. The system

The harness manages a repository of capabilities and the projects that use them.
Most of it reads documents, validates them and writes derived documents. A few
parts keep state that several processes share, and those carry the difficult
logic.

| Component | State it keeps | Operations | What is hard |
|---|---|---|---|
| Conflict policy (`controlled_conflicts.py`) | none | conflict reasons of two footprints, clusters | closure of merged graphs |
| Coordinator (`controlled_coordinator.py`) | leases, fencing token, recovery state, receipts (all in the journal) | `acquire_lane_lease`, `transition_lane_lease` | processes interleave; authority, HEAD and lanes change under it; retries |
| Recovery (`controlled_recovery.py`) | the same journal | `observe_lane_writes`, `record_project_recovery` | breaches during a pending recovery, late signed commands |
| Write guard (`controlled_write_guard.py`) | holds the project lock; the lane's tree | `run_guarded_command` | a program runs while the lock is held; death of the guard |
| State store (`coordinator_state.py`) | lock, lock identity, marker and journal files | `exclusive_project_lock`, `read_journal`, `replace_journal` | kills, failing system calls, loss of power |
| Journal validator (`coordinator_state.py`) | none | replays the receipts of a journal | an operation could write what it rejects |
| Command inputs (`controlled_coordinator_inputs.py`) | none | normalizes and binds commands | digest bindings |
| Planner (`controlled_planner.py`, `controlled_inputs.py`) | none | proposes batches | the greedy choice under closure |
| Projection (`projection.py`, `install.py`, `process_lock.py`, `anchored_fs.py`) | packs, swap journal, process lock | build, recover (install and uninstall only plan) | crash between two renames or during recovery; sources drift during the build |
| Growth inbox (`growth_*.py`) | immutable receipt files under a lock | record, receipt, scan | recorders and readers race; a publication is interrupted or not synced |
| Pack registry (`capability_pack_registry.py`) | a verification session per operation; reads live Git repositories | request a pack, read its files, close; read a registered pack | threads, single flight, poisoning, close; a repository that changes between two git commands |
| Toolchain (`toolchain_*.py`) | content-addressed store, host binding, scratch directory | provision, publish, managed scratch | kills and power loss between two calls, processes side by side without a lock; a gate that moves its own directory |
| Project lock and registration (`project.py`, `registration.py`) | the capability lock file, registrations | build, verify, registered operation | files change between any two reads; the lock is rewritten in place |
| Learning (`learning.py`, `governance.py`, `evals.py`, `revalidation.py`, `feedback.py`) | experiences, candidates, eval results, library, promotion ledger | capture, triage, propose, record results, promote | every file is written in place without a lock |
| Registry and resolver, authority, discussion, assurance, CLI | none | load, resolve, report | nothing concurrent |

Interactions. The command line calls one operation per process. The four
operations on the journal (acquire, transition, observe, recover) and the guard
each open the state store, take the project's non-blocking `flock`, read the
journal, decide, replace the journal and release the lock. The guard calls
`quarantine_observed_writes_locked` of the recovery module under the lock it
already holds. Acquire calls the planner again to rebuild the plan a command
names, and the conflict policy to compare footprints. All of them rebuild the
authority snapshot from the source repository, which other programs change at
any time, and check lane worktrees that other programs write to. A registered
operation opens one verification session, verifies the project's lock with it and
closes it. The session reads the sources of external packs, provisions their
toolchain and runs their gate in a scratch directory; a build of the lock reads
the external pack the same way.

What makes each modelled part correct:

* **Coordinator**: tokens are never reused; capacity, lanes and footprints of
  the active leases never collide, whichever batches they come from; what is
  integrated is what was reviewed; under a changed authority a lease can only
  be revoked.
* **Recovery and guard**: a breach stops the whole project and nothing moves
  until exactly its evidence is closed; evidence is never lost; a running
  program keeps the lease it started under; retired identities stay retired.
* **Validator**: replaying the receipts reproduces every lease.
* **Store**: commits are atomic and happen once, a confirmed commit survives,
  an existing journal stays usable, and the lock is always released.
* **Projection swap**: a pack is published by one step; the published one is
  whole whatever is interrupted; recovery never gets stuck; the sources held what the
  pack was built from at a moment before and at a moment after it became visible.
* **Growth inbox**: a receipt is whole from the moment it is visible, a recorded
  one stays, and a lookup or a scan sees the inbox of one moment.
* **Planner**: the proposed Slices can all run side by side, no Slice is overtaken
  by one it precedes, exactly the cyclic requests are refused as cyclic, and what
  the projection keeps fits beside the leases of the journal.
* **Pack session and source**: one gate and one identity per pack, answers that
  were verified since the call began, no checkout removed under a reader or left
  behind, no thread left waiting; what is read is what is registered.
* **Toolchain and scratch**: the store is whole and survives the success of a run, a
  success is about the run's own record, a rollback withdraws it for good; the
  operation succeeds only if the gate's directory is gone and nothing has its name.
* **Project lock**: a lock that is accepted is one that a build at a single moment
  would have written; one session sees one lock; the body runs under the lock that
  is pinned.
* **Learning**: the ledger and the promoted candidates speak only of versions that
  are in the library, and only what was authorised and passed its evals is promoted;
  a contentFile that leads elsewhere harms no version but its own and its target.

## 2. The modules

| Module | Models | State |
|---|---|---|
| `ConflictPolicy` | `controlled_conflicts.py`, `_footprints_conflict`, `_planning_graph` | none: operators |
| `Coordinator` | coordinator, recovery, guard control, validator | the journal, the guard, the signed commands and the world around them |
| `MCCoordinator` | instances of `Coordinator` | |
| `CoordinatorStore` | `coordinator_state.py`, system call by system call | the files as seen and as synced, the flock, each process |
| `JournalLog` | what the store promises: an atomic, durable log | the log and what was acknowledged |
| `MCStore` | instances of `CoordinatorStore` | |
| `ProjectionSwap` | `build_projection_pack` with its swap and recovery | target, temporary and backup directories, swap journal, process lock, the sources |
| `PackSlot` | what the build promises: one slot, published atomically | the slot and the outcome of each build |
| `MCSwap` | instances of `ProjectionSwap` | |
| `GrowthInbox` | `growth_store.py`, `publish_bytes_no_replace` | the inbox as seen and as synced, staging files, the lock, each process |
| `MCInbox` | instances of `GrowthInbox` | |
| `Planner`, `MCPlanner` | `controlled_planner.py`, `controlled_inputs.py` | the request, the phase and the lists of the algorithm |
| `PackSession`, `MCSession` | `CapabilityVerificationSession` | the session, its flights and leases, each thread, the registry and the sources |
| `PackSource` | `read_registered_pack_blobs` | the Git repository, each reader |
| `RuntimeScratch` | `managed_runtime_scratch` | where the directory is, what else has names, the clean-up |
| `ToolchainStore` | `provision_toolchain` | store and binding as seen and as synced, each process |
| `MCGate` | instance of the last three | |
| `CapabilityLock`, `MCLock` | `project.py`, `registration.py` | the lock file, what it is built from, the session, each thread |
| `Learning`, `MCLearning` | `learning.py`, `evals.py`, `feedback.py`, `governance.py` | the files of the learning loop, each process |
| `PolicyProofs` | theorems about `ConflictPolicy` | |
| `PlannerProofs` | theorems about `Planner` | |
| `CoordinatorProofs` | theorems about `Coordinator` and `CoordinatorStore` | |
| `SwapProofs` | theorems about `ProjectionSwap` | |
| `InboxProofs` | theorems about `GrowthInbox` | |
| `SessionProofs` | theorems about `PackSession` | |
| `GateProofs` | theorems about `PackSource`, `RuntimeScratch`, `ToolchainStore` | |
| `CapabilityProofs` | theorems about `Learning` and `CapabilityLock` | |

### Coordinator

Every journal operation is one action, because it happens under the project
lock; `CoordinatorStore` is the justification. The variables `leases`,
`nextFencingToken`, `recoveryState`, `recoveryEvidence` and `receipts` are the
journal's fields; `journalVersion` is the number of receipts, as the store
enforces. A lease keeps the acquire command that made it (`cmd`) in place of the
fields copied from it. A guarded command is two actions, with the lock held in
between: `GuardBegin`, then one of `GuardFinish`, `GuardBreach`, `GuardFail`.
Operations that raise change nothing and are no steps.

| Action | Code |
|---|---|
| `Acquire`, `AcquireReplay` | `acquire_lane_lease`, new and repeated command |
| `Transition`, `TransitionReplay` | `transition_lane_lease` |
| `Observe`, `ObserveReplay` | `observe_lane_writes` |
| `GuardBegin`, `GuardRefuse`, `GuardFinish`, `GuardBreach`, `GuardFail` | `run_guarded_command` |
| `Recover`, `RecoverReplay` | `record_project_recovery` |
| `SignRecovery` | the recovery controller; a signed command stays available, so it may arrive late or twice |
| `ChangeAuthority`, `AdvanceHead`, `LaneWrite`, `LaneClean`, `LaneCommit`, `LaneReplace` | the world |

Abstractions: digests are the values they digest; a signature is the set of
commands its owner could have signed; a lane is a directory identity, a set of
changed paths and a checked-out candidate; review sets are verified by assumption
(a `REVIEW_GO` command exists only if the reviews do). Timestamps are left out.
`RequestsAssumption` states what `normalize_acquire_command` guarantees of a
command; TLC evaluates it on every run.

### CoordinatorStore

Each process runs `exclusive_project_lock`, `read_journal` and `replace_journal`
one system call at a time (`ReadMarker`, `OpenLock`, `Flock`, `BindLock`, ...,
`Replace`, `SyncJournal`, `Confirm`). The state root exists twice: as processes
see it and as it was last synced. `Abort` is a failing call or a kill at any
point; `PowerLoss` ends all processes and finds each unsynced entry in its old or
its new form. Files that are written in place are `PARTIAL` between creation and
write. `SyncRoot` stands for `os.fsync` of the directory; files are synced before
they are renamed, so their content is not tracked separately.
`Log == INSTANCE JournalLog WITH log <- Chain(visible), acknowledged <- confirmed`
is the refinement mapping, and `ImplementsLog` the abstract specification as a
property.

### ProjectionSwap

A build is one call of `build_projection_pack`; its random token names its
temporary and its backup directory, so the build stands for its token and its pack.
Each action is one file operation or one check: `Start` (the process lock),
`VerifyContext`, `Recover`, `MakeTemporary`, `CheckPayloads`, `WritePack`,
`CheckSources`, `PrepareSwap`, `BackupTarget`, `Swap`, `VerifySwapped`, `Commit`,
`RemoveBackup`, `UnlinkJournal`, `Return`. `Raise` leaves the try block from any of
its steps, `Handle` is the exception handler, `EndInError` a call that ends in an
exception (also one inside the handler), `Kill` the death of the process. A failing
call that had its effect is a `Raise` at the step after it.

`source` is what one of the external sources holds, and `DriftSource` changes it to
any other value, also back to an earlier one. The three checks of the code compare
values (`Verified`), so a source that changes and changes back between two of them is
not noticed, and a pack can become visible at the rename (`projection.py:743`) under a
source that differs from what it was built from. `PublishedUnderItsSources` claims
what the checks do establish: at some moment after the last file was written and
before the rename, and at some moment after the rename and before the commit, the
source held what the pack was built from. The histories `staged` and `shown` collect
the values of those two windows; no action reads them. What a build is built from
is read once, before recovery.

A directory is absent, whole or torn; `remove_tree` tears it before it is gone.
`write_bytes` replaces a file by a rename and needs no torn state. Every operation
of `AnchoredRoot` syncs the directory before it returns, so power loss adds nothing
to a kill. Recovery is written as the one operation that is due in a state
(`RecoverStep`), because the code, run again from its beginning after each of its
operations, goes on with the next one; this also covers recovery that is itself
interrupted. `PublishedTree` is the tree that stands once recovery is done, and
`Slot == INSTANCE PackSlot WITH slot <- PublishedPack, outcome <- Outcome` the
refinement mapping.

### GrowthInbox

A process opens an instance (`CreateRoot`, `SyncRoot`, `OpenExisting`) and calls
`record`, `receipt` and `scan`. `record` is `BeginRecord`, one of the three lookups,
and the publication one system call at a time: `CreateStaged`, `WriteStaged`,
`SyncStaged`, `Link`, `SyncInbox`, `Unstage`, `SyncStaging`; `FailPublication` is a
failing call at any of them, with the clean-up rule of the code. The readers list
the names (`List`), read them one by one (`ReadEntry`) and end (`EndReading`, with an
answer or an error). `Die` ends a process and with it the instance's
`_publication_uncertain`; `PowerLoss` finds each name as seen or as synced; `Deposit`
is another program that writes into the inbox. A busy lock defers the call and is no
step. `recorded` remembers the assessments answered RECORDED while the state root
itself was synced: opening an existing root does not sync it, so a root whose
creator died may be lost with everything in it.

### Planner

One run of `build_provisional_execution_plan`, a loop iteration per step: `Normalize`
(the checks of `controlled_inputs.py` in their order; the first that fails names the
error), `CountDependencies`, `OrderNext` and `EndOrder` (the heap of the topological
order), `Classify`, `AdmitNext` and `EndPlan` (the greedy choice over clusters), then
`BeginProjection`, `ProjectNext`, `EndProjection`. That a stored digest equals the
recomputed one is a field of the input (`digestMatches`). `ConflictPolicy` is shared
with `Coordinator`, so planner and admission use one conflict relation, as in the code.

### PackSession

The methods of a session as called by threads. Its mutex is held for one step at a
time; what runs between two steps (git, the checkout, the gate) runs without it. A
request is `AcquireLease`, `SelectRegistration`, `PrepareSnapshot`, then the join of a
flight (`JoinAsOwner`, `JoinAsWaiter`, `JoinVerified`, or one of the refusals), the
owner's `CheckOut`, `GatePasses`, `Publish`, the two witnesses, and `Release`. `Poison`
is what every failure does. `BeginClose`, `CleanUpOne` and `EndClose` are `close`; a
second closer waits (`JoinClose`). `Reregister` and `ChangeSource` change the registry
line or the worktree at any time, and a source may change back. `seen` keeps what was
true since a call began and is read by properties only.

A witness is three steps, as `_recheck_verified_pack_witness` runs separate commands:
`WitnessRegistration`, `WitnessHead` (`rev-parse HEAD` of `_require_fixed_git_identity`)
and `WitnessClean` (the commands of `_assert_pack_source_content`; `clean` stands for
the answer to any one of them, and `PackSource` has them one by one). The code does not
look at HEAD again, so there need not be a moment at which the source was both at its
commit and clean: `AnswersAreFresh` claims one moment for each of the three facts. The
toolchain binding, which a witness also compares, is not followed.

### PackSource

A reader runs one git command per step: identity, hidden flags, clean status, ignored
files, the blobs, and all the checks again. The owner of the repository edits, stages,
hides, ignores and checks out in between. Git is external: commits and trees are
immutable, `Status` and its relatives say what its commands answer. A digest is a
function from the selected paths to their entries.

### ToolchainStore and RuntimeScratch

A run of `provision_toolchain` stages, extracts, seals, compares or renames, syncs,
verifies, writes its record, replaces the binding, confirms it and, when one of these
fails after the replacement, takes it back (`Revoke`, `LookBack`, `Unlink`,
`SyncBack`). Store and binding exist as seen and as synced; `Kill` and `LosePower` come
at any step. A run ends in `Clean`, the `finally` blocks that remove the temporary
record and the temporary tree, which the run still has when it reused a store; removing
the tree syncs the store's directory.

How a run ends is its `outcome`. `OK` is success. `ERROR` is an error raised before the
record was in place, or after a rollback that went through, and `UNPROVEN` the error that
says the rollback cannot be proven. `LEFT` is an error that says nothing of the record:
the look before the rollback is outside the rollback's `try` (`FailLook`,
`toolchain_provisioning.py:1412`), and a clean-up that fails (`CleanFails`, 1422-1436 and
1569-1580) replaces the success of a run, or the report of an unproven rollback, by its
own error. In those two cases the record stays the binding although the caller met an
error, so `WithdrawnForGood` is about `ERROR` alone.

`RuntimeScratch` is one call of `managed_runtime_scratch`: create, open,
pin, the gate (which fills, moves or deletes its directory, puts other things in its
place, or has the directories above exchanged), then the clean-up through the recorded
descriptor and inode, with failing calls at each step. The gate is at rest when the
clean-up begins; the lookup of the name, its comparison with the inode and the `rmdir`
(`Remove`) are one step, so nothing is claimed of a name that is exchanged between them.

### CapabilityLock

Builders read binding, catalogue and pack in separate steps and rewrite the lock file
in place (`BuildTruncate`, `BuildWrite`). The main thread runs
`registered_integration_operation`: three readings of the registration around the
opening of the session and the verification, then the body, whose workers verify
again, then the close. Every read is a step and `Drift` may come before each. The
session is represented by what `PackSession` shows of it: leases, one identity per
capability, poisoning, and a close that waits.

### Learning

Every write is two steps: `Open...` truncates, `Fill...` writes. An empty YAML file
loads as `{}`, so a truncated experience, candidate or ledger has the value of an
absent one; a truncated `asset.yaml` or result is `Torn` and makes its readers raise.
Promotion is `FindCandidate`, `CheckProposed`, `EnsureSourcesTriaged`, `LoadExisting`,
`ValidateOperation`, `EnsureTransferEvidence`, `EnsureEvals`, `ChooseDestination`,
`MakeDestination`, `WriteAsset`, `WriteContent`, `LoadPromoted`, `ReadLedger`,
`OpenLedger`, `FillLedger` and the update of the candidate. A command may be cut short
between any two steps (`Kill`): its process is killed, or the next file operation
raises; nothing is rolled back in either case. A content hash is the pair of files it
covers. `create_candidate` checks the schema only, which admits every
`promotionStatus`: a Candidate may be created INTEGRATED without a promotion, and
`DRAFT` stands for the statuses that are neither AUTHORIZED nor INTEGRATED.

A location is a directory, which capabilities of the same kind and name share whatever
their namespace (`DirectoryOf`, `BaseOf`), with its base and its versions. The content
is written to the asset's `contentFile`, any nonempty string: its own content file or
that of another location (`CONTENT`), an `asset.yaml` (`ASSET`), a file in a directory
that is not there (`ABSENT`) or a directory (`DIRECTORY`). The last two make
`WriteContent` raise after `asset.yaml` was made, an overwritten `asset.yaml` is `Torn`,
and a `contentFile` that leads to a directory makes every later load of the library
raise. `ContentAt` is what the loader reads for a version. Not modelled: a `contentFile`
that leads out of the library, to the ledger for one, and a content that is itself a
valid `asset.yaml`.

The history variables are read by properties only. `triaged`, `recorded` and
`authorized` keep what was on disk at some time: `PromotedWereReady` is about the results
that were there, because one that a promotion has read can be truncated again by a second
`record_eval_result` that was already under way. `cut` collects the locations whose
promotion ended before its ledger entry, `ledgerCut` says that a command ended while it
rewrote the ledger (which then is empty and has lost every entry), `tangled` collects
both ends of a `contentFile` that led away from its own content file, `integrated` the
Candidates that a promotion marked INTEGRATED, with their locations, and `overlap` says
that two commands ran at the same time. The properties name these exceptions, because
the code has them.

## 3. The runs

| Run | Instance | Shows |
|---|---|---|
| `admission` | 5 commands of 4 batches, 2 envelopes, 3 lane roots, 4 directory identities, at most 5 receipts | `TokensFenced`, `CapacityBound`, `ActiveLanesExclusive`, `ActiveFootprintsDisjoint` |
| `recovery` | 2 lanes, a fresh plan and a plan that reuses a retired attempt, 2 paths, at most 6 receipts | `QuarantineCoversProject`, `ReceiptChainReproducesLeases`, `CycleEvidenceComplete`, `RetiredStayRetired`, `GuardStaysFenced`, `RecoveryStopsProject` |
| `lifecycle` | 2 lanes, 2 candidates, 2 snapshots (one forbids development), 2 HEADs, at most 7 receipts | `ReviewedCandidateIsIntegrated`, `DriftOnlyRevokes` |
| `store` | 3 processes, unbounded faults | `StoreInv`, `ImplementsLog`, `LockReleased` |
| `swap` | 3 builds, a source with 2 values and 2 changes, unbounded faults | `PublishedPackIntact`, `RecoveryAccepts`, `PublishedUnderItsSources`, `ImplementsSlot` |
| `inbox` | 2 processes, 3 assessments of 2 keys, a scan limit of 1, unbounded faults | `InboxInv`, `ReadersSeeSnapshot`, `InboxUnlocked` |
| `planner` | all dependency graphs over 3 Slices and over 4 of which one is a root, 6 Slices under every choice of two priorities and three caps, 27 requests with one thing wrong each, 9 snapshots | `PlanInv`, `OrderInv` |
| `session` | 2 users, 2 closers, 3 registry lines of one capability (the locator differs, or the key), 2 commits, 2 changes | `SessionInv`, `AnswersAreFresh`, `NothingPublishedLate`, `CallsEnd` |
| `gate` | pack source: 5 paths, 4 commits, 3 changes; scratch: 3 names, 4 moves; toolchain: 2 hosts with 2 runs each, 1 power loss | `PackSourceInv`, `ScratchInv`, `ToolchainInv`, `SuccessIsDurable`, `WithdrawnForGood` |
| `lock` | the main thread, 1 worker, 1 builder, 2 bindings, 2 registries, 2 packs, 2 drifts | `LockInv`, `YieldedIsPinned`, `OperationsEnd` |
| `learning` | 8 candidates (a seed, one per operation, two that lead astray), 3 capabilities of which two share a directory, 2 processes, 5 calls; 4 where they overlap or one is cut short | `LearningInv`, `PromotedWereReady`, `SequentialLibraryAuthorised` |
| `recovery_capacity` | as `recovery` | violated: see the finding below |

A property named `...Inv` is the conjunction of its module's type invariant and of
named safety properties, each stated with a comment of its own in the module:

| Invariant | Besides types |
|---|---|
| `StoreInv` | `JournalStaysUsable` |
| `InboxInv` | `PublishedWhole`, `RecordedStays`, `StagedUntilSynced` |
| `PlanInv` | `PlanIsAdmissible`, `ProjectionFitsActive` |
| `OrderInv` | `DepthsAreLongestChains` (against the definition of the longest chain), `NoOvertaking` |
| `SessionInv` | `OneGatePerKey`, `OneIdentityPerCapability`, `ReadersKeepCheckout`, `ClosedLeavesNothing` |
| `PackSourceInv` | `ReturnedIsRegistered`, `QuietReadMeansExact` |
| `ScratchInv` | `SuccessIsClean` |
| `ToolchainInv` | `StoreAlwaysWhole`, `SuccessIsOwn` |
| `LockInv` | `VerifiedLocksAreBuildable`, `OneLockPerSession`, `OnlyAllowedPacks` |
| `LearningInv` | `LedgerTellsContent`, `IntegratedIsCanonical` |

Bounds. `MaxReceipts` bounds the journal. Five receipts hold two admissions, a
breach, its recovery and one more admission; six hold a second breach in the
pending cycle; seven take one lane from admission to closure (ADMITTED to CLOSED
is seven receipts). The requests of each instance are chosen so that every reason
for refusal applies to some pair: path ancestry, a producer-consumer path through
an owner of no Slice, an envelope, the cap of two lanes, a lane root, a directory.
The store needs no bound: a command is committed at most once. Of the three builds
of `swap` one publishes a first pack, one is interrupted over it and one recovers;
two values and two changes let a source move before and after any check, and away and back
between two of them. The inbox needs no
bound either: calls repeat without limit over a finite set of files.

The planner's algorithm ends, and its instances are the inputs. In `session` calls
repeat without limit. One change of the world is enough to make any one check stale; the
second one is there for a source that is restored, and comes only between the two
commands of a witness that found the commit in a source that is not clean. The first
closer comes only before it, the second closer only while nothing has changed, and a
source is not both at another commit and not clean (`MCNext`). `gate` puts three modules that share no
state into one run, each while the other two are at rest. Three changes let a
repository be altered, altered again and restored between two checks; two hosts with
two runs let a record be replaced by another process and by a later run. In `lock` two
drifts change a file and change it back. `learning` needs five calls for the longest
chain (an update's experience, its triage, its result, the candidate and its promotion;
the fifth call is always a promotion). The broadening's
`contentFile` is that of the version it replaces, the narrowing's cannot be opened; of the
two capabilities that share a directory with the first, one's is the `asset.yaml` of the
update and the other's is a directory. One command may be cut short, within four calls,
whichever candidate it is about. Overlapping calls are restricted to the candidates
`update` and `create`, whose promotions meet in the library and the ledger, and only
`update` is drafted, withdrawn or created INTEGRATED.

`VIEW WithoutReply` leaves out `reply`, which no action reads; the invariants and
action properties of those runs do not mention it. Directory identities are
compared only with each other, so permuting them is a symmetry, and so are the hosts
of `gate`; the runs that use symmetry check no liveness. Deadlock is checked in the
runs of the coordinator, the store and the inbox. In the others it is not: a build, a
plan, a read, a provisioning or a registered operation is a call that ends, and when
all calls have ended nothing is left to do.

Fairness. The store, the inbox, the session and the lock have it: a process or thread
that is inside a call takes its next step. The operating system schedules it, no call
waits for a file lock (they are `LOCK_NB`), and the commands a session runs have
timeouts, so they end. A thread that waits for another waits on a condition, which is
enabled for good once the owner has answered; weak fairness is enough. Nothing obliges
a process to start a call, and the coordinator promises no progress, so its
specification has no fairness.

Finding, where the code and its documents disagree. `RecoveryReleasesCapacity`: a lease
recovered as `STALE` is released but still counted as active, so it keeps its lane, its
footprint and capacity.

Smaller disagreements and surprises met while modelling, for which no run is kept:

* the replay branch of acquire answers the original command of a recovered lease
  although its identities are retired (`controlled_coordinator.py:1212`);
* admission does not compare authority snapshots, which the design lists as a
  conflict (`controlled_coordinator.py:1258`);
* a replay may be answered from a journal whose rename was never synced
  (`coordinator_state.py:1607`), and a new process answers DUPLICATE, gate PASS, from an
  unsynced receipt (`growth_store.py:519`);
* when the clean-up after the commit fails, a build raises and its new pack stays
  published (`projection.py:752`);
* the projection goes through the proposals by `sliceId`, not by priority
  (`controlled_planner.py:293`);
* a lock context can be used after its session's lease has ended (`project.py:720`);
* a source that changes and changes back around the rename is not noticed
  (`projection.py:743`), nor one that is never both at its commit and clean during a
  witness (`capability_pack_registry.py:1392`);
* a provisioning run can raise although its record stays the confirmed binding
  (`toolchain_provisioning.py:1412`, 1422-1436, 1569-1580);
* two promotions at once can lose a ledger entry (`learning.py:263`), and one that is
  cut short while it rewrites the ledger loses all of them;
* a promotion whose `contentFile` cannot be opened leaves a canonical version without an
  entry, and one whose `contentFile` leads to another version changes that version under
  its entry (`learning.py:301`);
* a Candidate can be created INTEGRATED without ever having been promoted
  (`learning.py:119`);
* two capabilities of one kind and name share a directory, so the second one's first
  version is put among the versions of the other (`learning.py:240`);
* two recordings of one eval result at once can leave a promoted version without a
  readable result (`evals.py:62`, written in place): the first attempt to prove
  `PromotedWereReady` for overlapping commands failed here, and the property now speaks
  of results that were whole when they were read;
* NARROW_SCOPE accepts incomparable scopes (`learning.py:233`), UPDATE may broaden
  without a transfer eval (`learning.py:281`), and empty content is promoted after a
  creation that was killed (`learning.py:301`).

Each property of a passing run has a mutant in the module that defines it, and the
`...Inv` properties one for each part: the operator whose comment begins with "Mutant" replaces the definition after it, the
way a plausible slip in the code would.

## 4. The proofs

TLAPS checks eight modules. Every safety property of the passing runs, invariant or
action property, and both refinements are stated by a theorem, for every value of the
constants that satisfies the named assumption of the module. Those assumptions say that
the sets of names are finite where something is counted, that the values standing for
"nothing" are no names, and what the schemas and `normalize_...` guarantee of an input;
TLC evaluates them on every run.

Each invariant was strengthened to an inductive one (the large ones were checked with TLC
on the run's instance before the proof) and proved in three facts: it holds initially, every action keeps it (one
lemma per action, under it one step per conjunct the action can disturb), and it implies
the property.

* `PolicyProofs` (no assumption beyond a finite graph): `ClosureIsLeastTransitive`. The
  closure is a fold over pivots, so what it computes is an induction over data; it is
  done by a least counterexample over the sets of nodes already folded
  (`FoldInduction`). From it: a larger planning graph has the larger closure and only
  more conflicts (`ConflictMonotone`), and the predicate is symmetric.
* `PlannerProofs` (`PlannerAssumption`): `PlanIsSound` and `OrderIsSound`. `PlanningInv`
  says phase by phase what has been made sure of. In the heap (`HeapInv`) `left` counts
  the dependencies that are not popped, what is popped is closed under dependency and on
  no cycle, and a depth is one more than the deepest popped dependency. If the heap runs
  empty too early, every Slice left has a dependency left, and a transitive relation
  without loops would have a last element in a finite set (`LastElement`): there is a
  cycle. Otherwise the depths solve the recursive definition of the longest chain, and
  `LongestChainIs` shows that it has one solution. In the walk (`WalkInv`) what is decided
  precedes what is not, which needs the sort key to be a total order (`PrecedesByKey`,
  `NextPrecedes`); clusters are symmetric (`ClustersSymmetric`), so it is enough to compare
  a Slice with those proposed before it.
* `CoordinatorProofs` (`RequestsAssumption`, `NoKeyAssumption`, `CandidateAssumption`,
  `MaxReceiptsAssumption`; `StoreAssumption` for the store). Steps are first classified
  by their effect on the journal (`JournalSteps`), so most proofs have five cases and
  not twenty.
  * `TypeCorrect`, `TokensAreFenced`: `FencingInv` adds that the evidence and the guard
    refer to leases that exist (`ReferencesResolve`), or a recovery could take a maximum
    over nothing. The maxima are bounded by `MaxOfBounded`.
  * `QuarantineCovers`, `ReleasedNeverChanges`, `RecoveryStops`: `QuarantineInv` adds that
    a CLOSED lease is released; otherwise it would be neither recoverable nor immutable.
  * `LanesExclusive`, `CapacityIsBounded`, `FootprintsDisjoint`: the set of active leases
    only grows by an admission (`ActiveShrinks`, `ActiveGrows`). That active leases share
    one envelope carries the bound from one command's cap to all; that the merged graph
    contains the graph of any two leases carries the disjointness (`ConflictMonotone`).
  * `GuardIsFenced`, `DriftRevokes`, `RetirementIsPermanent`, `ReviewedIsIntegrated`:
    `GuardInv` adds that a lease that was observed in a breach is released once the
    project is clear, so that no old observation blocks a new quarantine.
  * `ReceiptChainIsTheTruth`, `CycleEvidenceIsComplete`: the replay is a recursive function
    over the receipts, and appending one changes it only at the end. `CycleInv` adds that
    the pending evidence is that of the last receipt and the union of its cycle
    (`EvidenceOfCycle`): an operation sees the first and not the receipts.
  * `StoreStaysUsable`, `StoreImplementsLog`: a loss of power mixes the entries of both
    roots, so `StorageInv` says that what one entry presupposes is in both roots before
    the entry is in either, what each process has made sure of by the step it is at, and
    that the synced journal is a beginning of the one that is seen. Every step then maps
    to a commit, an acknowledgement, a forgotten tail or a stutter of `JournalLog`.
* `SwapProofs` (`NamesAssumption`: any number of builds): `SwapTypeCorrect`,
  `PackStaysIntact`, `RecoveryNeverRefuses`, `BackupsStayJournaled`,
  `PublishedUnderSources` and the refinement `SwapImplementsSlot`. `SwapInv` adds to the
  properties what each step of a running build knows of the trees and the journal
  (`StageInv`), that only the holder of the lock runs (`LockInv`), and that a build is in
  no journal, target or backup before its time (`FreshInv`); without the last, recovery
  could restore a backup that is the pack it rolls back. `RecoveryKeepsInv` treats
  recovery once, for a later build and for the handler. For the source, `SourceInv`
  says that the two histories hold the present value while their window is open, and
  that a build which has passed a check has the value it was built from in the history
  before it; the histories only grow.
* `InboxProofs` (`InboxAssumption`): `InboxIsSound` and `ReadersSeeTheInbox`. `GrowthInv`
  adds that a recorder is alone, that what is synced is seen under the same name, where
  each publication is, and that a reader has read or has yet to read every receipt.
* `SessionProofs` (`SessionAssumption`): `SessionIsSound`, `AnswersStayFresh`,
  `NothingIsPublishedLate`. `VerificationInv` adds that the number of leases is the number
  of threads in a call, that a flight has one owner whose gate has not run before, that
  one closer drains and cleans with nobody in a call, and what each thread has seen since
  its call began, one fact after the other (`SeenInv`).
* `GateProofs` (`PackSourceAssumption`, `ScratchAssumption`, `ToolchainAssumption`):
  `PackSourceIsSound`, `ScratchIsSound`, `ToolchainIsSound`, `RollbackWithdraws`,
  `SuccessStaysDurable`. `ReaderInv` says which checks still hold while
  nothing has changed since a read began; `CleanupInv` what each phase of the clean-up
  has left; `ProvisioningInv` that a record is the binding only from its
  own run's replacement on, that a run at its last checks has loaded its own record, and
  that a run which holds the store and has no temporary tree any more has synced it
  (`StoreDurable`), so that only a run that reused a store depends on its clean-up.
* `CapabilityProofs` (`LearningAssumption`, `LockAssumption`): `LearningIsSound` and
  `PromotionsWereReady` for overlapping commands that are cut short anywhere,
  `SequentialIsAuthorised`, `LockIsSound`, `BodiesRunPinned`. `LibraryInv` says that one
  process at a time fills a location, that nobody writes to one that is filled
  (`Settled`) but by a `contentFile` that leads there, which puts it into `tangled`, and
  that an entry is about files that stay as they are; `PutMoves` is the one lemma about
  where a text goes. `ReadinessInv` says what a promotion has found by each of its steps.
  `SequentialInv` is about commands that do not overlap, with a ledger that was not cut
  short: every version has its entry, is cut short or tangled, or is the one being
  promoted (`Covered`), and what cannot be read since a promotion was validated is of its
  own making (`ReadableBy`). `OperationInv` for the lock says what the drafts of a
  build are, which context each thread holds and which readings of the registration agree.

`TypeOK` of `Coordinator`, `SwapTypeOK`, `BackupsAreJournaled`, `ReleasedImmutable` and
the closure theorem are proved and need no run.

Only model-checked: the liveness properties `LockReleased`, `InboxUnlocked`, `CallsEnd`
and `OperationsEnd`. Fairness and ENABLED are out of the prover's reach.
`RecoveryReleasesCapacity` is violated and cannot be proved.

## 5. Plan

Done: all modules of section 2 with their runs, and the proofs above. Left:

1. The write guard in more detail: the scan of the lane and the breach inventory.
2. The command inputs: what their bindings guarantee is assumed of a request
   (`RequestsAssumption`) and could be derived from the checks.

## 6. Not modelled

JSON schemas, canonical encoding, digests and signatures (data conversion with no
state); the macOS sandbox profile and descriptor-relative path walking (system
calls whose result is a set of paths here); registry, resolver, authority
extraction, discussion and assurance (stateless document processing); the command
line; rendering and validating projection packs; the checks of where the growth
state root may lie; the compilation of the pack registry, the object closure of an
isolated checkout and the environment of its subprocesses; toolchain download,
archive extraction and profile schemas; the revalidation report. Install and uninstall
of projections only plan: applying a plan is disabled in the code.

Known weaknesses that fail closed and that no property covers: a sandboxed program runs
without a timeout while the project lock is held; a first admission that is killed
between its marker and its rename, or a lock identity killed between creation and
write, leaves files that later calls refuse until they are repaired by hand; a killed
build leaves its temporary directory; recovery needs lanes that still exist.
