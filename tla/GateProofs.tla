------------------------------ MODULE GateProofs ------------------------------
(***************************************************************************)
(* Theorems about what surrounds the gate of an external pack: the         *)
(* toolchain store and the host's binding, for any number of hosts, runs   *)
(* and power losses; the scratch directory, for any set of names and any   *)
(* number of moves; and the reader of a registered pack, for any           *)
(* repository, registrations and number of changes.                        *)
(***************************************************************************)
EXTENDS PackSource, RuntimeScratch, ToolchainStore, TLAPS

-----------------------------------------------------------------------------
(***************************************************************************)
(* The toolchain store: its inductive invariant.                           *)
(***************************************************************************)

\* A tree is sealed before it can get the content-addressed name, and what is
\* synced under that name is sealed as well.
StoreSealed ==
  /\ StoreAlwaysWhole
  /\ storeSynced # NoStore => storeSynced.data = "SEALED"
  /\ \A p \in Hosts :
       /\ at[p] \in {"LOOK", "COMPARE", "RENAME"} => stage[p] = "SEALED"
       /\ at[p] = "COMPARE" => store # NoStore
       /\ at[p] = "SYNC_STORE" => opened[p] \in Runs

\* What is synced under the name is there to be seen.  A run that has found or
\* made the store, and has no tree of its own any more, renamed and synced it.
StoreHeld ==
  {"VERIFY", "WRITE", "PUBLIC", "REPLACE"} \cup Confirming

StoreDurable ==
  /\ storeSynced # NoStore => store # NoStore
  /\ SuccessIsDurable
  /\ \A p \in Hosts :
       /\ at[p] = "SYNC_STORE" => store # NoStore
       /\ at[p] \in StoreHeld \/ (at[p] = "CLEAN" /\ outcome[p] = "OK") =>
            (stage[p] = "NONE" => storeSynced # NoStore)
       /\ at[p] = "CLEAN" /\ outcome[p] = "OK" => store # NoStore

\* A run has a number as soon as it has begun, and no verdict before it ends.
RunsBegun ==
  \A p \in Hosts :
    /\ at[p] # "IDLE" \/ outcome[p] # "NONE" => runs[p] \in 1..MaxRuns
    /\ at[p] \notin {"IDLE", "CLEAN"} => outcome[p] = "NONE"

\* A record is the binding only from the replacement of its own run on, and
\* not any more when that run has looked back or answered with an error.
Bound == {binding, bindingSynced}

RecordsPlaced ==
  \A p \in Hosts :
    /\ \A n \in 1..MaxRuns : n > runs[p] => <<p, n>> \notin Bound
    /\ at[p] \in Preparing \cup {"REPLACE"} => Run(p) \notin Bound
    /\ at[p] = "SYNC_BACK" => binding # Run(p)

\* A run that finds its own record in place has loaded that one, since nobody
\* else can put it there in between.
LoadedIsOwn ==
  \A p \in Hosts :
    /\ at[p] = "RECONFIRM" /\ binding = Run(p) => loaded[p] = Run(p)
    /\ at[p] = "PUBLIC_AGAIN" => loaded[p] = Run(p)

ProvisioningInv ==
  /\ ToolchainTypeOK
  /\ StoreSealed
  /\ StoreDurable
  /\ RunsBegun
  /\ RecordsPlaced
  /\ LoadedIsOwn
  /\ SuccessIsOwn
  /\ WithdrawnForGood

-----------------------------------------------------------------------------
(***************************************************************************)
(* The toolchain store: every step keeps the invariant.                    *)
(***************************************************************************)

LEMMA ProvisioningBegins == ToolchainInit => ProvisioningInv
  BY ToolchainAssumption
     DEF ToolchainInit, ProvisioningInv, ToolchainTypeOK, StoreSealed, StoreAlwaysWhole,
         StoreDurable, StoreHeld, SuccessIsDurable,
         RunsBegun, RecordsPlaced, Bound, LoadedIsOwn, SuccessIsOwn, WithdrawnForGood,
         Preparing, Confirming, Withdrawing, Runs, Run

\* A run that has begun is one of the runs, and the runs of two hosts differ.
LEMMA RunsDiffer ==
  ASSUME ToolchainTypeOK, RunsBegun
  PROVE  /\ \A p \in Hosts : at[p] # "IDLE" \/ outcome[p] # "NONE" =>
              Run(p) \in Runs /\ Run(p) # NoBinding /\ Run(p) # NoRun
         /\ \A p, q \in Hosts : p # q => Run(p) # Run(q)
  BY ToolchainAssumption DEF ToolchainTypeOK, RunsBegun, Runs, Run

LEMMA HostStepsKeepProvisioning ==
  ASSUME ProvisioningInv, NEW p \in Hosts, StageArchive(p) \/ HostStep(p) \/ Kill(p)
  PROVE  ProvisioningInv'
<1> USE DEF ProvisioningInv, Go, Result, storeVars, bindingVars
<1>0. /\ \A q \in Hosts : at[q] # "IDLE" \/ outcome[q] # "NONE" =>
              Run(q) \in Runs /\ Run(q) # NoBinding /\ Run(q) # NoRun
      /\ \A q, h \in Hosts : q # h => Run(q) # Run(h)
  BY RunsDiffer
<1>1. CASE StageArchive(p)
  BY <1>0, <1>1, ToolchainAssumption
     DEF StageArchive, ToolchainTypeOK, StoreSealed, StoreAlwaysWhole, StoreDurable, StoreHeld,
         SuccessIsDurable, RunsBegun, RecordsPlaced, Bound, LoadedIsOwn, SuccessIsOwn,
         WithdrawnForGood, Preparing, Confirming, Withdrawing, Run, Runs, Trees, StoreIsPublic
<1>2. CASE Extract(p)
  BY <1>0, <1>2, ToolchainAssumption
     DEF Extract, ToolchainTypeOK, StoreSealed, StoreAlwaysWhole, StoreDurable, StoreHeld,
         SuccessIsDurable, RunsBegun, RecordsPlaced, Bound, LoadedIsOwn, SuccessIsOwn,
         WithdrawnForGood, Preparing, Confirming, Withdrawing, Run, Runs, Trees, StoreIsPublic
<1>3. CASE Seal(p)
  BY <1>0, <1>3, ToolchainAssumption
     DEF Seal, ToolchainTypeOK, StoreSealed, StoreAlwaysWhole, StoreDurable, StoreHeld,
         SuccessIsDurable, RunsBegun, RecordsPlaced, Bound, LoadedIsOwn, SuccessIsOwn,
         WithdrawnForGood, Preparing, Confirming, Withdrawing, Run, Runs, Trees, StoreIsPublic
<1>4. CASE Look(p)
  BY <1>0, <1>4, ToolchainAssumption
     DEF Look, ToolchainTypeOK, StoreSealed, StoreAlwaysWhole, StoreDurable, StoreHeld,
         SuccessIsDurable, RunsBegun, RecordsPlaced, Bound, LoadedIsOwn, SuccessIsOwn,
         WithdrawnForGood, Preparing, Confirming, Withdrawing, Run, Runs, Trees, StoreIsPublic
<1>5. CASE Compare(p)
  BY <1>0, <1>5, ToolchainAssumption
     DEF Compare, ToolchainTypeOK, StoreSealed, StoreAlwaysWhole, StoreDurable, StoreHeld,
         SuccessIsDurable, RunsBegun, RecordsPlaced, Bound, LoadedIsOwn, SuccessIsOwn,
         WithdrawnForGood, Preparing, Confirming, Withdrawing, Run, Runs, Trees, StoreIsPublic
<1>6. CASE Rename(p)
  BY <1>0, <1>6, ToolchainAssumption
     DEF Rename, ToolchainTypeOK, StoreSealed, StoreAlwaysWhole, StoreDurable, StoreHeld,
         SuccessIsDurable, RunsBegun, RecordsPlaced, Bound, LoadedIsOwn, SuccessIsOwn,
         WithdrawnForGood, Preparing, Confirming, Withdrawing, Run, Runs, Trees, StoreIsPublic
<1>7. CASE SyncStore(p)
  BY <1>0, <1>7, ToolchainAssumption
     DEF SyncStore, ToolchainTypeOK, StoreSealed, StoreAlwaysWhole, StoreDurable, StoreHeld,
         SuccessIsDurable, RunsBegun, RecordsPlaced, Bound, LoadedIsOwn, SuccessIsOwn,
         WithdrawnForGood, Preparing, Confirming, Withdrawing, Run, Runs, Trees, StoreIsPublic
<1>8. CASE Verify(p)
  BY <1>0, <1>8, ToolchainAssumption
     DEF Verify, ToolchainTypeOK, StoreSealed, StoreAlwaysWhole, StoreDurable, StoreHeld,
         SuccessIsDurable, RunsBegun, RecordsPlaced, Bound, LoadedIsOwn, SuccessIsOwn,
         WithdrawnForGood, Preparing, Confirming, Withdrawing, Run, Runs, Trees, StoreIsPublic
<1>9. CASE WriteRecord(p)
  BY <1>0, <1>9, ToolchainAssumption
     DEF WriteRecord, ToolchainTypeOK, StoreSealed, StoreAlwaysWhole, StoreDurable, StoreHeld,
         SuccessIsDurable, RunsBegun, RecordsPlaced, Bound, LoadedIsOwn, SuccessIsOwn,
         WithdrawnForGood, Preparing, Confirming, Withdrawing, Run, Runs, Trees, StoreIsPublic
<1>10. CASE CheckPublic(p)
  BY <1>0, <1>10, ToolchainAssumption
     DEF CheckPublic, ToolchainTypeOK, StoreSealed, StoreAlwaysWhole, StoreDurable, StoreHeld,
         SuccessIsDurable, RunsBegun, RecordsPlaced, Bound, LoadedIsOwn, SuccessIsOwn,
         WithdrawnForGood, Preparing, Confirming, Withdrawing, Run, Runs, Trees, StoreIsPublic
<1>11. CASE Replace(p)
  BY <1>0, <1>11, ToolchainAssumption
     DEF Replace, ToolchainTypeOK, StoreSealed, StoreAlwaysWhole, StoreDurable, StoreHeld,
         SuccessIsDurable, RunsBegun, RecordsPlaced, Bound, LoadedIsOwn, SuccessIsOwn,
         WithdrawnForGood, Preparing, Confirming, Withdrawing, Run, Runs, Trees, StoreIsPublic
<1>12. CASE Confirm(p)
  BY <1>0, <1>12, ToolchainAssumption
     DEF Confirm, ToolchainTypeOK, StoreSealed, StoreAlwaysWhole, StoreDurable, StoreHeld,
         SuccessIsDurable, RunsBegun, RecordsPlaced, Bound, LoadedIsOwn, SuccessIsOwn,
         WithdrawnForGood, Preparing, Confirming, Withdrawing, Run, Runs, Trees, StoreIsPublic
<1>13. CASE SyncBinding(p)
  BY <1>0, <1>13, ToolchainAssumption
     DEF SyncBinding, ToolchainTypeOK, StoreSealed, StoreAlwaysWhole, StoreDurable, StoreHeld,
         SuccessIsDurable, RunsBegun, RecordsPlaced, Bound, LoadedIsOwn, SuccessIsOwn,
         WithdrawnForGood, Preparing, Confirming, Withdrawing, Run, Runs, Trees, StoreIsPublic
<1>14. CASE LoadInstalled(p)
  BY <1>0, <1>14, ToolchainAssumption
     DEF LoadInstalled, ToolchainTypeOK, StoreSealed, StoreAlwaysWhole, StoreDurable, StoreHeld,
         SuccessIsDurable, RunsBegun, RecordsPlaced, Bound, LoadedIsOwn, SuccessIsOwn,
         WithdrawnForGood, Preparing, Confirming, Withdrawing, Run, Runs, Trees, StoreIsPublic
<1>15. CASE Reconfirm(p)
  BY <1>0, <1>15, ToolchainAssumption
     DEF Reconfirm, ToolchainTypeOK, StoreSealed, StoreAlwaysWhole, StoreDurable, StoreHeld,
         SuccessIsDurable, RunsBegun, RecordsPlaced, Bound, LoadedIsOwn, SuccessIsOwn,
         WithdrawnForGood, Preparing, Confirming, Withdrawing, Run, Runs, Trees, StoreIsPublic
<1>16. CASE Succeed(p)
  BY <1>0, <1>16, ToolchainAssumption
     DEF Succeed, ToolchainTypeOK, StoreSealed, StoreAlwaysWhole, StoreDurable, StoreHeld,
         SuccessIsDurable, RunsBegun, RecordsPlaced, Bound, LoadedIsOwn, SuccessIsOwn,
         WithdrawnForGood, Preparing, Confirming, Withdrawing, Run, Runs, Trees, StoreIsPublic
<1>17. CASE FailEarly(p)
  BY <1>0, <1>17, ToolchainAssumption
     DEF FailEarly, ToolchainTypeOK, StoreSealed, StoreAlwaysWhole, StoreDurable, StoreHeld,
         SuccessIsDurable, RunsBegun, RecordsPlaced, Bound, LoadedIsOwn, SuccessIsOwn,
         WithdrawnForGood, Preparing, Confirming, Withdrawing, Run, Runs, Trees, StoreIsPublic
<1>18. CASE FailLate(p)
  BY <1>0, <1>18, ToolchainAssumption
     DEF FailLate, ToolchainTypeOK, StoreSealed, StoreAlwaysWhole, StoreDurable, StoreHeld,
         SuccessIsDurable, RunsBegun, RecordsPlaced, Bound, LoadedIsOwn, SuccessIsOwn,
         WithdrawnForGood, Preparing, Confirming, Withdrawing, Run, Runs, Trees, StoreIsPublic
<1>19. CASE Revoke(p)
  BY <1>0, <1>19, ToolchainAssumption
     DEF Revoke, ToolchainTypeOK, StoreSealed, StoreAlwaysWhole, StoreDurable, StoreHeld,
         SuccessIsDurable, RunsBegun, RecordsPlaced, Bound, LoadedIsOwn, SuccessIsOwn,
         WithdrawnForGood, Preparing, Confirming, Withdrawing, Run, Runs, Trees, StoreIsPublic
<1>20. CASE LookBack(p)
  BY <1>0, <1>20, ToolchainAssumption
     DEF LookBack, ToolchainTypeOK, StoreSealed, StoreAlwaysWhole, StoreDurable, StoreHeld,
         SuccessIsDurable, RunsBegun, RecordsPlaced, Bound, LoadedIsOwn, SuccessIsOwn,
         WithdrawnForGood, Preparing, Confirming, Withdrawing, Run, Runs, Trees, StoreIsPublic
<1>21. CASE Unlink(p)
  BY <1>0, <1>21, ToolchainAssumption
     DEF Unlink, ToolchainTypeOK, StoreSealed, StoreAlwaysWhole, StoreDurable, StoreHeld,
         SuccessIsDurable, RunsBegun, RecordsPlaced, Bound, LoadedIsOwn, SuccessIsOwn,
         WithdrawnForGood, Preparing, Confirming, Withdrawing, Run, Runs, Trees, StoreIsPublic
<1>22. CASE SyncBack(p)
  BY <1>0, <1>22, ToolchainAssumption
     DEF SyncBack, ToolchainTypeOK, StoreSealed, StoreAlwaysWhole, StoreDurable, StoreHeld,
         SuccessIsDurable, RunsBegun, RecordsPlaced, Bound, LoadedIsOwn, SuccessIsOwn,
         WithdrawnForGood, Preparing, Confirming, Withdrawing, Run, Runs, Trees, StoreIsPublic
<1>23. CASE FailBack(p)
  BY <1>0, <1>23, ToolchainAssumption
     DEF FailBack, ToolchainTypeOK, StoreSealed, StoreAlwaysWhole, StoreDurable, StoreHeld,
         SuccessIsDurable, RunsBegun, RecordsPlaced, Bound, LoadedIsOwn, SuccessIsOwn,
         WithdrawnForGood, Preparing, Confirming, Withdrawing, Run, Runs, Trees, StoreIsPublic
<1>24. CASE Clean(p)
  BY <1>0, <1>24, ToolchainAssumption
     DEF Clean, ToolchainTypeOK, StoreSealed, StoreAlwaysWhole, StoreDurable, StoreHeld,
         SuccessIsDurable, RunsBegun, RecordsPlaced, Bound, LoadedIsOwn, SuccessIsOwn,
         WithdrawnForGood, Preparing, Confirming, Withdrawing, Run, Runs, Trees, StoreIsPublic
<1>25. CASE Kill(p)
  BY <1>0, <1>25, ToolchainAssumption
     DEF Kill, ToolchainTypeOK, StoreSealed, StoreAlwaysWhole, StoreDurable, StoreHeld,
         SuccessIsDurable, RunsBegun, RecordsPlaced, Bound, LoadedIsOwn, SuccessIsOwn,
         WithdrawnForGood, Preparing, Confirming, Withdrawing, Run, Runs, Trees, StoreIsPublic
<1>26. CASE OpenStage(p)
  BY <1>0, <1>26, ToolchainAssumption
     DEF OpenStage, ToolchainTypeOK, StoreSealed, StoreAlwaysWhole, StoreDurable, StoreHeld,
         SuccessIsDurable, RunsBegun, RecordsPlaced, Bound, LoadedIsOwn, SuccessIsOwn,
         WithdrawnForGood, Preparing, Confirming, Withdrawing, Run, Runs, Trees, StoreIsPublic
<1>27. CASE FailLook(p)
  BY <1>0, <1>27, ToolchainAssumption
     DEF FailLook, ToolchainTypeOK, StoreSealed, StoreAlwaysWhole, StoreDurable, StoreHeld,
         SuccessIsDurable, RunsBegun, RecordsPlaced, Bound, LoadedIsOwn, SuccessIsOwn,
         WithdrawnForGood, Preparing, Confirming, Withdrawing, Run, Runs, Trees, StoreIsPublic
<1>28. CASE CleanFails(p)
  BY <1>0, <1>28, ToolchainAssumption
     DEF CleanFails, ToolchainTypeOK, StoreSealed, StoreAlwaysWhole, StoreDurable, StoreHeld,
         SuccessIsDurable, RunsBegun, RecordsPlaced, Bound, LoadedIsOwn, SuccessIsOwn,
         WithdrawnForGood, Preparing, Confirming, Withdrawing, Run, Runs, Trees, StoreIsPublic
<1> QED
  BY <1>1, <1>2, <1>3, <1>4, <1>5, <1>6, <1>7, <1>8, <1>9, <1>10, <1>11, <1>12, <1>13, <1>14,
     <1>15, <1>16, <1>17, <1>18, <1>19, <1>20, <1>21, <1>22, <1>23, <1>24, <1>25, <1>26, <1>27, <1>28
     DEF HostStep

\* A power loss finds names as they were seen or as they were synced: both are
\* sealed trees, and neither binding is a withdrawn record.
LEMMA PowerLossKeepsProvisioning ==
  ASSUME ProvisioningInv, LosePower
  PROVE  ProvisioningInv'
<1> USE DEF ProvisioningInv, LosePower
<1>1. store' \in {store, storeSynced} /\ storeSynced' = store'
  BY DEF StoreSealed, StoreAlwaysWhole, Survivor
<1>2. \A p \in Hosts : at'[p] = "IDLE" /\ (outcome'[p] = outcome[p] \/ (outcome'[p] = "KILLED" /\ at[p] # "IDLE"))
  BY Zenon
<1>3. ToolchainTypeOK'
  BY <1>1, <1>2, ToolchainAssumption
     DEF ToolchainTypeOK, Preparing, Confirming, Withdrawing
<1>4. StoreSealed'
  BY <1>1, <1>2 DEF StoreSealed, StoreAlwaysWhole
<1>9. StoreDurable'
  <2>1. StoreDurable
    OBVIOUS
  <2>2. \A p \in Hosts : outcome'[p] = IF at[p] = "IDLE" THEN outcome[p] ELSE "KILLED"
    OBVIOUS
  <2>3. \A p \in Hosts : outcome'[p] = "OK" => outcome[p] = "OK" /\ at[p] = "IDLE"
    <3> HIDE DEF ProvisioningInv, LosePower
    <3> QED BY <2>2
  <2>4. storeSynced # NoStore => store # NoStore
    <3> HIDE DEF ProvisioningInv, LosePower
    <3> QED BY <2>1 DEF StoreDurable
  <2>5. storeSynced # NoStore => store' # NoStore
    <3> HIDE DEF ProvisioningInv, LosePower
    <3> QED BY <1>1, <2>4
  <2> HIDE DEF ProvisioningInv, LosePower
  <2>6. SuccessIsDurable'
    BY <1>1, <2>1, <2>3, <2>5 DEF StoreDurable, SuccessIsDurable
  <2>7. \A p \in Hosts : at'[p] = "IDLE"
    BY <1>2
  <2> QED BY <1>1, <2>4, <2>5, <2>6, <2>7 DEF StoreDurable, StoreHeld, Confirming
<1>5. RunsBegun'
  BY <1>2 DEF RunsBegun
<1>6. Bound' \subseteq Bound
  BY DEF Bound
<1>7. RecordsPlaced' /\ LoadedIsOwn' /\ SuccessIsOwn'
  BY <1>2, <1>6 DEF RecordsPlaced, LoadedIsOwn, SuccessIsOwn, Preparing
<1>8. WithdrawnForGood'
  BY <1>2, <1>6 DEF WithdrawnForGood, Bound, Run
<1> QED BY <1>3, <1>4, <1>5, <1>7, <1>8, <1>9

LEMMA ProvisioningIsInvariant == ToolchainSpec => []ProvisioningInv
<1>1. ProvisioningInv /\ [ToolchainNext]_toolchainVars => ProvisioningInv'
  <2> SUFFICES ASSUME ProvisioningInv, [ToolchainNext]_toolchainVars
               PROVE  ProvisioningInv'
    OBVIOUS
  <2>1. CASE UNCHANGED toolchainVars
    BY <2>1
       DEF toolchainVars, storeVars, bindingVars, ProvisioningInv, ToolchainTypeOK, StoreSealed,
           StoreAlwaysWhole, StoreDurable, StoreHeld, SuccessIsDurable, RunsBegun, RecordsPlaced, Bound, LoadedIsOwn, SuccessIsOwn,
           WithdrawnForGood, Run, StoreIsPublic
  <2>2. CASE LosePower
    BY <2>2, PowerLossKeepsProvisioning
  <2>3. CASE \E p \in Hosts : StageArchive(p) \/ HostStep(p) \/ Kill(p)
    BY <2>3, HostStepsKeepProvisioning
  <2> QED BY <2>1, <2>2, <2>3 DEF ToolchainNext
<1> QED BY <1>1, ProvisioningBegins, PTL DEF ToolchainSpec

\* provision_toolchain, whatever is killed, fails or loses power: the store is
\* complete and read-only under its name, and a run that reports success has
\* verified its own record and the store it holds open.
THEOREM ToolchainIsSound == ToolchainSpec => []ToolchainInv
<1>1. ProvisioningInv => ToolchainInv
  BY DEF ProvisioningInv, ToolchainInv, StoreSealed
<1> QED BY <1>1, ProvisioningIsInvariant, PTL

\* _rollback_binding: a run that raised before its record was in place, or that
\* has rolled it back, has withdrawn it for good, though other runs replace the
\* binding and sync it meanwhile and power is lost at any moment.
THEOREM RollbackWithdraws == ToolchainSpec => []WithdrawnForGood
<1>1. ProvisioningInv => WithdrawnForGood
  BY DEF ProvisioningInv
<1> QED BY <1>1, ProvisioningIsInvariant, PTL

\* provision_toolchain: a run that has answered with success left a store that no
\* power loss takes away, whether it renamed the store or reused one that
\* another process had not synced yet.
THEOREM SuccessStaysDurable == ToolchainSpec => []SuccessIsDurable
<1>1. ProvisioningInv => SuccessIsDurable
  BY DEF ProvisioningInv, StoreDurable
<1> QED BY <1>1, ProvisioningIsInvariant, PTL

-----------------------------------------------------------------------------
(***************************************************************************)
(* The scratch directory.                                                  *)
(***************************************************************************)

\* The directory exists from its creation on and is empty whenever it may be
\* removed; a clean-up without a doubt of its own removed it; and there is no
\* verdict before the end.
ScratchPhases ==
  /\ scratch = "NOWHERE" => phase \in {"CREATE", "ENDED"}
  /\ phase \in {"CREATE", "OPEN", "PIN", "ABANDON", "REMOVE"} => ~full
  /\ phase = "AFTER" /\ "CLEANUP" \notin doubts => scratch = "DELETED"
  /\ phase # "ENDED" => verdict = "NONE"

CleanupInv == ScratchTypeOK /\ SuccessIsClean /\ ScratchPhases

LEMMA CleanupIsInvariant == ScratchSpec => []CleanupInv
<1> USE ScratchAssumption DEF CleanupInv, ScratchTypeOK, SuccessIsClean, ScratchPhases
<1>1. ScratchInit => CleanupInv
  <2>1. ScratchInit => full \in BOOLEAN /\ chained \in BOOLEAN
    BY Zenon DEF ScratchInit
  <2> QED BY <2>1 DEF ScratchInit
<1>2. CleanupInv /\ [ScratchNext]_scratchVars => CleanupInv'
  <2> SUFFICES ASSUME CleanupInv, [ScratchNext]_scratchVars
               PROVE  CleanupInv'
    OBVIOUS
  <2>0. full' \in BOOLEAN /\ chained' \in BOOLEAN
    BY Zenon
       DEF ScratchNext, scratchVars, Create, CreateFails, Open, OpenFails, Pin, PinFails, Abandon,
           Fill, DeleteScratch, BreakChain, GateEnds, PutForeign, MoveScratch, CheckChain, Empty,
           CleanupFails, Remove, RemoveOutside, CheckAfter
  <2>1. CASE UNCHANGED scratchVars
    BY <2>1 DEF scratchVars
  <2>2. CASE Create \/ CreateFails \/ Open \/ OpenFails
    BY <2>0, <2>2 DEF Create, CreateFails, Open, OpenFails, Doubt
  <2>9. CASE Pin \/ PinFails \/ Abandon
    BY <2>0, <2>9 DEF Pin, PinFails, Abandon, Doubt
  <2>3. CASE Fill
    BY <2>0, <2>3 DEF Fill
  <2>10. CASE DeleteScratch
    BY <2>0, <2>10 DEF DeleteScratch, Moving
  <2>11. CASE BreakChain
    <3>1. /\ phase = "GATE" /\ moves' \in 0..MaxMoves
          /\ UNCHANGED <<scratch, foreign, full, phase, doubts, verdict>>
      BY <2>11 DEF BreakChain, Moving
    <3> QED BY <2>0, <3>1
  <2>12. CASE GateEnds
    BY <2>0, <2>12 DEF GateEnds
  <2>4. ASSUME NEW n \in Names, PutForeign(n) PROVE CleanupInv'
    BY <2>4 DEF PutForeign, Moving
  <2>5. ASSUME NEW n \in Names \cup {"OUTSIDE"}, MoveScratch(n) PROVE CleanupInv'
    BY <2>5 DEF MoveScratch, Moving
  <2>6. CASE CheckChain \/ Empty \/ CleanupFails
    BY <2>0, <2>6 DEF CheckChain, Empty, CleanupFails, Doubt
  <2>7. CASE Remove \/ RemoveOutside
    BY <2>0, <2>7 DEF Remove, RemoveOutside, Doubt, PublicChanged
  <2>8. CASE CheckAfter
    BY <2>8 DEF CheckAfter
  <2> QED BY <2>1, <2>2, <2>3, <2>4, <2>5, <2>6, <2>7, <2>8, <2>9, <2>10, <2>11, <2>12
      DEF ScratchNext
<1> QED BY <1>1, <1>2, PTL DEF ScratchSpec

\* managed_runtime_scratch: whatever the gate did to names and whichever calls
\* failed, no directory is removed with entries in it, and success means that the
\* directory is gone, its public name is free and the chain above is intact.
THEOREM ScratchIsSound == ScratchSpec => []ScratchInv
<1>1. CleanupInv => ScratchInv
  BY DEF CleanupInv, ScratchInv
<1> QED BY <1>1, CleanupIsInvariant, PTL

-----------------------------------------------------------------------------
(***************************************************************************)
(* The reader of a registered pack.                                        *)
(***************************************************************************)

\* The steps of a reader from the one that follows each check on.
AfterRead == {"identity_again", "flags_again", "clean_again", "ignored_again", "returned"}
AfterIgnored == {"read"} \cup AfterRead
AfterClean == {"ignored"} \cup AfterIgnored
AfterFlags == {"clean"} \cup AfterClean
AfterContent == {"flags"} \cup AfterFlags
AfterIdentity == {"content"} \cup AfterContent

SourceTypes ==
  /\ head \in Commits
  /\ index \in [Paths -> Blobs \cup {None}] /\ work \in [Paths -> Blobs \cup {None}]
  /\ hidden \subseteq Paths /\ ignored \subseteq Paths
  /\ drifts \in 0 .. MaxDrifts

ReaderTypes ==
  /\ pc \in [Readers -> {"idle", "identity"} \cup AfterIdentity]
  /\ registration \in [Readers -> Registrations \cup {None}]
  /\ begun \in [Readers -> 0 .. MaxDrifts]
  /\ DOMAIN blobs = Readers

\* The blobs of the commit that a registration selects.
SelectedBlobs(g) ==
  [q \in Selected(TreeOf[g.commit], g.manifest) |-> TreeOf[g.commit][q].blob]

\* What a reader knows of immutable objects, however the repository changes.
ReaderKnows ==
  \A r \in Readers :
    LET g == registration[r] IN
    /\ begun[r] <= drifts
    /\ pc[r] # "idle" => g \in Registrations
    /\ pc[r] \in AfterIdentity => g.commit \in Commits
    /\ pc[r] \in AfterContent => ContentMatches(g)
    /\ pc[r] \notin AfterRead \cup {"idle"} => blobs[r] = None
    /\ pc[r] \in AfterRead => blobs[r] = SelectedBlobs(g)

\* What it knows of the repository as long as nobody touched it since the call
\* began: every check that was passed still holds.
QuietChecksHold ==
  \A r \in Readers : begun[r] = drifts =>
    LET g == registration[r] IN
    /\ pc[r] \in AfterIdentity => head = g.commit
    /\ pc[r] \in AfterFlags => NoHiddenFlags
    /\ pc[r] \in AfterClean => Status = {}
    /\ pc[r] \in AfterIgnored => NoIgnoredActive(g.manifest)

ReaderInv == SourceTypes /\ ReaderTypes /\ ReaderKnows /\ QuietChecksHold

\* The blobs of a commit.
LEMMA BlobsOfType ==
  ASSUME NEW c \in Commits
  PROVE  /\ BlobsOf(c) \in [Paths -> Blobs \cup {None}]
         /\ \A q \in Paths : BlobsOf(c)[q] # None <=> TreeOf[c][q] # None
  BY PackSourceAssumption DEF BlobsOf, Entries

\* What a reader has read is not the absence of a result.
LEMMA SelectedBlobsExist ==
  ASSUME NEW g, g.commit \in Commits
  PROVE  SelectedBlobs(g) # None
<1>1. SelectedBlobs(g) \in [Selected(TreeOf[g.commit], g.manifest) -> Blobs]
  BY PackSourceAssumption DEF SelectedBlobs, Selected, Entries
<1>2. Selected(TreeOf[g.commit], g.manifest) \in SUBSET Paths
  BY DEF Selected
<1> QED BY <1>1, <1>2, PackSourceAssumption

\* The repository changes: whoever is reading is not in a quiet repository.
LEMMA DriftKeepsReaders ==
  ASSUME ReaderInv, Drift, SourceTypes'
  PROVE  ReaderInv'
  BY DEF ReaderInv, Drift, SourceTypes, ReaderTypes, ReaderKnows, QuietChecksHold

LEMMA OwnerKeepsTypes ==
  ASSUME SourceTypes,
         \/ \E q \in Paths : (\E b \in Blobs \cup {None} : Edit(q, b)) \/ StageFile(q) \/ Hide(q) \/ Ignore(q)
         \/ \E c \in Commits : Checkout(c)
  PROVE  SourceTypes' /\ Drift
<1> USE PackSourceAssumption DEF SourceTypes, Drift
<1>1. ASSUME NEW q \in Paths, NEW b \in Blobs \cup {None}, Edit(q, b) PROVE SourceTypes' /\ Drift
  BY <1>1 DEF Edit
<1>2. ASSUME NEW q \in Paths, StageFile(q) \/ Hide(q) \/ Ignore(q) PROVE SourceTypes' /\ Drift
  BY <1>2 DEF StageFile, Hide, Ignore
<1>3. ASSUME NEW c \in Commits, Checkout(c) PROVE SourceTypes' /\ Drift
  BY <1>3, BlobsOfType DEF Checkout
<1> QED BY <1>1, <1>2, <1>3

\* A check that is passed, or refuses and raises, keeps the invariant when what
\* it establishes is what the next step is entitled to.
LEMMA ReaderStepsKeep ==
  ASSUME ReaderInv, NEW r \in Readers,
         \/ \E g \in Registrations : Begin(r, g)
         \/ Snapshot(r) \/ RequireNoHiddenFlags(r) \/ RequireClean(r) \/ ReadBlobs(r) \/ Recheck(r)
  PROVE  ReaderInv'
<1> USE DEF ReaderInv
<1> DEFINE Here == registration[r]
<1>1. UNCHANGED source
  BY DEF Begin, Snapshot, RequireNoHiddenFlags, RequireClean, ReadBlobs, Recheck, Check
<1>2. /\ SourceTypes' /\ (NoHiddenFlags' <=> NoHiddenFlags) /\ Status' = Status
      /\ \A m : NoIgnoredActive(m)' <=> NoIgnoredActive(m)
  BY <1>1 DEF source, SourceTypes, NoHiddenFlags, HiddenFlags, Status, NoIgnoredActive, IgnoredStatus
<1>3. CASE \E g \in Registrations : Begin(r, g)
  BY <1>1, <1>2, <1>3
     DEF Begin, source, SourceTypes, ReaderTypes, ReaderKnows, QuietChecksHold, AfterIdentity,
         AfterContent, AfterFlags, AfterClean, AfterIgnored, AfterRead
<1>4. CASE ReadBlobs(r)
  BY <1>1, <1>2, <1>4
     DEF ReadBlobs, SelectedBlobs, source, SourceTypes, ReaderTypes, ReaderKnows, QuietChecksHold,
         AfterIdentity, AfterContent, AfterFlags, AfterClean, AfterIgnored, AfterRead
<1>5. CASE Snapshot(r)
  BY <1>1, <1>2, <1>5
     DEF Snapshot, Check, FixedIdentity, source, SourceTypes, ReaderTypes, ReaderKnows,
         QuietChecksHold, AfterIdentity, AfterContent, AfterFlags, AfterClean, AfterIgnored, AfterRead
<1>6. CASE RequireNoHiddenFlags(r)
  BY <1>1, <1>2, <1>6
     DEF RequireNoHiddenFlags, Check, source, SourceTypes, ReaderTypes, ReaderKnows,
         QuietChecksHold, AfterIdentity, AfterContent, AfterFlags, AfterClean, AfterIgnored, AfterRead
<1>7. CASE RequireClean(r)
  BY <1>1, <1>2, <1>7
     DEF RequireClean, Check, source, SourceTypes, ReaderTypes, ReaderKnows,
         QuietChecksHold, AfterIdentity, AfterContent, AfterFlags, AfterClean, AfterIgnored, AfterRead
<1>8. CASE Recheck(r)
  BY <1>1, <1>2, <1>8
     DEF Recheck, Check, FixedIdentity, source, SourceTypes, ReaderTypes, ReaderKnows,
         QuietChecksHold, AfterIdentity, AfterContent, AfterFlags, AfterClean, AfterIgnored, AfterRead
<1> QED BY <1>3, <1>4, <1>5, <1>6, <1>7, <1>8

LEMMA ReaderIsInvariant == Spec => []ReaderInv
<1>1. Init => ReaderInv
  BY BlobsOfType, PackSourceAssumption
     DEF Init, ReaderInv, SourceTypes, ReaderTypes, ReaderKnows, QuietChecksHold, AfterIdentity,
         AfterContent, AfterFlags, AfterClean, AfterIgnored, AfterRead
<1>2. ReaderInv /\ [Next]_vars => ReaderInv'
  <2> SUFFICES ASSUME ReaderInv, [Next]_vars
               PROVE  ReaderInv'
    OBVIOUS
  <2>1. CASE UNCHANGED vars
    BY <2>1
       DEF vars, source, ReaderInv, SourceTypes, ReaderTypes, ReaderKnows, QuietChecksHold,
           NoHiddenFlags, HiddenFlags, Status, NoIgnoredActive, IgnoredStatus
  <2>2. CASE \/ \E q \in Paths : (\E b \in Blobs \cup {None} : Edit(q, b)) \/ StageFile(q) \/ Hide(q) \/ Ignore(q)
             \/ \E c \in Commits : Checkout(c)
    BY <2>2, OwnerKeepsTypes, DriftKeepsReaders DEF ReaderInv
  <2> QED BY <2>1, <2>2, ReaderStepsKeep DEF Next
<1> QED BY <1>1, <1>2, PTL DEF Spec

\* read_registered_pack_blobs: whatever happens to the repository meanwhile, the
\* bytes that are returned are the registered ones, and those of a repository at
\* rest are what its working tree shows under the active roots, and all of it.
THEOREM PackSourceIsSound == Spec => []PackSourceInv
<1>1. ReaderInv => PackSourceTypeOK
  BY SelectedBlobsExist
     DEF ReaderInv, PackSourceTypeOK, SourceTypes, ReaderTypes, ReaderKnows, AfterIdentity,
         AfterContent, AfterFlags, AfterClean, AfterIgnored, AfterRead
<1>2. ReaderInv => ReturnedIsRegistered
  <2> SUFFICES ASSUME ReaderInv, NEW r \in Readers, pc[r] = "returned"
               PROVE  LET g == registration[r]
                      IN  blobs[r] = [q \in DOMAIN g.digest |-> g.digest[q].blob]
    BY DEF ReturnedIsRegistered
  <2> DEFINE g == registration[r]
  <2>1. blobs[r] = SelectedBlobs(g) /\ ContentMatches(g)
    BY DEF ReaderInv, ReaderKnows, AfterRead, AfterContent, AfterFlags, AfterClean, AfterIgnored
  <2>2. g.digest = Digest(TreeOf[g.commit], g.manifest)
    BY <2>1 DEF ContentMatches
  <2> HIDE DEF g
  <2>3. SelectedBlobs(g) = [q \in DOMAIN g.digest |-> g.digest[q].blob]
    BY <2>2 DEF SelectedBlobs, Digest
  <2> QED BY <2>1, <2>3 DEF g
<1>3. ReaderInv => QuietReadMeansExact
  <2> SUFFICES ASSUME ReaderInv, NEW r \in Readers, pc[r] = "returned", begun[r] = drifts
               PROVE  LET g == registration[r] IN
                      /\ head = g.commit
                      /\ \A q \in DOMAIN blobs[r] : work[q] = blobs[r][q]
                      /\ \A q \in Active(g.manifest) : work[q] # None => q \in DOMAIN blobs[r]
    BY DEF QuietReadMeansExact
  <2> DEFINE g == registration[r]
  <2>1. /\ head = g.commit /\ head \in Commits /\ g \in Registrations
        /\ NoHiddenFlags /\ Status = {} /\ NoIgnoredActive(g.manifest)
        /\ blobs[r] = SelectedBlobs(g) /\ SourceTypes
    BY DEF ReaderInv, SourceTypes, ReaderKnows, QuietChecksHold, AfterIdentity, AfterContent,
           AfterFlags, AfterClean, AfterIgnored, AfterRead
  <2>2. \A q \in Paths : index[q] = BlobsOf(head)[q]
    BY <2>1 DEF Status
  <2>3. \A q \in Paths : index[q] # None => work[q] = index[q]
    BY <2>1 DEF Status, NoHiddenFlags, HiddenFlags
  <2>4. \A q \in DOMAIN blobs[r] : work[q] = blobs[r][q]
    BY <2>1, <2>2, <2>3, BlobsOfType DEF SelectedBlobs, Selected, BlobsOf
  <2>5. ASSUME NEW q \in Active(g.manifest), work[q] # None PROVE q \in DOMAIN blobs[r]
    <3>1. q \in Paths
      BY <2>1, PackSourceAssumption DEF Active
    <3>2. index[q] # None
      BY <2>1, <2>5, <3>1 DEF Status, NoIgnoredActive, IgnoredStatus
    <3> QED BY <2>1, <2>2, <3>1, <3>2, BlobsOfType DEF SelectedBlobs, Selected
  <2> QED BY <2>1, <2>4, <2>5
<1> QED BY <1>1, <1>2, <1>3, ReaderIsInvariant, PTL DEF PackSourceInv
=============================================================================
