---------------------------- MODULE RuntimeScratch ----------------------------
(***************************************************************************)
(* managed_runtime_scratch, toolchain_provisioning.py: the private TMPDIR  *)
(* of a candidate gate.  It is created in the runtime directory, handed to *)
(* the gate under its public name, and cleaned up through the descriptor   *)
(* and the inode recorded at its creation, whatever the gate did to names  *)
(* meanwhile: moved or deleted its scratch, put something else in its      *)
(* place, or had the directories above it exchanged.  The gate does not    *)
(* work on after it has ended.  Calls may fail at every step.              *)
(***************************************************************************)
EXTENDS Naturals

CONSTANTS
  Names,     \* names in the runtime directory
  Public,    \* scratch_name, the name the gate is given
  MaxMoves   \* bound on what the gate does to names

ASSUME ScratchAssumption ==
  /\ Public \in Names
  /\ {"NOWHERE", "OUTSIDE", "DELETED"} \cap Names = {}
  /\ MaxMoves \in Nat

VARIABLES
  scratch,   \* where the inode of the scratch directory is
  foreign,   \* the names that lead to something else
  full,      \* the scratch directory has entries
  chained,   \* the runtime directory and the root above it are still public
  moves,     \* how often the gate acted on names
  phase,     \* where the operation is
  doubts,    \* the errors of the checks and of the cleanup so far
  verdict    \* how the operation ended

scratchVars == <<scratch, foreign, full, chained, moves, phase, doubts, verdict>>

(***************************************************************************)
(* The type invariant, and that no directory is removed with entries.      *)
(***************************************************************************)
ScratchTypeOK ==
  /\ scratch \in Names \cup {"NOWHERE", "OUTSIDE", "DELETED"}
  /\ foreign \in SUBSET Names
  /\ full \in BOOLEAN
  /\ chained \in BOOLEAN
  /\ moves \in 0..MaxMoves
  /\ phase \in {"CREATE", "OPEN", "PIN", "GATE", "CHAIN", "EMPTY", "REMOVE", "AFTER", "ABANDON", "ENDED"}
  /\ doubts \in SUBSET {"BODY", "CHAIN", "CLEANUP", "AFTER"}
  /\ verdict \in {"NONE", "OK", "ERROR"}
  /\ full => scratch \in Names \cup {"OUTSIDE"}

ScratchInit ==
  /\ scratch = "NOWHERE"
  /\ foreign \in SUBSET (Names \ {Public})
  /\ full = FALSE
  /\ chained = TRUE
  /\ moves = 0
  /\ phase = "CREATE"
  /\ doubts = {}
  /\ verdict = "NONE"

Doubt(d, next) == doubts' = doubts \cup {d} /\ phase' = next

-----------------------------------------------------------------------------
(***************************************************************************)
(* Creation.                                                               *)
(***************************************************************************)
Create ==
  /\ phase = "CREATE"
  /\ scratch' = Public
  /\ phase' = "OPEN"
  /\ UNCHANGED <<foreign, full, chained, moves, doubts, verdict>>

\* The runtime directory cannot be opened, or the scratch not be made.
CreateFails ==
  /\ phase = "CREATE"
  /\ Doubt("BODY", "ENDED")
  /\ verdict' = "ERROR"
  /\ UNCHANGED <<scratch, foreign, full, chained, moves>>

\* The directory is opened and found to be the one that was made.
Open ==
  /\ phase = "OPEN"
  /\ scratch = Public
  /\ phase' = "PIN"
  /\ UNCHANGED <<scratch, foreign, full, chained, moves, doubts, verdict>>

OpenFails ==
  /\ phase = "OPEN"
  /\ Doubt("BODY", "ABANDON")
  /\ UNCHANGED <<scratch, foreign, full, chained, moves, verdict>>

\* _make_private_directory and the three pins; the gate gets the public name.
Pin ==
  /\ phase = "PIN"
  /\ chained
  /\ scratch = Public
  /\ phase' = "GATE"
  /\ UNCHANGED <<scratch, foreign, full, chained, moves, doubts, verdict>>

PinFails ==
  /\ phase = "PIN"
  /\ Doubt("BODY", "CHAIN")
  /\ UNCHANGED <<scratch, foreign, full, chained, moves, verdict>>

\* Without a descriptor: remove the directory if the name still leads to it.
Abandon ==
  /\ phase = "ABANDON"
  /\ scratch' \in {"DELETED", scratch}
  /\ verdict' = "ERROR"
  /\ phase' = "ENDED"
  /\ UNCHANGED <<foreign, full, chained, moves, doubts>>

-----------------------------------------------------------------------------
(***************************************************************************)
(* The gate at work.                                                       *)
(***************************************************************************)
Moving == phase = "GATE" /\ moves < MaxMoves /\ moves' = moves + 1

Fill ==
  /\ phase = "GATE"
  /\ scratch # "DELETED"
  /\ full' = TRUE
  /\ UNCHANGED <<scratch, foreign, chained, moves, phase, doubts, verdict>>

MoveScratch(to) ==
  /\ Moving
  /\ scratch \notin {"DELETED", to}
  /\ to \in (Names \ foreign) \cup {"OUTSIDE"}
  /\ scratch' = to
  /\ UNCHANGED <<foreign, full, chained, phase, doubts, verdict>>

DeleteScratch ==
  /\ Moving
  /\ scratch' = "DELETED"
  /\ full' = FALSE
  /\ UNCHANGED <<foreign, chained, phase, doubts, verdict>>

PutForeign(n) ==
  /\ Moving
  /\ n # scratch
  /\ n \notin foreign
  /\ foreign' = foreign \cup {n}
  /\ UNCHANGED <<scratch, full, chained, phase, doubts, verdict>>

BreakChain ==
  /\ Moving
  /\ chained
  /\ chained' = FALSE
  /\ UNCHANGED <<scratch, foreign, full, phase, doubts, verdict>>

\* The body ends, normally or with an exception.
GateEnds ==
  /\ phase = "GATE"
  /\ phase' = "CHAIN"
  /\ doubts' \in {doubts, doubts \cup {"BODY"}}
  /\ UNCHANGED <<scratch, foreign, full, chained, moves, verdict>>

-----------------------------------------------------------------------------
(***************************************************************************)
(* Cleanup: every stage is tried, and the errors are raised at the end.    *)
(***************************************************************************)

\* Mutant: the directory is removed without having been emptied.
CheckChainUnemptied ==
  /\ phase = "CHAIN"
  /\ \/ /\ chained
        /\ scratch = Public
        /\ phase' = "REMOVE"
        /\ UNCHANGED doubts
     \/ Doubt("CHAIN", "REMOVE")
  /\ UNCHANGED <<scratch, foreign, full, chained, moves, verdict>>

\* _require_managed_runtime_public_chain.
CheckChain ==
  /\ phase = "CHAIN"
  /\ \/ /\ chained
        /\ scratch = Public
        /\ phase' = "EMPTY"
        /\ UNCHANGED doubts
     \/ Doubt("CHAIN", "EMPTY")
  /\ UNCHANGED <<scratch, foreign, full, chained, moves, verdict>>

\* _cleanup_managed_runtime_scratch empties the directory through its descriptor,
\* wherever it is.
Empty ==
  /\ phase = "EMPTY"
  /\ full' = FALSE
  /\ phase' = "REMOVE"
  /\ UNCHANGED <<scratch, foreign, chained, moves, doubts, verdict>>

\* The cleanup fails at some call, having emptied the directory or not.
CleanupFails ==
  /\ phase \in {"EMPTY", "REMOVE"}
  /\ Doubt("CLEANUP", "AFTER")
  /\ UNCHANGED <<scratch, foreign, full, chained, moves, verdict>>

\* The public name led elsewhere when the cleanup began.
PublicChanged == scratch # Public

\* The one name in the runtime directory that leads to the inode is removed; a
\* deleted inode needs no more; any other is not proven to be ours.
Remove ==
  /\ phase = "REMOVE"
  /\ scratch \in Names \cup {"DELETED"}
  /\ scratch' = "DELETED"
  /\ IF PublicChanged THEN Doubt("CLEANUP", "AFTER") ELSE phase' = "AFTER" /\ UNCHANGED doubts
  /\ UNCHANGED <<foreign, full, chained, moves, verdict>>

RemoveOutside ==
  /\ phase = "REMOVE"
  /\ scratch = "OUTSIDE"
  /\ Doubt("CLEANUP", "AFTER")
  /\ UNCHANGED <<scratch, foreign, full, chained, moves, verdict>>

\* Mutant: doubts about the public names do not fail the operation.
CheckAfterForgiving ==
  /\ phase = "AFTER"
  /\ verdict' = IF doubts \cap {"BODY", "CLEANUP"} = {} THEN "OK" ELSE "ERROR"
  /\ phase' = "ENDED"
  /\ UNCHANGED <<scratch, foreign, full, chained, moves, doubts>>

\* _require_managed_runtime_public_state_after_cleanup, and the first error of all.
CheckAfter ==
  /\ phase = "AFTER"
  /\ \/ /\ chained
        /\ Public \notin foreign \cup {scratch}
        /\ UNCHANGED doubts
     \/ doubts' = doubts \cup {"AFTER"}
  /\ verdict' = IF doubts' = {} THEN "OK" ELSE "ERROR"
  /\ phase' = "ENDED"
  /\ UNCHANGED <<scratch, foreign, full, chained, moves>>

ScratchNext ==
  \/ Create \/ CreateFails \/ Open \/ OpenFails \/ Pin \/ PinFails \/ Abandon
  \/ Fill \/ DeleteScratch \/ BreakChain \/ GateEnds
  \/ \E n \in Names : MoveScratch(n) \/ PutForeign(n)
  \/ MoveScratch("OUTSIDE")
  \/ CheckChain \/ Empty \/ CleanupFails \/ Remove \/ RemoveOutside \/ CheckAfter

ScratchSpec == ScratchInit /\ [][ScratchNext]_scratchVars

-----------------------------------------------------------------------------
(***************************************************************************)
(* Properties.                                                             *)
(***************************************************************************)

\* The operation succeeds only if the scratch directory is gone, nothing has its
\* public name and the directories above it are the ones it was made in: any
\* ambiguity keeps the pack from being published.
SuccessIsClean ==
  verdict = "OK" => scratch = "DELETED" /\ Public \notin foreign /\ chained

\* The invariant of the scratch: no directory goes with entries in it, and success
\* means that nothing is left.
ScratchInv == ScratchTypeOK /\ SuccessIsClean
=============================================================================
