------------------------------ MODULE PackSlot ------------------------------
(***************************************************************************)
(* What building a projection pack promises: one slot that holds the last  *)
(* published pack.  A build publishes its pack by one atomic step, at most *)
(* once and only while it runs; it reports success only of a pack that is  *)
(* in the slot; a build that has ended, in whichever way, publishes        *)
(* nothing any more.                                                       *)
(***************************************************************************)
CONSTANTS
  Builds,
  NoPack       \* nothing was ever published

VARIABLES
  slot,        \* the published pack
  outcome      \* of each build: "OPEN", "SUCCESS", "ERROR" or "KILLED"

slotVars == <<slot, outcome>>

SlotInit ==
  /\ slot = NoPack
  /\ outcome = [b \in Builds |-> "OPEN"]

Publish(b) ==
  /\ outcome[b] = "OPEN"
  /\ slot # b
  /\ slot' = b
  /\ UNCHANGED outcome

Succeed(b) ==
  /\ outcome[b] = "OPEN"
  /\ slot = b
  /\ outcome' = [outcome EXCEPT ![b] = "SUCCESS"]
  /\ UNCHANGED slot

GiveUp(b) ==
  /\ outcome[b] = "OPEN"
  /\ \E result \in {"ERROR", "KILLED"} : outcome' = [outcome EXCEPT ![b] = result]
  /\ UNCHANGED slot

SlotNext == \E b \in Builds : Publish(b) \/ Succeed(b) \/ GiveUp(b)

SlotSpec == SlotInit /\ [][SlotNext]_slotVars
=============================================================================
