------------------------------ MODULE MCSession ------------------------------
(***************************************************************************)
(* A verification session for TLC: one capability whose registry line      *)
(* changes its locator (ra, rb: the same key) or the contract of its       *)
(* validator (rc: another key for the same commit).                        *)
(***************************************************************************)
EXTENDS PackSession

CONSTANTS c1, c2, cap, ra, rb, rc, ka, kc, h1, h2

MCCapabilities == {cap}
MCRegistrations == {ra, rb, rc}
MCHeads == {h1, h2}
MCKeys == {ka, kc}
MCKeyOf == [r \in MCRegistrations |-> IF r = rc THEN kc ELSE ka]
MCCapabilityOf == [k \in MCKeys |-> cap]
MCHeadOf == [r \in MCRegistrations |-> h1]

\* What keeps the instance small: the second closer, there to close at the
\* same time as the first, comes only while nothing has drifted, and the first
\* only before a second drift; a source is not both at another commit and not
\* clean; and the world changes a second time only under a witness that has
\* found the commit in a source that is not clean.
MCNext ==
  /\ SessionNext
  /\ pc'[c2] # "IDLE" => drifts' = 0
  /\ pc'[c1] # "IDLE" => drifts' < 2
  /\ source'[cap] # [head |-> h2, clean |-> FALSE]
  /\ drifts' > 1 /\ drifts' > drifts =>
       /\ \E t \in Users : pc[t] = "WITNESS_CLEAN"
       /\ source[cap] = [head |-> h1, clean |-> FALSE]
       /\ source'[cap].clean

MCSpec == SessionInit /\ [][MCNext]_sessionVars /\ SessionFairness
=============================================================================
