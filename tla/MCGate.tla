-------------------------------- MODULE MCGate --------------------------------
(***************************************************************************)
(* What surrounds the gate of an external pack, for TLC: its source is     *)
(* read, its toolchain is provisioned, and it runs in a scratch directory. *)
(* The three share no state, so it is enough to run each of them while the *)
(* other two are at rest.                                                  *)
(*                                                                         *)
(* A pack has five files.  The first commit is a sound pack, the second    *)
(* changes a file, the third has a symbolic link among its active files    *)
(* and the fourth two paths that fold to one name.  The registrations: the *)
(* sound one, one whose digest is of another commit, and one of each       *)
(* unsound commit.                                                         *)
(***************************************************************************)
EXTENDS PackSource, RuntimeScratch, ToolchainStore, TLC

CONSTANTS b1, b2, version, manifest, skill, SKILL, gate

File(mode, blob) == [mode |-> mode, blob |-> blob]

MCTree1 == [q \in Paths |-> CASE q = gate -> File("100755", b1)
                              [] q = SKILL -> None
                              [] OTHER -> File("100644", b1)]

MCCommits == 1 .. 4
MCTreeOf == [c \in MCCommits |-> CASE c = 1 -> MCTree1
                                   [] c = 2 -> [MCTree1 EXCEPT ![skill] = File("100644", b2)]
                                   [] c = 3 -> [MCTree1 EXCEPT ![skill] = File("120000", b1)]
                                   [] c = 4 -> [MCTree1 EXCEPT ![SKILL] = File("100644", b1)]]

MCManifest == [roots |-> {{skill, SKILL, gate}}, excluded |-> {gate}, skill |-> skill,
               validator |-> gate]
MCManifestOf == [c \in MCCommits |-> MCManifest]

Registered(commit, digested) ==
  [commit |-> commit, tree |-> MCTreeOf[commit],
   digest |-> Digest(MCTreeOf[digested], MCManifest), manifest |-> MCManifest,
   validator |-> gate, validatorDigest |-> b1]

MCRegistrations == {Registered(1, 1), Registered(1, 2), Registered(3, 3), Registered(4, 4)}

MCFold == [q \in Paths |-> IF q = SKILL THEN skill ELSE q]

-----------------------------------------------------------------------------
SourceAtRest == head = 1 /\ drifts = 0 /\ \A r \in Readers : registration[r] = None
ScratchAtRest == phase = "CREATE" /\ foreign = {}
ToolchainAtRest == losses = 0 /\ \A p \in Hosts : runs[p] = 0

MCInit == Init /\ ScratchInit /\ ToolchainInit

MCNext ==
  \/ Next /\ ScratchAtRest /\ ToolchainAtRest /\ UNCHANGED <<scratchVars, toolchainVars>>
  \/ ScratchNext /\ SourceAtRest /\ ToolchainAtRest /\ UNCHANGED <<vars, toolchainVars>>
  \/ ToolchainNext /\ SourceAtRest /\ ScratchAtRest /\ UNCHANGED <<vars, scratchVars>>

MCSpec == MCInit /\ [][MCNext]_<<vars, scratchVars, toolchainVars>>

MCSymmetry == Permutations(Hosts)
=============================================================================
