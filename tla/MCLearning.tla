------------------------------ MODULE MCLearning ------------------------------
(***************************************************************************)
(* The learning loop for TLC.  The library starts with version 1 of one    *)
(* capability; there is one candidate per operation, with versions that    *)
(* collide, an eval that the update requires and that the broadening has   *)
(* as its transfer evidence.  The broadening's contentFile is that of the  *)
(* version it replaces, the narrowing's cannot be opened.  Two more        *)
(* capabilities share the directory of the first: the one's contentFile is *)
(* the asset.yaml of an update, the other's is a directory.                *)
(*                                                                         *)
(* Commands that run one after the other use all of it.  Commands that     *)
(* overlap or are killed are those that write the library: they work on    *)
(* two candidates whose evidence is there.                                 *)
(***************************************************************************)
EXTENDS Learning, TLC

CONSTANTS a, b, twin, seed, update, broaden, narrow, create, supersede, spoil, stray, check, x1, r1, r2, p1, p2,
          MaxTogether   \* calls of which some overlap or are killed

At1(S) == [k \in Keys |-> S]

Seed == [operation |-> "CREATE", target |-> a, id |-> a, version |-> 1, scope |-> At1({r1}),
         supersedes |-> {}, sources |-> {}, evals |-> {}, transfer |-> None,
         contentFile |-> "CONTENT", contentOf |-> None]

MCProposals ==
  seed :> Seed @@
  update :> [Seed EXCEPT !.operation = "UPDATE", !.version = 2, !.sources = {x1},
                         !.evals = {check}] @@
  broaden :> [Seed EXCEPT !.operation = "BROADEN_SCOPE", !.version = 3, !.scope = At1(Absent),
                          !.transfer = check, !.contentOf = <<a, Base>>] @@
  narrow :> [Seed EXCEPT !.operation = "NARROW_SCOPE", !.version = 2, !.scope = At1({}),
                         !.contentFile = "ABSENT"] @@
  create :> [Seed EXCEPT !.target = b, !.id = b] @@
  supersede :> [Seed EXCEPT !.operation = "SUPERSEDE", !.id = b, !.supersedes = {a}] @@
  spoil :> [Seed EXCEPT !.target = twin, !.id = twin, !.version = 3,
                        !.contentFile = "ASSET", !.contentOf = <<a, 2>>] @@
  stray :> [Seed EXCEPT !.target = twin, !.id = twin, !.version = 2, !.contentFile = "DIRECTORY"]

MCDirectoryOf == a :> a @@ b :> b @@ twin :> a

MCEvalTarget == check :> a

Result(v, passed) == [eval |-> check, id |-> a, version |-> v, passed |-> passed]
MCResults == {Result(2, TRUE), Result(3, TRUE), Result(2, FALSE)}

\* The update's experience is triaged and its eval has passed.
Evidence ==
  /\ experience[x1] = "TRIAGED"
  /\ \A r \in Results : result[r] = IF r = Result(2, TRUE) THEN "WHOLE" ELSE None

NoEvidence == experience[x1] = None /\ \A r \in Results : result[r] = None

MCInit == Init /\ (Evidence \/ NoEvidence)

\* Only the update is drafted, withdrawn or created INTEGRATED.
Decided ==
  \A c \in Candidates \ {update} :
    /\ candidate[c] \notin {"DRAFT", "WITHDRAWN"}
    /\ candidate[c] = "INTEGRATED" => \E i \in integrated : i[1] = c

Alone == job[p2].pc = "idle" /\ ~overlap /\ (kills = 0 \/ (Evidence /\ calls <= MaxTogether))

Together ==
  /\ Evidence /\ calls <= MaxTogether
  /\ \A p \in Processes : Subject(p) \in {None, update, create}
  /\ \A c \in Candidates \ {update, create} : candidate[c] = None

\* The last call is a promotion: anything else would prepare one that is not made.
LastPromotes == calls < calls' /\ calls' = MaxCalls => \E p \in Processes : job'[p].pc = "proposed"

MCNext == Next /\ (Alone \/ Together)' /\ Decided' /\ LastPromotes

MCSpec == MCInit /\ [][MCNext]_vars
=============================================================================
