-------------------------- MODULE CapabilityProofs --------------------------
(***************************************************************************)
(* Theorems about where capabilities come from and how a project is held   *)
(* to them: the learning loop, for any set of commands that run at the     *)
(* same time and any number of killed ones, and the capability lock, for   *)
(* any set of threads and builders and any number of changes of the files. *)
(***************************************************************************)
EXTENDS Learning, CapabilityLock, FiniteSetTheorems, TLAPS

-----------------------------------------------------------------------------
(***************************************************************************)
(* The learning loop: the inductive invariant.                             *)
(***************************************************************************)

\* The steps of promote_candidate, in the order of the code.
Filling == {"asset_open", "asset_fill", "content_open", "content_fill"}
Filled == {"load", "ledger_read", "ledger_open", "ledger_fill"}
Evaluated == {"destination", "mkdir"} \cup Filling \cup Filled
Transferred == {"evals"} \cup Evaluated
Validated == {"transfer"} \cup Transferred
Sourced == {"existing", "operation"} \cup Validated
Checked == {"sources"} \cup Sourced
Promoting == {"proposed"} \cup Checked
Creating == {"candidate_open", "candidate_fill", "proposed_open", "proposed_fill", "text_open",
             "text_fill"}
Steps == {"idle", "experience_open", "experience_fill", "result_open", "result_fill"}
         \cup Creating \cup Promoting

Entries == [by : Candidates, content : Candidates \cup {Empty, Torn}, at : Locations]

Jobs == [pc : Steps, subject : Experiences \cup Results \cup Candidates \cup {None},
         value : {None, "UNTRIAGED", "TRIAGED", "DRAFT", "AUTHORIZED", "INTEGRATED"},
         seen : SUBSET Versions, place : Locations \cup {None},
         copy : Candidates \cup {None, Empty, Torn}, entries : SUBSET Entries]

Files == [asset : Candidates \cup {None, Torn}, content : Candidates \cup {None, Empty}]

Held == [dir : BOOLEAN, asset : Candidates \cup {None, Torn},
         content : Candidates \cup {None, Empty, Torn}]

Shapes ==
  /\ experience \in [Experiences -> {None, "UNTRIAGED", "TRIAGED"}]
  /\ candidate \in [Candidates -> {None, "DRAFT", "AUTHORIZED", "INTEGRATED", "WITHDRAWN"}]
  /\ proposed \in [Candidates -> Files]
  /\ result \in [Results -> {None, Torn, "WHOLE"}]
  /\ canonical \in [Locations -> Held]
  /\ ledger \subseteq Entries
  /\ job \in [Processes -> Jobs]
  /\ kills \in 0 .. MaxKills /\ calls \in 0 .. MaxCalls

\* What a command works on.
SubjectOK(p) ==
  /\ job[p].pc \in {"experience_open", "experience_fill"} =>
       Subject(p) \in Experiences /\ job[p].value \in {"UNTRIAGED", "TRIAGED"}
  /\ job[p].pc \in {"result_open", "result_fill"} => Subject(p) \in Results
  /\ job[p].pc \in Creating \cup Promoting => Subject(p) \in Candidates
  /\ job[p].pc \in {"candidate_open", "candidate_fill"} =>
       job[p].value \in {"DRAFT", "AUTHORIZED", "INTEGRATED"}

Subjects == \A p \in Processes : SubjectOK(p)

ProposedInv ==
  \A c \in Candidates :
    /\ proposed[c].asset \in {None, Torn, c} /\ proposed[c].content \in {None, Empty, c}
    /\ proposed[c].content # None => proposed[c].asset # None

\* What a command has written or seen of the proposal is there.
CheckedOK(p) ==
  /\ job[p].pc \in Checked => proposed[Subject(p)].content # None
  /\ job[p].pc \in {"text_open", "text_fill"} => proposed[Subject(p)].asset # None

CheckedInv == \A p \in Processes : CheckedOK(p)

\* A promotion has a location of its directory.
PlaceOK(p) ==
  job[p].pc \in {"mkdir"} \cup Filling \cup Filled =>
    Place(p) \in Locations /\ Place(p)[1] = Directory(Subject(p))

\* Where the content of a promotion goes.
TargetOf(p) == ContentPlace(Subject(p), Place(p))

\* A promotion owns the location that it has made until both files are written,
\* but for what a contentFile tangles.
FillOK(p) ==
  job[p].pc \in Filling =>
    /\ canonical[Place(p)].dir
    /\ job[p].pc \in {"content_open", "content_fill"} =>
         canonical[Place(p)].asset \in {Subject(p), Torn}
    /\ job[p].pc = "content_fill" =>
         /\ job[p].copy # None /\ canonical[TargetOf(p)].dir
         /\ Own(Subject(p), Place(p)) \/ {Place(p), TargetOf(p)} \subseteq tangled
    /\ Place(p) \notin tangled =>
         /\ job[p].pc = "asset_open" => canonical[Place(p)].asset = None
         /\ job[p].pc = "asset_fill" => canonical[Place(p)].asset = Torn
         /\ job[p].pc \in {"content_open", "content_fill"} => canonical[Place(p)].asset = Subject(p)
         /\ canonical[Place(p)].content = (IF job[p].pc = "content_fill" THEN Empty ELSE None)

FillingInv ==
  /\ \A p \in Processes : PlaceOK(p) /\ FillOK(p)
  /\ \A p, q \in Processes :
       job[p].pc \in Filling /\ job[q].pc \in Filling /\ p # q => Place(p) # Place(q)

\* No promotion fills this location any more.
Settled(l) == canonical[l].dir /\ \A q \in Processes : job[q].pc \in Filling => Place(q) # l

FilledOK(p) ==
  job[p].pc \in Filled =>
    /\ Settled(Place(p)) /\ canonical[Place(p)].asset \in {Subject(p), Torn}
    /\ job[p].pc = "ledger_read" => job[p].copy # None
    /\ Place(p) \notin tangled =>
         /\ Own(Subject(p), Place(p)) /\ canonical[Place(p)].asset = Subject(p)
         /\ canonical[Place(p)].content # None
         /\ job[p].pc = "ledger_read" => job[p].copy = canonical[Place(p)].content

FilledInv == \A p \in Processes : FilledOK(p)

LocationOK(l) ==
  /\ canonical[l].asset \in Candidates => Directory(canonical[l].asset) = l[1]
  /\ canonical[l].asset # None => canonical[l].dir
  /\ l \notin tangled /\ canonical[l].content # None => canonical[l].asset \in Candidates

LocationsInv == \A l \in Locations : LocationOK(l)

\* An entry is about files that stay as they are.
Backed(e) ==
  /\ e.at \in Locations /\ Settled(e.at) /\ canonical[e.at].asset \in {e.by, Torn}
  /\ e.at \notin tangled =>
       /\ Own(e.by, e.at) /\ canonical[e.at].asset = e.by
       /\ canonical[e.at].content = e.content

BackedInv ==
  /\ \A e \in ledger : Backed(e)
  /\ \A p \in Processes : job[p].pc \in {"ledger_open", "ledger_fill"} =>
       \A e \in job[p].entries : Backed(e)

Copied(c, l) ==
  /\ l \in Locations /\ Settled(l)
  /\ l \notin tangled => canonical[l].asset = c /\ canonical[l].content # None

\* Only a promotion that is to mark its Candidate has a place at these steps.
CopiedOK(p) ==
  job[p].pc \in {"candidate_open", "candidate_fill"} /\ Place(p) # None =>
    Copied(Subject(p), Place(p))

CopiedInv ==
  /\ \A i \in integrated : Copied(i[1], i[2])
  /\ \A p \in Processes : CopiedOK(p)

LibraryInv ==
  /\ Shapes /\ Subjects /\ ProposedInv /\ CheckedInv
  /\ FillingInv /\ FilledInv /\ LocationsInv /\ BackedInv /\ CopiedInv

-----------------------------------------------------------------------------
(***************************************************************************)
(* The steps of a command.                                                 *)
(***************************************************************************)

\* A command begins.
Starts(p) ==
  \E j \in Jobs :
    /\ Call(p, j)
    /\ \/ j.pc = "experience_open" /\ j.subject \in Experiences
          /\ j.value \in {"UNTRIAGED", "TRIAGED"}
       \/ j.pc = "result_open" /\ j.subject \in Results
       \/ j.pc = "candidate_open" /\ j.subject \in Candidates
          /\ j.value \in {"DRAFT", "AUTHORIZED", "INTEGRATED"} /\ j.place = None
       \/ j.pc = "proposed" /\ j.subject \in Candidates /\ candidate[j.subject] = "AUTHORIZED"

CommandStep(p) ==
  \/ Kill(p) \/ Starts(p) \/ OpenExperience(p) \/ FillExperience(p)
  \/ OpenResult(p) \/ FillResult(p) \/ OpenCandidate(p) \/ FillCandidate(p) \/ WriteProposed(p)
  \/ CheckProposed(p) \/ EnsureSourcesTriaged(p) \/ LoadExisting(p) \/ ValidateOperation(p)
  \/ EnsureTransferEvidence(p) \/ EnsureEvals(p) \/ ReportReadiness(p) \/ ChooseDestination(p)
  \/ MakeDestination(p) \/ WriteAsset(p) \/ WriteContent(p) \/ LoadPromoted(p)
  \/ ReadLedger(p) \/ OpenLedger(p) \/ FillLedger(p)

LEMMA StepNames ==
  {"idle", "experience_open", "experience_fill", "result_open", "result_fill", "candidate_open",
   "candidate_fill", "proposed_open", "proposed_fill", "text_open", "text_fill", "proposed",
   "sources", "existing", "operation", "transfer", "evals", "destination", "mkdir", "asset_open",
   "asset_fill", "content_open", "content_fill", "load", "ledger_read", "ledger_open",
   "ledger_fill"} \subseteq Steps
BY DEF Steps, Creating, Promoting, Checked, Sourced, Validated, Transferred, Evaluated, Filling,
       Filled

LEMMA StageNames ==
  /\ Filling \subseteq Promoting /\ Filled \subseteq Promoting
  /\ {"proposed", "sources", "existing", "operation", "transfer", "evals", "destination", "mkdir"}
       \subseteq Promoting
  /\ {"candidate_open", "candidate_fill", "proposed_open", "proposed_fill", "text_open",
      "text_fill"} \subseteq Creating
  /\ {"asset_open", "asset_fill", "content_open", "content_fill"} \subseteq Filling
  /\ {"load", "ledger_read", "ledger_open", "ledger_fill"} \subseteq Filled
BY DEF Creating, Promoting, Checked, Sourced, Validated, Transferred, Evaluated, Filling, Filled

LEMMA IdleIsAJob == Idle \in Jobs /\ Idle.pc = "idle"
BY StepNames DEF Idle, Jobs

LEMMA LearningSteps ==
  ASSUME Next
  PROVE  \/ \E p \in Processes : CommandStep(p)
         \/ \E c \in Candidates, s \in {"AUTHORIZED", "WITHDRAWN"} : Decide(c, s)
<1>1. ASSUME NEW p \in Processes, NEW x \in Experiences, NEW s \in {"UNTRIAGED", "TRIAGED"},
             CaptureExperience(p, x, s)
      PROVE  Starts(p)
  <2>1. [Idle EXCEPT !.pc = "experience_open", !.subject = x, !.value = s] \in Jobs
    BY StepNames DEF Idle, Jobs
  <2> QED
    BY <1>1, <2>1 DEF CaptureExperience, Starts, Idle
<1>2. ASSUME NEW p \in Processes, NEW x \in Experiences, TriageExperience(p, x)
      PROVE  Starts(p)
  <2>1. [Idle EXCEPT !.pc = "experience_open", !.subject = x, !.value = "TRIAGED"] \in Jobs
    BY StepNames DEF Idle, Jobs
  <2> QED
    BY <1>2, <2>1 DEF TriageExperience, Starts, Idle
<1>3. ASSUME NEW p \in Processes, NEW r \in Results, RecordResult(p, r)
      PROVE  Starts(p)
  <2>1. [Idle EXCEPT !.pc = "result_open", !.subject = r] \in Jobs
    BY StepNames DEF Idle, Jobs
  <2> QED
    BY <1>3, <2>1 DEF RecordResult, Starts, Idle
<1>4. ASSUME NEW p \in Processes, NEW c \in Candidates, NEW s \in {"DRAFT", "AUTHORIZED", "INTEGRATED"},
             CreateCandidate(p, c, s)
      PROVE  Starts(p)
  <2>1. [Idle EXCEPT !.pc = "candidate_open", !.subject = c, !.value = s] \in Jobs
    BY StepNames DEF Idle, Jobs
  <2> QED
    BY <1>4, <2>1 DEF CreateCandidate, Starts, Idle
<1>5. ASSUME NEW p \in Processes, NEW c \in Candidates, FindCandidate(p, c)
      PROVE  Starts(p)
  <2>1. [Idle EXCEPT !.pc = "proposed", !.subject = c] \in Jobs
    BY StepNames DEF Idle, Jobs
  <2> QED
    BY <1>5, <2>1 DEF FindCandidate, Starts, Idle
<1> QED
  BY <1>1, <1>2, <1>3, <1>4, <1>5 DEF Next, CommandStep, CaptureFeedback

LEMMA VersionsOfCandidates ==
  ASSUME NEW c \in Candidates
  PROVE  /\ Id(c) \in Ids /\ Version(c) \in Versions /\ Version(c) \in Nat
         /\ BaseOf(c) \in Locations /\ BaseOf(c)[1] = Directory(c)
         /\ <<Directory(c), Version(c)>> \in Locations
BY LearningAssumption DEF Id, Version, Versions, Locations, Directory, BaseOf

\* Where a text is written, and what it does there.
LEMMA TargetIsALocation ==
  ASSUME NEW c \in Candidates, NEW l \in Locations
  PROVE  ContentPlace(c, l) \in Locations
BY LearningAssumption DEF ContentPlace

LEMMA PutMoves ==
  ASSUME canonical \in [Locations -> Held], NEW c \in Candidates, NEW l \in Locations,
         NEW text \in Candidates \cup {None, Empty, Torn}, Put(c, l, text)
  PROVE  /\ canonical' \in [Locations -> Held]
         /\ \A k \in Locations :
              /\ canonical'[k].dir = canonical[k].dir
              /\ canonical'[k].asset \in {canonical[k].asset, Torn}
              /\ canonical'[k] = canonical[k] \/ k = ContentPlace(c, l)
         /\ Own(c, l) => /\ ContentPlace(c, l) = l /\ canonical'[l].content = text
                         /\ canonical'[l].asset = canonical[l].asset
<1>1. ContentPlace(c, l) \in Locations
  BY TargetIsALocation
<1> QED
  BY <1>1 DEF Put, Own, Held

LEMMA ContentOfAVersion ==
  ASSUME canonical \in [Locations -> Held], NEW l \in Locations, canonical[l].asset \in Candidates
  PROVE  /\ ContentAt(l) \in Candidates \cup {Empty, Torn}
         /\ Own(canonical[l].asset, l) /\ canonical[l].content # None =>
              ContentAt(l) = canonical[l].content
<1>1. ContentPlace(canonical[l].asset, l) \in Locations
  BY TargetIsALocation
<1> QED
  BY <1>1 DEF ContentAt, Own, Held

(***************************************************************************)
(* What a step does to the state of its command.                           *)
(***************************************************************************)

LEMMA GotoMoves ==
  ASSUME job \in [Processes -> Jobs], NEW p \in Processes, NEW s \in Steps, Goto(p, s)
  PROVE  /\ job' \in [Processes -> Jobs]
         /\ \A q \in Processes \ {p} : job'[q] = job[q]
         /\ job'[p].pc = s
         /\ job'[p].subject = job[p].subject /\ job'[p].value = job[p].value
         /\ job'[p].seen = job[p].seen /\ job'[p].place = job[p].place
         /\ job'[p].copy = job[p].copy /\ job'[p].entries = job[p].entries
BY DEF Goto, Jobs

LEMMA ReturnMoves ==
  ASSUME job \in [Processes -> Jobs], NEW p \in Processes, Return(p)
  PROVE  /\ job' \in [Processes -> Jobs]
         /\ \A q \in Processes \ {p} : job'[q] = job[q]
         /\ job'[p] = Idle /\ job'[p].pc = "idle"
BY IdleIsAJob DEF Return

LEMMA SeenMoves ==
  ASSUME job \in [Processes -> Jobs], NEW p \in Processes, NEW s \in Steps,
         NEW x \in SUBSET Versions,
         job' = [job EXCEPT ![p].pc = s, ![p].seen = x]
  PROVE  /\ job' \in [Processes -> Jobs]
         /\ \A q \in Processes \ {p} : job'[q] = job[q]
         /\ job'[p].pc = s /\ job'[p].seen = x
         /\ job'[p].subject = job[p].subject /\ job'[p].value = job[p].value
         /\ job'[p].place = job[p].place /\ job'[p].copy = job[p].copy
         /\ job'[p].entries = job[p].entries
BY DEF Jobs

LEMMA PlaceMoves ==
  ASSUME job \in [Processes -> Jobs], NEW p \in Processes, NEW s \in Steps,
         NEW x \in Locations,
         job' = [job EXCEPT ![p].pc = s, ![p].place = x]
  PROVE  /\ job' \in [Processes -> Jobs]
         /\ \A q \in Processes \ {p} : job'[q] = job[q]
         /\ job'[p].pc = s /\ job'[p].place = x
         /\ job'[p].subject = job[p].subject /\ job'[p].value = job[p].value
         /\ job'[p].seen = job[p].seen /\ job'[p].copy = job[p].copy
         /\ job'[p].entries = job[p].entries
BY DEF Jobs

LEMMA CopyMoves ==
  ASSUME job \in [Processes -> Jobs], NEW p \in Processes, NEW s \in Steps,
         NEW x \in Candidates \cup {None, Empty, Torn},
         job' = [job EXCEPT ![p].pc = s, ![p].copy = x]
  PROVE  /\ job' \in [Processes -> Jobs]
         /\ \A q \in Processes \ {p} : job'[q] = job[q]
         /\ job'[p].pc = s /\ job'[p].copy = x
         /\ job'[p].subject = job[p].subject /\ job'[p].value = job[p].value
         /\ job'[p].seen = job[p].seen /\ job'[p].place = job[p].place
         /\ job'[p].entries = job[p].entries
BY DEF Jobs

LEMMA EntriesMoves ==
  ASSUME job \in [Processes -> Jobs], NEW p \in Processes, NEW s \in Steps,
         NEW x \in SUBSET Entries,
         job' = [job EXCEPT ![p].pc = s, ![p].entries = x]
  PROVE  /\ job' \in [Processes -> Jobs]
         /\ \A q \in Processes \ {p} : job'[q] = job[q]
         /\ job'[p].pc = s /\ job'[p].entries = x
         /\ job'[p].subject = job[p].subject /\ job'[p].value = job[p].value
         /\ job'[p].seen = job[p].seen /\ job'[p].place = job[p].place
         /\ job'[p].copy = job[p].copy
BY DEF Jobs

LEMMA ValueMoves ==
  ASSUME job \in [Processes -> Jobs], NEW p \in Processes, NEW s \in Steps,
         NEW x \in {None, "UNTRIAGED", "TRIAGED", "DRAFT", "AUTHORIZED", "INTEGRATED"},
         job' = [job EXCEPT ![p].pc = s, ![p].value = x]
  PROVE  /\ job' \in [Processes -> Jobs]
         /\ \A q \in Processes \ {p} : job'[q] = job[q]
         /\ job'[p].pc = s /\ job'[p].value = x
         /\ job'[p].subject = job[p].subject /\ job'[p].seen = job[p].seen
         /\ job'[p].place = job[p].place /\ job'[p].copy = job[p].copy
         /\ job'[p].entries = job[p].entries
BY DEF Jobs

LEMMA PlaceIsALocation ==
  ASSUME LibraryInv, NEW p \in Processes, job[p].pc \in {"mkdir"} \cup Filling \cup Filled
  PROVE  Place(p) \in Locations /\ Place(p)[1] = Directory(Subject(p)) /\ Subject(p) \in Candidates
BY StageNames DEF LibraryInv, FillingInv, PlaceOK, Subjects, SubjectOK

\* The entry that promote_candidate is about to append.
LEMMA EntryIsTyped ==
  ASSUME LibraryInv, NEW p \in Processes, job[p].pc = "ledger_read"
  PROVE  /\ Entry(Subject(p), job[p].copy, Place(p)) \in Entries
         /\ ledger \cup {Entry(Subject(p), job[p].copy, Place(p))} \in SUBSET Entries
<1>1. Subject(p) \in Candidates
  BY StageNames DEF LibraryInv, Subjects, SubjectOK
<1>2. Place(p) \in Locations
  BY StageNames DEF LibraryInv, FillingInv, PlaceOK
<1>3. job[p].copy # None
  BY StageNames DEF LibraryInv, FilledInv, FilledOK
<1>4. job[p].copy \in Candidates \cup {None, Empty, Torn}
  BY DEF LibraryInv, Shapes, Jobs
<1>5. job[p].copy \in Candidates \cup {Empty, Torn}
  BY <1>3, <1>4
<1>6. Entry(Subject(p), job[p].copy, Place(p)) \in Entries
  BY <1>1, <1>2, <1>5 DEF Entry, Entries
<1> QED
  BY <1>6 DEF LibraryInv, Shapes

LEMMA LoadExistingMoves ==
  ASSUME LibraryInv, NEW p \in Processes, LoadExisting(p)
  PROVE  /\ job' \in [Processes -> Jobs]
         /\ \A q \in Processes \ {p} : job'[q] = job[q]
         /\ \/ job'[p] = Idle /\ job'[p].pc = "idle"
            \/ /\ job'[p].pc = "operation"
               /\ job'[p].seen = {VersionAt(l) : l \in LoadedOf(Id(Subject(p)))}
               /\ job'[p].subject = job[p].subject /\ job'[p].value = job[p].value
               /\ job'[p].place = job[p].place /\ job'[p].copy = job[p].copy
               /\ job'[p].entries = job[p].entries
<1>a. job \in [Processes -> Jobs]
  BY DEF LibraryInv, Shapes
<1>1. {VersionAt(l) : l \in LoadedOf(Id(Subject(p)))} \in SUBSET Versions
  <2>1. \A l \in LoadedOf(Id(Subject(p))) : VersionAt(l) \in Versions
    BY VersionsOfCandidates DEF LoadedOf, Loaded, VersionAt
  <2> QED
    BY <2>1
<1>2. PICK x \in SUBSET Versions : x = {VersionAt(l) : l \in LoadedOf(Id(Subject(p)))}
  BY <1>1
<1>3. CASE Return(p)
  BY <1>a, <1>3, ReturnMoves
<1>4. ASSUME job' = [job EXCEPT ![p].pc = "operation", ![p].seen = x]
      PROVE  /\ job' \in [Processes -> Jobs]
             /\ \A q \in Processes \ {p} : job'[q] = job[q]
             /\ job'[p].pc = "operation" /\ job'[p].seen = x
             /\ job'[p].subject = job[p].subject /\ job'[p].value = job[p].value
             /\ job'[p].place = job[p].place /\ job'[p].copy = job[p].copy
             /\ job'[p].entries = job[p].entries
  <2>1. x \in SUBSET Versions /\ "operation" \in Steps
    BY <1>2, StepNames
  <2> QED
    BY <1>a, <1>4, <2>1, SeenMoves
<1> QED
  BY <1>2, <1>3, <1>4 DEF LoadExisting

LEMMA ChooseDestinationMoves ==
  ASSUME LibraryInv, NEW p \in Processes, ChooseDestination(p)
  PROVE  /\ job' \in [Processes -> Jobs]
         /\ \A q \in Processes \ {p} : job'[q] = job[q]
         /\ job'[p].pc = "mkdir" /\ job'[p].place = DestinationFor(Subject(p))
         /\ job'[p].subject = job[p].subject /\ job'[p].value = job[p].value
         /\ job'[p].seen = job[p].seen /\ job'[p].copy = job[p].copy
         /\ job'[p].entries = job[p].entries
<1>a. job \in [Processes -> Jobs]
  BY DEF LibraryInv, Shapes
<1>1. DestinationFor(Subject(p)) \in Locations
  <2>1. Subject(p) \in Candidates
    BY StageNames DEF ChooseDestination, At, LibraryInv, Subjects, SubjectOK
  <2> QED
    BY <2>1, VersionsOfCandidates DEF DestinationFor
<1>2. job' = [job EXCEPT ![p].pc = "mkdir", ![p].place = DestinationFor(Subject(p))]
  BY DEF ChooseDestination, At
<1> QED
  BY <1>a, <1>1, <1>2, PlaceMoves, StepNames

\* The content file of a promotion is opened, or cannot be.
LEMMA OpenContentMoves ==
  ASSUME LibraryInv, NEW p \in Processes, WriteContent(p), job[p].pc = "content_open"
  PROVE  /\ job' \in [Processes -> Jobs]
         /\ \A q \in Processes \ {p} : job'[q] = job[q]
         /\ \/ /\ job'[p] = Idle /\ job'[p].pc = "idle" /\ UNCHANGED files
               /\ UNCHANGED tangled /\ cut' = cut \cup {Place(p)}
            \/ /\ job'[p].pc = "content_fill" /\ job'[p].copy = proposed[Subject(p)].content
               /\ job'[p].subject = job[p].subject /\ job'[p].value = job[p].value
               /\ job'[p].seen = job[p].seen /\ job'[p].place = job[p].place
               /\ job'[p].entries = job[p].entries
               /\ Put(Subject(p), Place(p), Empty) /\ canonical[TargetOf(p)].dir
               /\ Proposals[Subject(p)].contentFile \in {"CONTENT", "ASSET"}
               /\ tangled' = IF Own(Subject(p), Place(p)) THEN tangled
                             ELSE tangled \cup {Place(p), TargetOf(p)}
               /\ UNCHANGED <<ledger, cut>>
<1>a. job \in [Processes -> Jobs]
  BY DEF LibraryInv, Shapes
<1>1. proposed[Subject(p)].content \in Candidates \cup {None, Empty}
  <2>1. Subject(p) \in Candidates
    BY StageNames DEF LibraryInv, Subjects, SubjectOK
  <2> QED
    BY <2>1 DEF LibraryInv, Shapes, Files
<1>2. PICK x \in Candidates \cup {None, Empty} : x = proposed[Subject(p)].content
  BY <1>1
<1>3. CASE Writable(Subject(p), Place(p))
  <2>1. job' = [job EXCEPT ![p].pc = "content_fill", ![p].copy = x]
    BY <1>2, <1>3 DEF WriteContent, At
  <2>2. x \in Candidates \cup {None, Empty, Torn} /\ "content_fill" \in Steps
    BY <1>2, StepNames
  <2>3. /\ job' \in [Processes -> Jobs]
        /\ \A q \in Processes \ {p} : job'[q] = job[q]
        /\ job'[p].pc = "content_fill" /\ job'[p].copy = x
        /\ job'[p].subject = job[p].subject /\ job'[p].value = job[p].value
        /\ job'[p].seen = job[p].seen /\ job'[p].place = job[p].place
        /\ job'[p].entries = job[p].entries
    BY <1>a, <2>1, <2>2, CopyMoves
  <2>4. /\ Put(Subject(p), Place(p), Empty) /\ canonical[TargetOf(p)].dir
        /\ Proposals[Subject(p)].contentFile \in {"CONTENT", "ASSET"}
        /\ tangled' = IF Own(Subject(p), Place(p)) THEN tangled
                      ELSE tangled \cup {Place(p), TargetOf(p)}
        /\ UNCHANGED <<ledger, cut>>
    BY <1>3 DEF WriteContent, At, Writable, TargetOf
  <2> QED
    BY <1>2, <2>3, <2>4
<1>4. CASE ~Writable(Subject(p), Place(p))
  <2>1. Return(p) /\ UNCHANGED files /\ UNCHANGED tangled /\ cut' = cut \cup {Place(p)}
    BY <1>4 DEF WriteContent, At
  <2> QED
    BY <1>a, <2>1, ReturnMoves
<1> QED
  BY <1>3, <1>4

LEMMA FillContentMoves ==
  ASSUME LibraryInv, NEW p \in Processes, WriteContent(p), job[p].pc # "content_open"
  PROVE  /\ job[p].pc = "content_fill" /\ Put(Subject(p), Place(p), job[p].copy)
         /\ UNCHANGED <<ledger, tangled, cut>>
         /\ job' \in [Processes -> Jobs]
         /\ \A q \in Processes \ {p} : job'[q] = job[q]
         /\ job'[p].pc = "load" /\ job'[p].subject = job[p].subject
         /\ job'[p].place = job[p].place
<1>a. job \in [Processes -> Jobs]
  BY DEF LibraryInv, Shapes
<1>1. /\ job[p].pc = "content_fill" /\ Put(Subject(p), Place(p), job[p].copy)
      /\ UNCHANGED <<ledger, tangled, cut>> /\ Goto(p, "load")
  BY DEF WriteContent, At, history, damage
<1> QED
  BY <1>a, <1>1, GotoMoves, StepNames

LEMMA WriteContentMoves ==
  ASSUME LibraryInv, NEW p \in Processes, WriteContent(p)
  PROVE  /\ job' \in [Processes -> Jobs]
         /\ \A q \in Processes \ {p} : job'[q] = job[q]
         /\ job'[p].pc \in {"idle", "content_fill", "load"}
         /\ job'[p].pc = "idle" \/ (/\ job'[p].subject = job[p].subject
                                    /\ job'[p].place = job[p].place)
BY OpenContentMoves, FillContentMoves

LEMMA LoadPromotedMoves ==
  ASSUME LibraryInv, NEW p \in Processes, LoadPromoted(p)
  PROVE  /\ job' \in [Processes -> Jobs]
         /\ \A q \in Processes \ {p} : job'[q] = job[q]
         /\ \/ job'[p] = Idle /\ job'[p].pc = "idle" /\ Broken
            \/ /\ job'[p].pc = "ledger_read" /\ job'[p].copy = ContentAt(Place(p))
               /\ canonical[Place(p)].asset = Subject(p) /\ job'[p].copy # None
               /\ job'[p].subject = job[p].subject /\ job'[p].value = job[p].value
               /\ job'[p].seen = job[p].seen /\ job'[p].place = job[p].place
               /\ job'[p].entries = job[p].entries
<1>a. job \in [Processes -> Jobs] /\ canonical \in [Locations -> Held]
  BY DEF LibraryInv, Shapes
<1>1. CASE Broken /\ Return(p)
  BY <1>a, <1>1, ReturnMoves
<1>2. CASE ~(Broken /\ Return(p))
  <2>1. Place(p) \in Locations /\ Subject(p) \in Candidates
    BY PlaceIsALocation, StageNames DEF LoadPromoted, At
  <2>2. canonical[Place(p)].asset = Subject(p)
    BY <1>2 DEF LoadPromoted
  <2>3. ContentAt(Place(p)) \in Candidates \cup {Empty, Torn}
    BY <1>a, <2>1, <2>2, ContentOfAVersion
  <2>4. PICK x \in Candidates \cup {Empty, Torn} : x = ContentAt(Place(p))
    BY <2>3
  <2>5. job' = [job EXCEPT ![p].pc = "ledger_read", ![p].copy = x]
    BY <1>2, <2>4 DEF LoadPromoted
  <2>6. x \in Candidates \cup {None, Empty, Torn} /\ "ledger_read" \in Steps /\ x # None
    BY <2>4, StepNames, LearningAssumption
  <2>7. /\ job' \in [Processes -> Jobs]
        /\ \A q \in Processes \ {p} : job'[q] = job[q]
        /\ job'[p].pc = "ledger_read" /\ job'[p].copy = x
        /\ job'[p].subject = job[p].subject /\ job'[p].value = job[p].value
        /\ job'[p].seen = job[p].seen /\ job'[p].place = job[p].place
        /\ job'[p].entries = job[p].entries
    BY <1>a, <2>5, <2>6 DEF Jobs
  <2> QED
    BY <2>2, <2>4, <2>6, <2>7
<1> QED
  BY <1>1, <1>2

LEMMA ReadLedgerMoves ==
  ASSUME LibraryInv, NEW p \in Processes, ReadLedger(p)
  PROVE  /\ job' \in [Processes -> Jobs]
         /\ \A q \in Processes \ {p} : job'[q] = job[q]
         /\ \/ job'[p] = Idle /\ job'[p].pc = "idle"
            \/ /\ job'[p].pc = "ledger_open" /\ job'[p].entries = ledger \cup {Entry(Subject(p), job[p].copy, Place(p))}
               /\ job'[p].subject = job[p].subject /\ job'[p].value = job[p].value
               /\ job'[p].seen = job[p].seen /\ job'[p].place = job[p].place
               /\ job'[p].copy = job[p].copy
<1>a. job \in [Processes -> Jobs]
  BY DEF LibraryInv, Shapes
<1>1. ledger \cup {Entry(Subject(p), job[p].copy, Place(p))} \in SUBSET Entries
  BY EntryIsTyped DEF ReadLedger, At
<1>2. PICK x \in SUBSET Entries : x = ledger \cup {Entry(Subject(p), job[p].copy, Place(p))}
  BY <1>1
<1>3. CASE Return(p)
  BY <1>a, <1>3, ReturnMoves
<1>4. ASSUME job' = [job EXCEPT ![p].pc = "ledger_open", ![p].entries = x]
      PROVE  /\ job' \in [Processes -> Jobs]
             /\ \A q \in Processes \ {p} : job'[q] = job[q]
             /\ job'[p].pc = "ledger_open" /\ job'[p].entries = x
             /\ job'[p].subject = job[p].subject /\ job'[p].value = job[p].value
             /\ job'[p].seen = job[p].seen /\ job'[p].place = job[p].place
             /\ job'[p].copy = job[p].copy
  <2>1. x \in SUBSET Entries /\ "ledger_open" \in Steps
    BY <1>2, StepNames
  <2> QED
    BY <1>a, <1>4, <2>1, EntriesMoves
<1> QED
  BY <1>2, <1>3, <1>4 DEF ReadLedger

LEMMA FillLedgerMoves ==
  ASSUME LibraryInv, NEW p \in Processes, FillLedger(p)
  PROVE  /\ job' \in [Processes -> Jobs]
         /\ \A q \in Processes \ {p} : job'[q] = job[q]
         /\ job'[p].pc = "candidate_open" /\ job'[p].value = "INTEGRATED"
         /\ job'[p].subject = job[p].subject /\ job'[p].seen = job[p].seen
         /\ job'[p].place = job[p].place /\ job'[p].copy = job[p].copy
         /\ job'[p].entries = job[p].entries
<1>a. job \in [Processes -> Jobs]
  BY DEF LibraryInv, Shapes
<1>1. "INTEGRATED" \in {None, "UNTRIAGED", "TRIAGED", "DRAFT", "AUTHORIZED", "INTEGRATED"}
  OBVIOUS
<1>2. job' = [job EXCEPT ![p].pc = "candidate_open", ![p].value = "INTEGRATED"]
  BY DEF FillLedger, At
<1> QED
  BY <1>a, <1>1, <1>2, ValueMoves, StepNames

LEMMA JobStep ==
  ASSUME LibraryInv, NEW p \in Processes, CommandStep(p)
  PROVE  /\ job' \in [Processes -> Jobs]
         /\ \A q \in Processes \ {p} : job'[q] = job[q]
<1>a. job \in [Processes -> Jobs]
  BY DEF LibraryInv, Shapes
<1> USE <1>a
<1>1. CASE Kill(p)
  BY <1>1, ReturnMoves DEF Kill
<1>2. CASE Starts(p)
  BY <1>2 DEF Starts, Call
<1>3. CASE OpenExperience(p)
  BY <1>3, GotoMoves, StepNames DEF OpenExperience, At
<1>4. CASE FillExperience(p)
  BY <1>4, ReturnMoves DEF FillExperience, At
<1>5. CASE OpenResult(p)
  BY <1>5, GotoMoves, StepNames DEF OpenResult, At
<1>6. CASE FillResult(p)
  BY <1>6, ReturnMoves DEF FillResult, At
<1>7. CASE OpenCandidate(p)
  BY <1>7, GotoMoves, StepNames DEF OpenCandidate, At
<1>8. CASE FillCandidate(p)
  BY <1>8, GotoMoves, ReturnMoves, StepNames DEF FillCandidate, At
<1>9. CASE WriteProposed(p)
  BY <1>9, GotoMoves, ReturnMoves, StepNames DEF WriteProposed, At
<1>10. CASE CheckProposed(p)
  BY <1>10, GotoMoves, ReturnMoves, StepNames DEF CheckProposed, At, Check
<1>11. CASE EnsureSourcesTriaged(p)
  BY <1>11, GotoMoves, ReturnMoves, StepNames DEF EnsureSourcesTriaged, At, Check
<1>12. CASE LoadExisting(p)
  BY <1>12, LoadExistingMoves
<1>13. CASE ValidateOperation(p)
  BY <1>13, GotoMoves, ReturnMoves, StepNames DEF ValidateOperation, At
<1>14. CASE EnsureTransferEvidence(p)
  BY <1>14, GotoMoves, ReturnMoves, StepNames DEF EnsureTransferEvidence, At, Check
<1>15. CASE EnsureEvals(p)
  BY <1>15, GotoMoves, ReturnMoves, StepNames DEF EnsureEvals, At, Check
<1>16. CASE ReportReadiness(p)
  BY <1>16, ReturnMoves DEF ReportReadiness, At
<1>17. CASE ChooseDestination(p)
  BY <1>17, ChooseDestinationMoves
<1>18. CASE MakeDestination(p)
  BY <1>18, GotoMoves, ReturnMoves, StepNames DEF MakeDestination, At
<1>19. CASE WriteAsset(p)
  BY <1>19, GotoMoves, StepNames DEF WriteAsset, At
<1>20. CASE WriteContent(p)
  BY <1>20, WriteContentMoves
<1>21. CASE LoadPromoted(p)
  BY <1>21, LoadPromotedMoves
<1>22. CASE ReadLedger(p)
  BY <1>22, ReadLedgerMoves
<1>23. CASE OpenLedger(p)
  BY <1>23, GotoMoves, StepNames DEF OpenLedger, At
<1>24. CASE FillLedger(p)
  BY <1>24, FillLedgerMoves
<1> QED
  BY <1>1, <1>2, <1>3, <1>4, <1>5, <1>6, <1>7, <1>8, <1>9, <1>10, <1>11, <1>12, <1>13, <1>14,
     <1>15, <1>16, <1>17, <1>18, <1>19, <1>20, <1>21, <1>22, <1>23, <1>24 DEF CommandStep

(***************************************************************************)
(* The parts of the invariant, one after the other.                        *)
(***************************************************************************)
LEMMA ShapesStep ==
  ASSUME LibraryInv, NEW p \in Processes, CommandStep(p)
  PROVE  Shapes'
<1>a. Shapes /\ Subjects /\ FillingInv
  BY DEF LibraryInv
<1>b. job' \in [Processes -> Jobs]
  BY JobStep
<1> USE <1>a, <1>b DEF Shapes
<1>1. CASE Kill(p)
  BY <1>1, LearningAssumption DEF Kill, files
<1>2. CASE Starts(p)
  BY <1>2, LearningAssumption DEF Starts, Call, files
<1>3. CASE OpenExperience(p)
  BY <1>3 DEF OpenExperience, At, Subjects, SubjectOK
<1>4. CASE FillExperience(p)
  BY <1>4 DEF FillExperience, At, Subjects, SubjectOK
<1>5. CASE OpenResult(p)
  BY <1>5 DEF OpenResult, At, Subjects, SubjectOK
<1>6. CASE FillResult(p)
  BY <1>6 DEF FillResult, At, Subjects, SubjectOK
<1>7. CASE OpenCandidate(p)
  BY <1>7, StageNames DEF OpenCandidate, At, Subjects, SubjectOK
<1>8. CASE FillCandidate(p)
  BY <1>8, StageNames DEF FillCandidate, At, Subjects, SubjectOK
<1>9. CASE WriteProposed(p)
  BY <1>9, StageNames DEF WriteProposed, At, Subjects, SubjectOK, Files
<1>10. CASE CheckProposed(p)
  BY <1>10 DEF CheckProposed, At, Check, files
<1>11. CASE EnsureSourcesTriaged(p)
  BY <1>11 DEF EnsureSourcesTriaged, At, Check, files
<1>12. CASE LoadExisting(p)
  BY <1>12 DEF LoadExisting, At, files
<1>13. CASE ValidateOperation(p)
  BY <1>13 DEF ValidateOperation, At, files
<1>14. CASE EnsureTransferEvidence(p)
  BY <1>14 DEF EnsureTransferEvidence, At, Check, files
<1>15. CASE EnsureEvals(p)
  BY <1>15 DEF EnsureEvals, At, Check, files
<1>16. CASE ReportReadiness(p)
  BY <1>16 DEF ReportReadiness, At, files
<1>17. CASE ChooseDestination(p)
  BY <1>17 DEF ChooseDestination, At, files
<1>18. CASE MakeDestination(p)
  <2>1. Place(p) \in Locations /\ Subject(p) \in Candidates
    BY <1>18, PlaceIsALocation, StageNames DEF MakeDestination, At
  <2> QED
    BY <1>18, <2>1 DEF MakeDestination, At, Held
<1>19. CASE WriteAsset(p)
  <2>1. Place(p) \in Locations /\ Subject(p) \in Candidates
    BY <1>19, PlaceIsALocation, StageNames DEF WriteAsset, At
  <2> QED
    BY <1>19, <2>1 DEF WriteAsset, At, Held
<1>20. CASE WriteContent(p)
  <2>1. Place(p) \in Locations /\ Subject(p) \in Candidates
    BY <1>20, PlaceIsALocation, StageNames DEF WriteContent, At
  <2>2. job[p].copy \in Candidates \cup {None, Empty, Torn}
    BY DEF Jobs
  <2>3. UNCHANGED <<experience, candidate, proposed, result, ledger, kills, calls>>
    BY <1>20 DEF WriteContent, At, files
  <2>4. canonical' \in [Locations -> Held]
    <3>1. CASE job[p].pc = "content_open"
      <4>1. UNCHANGED canonical \/ Put(Subject(p), Place(p), Empty)
        BY <1>20, <3>1, OpenContentMoves DEF files
      <4> QED
        BY <2>1, <4>1, PutMoves
    <3>2. CASE job[p].pc # "content_open"
      <4>1. Put(Subject(p), Place(p), job[p].copy)
        BY <1>20, <3>2, FillContentMoves
      <4> QED
        BY <2>1, <2>2, <4>1, PutMoves
    <3> QED
      BY <3>1, <3>2
  <2> QED
    BY <2>3, <2>4
<1>21. CASE LoadPromoted(p)
  BY <1>21 DEF LoadPromoted, At, files
<1>22. CASE ReadLedger(p)
  BY <1>22 DEF ReadLedger, At, files
<1>23. CASE OpenLedger(p)
  BY <1>23 DEF OpenLedger, At
<1>24. CASE FillLedger(p)
  BY <1>24 DEF FillLedger, At, Jobs
<1> QED
  BY <1>1, <1>2, <1>3, <1>4, <1>5, <1>6, <1>7, <1>8, <1>9, <1>10, <1>11, <1>12, <1>13, <1>14,
     <1>15, <1>16, <1>17, <1>18, <1>19, <1>20, <1>21, <1>22, <1>23, <1>24 DEF CommandStep

LEMMA SubjectsStep ==
  ASSUME LibraryInv, NEW p \in Processes, CommandStep(p)
  PROVE  Subjects'
<1>a. Shapes /\ Subjects /\ SubjectOK(p)
  BY DEF LibraryInv, Subjects
<1>b. job' \in [Processes -> Jobs] /\ \A q \in Processes \ {p} : job'[q] = job[q]
  BY JobStep
<1>c. job \in [Processes -> Jobs]
  BY <1>a DEF Shapes
<1>d. SUFFICES SubjectOK(p)'
  BY <1>a, <1>b DEF Subjects, SubjectOK, Subject
<1> USE <1>a, <1>c DEF SubjectOK, Subject, Creating, Promoting, Checked, Sourced, Validated,
        Transferred, Evaluated, Filling, Filled
<1>1. CASE Kill(p)
  BY <1>1, ReturnMoves DEF Kill
<1>2. CASE Starts(p)
  BY <1>2, <1>b DEF Starts, Call
<1>3. CASE OpenExperience(p)
  BY <1>3, GotoMoves, StepNames DEF OpenExperience, At
<1>4. CASE FillExperience(p)
  BY <1>4, ReturnMoves DEF FillExperience, At
<1>5. CASE OpenResult(p)
  BY <1>5, GotoMoves, StepNames DEF OpenResult, At
<1>6. CASE FillResult(p)
  BY <1>6, ReturnMoves DEF FillResult, At
<1>7. CASE OpenCandidate(p)
  BY <1>7, GotoMoves, StepNames DEF OpenCandidate, At
<1>8. CASE FillCandidate(p)
  BY <1>8, GotoMoves, ReturnMoves, StepNames DEF FillCandidate, At
<1>9. CASE WriteProposed(p)
  BY <1>9, GotoMoves, ReturnMoves, StepNames DEF WriteProposed, At
<1>10. CASE CheckProposed(p)
  BY <1>10, GotoMoves, ReturnMoves, StepNames DEF CheckProposed, At, Check
<1>11. CASE EnsureSourcesTriaged(p)
  BY <1>11, GotoMoves, ReturnMoves, StepNames DEF EnsureSourcesTriaged, At, Check
<1>12. CASE LoadExisting(p)
  BY <1>12, LoadExistingMoves, StepNames DEF LoadExisting, At
<1>13. CASE ValidateOperation(p)
  BY <1>13, GotoMoves, ReturnMoves, StepNames DEF ValidateOperation, At
<1>14. CASE EnsureTransferEvidence(p)
  BY <1>14, GotoMoves, ReturnMoves, StepNames DEF EnsureTransferEvidence, At, Check
<1>15. CASE EnsureEvals(p)
  BY <1>15, GotoMoves, ReturnMoves, StepNames DEF EnsureEvals, At, Check
<1>16. CASE ReportReadiness(p)
  BY <1>16, ReturnMoves DEF ReportReadiness, At
<1>17. CASE ChooseDestination(p)
  BY <1>17, ChooseDestinationMoves, StepNames DEF ChooseDestination, At
<1>18. CASE MakeDestination(p)
  BY <1>18, GotoMoves, ReturnMoves, StepNames DEF MakeDestination, At
<1>19. CASE WriteAsset(p)
  BY <1>19, GotoMoves, StepNames DEF WriteAsset, At
<1>20. CASE WriteContent(p)
  BY <1>20, WriteContentMoves DEF WriteContent, At
<1>21. CASE LoadPromoted(p)
  BY <1>21, LoadPromotedMoves, StepNames DEF LoadPromoted, At
<1>22. CASE ReadLedger(p)
  BY <1>22, ReadLedgerMoves, StepNames DEF ReadLedger, At
<1>23. CASE OpenLedger(p)
  BY <1>23, GotoMoves, StepNames DEF OpenLedger, At
<1>24. CASE FillLedger(p)
  BY <1>24, FillLedgerMoves, StepNames DEF FillLedger, At
<1> QED
  BY <1>1, <1>2, <1>3, <1>4, <1>5, <1>6, <1>7, <1>8, <1>9, <1>10, <1>11, <1>12, <1>13, <1>14,
     <1>15, <1>16, <1>17, <1>18, <1>19, <1>20, <1>21, <1>22, <1>23, <1>24 DEF CommandStep

LEMMA ProposedStep ==
  ASSUME LibraryInv, NEW p \in Processes, CommandStep(p)
  PROVE  /\ ProposedInv'
         /\ \A c \in Candidates :
              /\ proposed[c].asset # None => proposed'[c].asset # None
              /\ proposed[c].content # None => proposed'[c].content # None
<1>a. Shapes /\ Subjects /\ ProposedInv /\ SubjectOK(p) /\ CheckedOK(p)
  BY DEF LibraryInv, Subjects, CheckedInv
<1>1. CASE WriteProposed(p)
  <2>1. Subject(p) \in Candidates
    BY <1>a, <1>1, StageNames DEF WriteProposed, At, SubjectOK
  <2>2. proposed \in [Candidates -> Files]
    BY <1>a DEF Shapes
  <2>3. \A c \in Candidates \ {Subject(p)} : proposed'[c] = proposed[c]
    BY <1>1, <2>1, <2>2 DEF WriteProposed
  <2>4. /\ proposed'[Subject(p)].asset \in {proposed[Subject(p)].asset, Torn, Subject(p)}
        /\ proposed'[Subject(p)].content \in {proposed[Subject(p)].content, Empty, Subject(p)}
        /\ \/ proposed'[Subject(p)].asset \in {Torn, Subject(p)}
           \/ proposed'[Subject(p)].asset = proposed[Subject(p)].asset
        /\ proposed'[Subject(p)].content = proposed[Subject(p)].content
             \/ job[p].pc \in {"text_open", "text_fill"}
    BY <1>1, <2>1, <2>2 DEF WriteProposed, Files, At
  <2> QED
    BY <1>a, <2>1, <2>3, <2>4, LearningAssumption DEF ProposedInv, CheckedOK
<1>2. CASE UNCHANGED proposed
  BY <1>a, <1>2 DEF ProposedInv
<1>3. CASE ~WriteProposed(p)
  BY <1>2, <1>3 DEF CommandStep, files, Call, Kill, Starts, OpenExperience, FillExperience,
     OpenResult, FillResult, OpenCandidate, FillCandidate, CheckProposed, EnsureSourcesTriaged,
     LoadExisting, ValidateOperation, EnsureTransferEvidence, EnsureEvals, ReportReadiness,
     ChooseDestination, MakeDestination, WriteAsset, WriteContent, LoadPromoted, ReadLedger,
     OpenLedger, FillLedger
<1> QED
  BY <1>1, <1>3

LEMMA CheckedStep ==
  ASSUME LibraryInv, NEW p \in Processes, CommandStep(p)
  PROVE  CheckedInv'
<1>a. Shapes /\ Subjects /\ CheckedInv /\ SubjectOK(p) /\ CheckedOK(p)
  BY DEF LibraryInv, Subjects, CheckedInv
<1>b. job' \in [Processes -> Jobs] /\ \A q \in Processes \ {p} : job'[q] = job[q]
  BY JobStep
<1>c. job \in [Processes -> Jobs] /\ proposed \in [Candidates -> Files]
  BY <1>a DEF Shapes
<1>d. \A c \in Candidates :
        /\ proposed[c].asset # None => proposed'[c].asset # None
        /\ proposed[c].content # None => proposed'[c].content # None
  BY ProposedStep
<1>e. \A q \in Processes \ {p} : CheckedOK(q)'
  <2> TAKE q \in Processes \ {p}
  <2>1. /\ CheckedOK(q) /\ SubjectOK(q) /\ job'[q] = job[q]
        /\ job[q].pc \in Checked \cup {"text_open", "text_fill"} => Subject(q) \in Candidates
    BY <1>a, <1>b, StageNames DEF CheckedInv, Subjects, SubjectOK, Promoting
  <2> QED
    BY <1>d, <2>1 DEF CheckedOK, Subject
<1>f. SUFFICES CheckedOK(p)'
  BY <1>e DEF CheckedInv
<1>g. job[p].pc \in Promoting \cup Creating => Subject(p) \in Candidates
  BY <1>a DEF SubjectOK
<1> USE <1>a, <1>c, <1>d, <1>g DEF CheckedOK, Subject, Creating, Promoting, Checked, Sourced,
        Validated, Transferred, Evaluated, Filling, Filled
<1>1. CASE Kill(p)
  BY <1>1, ReturnMoves DEF Kill
<1>2. CASE Starts(p)
  BY <1>2, <1>b DEF Starts, Call
<1>3. CASE OpenExperience(p)
  BY <1>3, GotoMoves, StepNames DEF OpenExperience, At
<1>4. CASE FillExperience(p)
  BY <1>4, ReturnMoves DEF FillExperience, At
<1>5. CASE OpenResult(p)
  BY <1>5, GotoMoves, StepNames DEF OpenResult, At
<1>6. CASE FillResult(p)
  BY <1>6, ReturnMoves DEF FillResult, At
<1>7. CASE OpenCandidate(p)
  BY <1>7, GotoMoves, StepNames DEF OpenCandidate, At
<1>8. CASE FillCandidate(p)
  BY <1>8, GotoMoves, ReturnMoves, StepNames DEF FillCandidate, At
<1>9. CASE WriteProposed(p)
  BY <1>9, GotoMoves, ReturnMoves, StepNames, LearningAssumption DEF WriteProposed, At, Files
<1>10. CASE CheckProposed(p)
  BY <1>10, GotoMoves, ReturnMoves, StepNames DEF CheckProposed, At, Check
<1>11. CASE EnsureSourcesTriaged(p)
  BY <1>11, GotoMoves, ReturnMoves, StepNames DEF EnsureSourcesTriaged, At, Check
<1>12. CASE LoadExisting(p)
  BY <1>12, LoadExistingMoves, StepNames DEF LoadExisting, At
<1>13. CASE ValidateOperation(p)
  BY <1>13, GotoMoves, ReturnMoves, StepNames DEF ValidateOperation, At
<1>14. CASE EnsureTransferEvidence(p)
  BY <1>14, GotoMoves, ReturnMoves, StepNames DEF EnsureTransferEvidence, At, Check
<1>15. CASE EnsureEvals(p)
  BY <1>15, GotoMoves, ReturnMoves, StepNames DEF EnsureEvals, At, Check
<1>16. CASE ReportReadiness(p)
  BY <1>16, ReturnMoves DEF ReportReadiness, At
<1>17. CASE ChooseDestination(p)
  BY <1>17, ChooseDestinationMoves, StepNames DEF ChooseDestination, At
<1>18. CASE MakeDestination(p)
  BY <1>18, GotoMoves, ReturnMoves, StepNames DEF MakeDestination, At
<1>19. CASE WriteAsset(p)
  BY <1>19, GotoMoves, StepNames DEF WriteAsset, At
<1>20. CASE WriteContent(p)
  BY <1>20, WriteContentMoves DEF WriteContent, At
<1>21. CASE LoadPromoted(p)
  BY <1>21, LoadPromotedMoves, StepNames DEF LoadPromoted, At
<1>22. CASE ReadLedger(p)
  BY <1>22, ReadLedgerMoves, StepNames DEF ReadLedger, At
<1>23. CASE OpenLedger(p)
  BY <1>23, GotoMoves, StepNames DEF OpenLedger, At
<1>24. CASE FillLedger(p)
  BY <1>24, FillLedgerMoves, StepNames DEF FillLedger, At
<1> QED
  BY <1>1, <1>2, <1>3, <1>4, <1>5, <1>6, <1>7, <1>8, <1>9, <1>10, <1>11, <1>12, <1>13, <1>14,
     <1>15, <1>16, <1>17, <1>18, <1>19, <1>20, <1>21, <1>22, <1>23, <1>24 DEF CommandStep

(***************************************************************************)
(* Only three steps of a promotion change the library.                     *)
(***************************************************************************)
Quiet(p) == ~MakeDestination(p) /\ ~WriteAsset(p) /\ ~WriteContent(p)

LEMMA QuietStep ==
  ASSUME LibraryInv, NEW p \in Processes, CommandStep(p), Quiet(p)
  PROVE  /\ UNCHANGED <<canonical, tangled>> /\ cut \subseteq cut'
         /\ job'[p].pc \notin Filling
<1>a. job \in [Processes -> Jobs]
  BY DEF LibraryInv, Shapes
<1>b. job' \in [Processes -> Jobs]
  BY JobStep
<1> USE <1>a DEF Filling, history, damage
<1>1. CASE Kill(p)
  BY <1>1, ReturnMoves DEF Kill, files
<1>2. CASE Starts(p)
  BY <1>2, <1>b DEF Starts, Call, files
<1>3. CASE OpenExperience(p)
  BY <1>3, GotoMoves, StepNames DEF OpenExperience, At
<1>4. CASE FillExperience(p)
  BY <1>4, ReturnMoves DEF FillExperience, At
<1>5. CASE OpenResult(p)
  BY <1>5, GotoMoves, StepNames DEF OpenResult, At
<1>6. CASE FillResult(p)
  BY <1>6, ReturnMoves DEF FillResult, At
<1>7. CASE OpenCandidate(p)
  BY <1>7, GotoMoves, StepNames DEF OpenCandidate, At
<1>8. CASE FillCandidate(p)
  BY <1>8, GotoMoves, ReturnMoves, StepNames DEF FillCandidate, At
<1>9. CASE WriteProposed(p)
  BY <1>9, GotoMoves, ReturnMoves, StepNames DEF WriteProposed, At
<1>10. CASE CheckProposed(p)
  BY <1>10, GotoMoves, ReturnMoves, StepNames DEF CheckProposed, At, Check, files
<1>11. CASE EnsureSourcesTriaged(p)
  BY <1>11, GotoMoves, ReturnMoves, StepNames DEF EnsureSourcesTriaged, At, Check, files
<1>12. CASE LoadExisting(p)
  BY <1>12, LoadExistingMoves, StepNames DEF LoadExisting, At, files
<1>13. CASE ValidateOperation(p)
  BY <1>13, GotoMoves, ReturnMoves, StepNames DEF ValidateOperation, At, files
<1>14. CASE EnsureTransferEvidence(p)
  BY <1>14, GotoMoves, ReturnMoves, StepNames DEF EnsureTransferEvidence, At, Check, files
<1>15. CASE EnsureEvals(p)
  BY <1>15, GotoMoves, ReturnMoves, StepNames DEF EnsureEvals, At, Check, files
<1>16. CASE ReportReadiness(p)
  BY <1>16, ReturnMoves DEF ReportReadiness, At, files
<1>17. CASE ChooseDestination(p)
  BY <1>17, ChooseDestinationMoves, StepNames DEF ChooseDestination, At, files
<1>18. CASE LoadPromoted(p)
  BY <1>18, LoadPromotedMoves, StepNames DEF LoadPromoted, At, files
<1>19. CASE ReadLedger(p)
  BY <1>19, ReadLedgerMoves, StepNames DEF ReadLedger, At, files
<1>20. CASE OpenLedger(p)
  BY <1>20, GotoMoves, StepNames DEF OpenLedger, At
<1>21. CASE FillLedger(p)
  BY <1>21, FillLedgerMoves, StepNames DEF FillLedger, At
<1> QED
  BY <1>1, <1>2, <1>3, <1>4, <1>5, <1>6, <1>7, <1>8, <1>9, <1>10, <1>11, <1>12, <1>13, <1>14,
     <1>15, <1>16, <1>17, <1>18, <1>19, <1>20, <1>21 DEF CommandStep, Quiet

LEMMA SettledStaysQuiet ==
  ASSUME LibraryInv, NEW p \in Processes, CommandStep(p), Quiet(p)
  PROVE  \A l \in Locations : Settled(l) => Settled(l)'
<1>1. UNCHANGED canonical /\ job'[p].pc \notin Filling
  BY QuietStep
<1>2. \A q \in Processes \ {p} : job'[q] = job[q]
  BY JobStep
<1> QED
  BY <1>1, <1>2 DEF Settled, Place

\* A step that writes to the library, writes to a location that is not settled,
\* or to one that a contentFile tangles.
LEMMA WriterMoves ==
  ASSUME LibraryInv, NEW p \in Processes, MakeDestination(p) \/ WriteAsset(p) \/ WriteContent(p)
  PROVE  /\ Place(p) \in Locations
         /\ tangled \subseteq tangled' /\ cut \subseteq cut'
         /\ \A l \in Locations \ {Place(p)} :
              /\ canonical'[l].dir = canonical[l].dir
              /\ canonical'[l].asset \in {canonical[l].asset, Torn}
              /\ l \notin tangled' => canonical'[l] = canonical[l]
         /\ ~Settled(Place(p)) \/ (UNCHANGED canonical /\ job'[p].pc = "idle")
         /\ canonical[Place(p)].dir => canonical'[Place(p)].dir
         /\ job'[p].pc \in {"idle"} \cup Filling \cup Filled
         /\ job'[p].pc = "idle" \/ (Subject(p)' = Subject(p) /\ Place(p)' = Place(p))
<1>a. /\ job \in [Processes -> Jobs] /\ FillOK(p)
      /\ canonical \in [Locations -> Held]
  BY DEF LibraryInv, Shapes, FillingInv
<1>b. job[p].pc \in {"mkdir"} \cup Filling \cup Filled
  BY StageNames DEF MakeDestination, WriteAsset, WriteContent, At
<1>c. Place(p) \in Locations /\ Subject(p) \in Candidates
  BY <1>b, PlaceIsALocation
<1>1. CASE MakeDestination(p)
  <2>1. UNCHANGED <<tangled, cut>>
    BY <1>1 DEF MakeDestination, history, damage
  <2> QED
    BY <1>a, <1>c, <1>1, <2>1, GotoMoves, ReturnMoves, StepNames, StageNames
    DEF MakeDestination, At, Settled, Subject, Place, Held
<1>2. CASE WriteAsset(p)
  <2>1. UNCHANGED <<tangled, cut>>
    BY <1>2 DEF WriteAsset, history, damage
  <2> QED
    BY <1>a, <1>c, <1>2, <2>1, GotoMoves, StepNames, StageNames
    DEF WriteAsset, At, Settled, Subject, Place, Held
<1>3. CASE WriteContent(p)
  <2>1. job[p].pc \in Filling
    BY <1>3, StageNames DEF WriteContent, At
  <2>2. ~Settled(Place(p))
    BY <2>1 DEF Settled
  <2>3. /\ job'[p].pc \in {"idle"} \cup Filling \cup Filled
        /\ job'[p].pc = "idle" \/ (Subject(p)' = Subject(p) /\ Place(p)' = Place(p))
    BY <1>3, WriteContentMoves, StageNames DEF Subject, Place
  <2>4. CASE UNCHANGED canonical /\ UNCHANGED tangled /\ cut' = cut \cup {Place(p)}
    BY <1>c, <2>2, <2>3, <2>4
  <2>5. ASSUME NEW text \in Candidates \cup {None, Empty, Torn}, Put(Subject(p), Place(p), text),
               tangled \subseteq tangled', UNCHANGED cut,
               Own(Subject(p), Place(p)) \/ TargetOf(p) \in tangled'
        PROVE  /\ tangled \subseteq tangled' /\ cut \subseteq cut'
               /\ \A l \in Locations \ {Place(p)} :
                    /\ canonical'[l].dir = canonical[l].dir
                    /\ canonical'[l].asset \in {canonical[l].asset, Torn}
                    /\ l \notin tangled' => canonical'[l] = canonical[l]
               /\ canonical[Place(p)].dir => canonical'[Place(p)].dir
    BY <1>a, <1>c, <2>5, PutMoves DEF TargetOf
  <2>6. CASE job[p].pc = "content_open"
    <3>1. CASE UNCHANGED files /\ UNCHANGED tangled /\ cut' = cut \cup {Place(p)}
      BY <2>4, <3>1 DEF files
    <3>2. CASE ~(UNCHANGED files /\ UNCHANGED tangled /\ cut' = cut \cup {Place(p)})
      <4>1. /\ Put(Subject(p), Place(p), Empty) /\ UNCHANGED cut
            /\ tangled' = IF Own(Subject(p), Place(p)) THEN tangled
                          ELSE tangled \cup {Place(p), TargetOf(p)}
        BY <1>3, <2>6, <3>2, OpenContentMoves
      <4> QED
        BY <1>c, <2>2, <2>3, <2>5, <4>1
    <3> QED
      BY <3>1, <3>2
  <2>7. CASE job[p].pc # "content_open"
    <3>1. /\ Put(Subject(p), Place(p), job[p].copy) /\ UNCHANGED <<cut, tangled>>
          /\ job[p].pc = "content_fill"
      BY <1>3, <2>7, FillContentMoves
    <3>2. Own(Subject(p), Place(p)) \/ TargetOf(p) \in tangled
      BY <1>a, <2>1, <3>1 DEF FillOK
    <3>3. job[p].copy \in Candidates \cup {None, Empty, Torn}
      BY <1>a DEF Jobs
    <3> QED
      BY <1>c, <2>2, <2>3, <2>5, <3>1, <3>2, <3>3
  <2> QED
    BY <2>6, <2>7
<1> QED
  BY <1>1, <1>2, <1>3

\* Directories stay, and what is tangled or cut short is never mended.
LEMMA DamageStays ==
  ASSUME LibraryInv, NEW p \in Processes, CommandStep(p)
  PROVE  /\ tangled \subseteq tangled' /\ cut \subseteq cut'
         /\ \A l \in Locations : canonical[l].dir => canonical'[l].dir
BY QuietStep, WriterMoves DEF Quiet

\* What is settled stays settled, and as it is unless a contentFile leads there.
LEMMA SettledStays ==
  ASSUME LibraryInv, NEW p \in Processes, CommandStep(p), NEW l \in Locations, Settled(l)
  PROVE  /\ Settled(l)' /\ canonical'[l].asset \in {canonical[l].asset, Torn}
         /\ l \notin tangled' => canonical'[l] = canonical[l] /\ l \notin tangled
<1>0. tangled \subseteq tangled'
  BY DamageStays
<1>1. CASE Quiet(p)
  BY <1>0, <1>1, QuietStep, SettledStaysQuiet
<1>2. CASE ~Quiet(p)
  <2>0. MakeDestination(p) \/ WriteAsset(p) \/ WriteContent(p)
    BY <1>2 DEF Quiet
  <2>a. \A q \in Processes \ {p} : job'[q] = job[q]
    BY JobStep
  <2>1. CASE l = Place(p)
    <3>1. UNCHANGED canonical /\ job'[p].pc = "idle"
      BY <2>0, <2>1, WriterMoves
    <3> QED
      BY <1>0, <2>a, <3>1 DEF Settled, Place, Filling
  <2>2. CASE l # Place(p)
    <3>1. /\ canonical'[l].dir = canonical[l].dir
          /\ canonical'[l].asset \in {canonical[l].asset, Torn}
          /\ l \notin tangled' => canonical'[l] = canonical[l]
          /\ job'[p].pc = "idle" \/ Place(p)' = Place(p)
      BY <2>0, <2>2, WriterMoves
    <3> QED
      BY <1>0, <2>a, <2>2, <3>1 DEF Settled, Place, Filling
  <2> QED
    BY <2>1, <2>2
<1> QED
  BY <1>1, <1>2

LEMMA PlaceStep ==
  ASSUME LibraryInv, NEW p \in Processes, CommandStep(p)
  PROVE  \A q \in Processes : PlaceOK(q)'
<1>a. /\ job \in [Processes -> Jobs] /\ PlaceOK(p) /\ SubjectOK(p)
      /\ \A q \in Processes : PlaceOK(q)
  BY DEF LibraryInv, Shapes, FillingInv, Subjects
<1>b. job' \in [Processes -> Jobs] /\ \A q \in Processes \ {p} : job'[q] = job[q]
  BY JobStep
<1>c. SUFFICES PlaceOK(p)'
  BY <1>a, <1>b DEF PlaceOK, Place, Subject
<1> USE <1>a DEF PlaceOK, Place, Subject, Filling, Filled
<1>1. CASE Kill(p)
  BY <1>1, ReturnMoves DEF Kill
<1>2. CASE Starts(p)
  BY <1>2, <1>b DEF Starts, Call
<1>3. CASE OpenExperience(p)
  BY <1>3, GotoMoves, StepNames DEF OpenExperience, At
<1>4. CASE FillExperience(p)
  BY <1>4, ReturnMoves DEF FillExperience, At
<1>5. CASE OpenResult(p)
  BY <1>5, GotoMoves, StepNames DEF OpenResult, At
<1>6. CASE FillResult(p)
  BY <1>6, ReturnMoves DEF FillResult, At
<1>7. CASE OpenCandidate(p)
  BY <1>7, GotoMoves, StepNames DEF OpenCandidate, At
<1>8. CASE FillCandidate(p)
  BY <1>8, GotoMoves, ReturnMoves, StepNames DEF FillCandidate, At
<1>9. CASE WriteProposed(p)
  BY <1>9, GotoMoves, ReturnMoves, StepNames DEF WriteProposed, At
<1>10. CASE CheckProposed(p)
  BY <1>10, GotoMoves, ReturnMoves, StepNames DEF CheckProposed, At, Check
<1>11. CASE EnsureSourcesTriaged(p)
  BY <1>11, GotoMoves, ReturnMoves, StepNames DEF EnsureSourcesTriaged, At, Check
<1>12. CASE LoadExisting(p)
  BY <1>12, LoadExistingMoves, StepNames DEF LoadExisting, At
<1>13. CASE ValidateOperation(p)
  BY <1>13, GotoMoves, ReturnMoves, StepNames DEF ValidateOperation, At
<1>14. CASE EnsureTransferEvidence(p)
  BY <1>14, GotoMoves, ReturnMoves, StepNames DEF EnsureTransferEvidence, At, Check
<1>15. CASE EnsureEvals(p)
  BY <1>15, GotoMoves, ReturnMoves, StepNames DEF EnsureEvals, At, Check
<1>16. CASE ReportReadiness(p)
  BY <1>16, ReturnMoves DEF ReportReadiness, At
<1>17. CASE ChooseDestination(p)
  <2>1. Subject(p) \in Candidates
    BY <1>17, StageNames DEF ChooseDestination, At, SubjectOK
  <2>2. /\ DestinationFor(Subject(p)) \in Locations
        /\ DestinationFor(Subject(p))[1] = Directory(Subject(p))
    BY <2>1, VersionsOfCandidates DEF DestinationFor
  <2> QED
    BY <1>17, <2>2, ChooseDestinationMoves
<1>18. CASE MakeDestination(p)
  BY <1>18, GotoMoves, ReturnMoves, StepNames DEF MakeDestination, At
<1>19. CASE WriteAsset(p)
  BY <1>19, GotoMoves, StepNames DEF WriteAsset, At
<1>20. CASE WriteContent(p)
  BY <1>20, WriteContentMoves DEF WriteContent, At
<1>21. CASE LoadPromoted(p)
  BY <1>21, LoadPromotedMoves, StepNames DEF LoadPromoted, At
<1>22. CASE ReadLedger(p)
  BY <1>22, ReadLedgerMoves, StepNames DEF ReadLedger, At
<1>23. CASE OpenLedger(p)
  BY <1>23, GotoMoves, StepNames DEF OpenLedger, At
<1>24. CASE FillLedger(p)
  BY <1>24, FillLedgerMoves, StepNames DEF FillLedger, At
<1> QED
  BY <1>1, <1>2, <1>3, <1>4, <1>5, <1>6, <1>7, <1>8, <1>9, <1>10, <1>11, <1>12, <1>13, <1>14,
     <1>15, <1>16, <1>17, <1>18, <1>19, <1>20, <1>21, <1>22, <1>23, <1>24 DEF CommandStep

\* A step leaves the location alone that another promotion is filling.
LEMMA FillOfOthers ==
  ASSUME LibraryInv, NEW p \in Processes, CommandStep(p), NEW q \in Processes \ {p},
         job[q].pc \in Filling
  PROVE  /\ canonical'[Place(q)].asset \in {canonical[Place(q)].asset, Torn}
         /\ Place(q) \notin tangled' => canonical'[Place(q)] = canonical[Place(q)]
         /\ job'[p].pc \in Filling => Place(p)' # Place(q)
<1>a. FillingInv /\ PlaceOK(q) /\ FillOK(q)
  BY DEF LibraryInv, FillingInv
<1>b. Place(q) \in Locations /\ canonical[Place(q)].dir
  BY <1>a DEF PlaceOK, FillOK
<1>1. CASE Quiet(p)
  BY <1>1, QuietStep
<1>2. CASE MakeDestination(p)
  <2>1. CASE Place(p) = Place(q)
    <3>1. Return(p) /\ UNCHANGED canonical
      BY <1>2, <1>b, <2>1 DEF MakeDestination
    <3>2. job'[p].pc = "idle"
      BY <3>1, ReturnMoves DEF LibraryInv, Shapes
    <3> QED
      BY <3>1, <3>2 DEF Filling
  <2>2. CASE Place(p) # Place(q)
    BY <1>2, <1>b, <2>2, WriterMoves DEF Filling
  <2> QED
    BY <2>1, <2>2
<1>3. CASE WriteAsset(p) \/ WriteContent(p)
  <2>1. job[p].pc \in Filling
    BY <1>3, StageNames DEF WriteAsset, WriteContent, At
  <2>2. Place(p) # Place(q)
    BY <1>a, <2>1 DEF FillingInv
  <2> QED
    BY <1>3, <1>b, <2>2, WriterMoves DEF Filling
<1> QED
  BY <1>1, <1>2, <1>3 DEF Quiet

\* The step of a promotion that writes its content file.
LEMMA WriteContentFills ==
  ASSUME LibraryInv, NEW p \in Processes, WriteContent(p)
  PROVE  FillOK(p)'
<1>a. /\ job \in [Processes -> Jobs] /\ FillOK(p) /\ CheckedOK(p)
      /\ canonical \in [Locations -> Held]
  BY DEF LibraryInv, Shapes, FillingInv, CheckedInv
<1>1. Place(p) \in Locations /\ Subject(p) \in Candidates
  BY PlaceIsALocation, StageNames DEF WriteContent, At
<1>2. TargetOf(p) \in Locations
  BY <1>1, TargetIsALocation DEF TargetOf
<1>3. CASE job'[p].pc \notin Filling
  BY <1>3 DEF FillOK
<1>4. CASE job'[p].pc \in Filling
  <2>1. job[p].pc = "content_open"
    BY <1>4, FillContentMoves DEF Filling
  <2>2. /\ job'[p].pc = "content_fill" /\ job'[p].copy = proposed[Subject(p)].content
        /\ job'[p].place = job[p].place /\ job'[p].subject = job[p].subject
        /\ Put(Subject(p), Place(p), Empty) /\ canonical[TargetOf(p)].dir
        /\ tangled' = IF Own(Subject(p), Place(p)) THEN tangled
                      ELSE tangled \cup {Place(p), TargetOf(p)}
    BY <1>4, <2>1, OpenContentMoves DEF Filling
  <2>3. /\ canonical[Place(p)].dir /\ canonical[Place(p)].asset \in {Subject(p), Torn}
        /\ Place(p) \notin tangled => canonical[Place(p)].asset = Subject(p)
    BY <1>a, <2>1, StageNames DEF FillOK
  <2>4. proposed[Subject(p)].content # None
    BY <1>a, <2>1
    DEF CheckedOK, Checked, Sourced, Validated, Transferred, Evaluated, Filling
  <2>5. PICK k \in Locations : k = TargetOf(p)
    BY <1>2
  <2>6. PICK l \in Locations : l = Place(p)
    BY <1>1
  <2>7. /\ canonical'[l].dir = canonical[l].dir /\ canonical'[k].dir = canonical[k].dir
        /\ canonical'[l].asset \in {canonical[l].asset, Torn}
        /\ Own(Subject(p), l) => canonical'[l].content = Empty
                                 /\ canonical'[l].asset = canonical[l].asset
    BY <1>a, <1>1, <2>2, <2>6, PutMoves
  <2>8. Place(p)' = l /\ Subject(p)' = Subject(p) /\ TargetOf(p)' = k
    BY <2>2, <2>5, <2>6 DEF Place, Subject, TargetOf
  <2>9. Own(Subject(p), Place(p))' = Own(Subject(p), l)
    BY <2>8 DEF Own, ContentPlace
  <2>10. /\ canonical'[l].dir /\ canonical'[k].dir
         /\ canonical'[l].asset \in {Subject(p), Torn}
         /\ Own(Subject(p), l) \/ {l, k} \subseteq tangled'
         /\ l \notin tangled' => /\ canonical'[l].asset = Subject(p)
                                 /\ canonical'[l].content = Empty
    BY <2>2, <2>3, <2>5, <2>6, <2>7
  <2> QED
    BY <2>2, <2>4, <2>8, <2>9, <2>10 DEF FillOK
<1> QED
  BY <1>3, <1>4

LEMMA FillingStep ==
  ASSUME LibraryInv, NEW p \in Processes, CommandStep(p)
  PROVE  FillingInv'
<1>a. /\ job \in [Processes -> Jobs] /\ FillingInv /\ PlaceOK(p) /\ FillOK(p)
      /\ canonical \in [Locations -> Held]
      /\ LocationsInv
  BY DEF LibraryInv, Shapes, FillingInv
<1>b. \A q \in Processes \ {p} : job'[q] = job[q]
  BY JobStep
<1>c. Torn \notin Candidates /\ None \notin Candidates /\ None # Empty
  BY LearningAssumption
<1>1. \A q \in Processes : PlaceOK(q)'
  BY PlaceStep
<1>2. \A q \in Processes \ {p} : FillOK(q)'
  <2> SUFFICES ASSUME NEW q \in Processes \ {p}, job[q].pc \in Filling
               PROVE  FillOK(q)'
    BY <1>b DEF FillOK
  <2>1. job'[q] = job[q] /\ FillOK(q)
    BY <1>a, <1>b DEF FillingInv
  <2>2. /\ canonical'[Place(q)].asset \in {canonical[Place(q)].asset, Torn}
        /\ Place(q) \notin tangled' => canonical'[Place(q)] = canonical[Place(q)]
    BY FillOfOthers
  <2>3. Place(q) \in Locations /\ Subject(q) \in Candidates
    BY PlaceIsALocation
  <2>4. TargetOf(q) \in Locations
    BY <2>3, TargetIsALocation DEF TargetOf
  <2>5. /\ tangled \subseteq tangled'
        /\ canonical[Place(q)].dir => canonical'[Place(q)].dir
        /\ canonical[TargetOf(q)].dir => canonical'[TargetOf(q)].dir
    BY <2>3, <2>4, DamageStays
  <2>6. PICK c, l, k : c = Subject(q) /\ l = Place(q) /\ k = TargetOf(q)
    OBVIOUS
  <2>7. Subject(q)' = c /\ Place(q)' = l /\ TargetOf(q)' = k
    BY <2>1, <2>6 DEF Subject, Place, TargetOf
  <2>8. Own(Subject(q), Place(q))' = Own(c, l)
    BY <2>7 DEF Own, ContentPlace
  <2> QED
    BY <2>1, <2>2, <2>5, <2>6, <2>7, <2>8 DEF FillOK
<1>3. FillOK(p)'
  <2>1. CASE Quiet(p)
    BY <2>1, QuietStep DEF FillOK
  <2>2. CASE MakeDestination(p)
    <3>1. Place(p) \in Locations
      BY <2>2, WriterMoves
    <3>2. CASE canonical[Place(p)].dir
      BY <1>a, <2>2, <3>2, ReturnMoves DEF MakeDestination, FillOK, Filling
    <3>3. CASE ~canonical[Place(p)].dir
      <4>1. /\ canonical[Place(p)].asset = None
            /\ Place(p) \notin tangled => canonical[Place(p)].content = None
        BY <1>a, <1>c, <3>1, <3>3 DEF LocationsInv, LocationOK
      <4>2. job'[p].pc = "asset_open" /\ job'[p].place = job[p].place
        BY <1>a, <2>2, <3>3, GotoMoves, StepNames DEF MakeDestination
      <4>3. canonical' = [canonical EXCEPT ![Place(p)].dir = TRUE] /\ UNCHANGED tangled
        BY <2>2, <3>3 DEF MakeDestination, history, damage
      <4> QED
        BY <1>a, <3>1, <4>1, <4>2, <4>3 DEF FillOK, Place, Held
    <3> QED
      BY <3>2, <3>3
  <2>3. CASE WriteAsset(p)
    <3>1. Place(p) \in Locations
      BY <2>3, WriterMoves
    <3>2. /\ job'[p].pc \in {"asset_fill", "content_open"} /\ job'[p].place = job[p].place
          /\ job'[p].subject = job[p].subject
      BY <1>a, <2>3, GotoMoves, StepNames DEF WriteAsset
    <3>3. /\ canonical[Place(p)].dir
          /\ Place(p) \notin tangled => canonical[Place(p)].content = None
      BY <1>a, <2>3, StageNames DEF WriteAsset, At, FillOK
    <3>4. /\ canonical' = [canonical EXCEPT ![Place(p)].asset =
                            IF job'[p].pc = "asset_fill" THEN Torn ELSE Subject(p)]
          /\ UNCHANGED tangled
      BY <1>a, <2>3, GotoMoves, StepNames DEF WriteAsset, history, damage
    <3> QED
      BY <1>a, <3>1, <3>2, <3>3, <3>4 DEF FillOK, Place, Subject, Held
  <2>4. CASE WriteContent(p)
    BY <2>4, WriteContentFills
  <2> QED
    BY <2>1, <2>2, <2>3, <2>4 DEF Quiet
<1>4. ASSUME NEW q \in Processes, NEW r \in Processes, q # r,
             job'[q].pc \in Filling, job'[r].pc \in Filling
      PROVE  Place(q)' # Place(r)'
  <2>1. CASE q # p /\ r # p
    BY <1>a, <1>b, <1>4, <2>1 DEF FillingInv, Place
  <2>2. CASE q = p
    <3>1. job'[r] = job[r] /\ Place(r)' = Place(r)
      BY <1>b, <1>4, <2>2 DEF Place
    <3> QED
      BY <1>4, <2>2, <3>1, FillOfOthers
  <2>3. CASE r = p
    <3>1. job'[q] = job[q] /\ Place(q)' = Place(q)
      BY <1>b, <1>4, <2>3 DEF Place
    <3> QED
      BY <1>4, <2>3, <3>1, FillOfOthers
  <2> QED
    BY <2>1, <2>2, <2>3
<1> QED
  BY <1>1, <1>2, <1>3, <1>4 DEF FillingInv

\* Both files are written, unless the contentFile led elsewhere.
LEMMA ContentIsFilled ==
  ASSUME LibraryInv, NEW p \in Processes, WriteContent(p), job[p].pc = "content_fill"
  PROVE  FilledOK(p)'
<1>a. /\ job \in [Processes -> Jobs] /\ FillingInv /\ FillOK(p)
      /\ canonical \in [Locations -> Held]
  BY DEF LibraryInv, Shapes, FillingInv
<1>b. \A q \in Processes \ {p} : job'[q] = job[q]
  BY WriteContentMoves
<1>1. Place(p) \in Locations /\ Subject(p) \in Candidates /\ job[p].pc \in Filling
  BY PlaceIsALocation, StageNames
<1>2. /\ job'[p].pc = "load" /\ job'[p].place = job[p].place
      /\ job'[p].subject = job[p].subject /\ UNCHANGED tangled
      /\ Put(Subject(p), Place(p), job[p].copy)
  BY FillContentMoves
<1>3. /\ canonical[Place(p)].dir /\ canonical[Place(p)].asset \in {Subject(p), Torn}
      /\ job[p].copy # None
      /\ Place(p) \notin tangled => /\ canonical[Place(p)].asset = Subject(p)
                                    /\ Own(Subject(p), Place(p))
  BY <1>a, <1>1 DEF FillOK
<1>4. \A q \in Processes : job'[q].pc \in Filling => Place(q)' # Place(p)
  BY <1>a, <1>b, <1>1, <1>2 DEF FillingInv, Place, Filling
<1>5. PICK l \in Locations : l = Place(p)
  BY <1>1
<1>6. Place(p)' = l /\ Subject(p)' = Subject(p)
  BY <1>2, <1>5 DEF Place, Subject
<1>7. job[p].copy \in Candidates \cup {None, Empty, Torn}
  BY <1>a DEF Jobs
<1>8. /\ canonical'[l].dir /\ canonical'[l].asset \in {Subject(p), Torn}
      /\ l \notin tangled' => /\ canonical'[l].asset = Subject(p)
                              /\ canonical'[l].content # None
                              /\ Own(Subject(p), l)
  BY <1>a, <1>1, <1>2, <1>3, <1>5, <1>7, PutMoves
<1>9. Settled(Place(p))'
  BY <1>4, <1>5, <1>6, <1>8 DEF Settled
<1>10. Own(Subject(p), Place(p))' = Own(Subject(p), l)
  BY <1>6 DEF Own, ContentPlace
<1> QED
  BY <1>2, <1>6, <1>8, <1>9, <1>10 DEF FilledOK

\* A written location stays as it is while its promotion goes on.
LEMMA FilledStays ==
  ASSUME LibraryInv, NEW p \in Processes, CommandStep(p), NEW q \in Processes,
         job[q].pc \in Filled, Subject(q)' = Subject(q), Place(q)' = Place(q),
         job'[q].pc = "ledger_read" =>
           /\ job'[q].copy # None
           /\ Place(q) \notin tangled => job'[q].copy = canonical[Place(q)].content
  PROVE  FilledOK(q)'
<1>1. FilledOK(q) /\ Place(q) \in Locations
  BY StageNames, PlaceIsALocation DEF LibraryInv, FilledInv
<1>2. PICK c, l : c = Subject(q) /\ l = Place(q)
  OBVIOUS
<1>3. Subject(q)' = c /\ Place(q)' = l /\ l \in Locations
  BY <1>1, <1>2
<1>4. Settled(l) /\ canonical[l].asset \in {c, Torn}
  BY <1>1, <1>2 DEF FilledOK
<1>5. /\ Settled(l)' /\ canonical'[l].asset \in {canonical[l].asset, Torn}
      /\ l \notin tangled' => canonical'[l] = canonical[l] /\ l \notin tangled
  BY <1>3, <1>4, SettledStays
<1>6. Settled(Place(q))'
  BY <1>3, <1>5 DEF Settled
<1>7. Own(Subject(q), Place(q))' = Own(c, l)
  BY <1>3 DEF Own, ContentPlace
<1> QED
  BY <1>1, <1>2, <1>3, <1>4, <1>5, <1>6, <1>7 DEF FilledOK

LEMMA FilledStep ==
  ASSUME LibraryInv, NEW p \in Processes, CommandStep(p)
  PROVE  FilledInv'
<1>a. /\ job \in [Processes -> Jobs] /\ canonical \in [Locations -> Held]
      /\ FilledInv
  BY DEF LibraryInv, Shapes, FilledInv
<1>b. \A q \in Processes \ {p} : job'[q] = job[q]
  BY JobStep
<1>1. \A q \in Processes \ {p} : FilledOK(q)'
  <2> SUFFICES ASSUME NEW q \in Processes \ {p}, job[q].pc \in Filled
               PROVE  FilledOK(q)'
    BY <1>b DEF FilledOK
  <2>1. job'[q] = job[q] /\ FilledOK(q)
    BY <1>a, <1>b DEF FilledInv
  <2> QED
    BY <2>1, FilledStays DEF FilledOK, Place, Subject
<1>2. ASSUME job[p].pc \in Filled, job'[p].place = job[p].place, job'[p].subject = job[p].subject,
             job'[p].pc # "ledger_read"
      PROVE  FilledOK(p)'
  BY <1>2, FilledStays DEF Place, Subject
<1>3. ASSUME job'[p].pc \notin Filled
      PROVE  FilledOK(p)'
  BY <1>3 DEF FilledOK
<1>4. ASSUME WriteContent(p), job[p].pc = "content_fill"
      PROVE  FilledOK(p)'
  BY <1>4, ContentIsFilled
<1>5. FilledOK(p)'
  <2>a. job'  \in [Processes -> Jobs]
    BY JobStep
  <2> USE <1>a DEF Filled
  <2>1. CASE Kill(p)
    BY <2>1, ReturnMoves, <1>2, <1>3 DEF Kill
  <2>2. CASE Starts(p)
    BY <2>2, <1>2, <1>3, <2>a DEF Starts, Call
  <2>3. CASE OpenExperience(p)
    BY <2>3, GotoMoves, StepNames, <1>2, <1>3 DEF OpenExperience, At
  <2>4. CASE FillExperience(p)
    BY <2>4, ReturnMoves, <1>2, <1>3 DEF FillExperience, At
  <2>5. CASE OpenResult(p)
    BY <2>5, GotoMoves, StepNames, <1>2, <1>3 DEF OpenResult, At
  <2>6. CASE FillResult(p)
    BY <2>6, ReturnMoves, <1>2, <1>3 DEF FillResult, At
  <2>7. CASE OpenCandidate(p)
    BY <2>7, GotoMoves, StepNames, <1>2, <1>3 DEF OpenCandidate, At
  <2>8. CASE FillCandidate(p)
    BY <2>8, GotoMoves, ReturnMoves, StepNames, <1>2, <1>3 DEF FillCandidate, At
  <2>9. CASE WriteProposed(p)
    BY <2>9, GotoMoves, ReturnMoves, StepNames, <1>2, <1>3 DEF WriteProposed, At
  <2>10. CASE CheckProposed(p)
    BY <2>10, GotoMoves, ReturnMoves, StepNames, <1>2, <1>3 DEF CheckProposed, At, Check
  <2>11. CASE EnsureSourcesTriaged(p)
    BY <2>11, GotoMoves, ReturnMoves, StepNames, <1>2, <1>3 DEF EnsureSourcesTriaged, At, Check
  <2>12. CASE LoadExisting(p)
    BY <2>12, LoadExistingMoves, StepNames, <1>2, <1>3 DEF LoadExisting, At
  <2>13. CASE ValidateOperation(p)
    BY <2>13, GotoMoves, ReturnMoves, StepNames, <1>2, <1>3 DEF ValidateOperation, At
  <2>14. CASE EnsureTransferEvidence(p)
    BY <2>14, GotoMoves, ReturnMoves, StepNames, <1>2, <1>3 DEF EnsureTransferEvidence, At,
       Check
  <2>15. CASE EnsureEvals(p)
    BY <2>15, GotoMoves, ReturnMoves, StepNames, <1>2, <1>3 DEF EnsureEvals, At, Check
  <2>16. CASE ReportReadiness(p)
    BY <2>16, ReturnMoves, <1>2, <1>3 DEF ReportReadiness, At
  <2>17. CASE ChooseDestination(p)
    BY <2>17, ChooseDestinationMoves, StepNames, <1>2, <1>3 DEF ChooseDestination, At
  <2>18. CASE MakeDestination(p)
    BY <2>18, GotoMoves, ReturnMoves, StepNames, <1>2, <1>3 DEF MakeDestination, At
  <2>19. CASE WriteAsset(p)
    BY <2>19, GotoMoves, StepNames, <1>2, <1>3 DEF WriteAsset, At
  <2>20. CASE WriteContent(p)
    <3>1. CASE job[p].pc = "content_open"
      BY <2>20, <3>1, OpenContentMoves, <1>3
    <3>2. CASE job[p].pc # "content_open"
      BY <2>20, <3>2, FillContentMoves, <1>4
    <3> QED
      BY <3>1, <3>2
  <2>21. CASE LoadPromoted(p)
    <3>1. CASE job'[p].pc = "idle"
      BY <1>3, <3>1
    <3>2. CASE job'[p].pc # "idle"
      <4>1. /\ job[p].pc \in Filled /\ Place(p)' = Place(p) /\ Subject(p)' = Subject(p)
            /\ job'[p].copy = ContentAt(Place(p)) /\ job'[p].copy # None
            /\ canonical[Place(p)].asset = Subject(p)
        BY <2>21, <3>2, LoadPromotedMoves DEF LoadPromoted, At, Place, Subject
      <4>2. Place(p) \in Locations /\ Subject(p) \in Candidates /\ FilledOK(p)
        BY <1>a, <4>1, PlaceIsALocation, StageNames DEF FilledInv
      <4>3. Place(p) \notin tangled => job'[p].copy = canonical[Place(p)].content
        BY <1>a, <4>1, <4>2, ContentOfAVersion DEF FilledOK
      <4> QED
        BY <4>1, <4>3, FilledStays
    <3> QED
      BY <3>1, <3>2
  <2>22. CASE ReadLedger(p)
    BY <2>22, ReadLedgerMoves, StepNames, <1>2, <1>3 DEF ReadLedger, At
  <2>23. CASE OpenLedger(p)
    BY <2>23, GotoMoves, StepNames, <1>2, <1>3 DEF OpenLedger, At
  <2>24. CASE FillLedger(p)
    BY <2>24, FillLedgerMoves, StepNames, <1>2, <1>3 DEF FillLedger, At
  <2> QED
    BY <2>1, <2>2, <2>3, <2>4, <2>5, <2>6, <2>7, <2>8, <2>9, <2>10, <2>11, <2>12, <2>13, <2>14,
       <2>15, <2>16, <2>17, <2>18, <2>19, <2>20, <2>21, <2>22, <2>23, <2>24 DEF CommandStep
<1> QED
  BY <1>1, <1>5 DEF FilledInv

LEMMA LocationsStep ==
  ASSUME LibraryInv, NEW p \in Processes, CommandStep(p)
  PROVE  LocationsInv'
<1>a. /\ FillingInv /\ PlaceOK(p) /\ FillOK(p) /\ LocationsInv
      /\ canonical \in [Locations -> Held]
  BY DEF LibraryInv, Shapes, FillingInv
<1>b. Torn \notin Candidates /\ None # Torn /\ None \notin Candidates
  BY LearningAssumption
<1>1. CASE Quiet(p)
  BY <1>1, <1>a, QuietStep DEF LocationsInv, LocationOK
<1>2. CASE ~Quiet(p)
  <2>0. MakeDestination(p) \/ WriteAsset(p) \/ WriteContent(p)
    BY <1>2 DEF Quiet
  <2>1. /\ Place(p) \in Locations /\ tangled \subseteq tangled'
        /\ canonical' \in [Locations -> Held]
        /\ \A l \in Locations \ {Place(p)} :
             /\ canonical'[l].dir = canonical[l].dir
             /\ canonical'[l].asset \in {canonical[l].asset, Torn}
             /\ l \notin tangled' => canonical'[l] = canonical[l]
    BY <2>0, WriterMoves, ShapesStep DEF Shapes
  <2>2. LocationOK(Place(p))
    BY <1>a, <2>1 DEF LocationsInv
  <2>3. PICK l \in Locations : l = Place(p)
    BY <2>1
  <2>4. ASSUME NEW k \in Locations, k # l
        PROVE  LocationOK(k)'
    <3>1. /\ LocationOK(k) /\ canonical'[k].dir = canonical[k].dir
          /\ canonical'[k].asset \in {canonical[k].asset, Torn}
          /\ k \notin tangled' => canonical'[k] = canonical[k] /\ k \notin tangled
      BY <1>a, <2>1, <2>3, <2>4 DEF LocationsInv
    <3>2. canonical'[k].asset = Torn => canonical[k].dir
      <4>1. CASE job[p].pc = "content_open" \/ job[p].pc = "content_fill"
        <5>1. UNCHANGED canonical \/ k = TargetOf(p) \/ canonical'[k] = canonical[k]
          <6>1. WriteContent(p)
            BY <2>0, <4>1 DEF MakeDestination, WriteAsset, At
          <6>2. /\ Subject(p) \in Candidates
                /\ job[p].copy \in Candidates \cup {None, Empty, Torn}
            BY <6>1, PlaceIsALocation, StageNames DEF WriteContent, At, LibraryInv, Shapes, Jobs
          <6>3. \/ UNCHANGED canonical
                \/ \E text \in Candidates \cup {None, Empty, Torn} : Put(Subject(p), Place(p), text)
            BY <4>1, <6>1, <6>2, OpenContentMoves, FillContentMoves DEF files
          <6> QED
            BY <1>a, <2>1, <6>2, <6>3, PutMoves DEF TargetOf
        <5>2. UNCHANGED canonical \/ canonical[TargetOf(p)].dir
          <6>1. WriteContent(p)
            BY <2>0, <4>1 DEF MakeDestination, WriteAsset, At
          <6>2. CASE job[p].pc = "content_open"
            BY <6>1, <6>2, OpenContentMoves DEF files
          <6>3. CASE job[p].pc = "content_fill"
            BY <1>a, <6>3, StageNames DEF FillOK
          <6> QED
            BY <4>1, <6>2, <6>3
        <5> QED
          BY <1>b, <3>1, <5>1, <5>2 DEF LocationOK
      <4>2. CASE MakeDestination(p) \/ WriteAsset(p)
        <5>1. canonical'[k] = canonical[k]
          BY <1>a, <2>1, <2>3, <2>4, <4>2 DEF MakeDestination, WriteAsset
        <5> QED
          BY <1>b, <3>1, <5>1 DEF LocationOK
      <4> QED
        BY <2>0, <4>1, <4>2 DEF WriteContent, At
    <3> QED
      BY <1>b, <3>1, <3>2 DEF LocationOK
  <2>5. LocationOK(l)'
    <3>1. CASE MakeDestination(p)
      <4>1. /\ UNCHANGED tangled /\ canonical'[l].asset = canonical[l].asset
            /\ canonical'[l].content = canonical[l].content
            /\ canonical[l].dir => canonical'[l].dir
        BY <1>a, <2>1, <2>3, <3>1 DEF MakeDestination, history, damage, Held
      <4> QED
        BY <2>2, <2>3, <4>1 DEF LocationOK
    <3>2. CASE WriteAsset(p)
      <4>1. Subject(p) \in Candidates /\ Directory(Subject(p)) = l[1]
        BY <2>3, <3>2, PlaceIsALocation, StageNames DEF WriteAsset, At
      <4>2. canonical[l].dir /\ (l \notin tangled => canonical[l].content = None)
        BY <1>a, <2>3, <3>2, StageNames DEF WriteAsset, At, FillOK
      <4>3. /\ canonical'[l].dir /\ UNCHANGED tangled
            /\ canonical'[l].content = canonical[l].content
            /\ canonical'[l].asset \in {Torn, Subject(p)}
        BY <1>a, <2>3, <3>2, <4>2 DEF WriteAsset, history, damage, Held
      <4> QED
        BY <1>b, <4>1, <4>2, <4>3 DEF LocationOK
    <3>3. CASE WriteContent(p)
      <4>1. Subject(p) \in Candidates /\ Directory(Subject(p)) = l[1]
        BY <2>3, <3>3, PlaceIsALocation, StageNames DEF WriteContent, At
      <4>2. /\ canonical[l].dir /\ canonical[l].asset \in {Subject(p), Torn}
            /\ l \notin tangled => canonical[l].asset = Subject(p)
        BY <1>a, <2>3, <3>3, StageNames DEF WriteContent, At, FillOK
      <4>3. CASE UNCHANGED canonical
        BY <2>1, <2>2, <2>3, <4>3 DEF LocationOK
      <4>4. CASE ~UNCHANGED canonical
        <5>1. PICK text \in Candidates \cup {None, Empty, Torn} :
                /\ Put(Subject(p), l, text)
                /\ Own(Subject(p), l) \/ l \in tangled'
          <6>1. CASE job[p].pc = "content_open"
            BY <2>3, <3>3, <4>4, <6>1, OpenContentMoves DEF files
          <6>2. CASE job[p].pc # "content_open"
            <7>1. /\ Put(Subject(p), l, job[p].copy) /\ UNCHANGED tangled
                  /\ job[p].pc = "content_fill"
              BY <2>3, <3>3, <6>2, FillContentMoves
            <7>2. /\ job[p].copy \in Candidates \cup {None, Empty, Torn}
                  /\ Own(Subject(p), l) \/ l \in tangled
              BY <1>a, <2>3, <7>1, StageNames DEF LibraryInv, Shapes, Jobs, FillOK
            <7> QED
              BY <7>1, <7>2
          <6> QED
            BY <6>1, <6>2
        <5>2. /\ canonical'[l].dir = canonical[l].dir
              /\ canonical'[l].asset \in {canonical[l].asset, Torn}
              /\ Own(Subject(p), l) => canonical'[l].asset = canonical[l].asset
          BY <1>a, <4>1, <5>1, PutMoves
        <5> QED
          BY <1>b, <2>1, <4>1, <4>2, <5>1, <5>2 DEF LocationOK
      <4> QED
        BY <4>3, <4>4
    <3> QED
      BY <2>0, <3>1, <3>2, <3>3
  <2> QED
    BY <2>4, <2>5 DEF LocationsInv
<1> QED
  BY <1>1, <1>2

LEMMA BackedStays ==
  ASSUME LibraryInv, NEW p \in Processes, CommandStep(p), NEW e, Backed(e)
  PROVE  Backed(e)'
<1>1. e.at \in Locations /\ Settled(e.at)
  BY DEF Backed
<1>2. /\ Settled(e.at)' /\ canonical'[e.at].asset \in {canonical[e.at].asset, Torn}
      /\ e.at \notin tangled' => canonical'[e.at] = canonical[e.at] /\ e.at \notin tangled
  BY <1>1, SettledStays
<1> QED
  BY <1>1, <1>2 DEF Backed

\* What is about to be appended to the ledger is on disk.
LEMMA NewEntryBacked ==
  ASSUME LibraryInv, NEW p \in Processes, job[p].pc = "ledger_read"
  PROVE  Backed(Entry(Subject(p), job[p].copy, Place(p)))
<1>1. Place(p) \in Locations
  BY PlaceIsALocation, StageNames
<1>2. /\ Settled(Place(p)) /\ canonical[Place(p)].asset \in {Subject(p), Torn}
      /\ Place(p) \notin tangled =>
           /\ Own(Subject(p), Place(p)) /\ canonical[Place(p)].asset = Subject(p)
           /\ canonical[Place(p)].content = job[p].copy
  BY StageNames DEF LibraryInv, FilledInv, FilledOK
<1>3. PICK new : new = Entry(Subject(p), job[p].copy, Place(p))
  OBVIOUS
<1>4. new.by = Subject(p) /\ new.content = job[p].copy /\ new.at = Place(p)
  BY <1>3 DEF Entry
<1>5. Backed(new)
  BY <1>1, <1>2, <1>4 DEF Backed
<1> QED
  BY <1>3, <1>5

LEMMA BackedStep ==
  ASSUME LibraryInv, NEW p \in Processes, CommandStep(p)
  PROVE  BackedInv'
<1>a. job \in [Processes -> Jobs] /\ BackedInv
  BY DEF LibraryInv, Shapes
<1>b. job' \in [Processes -> Jobs] /\ \A q \in Processes \ {p} : job'[q] = job[q]
  BY JobStep
<1>c. \A e \in ledger : Backed(e)'
  BY <1>a, BackedStays DEF BackedInv
<1>d. \A q \in Processes : job[q].pc \in {"ledger_open", "ledger_fill"} =>
        \A e \in job[q].entries : Backed(e)'
  BY <1>a, BackedStays DEF BackedInv
<1>e. ASSUME \A e \in ledger' : Backed(e)',
             job'[p].pc \in {"ledger_open", "ledger_fill"} =>
               \A e \in job'[p].entries : Backed(e)'
      PROVE  BackedInv'
  BY <1>b, <1>d, <1>e DEF BackedInv
<1> USE <1>a
<1>1. CASE Kill(p)
  BY <1>1, ReturnMoves, <1>c, <1>e DEF Kill, files
<1>2. CASE Starts(p)
  BY <1>2, <1>c, <1>e, <1>b DEF Starts, Call, files
<1>3. CASE OpenExperience(p)
  BY <1>3, GotoMoves, StepNames, <1>c, <1>e DEF OpenExperience, At
<1>4. CASE FillExperience(p)
  BY <1>4, ReturnMoves, <1>c, <1>e DEF FillExperience, At
<1>5. CASE OpenResult(p)
  BY <1>5, GotoMoves, StepNames, <1>c, <1>e DEF OpenResult, At
<1>6. CASE FillResult(p)
  BY <1>6, ReturnMoves, <1>c, <1>e DEF FillResult, At
<1>7. CASE OpenCandidate(p)
  BY <1>7, GotoMoves, StepNames, <1>c, <1>e DEF OpenCandidate, At
<1>8. CASE FillCandidate(p)
  BY <1>8, GotoMoves, ReturnMoves, StepNames, <1>c, <1>e DEF FillCandidate, At
<1>9. CASE WriteProposed(p)
  BY <1>9, GotoMoves, ReturnMoves, StepNames, <1>c, <1>e DEF WriteProposed, At
<1>10. CASE CheckProposed(p)
  BY <1>10, GotoMoves, ReturnMoves, StepNames, <1>c, <1>e DEF CheckProposed, At, Check, files
<1>11. CASE EnsureSourcesTriaged(p)
  BY <1>11, GotoMoves, ReturnMoves, StepNames, <1>c, <1>e DEF EnsureSourcesTriaged, At, Check,
     files
<1>12. CASE LoadExisting(p)
  BY <1>12, LoadExistingMoves, StepNames, <1>c, <1>e DEF LoadExisting, At, files
<1>13. CASE ValidateOperation(p)
  BY <1>13, GotoMoves, ReturnMoves, StepNames, <1>c, <1>e DEF ValidateOperation, At, files
<1>14. CASE EnsureTransferEvidence(p)
  BY <1>14, GotoMoves, ReturnMoves, StepNames, <1>c, <1>e DEF EnsureTransferEvidence, At, Check,
     files
<1>15. CASE EnsureEvals(p)
  BY <1>15, GotoMoves, ReturnMoves, StepNames, <1>c, <1>e DEF EnsureEvals, At, Check, files
<1>16. CASE ReportReadiness(p)
  BY <1>16, ReturnMoves, <1>c, <1>e DEF ReportReadiness, At, files
<1>17. CASE ChooseDestination(p)
  BY <1>17, ChooseDestinationMoves, StepNames, <1>c, <1>e DEF ChooseDestination, At, files
<1>18. CASE MakeDestination(p)
  BY <1>18, GotoMoves, ReturnMoves, StepNames, <1>c, <1>e DEF MakeDestination, At
<1>19. CASE WriteAsset(p)
  BY <1>19, GotoMoves, StepNames, <1>c, <1>e DEF WriteAsset, At
<1>20. CASE WriteContent(p)
  BY <1>20, WriteContentMoves, <1>c, <1>e DEF WriteContent, At, files
<1>21. CASE LoadPromoted(p)
  BY <1>21, LoadPromotedMoves, StepNames, <1>c, <1>e DEF LoadPromoted, At, files
<1>22. CASE ReadLedger(p)
  <2>1. PICK new : new = Entry(Subject(p), job[p].copy, Place(p))
    OBVIOUS
  <2>2. Backed(new)'
    BY <1>22, <2>1, NewEntryBacked, BackedStays DEF ReadLedger, At
  <2>3. job'[p].pc = "idle" \/ job'[p].entries = ledger \cup {new}
    BY <1>22, <2>1, ReadLedgerMoves
  <2> QED
    BY <1>22, <1>c, <1>e, <2>2, <2>3 DEF ReadLedger, files
<1>23. CASE OpenLedger(p)
  BY <1>23, GotoMoves, StepNames, <1>c, <1>e, <1>d DEF OpenLedger, At
<1>24. CASE FillLedger(p)
  BY <1>24, FillLedgerMoves, StepNames, <1>c, <1>e, <1>d DEF FillLedger, At
<1> QED
  BY <1>1, <1>2, <1>3, <1>4, <1>5, <1>6, <1>7, <1>8, <1>9, <1>10, <1>11, <1>12, <1>13, <1>14,
     <1>15, <1>16, <1>17, <1>18, <1>19, <1>20, <1>21, <1>22, <1>23, <1>24 DEF CommandStep

LEMMA CopiedStays ==
  ASSUME LibraryInv, NEW p \in Processes, CommandStep(p), NEW c, NEW l, Copied(c, l)
  PROVE  Copied(c, l)'
<1>1. l \in Locations /\ Settled(l)
  BY DEF Copied
<1>2. /\ Settled(l)'
      /\ l \notin tangled' => canonical'[l] = canonical[l] /\ l \notin tangled
  BY <1>1, SettledStays
<1> QED
  BY <1>1, <1>2 DEF Copied

\* A command that creates its Candidate has no place; one that promotes it has
\* the one that it filled.
LEMMA CopiedCommand ==
  ASSUME LibraryInv, NEW p \in Processes, CommandStep(p)
  PROVE  CopiedOK(p)'
<1>a. /\ job \in [Processes -> Jobs] /\ CopiedOK(p)
  BY DEF LibraryInv, Shapes, CopiedInv
<1>b. job' \in [Processes -> Jobs]
  BY JobStep
<1>g. ASSUME job'[p].pc \notin {"candidate_open", "candidate_fill"}
      PROVE  CopiedOK(p)'
  BY <1>g DEF CopiedOK
<1> USE <1>a
<1>1. CASE Kill(p)
  BY <1>1, ReturnMoves, <1>g DEF Kill
<1>2. CASE Starts(p)
  BY <1>2, <1>b DEF Starts, Call, CopiedOK, Place
<1>3. CASE OpenExperience(p)
  BY <1>3, GotoMoves, StepNames, <1>g DEF OpenExperience
<1>4. CASE FillExperience(p)
  BY <1>4, ReturnMoves, <1>g DEF FillExperience
<1>5. CASE OpenResult(p)
  BY <1>5, GotoMoves, StepNames, <1>g DEF OpenResult
<1>6. CASE FillResult(p)
  BY <1>6, ReturnMoves, <1>g DEF FillResult
<1>7. CASE OpenCandidate(p)
  <2>1. job[p].pc = "candidate_open" /\ Subject(p)' = Subject(p) /\ Place(p)' = Place(p)
    BY <1>7, GotoMoves, StepNames DEF OpenCandidate, At, Subject, Place
  <2>2. PICK c, l : c = Subject(p) /\ l = Place(p)
    OBVIOUS
  <2>3. l # None => Copied(c, l)
    BY <2>1, <2>2 DEF CopiedOK
  <2>4. l # None => Copied(c, l)'
    BY <2>3, CopiedStays
  <2>5. Subject(p)' = c /\ Place(p)' = l
    BY <2>1, <2>2
  <2> QED
    BY <2>4, <2>5 DEF CopiedOK, Copied, Settled
<1>8. CASE FillCandidate(p)
  BY <1>8, GotoMoves, ReturnMoves, StepNames, <1>g DEF FillCandidate
<1>9. CASE WriteProposed(p)
  BY <1>9, GotoMoves, ReturnMoves, StepNames, <1>g DEF WriteProposed
<1>10. CASE CheckProposed(p)
  BY <1>10, GotoMoves, ReturnMoves, StepNames, <1>g DEF CheckProposed, Check
<1>11. CASE EnsureSourcesTriaged(p)
  BY <1>11, GotoMoves, ReturnMoves, StepNames, <1>g DEF EnsureSourcesTriaged, Check
<1>12. CASE LoadExisting(p)
  BY <1>12, LoadExistingMoves, <1>g
<1>13. CASE ValidateOperation(p)
  BY <1>13, GotoMoves, ReturnMoves, StepNames, <1>g DEF ValidateOperation
<1>14. CASE EnsureTransferEvidence(p)
  BY <1>14, GotoMoves, ReturnMoves, StepNames, <1>g DEF EnsureTransferEvidence, Check
<1>15. CASE EnsureEvals(p)
  BY <1>15, GotoMoves, ReturnMoves, StepNames, <1>g DEF EnsureEvals, Check
<1>16. CASE ReportReadiness(p)
  BY <1>16, ReturnMoves, <1>g DEF ReportReadiness
<1>17. CASE ChooseDestination(p)
  BY <1>17, ChooseDestinationMoves, <1>g
<1>18. CASE MakeDestination(p)
  BY <1>18, GotoMoves, ReturnMoves, StepNames, <1>g DEF MakeDestination
<1>19. CASE WriteAsset(p)
  BY <1>19, GotoMoves, StepNames, <1>g DEF WriteAsset
<1>20. CASE WriteContent(p)
  BY <1>20, WriteContentMoves, <1>g
<1>21. CASE LoadPromoted(p)
  BY <1>21, LoadPromotedMoves, <1>g
<1>22. CASE ReadLedger(p)
  BY <1>22, ReadLedgerMoves, <1>g
<1>23. CASE OpenLedger(p)
  BY <1>23, GotoMoves, StepNames, <1>g DEF OpenLedger
<1>24. CASE FillLedger(p)
  <2>1. job[p].pc \in Filled /\ Subject(p)' = Subject(p) /\ Place(p)' = Place(p)
    BY <1>24, FillLedgerMoves, StageNames DEF FillLedger, At, Subject, Place
  <2>2. PICK c, l : c = Subject(p) /\ l = Place(p)
    OBVIOUS
  <2>3. Copied(c, l)
    BY <2>1, <2>2, PlaceIsALocation, StageNames DEF LibraryInv, FilledInv, FilledOK, Copied
  <2>4. Copied(c, l)'
    BY <2>3, CopiedStays
  <2>5. Subject(p)' = c /\ Place(p)' = l
    BY <2>1, <2>2
  <2> QED
    BY <2>4, <2>5 DEF CopiedOK, Copied, Settled
<1> QED
  BY <1>1, <1>2, <1>3, <1>4, <1>5, <1>6, <1>7, <1>8, <1>9, <1>10, <1>11, <1>12, <1>13, <1>14,
     <1>15, <1>16, <1>17, <1>18, <1>19, <1>20, <1>21, <1>22, <1>23, <1>24 DEF CommandStep

\* Only the last step of a promotion marks a Candidate for it.
LEMMA IntegratedStep ==
  ASSUME NEW p \in Processes, CommandStep(p)
  PROVE  \/ UNCHANGED integrated
         \/ /\ job[p].pc = "candidate_fill" /\ Place(p) # None
            /\ integrated' = integrated \cup {<<Subject(p), Place(p)>>}
<1>1. CASE FillCandidate(p)
  BY <1>1 DEF FillCandidate, At
<1>2. CASE ~FillCandidate(p)
  BY <1>2 DEF CommandStep, history, Call, Kill, Starts, OpenExperience, FillExperience,
     OpenResult, FillResult, OpenCandidate, WriteProposed, CheckProposed, EnsureSourcesTriaged,
     LoadExisting, ValidateOperation, EnsureTransferEvidence, EnsureEvals, ReportReadiness,
     ChooseDestination, MakeDestination, WriteAsset, WriteContent, LoadPromoted, ReadLedger,
     OpenLedger, FillLedger
<1> QED
  BY <1>1, <1>2

LEMMA CopiedStep ==
  ASSUME LibraryInv, NEW p \in Processes, CommandStep(p)
  PROVE  CopiedInv'
<1>a. CopiedInv /\ \A q \in Processes \ {p} : job'[q] = job[q]
  BY JobStep DEF LibraryInv
<1>1. \A q \in Processes \ {p} : CopiedOK(q)'
  <2> TAKE q \in Processes \ {p}
  <2>1. PICK c, l : c = Subject(q) /\ l = Place(q)
    OBVIOUS
  <2>2. Subject(q)' = c /\ Place(q)' = l /\ job'[q] = job[q]
    BY <1>a, <2>1 DEF Subject, Place
  <2>3. job[q].pc \in {"candidate_open", "candidate_fill"} /\ l # None => Copied(c, l)'
    BY <1>a, <2>1, CopiedStays DEF CopiedInv, CopiedOK
  <2> QED
    BY <2>2, <2>3 DEF CopiedOK, Copied, Settled
<1>2. \A i \in integrated' : Copied(i[1], i[2])'
  <2>1. \A i \in integrated : Copied(i[1], i[2])'
    BY <1>a, CopiedStays DEF CopiedInv
  <2>2. CASE UNCHANGED integrated
    BY <2>1, <2>2
  <2>3. CASE ~UNCHANGED integrated
    <3>1. /\ job[p].pc = "candidate_fill" /\ Place(p) # None
          /\ integrated' = integrated \cup {<<Subject(p), Place(p)>>}
      BY <2>3, IntegratedStep
    <3>2. PICK c, l : c = Subject(p) /\ l = Place(p)
      OBVIOUS
    <3>3. Copied(c, l)
      BY <1>a, <3>1, <3>2 DEF CopiedInv, CopiedOK
    <3>4. Copied(c, l)'
      BY <3>3, CopiedStays
    <3> QED
      BY <2>1, <3>1, <3>2, <3>4
  <2> QED
    BY <2>2, <2>3
<1> QED
  BY <1>1, <1>2, CopiedCommand DEF CopiedInv

(***************************************************************************)
(* A decision about a Candidate is made without any command.               *)
(***************************************************************************)
LEMMA DecideKeepsLibrary ==
  ASSUME LibraryInv, NEW c \in Candidates, NEW s \in {"AUTHORIZED", "WITHDRAWN"}, Decide(c, s)
  PROVE  LibraryInv'
<1>1. UNCHANGED <<experience, proposed, result, canonical, ledger, job, kills, calls, tangled,
                  integrated>>
  BY DEF Decide, damage
<1>2. Shapes'
  BY <1>1 DEF LibraryInv, Shapes, Decide
<1>3. /\ Subjects' /\ ProposedInv' /\ CheckedInv' /\ FillingInv' /\ FilledInv' /\ LocationsInv'
      /\ BackedInv' /\ CopiedInv'
  BY <1>1 DEF LibraryInv, Subjects, SubjectOK, ProposedInv, CheckedInv, CheckedOK, FillingInv,
              PlaceOK, FillOK, TargetOf, FilledInv, FilledOK, Settled, LocationsInv, LocationOK,
              BackedInv, Backed, CopiedInv, CopiedOK, Copied, Subject, Place
<1> QED
  BY <1>2, <1>3 DEF LibraryInv

LEMMA LibraryStep ==
  ASSUME LibraryInv, [Next]_vars
  PROVE  LibraryInv'
<1>1. ASSUME NEW p \in Processes, CommandStep(p)
      PROVE  LibraryInv'
  BY <1>1, ShapesStep, SubjectsStep, ProposedStep, CheckedStep, FillingStep, FilledStep,
     LocationsStep, BackedStep, CopiedStep DEF LibraryInv
<1>2. CASE UNCHANGED vars
  <2>1. UNCHANGED <<experience, candidate, proposed, result, canonical, ledger, job, kills,
                    calls, tangled, integrated>>
    BY <1>2 DEF vars, files, history, damage
  <2> QED
    BY <2>1 DEF LibraryInv, Shapes, Subjects, SubjectOK, ProposedInv, CheckedInv, CheckedOK,
                FillingInv, PlaceOK, FillOK, TargetOf, FilledInv, FilledOK, Settled,
                LocationsInv, LocationOK, BackedInv, Backed, CopiedInv, CopiedOK, Copied,
                Subject, Place
<1> QED
  BY <1>1, <1>2, LearningSteps, DecideKeepsLibrary

LEMMA LibraryInit == Init => LibraryInv
<1> SUFFICES ASSUME Init
             PROVE  LibraryInv
  OBVIOUS
<1>a. /\ None # Torn /\ None # Empty
      /\ \A c \in Candidates : c # None /\ c # Torn /\ c # Empty
      /\ Seeds \subseteq Candidates /\ None \notin {"DRAFT", "AUTHORIZED", "INTEGRATED"}
      /\ MaxKills \in Nat /\ MaxCalls \in Nat
  BY LearningAssumption
<1>b. \A p \in Processes : job[p] = Idle /\ job[p].pc = "idle"
  BY IdleIsAJob DEF Init
<1>1. \A l \in Locations :
        \/ /\ canonical[l] = NoDirectory
           /\ ~\E c \in Seeds : l = BaseOf(c)
        \/ \E c \in Seeds : /\ l = BaseOf(c)
                            /\ canonical[l] = [dir |-> TRUE, asset |-> c, content |-> c]
  BY DEF Init
<1>2. \A c \in Seeds : /\ BaseOf(c) \in Locations
                       /\ canonical[BaseOf(c)] = [dir |-> TRUE, asset |-> c, content |-> c]
  <2> TAKE c \in Seeds
  <2>1. BaseOf(c) \in Locations
    BY <1>a, VersionsOfCandidates
  <2>2. PICK d \in Seeds : /\ BaseOf(c) = BaseOf(d)
                           /\ canonical[BaseOf(c)] = [dir |-> TRUE, asset |-> d,
                                                            content |-> d]
    BY <1>1, <2>1
  <2>3. c = d
    BY <2>2, LearningAssumption
  <2> QED
    BY <2>1, <2>2, <2>3
<1>3. Shapes
  <2>1. canonical \in [Locations -> Held]
    <3>1. \A l \in Locations : canonical[l] \in Held
      <4> TAKE l \in Locations
      <4>1. CASE canonical[l] = NoDirectory
        BY <4>1 DEF NoDirectory, Held
      <4>2. CASE \E c \in Seeds : canonical[l] = [dir |-> TRUE, asset |-> c, content |-> c]
        BY <1>a, <4>2 DEF Held
      <4> QED
        BY <1>1, <4>1, <4>2
    <3>2. canonical = [l \in Locations |-> canonical[l]]
      BY DEF Init
    <3> QED
      BY <3>1, <3>2
  <2>2. ledger \subseteq Entries
    <3>1. \A c \in Seeds : Entry(c, c, BaseOf(c)) \in Entries
      BY <1>a, <1>2 DEF Entries, Entry
    <3> QED
      BY <3>1 DEF Init
  <2>3. job \in [Processes -> Jobs]
    BY IdleIsAJob DEF Init
  <2>4. proposed \in [Candidates -> Files]
    BY DEF Init, Files
  <2> QED
    BY <1>a, <2>1, <2>2, <2>3, <2>4 DEF Init, Shapes
<1>4. Subjects /\ CheckedInv /\ FillingInv /\ FilledInv
  BY <1>b DEF Subjects, SubjectOK, CheckedInv, CheckedOK, FillingInv, PlaceOK, FillOK, FilledInv,
              FilledOK, Creating, Promoting, Checked, Sourced, Validated, Transferred, Evaluated,
              Filling, Filled
<1>5. ProposedInv
  BY <1>a DEF Init, ProposedInv
<1>6. LocationsInv
  <2> SUFFICES ASSUME NEW l \in Locations
               PROVE  LocationOK(l)
    BY DEF LocationsInv
  <2>1. CASE canonical[l] = NoDirectory
    BY <1>a, <2>1 DEF NoDirectory, LocationOK
  <2>2. ASSUME NEW c \in Seeds, l = BaseOf(c),
               canonical[l] = [dir |-> TRUE, asset |-> c, content |-> c]
        PROVE  LocationOK(l)
    <3>1. c \in Candidates /\ Directory(c) = l[1]
      BY <1>a, <2>2, VersionsOfCandidates
    <3>2. canonical[l].asset = c /\ canonical[l].dir
      BY <2>2
    <3> QED
      BY <3>1, <3>2 DEF LocationOK
  <2> QED
    BY <1>1, <2>1, <2>2
<1>7. BackedInv
  <2>1. \A c \in Seeds : Backed(Entry(c, c, BaseOf(c)))
    <3> TAKE c \in Seeds
    <3>1. PICK l \in Locations :
            /\ l = BaseOf(c)
            /\ canonical[l] = [dir |-> TRUE, asset |-> c, content |-> c]
      BY <1>2
    <3>2. canonical[l].dir /\ canonical[l].asset = c /\ canonical[l].content = c
      BY <3>1
    <3>3. Settled(l)
      BY <1>b, <3>2 DEF Settled, Filling
    <3>4. Own(c, l)
      BY <3>1, LearningAssumption
    <3>5. PICK e : e = Entry(c, c, BaseOf(c))
      OBVIOUS
    <3>6. e.by = c /\ e.content = c /\ e.at = l
      BY <3>1, <3>5 DEF Entry
    <3>7. Backed(e)
      BY <3>2, <3>3, <3>4, <3>6 DEF Backed
    <3> QED
      BY <3>5, <3>7
  <2>2. \A e \in ledger : Backed(e)
    BY <2>1 DEF Init
  <2> QED
    BY <1>b, <2>2 DEF BackedInv
<1>8. CopiedInv
  BY <1>b DEF Init, CopiedInv, CopiedOK
<1> QED
  BY <1>3, <1>4, <1>5, <1>6, <1>7, <1>8 DEF LibraryInv

LEMMA LibraryInvariant == Spec => []LibraryInv
<1> QED
  BY LibraryInit, LibraryStep, PTL DEF Spec

(***************************************************************************)
(* The library under any number of commands at the same time, killed ones  *)
(* and ones that fail on a contentFile: directory, asset.yaml and content  *)
(* file of a location appear in that order, no entry of the promotion      *)
(* ledger speaks of a version whose files are not in the library with      *)
(* exactly the hashed content, and a Candidate that a promotion has marked *)
(* INTEGRATED is there with both files.  Exempt are only the location of a *)
(* promotion whose contentFile is not a content file of its own, and the   *)
(* one that this contentFile leads to.                                     *)
(***************************************************************************)
THEOREM LearningIsSound == Spec => []LearningInv
<1>1. LibraryInv => LearningInv
  <2> SUFFICES ASSUME LibraryInv
               PROVE  LearningInv
    OBVIOUS
  <2> USE DEF LibraryInv
  <2>1. LearningTypeOK
    BY DEF LearningTypeOK, Shapes, ProposedInv, LocationsInv, LocationOK, Entries, Held
  <2>2. LedgerTellsContent
    <3> SUFFICES ASSUME NEW e \in ledger, e.at \notin tangled
                 PROVE  canonical[e.at].asset = e.by /\ ContentAt(e.at) = e.content
      BY DEF LedgerTellsContent
    <3>1. /\ e.at \in Locations /\ Own(e.by, e.at) /\ canonical[e.at].asset = e.by
          /\ canonical[e.at].content = e.content
      BY DEF BackedInv, Backed
    <3>2. /\ e.by \in Candidates /\ e.content \in Candidates \cup {Empty, Torn}
          /\ canonical \in [Locations -> Held]
      BY DEF Shapes, Entries
    <3>3. e.content # None
      BY <3>2, LearningAssumption
    <3> QED
      BY <3>1, <3>2, <3>3, ContentOfAVersion
  <2>3. IntegratedIsCanonical
    BY DEF IntegratedIsCanonical, CopiedInv, Copied
  <2> QED
    BY <2>1, <2>2, <2>3 DEF LearningInv
<1> QED
  BY <1>1, LibraryInvariant, PTL

-----------------------------------------------------------------------------
(***************************************************************************)
(* What a promotion has checked was so.                                    *)
(***************************************************************************)
Passed(c, v) ==
  [eval |-> v, id |-> Proposals[c].id, version |-> Proposals[c].version, passed |-> TRUE]
    \in recorded

Transfers(c) == Proposals[c].operation = "BROADEN_SCOPE" => Passed(c, Proposals[c].transfer)

Ready(c) ==
  \/ c \in Seeds
  \/ /\ c \in authorized /\ Proposals[c].sources \subseteq triaged
     /\ \A v \in Proposals[c].evals : Passed(c, v)
     /\ Transfers(c)

\* The history has what is on disk.
Remembered ==
  /\ \A c \in Candidates : candidate[c] = "AUTHORIZED" => c \in authorized
  /\ \A x \in Experiences : experience[x] = "TRIAGED" => x \in triaged
  /\ \A r \in Results : result[r] = "WHOLE" => r \in recorded

ReadyOK(p) ==
  /\ job[p].pc \in Promoting => Subject(p) \in authorized
  /\ job[p].pc \in Sourced => Proposals[Subject(p)].sources \subseteq triaged
  /\ job[p].pc \in Transferred => Transfers(Subject(p))
  /\ job[p].pc \in Evaluated => \A v \in Proposals[Subject(p)].evals : Passed(Subject(p), v)

EntriesReady(p) ==
  job[p].pc \in {"ledger_open", "ledger_fill"} => \A e \in job[p].entries : Ready(e.by)

ReadinessInv ==
  /\ Remembered
  /\ \A p \in Processes : ReadyOK(p) /\ EntriesReady(p)
  /\ \A e \in ledger : Ready(e.by)

LEMMA HistoryStep ==
  ASSUME LibraryInv, Remembered, NEW p \in Processes, CommandStep(p)
  PROVE  /\ Remembered'
         /\ authorized \subseteq authorized' /\ triaged \subseteq triaged'
         /\ recorded \subseteq recorded'
<1>a. Shapes /\ SubjectOK(p)
  BY DEF LibraryInv, Subjects
<1>b. None \notin {"TRIAGED", "AUTHORIZED", "WHOLE"} /\ Torn # "WHOLE"
  BY LearningAssumption
<1> USE <1>a, <1>b DEF Remembered
<1>1. CASE Kill(p)
  BY <1>1 DEF Kill, files, history, evidence
<1>2. CASE Starts(p)
  BY <1>2 DEF Starts, Call, files, history, evidence
<1>3. CASE OpenExperience(p)
  BY <1>3 DEF OpenExperience, At, SubjectOK, Shapes, history, evidence
<1>4. CASE FillExperience(p)
  BY <1>4 DEF FillExperience, At, SubjectOK, Shapes, history, evidence
<1>5. CASE OpenResult(p)
  BY <1>5 DEF OpenResult, At, SubjectOK, Shapes, history, evidence
<1>6. CASE FillResult(p)
  BY <1>6 DEF FillResult, At, SubjectOK, Shapes, history, evidence
<1>7. CASE OpenCandidate(p)
  BY <1>7, StageNames DEF OpenCandidate, At, SubjectOK, Shapes, history, evidence
<1>8. CASE FillCandidate(p)
  BY <1>8, StageNames DEF FillCandidate, At, SubjectOK, Shapes, history, evidence
<1>9. CASE WriteProposed(p)
  BY <1>9 DEF WriteProposed, At, files, history, evidence
<1>10. CASE CheckProposed(p)
  BY <1>10 DEF CheckProposed, At, Check, files, history, evidence
<1>11. CASE EnsureSourcesTriaged(p)
  BY <1>11 DEF EnsureSourcesTriaged, At, Check, files, history, evidence
<1>12. CASE LoadExisting(p)
  BY <1>12 DEF LoadExisting, At, files, history, evidence
<1>13. CASE ValidateOperation(p)
  BY <1>13 DEF ValidateOperation, At, files, history, evidence
<1>14. CASE EnsureTransferEvidence(p)
  BY <1>14 DEF EnsureTransferEvidence, At, Check, files, history, evidence
<1>15. CASE EnsureEvals(p)
  BY <1>15 DEF EnsureEvals, At, Check, files, history, evidence
<1>16. CASE ReportReadiness(p)
  BY <1>16 DEF ReportReadiness, At, files, history, evidence
<1>17. CASE ChooseDestination(p)
  BY <1>17 DEF ChooseDestination, At, files, history, evidence
<1>18. CASE MakeDestination(p)
  BY <1>18 DEF MakeDestination, At, files, history, evidence
<1>19. CASE WriteAsset(p)
  BY <1>19 DEF WriteAsset, At, files, history, evidence
<1>20. CASE WriteContent(p)
  BY <1>20 DEF WriteContent, At, files, history, evidence
<1>21. CASE LoadPromoted(p)
  BY <1>21 DEF LoadPromoted, At, files, history, evidence
<1>22. CASE ReadLedger(p)
  BY <1>22 DEF ReadLedger, At, files, history, evidence
<1>23. CASE OpenLedger(p)
  BY <1>23 DEF OpenLedger, At, files, history, evidence
<1>24. CASE FillLedger(p)
  BY <1>24 DEF FillLedger, At, files, history, evidence
<1> QED
  BY <1>1, <1>2, <1>3, <1>4, <1>5, <1>6, <1>7, <1>8, <1>9, <1>10, <1>11, <1>12, <1>13, <1>14,
     <1>15, <1>16, <1>17, <1>18, <1>19, <1>20, <1>21, <1>22, <1>23, <1>24 DEF CommandStep

LEMMA ReadyStays ==
  ASSUME authorized \subseteq authorized', triaged \subseteq triaged', recorded \subseteq recorded',
         NEW c
  PROVE  /\ \A v : Passed(c, v) => Passed(c, v)'
         /\ Transfers(c) => Transfers(c)'
         /\ Ready(c) => Ready(c)'
BY DEF Passed, Transfers, Ready

\* has_passing_eval finds a result that is on disk.
LEMMA EvalsWereRecorded ==
  ASSUME Remembered, NEW c, NEW v, HasPassingEval(v, Proposals[c].id, Proposals[c].version)
  PROVE  Passed(c, v)
BY DEF Remembered, HasPassingEval, Passed

LEMMA ReadyStep ==
  ASSUME LibraryInv, ReadinessInv, NEW p \in Processes, CommandStep(p)
  PROVE  ReadyOK(p)'
<1>a. job \in [Processes -> Jobs] /\ ReadyOK(p) /\ Remembered /\ SubjectOK(p)
  BY DEF LibraryInv, Shapes, ReadinessInv, Subjects
<1>b. job' \in [Processes -> Jobs]
  BY JobStep
<1>c. /\ authorized \subseteq authorized' /\ triaged \subseteq triaged'
      /\ recorded \subseteq recorded'
  BY <1>a, HistoryStep
<1>d. PICK c : c = Subject(p)
  OBVIOUS
<1>e. /\ \A v : Passed(c, v) => Passed(c, v)'
      /\ Transfers(c) => Transfers(c)'
  BY <1>c, ReadyStays
<1>f. ASSUME NEW new, Subject(p)' = c, job'[p].pc = new,
             new \in Promoting => c \in authorized,
             new \in Sourced => Proposals[c].sources \subseteq triaged,
             new \in Transferred => Transfers(c),
             new \in Evaluated => \A v \in Proposals[c].evals : Passed(c, v)
      PROVE  ReadyOK(p)'
  BY <1>c, <1>e, <1>f DEF ReadyOK, Passed, Transfers
<1>g. ASSUME job'[p].pc \notin Promoting
      PROVE  ReadyOK(p)'
  BY <1>g DEF ReadyOK, Promoting, Checked, Sourced, Validated, Transferred
<1>h. /\ job[p].pc \in Promoting => c \in authorized
      /\ job[p].pc \in Sourced => Proposals[c].sources \subseteq triaged
      /\ job[p].pc \in Transferred => Transfers(c)
      /\ job[p].pc \in Evaluated => \A v \in Proposals[c].evals : Passed(c, v)
  BY <1>a, <1>d DEF ReadyOK
<1> USE <1>a, <1>d DEF Promoting, Checked, Sourced, Validated, Transferred, Evaluated, Filling, Filled
<1>1. CASE Kill(p)
  BY <1>1, ReturnMoves, <1>f, <1>g, <1>h DEF Kill, Subject
<1>2. CASE Starts(p)
  <2>1. job'[p].pc \notin Promoting \/ (job'[p].pc = "proposed" /\ Subject(p)' \in authorized)
    BY <1>2, <1>b DEF Starts, Call, Remembered, Subject
  <2> QED
    BY <1>c, <1>g, <2>1 DEF ReadyOK
<1>3. CASE OpenExperience(p)
  BY <1>3, GotoMoves, StepNames, <1>f, <1>g, <1>h DEF OpenExperience, At, Subject
<1>4. CASE FillExperience(p)
  BY <1>4, ReturnMoves, <1>f, <1>g, <1>h DEF FillExperience, At, Subject
<1>5. CASE OpenResult(p)
  BY <1>5, GotoMoves, StepNames, <1>f, <1>g, <1>h DEF OpenResult, At, Subject
<1>6. CASE FillResult(p)
  BY <1>6, ReturnMoves, <1>f, <1>g, <1>h DEF FillResult, At, Subject
<1>7. CASE OpenCandidate(p)
  BY <1>7, GotoMoves, StepNames, <1>f, <1>g, <1>h DEF OpenCandidate, At, Subject
<1>8. CASE FillCandidate(p)
  BY <1>8, GotoMoves, ReturnMoves, StepNames, <1>f, <1>g, <1>h DEF FillCandidate, At, Subject
<1>9. CASE WriteProposed(p)
  BY <1>9, GotoMoves, ReturnMoves, StepNames, <1>f, <1>g, <1>h DEF WriteProposed, At, Subject
<1>10. CASE CheckProposed(p)
  BY <1>10, GotoMoves, ReturnMoves, StepNames, <1>f, <1>g, <1>h DEF CheckProposed, At, Check,
     Subject
<1>11. CASE EnsureSourcesTriaged(p)
  <2>1. c \in Candidates /\ Proposals[c].sources \subseteq Experiences
    BY <1>11, LearningAssumption DEF EnsureSourcesTriaged, At, SubjectOK
  <2>2. CASE \A x \in Proposals[c].sources : experience[x] = "TRIAGED"
    <3>1. Proposals[c].sources \subseteq triaged
      BY <2>1, <2>2 DEF Remembered
    <3>2. job'[p].pc = "existing" /\ Subject(p)' = c
      BY <1>11, <2>2, GotoMoves, StepNames DEF EnsureSourcesTriaged, Check, Subject
    <3> QED
      BY <1>11, <1>f, <1>h, <3>1, <3>2 DEF EnsureSourcesTriaged, At
  <2>3. CASE ~\A x \in Proposals[c].sources : experience[x] = "TRIAGED"
    BY <1>11, <1>g, <2>3, ReturnMoves DEF EnsureSourcesTriaged, Check
  <2> QED
    BY <2>2, <2>3
<1>12. CASE LoadExisting(p)
  BY <1>12, LoadExistingMoves, StepNames, <1>f, <1>g, <1>h DEF LoadExisting, At, Subject
<1>13. CASE ValidateOperation(p)
  <2>1. \/ job'[p].pc = "idle"
        \/ /\ Subject(p)' = c
           /\ job'[p].pc = IF Proposals[c].operation = "BROADEN_SCOPE" THEN "transfer" ELSE "evals"
    BY <1>13, GotoMoves, ReturnMoves, StepNames DEF ValidateOperation, Subject
  <2>2. Proposals[c].operation # "BROADEN_SCOPE" => Transfers(c)
    BY DEF Transfers
  <2> QED
    BY <1>13, <1>f, <1>g, <1>h, <2>1, <2>2 DEF ValidateOperation, At
<1>14. CASE EnsureTransferEvidence(p)
  <2>1. \/ job'[p].pc = "idle"
        \/ /\ job'[p].pc = "evals" /\ Subject(p)' = c
           /\ HasPassingEval(Proposals[c].transfer, Proposals[c].id, Proposals[c].version)
    BY <1>14, GotoMoves, ReturnMoves, StepNames DEF EnsureTransferEvidence, Check, Subject
  <2>2. job'[p].pc # "idle" => Transfers(c)
    BY <2>1, EvalsWereRecorded DEF Transfers
  <2> QED
    BY <1>14, <1>f, <1>g, <1>h, <2>1, <2>2 DEF EnsureTransferEvidence, At
<1>15. CASE EnsureEvals(p)
  <2>1. \/ job'[p].pc = "idle"
        \/ /\ job'[p].pc = "destination" /\ Subject(p)' = c
           /\ \A v \in Proposals[c].evals :
                HasPassingEval(v, Proposals[c].id, Proposals[c].version)
    BY <1>15, GotoMoves, ReturnMoves, StepNames DEF EnsureEvals, Check, Subject
  <2>2. job'[p].pc # "idle" => \A v \in Proposals[c].evals : Passed(c, v)
    BY <2>1, EvalsWereRecorded
  <2> QED
    BY <1>15, <1>f, <1>g, <1>h, <2>1, <2>2 DEF EnsureEvals, At
<1>16. CASE ReportReadiness(p)
  BY <1>16, ReturnMoves, <1>f, <1>g, <1>h DEF ReportReadiness, At, Subject
<1>17. CASE ChooseDestination(p)
  BY <1>17, ChooseDestinationMoves, StepNames, <1>f, <1>g, <1>h DEF ChooseDestination, At,
     Subject
<1>18. CASE MakeDestination(p)
  BY <1>18, GotoMoves, ReturnMoves, StepNames, <1>f, <1>g, <1>h DEF MakeDestination, At, Subject
<1>19. CASE WriteAsset(p)
  BY <1>19, GotoMoves, StepNames, <1>f, <1>g, <1>h DEF WriteAsset, At, Subject
<1>20. CASE WriteContent(p)
  BY <1>20, WriteContentMoves, <1>f, <1>g, <1>h DEF WriteContent, At, Subject
<1>21. CASE LoadPromoted(p)
  BY <1>21, LoadPromotedMoves, StepNames, <1>f, <1>g, <1>h DEF LoadPromoted, At, Subject
<1>22. CASE ReadLedger(p)
  BY <1>22, ReadLedgerMoves, StepNames, <1>f, <1>g, <1>h DEF ReadLedger, At, Subject
<1>23. CASE OpenLedger(p)
  BY <1>23, GotoMoves, StepNames, <1>f, <1>g, <1>h DEF OpenLedger, At, Subject
<1>24. CASE FillLedger(p)
  BY <1>24, FillLedgerMoves, StepNames, <1>f, <1>g, <1>h DEF FillLedger, At, Subject
<1> QED
  BY <1>1, <1>2, <1>3, <1>4, <1>5, <1>6, <1>7, <1>8, <1>9, <1>10, <1>11, <1>12, <1>13, <1>14,
     <1>15, <1>16, <1>17, <1>18, <1>19, <1>20, <1>21, <1>22, <1>23, <1>24 DEF CommandStep

LEMMA ReadinessCommand ==
  ASSUME LibraryInv, ReadinessInv, NEW p \in Processes, CommandStep(p)
  PROVE  ReadinessInv'
<1>a. /\ job \in [Processes -> Jobs] /\ Remembered
      /\ \A q \in Processes : ReadyOK(q) /\ EntriesReady(q)
      /\ \A e \in ledger : Ready(e.by)
  BY DEF LibraryInv, Shapes, ReadinessInv
<1>b. job' \in [Processes -> Jobs] /\ \A q \in Processes \ {p} : job'[q] = job[q]
  BY JobStep
<1>c. /\ Remembered'
      /\ authorized \subseteq authorized' /\ triaged \subseteq triaged'
      /\ recorded \subseteq recorded'
  BY <1>a, HistoryStep
<1>d. \A c : Ready(c) => Ready(c)'
  BY <1>c, ReadyStays
<1>e. \A q \in Processes \ {p} : ReadyOK(q)' /\ EntriesReady(q)'
  <2> TAKE q \in Processes \ {p}
  <2>1. job'[q] = job[q] /\ ReadyOK(q) /\ EntriesReady(q)
    BY <1>a, <1>b
  <2>2. EntriesReady(q)'
    BY <1>d, <2>1 DEF EntriesReady
  <2>3. PICK c : c = Subject(q) /\ c = Subject(q)'
    BY <2>1 DEF Subject
  <2>4. (\A v : Passed(c, v) => Passed(c, v)') /\ (Transfers(c) => Transfers(c)')
    BY <1>c, ReadyStays
  <2>5. ReadyOK(q)'
    BY <1>c, <2>1, <2>3, <2>4 DEF ReadyOK, Passed, Transfers
  <2> QED
    BY <2>2, <2>5
<1>f. ReadyOK(p)'
  BY ReadyStep
<1>g. \A e \in ledger : Ready(e.by)'
  BY <1>a, <1>d
<1>h. job[p].pc \in {"ledger_open", "ledger_fill"} => \A e \in job[p].entries : Ready(e.by)'
  BY <1>a, <1>d DEF EntriesReady
<1>i. ASSUME \A e \in ledger' : Ready(e.by)', EntriesReady(p)'
      PROVE  ReadinessInv'
  BY <1>c, <1>e, <1>f, <1>i DEF ReadinessInv
<1>j. ASSUME job'[p].pc \notin {"ledger_open", "ledger_fill"}
      PROVE  EntriesReady(p)'
  BY <1>j DEF EntriesReady
<1> USE <1>a
<1>1. CASE Kill(p)
  BY <1>1, ReturnMoves, <1>g, <1>i, <1>j DEF Kill, files
<1>2. CASE Starts(p)
  BY <1>2, <1>g, <1>i, <1>j, <1>b DEF Starts, Call, files
<1>3. CASE OpenExperience(p)
  BY <1>3, GotoMoves, StepNames, <1>g, <1>i, <1>j DEF OpenExperience, At
<1>4. CASE FillExperience(p)
  BY <1>4, ReturnMoves, <1>g, <1>i, <1>j DEF FillExperience, At
<1>5. CASE OpenResult(p)
  BY <1>5, GotoMoves, StepNames, <1>g, <1>i, <1>j DEF OpenResult, At
<1>6. CASE FillResult(p)
  BY <1>6, ReturnMoves, <1>g, <1>i, <1>j DEF FillResult, At
<1>7. CASE OpenCandidate(p)
  BY <1>7, GotoMoves, StepNames, <1>g, <1>i, <1>j DEF OpenCandidate, At
<1>8. CASE FillCandidate(p)
  BY <1>8, GotoMoves, ReturnMoves, StepNames, <1>g, <1>i, <1>j DEF FillCandidate, At
<1>9. CASE WriteProposed(p)
  BY <1>9, GotoMoves, ReturnMoves, StepNames, <1>g, <1>i, <1>j DEF WriteProposed, At
<1>10. CASE CheckProposed(p)
  BY <1>10, GotoMoves, ReturnMoves, StepNames, <1>g, <1>i, <1>j DEF CheckProposed, At, Check,
     files
<1>11. CASE EnsureSourcesTriaged(p)
  BY <1>11, GotoMoves, ReturnMoves, StepNames, <1>g, <1>i, <1>j DEF EnsureSourcesTriaged, At,
     Check, files
<1>12. CASE LoadExisting(p)
  BY <1>12, LoadExistingMoves, StepNames, <1>g, <1>i, <1>j DEF LoadExisting, At, files
<1>13. CASE ValidateOperation(p)
  BY <1>13, GotoMoves, ReturnMoves, StepNames, <1>g, <1>i, <1>j DEF ValidateOperation, At, files
<1>14. CASE EnsureTransferEvidence(p)
  BY <1>14, GotoMoves, ReturnMoves, StepNames, <1>g, <1>i, <1>j DEF EnsureTransferEvidence, At,
     Check, files
<1>15. CASE EnsureEvals(p)
  BY <1>15, GotoMoves, ReturnMoves, StepNames, <1>g, <1>i, <1>j DEF EnsureEvals, At, Check,
     files
<1>16. CASE ReportReadiness(p)
  BY <1>16, ReturnMoves, <1>g, <1>i, <1>j DEF ReportReadiness, At, files
<1>17. CASE ChooseDestination(p)
  BY <1>17, ChooseDestinationMoves, StepNames, <1>g, <1>i, <1>j DEF ChooseDestination, At, files
<1>18. CASE MakeDestination(p)
  BY <1>18, GotoMoves, ReturnMoves, StepNames, <1>g, <1>i, <1>j DEF MakeDestination, At
<1>19. CASE WriteAsset(p)
  BY <1>19, GotoMoves, StepNames, <1>g, <1>i, <1>j DEF WriteAsset, At
<1>20. CASE WriteContent(p)
  BY <1>20, WriteContentMoves, <1>g, <1>i, <1>j DEF WriteContent, At, files
<1>21. CASE LoadPromoted(p)
  BY <1>21, LoadPromotedMoves, StepNames, <1>g, <1>i, <1>j DEF LoadPromoted, At, files
<1>22. CASE ReadLedger(p)
  <2>1. PICK new : new = Entry(Subject(p), job[p].copy, Place(p))
    OBVIOUS
  <2>2. Ready(new.by)'
    <3>1. new.by = Subject(p)
      BY <2>1 DEF Entry
    <3>2. Ready(Subject(p))
      BY <1>22 DEF ReadLedger, At, ReadyOK, Ready, Promoting, Checked, Sourced, Validated,
                    Transferred, Evaluated, Filled
    <3> QED
      BY <1>d, <3>1, <3>2
  <2>3. job'[p].pc = "idle" \/ job'[p].entries = ledger \cup {new}
    BY <1>22, <2>1, ReadLedgerMoves
  <2>4. EntriesReady(p)'
    BY <1>g, <2>2, <2>3 DEF EntriesReady
  <2> QED
    BY <1>22, <1>g, <1>i, <2>4 DEF ReadLedger, files
<1>23. CASE OpenLedger(p)
  BY <1>23, GotoMoves, StepNames, <1>h, <1>i DEF OpenLedger, At, EntriesReady
<1>24. CASE FillLedger(p)
  BY <1>24, FillLedgerMoves, <1>h, <1>i, <1>j DEF FillLedger, At
<1> QED
  BY <1>1, <1>2, <1>3, <1>4, <1>5, <1>6, <1>7, <1>8, <1>9, <1>10, <1>11, <1>12, <1>13, <1>14,
     <1>15, <1>16, <1>17, <1>18, <1>19, <1>20, <1>21, <1>22, <1>23, <1>24 DEF CommandStep

LEMMA ReadinessStep ==
  ASSUME LibraryInv, ReadinessInv, [Next]_vars
  PROVE  ReadinessInv'
<1>1. ASSUME NEW c \in Candidates, NEW s \in {"AUTHORIZED", "WITHDRAWN"}, Decide(c, s)
      PROVE  ReadinessInv'
  <2>1. /\ UNCHANGED <<experience, result, ledger, job, triaged, recorded>>
        /\ authorized \subseteq authorized'
    BY <1>1 DEF Decide
  <2>2. Remembered'
    BY <1>1, <2>1 DEF LibraryInv, Shapes, ReadinessInv, Remembered, Decide
  <2> QED
    BY <2>1, <2>2 DEF ReadinessInv, ReadyOK, EntriesReady, Ready, Passed, Transfers, Subject
<1>2. CASE UNCHANGED vars
  BY <1>2 DEF vars, files, history, evidence, ReadinessInv, Remembered, ReadyOK, EntriesReady, Ready, Passed,
              Transfers, Subject
<1> QED
  BY <1>1, <1>2, ReadinessCommand, LearningSteps

LEMMA ReadinessInit == Init => ReadinessInv
<1> SUFFICES ASSUME Init
             PROVE  ReadinessInv
  OBVIOUS
<1>1. Remembered
  BY LearningAssumption DEF Init, Remembered
<1>2. \A p \in Processes : ReadyOK(p) /\ EntriesReady(p)
  <2> TAKE p \in Processes
  <2>1. job[p].pc = "idle"
    BY IdleIsAJob DEF Init
  <2> QED
    BY <2>1 DEF ReadyOK, EntriesReady, Promoting, Checked, Sourced, Validated, Transferred,
                Evaluated, Filling, Filled
<1>3. \A e \in ledger : Ready(e.by)
  BY DEF Init, Entry, Ready
<1> QED
  BY <1>1, <1>2, <1>3 DEF ReadinessInv

(***************************************************************************)
(* Governance: whatever runs at the same time, a version enters the ledger *)
(* only from a Candidate that was authorised, whose sources had all been   *)
(* triaged, and for which every required eval, and for BROADEN_SCOPE the   *)
(* transfer eval, had a passing result of exactly this version.            *)
(***************************************************************************)
THEOREM PromotionsWereReady == Spec => []PromotedWereReady
<1>1. ReadinessInv => PromotedWereReady
  BY DEF ReadinessInv, PromotedWereReady, Ready, Passed, Transfers
<1> QED
  BY <1>1, LibraryInvariant, ReadinessInit, ReadinessStep, PTL DEF Spec

-----------------------------------------------------------------------------
(***************************************************************************)
(* Commands that run one after the other, as far as they get.              *)
(***************************************************************************)
Alone == ~overlap /\ ~ledgerCut

EntryAt(l) == Entry(canonical[l].asset, canonical[l].content, l)

\* asset.yaml of the new version is there, its entry is not.
Pending == {"content_open", "content_fill", "load", "ledger_read", "ledger_open"}

OneCommand ==
  \A p, q \in Processes : p # q => job[p].pc = "idle" \/ job[q].pc = "idle"

\* The library could be read when the promotion of p was validated.  What is
\* unreadable since then is of its own making.
ReadableBy(p) ==
  /\ job[p].pc \in {"transfer", "evals", "destination", "mkdir", "asset_open"} => ~Broken
  /\ job[p].pc \in {"asset_fill", "content_open"} =>
       \A l \in Locations : Unreadable(l) => l = Place(p)
  /\ job[p].pc \in {"content_fill", "load"} => ~Broken \/ Place(p) \in tangled

\* The version at l has its entry in the ledger S, or is one of those excepted.
Covered(l, S) ==
  l \in cut \cup tangled \/ (Own(canonical[l].asset, l) /\ EntryAt(l) \in S)

CoveredInv ==
  (\A p \in Processes : job[p].pc # "ledger_fill") =>
    \A l \in Loaded : \/ Covered(l, ledger)
                      \/ \E p \in Processes : job[p].pc \in Pending /\ Place(p) = l

SameVersion(e, c) == Id(e.by) = Id(c) /\ Version(e.by) = Version(c)

VersionOK(p) ==
  /\ job[p].pc = "operation" =>
       \A e \in ledger : Id(e.by) = Id(Subject(p)) => Version(e.by) \in job[p].seen
  /\ job[p].pc \in Validated \ {"ledger_open", "ledger_fill"} =>
       \A e \in ledger : ~SameVersion(e, Subject(p))
  /\ job[p].pc \in {"ledger_open", "ledger_fill"} =>
       \A l \in Loaded : Covered(l, job[p].entries)

SequentialInv ==
  Alone => OneCommand /\ CoveredInv /\ \A p \in Processes : ReadableBy(p) /\ VersionOK(p)

\* The same, when p is the one command that may be in progress.
CoveredBy(p) ==
  job[p].pc # "ledger_fill" =>
    \A l \in Loaded : Covered(l, ledger) \/ (job[p].pc \in Pending /\ Place(p) = l)

LEMMA SoloBefore ==
  ASSUME NEW p \in Processes, \A q \in Processes \ {p} : job[q].pc = "idle", CoveredInv
  PROVE  CoveredBy(p)
BY DEF CoveredInv, CoveredBy, Pending

LEMMA SoloAfter ==
  ASSUME NEW p \in Processes, \A q \in Processes \ {p} : job'[q].pc = "idle",
         ReadableBy(p)', CoveredBy(p)', VersionOK(p)'
  PROVE  SequentialInv'
<1>1. CoveredInv'
  BY DEF CoveredInv, CoveredBy, Pending
<1>2. OneCommand'
  BY DEF OneCommand
<1>3. \A q \in Processes : VersionOK(q)' /\ ReadableBy(q)'
  BY DEF VersionOK, ReadableBy, Validated, Transferred, Evaluated, Filling, Filled
<1> QED
  BY <1>1, <1>2, <1>3 DEF SequentialInv

\* What is covered stays covered.
LEMMA CoveredStays ==
  ASSUME NEW l, NEW S, Covered(l, S), cut \subseteq cut', tangled \subseteq tangled',
         l \in tangled' \/ canonical'[l] = canonical[l]
  PROVE  Covered(l, S)'
BY DEF Covered, EntryAt

\* The library and the ledger stay, and nothing of it was pending.
LEMMA SoloQuiet ==
  ASSUME NEW p \in Processes, UNCHANGED <<canonical, ledger>>, CoveredBy(p),
         cut \subseteq cut', tangled \subseteq tangled',
         job[p].pc \notin Pending \cup {"ledger_fill"}
  PROVE  CoveredBy(p)'
<1>1. Loaded' = Loaded
  BY DEF Loaded
<1>2. \A l \in Loaded : Covered(l, ledger)
  BY DEF CoveredBy
<1>3. \A l \in Loaded : Covered(l, ledger)'
  BY <1>2, CoveredStays
<1> QED
  BY <1>1, <1>3 DEF CoveredBy

\* A promotion on its way changes at most the location it made, and what a
\* contentFile tangles.
LEMMA SoloWriter ==
  ASSUME NEW p \in Processes, CoveredBy(p), UNCHANGED ledger, job[p].pc # "ledger_fill",
         cut \subseteq cut', tangled \subseteq tangled', Torn \notin Candidates,
         \A l \in Locations \ {Place(p)} :
           /\ canonical'[l].asset \in {canonical[l].asset, Torn}
           /\ l \in tangled' \/ canonical'[l] = canonical[l],
         \/ canonical'[Place(p)].asset \notin Candidates
         \/ Place(p) \in cut' \cup tangled'
         \/ job'[p].pc \in Pending /\ Place(p)' = Place(p)
  PROVE  CoveredBy(p)'
<1>1. PICK k : k = Place(p)
  OBVIOUS
<1>2. SUFFICES ASSUME NEW l \in Loaded'
               PROVE  Covered(l, ledger)' \/ (job'[p].pc \in Pending /\ Place(p)' = l)
  BY DEF CoveredBy
<1>3. l \in Locations /\ canonical'[l].asset \in Candidates
  BY <1>2 DEF Loaded
<1>4. CASE l = k
  BY <1>1, <1>3, <1>4 DEF Covered
<1>5. CASE l # k
  <2>1. l \in Loaded
    BY <1>1, <1>3, <1>5 DEF Loaded
  <2>2. Covered(l, ledger)
    BY <1>1, <1>5, <2>1 DEF CoveredBy
  <2>3. l \in tangled' \/ canonical'[l] = canonical[l]
    BY <1>1, <1>3, <1>5
  <2> QED
    BY <2>2, <2>3, CoveredStays
<1> QED
  BY <1>4, <1>5

\* An entry of the ledger speaks of a version that load_capabilities returns, if
\* it returns any.
LEMMA LedgerIsLoaded ==
  ASSUME LibraryInv, ~Broken, NEW e \in ledger, NEW id, Id(e.by) = id
  PROVE  Version(e.by) \in {VersionAt(l) : l \in LoadedOf(id)}
<1>1. e.at \in Locations /\ canonical[e.at].asset \in {e.by, Torn}
  BY DEF LibraryInv, BackedInv, Backed
<1>2. canonical[e.at].asset = e.by
  BY <1>1 DEF Broken, Unreadable
<1>3. e.by \in Candidates
  BY DEF LibraryInv, Shapes, Entries
<1>4. e.at \in LoadedOf(id) /\ VersionAt(e.at) = Version(e.by)
  BY <1>1, <1>2, <1>3 DEF LoadedOf, Loaded, VersionAt
<1> QED
  BY <1>4

\* The version check refuses a version that is there.
LEMMA AllowedIsNew ==
  ASSUME NEW c \in Candidates, NEW seen, OperationAllowed(c, seen)
  PROVE  Version(c) \notin seen
<1>1. CASE Proposals[c].operation = "CREATE"
  BY <1>1 DEF OperationAllowed
<1>2. CASE Proposals[c].operation # "CREATE"
  <2>1. \A v \in seen : Proposals[c].version > v
    BY <1>2 DEF OperationAllowed
  <2>2. Version(c) \in Nat /\ Version(c) = Proposals[c].version
    BY VersionsOfCandidates DEF Version
  <2>3. ~(Proposals[c].version > Proposals[c].version)
    BY <2>2
  <2> QED
    BY <2>1, <2>2, <2>3
<1> QED
  BY <1>1, <1>2

LEMMA AloneBefore ==
  ASSUME LibraryInv, SequentialInv, NEW p \in Processes, CommandStep(p), Alone'
  PROVE  /\ \A q \in Processes \ {p} : job[q].pc = "idle" /\ job'[q].pc = "idle"
         /\ ReadableBy(p) /\ CoveredBy(p) /\ VersionOK(p)
<1>c. ASSUME Alone, \A q \in Processes \ {p} : job[q].pc = "idle"
      PROVE  /\ \A q \in Processes \ {p} : job[q].pc = "idle" /\ job'[q].pc = "idle"
             /\ ReadableBy(p) /\ CoveredBy(p) /\ VersionOK(p)
  <2>1. CoveredInv /\ ReadableBy(p) /\ VersionOK(p)
    BY <1>c DEF SequentialInv
  <2> QED
    BY <1>c, <2>1, SoloBefore, JobStep
<1>1. CASE Starts(p)
  <2>1. UNCHANGED ledgerCut
    BY <1>1 DEF Starts, Call, damage
  <2>2. overlap' = (overlap \/ \E q \in Processes : job[q].pc # "idle")
    BY <1>1 DEF Starts, Call
  <2>3. ~overlap /\ \A q \in Processes : job[q].pc = "idle"
    BY <2>2 DEF Alone
  <2> QED
    BY <1>c, <2>1, <2>3 DEF Alone
<1>2. ASSUME job[p].pc # "idle", UNCHANGED <<ledgerCut, overlap>>
      PROVE  Alone /\ \A q \in Processes \ {p} : job[q].pc = "idle"
  BY <1>2 DEF Alone, SequentialInv, OneCommand
<1>3. CASE Kill(p)
  <2>1. job[p].pc # "idle" /\ UNCHANGED overlap /\ (ledgerCut => ledgerCut')
    BY <1>3 DEF Kill, evidence
  <2> QED
    BY <1>c, <2>1 DEF Alone, SequentialInv, OneCommand
<1>4. CASE ~Starts(p) /\ ~Kill(p)
  <2>1. OpenExperience(p) => job[p].pc # "idle" /\ UNCHANGED <<ledgerCut, overlap>>
    BY DEF OpenExperience, At, history, evidence, damage
  <2>2. FillExperience(p) => job[p].pc # "idle" /\ UNCHANGED <<ledgerCut, overlap>>
    BY DEF FillExperience, At, history, evidence, damage
  <2>3. OpenResult(p) => job[p].pc # "idle" /\ UNCHANGED <<ledgerCut, overlap>>
    BY DEF OpenResult, At, history, evidence, damage
  <2>4. FillResult(p) => job[p].pc # "idle" /\ UNCHANGED <<ledgerCut, overlap>>
    BY DEF FillResult, At, history, evidence, damage
  <2>5. OpenCandidate(p) => job[p].pc # "idle" /\ UNCHANGED <<ledgerCut, overlap>>
    BY DEF OpenCandidate, At, history, evidence, damage
  <2>6. FillCandidate(p) => job[p].pc # "idle" /\ UNCHANGED <<ledgerCut, overlap>>
    BY DEF FillCandidate, At, history, evidence, damage
  <2>7. WriteProposed(p) => job[p].pc # "idle" /\ UNCHANGED <<ledgerCut, overlap>>
    BY DEF WriteProposed, At, history, evidence, damage
  <2>8. CheckProposed(p) => job[p].pc # "idle" /\ UNCHANGED <<ledgerCut, overlap>>
    BY DEF CheckProposed, At, history, evidence, damage
  <2>9. EnsureSourcesTriaged(p) => job[p].pc # "idle" /\ UNCHANGED <<ledgerCut, overlap>>
    BY DEF EnsureSourcesTriaged, At, history, evidence, damage
  <2>10. LoadExisting(p) => job[p].pc # "idle" /\ UNCHANGED <<ledgerCut, overlap>>
    BY DEF LoadExisting, At, history, evidence, damage
  <2>11. ValidateOperation(p) => job[p].pc # "idle" /\ UNCHANGED <<ledgerCut, overlap>>
    BY DEF ValidateOperation, At, history, evidence, damage
  <2>12. EnsureTransferEvidence(p) => job[p].pc # "idle" /\ UNCHANGED <<ledgerCut, overlap>>
    BY DEF EnsureTransferEvidence, At, history, evidence, damage
  <2>13. EnsureEvals(p) => job[p].pc # "idle" /\ UNCHANGED <<ledgerCut, overlap>>
    BY DEF EnsureEvals, At, history, evidence, damage
  <2>14. ReportReadiness(p) => job[p].pc # "idle" /\ UNCHANGED <<ledgerCut, overlap>>
    BY DEF ReportReadiness, At, history, evidence, damage
  <2>15. ChooseDestination(p) => job[p].pc # "idle" /\ UNCHANGED <<ledgerCut, overlap>>
    BY DEF ChooseDestination, At, history, evidence, damage
  <2>16. MakeDestination(p) => job[p].pc # "idle" /\ UNCHANGED <<ledgerCut, overlap>>
    BY DEF MakeDestination, At, history, evidence, damage
  <2>17. WriteAsset(p) => job[p].pc # "idle" /\ UNCHANGED <<ledgerCut, overlap>>
    BY DEF WriteAsset, At, history, evidence, damage
  <2>18. WriteContent(p) => job[p].pc # "idle" /\ UNCHANGED <<ledgerCut, overlap>>
    BY DEF WriteContent, At, history, evidence, damage
  <2>19. LoadPromoted(p) => job[p].pc # "idle" /\ UNCHANGED <<ledgerCut, overlap>>
    BY DEF LoadPromoted, At, history, evidence, damage
  <2>20. ReadLedger(p) => job[p].pc # "idle" /\ UNCHANGED <<ledgerCut, overlap>>
    BY DEF ReadLedger, At, history, evidence, damage
  <2>21. OpenLedger(p) => job[p].pc # "idle" /\ UNCHANGED <<ledgerCut, overlap>>
    BY DEF OpenLedger, At, history, evidence, damage
  <2>22. FillLedger(p) => job[p].pc # "idle" /\ UNCHANGED <<ledgerCut, overlap>>
    BY DEF FillLedger, At, history, evidence, damage
  <2>23. job[p].pc # "idle" /\ UNCHANGED <<ledgerCut, overlap>>
    BY <1>4, <2>1, <2>2, <2>3, <2>4, <2>5, <2>6, <2>7, <2>8, <2>9, <2>10, <2>11, <2>12,
       <2>13, <2>14, <2>15, <2>16, <2>17, <2>18, <2>19, <2>20, <2>21, <2>22 DEF CommandStep
  <2> QED
    BY <1>c, <1>2, <2>23
<1> QED
  BY <1>1, <1>3, <1>4

\* A version becomes unreadable only by a change of its asset.yaml.
LEMMA UnreadableStays ==
  ASSUME NEW l \in Locations, canonical'[l].asset = canonical[l].asset
  PROVE  Unreadable(l)' = Unreadable(l)
BY DEF Unreadable, Loaded

LEMMA SequentialCommand ==
  ASSUME LibraryInv, SequentialInv, NEW p \in Processes, CommandStep(p)
  PROVE  SequentialInv'
<1> SUFFICES ASSUME Alone'
             PROVE  SequentialInv'
  BY DEF SequentialInv
<1>a. /\ job \in [Processes -> Jobs]
      /\ canonical \in [Locations -> Held]
      /\ None \notin Candidates /\ Torn \notin Candidates /\ None # Torn
  BY LearningAssumption DEF LibraryInv, Shapes
<1>b. /\ ReadableBy(p) /\ CoveredBy(p) /\ VersionOK(p)
      /\ \A q \in Processes \ {p} : job'[q].pc = "idle"
  BY AloneBefore
<1>c. ASSUME ReadableBy(p)', CoveredBy(p)', VersionOK(p)'
      PROVE  SequentialInv'
  BY <1>b, <1>c, SoloAfter
<1>d. ASSUME UNCHANGED <<canonical, ledger>>, job[p].pc \notin Pending \cup {"ledger_fill"}
      PROVE  CoveredBy(p)'
  BY <1>b, <1>d, DamageStays, SoloQuiet
<1>e. ASSUME job'[p].pc \notin {"operation"} \cup Validated
      PROVE  ReadableBy(p)' /\ VersionOK(p)'
  BY <1>e DEF VersionOK, ReadableBy, Validated, Transferred, Evaluated, Filling, Filled
<1>f. ASSUME UNCHANGED ledger, job'[p].subject = job[p].subject,
             job[p].pc \in Validated \ {"ledger_open", "ledger_fill"},
             job'[p].pc \in Validated \ {"ledger_open", "ledger_fill"}
      PROVE  VersionOK(p)'
  <2>1. job'[p].pc # "operation"
    BY <1>f DEF Validated, Transferred, Evaluated, Filling, Filled
  <2> QED
    BY <1>b, <1>f, <2>1 DEF VersionOK, SameVersion, Subject
<1>g. ASSUME UNCHANGED canonical, job[p].pc \in {"transfer", "evals", "destination"},
             job'[p].pc \in {"evals", "destination", "mkdir"}
      PROVE  ReadableBy(p)'
  <2>1. ~Broken
    BY <1>b, <1>g DEF ReadableBy
  <2>2. ~Broken'
    BY <1>g, <2>1, UnreadableStays DEF Broken
  <2> QED
    BY <1>g, <2>2 DEF ReadableBy
<1>h. cut \subseteq cut' /\ tangled \subseteq tangled'
  BY DamageStays
<1> USE <1>a
<1>1. CASE Kill(p)
  <2>1. /\ UNCHANGED <<canonical, ledger>> /\ job'[p].pc = "idle"
        /\ ledgerCut' = (ledgerCut \/ job[p].pc = "ledger_fill")
        /\ job[p].pc \in Unrecorded => Place(p) \in cut'
    BY <1>1, ReturnMoves DEF Kill, files
  <2>2. job[p].pc # "ledger_fill"
    BY <2>1 DEF Alone
  <2>3. CoveredBy(p)'
    <3>1. CASE job[p].pc \in Pending
      <4>1. Place(p) \in cut'
        BY <2>1, <3>1 DEF Pending, Unrecorded
      <4> QED
        BY <1>b, <1>h, <2>1, <2>2, <4>1, SoloWriter
    <3>2. CASE job[p].pc \notin Pending
      BY <1>d, <2>1, <2>2, <3>2
    <3> QED
      BY <3>1, <3>2
  <2>4. ReadableBy(p)' /\ VersionOK(p)'
    BY <1>e, <2>1 DEF Validated, Transferred, Evaluated, Filling, Filled
  <2> QED
    BY <1>c, <2>3, <2>4
<1>2. CASE Starts(p)
  BY <1>2, JobStep, <1>c, <1>d, <1>e
  DEF Starts, Call, files, Pending, Validated, Transferred, Evaluated, Filling, Filled
<1>3. CASE OpenExperience(p)
  BY <1>3, GotoMoves, StepNames, <1>c, <1>d, <1>e DEF OpenExperience, At, files, Pending,
     Validated, Transferred, Evaluated, Filling, Filled
<1>4. CASE FillExperience(p)
  BY <1>4, ReturnMoves, <1>c, <1>d, <1>e DEF FillExperience, At, files, Pending, Validated,
     Transferred, Evaluated, Filling, Filled
<1>5. CASE OpenResult(p)
  BY <1>5, GotoMoves, StepNames, <1>c, <1>d, <1>e DEF OpenResult, At, files, Pending, Validated,
     Transferred, Evaluated, Filling, Filled
<1>6. CASE FillResult(p)
  BY <1>6, ReturnMoves, <1>c, <1>d, <1>e DEF FillResult, At, files, Pending, Validated,
     Transferred, Evaluated, Filling, Filled
<1>7. CASE OpenCandidate(p)
  BY <1>7, GotoMoves, StepNames, <1>c, <1>d, <1>e DEF OpenCandidate, At, files, Pending,
     Validated, Transferred, Evaluated, Filling, Filled
<1>8. CASE FillCandidate(p)
  BY <1>8, GotoMoves, ReturnMoves, StepNames, <1>c, <1>d, <1>e DEF FillCandidate, At, files,
     Pending, Validated, Transferred, Evaluated, Filling, Filled
<1>9. CASE WriteProposed(p)
  BY <1>9, GotoMoves, ReturnMoves, StepNames, <1>c, <1>d, <1>e DEF WriteProposed, At, files,
     Pending, Validated, Transferred, Evaluated, Filling, Filled
<1>10. CASE CheckProposed(p)
  BY <1>10, GotoMoves, ReturnMoves, StepNames, <1>c, <1>d, <1>e DEF CheckProposed, At, Check,
     files, Pending, Validated, Transferred, Evaluated, Filling, Filled
<1>11. CASE EnsureSourcesTriaged(p)
  BY <1>11, GotoMoves, ReturnMoves, StepNames, <1>c, <1>d, <1>e DEF EnsureSourcesTriaged, At,
     Check, files, Pending, Validated, Transferred, Evaluated, Filling, Filled
<1>12. CASE LoadExisting(p)
  <2>1. CoveredBy(p)'
    BY <1>12, <1>d DEF LoadExisting, At, files, Pending
  <2>2. ~Broken => \A e \in ledger : Id(e.by) = Id(Subject(p)) =>
          Version(e.by) \in {VersionAt(l) : l \in LoadedOf(Id(Subject(p)))}
    BY LedgerIsLoaded
  <2>3. UNCHANGED ledger
    BY <1>12 DEF LoadExisting, files
  <2>4. PICK x : x = {VersionAt(l) : l \in LoadedOf(Id(Subject(p)))}
    OBVIOUS
  <2>5. \/ job'[p].pc = "idle"
        \/ /\ job'[p].pc = "operation" /\ job'[p].seen = x /\ ~Broken
           /\ job'[p].subject = job[p].subject
    <3>1. CASE Return(p)
      BY <3>1, ReturnMoves
    <3>2. CASE ~Return(p)
      BY <1>12, <2>4, <3>2, LoadExistingMoves DEF LoadExisting, Jobs, Idle
    <3> QED
      BY <3>1, <3>2
  <2>6. VersionOK(p)'
    BY <2>2, <2>3, <2>4, <2>5
    DEF VersionOK, Subject, Validated, Transferred, Evaluated, Filling, Filled
  <2>7. ReadableBy(p)'
    BY <2>5 DEF ReadableBy
  <2> QED
    BY <1>c, <2>1, <2>6, <2>7
<1>13. CASE ValidateOperation(p)
  <2>1. CoveredBy(p)'
    BY <1>13, <1>d DEF ValidateOperation, At, files, Pending
  <2>2. UNCHANGED ledger
    BY <1>13 DEF ValidateOperation, files
  <2>3. CASE Return(p)
    BY <1>c, <1>e, <2>1, <2>3, ReturnMoves DEF Validated, Transferred, Evaluated, Filling, Filled
  <2>4. CASE ~Return(p)
    <3>1. PICK s \in {"transfer", "evals"} : Goto(p, s)
      BY <1>13, <2>4 DEF ValidateOperation
    <3>2. job'[p].pc = s /\ job'[p].subject = job[p].subject
      BY <3>1, GotoMoves, StepNames
    <3>3. Subject(p) \in Candidates
      BY <1>13, StageNames DEF ValidateOperation, At, LibraryInv, Subjects, SubjectOK
    <3>4. Version(Subject(p)) \notin job[p].seen
      BY <1>13, <2>4, <3>3, AllowedIsNew DEF ValidateOperation
    <3>5. \A e \in ledger : ~SameVersion(e, Subject(p))
      BY <1>13, <1>b, <3>4 DEF ValidateOperation, At, VersionOK, SameVersion
    <3>6. VersionOK(p)'
      BY <2>2, <3>2, <3>5 DEF VersionOK, SameVersion, Subject
    <3>7. ~Broken'
      BY <1>13, <2>4, UnreadableStays DEF ValidateOperation, Broken, files
    <3>8. ReadableBy(p)'
      BY <3>2, <3>7 DEF ReadableBy
    <3> QED
      BY <1>c, <2>1, <3>6, <3>8
  <2> QED
    BY <2>3, <2>4
<1>14. CASE EnsureTransferEvidence(p)
  BY <1>14, GotoMoves, ReturnMoves, StepNames, <1>c, <1>d, <1>e, <1>f, <1>g DEF
     EnsureTransferEvidence, At, Check, files, Pending, Validated, Transferred, Evaluated,
     Filling, Filled
<1>15. CASE EnsureEvals(p)
  BY <1>15, GotoMoves, ReturnMoves, StepNames, <1>c, <1>d, <1>e, <1>f, <1>g DEF EnsureEvals, At,
     Check, files, Pending, Validated, Transferred, Evaluated, Filling, Filled
<1>16. CASE ReportReadiness(p)
  BY <1>16, ReturnMoves, <1>c, <1>d, <1>e DEF ReportReadiness, At, files, Pending, Validated,
     Transferred, Evaluated, Filling, Filled
<1>17. CASE ChooseDestination(p)
  BY <1>17, ChooseDestinationMoves, StepNames, <1>c, <1>d, <1>f, <1>g DEF ChooseDestination, At,
     files, Pending, Validated, Transferred, Evaluated, Filling, Filled
<1>18. CASE MakeDestination(p)
  <2>1. CASE Return(p) /\ UNCHANGED canonical
    BY <1>18, <1>c, <1>d, <1>e, <2>1, ReturnMoves
    DEF MakeDestination, At, Pending, Validated, Transferred, Evaluated, Filling, Filled
  <2>2. CASE ~(Return(p) /\ UNCHANGED canonical)
    <3>1. /\ ~canonical[Place(p)].dir /\ Goto(p, "asset_open") /\ UNCHANGED ledger
          /\ canonical' = [canonical EXCEPT ![Place(p)].dir = TRUE]
          /\ job[p].pc = "mkdir"
      BY <1>18, <2>2 DEF MakeDestination, At
    <3>2. Place(p) \in Locations
      BY <1>18, WriterMoves
    <3>3. \A l \in Locations : canonical'[l].asset = canonical[l].asset
      BY <3>1, <3>2 DEF Held
    <3>4. canonical'[Place(p)].asset = None
      BY <3>1, <3>2, <3>3 DEF LibraryInv, LocationsInv, LocationOK
    <3>5. /\ job'[p].pc = "asset_open" /\ job'[p].subject = job[p].subject
          /\ job'[p].place = job[p].place
      BY <3>1, GotoMoves, StepNames
    <3>6. CoveredBy(p)'
      BY <1>b, <1>h, <3>1, <3>2, <3>4, SoloWriter
    <3>7. ~Broken'
      BY <1>b, <3>1, <3>3, UnreadableStays DEF ReadableBy, Broken
    <3>8. ReadableBy(p)'
      BY <3>5, <3>7 DEF ReadableBy
    <3> QED
      BY <1>c, <1>f, <3>1, <3>5, <3>6, <3>8 DEF Validated, Transferred, Evaluated, Filling, Filled
  <2> QED
    BY <2>1, <2>2
<1>19. CASE WriteAsset(p)
  <2>1. Place(p) \in Locations
    BY <1>19, WriterMoves
  <2>2. /\ job'[p].subject = job[p].subject /\ job'[p].place = job[p].place
        /\ UNCHANGED ledger
        /\ \A l \in Locations \ {Place(p)} : canonical'[l] = canonical[l]
        /\ \/ /\ job[p].pc = "asset_open" /\ job'[p].pc = "asset_fill"
              /\ canonical'[Place(p)].asset = Torn
           \/ /\ job[p].pc = "asset_fill" /\ job'[p].pc = "content_open"
              /\ canonical'[Place(p)].asset = Subject(p)
    BY <1>19, <2>1, GotoMoves, StepNames DEF WriteAsset, At, Held
  <2>3. CoveredBy(p)'
    BY <1>b, <1>h, <2>1, <2>2, SoloWriter DEF Place, Pending
  <2>4. \A l \in Locations : Unreadable(l) => l = Place(p)
    BY <1>b, <2>2 DEF ReadableBy, Broken
  <2>5. \A l \in Locations : Unreadable(l)' => l = Place(p)
    BY <2>2, <2>4, UnreadableStays
  <2>6. ReadableBy(p)'
    BY <2>2, <2>5 DEF ReadableBy, Place
  <2> QED
    BY <1>c, <1>f, <2>2, <2>3, <2>6 DEF Validated, Transferred, Evaluated, Filling, Filled
<1>20. CASE WriteContent(p)
  <2>1. Place(p) \in Locations /\ Subject(p) \in Candidates /\ FillOK(p)
    BY <1>20, PlaceIsALocation, StageNames DEF WriteContent, At, LibraryInv, FillingInv
  <2>2. /\ job[p].pc \in {"content_open", "content_fill"} /\ UNCHANGED ledger
        /\ job'[p].pc \in {"idle", "content_fill", "load"}
        /\ job'[p].pc = "idle" \/ (Place(p)' = Place(p) /\ job'[p].subject = job[p].subject)
    BY <1>20, WriteContentMoves DEF WriteContent, At, files, Place
  <2>3. /\ job'[p].pc = "idle" => Place(p) \in cut'
        /\ job'[p].pc = "content_fill" => job[p].pc = "content_open"
        /\ job'[p].pc = "load" => job[p].pc = "content_fill"
    BY <1>20, OpenContentMoves, FillContentMoves
  <2>4. CoveredBy(p)'
    <3>1. \A l \in Locations \ {Place(p)} :
            /\ canonical'[l].asset \in {canonical[l].asset, Torn}
            /\ l \in tangled' \/ canonical'[l] = canonical[l]
      BY <1>20, WriterMoves
    <3>2. Place(p) \in cut' \/ (job'[p].pc \in Pending /\ Place(p)' = Place(p))
      BY <2>2, <2>3 DEF Pending
    <3>3. job[p].pc # "ledger_fill"
      BY <2>2
    <3> QED
      BY <1>b, <1>h, <2>2, <3>1, <3>2, <3>3, SoloWriter
  <2>5. CASE job'[p].pc = "idle"
    BY <1>c, <1>e, <2>4, <2>5 DEF Validated, Transferred, Evaluated, Filling, Filled
  <2>6. CASE job'[p].pc # "idle"
    <3>1. PICK text \in Candidates \cup {None, Empty, Torn} :
            /\ Put(Subject(p), Place(p), text)
            /\ Own(Subject(p), Place(p)) \/ Place(p) \in tangled'
      <4>1. CASE job[p].pc = "content_open"
        BY <1>20, <2>6, <4>1, OpenContentMoves
      <4>2. CASE job[p].pc # "content_open"
        <5>1. /\ Put(Subject(p), Place(p), job[p].copy) /\ UNCHANGED tangled
              /\ job[p].pc = "content_fill" /\ job[p].copy \in Candidates \cup {None, Empty, Torn}
          BY <1>20, <4>2, FillContentMoves DEF Jobs
        <5>2. Own(Subject(p), Place(p)) \/ Place(p) \in tangled
          BY <2>1, <5>1, StageNames DEF FillOK
        <5> QED
          BY <5>1, <5>2
      <4> QED
        BY <4>1, <4>2
    <3>2. ASSUME Place(p) \notin tangled'
          PROVE  ~Broken'
      <4>1. Own(Subject(p), Place(p)) /\ Place(p) \notin tangled
        BY <1>h, <3>1, <3>2
      <4>2. \A l \in Locations : canonical'[l].asset = canonical[l].asset
        BY <2>1, <3>1, <4>1, PutMoves
      <4>3. canonical[Place(p)].asset = Subject(p)
        BY <2>1, <2>2, <4>1, StageNames DEF FillOK
      <4>4. ~Unreadable(Place(p))
        BY <2>1, <4>1, <4>3 DEF Unreadable, Own
      <4>5. ~Broken
        BY <1>b, <2>2, <4>1, <4>4 DEF ReadableBy, Broken
      <4> QED
        BY <4>2, <4>5, UnreadableStays DEF Broken
    <3>3. ReadableBy(p)'
      BY <2>2, <2>6, <3>2 DEF ReadableBy
    <3> QED
      BY <1>c, <1>f, <2>2, <2>4, <2>6, <3>3 DEF Validated, Transferred, Evaluated, Filling, Filled
  <2> QED
    BY <2>5, <2>6
<1>21. CASE LoadPromoted(p)
  <2>1. job[p].pc = "load" /\ UNCHANGED <<canonical, ledger>>
    BY <1>21 DEF LoadPromoted, At, files
  <2>2. \/ job'[p].pc = "idle" /\ Place(p) \in tangled'
        \/ /\ job'[p].pc = "ledger_read" /\ job'[p].subject = job[p].subject
           /\ Place(p)' = Place(p)
    <3>1. CASE job'[p].pc = "idle"
      <4>1. Broken
        BY <1>21, <3>1, LoadPromotedMoves
      <4> QED
        BY <1>b, <1>h, <2>1, <3>1, <4>1 DEF ReadableBy
    <3>2. CASE job'[p].pc # "idle"
      BY <1>21, <3>2, LoadPromotedMoves DEF Place
    <3> QED
      BY <3>1, <3>2
  <2>3. CoveredBy(p)'
    BY <1>b, <1>h, <2>1, <2>2, SoloWriter DEF Pending
  <2>4. ReadableBy(p)'
    BY <2>2 DEF ReadableBy
  <2>5. VersionOK(p)'
    BY <1>e, <1>f, <2>1, <2>2 DEF Validated, Transferred, Evaluated, Filling, Filled
  <2> QED
    BY <1>c, <2>3, <2>4, <2>5
<1>22. CASE ReadLedger(p)
  <2>1. job[p].pc = "ledger_read" /\ UNCHANGED <<canonical, ledger, cut, tangled>>
    BY <1>22 DEF ReadLedger, At, files, history, damage
  <2>2. \A e \in ledger : ~SameVersion(e, Subject(p))
    BY <1>b, <2>1 DEF VersionOK, Validated, Transferred, Evaluated, Filled
  <2>3. PICK new, x : /\ new = Entry(Subject(p), job[p].copy, Place(p))
                      /\ x = ledger \cup {new}
    OBVIOUS
  <2>4. job' = [job EXCEPT ![p].pc = "ledger_open", ![p].entries = x]
    BY <1>22, <2>2, <2>3 DEF ReadLedger, SameVersion
  <2>5. /\ job'[p].pc = "ledger_open" /\ job'[p].entries = x
        /\ job'[p].subject = job[p].subject /\ job'[p].place = job[p].place
    BY <2>4 DEF Jobs
  <2>6. CoveredBy(p)'
    BY <1>b, <1>h, <2>1, <2>5, SoloWriter DEF Place, Pending
  <2>7. Place(p) \in cut \cup tangled \/ (/\ Own(canonical[Place(p)].asset, Place(p))
                                          /\ EntryAt(Place(p)) = new)
    BY <2>1, <2>3, StageNames DEF LibraryInv, FilledInv, FilledOK, EntryAt
  <2>8. \A l \in Loaded : Covered(l, x)
    <3> TAKE l \in Loaded
    <3>1. CASE l = Place(p)
      BY <2>3, <2>7, <3>1 DEF Covered
    <3>2. CASE l # Place(p)
      BY <1>b, <2>1, <2>3, <3>2 DEF CoveredBy, Covered
    <3> QED
      BY <3>1, <3>2
  <2>9. Loaded' = Loaded /\ \A l \in Loaded : Covered(l, x)'
    BY <2>1, <2>8 DEF Loaded, Covered, EntryAt
  <2>10. VersionOK(p)' /\ ReadableBy(p)'
    BY <2>5, <2>9 DEF VersionOK, ReadableBy, Covered, EntryAt
  <2> QED
    BY <1>c, <2>6, <2>10
<1>23. CASE OpenLedger(p)
  <2>1. job[p].pc = "ledger_open" /\ UNCHANGED <<canonical, cut, tangled>>
    BY <1>23 DEF OpenLedger, At, history, damage
  <2>2. job'[p].pc = "ledger_fill" /\ job'[p].entries = job[p].entries
    BY <1>23, GotoMoves, StepNames DEF OpenLedger
  <2>3. Loaded' = Loaded /\ \A l, S : Covered(l, S)' = Covered(l, S)
    BY <2>1 DEF Loaded, Covered, EntryAt
  <2>4. CoveredBy(p)'
    BY <2>2 DEF CoveredBy
  <2>5. \A l \in Loaded' : Covered(l, job[p].entries)'
    BY <1>b, <2>1, <2>2, <2>3 DEF VersionOK
  <2>6. VersionOK(p)' /\ ReadableBy(p)'
    BY <2>2, <2>5 DEF VersionOK, ReadableBy, Covered
  <2> QED
    BY <1>c, <2>4, <2>6
<1>24. CASE FillLedger(p)
  <2>1. /\ job[p].pc = "ledger_fill" /\ UNCHANGED <<canonical, cut, tangled>>
        /\ ledger' = job[p].entries
    BY <1>24 DEF FillLedger, At, history, damage
  <2>2. job'[p].pc = "candidate_open"
    BY <1>24, FillLedgerMoves
  <2>3. \A l \in Loaded : Covered(l, job[p].entries)
    BY <1>b, <2>1 DEF VersionOK
  <2>4. CoveredBy(p)'
    BY <2>1, <2>3 DEF CoveredBy, Covered, EntryAt, Loaded
  <2> QED
    BY <1>c, <1>e, <2>2, <2>4 DEF Validated, Transferred, Evaluated, Filling, Filled
<1> QED
  BY <1>1, <1>2, <1>3, <1>4, <1>5, <1>6, <1>7, <1>8, <1>9, <1>10, <1>11, <1>12, <1>13, <1>14,
     <1>15, <1>16, <1>17, <1>18, <1>19, <1>20, <1>21, <1>22, <1>23, <1>24 DEF CommandStep

LEMMA SequentialStep ==
  ASSUME LibraryInv, SequentialInv, [Next]_vars
  PROVE  SequentialInv'
<1>1. ASSUME UNCHANGED <<canonical, ledger, job, ledgerCut, overlap, cut, tangled>>
      PROVE  SequentialInv'
  BY <1>1 DEF SequentialInv, Alone, OneCommand, CoveredInv, ReadableBy, Broken, Unreadable,
              VersionOK, SameVersion, Loaded, Covered, EntryAt, Place, Subject
<1>2. ASSUME NEW c \in Candidates, NEW s \in {"AUTHORIZED", "WITHDRAWN"}, Decide(c, s)
      PROVE  SequentialInv'
  BY <1>1, <1>2 DEF Decide, damage
<1>3. CASE UNCHANGED vars
  BY <1>1, <1>3 DEF vars, files, history, evidence, damage
<1> QED
  BY <1>2, <1>3, SequentialCommand, LearningSteps

LEMMA SequentialInit == Init => SequentialInv
<1> SUFFICES ASSUME Init
             PROVE  SequentialInv
  OBVIOUS
<1>a. \A p \in Processes : job[p].pc = "idle"
  BY IdleIsAJob DEF Init
<1>b. None \notin Candidates
  BY LearningAssumption
<1>1. \A l \in Locations :
        \/ canonical[l].asset = None
        \/ \E c \in Seeds : l = BaseOf(c) /\ canonical[l].asset = c /\ canonical[l].content = c
  <2> TAKE l \in Locations
  <2>1. CASE \E c \in Seeds : l = BaseOf(c)
    <3>1. PICK s : s = CHOOSE c \in Seeds : l = BaseOf(c)
      OBVIOUS
    <3>2. s \in Seeds /\ l = BaseOf(s)
      BY <2>1, <3>1
    <3>3. canonical[l] = [dir |-> TRUE, asset |-> s, content |-> s]
      BY <2>1, <3>1 DEF Init
    <3> QED
      BY <3>2, <3>3
  <2>2. CASE ~ \E c \in Seeds : l = BaseOf(c)
    BY <2>2 DEF Init, NoDirectory
  <2> QED
    BY <2>1, <2>2
<1>2. \A l \in Loaded : Covered(l, ledger)
  <2> TAKE l \in Loaded
  <2>1. PICK c \in Seeds : l = BaseOf(c) /\ canonical[l].asset = c /\ canonical[l].content = c
    BY <1>b, <1>1 DEF Loaded
  <2>2. Entry(c, c, BaseOf(c)) \in ledger /\ Own(c, BaseOf(c))
    BY LearningAssumption DEF Init
  <2> QED
    BY <2>1, <2>2 DEF EntryAt, Covered
<1>3. OneCommand /\ CoveredInv
  BY <1>a, <1>2 DEF OneCommand, CoveredInv
<1>4. \A p \in Processes : VersionOK(p) /\ ReadableBy(p)
  BY <1>a DEF VersionOK, ReadableBy, Validated, Transferred, Evaluated, Filling, Filled
<1> QED
  BY <1>3, <1>4 DEF SequentialInv

(***************************************************************************)
(* Commands that run one after the other, whatever they are, whichever of  *)
(* them fail, and wherever they are cut short, leave a library in which    *)
(* validate_promotion_authority finds every version in the ledger, with    *)
(* the hash of the content that is there: all but the versions of          *)
(* promotions that were cut short before their entry or whose contentFile  *)
(* is not a content file of their own, and the ones that it leads to.      *)
(* Only the ledger itself must not have been cut short.                    *)
(***************************************************************************)
THEOREM SequentialIsAuthorised == Spec => []SequentialLibraryAuthorised
<1>1. LibraryInv /\ SequentialInv => SequentialLibraryAuthorised
  <2> SUFFICES ASSUME LibraryInv, SequentialInv, ~overlap, ~ledgerCut, AllIdle,
                      NEW l \in Loaded, l \notin cut \cup tangled
               PROVE  \E e \in EntryOf(l) : e.by = canonical[l].asset /\ e.content = ContentAt(l)
    BY DEF SequentialLibraryAuthorised, AuthorityIssues
  <2>1. Own(canonical[l].asset, l) /\ EntryAt(l) \in ledger
    BY DEF SequentialInv, Alone, CoveredInv, Covered, AllIdle, Pending
  <2>2. PICK e \in ledger : e = EntryAt(l)
    BY <2>1
  <2>3. e.by = canonical[l].asset /\ e.content = canonical[l].content
    BY <2>2 DEF EntryAt, Entry
  <2>4. e \in EntryOf(l)
    BY <2>3 DEF EntryOf, VersionAt
  <2>5. e.content # None
    BY LearningAssumption DEF LibraryInv, Shapes, Entries
  <2>6. ContentAt(l) = canonical[l].content
    BY <2>1, <2>3, <2>5, ContentOfAVersion DEF LibraryInv, Shapes, Loaded
  <2> QED
    BY <2>3, <2>4, <2>6
<1> QED
  BY <1>1, LibraryInvariant, SequentialInit, SequentialStep, PTL DEF Spec

-----------------------------------------------------------------------------
(***************************************************************************)
(* The capability lock: the inductive invariant.                           *)
(***************************************************************************)

\* Locks that name a pack only for reasons that select the external capability.
GoodLocks ==
  {l \in Locks : l.pack # Nothing => \A b \in Bindings : b.reasons = l.reasons => b.external}

Reasons == {b.reasons : b \in Bindings}
Drafts == [lock : GoodLocks \cup {Nothing}, binding : Bindings \cup {Nothing},
           inputs : Reasons \cup {Nothing}, registry : Registries \cup {Nothing},
           pack : Packs \cup {Nothing}]
LockReads == [lock : GoodLocks \cup {Nothing}, binding : Bindings \cup {Nothing},
              inputs : Registries \cup {Nothing}, registry : Registries \cup {Nothing},
              pack : Packs \cup {Nothing}]
Bootstraps == [pin : Locks \cup {Nothing}, integration : Integrations \cup {Nothing}]

BuildSteps == {"IDLE", "REASONS", "CATALOG", "PACK", "TRUNCATE", "WRITE"}
Booting == {"BOOT", "BOOT_INTEGRATION", "BOOT_LOCK"}
Ending == {"CLOSE", "DRAIN", "ENDED"}
LockSteps == VerifySteps \cup Booting \cup Ending \cup {"IDLE", "LOADED", "YIELD", "BODY"}

FileShapes ==
  /\ lockFile \in GoodLocks \cup {TornLock}
  /\ binding \in Bindings /\ registry \in Registries /\ pack \in Packs
  /\ pin \in Locks /\ integration \in Integrations
  /\ draft \in [Builders -> Drafts] /\ bpc \in [Builders -> BuildSteps]

\* What a builder has read by now.
DraftOK(p) ==
  /\ bpc[p] \in {"REASONS", "CATALOG", "PACK"} => draft[p].binding \in Bindings
  /\ bpc[p] \in {"CATALOG", "PACK"} => draft[p].inputs \in Reasons
  /\ bpc[p] = "PACK" => draft[p].registry \in Registries
  /\ bpc[p] \in {"TRUNCATE", "WRITE"} => draft[p].lock \in GoodLocks

FilesInv == FileShapes /\ \A p \in Builders : DraftOK(p)

SessionShapes ==
  /\ session \in {"NONE", "OPEN", "FAILED", "CLOSING", "CLOSED"}
  /\ packIdentity \in Packs \cup {Nothing}
  /\ pc \in [Threads -> LockSteps] /\ read \in [Threads -> LockReads]
  /\ returned \in [Threads -> LockContexts \cup {Nothing}]
  /\ boot \in Bootstraps /\ boots \in Seq(Bootstraps)

\* The lock says what the files say that were read with it.
Agrees(c) ==
  /\ c.lock \in GoodLocks /\ c.binding \in Bindings /\ c.registry \in Registries
  /\ c.lock.disabled = c.binding.disabled /\ c.lock.reasons = c.binding.reasons
  /\ External(c.lock) => ~c.registry.shadows
  /\ c.lock.pack = c.pack /\ c.lock.version \in c.registry.usable

\* What a verification has read and compared by now.
Locked == {"LEASE", "BINDING", "INPUTS", "REGISTRY", "INPUTS_AGAIN", "PACKS", "COMPARE"}
Bound == {"INPUTS", "REGISTRY", "INPUTS_AGAIN", "PACKS", "COMPARE"}

VerifyOK(t) ==
  /\ pc[t] \in Locked => read[t].lock \in GoodLocks
  /\ pc[t] \in Locked \ {"COMPARE"} => read[t].pack = Nothing
  /\ pc[t] \in Bound =>
       /\ read[t].binding \in Bindings
       /\ read[t].lock.disabled = read[t].binding.disabled
       /\ read[t].lock.reasons = read[t].binding.reasons
  /\ pc[t] \in Bound \ {"INPUTS"} => read[t].inputs \in Registries
  /\ pc[t] \in Bound \ {"INPUTS", "REGISTRY"} => read[t].registry \in Registries
  /\ pc[t] = "COMPARE" /\ External(read[t].lock) => ~read[t].registry.shadows
  /\ pc[t] \in {"PUBLISH", "RETURN"} => read[t] \in LockContexts /\ Agrees(read[t])
  /\ pc[t] = "RETURN" => read[t] = lockIdentity
  /\ returned[t] \in {Nothing, lockIdentity}

Leased == {t \in Threads : pc[t] \in UnderLease}

VerificationInv ==
  /\ SessionShapes
  /\ \A t \in Threads : VerifyOK(t)
  /\ \A c \in contexts : Agrees(c)
  /\ leases = Cardinality(Leased)
  /\ packIdentity # Nothing => allowed

\* How far the operation is, in bootstraps.
BootInv ==
  /\ Len(boots) = 0 =>
       /\ session = "NONE" /\ packIdentity = Nothing /\ pc[Main] \in Booting \cup {"ENDED"}
  /\ Len(boots) > 0 => allowed = External(boots[1].pin)
  /\ pc[Main] \in Booting => Len(boots) < 3
  /\ pc[Main] \in VerifySteps \cup {"LOADED"} => Len(boots) = 2
  /\ pc[Main] \in Booting /\ Len(boots) = 2 => returned[Main].lock = boots[2].pin
  /\ pc[Main] = "YIELD" => Len(boots) = 3 /\ returned[Main].lock = boots[2].pin
  /\ yielded # Nothing => pc[Main] \in Ending \cup {"BODY"} /\ Len(boots) = 3 /\ YieldedIsPinned

OperationInv == FilesInv /\ VerificationInv /\ BootInv

-----------------------------------------------------------------------------
LEMMA LockConstants ==
  /\ Nothing \notin Packs /\ Nothing \notin Locks /\ TornLock \notin Locks
  /\ Nothing \notin LockContexts /\ Main \notin Workers /\ Main \in Threads
  /\ Workers \subseteq Threads /\ GoodLocks \subseteq Locks
BY LockAssumption DEF Threads, GoodLocks

\* What a build writes from reads of three moments.
LEMMA BuiltIsGood ==
  ASSUME NEW a \in Bindings, NEW b \in Bindings, NEW r \in Registries, NEW k \in Packs,
         NEW m, m = [disabled |-> a.disabled, reasons |-> b.reasons, external |-> b.external]
  PROVE  LockOf(m, r, k) \in GoodLocks
<1>1. r.active \in LockVersions
  BY DEF LockVersions
<1>2. LockOf(m, r, k) \in Locks
  BY <1>1 DEF LockOf, Locks
<1>3. LockOf(m, r, k).pack # Nothing => b.external
  BY DEF LockOf
<1>4. LockOf(m, r, k).reasons = b.reasons
  BY DEF LockOf
<1>5. \A c \in Bindings : b.reasons = c.reasons => b.external = c.external
  BY LockAssumption
<1> QED
  BY <1>2, <1>3, <1>4, <1>5 DEF GoodLocks

LEMMA NothingReadYet == NotRead \in Drafts /\ NotRead \in LockReads /\ NoBoot \in Bootstraps
BY DEF NotRead, NoBoot, Drafts, LockReads, Bootstraps

BuildStep(p) ==
  \/ BuildBinding(p) \/ BuildReasons(p) \/ BuildCatalog(p) \/ BuildPack(p)
  \/ BuildTruncate(p) \/ BuildWrite(p) \/ BuildDies(p)

LEMMA BuilderMoves ==
  ASSUME draft \in [Builders -> Drafts], bpc \in [Builders -> BuildSteps], NEW p \in Builders,
         NEW s \in BuildSteps, NEW d \in Drafts,
         bpc' = [bpc EXCEPT ![p] = s], draft' = [draft EXCEPT ![p] = d]
  PROVE  /\ draft' \in [Builders -> Drafts] /\ bpc' \in [Builders -> BuildSteps]
         /\ bpc'[p] = s /\ draft'[p] = d
         /\ \A q \in Builders \ {p} : bpc'[q] = bpc[q] /\ draft'[q] = draft[q]
OBVIOUS

LEMMA FilesBuild ==
  ASSUME FilesInv, NEW p \in Builders, BuildStep(p)
  PROVE  FilesInv'
<1>a. /\ FileShapes /\ DraftOK(p) /\ \A q \in Builders : DraftOK(q)
      /\ draft \in [Builders -> Drafts] /\ bpc \in [Builders -> BuildSteps]
  BY DEF FilesInv, FileShapes
<1>b. ASSUME NEW s \in BuildSteps, NEW d \in Drafts, UNCHANGED <<binding, registry, pack, pin, integration>>,
             lockFile' \in GoodLocks \cup {TornLock},
             bpc' = [bpc EXCEPT ![p] = s], draft' = [draft EXCEPT ![p] = d],
             s \in {"REASONS", "CATALOG", "PACK"} => d.binding \in Bindings,
             s \in {"CATALOG", "PACK"} => d.inputs \in Reasons,
             s = "PACK" => d.registry \in Registries,
             s \in {"TRUNCATE", "WRITE"} => d.lock \in GoodLocks
      PROVE  FilesInv'
  <2>1. /\ draft' \in [Builders -> Drafts] /\ bpc' \in [Builders -> BuildSteps]
        /\ bpc'[p] = s /\ draft'[p] = d
        /\ \A q \in Builders \ {p} : bpc'[q] = bpc[q] /\ draft'[q] = draft[q]
    BY <1>a, <1>b, BuilderMoves
  <2>2. FileShapes'
    BY <1>a, <1>b, <2>1 DEF FileShapes
  <2>3. DraftOK(p)'
    BY <1>b, <2>1 DEF DraftOK
  <2>4. \A q \in Builders \ {p} : DraftOK(q)'
    BY <1>a, <2>1 DEF DraftOK
  <2> QED
    BY <2>2, <2>3, <2>4 DEF FilesInv
<1>c. /\ binding \in Bindings /\ registry \in Registries /\ pack \in Packs
      /\ lockFile \in GoodLocks \cup {TornLock} /\ draft[p] \in Drafts /\ bpc[p] \in BuildSteps
  BY <1>a DEF FileShapes
<1>1. CASE BuildBinding(p)
  <2>1. PICK d : d = [NotRead EXCEPT !.binding = binding]
    OBVIOUS
  <2>2. d \in Drafts /\ d.binding \in Bindings /\ "REASONS" \in BuildSteps
    BY <1>c, <2>1 DEF NotRead, Drafts, BuildSteps
  <2> QED
    BY <1>1, <1>b, <1>c, <2>1, <2>2 DEF BuildBinding, BuilderReads, lockFiles
<1>2. CASE BuildReasons(p)
  <2>1. PICK d : d = [draft[p] EXCEPT !.inputs = binding.reasons]
    OBVIOUS
  <2>2. bpc[p] = "REASONS"
    BY <1>2 DEF BuildReasons, BuilderReads
  <2>3. draft[p].binding \in Bindings /\ binding.reasons \in Reasons
    BY <1>a, <1>c, <2>2 DEF DraftOK, Reasons
  <2>4. /\ d \in Drafts /\ d.binding \in Bindings /\ d.inputs \in Reasons
        /\ "CATALOG" \in BuildSteps
    BY <1>c, <2>1, <2>3 DEF Drafts, BuildSteps
  <2> QED
    BY <1>2, <1>b, <1>c, <2>1, <2>4 DEF BuildReasons, BuilderReads, lockFiles
<1>3. CASE BuildCatalog(p)
  <2>1. PICK d : d = [draft[p] EXCEPT !.registry = registry]
    OBVIOUS
  <2>2. bpc[p] = "CATALOG"
    BY <1>3 DEF BuildCatalog, BuilderReads
  <2>3. draft[p].binding \in Bindings /\ draft[p].inputs \in Reasons
    BY <1>a, <2>2 DEF DraftOK
  <2>4. /\ d \in Drafts /\ d.binding \in Bindings /\ d.inputs \in Reasons
        /\ d.registry \in Registries /\ "PACK" \in BuildSteps
    BY <1>c, <2>1, <2>3 DEF Drafts, BuildSteps
  <2> QED
    BY <1>3, <1>b, <1>c, <2>1, <2>4 DEF BuildCatalog, BuilderReads, lockFiles
<1>4. CASE BuildPack(p)
  <2>1. PICK b : b = CHOOSE x \in Bindings : x.reasons = draft[p].inputs
    OBVIOUS
  <2>2. PICK m : m = [draft[p].binding EXCEPT !.reasons = b.reasons, !.external = b.external]
    OBVIOUS
  <2>3. bpc[p] = "PACK"
    BY <1>4 DEF BuildPack, BuilderReads
  <2>4. /\ draft[p].binding \in Bindings /\ draft[p].inputs \in Reasons
        /\ draft[p].registry \in Registries
    BY <1>a, <2>3 DEF DraftOK
  <2>5. b \in Bindings
    BY <2>1, <2>4 DEF Reasons
  <2>6. m = [disabled |-> draft[p].binding.disabled, reasons |-> b.reasons,
             external |-> b.external]
    <3>1. draft[p].binding = [disabled |-> draft[p].binding.disabled,
                              reasons |-> draft[p].binding.reasons,
                              external |-> draft[p].binding.external]
      BY <2>4, LockAssumption
    <3> QED
      BY <2>2, <3>1
  <2>7. PICK l : l = LockOf(m, draft[p].registry, pack)
    OBVIOUS
  <2>8. l \in GoodLocks
    BY <1>c, <2>4, <2>5, <2>6, <2>7, BuiltIsGood
  <2>9. PICK d : d = [draft[p] EXCEPT !.pack = pack, !.lock = l]
    OBVIOUS
  <2>10. d \in Drafts /\ d.lock \in GoodLocks /\ "TRUNCATE" \in BuildSteps
    BY <1>c, <2>8, <2>9 DEF Drafts, BuildSteps
  <2>11. BuilderReads(p, "PACK", "TRUNCATE", d)
    BY <1>4, <2>1, <2>2, <2>7, <2>9 DEF BuildPack
  <2> QED
    BY <1>b, <1>c, <2>10, <2>11 DEF BuilderReads, lockFiles
<1>5. CASE BuildTruncate(p)
  <2>1. bpc[p] = "TRUNCATE" /\ draft' = draft /\ draft = [draft EXCEPT ![p] = draft[p]]
    BY <1>5, <1>a DEF BuildTruncate
  <2>2. draft[p].lock \in GoodLocks /\ "WRITE" \in BuildSteps
    BY <1>a, <2>1 DEF DraftOK, BuildSteps
  <2> QED
    BY <1>5, <1>b, <1>c, <2>1, <2>2 DEF BuildTruncate
<1>6. CASE BuildWrite(p)
  <2>1. bpc[p] = "WRITE" /\ "IDLE" \in BuildSteps
    BY <1>6 DEF BuildWrite, BuildSteps
  <2>2. draft[p].lock \in GoodLocks
    BY <1>a, <2>1 DEF DraftOK
  <2> QED
    BY <1>6, <1>b, <2>1, <2>2, NothingReadYet DEF BuildWrite
<1>7. CASE BuildDies(p)
  <2>1. "IDLE" \in BuildSteps
    BY DEF BuildSteps
  <2> QED
    BY <1>7, <1>b, <1>c, <2>1, NothingReadYet DEF BuildDies, lockFiles
<1> QED
  BY <1>1, <1>2, <1>3, <1>4, <1>5, <1>6, <1>7 DEF BuildStep

LEMMA FilesDrift ==
  ASSUME FilesInv, Drift
  PROVE  FilesInv'
<1>1. UNCHANGED <<lockFile, draft, bpc>>
  BY DEF Drift, builds
<1>2. /\ binding' \in Bindings /\ registry' \in Registries /\ pack' \in Packs
      /\ pin' \in Locks /\ integration' \in Integrations
  BY DEF Drift, FilesInv, FileShapes
<1>3. FileShapes'
  BY <1>1, <1>2 DEF FilesInv, FileShapes
<1>4. \A p \in Builders : DraftOK(p)'
  BY <1>1 DEF FilesInv, DraftOK
<1> QED
  BY <1>3, <1>4 DEF FilesInv

\* The operation and its workers only read the files.
LEMMA FilesStay ==
  ASSUME FilesInv, UNCHANGED <<lockFiles, builds>>
  PROVE  FilesInv'
BY DEF FilesInv, FileShapes, DraftOK, lockFiles, builds

(***************************************************************************)
(* The account of the leases.                                              *)
(***************************************************************************)
LEMMA LeaseMoves ==
  ASSUME pc \in [Threads -> LockSteps], NEW t \in Threads, NEW s \in LockSteps,
         pc' = [pc EXCEPT ![t] = s]
  PROVE  /\ Cardinality(Leased) \in Nat
         /\ Cardinality(Leased') =
              CASE pc[t] \in UnderLease /\ s \notin UnderLease -> Cardinality(Leased) - 1
                [] pc[t] \notin UnderLease /\ s \in UnderLease -> Cardinality(Leased) + 1
                [] OTHER -> Cardinality(Leased)
<1>1. IsFiniteSet(Threads)
  BY LockAssumption, FS_Union, FS_Singleton DEF Threads
<1>2. IsFiniteSet(Leased)
  BY <1>1, FS_Subset DEF Leased
<1>3. Cardinality(Leased) \in Nat
  BY <1>2, FS_CardinalityType
<1>4. CASE pc[t] \in UnderLease /\ s \notin UnderLease
  <2>1. Leased' = Leased \ {t} /\ t \in Leased
    BY <1>4 DEF Leased
  <2> QED
    BY <1>2, <1>3, <1>4, <2>1, FS_RemoveElement
<1>5. CASE pc[t] \notin UnderLease /\ s \in UnderLease
  <2>1. Leased' = Leased \cup {t} /\ t \notin Leased
    BY <1>5 DEF Leased
  <2> QED
    BY <1>2, <1>3, <1>5, <2>1, FS_AddElement
<1>6. CASE (pc[t] \in UnderLease) <=> (s \in UnderLease)
  <2>1. Leased' = Leased
    BY <1>6 DEF Leased
  <2> QED
    BY <1>3, <1>6, <2>1
<1> QED
  BY <1>4, <1>5, <1>6

(***************************************************************************)
(* A step of a thread: where it is, what it has read, what it returned.    *)
(***************************************************************************)
Moves(t, s, r, x) ==
  /\ s \in LockSteps /\ r \in LockReads /\ x \in LockContexts \cup {Nothing}
  /\ pc' = [pc EXCEPT ![t] = s]
  /\ read' = [read EXCEPT ![t] = r]
  /\ returned' = [returned EXCEPT ![t] = x]
  /\ UNCHANGED <<allowed, boot, boots, yielded>>

LEMMA MovesShape ==
  ASSUME SessionShapes, NEW t \in Threads, NEW s, NEW r, NEW x, Moves(t, s, r, x)
  PROVE  /\ pc' \in [Threads -> LockSteps] /\ read' \in [Threads -> LockReads]
         /\ returned' \in [Threads -> LockContexts \cup {Nothing}]
         /\ pc'[t] = s /\ read'[t] = r /\ returned'[t] = x
         /\ \A u \in Threads \ {t} :
              pc'[u] = pc[u] /\ read'[u] = read[u] /\ returned'[u] = returned[u]
BY DEF SessionShapes, Moves

\* A verification of another thread is not disturbed by the first publication.
LEMMA VerifyOfOthers ==
  ASSUME NEW u \in Threads, VerifyOK(u), pc'[u] = pc[u], read'[u] = read[u],
         returned'[u] = returned[u], lockIdentity' = lockIdentity \/ lockIdentity = Nothing
  PROVE  VerifyOK(u)'
<1>1. CASE lockIdentity' = lockIdentity
  BY <1>1 DEF VerifyOK, Agrees
<1>2. CASE lockIdentity = Nothing
  <2>1. pc[u] # "RETURN"
    BY <1>2, LockConstants DEF VerifyOK
  <2>2. returned[u] = Nothing
    BY <1>2 DEF VerifyOK
  <2> QED
    BY <2>1, <2>2 DEF VerifyOK, Agrees
<1> QED
  BY <1>1, <1>2

LEMMA SessionMoves ==
  ASSUME VerificationInv, NEW t \in Threads, NEW s, NEW r, NEW x, Moves(t, s, r, x), VerifyOK(t)',
         session' \in {"NONE", "OPEN", "FAILED", "CLOSING", "CLOSED"},
         packIdentity' \in Packs \cup {Nothing}, packIdentity' # Nothing => allowed,
         \A c \in contexts' : Agrees(c),
         lockIdentity' = lockIdentity \/ lockIdentity = Nothing,
         leases' = CASE pc[t] \in UnderLease /\ s \notin UnderLease -> leases - 1
                     [] pc[t] \notin UnderLease /\ s \in UnderLease -> leases + 1
                     [] OTHER -> leases
  PROVE  VerificationInv'
<1>1. SessionShapes /\ \A u \in Threads : VerifyOK(u)
  BY DEF VerificationInv
<1>2. /\ pc' \in [Threads -> LockSteps] /\ read' \in [Threads -> LockReads]
      /\ returned' \in [Threads -> LockContexts \cup {Nothing}]
      /\ \A u \in Threads \ {t} :
           pc'[u] = pc[u] /\ read'[u] = read[u] /\ returned'[u] = returned[u]
  BY <1>1, MovesShape
<1>3. SessionShapes'
  BY <1>1, <1>2 DEF SessionShapes, Moves
<1>4. \A u \in Threads : VerifyOK(u)'
  BY <1>1, <1>2, VerifyOfOthers
<1>5. leases' = Cardinality(Leased')
  <2>1. leases = Cardinality(Leased) /\ pc \in [Threads -> LockSteps]
    BY <1>1 DEF VerificationInv, SessionShapes
  <2> QED
    BY <2>1, LeaseMoves DEF Moves
<1>6. \A c \in contexts' : Agrees(c)'
  BY DEF Agrees
<1>7. allowed' = allowed
  BY DEF Moves
<1> QED
  BY <1>3, <1>4, <1>5, <1>6, <1>7 DEF VerificationInv

LEMMA BootMoves ==
  ASSUME SessionShapes, BootInv, NEW t \in Threads, NEW s, NEW r, NEW x, Moves(t, s, r, x),
         session' \in {session, Poisoned}, packIdentity' = packIdentity \/ session = "OPEN",
         t = Main => pc[t] \in VerifySteps /\ s \in VerifySteps \cup {"CLOSE", "LOADED"}
  PROVE  BootInv'
<1>1. /\ pc'[t] = s
      /\ \A u \in Threads \ {t} : pc'[u] = pc[u] /\ returned'[u] = returned[u]
      /\ UNCHANGED <<boots, allowed, yielded>>
  BY MovesShape DEF Moves
<1>2. Len(boots) = 0 => session' = "NONE" /\ packIdentity' = Nothing
  BY DEF BootInv, Poisoned
<1>3. CASE t # Main
  <2>1. pc'[Main] = pc[Main] /\ returned'[Main] = returned[Main]
    BY <1>1, <1>3, LockConstants
  <2> QED
    BY <1>1, <1>2, <2>1 DEF BootInv, YieldedIsPinned, External
<1>4. CASE t = Main
  <2>1. Len(boots) = 2 /\ yielded = Nothing
    BY <1>4 DEF BootInv, VerifySteps, Ending
  <2>2. pc'[Main] \in VerifySteps \cup {"CLOSE", "LOADED"}
    BY <1>1, <1>4
  <2> QED
    BY <1>1, <2>1, <2>2 DEF BootInv, VerifySteps, Booting, External
<1> QED
  BY <1>3, <1>4

\* The steps of a verification that read a file, and leave the session alone.
LEMMA ReadingStep ==
  ASSUME VerificationInv, BootInv, NEW t \in Threads, NEW from, NEW to, NEW r \in LockReads,
         Reads(t, from, to, r), from \in VerifySteps, to \in VerifySteps,
         from \in UnderLease <=> to \in UnderLease, to # "RETURN",
         to \in Locked => r.lock \in GoodLocks,
         to \in Locked \ {"COMPARE"} => r.pack = Nothing,
         to \in Bound => /\ r.binding \in Bindings /\ r.lock.disabled = r.binding.disabled
                        /\ r.lock.reasons = r.binding.reasons,
         to \in Bound \ {"INPUTS"} => r.inputs \in Registries,
         to \in Bound \ {"INPUTS", "REGISTRY"} => r.registry \in Registries,
         to = "COMPARE" /\ External(r.lock) => ~r.registry.shadows,
         to = "PUBLISH" => r \in LockContexts /\ Agrees(r)
  PROVE  VerificationInv' /\ BootInv'
<1>1. SessionShapes /\ VerifyOK(t)
  BY DEF VerificationInv
<1>2. PICK x \in LockContexts \cup {Nothing} : x = returned[t]
  BY <1>1 DEF SessionShapes
<1>3. Moves(t, to, r, x)
  <2>1. returned' = [returned EXCEPT ![t] = x]
    BY <1>1, <1>2 DEF Reads, SessionShapes
  <2>2. to \in LockSteps
    BY DEF LockSteps
  <2> QED
    BY <1>2, <2>1, <2>2 DEF Moves, Reads, Go, sessionVars, operation
<1>4. /\ UNCHANGED <<session, leases, packIdentity, lockIdentity, contexts>>
      /\ pc[t] = from
  BY DEF Reads, sessionVars
<1>5. pc'[t] = to /\ read'[t] = r /\ returned'[t] = x
  BY <1>1, <1>3, MovesShape
<1>6. x \in {Nothing, lockIdentity}
  BY <1>1, <1>2 DEF VerifyOK
<1>7. VerifyOK(t)'
  BY <1>4, <1>5, <1>6 DEF VerifyOK, Agrees, External
<1>8. VerificationInv'
  <2>1. /\ session' \in {"NONE", "OPEN", "FAILED", "CLOSING", "CLOSED"}
        /\ packIdentity' \in Packs \cup {Nothing} /\ (packIdentity' # Nothing => allowed)
        /\ \A c \in contexts' : Agrees(c)
    BY <1>4 DEF VerificationInv, SessionShapes
  <2> QED
    BY <1>3, <1>4, <1>7, <2>1, SessionMoves
<1>9. BootInv'
  BY <1>1, <1>3, <1>4, BootMoves
<1> QED
  BY <1>8, <1>9

LEMMA ReadingSteps ==
  ASSUME FilesInv, VerificationInv, BootInv, NEW t \in Threads,
         Declare(t) \/ ReadLock(t) \/ ReadBinding(t) \/ ReadInputs(t) \/ ReadRegistry(t)
         \/ ReadInputsAgain(t) \/ Compare(t)
  PROVE  VerificationInv' /\ BootInv'
<1>a. /\ lockFile \in GoodLocks \cup {TornLock} /\ binding \in Bindings /\ registry \in Registries
      /\ read[t] \in LockReads /\ VerifyOK(t) /\ TornLock \notin Locks
  BY LockConstants DEF FilesInv, FileShapes, VerificationInv, SessionShapes
<1> USE DEF VerifySteps, UnderLease, Locked, Bound
<1>1. ASSUME NEW from \in {"DECLARE", "LOCK"}, NEW to \in {"LEASE", "BINDING"},
             from = "DECLARE" <=> to = "LEASE", IsWhole(lockFile),
             Reads(t, from, to, [NotRead EXCEPT !.lock = lockFile])
      PROVE  VerificationInv' /\ BootInv'
  <2>1. PICK r : r = [NotRead EXCEPT !.lock = lockFile]
    OBVIOUS
  <2>2. r \in LockReads /\ r.lock \in GoodLocks /\ r.pack = Nothing
    BY <1>a, <1>1, <2>1 DEF NotRead, LockReads, IsWhole
  <2> QED
    BY <1>1, <2>1, <2>2, ReadingStep
<1>2. CASE Declare(t) \/ ReadLock(t)
  BY <1>1, <1>2 DEF Declare, ReadLock
<1>3. CASE ReadBinding(t)
  <2>1. PICK r : r = [read[t] EXCEPT !.binding = binding]
    OBVIOUS
  <2>2. Reads(t, "BINDING", "INPUTS", r) /\ pc[t] = "BINDING"
    BY <1>3, <2>1 DEF ReadBinding, Reads
  <2>3. read[t].lock \in GoodLocks /\ read[t].pack = Nothing
    BY <1>a, <2>2 DEF VerifyOK
  <2>4. /\ r \in LockReads /\ r.lock = read[t].lock /\ r.pack = read[t].pack
        /\ r.binding = binding
    BY <1>a, <2>1 DEF LockReads
  <2> QED
    BY <1>3, <1>a, <2>2, <2>3, <2>4, ReadingStep DEF ReadBinding
<1>4. CASE ReadInputs(t)
  <2>1. PICK r : r = [read[t] EXCEPT !.inputs = registry]
    OBVIOUS
  <2>2. Reads(t, "INPUTS", "REGISTRY", r) /\ pc[t] = "INPUTS"
    BY <1>4, <2>1 DEF ReadInputs, Reads
  <2>3. /\ r \in LockReads /\ r.lock = read[t].lock /\ r.pack = read[t].pack
        /\ r.binding = read[t].binding /\ r.inputs = registry
    BY <1>a, <2>1 DEF LockReads
  <2> QED
    BY <1>a, <2>2, <2>3, ReadingStep DEF VerifyOK
<1>5. CASE ReadRegistry(t)
  <2>1. PICK r : r = [read[t] EXCEPT !.registry = registry]
    OBVIOUS
  <2>2. Reads(t, "REGISTRY", "INPUTS_AGAIN", r) /\ pc[t] = "REGISTRY"
    BY <1>5, <2>1 DEF ReadRegistry, Reads
  <2>3. /\ r \in LockReads /\ r.lock = read[t].lock /\ r.pack = read[t].pack
        /\ r.binding = read[t].binding /\ r.inputs = read[t].inputs /\ r.registry = registry
    BY <1>a, <2>1 DEF LockReads
  <2> QED
    BY <1>a, <2>2, <2>3, ReadingStep DEF VerifyOK
<1>6. CASE ReadInputsAgain(t)
  <2>1. Reads(t, "INPUTS_AGAIN", "PACKS", read[t]) /\ pc[t] = "INPUTS_AGAIN"
    BY <1>6 DEF ReadInputsAgain, Reads
  <2>2. PICK r \in LockReads : r = read[t]
    BY <1>a
  <2> QED
    BY <1>a, <2>1, <2>2, ReadingStep DEF VerifyOK
<1>7. CASE Compare(t)
  <2>1. /\ Reads(t, "COMPARE", "PUBLISH", read[t]) /\ pc[t] = "COMPARE"
        /\ read[t].lock.pack = read[t].pack /\ read[t].lock.version \in read[t].registry.usable
    BY <1>7 DEF Compare, Reads
  <2>2. PICK r \in LockReads : r = read[t]
    BY <1>a
  <2>3. Agrees(r)
    BY <1>a, <2>1, <2>2 DEF VerifyOK, Agrees
  <2>4. r \in LockContexts
    BY <1>a, <2>1, <2>2, LockConstants DEF VerifyOK, LockReads, LockContexts
  <2> QED
    BY <2>1, <2>2, <2>3, <2>4, ReadingStep
<1> QED
  BY <1>2, <1>3, <1>4, <1>5, <1>6, <1>7

\* The steps that take part in the session.
LEMMA SessionSteps ==
  ASSUME FilesInv, VerificationInv, BootInv, NEW t \in Threads,
         CallVerify(t) \/ AcquireLease(t) \/ GetPacks(t) \/ Publish(t) \/ ReturnContext(t) \/ Fail(t)
  PROVE  VerificationInv' /\ BootInv'
<1>a. /\ pack \in Packs /\ SessionShapes /\ VerifyOK(t) /\ BootInv
      /\ pc \in [Threads -> LockSteps] /\ read \in [Threads -> LockReads]
      /\ returned \in [Threads -> LockContexts \cup {Nothing}]
      /\ session \in {"NONE", "OPEN", "FAILED", "CLOSING", "CLOSED"}
      /\ packIdentity \in Packs \cup {Nothing} /\ (packIdentity # Nothing => allowed)
      /\ \A c \in contexts : Agrees(c)
  BY DEF FilesInv, FileShapes, VerificationInv, SessionShapes
<1>b. PICK r \in LockReads, x \in LockContexts \cup {Nothing} : r = read[t] /\ x = returned[t]
  BY <1>a
<1>c. /\ read = [read EXCEPT ![t] = r] /\ returned = [returned EXCEPT ![t] = x]
      /\ x \in {Nothing, lockIdentity}
  BY <1>a, <1>b DEF VerifyOK
<1> USE DEF VerifySteps, UnderLease
<1>1. CASE CallVerify(t)
  <2>1. Moves(t, "DECLARE", r, x)
    BY <1>1, <1>b, <1>c DEF CallVerify, Go, Moves, operation, sessionVars, LockSteps
  <2>2. UNCHANGED <<session, leases, packIdentity, lockIdentity, contexts>>
    BY <1>1 DEF CallVerify, sessionVars
  <2>3. pc'[t] = "DECLARE" /\ returned'[t] = x
    BY <1>a, <2>1, MovesShape
  <2>4. VerifyOK(t)'
    BY <1>c, <2>2, <2>3 DEF VerifyOK, Locked, Bound
  <2>5. VerificationInv'
    BY <1>1, <1>a, <2>1, <2>2, <2>4, SessionMoves DEF CallVerify
  <2>6. BootInv'
    BY <1>1, <1>a, <2>1, <2>2, LockConstants, BootMoves DEF CallVerify
  <2> QED
    BY <2>5, <2>6
<1>2. CASE AcquireLease(t)
  <2>1. Moves(t, "LOCK", r, x)
    BY <1>2, <1>b, <1>c DEF AcquireLease, Go, Moves, operation, LockSteps
  <2>2. /\ UNCHANGED <<session, packIdentity, lockIdentity, contexts>>
        /\ pc[t] = "LEASE" /\ leases' = leases + 1
    BY <1>2 DEF AcquireLease
  <2>3. pc'[t] = "LOCK" /\ returned'[t] = x
    BY <1>a, <2>1, MovesShape
  <2>4. VerifyOK(t)'
    BY <1>c, <2>2, <2>3 DEF VerifyOK, Locked, Bound
  <2>5. VerificationInv'
    BY <1>a, <2>1, <2>2, <2>4, SessionMoves
  <2>6. BootInv'
    BY <1>a, <2>1, <2>2, BootMoves
  <2> QED
    BY <2>5, <2>6
<1>3. CASE GetPacks(t)
  <2>1. /\ UNCHANGED <<session, leases, lockIdentity, contexts>> /\ session = "OPEN"
        /\ pc[t] = "PACKS"
    BY <1>3 DEF GetPacks
  <2>2. PICK n : n = IF External(r.lock) THEN [r EXCEPT !.pack = pack] ELSE r
    OBVIOUS
  <2>3. /\ n \in LockReads /\ n.lock = r.lock /\ n.binding = r.binding /\ n.inputs = r.inputs
        /\ n.registry = r.registry
    BY <1>a, <1>b, <2>2 DEF LockReads
  <2>4. read' = [read EXCEPT ![t] = n]
    BY <1>3, <1>a, <1>b, <1>c, <2>2 DEF GetPacks
  <2>5. Moves(t, "COMPARE", n, x)
    BY <1>3, <1>b, <1>c, <2>3, <2>4 DEF GetPacks, Go, Moves, operation, LockSteps
  <2>6. pc'[t] = "COMPARE" /\ returned'[t] = x /\ read'[t] = n
    BY <1>a, <2>5, MovesShape
  <2>7. /\ r.lock \in GoodLocks /\ r.binding \in Bindings
        /\ r.lock.disabled = r.binding.disabled /\ r.lock.reasons = r.binding.reasons
        /\ r.inputs \in Registries /\ r.registry \in Registries
    BY <1>a, <1>b, <2>1 DEF VerifyOK, Locked, Bound
  <2>8. External(n.lock) => ~n.registry.shadows
    BY <1>3, <1>b, <2>3 DEF GetPacks
  <2>9. VerifyOK(t)'
    BY <1>c, <2>1, <2>3, <2>6, <2>7, <2>8 DEF VerifyOK, Locked, Bound, External
  <2>10. packIdentity' \in Packs \cup {Nothing} /\ (packIdentity' # Nothing => allowed)
    BY <1>3, <1>a DEF GetPacks
  <2>11. VerificationInv'
    BY <1>a, <2>1, <2>5, <2>9, <2>10, SessionMoves
  <2>12. BootInv'
    BY <1>a, <2>1, <2>5, BootMoves
  <2> QED
    BY <2>11, <2>12
<1>4. CASE Publish(t)
  <2>1. Moves(t, "RETURN", r, x)
    BY <1>4, <1>b, <1>c DEF Publish, Go, Moves, operation, LockSteps
  <2>2. /\ UNCHANGED <<session, packIdentity, leases>> /\ pc[t] = "PUBLISH"
        /\ lockIdentity \in {Nothing, r} /\ lockIdentity' = r /\ contexts' = contexts \cup {r}
    BY <1>4, <1>b DEF Publish
  <2>3. pc'[t] = "RETURN" /\ returned'[t] = x /\ read'[t] = r
    BY <1>a, <2>1, MovesShape
  <2>4. r \in LockContexts /\ Agrees(r)
    BY <1>a, <1>b, <2>2 DEF VerifyOK
  <2>5. VerifyOK(t)'
    BY <1>c, <2>2, <2>3, <2>4 DEF VerifyOK, Locked, Bound, Agrees
  <2>6. \A c \in contexts' : Agrees(c)
    BY <1>a, <2>2, <2>4
  <2>7. VerificationInv'
    BY <1>a, <2>1, <2>2, <2>5, <2>6, SessionMoves
  <2>8. BootInv'
    BY <1>a, <2>1, <2>2, BootMoves
  <2> QED
    BY <2>7, <2>8
<1>5. CASE ReturnContext(t)
  <2>1. PICK s : s = IF t = Main THEN "LOADED" ELSE "IDLE"
    OBVIOUS
  <2>2. /\ UNCHANGED <<session, packIdentity, lockIdentity, contexts>> /\ pc[t] = "RETURN"
        /\ leases' = leases - 1
    BY <1>5 DEF ReturnContext
  <2>3. r \in LockContexts /\ r = lockIdentity
    BY <1>a, <1>b, <2>2 DEF VerifyOK
  <2>4. Moves(t, s, NotRead, r)
    BY <1>5, <1>b, <2>1, <2>3, NothingReadYet DEF ReturnContext, Go, Moves, operation, LockSteps, Ending
  <2>5. pc'[t] = s /\ returned'[t] = r
    BY <1>a, <2>4, MovesShape
  <2>6. VerifyOK(t)'
    BY <2>1, <2>2, <2>3, <2>5 DEF VerifyOK, Locked, Bound
  <2>7. VerificationInv'
    BY <1>a, <2>1, <2>2, <2>4, <2>6, SessionMoves
  <2>8. BootInv'
    BY <1>a, <2>1, <2>2, <2>4, BootMoves
  <2> QED
    BY <2>7, <2>8
<1>6. CASE Fail(t)
  <2>1. PICK s : s = IF t = Main THEN "CLOSE" ELSE "IDLE"
    OBVIOUS
  <2>2. /\ UNCHANGED <<packIdentity, lockIdentity, contexts>> /\ pc[t] \in VerifySteps
        /\ leases' = IF pc[t] \in UnderLease THEN leases - 1 ELSE leases
        /\ session' = Poisoned
    BY <1>6 DEF Fail
  <2>3. Moves(t, s, NotRead, Nothing)
    BY <1>6, <2>1, NothingReadYet DEF Fail, Go, Moves, operation, LockSteps, Ending
  <2>4. pc'[t] = s /\ returned'[t] = Nothing
    BY <1>a, <2>3, MovesShape
  <2>5. VerifyOK(t)'
    BY <2>1, <2>2, <2>4 DEF VerifyOK, Locked, Bound
  <2>6. session' \in {"NONE", "OPEN", "FAILED", "CLOSING", "CLOSED"}
    BY <1>a, <2>2 DEF Poisoned
  <2>7. VerificationInv'
    BY <1>a, <2>1, <2>2, <2>3, <2>5, <2>6, SessionMoves
  <2>8. BootInv'
    BY <1>a, <2>1, <2>2, <2>3, BootMoves
  <2> QED
    BY <2>7, <2>8
<1> QED
  BY <1>1, <1>2, <1>3, <1>4, <1>5, <1>6

(***************************************************************************)
(* The steps of the operation around the verification.                     *)
(***************************************************************************)
LEMMA MainMoves ==
  ASSUME VerificationInv, NEW s \in LockSteps, s \notin VerifySteps \/ s = "DECLARE",
         pc[Main] \notin VerifySteps, pc' = [pc EXCEPT ![Main] = s],
         UNCHANGED <<read, returned, lockIdentity, contexts, leases>>,
         boot' \in Bootstraps, boots' \in Seq(Bootstraps),
         session' \in {"NONE", "OPEN", "FAILED", "CLOSING", "CLOSED"},
         packIdentity' \in Packs \cup {Nothing}, packIdentity' # Nothing => allowed'
  PROVE  /\ VerificationInv'
         /\ pc'[Main] = s /\ returned'[Main] = returned[Main]
<1>a. Main \in Threads /\ SessionShapes /\ pc \in [Threads -> LockSteps]
  BY LockConstants DEF VerificationInv, SessionShapes
<1>b. pc'[Main] = s /\ \A u \in Threads \ {Main} : pc'[u] = pc[u]
  BY <1>a
<1>1. SessionShapes'
  BY <1>a DEF SessionShapes
<1>2. \A u \in Threads \ {Main} : VerifyOK(u)'
  BY <1>b, VerifyOfOthers DEF VerificationInv
<1>3. VerifyOK(Main)'
  <2>1. VerifyOK(Main)
    BY <1>a DEF VerificationInv
  <2> QED
    BY <1>b, <2>1 DEF VerifyOK, VerifySteps, Locked, Bound
<1>4. leases' = Cardinality(Leased')
  BY <1>a, LeaseMoves DEF VerificationInv, UnderLease
<1>5. \A c \in contexts' : Agrees(c)'
  BY DEF VerificationInv, Agrees
<1> QED
  BY <1>a, <1>b, <1>1, <1>2, <1>3, <1>4, <1>5 DEF VerificationInv

LEMMA AtMostTwo == \A n \in Nat : n < 3 => n \in 0 .. 2
OBVIOUS

LEMMA MainSteps ==
  ASSUME FilesInv, VerificationInv, BootInv, MainStep
  PROVE  VerificationInv' /\ BootInv'
<1>a. /\ Main \in Threads /\ SessionShapes /\ pc \in [Threads -> LockSteps]
      /\ boot \in Bootstraps /\ boots \in Seq(Bootstraps) /\ Len(boots) \in Nat
      /\ session \in {"NONE", "OPEN", "FAILED", "CLOSING", "CLOSED"}
      /\ packIdentity \in Packs \cup {Nothing} /\ (packIdentity # Nothing => allowed)
      /\ pin \in Locks /\ integration \in Integrations
  BY LockConstants DEF VerificationInv, SessionShapes, FilesInv, FileShapes
<1>b. Poisoned \in {"NONE", "OPEN", "FAILED", "CLOSING", "CLOSED"}
  BY <1>a DEF Poisoned
<1> USE <1>a DEF VerifySteps, Booting, Ending, LockSteps
<1>1. ASSUME NEW from \in {"BOOT", "BOOT_INTEGRATION"}, NEW to \in {"BOOT_INTEGRATION", "BOOT_LOCK"},
             NEW b \in Bootstraps, BootStep(from, to, b)
      PROVE  VerificationInv' /\ BootInv'
  <2>1. /\ pc' = [pc EXCEPT ![Main] = to] /\ boot' = b /\ pc[Main] = from
        /\ UNCHANGED <<boots, yielded, session, allowed, leases, packIdentity, lockIdentity, contexts,
                       read, returned>>
    BY <1>1 DEF BootStep, Go, sessionVars
  <2>2. VerificationInv' /\ pc'[Main] = to /\ returned'[Main] = returned[Main]
    BY <2>1, MainMoves
  <2>3. BootInv'
    BY <2>1, <2>2 DEF BootInv, External
  <2> QED
    BY <2>2, <2>3
<1>2. CASE BootRegistration
  <2>1. [boot EXCEPT !.pin = pin] \in Bootstraps
    BY DEF Bootstraps
  <2> QED
    BY <1>1, <1>2, <2>1 DEF BootRegistration
<1>3. CASE BootIntegration
  <2>1. [boot EXCEPT !.integration = integration] \in Bootstraps
    BY DEF Bootstraps
  <2> QED
    BY <1>1, <1>3, <2>1 DEF BootIntegration
<1>4. CASE BootLock
  <2>1. /\ pc[Main] = "BOOT_LOCK" /\ lockFile = boot.pin /\ boots' = Append(boots, boot)
        /\ boot' = NoBoot
        /\ UNCHANGED <<yielded, leases, packIdentity, lockIdentity, contexts, read, returned>>
    BY <1>4 DEF BootLock
  <2>2. Len(boots) \in 0 .. 2 /\ yielded = Nothing
    <3>1. Len(boots) < 3
      BY <2>1 DEF BootInv
    <3>2. yielded = Nothing
      BY <2>1 DEF BootInv
    <3> QED
      BY <3>1, <3>2, AtMostTwo
  <2>3. /\ Len(boots') = Len(boots) + 1 /\ boots' \in Seq(Bootstraps)
        /\ boots'[Len(boots) + 1] = boot
        /\ \A i \in 1 .. Len(boots) : boots'[i] = boots[i]
    BY <2>1
  <2>4. PICK s : s = <<"BOOT", "DECLARE", "YIELD">>[Len(boots) + 1]
    OBVIOUS
  <2>5. /\ Len(boots) = 0 => s = "BOOT"
        /\ Len(boots) = 1 => s = "DECLARE"
        /\ Len(boots) = 2 => s = "YIELD"
    <3>1. PICK n : n = Len(boots) /\ s = <<"BOOT", "DECLARE", "YIELD">>[n + 1]
      BY <2>4
    <3>2. CASE n = 0
      BY <3>1, <3>2
    <3>3. CASE n = 1
      BY <3>1, <3>3
    <3>4. CASE n = 2
      BY <3>1, <3>4
    <3> QED
      BY <3>1, <3>2, <3>3, <3>4
  <2>6. pc' = [pc EXCEPT ![Main] = s] /\ s \in LockSteps /\ (s \notin VerifySteps \/ s = "DECLARE")
    BY <1>4, <2>2, <2>4, <2>5 DEF BootLock, Go
  <2>7. boots = <<>> <=> Len(boots) = 0
    OBVIOUS
  <2>8. /\ Len(boots) = 0 => session' = "OPEN" /\ allowed' = External(boot.pin)
        /\ Len(boots) # 0 => UNCHANGED <<session, allowed>>
    BY <1>4, <2>1, <2>7 DEF BootLock
  <2>9. packIdentity' # Nothing => allowed'
    <3>1. packIdentity' = packIdentity
      BY <2>1
    <3>2. CASE Len(boots) = 0
      BY <3>1, <3>2 DEF BootInv
    <3>3. CASE Len(boots) # 0
      <4>1. allowed' = allowed
        BY <2>8, <3>3
      <4> QED
        BY <3>1, <4>1, Zenon
    <3> QED
      BY <3>2, <3>3
  <2>10. VerificationInv' /\ pc'[Main] = s /\ returned'[Main] = returned[Main]
    BY <2>1, <2>3, <2>6, <2>8, <2>9, MainMoves, NothingReadYet
  <2>11. allowed' = External(boots'[1].pin)
    BY <2>2, <2>3, <2>8 DEF BootInv
  <2>12. BootInv'
    <3>1. CASE Len(boots) = 0
      BY <2>1, <2>2, <2>3, <2>5, <2>10, <2>11, <3>1 DEF BootInv, External
    <3>2. CASE Len(boots) = 1
      BY <2>1, <2>2, <2>3, <2>5, <2>10, <2>11, <3>2 DEF BootInv, External
    <3>3. CASE Len(boots) = 2
      <4>1. returned[Main].lock = boots[2].pin
        BY <2>1, <3>3 DEF BootInv
      <4> QED
        BY <2>1, <2>2, <2>3, <2>5, <2>10, <2>11, <3>3, <4>1 DEF BootInv, External
    <3> QED
      BY <2>2, <3>1, <3>2, <3>3
  <2> QED
    BY <2>10, <2>12
<1>5. CASE BootFails
  <2>1. PICK s : s = IF session = "NONE" THEN "ENDED" ELSE "CLOSE"
    OBVIOUS
  <2>2. /\ pc' = [pc EXCEPT ![Main] = s] /\ pc[Main] \in Booting
        /\ session' = (IF Len(boots) = 1 THEN Poisoned ELSE session)
        /\ UNCHANGED <<boot, boots, yielded, allowed, leases, packIdentity, lockIdentity, contexts,
                       read, returned>>
    BY <1>5, <2>1 DEF BootFails, Go, operation
  <2>3. VerificationInv' /\ pc'[Main] = s /\ returned'[Main] = returned[Main]
    <3>1. s \in LockSteps /\ s \notin VerifySteps /\ pc[Main] \notin VerifySteps
      BY <2>1, <2>2
    <3>2. session' \in {"NONE", "OPEN", "FAILED", "CLOSING", "CLOSED"}
      <4>1. CASE Len(boots) = 1
        BY <1>b, <2>2, <4>1
      <4>2. CASE Len(boots) # 1
        BY <2>2, <4>2
      <4> QED
        BY <4>1, <4>2
    <3>3. boot' \in Bootstraps /\ boots' \in Seq(Bootstraps) /\ packIdentity' \in Packs \cup {Nothing}
      BY <2>2
    <3>4. packIdentity' # Nothing => allowed'
      BY <2>2, Zenon
    <3> QED
      BY <2>2, <3>1, <3>2, <3>3, <3>4, MainMoves
  <2>4. BootInv'
    <3>1. s \in {"ENDED", "CLOSE"} /\ (session = "NONE" => s = "ENDED") /\ yielded = Nothing
      BY <2>1, <2>2 DEF BootInv
    <3>2. Len(boots) = 0 => session = "NONE" /\ session' = session /\ packIdentity = Nothing
      BY <2>2 DEF BootInv
    <3>3. Len(boots) > 0 => allowed = External(boots[1].pin)
      BY DEF BootInv
    <3> QED
      BY <2>2, <2>3, <3>1, <3>2, <3>3 DEF BootInv, External
  <2> QED
    BY <2>3, <2>4
<1>6. CASE LoadVerified
  <2>1. PICK s : s = IF returned[Main].lock = boots[2].pin THEN "BOOT" ELSE "CLOSE"
    OBVIOUS
  <2>2. /\ pc' = [pc EXCEPT ![Main] = s] /\ pc[Main] = "LOADED"
        /\ session' \in {session, Poisoned}
        /\ UNCHANGED <<boot, boots, yielded, allowed, leases, packIdentity, lockIdentity, contexts,
                       read, returned>>
    BY <1>6, <2>1 DEF LoadVerified, Go, operation
  <2>3. VerificationInv' /\ pc'[Main] = s /\ returned'[Main] = returned[Main]
    BY <1>b, <2>1, <2>2, MainMoves
  <2>4. Len(boots) = 2 /\ yielded = Nothing
    BY <2>2 DEF BootInv
  <2>5. s \in {"BOOT", "CLOSE"} /\ (s = "BOOT" => returned[Main].lock = boots[2].pin)
    BY <2>1
  <2>6. BootInv'
    BY <2>2, <2>3, <2>4, <2>5 DEF BootInv, External
  <2> QED
    BY <2>3, <2>6
<1>7. CASE Yield
  <2>1. PICK s : s = IF boots[1] = boots[2] /\ boots[2] = boots[3] THEN "BODY" ELSE "CLOSE"
    OBVIOUS
  <2>2. /\ pc' = [pc EXCEPT ![Main] = s] /\ pc[Main] = "YIELD"
        /\ session' \in {session, Poisoned}
        /\ s = "BODY" => yielded' = returned[Main]
        /\ s = "CLOSE" => yielded' = yielded
        /\ UNCHANGED <<boot, boots, allowed, leases, packIdentity, lockIdentity, contexts,
                       read, returned>>
    BY <1>7, <2>1 DEF Yield, Go
  <2>3. VerificationInv' /\ pc'[Main] = s /\ returned'[Main] = returned[Main]
    BY <1>b, <2>1, <2>2, MainMoves
  <2>4. /\ Len(boots) = 3 /\ returned[Main].lock = boots[2].pin /\ yielded = Nothing
        /\ allowed = External(boots[1].pin)
    BY <2>2 DEF BootInv
  <2>5. yielded' # Nothing => YieldedIsPinned'
    BY <2>1, <2>2, <2>4 DEF YieldedIsPinned, External
  <2>6. BootInv'
    BY <2>1, <2>2, <2>3, <2>4, <2>5 DEF BootInv, External
  <2> QED
    BY <2>3, <2>6
<1>8. ASSUME NEW from \in {"BODY", "CLOSE", "DRAIN"}, NEW to \in Ending, pc[Main] = from,
             pc' = [pc EXCEPT ![Main] = to],
             session' \in {session, "CLOSING", "CLOSED"}, packIdentity' \in {packIdentity, Nothing},
             UNCHANGED <<boot, boots, yielded, allowed, leases, lockIdentity, contexts, read, returned>>
      PROVE  VerificationInv' /\ BootInv'
  <2>1. VerificationInv' /\ pc'[Main] = to
    BY <1>8, MainMoves
  <2>2. Len(boots) # 0
    BY <1>8 DEF BootInv
  <2>3. yielded' # Nothing => YieldedIsPinned'
    BY <1>8 DEF BootInv, YieldedIsPinned, External
  <2>4. BootInv'
    BY <1>8, <2>1, <2>2, <2>3 DEF BootInv, External
  <2> QED
    BY <2>1, <2>4
<1>9. CASE EndBody
  BY <1>8, <1>9 DEF EndBody, Go, sessionVars, operation
<1>10. CASE BeginClose
  BY <1>8, <1>10 DEF BeginClose, Go, operation
<1>11. CASE EndClose
  BY <1>8, <1>11 DEF EndClose, Go, operation
<1> QED
  BY <1>2, <1>3, <1>4, <1>5, <1>6, <1>7, <1>9, <1>10, <1>11 DEF MainStep

LEMMA OperationStep ==
  ASSUME OperationInv, [LockNext]_lockVars
  PROVE  OperationInv'
<1>a. FilesInv /\ VerificationInv /\ BootInv
  BY DEF OperationInv
<1>b. ASSUME UNCHANGED <<sessionVars, operation, pc, read, returned>>
      PROVE  VerificationInv' /\ BootInv'
  <2>1. VerificationInv'
    BY <1>a, <1>b DEF VerificationInv, SessionShapes, VerifyOK, Agrees, Leased, sessionVars, operation
  <2>2. BootInv'
    BY <1>a, <1>b DEF BootInv, YieldedIsPinned, External, sessionVars, operation
  <2> QED
    BY <2>1, <2>2
<1>1. CASE Drift
  BY <1>1, <1>a, <1>b, FilesDrift DEF OperationInv, Drift
<1>2. ASSUME NEW p \in Builders, BuildStep(p)
      PROVE  OperationInv'
  <2>1. UNCHANGED <<sessionVars, operation, pc, read, returned>>
    BY <1>2 DEF BuildStep, BuildBinding, BuildReasons, BuildCatalog, BuildPack, BuilderReads,
                BuildTruncate, BuildWrite, BuildDies
  <2> QED
    BY <1>2, <1>a, <1>b, <2>1, FilesBuild DEF OperationInv
<1>3. CASE MainStep
  <2>1. UNCHANGED <<lockFiles, builds>>
    BY <1>3 DEF MainStep, BootRegistration, BootIntegration, BootStep, BootLock, BootFails,
                LoadVerified, Yield, EndBody, BeginClose, EndClose
  <2> QED
    BY <1>3, <1>a, <2>1, FilesStay, MainSteps DEF OperationInv
<1>4. ASSUME NEW t \in Threads, CallVerify(t) \/ VerifyStep(t)
      PROVE  OperationInv'
  <2>1. UNCHANGED <<lockFiles, builds>>
    BY <1>4 DEF CallVerify, VerifyStep, Declare, AcquireLease, ReadLock, ReadBinding, ReadInputs,
                ReadRegistry, ReadInputsAgain, GetPacks, Compare, Publish, ReturnContext, Fail, Reads
  <2>2. VerificationInv' /\ BootInv'
    BY <1>4, <1>a, ReadingSteps, SessionSteps DEF VerifyStep
  <2> QED
    BY <1>a, <2>1, <2>2, FilesStay DEF OperationInv
<1>5. CASE UNCHANGED lockVars
  BY <1>5, <1>a, <1>b, FilesStay DEF OperationInv, lockVars
<1> QED
  BY <1>1, <1>2, <1>3, <1>4, <1>5 DEF LockNext, BuildStep

LEMMA OperationInit == LockInit => OperationInv
<1> SUFFICES ASSUME LockInit
             PROVE  OperationInv
  OBVIOUS
<1>1. FilesInv
  <2>1. /\ binding \in Bindings /\ registry \in Registries /\ pack \in Packs
        /\ integration \in Integrations
    BY DEF LockInit
  <2>2. binding = [disabled |-> binding.disabled, reasons |-> binding.reasons,
                   external |-> binding.external]
    BY <2>1, LockAssumption
  <2>3. LockOf(binding, registry, pack) \in GoodLocks
    BY <2>1, <2>2, BuiltIsGood
  <2>4. lockFile \in GoodLocks /\ pin \in Locks
    BY <2>3, LockConstants DEF LockInit
  <2>5. draft \in [Builders -> Drafts] /\ bpc \in [Builders -> BuildSteps]
    BY NothingReadYet DEF LockInit, BuildSteps
  <2>6. \A p \in Builders : DraftOK(p)
    BY DEF LockInit, DraftOK
  <2> QED
    BY <2>1, <2>4, <2>5, <2>6 DEF FilesInv, FileShapes
<1>2. /\ \A t \in Threads : pc[t] = IF t = Main THEN "BOOT" ELSE "IDLE"
      /\ \A t \in Threads : returned[t] = Nothing
      /\ boots = <<>> /\ yielded = Nothing /\ session = "NONE" /\ packIdentity = Nothing
      /\ contexts = {} /\ leases = 0 /\ lockIdentity = Nothing
  BY DEF LockInit
<1>3. VerificationInv
  <2>1. SessionShapes
    BY NothingReadYet DEF LockInit, SessionShapes, LockSteps, Booting
  <2>2. \A t \in Threads : VerifyOK(t)
    BY <1>2 DEF VerifyOK, Locked, Bound
  <2>3. Leased = {}
    BY <1>2 DEF Leased, UnderLease, VerifySteps
  <2> QED
    BY <1>2, <2>1, <2>2, <2>3, FS_EmptySet DEF VerificationInv
<1>4. BootInv
  BY <1>2, LockConstants DEF BootInv, Booting, VerifySteps
<1> QED
  BY <1>1, <1>3, <1>4 DEF OperationInv

LEMMA OperationInvariant == LockSpec => []OperationInv
BY OperationInit, OperationStep, PTL DEF LockSpec

(***************************************************************************)
(* The capability lock: whatever builders wrote from reads of different    *)
(* moments, however often the files change during a verification, and      *)
(* however many threads verify at the same time, a lock that is accepted   *)
(* is one that a single build would have written for the binding, the      *)
(* registry and the pack of its context, one session accepts one lock, it  *)
(* asks for no pack it was not opened for, and every lease is accounted    *)
(* for.                                                                    *)
(***************************************************************************)
THEOREM LockIsSound == LockSpec => []LockInv
<1>1. OperationInv => LockInv
  <2> SUFFICES ASSUME OperationInv
               PROVE  LockInv
    OBVIOUS
  <2>1. LockTypeOK
    BY LockConstants DEF OperationInv, FilesInv, FileShapes, VerificationInv, SessionShapes, LockTypeOK,
                         Leased, Agrees
  <2>2. VerifiedLocksAreBuildable
    <3> SUFFICES ASSUME NEW c \in contexts
                 PROVE  \E version \in c.registry.usable :
                          c.lock = LockOf(c.binding, [c.registry EXCEPT !.active = version], c.pack)
      BY DEF VerifiedLocksAreBuildable
    <3>1. Agrees(c)
      BY DEF OperationInv, VerificationInv
    <3>2. PICK version : version = c.lock.version /\ version \in c.registry.usable
      BY <3>1 DEF Agrees
    <3>3. PICK r : r = [c.registry EXCEPT !.active = version]
      OBVIOUS
    <3>4. r.active = version /\ r.shadows = c.registry.shadows
      <4>1. c.registry = [active |-> c.registry.active, usable |-> c.registry.usable,
                          shadows |-> c.registry.shadows]
        BY <3>1, LockAssumption DEF Agrees
      <4> QED
        BY <3>3, <4>1
    <3>5. External(c.lock) => c.binding.external /\ ~c.registry.shadows
      BY <3>1 DEF Agrees, GoodLocks, External
    <3>6. c.lock = [disabled |-> c.lock.disabled, reasons |-> c.lock.reasons,
                    version |-> c.lock.version, pack |-> c.lock.pack]
      BY <3>1, LockConstants DEF Agrees, Locks
    <3>7. c.lock = LockOf(c.binding, r, c.pack)
      <4>1. CASE External(c.lock)
        BY <3>1, <3>2, <3>4, <3>5, <3>6, <4>1 DEF LockOf, Agrees
      <4>2. CASE ~External(c.lock)
        BY <3>1, <3>2, <3>4, <3>6, <4>2 DEF LockOf, Agrees, External
      <4> QED
        BY <4>1, <4>2
    <3> QED
      BY <3>2, <3>3, <3>7
  <2>3. OneLockPerSession
    BY DEF OperationInv, VerificationInv, VerifyOK, OneLockPerSession
  <2>4. OnlyAllowedPacks
    BY DEF OperationInv, VerificationInv, OnlyAllowedPacks
  <2> QED
    BY <2>1, <2>2, <2>3, <2>4 DEF LockInv
<1> QED
  BY <1>1, OperationInvariant, PTL

(***************************************************************************)
(* The body of a registered operation runs with the lock that its          *)
(* registration pinned before, during and after the verification, under    *)
(* the same integration, and with a session opened for exactly that lock.  *)
(***************************************************************************)
THEOREM BodiesRunPinned == LockSpec => []YieldedIsPinned
<1>1. OperationInv => YieldedIsPinned
  BY DEF OperationInv, BootInv, YieldedIsPinned
<1> QED
  BY <1>1, OperationInvariant, PTL
=============================================================================
