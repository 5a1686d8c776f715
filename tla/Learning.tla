------------------------------- MODULE Learning -------------------------------
(***************************************************************************)
(* The learning loop: learning.py, evals.py, feedback.py and the authority *)
(* check of governance.py.  An Experience is captured and triaged, a       *)
(* Candidate wraps a proposed capability, eval results are recorded for    *)
(* it, a human authorises it, and promotion copies it into the canonical   *)
(* library, appends it to the promotion ledger and marks the Candidate     *)
(* INTEGRATED.                                                             *)
(*                                                                         *)
(* Every file is written in place (write_text): it is truncated by one     *)
(* step and filled by the next, no lock is held anywhere, and a command    *)
(* may be cut short between any two steps: it is killed, or the next file  *)
(* operation raises.  An empty YAML file loads as {}, so a truncated       *)
(* experience, candidate or ledger reads like an absent one and has the    *)
(* same value here; a truncated asset.yaml or eval result makes its        *)
(* readers raise and is Torn.                                              *)
(*                                                                         *)
(* A proposal stands for asset.yaml and content.md of its Candidate, and a *)
(* content hash for the pair of the two files it covers.  A scope is what  *)
(* the resolver looks at: per key a set of values, or Absent.              *)
(*                                                                         *)
(* contentFile of an asset is any nonempty string.  It may name the        *)
(* content file of its own location or of another one (CONTENT), an        *)
(* asset.yaml (ASSET), a file in a directory that is not there (ABSENT) or *)
(* a directory (DIRECTORY).  A contentFile that leads to a file outside    *)
(* the library, the ledger for one, is not modelled, nor is a content that *)
(* is itself a valid asset.yaml.                                           *)
(***************************************************************************)
EXTENDS Naturals, FiniteSets

CONSTANTS
  Processes,      \* harness commands that run at the same time
  Experiences, Candidates, Ids, Evals,
  Results,        \* the results that may be recorded: [eval, id, version, passed]
  Seeds,          \* candidates that stand for the bootstrap library
  Proposals,      \* candidate -> [operation, target, id, version, scope, supersedes,
                  \*               sources, evals, transfer, contentFile, contentOf]
  DirectoryOf,    \* capability id -> kind and name, without the namespace
  EvalTarget,     \* eval definition -> the capability it is for
  Keys, Values,   \* of scopes
  MaxKills, MaxCalls,
  Absent, None, Torn, Empty

Operations == {"CREATE", "UPDATE", "BROADEN_SCOPE", "NARROW_SCOPE", "SUPERSEDE"}
Scopes == [Keys -> {Absent} \cup SUBSET Values]
Versions == {Proposals[c].version : c \in Candidates}
Base == 0
Locations == {DirectoryOf[id] : id \in Ids} \X ({Base} \cup Versions)
ContentFiles == {"CONTENT", "ASSET", "ABSENT", "DIRECTORY"}

Id(c) == Proposals[c].id
Version(c) == Proposals[c].version
Directory(c) == DirectoryOf[Id(c)]
BaseOf(c) == <<Directory(c), Base>>

\* The location that the contentFile of c leads to when c is at l, and whether
\* that is a content file of c's own.
ContentPlace(c, l) == IF Proposals[c].contentOf = None THEN l ELSE Proposals[c].contentOf
Own(c, l) == Proposals[c].contentFile = "CONTENT" /\ ContentPlace(c, l) = l

ASSUME LearningAssumption ==
  /\ IsFiniteSet(Candidates) /\ Seeds \subseteq Candidates
  /\ MaxKills \in Nat /\ MaxCalls \in Nat
  /\ Versions \subseteq Nat \ {Base}
  /\ Results \subseteq [eval : Evals, id : Ids, version : Versions, passed : BOOLEAN]
  \* record_eval_result refuses any other result
  /\ \A r \in Results : EvalTarget[r.eval] = r.id
  /\ \A c \in Candidates :
       /\ Proposals[c].operation \in Operations /\ Proposals[c].scope \in Scopes
       /\ {Proposals[c].id, Proposals[c].target} \subseteq Ids
       /\ Proposals[c].sources \subseteq Experiences
       /\ Proposals[c].evals \subseteq Evals /\ Proposals[c].transfer \in Evals \cup {None}
       \* create_candidate refuses any other proposal
       /\ Proposals[c].operation # "SUPERSEDE" => Proposals[c].target = Proposals[c].id
       /\ Proposals[c].contentFile \in ContentFiles
       /\ Proposals[c].contentOf \in Locations \cup {None}
  /\ \A c \in Seeds : Own(c, BaseOf(c))
  /\ \A c, d \in Seeds : BaseOf(c) = BaseOf(d) => c = d
  /\ None \notin Locations
  /\ {None, Torn, Empty} \cap Candidates = {} /\ \A S \in SUBSET Values : Absent # S
  /\ None # Torn /\ None # Empty
  /\ {None, Torn} \cap {"UNTRIAGED", "TRIAGED", "DRAFT", "AUTHORIZED", "WITHDRAWN", "INTEGRATED",
                        "WHOLE"} = {}

VARIABLES
  experience,   \* design/learning/experiences: None, UNTRIAGED or TRIAGED
  candidate,    \* promotionStatus of each candidate.yaml, or None
  proposed,     \* [asset, content] of each candidate's proposed/
  result,       \* design/evals/results: None, Torn or "WHOLE"
  canonical,    \* design/capabilities: [dir, asset, content] of each location
  ledger,       \* entries of core/governance/promotion-ledger.yaml
  job,          \* the local state of each process
  kills, calls, \* counters for the bounds
  triaged,      \* experiences that were on disk as TRIAGED at some time
  recorded,     \* results that were whole on disk at some time
  authorized,   \* candidates that were on disk as AUTHORIZED at some time
  overlap,      \* two commands were in progress at the same time
  cut,          \* locations whose promotion was cut short before its ledger entry
  ledgerCut,    \* a command was cut short while the ledger was empty
  tangled,      \* locations whose files are not those of one promotion alone
  integrated    \* <<candidate, location>> that a promotion marked INTEGRATED

files == <<experience, candidate, proposed, result, canonical, ledger>>
evidence == <<triaged, recorded, authorized, overlap>>
damage == <<cut, ledgerCut, tangled>>
history == <<evidence, damage, integrated>>
vars == <<files, job, kills, calls, history>>

NoDirectory == [dir |-> FALSE, asset |-> None, content |-> None]
\* An entry of the ledger; the location it was made for is not in the file.
Entry(c, content, l) == [by |-> c, content |-> content, at |-> l]
Idle == [pc |-> "idle", subject |-> None, value |-> None, seen |-> {}, place |-> None, copy |-> None, entries |-> {}]

\* Earlier commands may have left triaged experiences and eval results.
Init ==
  /\ experience \in [Experiences -> {None, "TRIAGED"}]
  /\ candidate = [c \in Candidates |-> None]
  /\ proposed = [c \in Candidates |-> [asset |-> None, content |-> None]]
  /\ result \in [Results -> {None, "WHOLE"}]
  /\ canonical = [l \in Locations |->
       IF \E c \in Seeds : l = BaseOf(c)
       THEN LET c == CHOOSE c \in Seeds : l = BaseOf(c)
            IN [dir |-> TRUE, asset |-> c, content |-> c]
       ELSE NoDirectory]
  /\ ledger = {Entry(c, c, BaseOf(c)) : c \in Seeds}
  /\ job = [p \in Processes |-> Idle]
  /\ kills = 0 /\ calls = 0
  /\ triaged = {x \in Experiences : experience[x] = "TRIAGED"}
  /\ recorded = {r \in Results : result[r] = "WHOLE"}
  /\ authorized = {} /\ overlap = FALSE
  /\ cut = {} /\ ledgerCut = FALSE /\ tangled = {} /\ integrated = {}

-----------------------------------------------------------------------------
(* Scopes. *)

\* is_monotonic_scope_broadening: an absent key is no restriction, and an
\* empty list is a set like any other.
MonotonicBroadening(old, new) ==
  /\ \A k \in Keys :
       \/ old[k] = Absent /\ new[k] \in {Absent, {}}
       \/ old[k] # Absent /\ new[k] = Absent
       \/ old[k] # Absent /\ new[k] # Absent /\ old[k] \subseteq new[k]
  /\ \E k \in Keys : old[k] # Absent /\ new[k] # old[k]

-----------------------------------------------------------------------------
(* Steps of a process. *)

Goto(p, pc) == job' = [job EXCEPT ![p].pc = pc]
Return(p) == job' = [job EXCEPT ![p] = Idle]

\* A check of the code: the next step, or the LearningError.
Check(p, condition, next) == IF condition THEN Goto(p, next) ELSE Return(p)

Call(p, next) ==
  /\ job[p].pc = "idle" /\ calls < MaxCalls
  /\ calls' = calls + 1
  /\ job' = [job EXCEPT ![p] = next]
  /\ overlap' = (overlap \/ \E q \in Processes : job[q].pc # "idle")
  /\ UNCHANGED <<files, kills, triaged, recorded, authorized, damage, integrated>>

At(p, pc) == job[p].pc = pc /\ UNCHANGED <<kills, calls>>

Subject(p) == job[p].subject
Place(p) == job[p].place

\* A promotion has made its location, and the ledger does not name it.
Unrecorded == {"asset_open", "asset_fill", "content_open", "content_fill", "load",
               "ledger_read", "ledger_open", "ledger_fill"}

\* A command is cut short where it stands.
Kill(p) ==
  /\ job[p].pc # "idle" /\ kills < MaxKills
  /\ kills' = kills + 1
  /\ cut' = IF job[p].pc \in Unrecorded THEN cut \cup {Place(p)} ELSE cut
  /\ ledgerCut' = (ledgerCut \/ job[p].pc = "ledger_fill")
  /\ Return(p)
  /\ UNCHANGED <<files, calls, evidence, tangled, integrated>>

-----------------------------------------------------------------------------
(* capture_experience, capture_feedback_as_experience, triage_experience. *)

CaptureExperience(p, x, status) ==
  /\ experience[x] = None
  /\ Call(p, [Idle EXCEPT !.pc = "experience_open", !.subject = x, !.value = status])

\* Feedback becomes an Experience that nobody has triaged.
CaptureFeedback(p, x) == CaptureExperience(p, x, "UNTRIAGED")

TriageExperience(p, x) ==
  /\ experience[x] # None
  /\ Call(p, [Idle EXCEPT !.pc = "experience_open", !.subject = x, !.value = "TRIAGED"])

\* _write_yaml of an experience.
OpenExperience(p) ==
  /\ At(p, "experience_open")
  /\ experience' = [experience EXCEPT ![Subject(p)] = None]
  /\ Goto(p, "experience_fill")
  /\ UNCHANGED <<candidate, proposed, result, canonical, ledger, history>>

FillExperience(p) ==
  /\ At(p, "experience_fill")
  /\ experience' = [experience EXCEPT ![Subject(p)] = job[p].value]
  /\ triaged' = IF job[p].value = "TRIAGED" THEN triaged \cup {Subject(p)} ELSE triaged
  /\ Return(p)
  /\ UNCHANGED <<candidate, proposed, result, canonical, ledger, recorded, authorized, overlap,
                 damage, integrated>>

-----------------------------------------------------------------------------
(* record_eval_result. *)

RecordResult(p, r) ==
  /\ result[r] = None
  /\ Call(p, [Idle EXCEPT !.pc = "result_open", !.subject = r])

OpenResult(p) ==
  /\ At(p, "result_open")
  /\ result' = [result EXCEPT ![Subject(p)] = Torn]
  /\ Goto(p, "result_fill")
  /\ UNCHANGED <<experience, candidate, proposed, canonical, ledger, history>>

FillResult(p) ==
  /\ At(p, "result_fill")
  /\ result' = [result EXCEPT ![Subject(p)] = "WHOLE"]
  /\ recorded' = recorded \cup {Subject(p)}
  /\ Return(p)
  /\ UNCHANGED <<experience, candidate, proposed, canonical, ledger, triaged, authorized, overlap,
                 damage, integrated>>

\* load_eval_results raises when one result does not satisfy its schema.
ResultsLoad == \A r \in Results : result[r] # Torn

\* Mutant: the evidence of another version counts.
HasPassingEvalAnyVersion(e, id, version) ==
  /\ ResultsLoad
  /\ \E r \in Results : result[r] = "WHOLE" /\ r.eval = e /\ r.id = id /\ r.passed

HasPassingEval(e, id, version) ==
  /\ ResultsLoad
  /\ \E r \in Results :
       /\ result[r] = "WHOLE"
       /\ r = [eval |-> e, id |-> id, version |-> version, passed |-> TRUE]

-----------------------------------------------------------------------------
(* create_candidate: candidate.yaml, proposed/asset.yaml, proposed/content.md. *)

\* The schema admits every promotionStatus: DRAFT stands for each that is
\* neither AUTHORIZED nor INTEGRATED.
CreateCandidate(p, c, status) ==
  /\ candidate[c] = None
  /\ \A x \in Proposals[c].sources : experience[x] # None
  /\ Call(p, [Idle EXCEPT !.pc = "candidate_open", !.subject = c, !.value = status])

OpenCandidate(p) ==
  /\ At(p, "candidate_open")
  /\ candidate' = [candidate EXCEPT ![Subject(p)] = None]
  /\ Goto(p, "candidate_fill")
  /\ UNCHANGED <<experience, proposed, result, canonical, ledger, history>>

\* promote_candidate, which has a place, writes the file as well and is done.
FillCandidate(p) ==
  /\ At(p, "candidate_fill")
  /\ candidate' = [candidate EXCEPT ![Subject(p)] = job[p].value]
  /\ IF Place(p) # None
     THEN integrated' = integrated \cup {<<Subject(p), Place(p)>>} /\ Return(p)
     ELSE UNCHANGED integrated /\ Goto(p, "proposed_open")
  /\ authorized' = IF job[p].value = "AUTHORIZED" THEN authorized \cup {Subject(p)}
                   ELSE authorized
  /\ UNCHANGED <<experience, proposed, result, canonical, ledger, triaged, recorded, overlap,
                 damage>>

WriteProposed(p) ==
  \/ /\ At(p, "proposed_open")
     /\ proposed' = [proposed EXCEPT ![Subject(p)].asset = Torn]
     /\ Goto(p, "proposed_fill")
     /\ UNCHANGED <<experience, candidate, result, canonical, ledger, history>>
  \/ /\ At(p, "proposed_fill")
     /\ proposed' = [proposed EXCEPT ![Subject(p)].asset = Subject(p)]
     /\ Goto(p, "text_open")
     /\ UNCHANGED <<experience, candidate, result, canonical, ledger, history>>
  \/ /\ At(p, "text_open")
     /\ proposed' = [proposed EXCEPT ![Subject(p)].content = Empty]
     /\ Goto(p, "text_fill")
     /\ UNCHANGED <<experience, candidate, result, canonical, ledger, history>>
  \/ /\ At(p, "text_fill")
     /\ proposed' = [proposed EXCEPT ![Subject(p)].content = Subject(p)]
     /\ Return(p)
     /\ UNCHANGED <<experience, candidate, result, canonical, ledger, history>>

\* The human decision, an edit of candidate.yaml by an editor that replaces it.
Decide(c, status) ==
  /\ candidate[c] \in {"DRAFT", "AUTHORIZED"} /\ candidate[c] # status
  /\ candidate' = [candidate EXCEPT ![c] = status]
  /\ authorized' = IF status = "AUTHORIZED" THEN authorized \cup {c} ELSE authorized
  /\ UNCHANGED <<experience, proposed, result, canonical, ledger, job, kills, calls,
                 triaged, recorded, overlap, damage, integrated>>

-----------------------------------------------------------------------------
(* The canonical library, load_capabilities. *)

Loaded == {l \in Locations : canonical[l].asset \in Candidates}

\* What makes load_capabilities raise.
Unreadable(l) ==
  \/ canonical[l].asset = Torn
  \/ l \in Loaded /\ Proposals[canonical[l].asset].contentFile = "DIRECTORY"

Broken == \E l \in Locations : Unreadable(l)

\* The content that is read for the version at l: no text when there is no such
\* file, and Torn for the text of an asset.yaml.
ContentAt(l) ==
  LET c == canonical[l].asset
      k == ContentPlace(c, l)
  IN CASE Proposals[c].contentFile = "CONTENT" /\ canonical[k].content # None -> canonical[k].content
       [] Proposals[c].contentFile = "ASSET" /\ canonical[k].asset # None -> Torn
       [] OTHER -> Empty
LoadedOf(id) == {l \in Loaded : Id(canonical[l].asset) = id}
VersionAt(l) == Version(canonical[l].asset)

\* _current_target: the highest version; of equal ones the base comes first.
CurrentTarget(id) ==
  CHOOSE l \in LoadedOf(id) : \A k \in LoadedOf(id) :
    \/ VersionAt(l) > VersionAt(k)
    \/ VersionAt(l) = VersionAt(k) /\ l[2] <= k[2]

-----------------------------------------------------------------------------
(* promote_candidate. *)

FindCandidate(p, c) ==
  /\ candidate[c] = "AUTHORIZED"
  /\ Call(p, [Idle EXCEPT !.pc = "proposed", !.subject = c])

\* A truncated asset.yaml loads as {} and is no valid capability; content.md
\* only has to exist.
CheckProposed(p) ==
  /\ At(p, "proposed")
  /\ Check(p, proposed[Subject(p)].asset = Subject(p) /\ proposed[Subject(p)].content # None,
           "sources")
  /\ UNCHANGED <<files, history>>

EnsureSourcesTriaged(p) ==
  /\ At(p, "sources")
  /\ Check(p, \A x \in Proposals[Subject(p)].sources : experience[x] = "TRIAGED", "existing")
  /\ UNCHANGED <<files, history>>

\* _validate_operation loads the library twice: the versions of the identity ...
LoadExisting(p) ==
  /\ At(p, "existing")
  /\ IF Broken THEN Return(p)
     ELSE job' = [job EXCEPT ![p].pc = "operation",
                             ![p].seen = {VersionAt(l) : l \in LoadedOf(Id(Subject(p)))}]
  /\ UNCHANGED <<files, history>>

\* ... and the current target.
OperationAllowed(c, seen) ==
  LET proposal == Proposals[c]
      target == CurrentTarget(proposal.target)
  IN IF proposal.operation = "CREATE" THEN seen = {}
     ELSE /\ LoadedOf(proposal.target) # {}
          /\ proposal.operation = "SUPERSEDE" => proposal.target \in proposal.supersedes
          /\ \A v \in seen : proposal.version > v
          /\ proposal.operation = "NARROW_SCOPE" =>
               ~MonotonicBroadening(Proposals[canonical[target].asset].scope, proposal.scope)

ValidateOperation(p) ==
  LET c == Subject(p) IN
  /\ At(p, "operation")
  /\ IF Broken \/ ~OperationAllowed(c, job[p].seen) THEN Return(p)
     ELSE Goto(p, IF Proposals[c].operation = "BROADEN_SCOPE" THEN "transfer" ELSE "evals")
  /\ UNCHANGED <<files, history>>

\* The target is loaded once more, then the eval results.
EnsureTransferEvidence(p) ==
  LET proposal == Proposals[Subject(p)]
      target == CurrentTarget(proposal.target)
  IN
  /\ At(p, "transfer")
  /\ Check(p, /\ proposal.transfer # None /\ ~Broken /\ LoadedOf(proposal.target) # {}
              /\ MonotonicBroadening(Proposals[canonical[target].asset].scope, proposal.scope)
              /\ HasPassingEval(proposal.transfer, proposal.id, proposal.version),
           "evals")
  /\ UNCHANGED <<files, history>>

EnsureEvals(p) ==
  LET proposal == Proposals[Subject(p)] IN
  /\ At(p, "evals")
  /\ Check(p, \A e \in proposal.evals :
                /\ EvalTarget[e] = proposal.id
                /\ HasPassingEval(e, proposal.id, proposal.version),
           "destination")
  /\ UNCHANGED <<files, history>>

\* Without apply the call returns its readiness here.
ReportReadiness(p) ==
  /\ At(p, "destination")
  /\ Return(p)
  /\ UNCHANGED <<files, history>>

\* The namespace is dropped: capabilities of one kind and name share a base.
DestinationFor(c) ==
  IF canonical[BaseOf(c)].asset = None THEN BaseOf(c) ELSE <<Directory(c), Version(c)>>

ChooseDestination(p) ==
  /\ At(p, "destination")
  /\ job' = [job EXCEPT ![p].pc = "mkdir", ![p].place = DestinationFor(Subject(p))]
  /\ UNCHANGED <<files, history>>

\* Mutant: a retry takes an existing destination for its own, already written.
MakeDestinationResumes(p) ==
  /\ At(p, "mkdir")
  /\ IF canonical[Place(p)].dir
     THEN /\ job' = [job EXCEPT ![p].pc = "candidate_open", ![p].value = "INTEGRATED"]
          /\ UNCHANGED canonical
     ELSE /\ canonical' = [canonical EXCEPT ![Place(p)].dir = TRUE]
          /\ Goto(p, "asset_open")
  /\ UNCHANGED <<experience, candidate, proposed, result, ledger, history>>

\* Mutant: content.md is written before asset.yaml.
MakeDestinationContentFirst(p) ==
  /\ At(p, "mkdir")
  /\ IF canonical[Place(p)].dir THEN Return(p) /\ UNCHANGED canonical
     ELSE /\ canonical' = [canonical EXCEPT ![Place(p)].dir = TRUE]
          /\ Goto(p, "content_open")
  /\ UNCHANGED <<experience, candidate, proposed, result, ledger, history>>

\* The existence check and the exclusive mkdir, which refuse alike.
MakeDestination(p) ==
  /\ At(p, "mkdir")
  /\ IF canonical[Place(p)].dir THEN Return(p) /\ UNCHANGED canonical
     ELSE /\ canonical' = [canonical EXCEPT ![Place(p)].dir = TRUE]
          /\ Goto(p, "asset_open")
  /\ UNCHANGED <<experience, candidate, proposed, result, ledger, history>>

WriteAsset(p) ==
  \/ /\ At(p, "asset_open")
     /\ canonical' = [canonical EXCEPT ![Place(p)].asset = Torn]
     /\ Goto(p, "asset_fill")
     /\ UNCHANGED <<experience, candidate, proposed, result, ledger, history>>
  \/ /\ At(p, "asset_fill")
     /\ canonical' = [canonical EXCEPT ![Place(p)].asset = Subject(p)]
     /\ Goto(p, "content_open")
     /\ UNCHANGED <<experience, candidate, proposed, result, ledger, history>>

\* A text is written where the contentFile of c leads; an asset.yaml is lost by it.
Put(c, l, text) ==
  canonical' = IF Proposals[c].contentFile = "ASSET"
               THEN [canonical EXCEPT ![ContentPlace(c, l)].asset = Torn]
               ELSE [canonical EXCEPT ![ContentPlace(c, l)].content = text]

Writable(c, l) ==
  Proposals[c].contentFile \in {"CONTENT", "ASSET"} /\ canonical[ContentPlace(c, l)].dir

\* The proposed content is read before the canonical file is opened, and what
\* cannot be opened raises although asset.yaml is there.
WriteContent(p) ==
  \/ /\ At(p, "content_open") /\ Writable(Subject(p), Place(p))
     /\ Put(Subject(p), Place(p), Empty)
     /\ tangled' = IF Own(Subject(p), Place(p)) THEN tangled
                   ELSE tangled \cup {Place(p), ContentPlace(Subject(p), Place(p))}
     /\ job' = [job EXCEPT ![p].pc = "content_fill", ![p].copy = proposed[Subject(p)].content]
     /\ UNCHANGED <<experience, candidate, proposed, result, ledger, evidence, cut, ledgerCut,
                    integrated>>
  \/ /\ At(p, "content_open") /\ ~Writable(Subject(p), Place(p))
     /\ cut' = cut \cup {Place(p)}
     /\ Return(p)
     /\ UNCHANGED <<files, evidence, ledgerCut, tangled, integrated>>
  \/ /\ At(p, "content_fill")
     /\ Put(Subject(p), Place(p), job[p].copy)
     /\ Goto(p, "load")
     /\ UNCHANGED <<experience, candidate, proposed, result, ledger, history>>

\* Mutant: the hash is that of the proposal, not of the copy.
LoadPromotedFromProposal(p) ==
  /\ At(p, "load")
  /\ \/ /\ canonical[Place(p)].asset = Subject(p)
        /\ job' = [job EXCEPT ![p].pc = "ledger_read", ![p].copy = proposed[Subject(p)].content]
     \/ Broken /\ Return(p)
  /\ UNCHANGED <<files, history>>

\* load_capabilities once more, for the content hash of what is on disk.  A
\* version that cannot be read raises, a torn one if its path comes first.
LoadPromoted(p) ==
  /\ At(p, "load")
  /\ \/ /\ canonical[Place(p)].asset = Subject(p)
        /\ job' = [job EXCEPT ![p].pc = "ledger_read", ![p].copy = ContentAt(Place(p))]
     \/ Broken /\ Return(p)
  /\ UNCHANGED <<files, history>>

\* Mutant: the entry is not added to what was read.
ReadLedgerAnew(p) ==
  /\ At(p, "ledger_read")
  /\ IF \E e \in ledger : Id(e.by) = Id(Subject(p)) /\ Version(e.by) = Version(Subject(p))
     THEN Return(p)
     ELSE job' = [job EXCEPT ![p].pc = "ledger_open",
                             ![p].entries = {Entry(Subject(p), job[p].copy, Place(p))}]
  /\ UNCHANGED <<files, history>>

\* _append_ledger: read and compare, truncate, fill with what was read and
\* the new entry.
ReadLedger(p) ==
  /\ At(p, "ledger_read")
  /\ IF \E e \in ledger : Id(e.by) = Id(Subject(p)) /\ Version(e.by) = Version(Subject(p))
     THEN Return(p)
     ELSE job' = [job EXCEPT ![p].pc = "ledger_open",
                             ![p].entries = ledger \cup {Entry(Subject(p), job[p].copy, Place(p))}]
  /\ UNCHANGED <<files, history>>

OpenLedger(p) ==
  /\ At(p, "ledger_open")
  /\ ledger' = {}
  /\ Goto(p, "ledger_fill")
  /\ UNCHANGED <<experience, candidate, proposed, result, canonical, history>>

FillLedger(p) ==
  /\ At(p, "ledger_fill")
  /\ ledger' = job[p].entries
  /\ job' = [job EXCEPT ![p].pc = "candidate_open", ![p].value = "INTEGRATED"]
  /\ UNCHANGED <<experience, candidate, proposed, result, canonical, history>>

-----------------------------------------------------------------------------
Next ==
  \/ \E p \in Processes :
       \/ Kill(p)
       \/ \E x \in Experiences :
            \/ \E s \in {"UNTRIAGED", "TRIAGED"} : CaptureExperience(p, x, s)
            \/ CaptureFeedback(p, x)
            \/ TriageExperience(p, x)
       \/ OpenExperience(p) \/ FillExperience(p)
       \/ \E r \in Results : RecordResult(p, r)
       \/ OpenResult(p) \/ FillResult(p)
       \/ \E c \in Candidates \ Seeds :
            \/ \E s \in {"DRAFT", "AUTHORIZED", "INTEGRATED"} : CreateCandidate(p, c, s)
            \/ FindCandidate(p, c)
       \/ OpenCandidate(p) \/ FillCandidate(p) \/ WriteProposed(p)
       \/ CheckProposed(p) \/ EnsureSourcesTriaged(p) \/ LoadExisting(p)
       \/ ValidateOperation(p) \/ EnsureTransferEvidence(p) \/ EnsureEvals(p)
       \/ ReportReadiness(p) \/ ChooseDestination(p) \/ MakeDestination(p)
       \/ WriteAsset(p) \/ WriteContent(p) \/ LoadPromoted(p)
       \/ ReadLedger(p) \/ OpenLedger(p) \/ FillLedger(p)
  \/ \E c \in Candidates, s \in {"AUTHORIZED", "WITHDRAWN"} : Decide(c, s)

Spec == Init /\ [][Next]_vars

-----------------------------------------------------------------------------
(* validate_promotion_authority: the versions without an entry, and those   *)
(* whose entry has another hash.                                            *)
EntryOf(l) == {e \in ledger : Id(e.by) = Id(canonical[l].asset) /\ Version(e.by) = VersionAt(l)}

AuthorityIssues ==
  {l \in Loaded : ~\E e \in EntryOf(l) : e.by = canonical[l].asset /\ e.content = ContentAt(l)}

AllIdle == \A p \in Processes : job[p].pc = "idle"

\* Types, and the order in which promotion makes a location: the directory,
\* asset.yaml, the content file.
LearningTypeOK ==
  /\ experience \in [Experiences -> {None, "UNTRIAGED", "TRIAGED"}]
  /\ candidate \in [Candidates -> {None, "DRAFT", "AUTHORIZED", "INTEGRATED", "WITHDRAWN"}]
  /\ result \in [Results -> {None, Torn, "WHOLE"}]
  /\ \A e \in ledger : /\ e.by \in Candidates /\ e.at \in Locations
                       /\ e.content \in Candidates \cup {Empty, Torn}
  /\ \A c \in Candidates :
       /\ proposed[c].asset \in {None, Torn, c} /\ proposed[c].content \in {None, Empty, c}
       /\ proposed[c].content # None => proposed[c].asset # None
  /\ \A l \in Locations :
       /\ canonical[l].asset \notin {None, Torn} =>
            canonical[l].asset \in Candidates /\ Directory(canonical[l].asset) = l[1]
       /\ canonical[l].asset # None => canonical[l].dir
       /\ l \notin tangled /\ canonical[l].content # None => canonical[l].asset \in Candidates
  /\ kills \in 0 .. MaxKills /\ calls \in 0 .. MaxCalls

\* Whatever else runs or is cut short, the ledger never names a version whose
\* files are not in the library with exactly the hashed content: the entry is
\* appended after the copy, and from the copy on disk.  Only a contentFile that
\* leads out of its own version makes it untrue, and only of that version and of
\* the one that it leads to: what was promoted elsewhere stays true.
LedgerTellsContent ==
  \A e \in ledger :
    \/ canonical[e.at].asset = e.by /\ ContentAt(e.at) = e.content
    \/ e.at \in tangled

\* A version enters the ledger only from a Candidate that was authorised, whose
\* sources had all been triaged, and which passed every required eval, and for
\* BROADEN_SCOPE the transfer eval, as exactly this version of this capability.
\* It was so at some time: a second command that records the same result tears
\* the file again, and nothing keeps an authorisation from being withdrawn.
PromotedWereReady ==
  \A e \in ledger : e.by \in Seeds \/
    LET proposal == Proposals[e.by]
        Passed(v) == [eval |-> v, id |-> proposal.id, version |-> proposal.version,
                      passed |-> TRUE] \in recorded
    IN /\ e.by \in authorized /\ proposal.sources \subseteq triaged
       /\ \A v \in proposal.evals : Passed(v)
       /\ proposal.operation = "BROADEN_SCOPE" => Passed(proposal.transfer)

\* A Candidate that a promotion has marked INTEGRATED is in the library with both
\* files, where that promotion made it, even after attempts that were cut short.
\* (create_candidate accepts INTEGRATED of a Candidate that never was promoted.)
IntegratedIsCanonical ==
  \A i \in integrated :
    \/ canonical[i[2]].asset = i[1] /\ canonical[i[2]].content # None
    \/ i[2] \in tangled

\* One command after another, whatever they were and whichever were refused, cut
\* short or failed: validate_promotion_authority finds nothing but versions whose
\* promotion was cut short before its ledger entry, or to which a contentFile led
\* that is not a content file of its own.  A ledger that was cut short is empty.
SequentialLibraryAuthorised ==
  ~overlap /\ AllIdle /\ ~ledgerCut => AuthorityIssues \subseteq cut \cup tangled

\* The invariant of the library: the order of its files, and that neither ledger
\* nor Candidate speaks of a version that is not there.
LearningInv == LearningTypeOK /\ LedgerTellsContent /\ IntegratedIsCanonical
=============================================================================
