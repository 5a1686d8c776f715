------------------------------ MODULE PackSource ------------------------------
(***************************************************************************)
(* Reading a registered capability pack from its live Git repository:      *)
(* read_registered_pack_blobs of capability_pack_registry.py.  The reader  *)
(* runs one git command after another; between two of them the owner of    *)
(* the repository may edit, stage, ignore, hide or check out.              *)
(*                                                                         *)
(* Git is external and modelled by what its commands answer: commits and   *)
(* blobs are immutable objects, HEAD, the index with its hidden flags, the *)
(* ignore rules and the working tree are not.  A digest stands for what it *)
(* is computed from.                                                       *)
(***************************************************************************)
EXTENDS Naturals, FiniteSets

CONSTANTS
  Readers, Paths, Blobs,
  Commits,        \* the commit objects of the repository
  TreeOf,         \* commit -> [Paths -> [mode, blob] or None]
  ManifestOf,     \* commit -> [roots, excluded, skill, validator] of its manifest
  Registrations,  \* [commit, tree, digest, manifest, validator, validatorDigest]
  VersionFile, ManifestFile,
  Fold,           \* path -> its normalised, case-folded form
  MaxDrifts,
  None

Modes == {"100644", "100755", "120000", "160000"}
Entries == [mode : Modes, blob : Blobs]

ASSUME PackSourceAssumption ==
  /\ MaxDrifts \in Nat /\ None \notin Entries \cup Blobs
  /\ {VersionFile, ManifestFile} \subseteq Paths
  /\ \A c \in Commits : TreeOf[c] \in [Paths -> Entries \cup {None}]
  /\ \A S \in SUBSET Paths : None \notin [S -> Blobs]
  /\ \A g \in Registrations : UNION g.manifest.roots \subseteq Paths

VARIABLES
  head,      \* the commit of HEAD
  index,     \* the staged blob of each path, or None
  hidden,    \* paths with assume-unchanged or skip-worktree
  ignored,   \* paths the ignore rules match
  work,      \* the file of each path in the working tree, or None
  drifts,    \* how often the repository changed
  pc, registration,   \* of each reader
  begun,     \* drifts when the reader's call began
  blobs      \* what the reader has read, and then returned

source == <<head, index, hidden, ignored, work, drifts>>
vars == <<source, pc, registration, begun, blobs>>

BlobsOf(c) == [q \in Paths |-> IF TreeOf[c][q] = None THEN None ELSE TreeOf[c][q].blob]

Init ==
  /\ head \in Commits
  /\ index = BlobsOf(head) /\ work = BlobsOf(head)
  /\ hidden = {} /\ ignored = {}
  /\ drifts = 0
  /\ pc = [r \in Readers |-> "idle"]
  /\ registration = [r \in Readers |-> None]
  /\ begun = [r \in Readers |-> 0]
  /\ blobs = [r \in Readers |-> None]

-----------------------------------------------------------------------------
(* What the git commands answer. *)

\* git status --porcelain --untracked-files=all: staged, changed and
\* untracked paths; hidden paths are taken to be unchanged.
Status ==
  {q \in Paths : index[q] # BlobsOf(head)[q]}
    \cup {q \in Paths \ hidden : index[q] # None /\ work[q] # index[q]}
    \cup {q \in Paths \ ignored : index[q] = None /\ work[q] # None}

\* the !! records of git status --ignored=matching
IgnoredStatus == {q \in ignored : index[q] = None /\ work[q] # None}

\* git ls-files -v, the records that do not begin with H
HiddenFlags == {q \in hidden : index[q] # None}

-----------------------------------------------------------------------------
(* The content that a registration selects. *)

Active(manifest) == UNION manifest.roots \ manifest.excluded

\* _selected_entries: the selection, and what it is refused for.
Selected(entries, manifest) ==
  {q \in Paths : entries[q] # None /\ q \in {VersionFile, ManifestFile} \cup Active(manifest)}

SelectionSound(entries, manifest) ==
  LET selected == Selected(entries, manifest) IN
  /\ {VersionFile, ManifestFile, manifest.skill} \subseteq selected
  /\ \A root \in manifest.roots : root \cap selected # {}
  /\ \A q \in selected : entries[q].mode \in {"100644", "100755"}
  /\ \A q, s \in selected : Fold[q] = Fold[s] => q = s

\* _digest_entries covers path, mode and content of the selection.
Digest(entries, manifest) == [q \in Selected(entries, manifest) |-> entries[q]]

\* The manifest of the commit is the locked one and names the registered validator.
ManifestMatches(r) ==
  /\ ManifestOf[r.commit] = r.manifest
  /\ r.manifest.validator = r.validator

\* The part of _registered_pack_snapshot that reads only objects of the commit:
\* manifest, selection, content digest and validator.
ContentMatches(r) ==
  LET entries == TreeOf[r.commit] IN
  /\ ManifestMatches(r)
  /\ SelectionSound(entries, r.manifest)
  /\ Digest(entries, r.manifest) = r.digest
  /\ entries[r.validator] # None
  /\ entries[r.validator].mode = "100755"
  /\ entries[r.validator].blob = r.validatorDigest

\* _require_fixed_git_identity.
FixedIdentity(r) ==
  /\ r.commit \in Commits /\ TreeOf[r.commit] = r.tree
  /\ head = r.commit

NoHiddenFlags == HiddenFlags = {}

\* Mutant: it looks only at what the registration selects, not at what else is there.
NoIgnoredActiveTracked(manifest) ==
  IgnoredStatus \cap Selected(TreeOf[head], manifest) = {}

NoIgnoredActive(manifest) == IgnoredStatus \cap Active(manifest) = {}

-----------------------------------------------------------------------------
(* The reader: _registered_pack_snapshot, the blobs, and the recheck. *)

\* Mutant: the blobs of the call before are still there.
BeginKeepingBlobs(r, g) ==
  /\ pc[r] \in {"idle", "returned"}
  /\ pc' = [pc EXCEPT ![r] = "identity"]
  /\ registration' = [registration EXCEPT ![r] = g]
  /\ begun' = [begun EXCEPT ![r] = drifts]
  /\ UNCHANGED <<source, blobs>>

Begin(r, g) ==
  /\ pc[r] \in {"idle", "returned"}
  /\ pc' = [pc EXCEPT ![r] = "identity"]
  /\ registration' = [registration EXCEPT ![r] = g]
  /\ begun' = [begun EXCEPT ![r] = drifts]
  /\ blobs' = [blobs EXCEPT ![r] = None]
  /\ UNCHANGED source

\* A step that goes on when its check holds and raises otherwise.
Check(r, from, condition, to) ==
  /\ pc[r] = from
  /\ pc' = [pc EXCEPT ![r] = IF condition THEN to ELSE "idle"]
  /\ UNCHANGED <<source, registration, begun, blobs>>

Snapshot(r) ==
  \/ Check(r, "identity", FixedIdentity(registration[r]), "content")
  \/ Check(r, "content", ContentMatches(registration[r]), "flags")

RequireNoHiddenFlags(r) ==
  \/ Check(r, "flags", NoHiddenFlags, "clean")
  \/ Check(r, "flags_again", NoHiddenFlags, "clean_again")

\* _require_clean_source runs git status and then git status --ignored.
RequireClean(r) ==
  \/ Check(r, "clean", Status = {}, "ignored")
  \/ Check(r, "ignored", NoIgnoredActive(registration[r].manifest), "read")
  \/ Check(r, "clean_again", Status = {}, "ignored_again")
  \/ Check(r, "ignored_again", NoIgnoredActive(registration[r].manifest), "returned")

\* Mutant: the files of the working tree are read.
ReadBlobsFromWorktree(r) ==
  /\ pc[r] = "read"
  /\ blobs' = [blobs EXCEPT ![r] =
       [q \in Selected(TreeOf[registration[r].commit], registration[r].manifest) |-> work[q]]]
  /\ pc' = [pc EXCEPT ![r] = "identity_again"]
  /\ UNCHANGED <<source, registration, begun>>

\* git cat-file blob of every selected object.
ReadBlobs(r) ==
  /\ pc[r] = "read"
  /\ blobs' = [blobs EXCEPT ![r] =
       [q \in Selected(TreeOf[registration[r].commit], registration[r].manifest) |->
          TreeOf[registration[r].commit][q].blob]]
  /\ pc' = [pc EXCEPT ![r] = "identity_again"]
  /\ UNCHANGED <<source, registration, begun>>

Recheck(r) == Check(r, "identity_again", FixedIdentity(registration[r]), "flags_again")

-----------------------------------------------------------------------------
(* The owner of the repository. *)

Drift == drifts < MaxDrifts /\ drifts' = drifts + 1 /\ UNCHANGED <<pc, registration, begun, blobs>>

Edit(q, b) ==
  /\ Drift /\ work[q] # b
  /\ work' = [work EXCEPT ![q] = b]
  /\ UNCHANGED <<head, index, hidden, ignored>>

StageFile(q) ==
  /\ Drift /\ index[q] # work[q] /\ q \notin hidden
  /\ index' = [index EXCEPT ![q] = work[q]]
  /\ UNCHANGED <<head, hidden, ignored, work>>

Hide(q) ==
  /\ Drift /\ index[q] # None
  /\ hidden' = IF q \in hidden THEN hidden \ {q} ELSE hidden \cup {q}
  /\ UNCHANGED <<head, index, ignored, work>>

Ignore(q) ==
  /\ Drift
  /\ ignored' = IF q \in ignored THEN ignored \ {q} ELSE ignored \cup {q}
  /\ UNCHANGED <<head, index, hidden, work>>

\* git checkout --force: tracked files follow, untracked ones stay.
Checkout(c) ==
  /\ Drift /\ c # head
  /\ head' = c /\ index' = BlobsOf(c)
  /\ work' = [q \in Paths |-> IF index[q] = None /\ BlobsOf(c)[q] = None THEN work[q]
                              ELSE BlobsOf(c)[q]]
  /\ hidden' = {q \in hidden : index[q] = BlobsOf(c)[q]}
  /\ UNCHANGED ignored

Next ==
  \/ \E r \in Readers :
       \/ \E g \in Registrations : Begin(r, g)
       \/ Snapshot(r) \/ RequireNoHiddenFlags(r) \/ RequireClean(r)
       \/ ReadBlobs(r) \/ Recheck(r)
  \/ \E q \in Paths : (\E b \in Blobs \cup {None} : Edit(q, b)) \/ StageFile(q) \/ Hide(q) \/ Ignore(q)
  \/ \E c \in Commits : Checkout(c)

Spec == Init /\ [][Next]_vars

-----------------------------------------------------------------------------
\* Types.
PackSourceTypeOK ==
  /\ head \in Commits
  /\ index \in [Paths -> Blobs \cup {None}] /\ work \in [Paths -> Blobs \cup {None}]
  /\ hidden \subseteq Paths /\ ignored \subseteq Paths
  /\ drifts \in 0 .. MaxDrifts
  /\ \A r \in Readers :
       /\ registration[r] \in Registrations \cup {None}
       /\ begun[r] <= drifts
       /\ pc[r] \in {"identity_again", "flags_again", "clean_again", "ignored_again", "returned"}
            <=> pc[r] # "idle" /\ blobs[r] # None

\* However the repository changes while it is read, the bytes that are
\* returned are the ones whose digest is registered.
ReturnedIsRegistered ==
  \A r \in Readers : pc[r] = "returned" =>
    LET g == registration[r] IN blobs[r] = [q \in DOMAIN g.digest |-> g.digest[q].blob]

\* A read that returns from a repository nobody touched meanwhile returns what
\* the working tree shows: HEAD is the registered commit, every selected file has its
\* committed content, and no file that Git does not track, ignored or not, lies
\* under an active root.
QuietReadMeansExact ==
  \A r \in Readers : pc[r] = "returned" /\ begun[r] = drifts =>
    LET g == registration[r] IN
    /\ head = g.commit
    /\ \A q \in DOMAIN blobs[r] : work[q] = blobs[r][q]
    /\ \A q \in Active(g.manifest) : work[q] # None => q \in DOMAIN blobs[r]

\* The invariant of the reader: what it returns is what is registered, and of a
\* repository at rest also what lies there.
PackSourceInv == PackSourceTypeOK /\ ReturnedIsRegistered /\ QuietReadMeansExact
=============================================================================
