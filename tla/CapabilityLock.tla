---------------------------- MODULE CapabilityLock ----------------------------
(***************************************************************************)
(* The project capability lock, project.py, and the registered operation   *)
(* around it, registration.py.  Builders read the project's binding, the   *)
(* active catalogue and the external pack, and rewrite the lock file in    *)
(* place.  A registered operation reads its registration, opens a          *)
(* verification session, verifies the lock, reads the registration again   *)
(* and hands the session to its body, whose workers verify the lock again. *)
(* Nothing holds the files still: every read is a step of its own.         *)
(*                                                                         *)
(* A lock stands for its content and its fingerprint.  The session is its  *)
(* promise to its callers, checked in PackSession: while it is open it     *)
(* answers for the external capability with the registered pack, and with  *)
(* one identity only.  One project, one internal and one external          *)
(* capability: a binding either selects the external one or does not.      *)
(***************************************************************************)
EXTENDS Naturals, FiniteSets, Sequences

CONSTANTS
  Workers,        \* threads of the operation's body
  Builders,       \* processes that build the lock
  Bindings,       \* [disabled, reasons, external] of capabilities.yaml and its profiles
  Registries,     \* [active, usable, shadows] of the design registry
  Packs,          \* identities of the external pack
  Integrations,   \* contents of the integration's files
  Main,           \* the thread that runs registered_integration_operation
  MaxDrifts,      \* bound on the changes of the files
  Nothing,        \* no lock, no context, not read yet
  TornLock        \* a lock file that is truncated or mixed

Threads == Workers \cup {Main}

LockVersions == UNION {r.usable \cup {r.active} : r \in Registries}

Locks == [disabled : {b.disabled : b \in Bindings}, reasons : {b.reasons : b \in Bindings},
          version : LockVersions, pack : Packs \cup {Nothing}]

\* What one build writes when it reads the files at one moment.
LockOf(b, r, p) ==
  [disabled |-> b.disabled, reasons |-> b.reasons, version |-> r.active,
   pack |-> IF b.external /\ ~r.shadows THEN p ELSE Nothing]

\* What a verification has read when it is done.
LockContexts == [lock : Locks, binding : Bindings, inputs : Registries, registry : Registries,
                 pack : Packs \cup {Nothing}]

ASSUME LockAssumption ==
  /\ Main \notin Workers /\ IsFiniteSet(Workers)
  /\ MaxDrifts \in Nat
  /\ {Nothing, TornLock} \cap (Packs \cup Locks) = {} /\ Nothing \notin LockContexts
  /\ \A b \in Bindings :
       /\ b = [disabled |-> b.disabled, reasons |-> b.reasons, external |-> b.external]
       /\ b.external \in BOOLEAN
  /\ \A r \in Registries :
       r = [active |-> r.active, usable |-> r.usable, shadows |-> r.shadows]
  /\ \A b, c \in Bindings : b.reasons = c.reasons => b.external = c.external

VARIABLES
  lockFile,      \* capabilities.lock.yaml: a lock, or Torn
  binding,       \* capabilities.yaml and the profiles it names
  registry,      \* the design registry
  pack,          \* the active registration of the external pack
  pin,           \* the lock whose fingerprint registration.yaml has
  integration,   \* the integration's files
  drifts,        \* how often the files changed
  draft,         \* what each builder has read so far
  bpc,           \* where each builder is
  session,       \* _state of the verification session
  allowed,       \* it was opened for the external capability
  leases,        \* its active-use leases
  packIdentity,  \* the pack identity it has answered with
  lockIdentity,  \* _lock_identity_by_project
  contexts,      \* _verified_lock_contexts
  pc,            \* where each thread is
  read,          \* what the verification of a thread has read so far
  boot,          \* the bootstrap the operation is reading
  boots,         \* the bootstraps it has read
  returned,      \* the context each thread's last call returned
  yielded        \* the context the body of the operation runs with

lockFiles == <<lockFile, binding, registry, pack, pin, integration, drifts>>
builds == <<draft, bpc>>
sessionVars == <<session, allowed, leases, packIdentity, lockIdentity, contexts>>
operation == <<boot, boots, yielded>>
lockVars == <<lockFiles, builds, sessionVars, operation, pc, read, returned>>

NotRead == [lock |-> Nothing, binding |-> Nothing, inputs |-> Nothing,
            registry |-> Nothing, pack |-> Nothing]

NoBoot == [pin |-> Nothing, integration |-> Nothing]

LockInit ==
  /\ binding \in Bindings /\ registry \in Registries /\ pack \in Packs
  /\ lockFile = LockOf(binding, registry, pack)
  /\ pin = lockFile
  /\ integration \in Integrations
  /\ drifts = 0
  /\ draft = [p \in Builders |-> NotRead] /\ bpc = [p \in Builders |-> "IDLE"]
  /\ session = "NONE" /\ allowed = FALSE /\ leases = 0
  /\ packIdentity = Nothing /\ lockIdentity = Nothing /\ contexts = {}
  /\ pc = [t \in Threads |-> IF t = Main THEN "BOOT" ELSE "IDLE"]
  /\ read = [t \in Threads |-> NotRead]
  /\ boot = NoBoot /\ boots = <<>>
  /\ returned = [t \in Threads |-> Nothing]
  /\ yielded = Nothing

-----------------------------------------------------------------------------
(***************************************************************************)
(* The files change.                                                       *)
(***************************************************************************)
Drift ==
  /\ drifts < MaxDrifts
  /\ drifts' = drifts + 1
  /\ \/ binding' \in Bindings \ {binding}
        /\ UNCHANGED <<registry, pack, pin, integration>>
     \/ registry' \in Registries \ {registry}
        /\ UNCHANGED <<binding, pack, pin, integration>>
     \/ pack' \in Packs \ {pack}
        /\ UNCHANGED <<binding, registry, pin, integration>>
     \/ lockFile \in Locks /\ pin' = lockFile /\ pin' # pin
        /\ UNCHANGED <<binding, registry, pack, integration>>
     \/ integration' \in Integrations \ {integration}
        /\ UNCHANGED <<binding, registry, pack, pin>>
  /\ UNCHANGED <<lockFile, builds, sessionVars, operation, pc, read, returned>>

-----------------------------------------------------------------------------
(***************************************************************************)
(* build_capability_lock(write=True), in a private session of its own.     *)
(***************************************************************************)
BuilderReads(p, from, to, d) ==
  /\ bpc[p] = from
  /\ bpc' = [bpc EXCEPT ![p] = to]
  /\ draft' = [draft EXCEPT ![p] = d]
  /\ UNCHANGED <<lockFiles, sessionVars, operation, pc, read, returned>>

\* load_project_binding, for the disabled capabilities.
BuildBinding(p) == BuilderReads(p, "IDLE", "REASONS", [NotRead EXCEPT !.binding = binding])

\* bound_capability_reasons reads the binding a second time.
BuildReasons(p) ==
  BuilderReads(p, "REASONS", "CATALOG",
               [draft[p] EXCEPT !.inputs = binding.reasons])

BuildCatalog(p) == BuilderReads(p, "CATALOG", "PACK", [draft[p] EXCEPT !.registry = registry])

\* A selected capability that the catalogue lacks comes from the pack registry.
BuildPack(p) ==
  LET b == CHOOSE b \in Bindings : b.reasons = draft[p].inputs
      mixed == [draft[p].binding EXCEPT !.reasons = b.reasons, !.external = b.external]
  IN BuilderReads(p, "PACK", "TRUNCATE",
       [draft[p] EXCEPT !.pack = pack, !.lock = LockOf(mixed, draft[p].registry, pack)])

\* Path.write_text truncates the file, ...
BuildTruncate(p) ==
  /\ bpc[p] = "TRUNCATE"
  /\ lockFile' = TornLock
  /\ bpc' = [bpc EXCEPT ![p] = "WRITE"]
  /\ UNCHANGED <<binding, registry, pack, pin, integration, drifts, draft, sessionVars, operation,
                 pc, read, returned>>

\* ... and writes it; over what another builder wrote meanwhile, a tail may stay.
BuildWrite(p) ==
  /\ bpc[p] = "WRITE"
  /\ lockFile' \in {draft[p].lock} \cup (IF lockFile = TornLock THEN {} ELSE {TornLock})
  /\ bpc' = [bpc EXCEPT ![p] = "IDLE"]
  /\ draft' = [draft EXCEPT ![p] = NotRead]
  /\ UNCHANGED <<binding, registry, pack, pin, integration, drifts, sessionVars, operation, pc,
                 read, returned>>

\* A build fails or is killed; a lock it has truncated stays torn.
BuildDies(p) ==
  /\ bpc[p] # "IDLE"
  /\ bpc' = [bpc EXCEPT ![p] = "IDLE"]
  /\ draft' = [draft EXCEPT ![p] = NotRead]
  /\ UNCHANGED <<lockFiles, sessionVars, operation, pc, read, returned>>

-----------------------------------------------------------------------------
(***************************************************************************)
(* verify_capability_lock, with the operation's session.                   *)
(***************************************************************************)
Go(t, step) == pc' = [pc EXCEPT ![t] = step]
IsWhole(l) == l \in Locks
External(l) == l.pack # Nothing

Poisoned == IF session = "OPEN" THEN "FAILED" ELSE session

VerifySteps == {"DECLARE", "LEASE", "LOCK", "BINDING", "INPUTS", "REGISTRY", "INPUTS_AGAIN",
                "PACKS", "COMPARE", "PUBLISH", "RETURN"}
UnderLease == VerifySteps \ {"DECLARE", "LEASE"}

\* Mutant: the lease of a verification that raises is not given back.
FailKeepingLease(t) ==
  /\ pc[t] \in VerifySteps
  /\ session' = Poisoned
  /\ read' = [read EXCEPT ![t] = NotRead]
  /\ returned' = [returned EXCEPT ![t] = Nothing]
  /\ Go(t, IF t = Main THEN "CLOSE" ELSE "IDLE")
  /\ UNCHANGED <<lockFiles, builds, allowed, leases, packIdentity, lockIdentity, contexts, operation>>

\* Any exception of the verification poisons the session, also one raised before
\* the lease was acquired, and ends the call.
Fail(t) ==
  /\ pc[t] \in VerifySteps
  /\ session' = Poisoned
  /\ leases' = IF pc[t] \in UnderLease THEN leases - 1 ELSE leases
  /\ read' = [read EXCEPT ![t] = NotRead]
  /\ returned' = [returned EXCEPT ![t] = Nothing]
  /\ Go(t, IF t = Main THEN "CLOSE" ELSE "IDLE")
  /\ UNCHANGED <<lockFiles, builds, allowed, packIdentity, lockIdentity, contexts, operation>>

\* A worker of the body calls with the session it was handed, open or not.
CallVerify(t) ==
  /\ t \in Workers
  /\ pc[t] = "IDLE"
  /\ yielded # Nothing
  /\ Go(t, "DECLARE")
  /\ UNCHANGED <<lockFiles, builds, sessionVars, operation, read, returned>>

Reads(t, from, to, r) ==
  /\ pc[t] = from
  /\ read' = [read EXCEPT ![t] = r]
  /\ Go(t, to)
  /\ UNCHANGED <<lockFiles, builds, sessionVars, operation, returned>>

\* load_capability_lock: the declared lock says for what the lease is.
Declare(t) == IsWhole(lockFile) /\ Reads(t, "DECLARE", "LEASE", [NotRead EXCEPT !.lock = lockFile])

\* Mutant: only a closed session refuses a lease.
AcquireLeaseLate(t) ==
  /\ pc[t] = "LEASE"
  /\ session # "CLOSED"
  /\ External(read[t].lock) => allowed
  /\ leases' = leases + 1
  /\ Go(t, "LOCK")
  /\ UNCHANGED <<lockFiles, builds, session, allowed, packIdentity, lockIdentity, contexts, operation,
                 read, returned>>

\* _operation_lease.
AcquireLease(t) ==
  /\ pc[t] = "LEASE"
  /\ session = "OPEN"
  /\ External(read[t].lock) => allowed
  /\ leases' = leases + 1
  /\ Go(t, "LOCK")
  /\ UNCHANGED <<lockFiles, builds, session, allowed, packIdentity, lockIdentity, contexts, operation,
                 read, returned>>

\* _load_capability_lock_witness reads the lock again.
ReadLock(t) == IsWhole(lockFile) /\ Reads(t, "LOCK", "BINDING", [NotRead EXCEPT !.lock = lockFile])

\* Mutant: the reasons of the lock's entries are not compared.
ReadBindingDisabledOnly(t) ==
  /\ Reads(t, "BINDING", "INPUTS", [read[t] EXCEPT !.binding = binding])
  /\ read[t].lock.disabled = binding.disabled

\* The binding and its profiles, read once, say what the lock says.
ReadBinding(t) ==
  /\ Reads(t, "BINDING", "INPUTS", [read[t] EXCEPT !.binding = binding])
  /\ read[t].lock.disabled = binding.disabled
  /\ read[t].lock.reasons = binding.reasons

\* The inputs of the registry, the registry, and the inputs once more.
ReadInputs(t) == Reads(t, "INPUTS", "REGISTRY", [read[t] EXCEPT !.inputs = registry])
ReadRegistry(t) == Reads(t, "REGISTRY", "INPUTS_AGAIN", [read[t] EXCEPT !.registry = registry])
ReadInputsAgain(t) == registry = read[t].inputs /\ Reads(t, "INPUTS_AGAIN", "PACKS", read[t])

\* Mutant: the packs are asked for whatever the session was opened for.
GetPacksUnasked(t) ==
  /\ pc[t] = "PACKS"
  /\ session = "OPEN"
  /\ IF External(read[t].lock)
       THEN /\ ~read[t].registry.shadows
            /\ packIdentity \in {Nothing, pack}
            /\ packIdentity' = pack
            /\ read' = [read EXCEPT ![t].pack = pack]
       ELSE UNCHANGED <<packIdentity, read>>
  /\ Go(t, "COMPARE")
  /\ UNCHANGED <<lockFiles, builds, session, allowed, leases, lockIdentity, contexts, operation,
                 returned>>

\* _get_verified_capability_pack, unless the capability is internal by now.
GetPacks(t) ==
  /\ pc[t] = "PACKS"
  /\ session = "OPEN"
  /\ IF External(read[t].lock)
       THEN /\ ~read[t].registry.shadows
            /\ allowed
            /\ packIdentity \in {Nothing, pack}
            /\ packIdentity' = pack
            /\ read' = [read EXCEPT ![t].pack = pack]
       ELSE UNCHANGED <<packIdentity, read>>
  /\ Go(t, "COMPARE")
  /\ UNCHANGED <<lockFiles, builds, session, allowed, leases, lockIdentity, contexts, operation,
                 returned>>

\* Every entry of the lock is the pack's registration, or a usable version.
Compare(t) ==
  /\ Reads(t, "COMPARE", "PUBLISH", read[t])
  /\ read[t].lock.pack = read[t].pack
  /\ read[t].lock.version \in read[t].registry.usable

\* Mutant: every verification is published under its own key.
PublishBeside(t) ==
  /\ pc[t] = "PUBLISH"
  /\ session = "OPEN"
  /\ lockIdentity' = read[t]
  /\ contexts' = contexts \cup {read[t]}
  /\ Go(t, "RETURN")
  /\ UNCHANGED <<lockFiles, builds, session, allowed, leases, packIdentity, operation, read, returned>>

\* _publish_verified_lock_context: the key is a digest of everything that was
\* read; a second key for the project fails the session.
Publish(t) ==
  /\ pc[t] = "PUBLISH"
  /\ session = "OPEN"
  /\ lockIdentity \in {Nothing, read[t]}
  /\ lockIdentity' = read[t]
  /\ contexts' = contexts \cup {read[t]}
  /\ Go(t, "RETURN")
  /\ UNCHANGED <<lockFiles, builds, session, allowed, leases, packIdentity, operation, read, returned>>

\* The lease ends; a session that is not open any more raises instead (Fail).
ReturnContext(t) ==
  /\ pc[t] = "RETURN"
  /\ session = "OPEN"
  /\ leases' = leases - 1
  /\ returned' = [returned EXCEPT ![t] = read[t]]
  /\ read' = [read EXCEPT ![t] = NotRead]
  /\ Go(t, IF t = Main THEN "LOADED" ELSE "IDLE")
  /\ UNCHANGED <<lockFiles, builds, session, allowed, packIdentity, lockIdentity, contexts, operation>>

-----------------------------------------------------------------------------
(***************************************************************************)
(* registered_integration_operation.                                       *)
(***************************************************************************)

\* _load_project_registration_structure: the registration, the integration it
\* names, and the lock whose fingerprint it has, one after the other.
BootStep(from, to, b) ==
  /\ pc[Main] = from
  /\ boot' = b
  /\ Go(Main, to)
  /\ UNCHANGED <<lockFiles, builds, sessionVars, boots, yielded, read, returned>>

BootRegistration == BootStep("BOOT", "BOOT_INTEGRATION", [boot EXCEPT !.pin = pin])

BootIntegration ==
  BootStep("BOOT_INTEGRATION", "BOOT_LOCK", [boot EXCEPT !.integration = integration])

\* The first bootstrap opens the session for the lock's external capability, the
\* second precedes the verification, and the third follows it.
BootLock ==
  /\ pc[Main] = "BOOT_LOCK"
  /\ IsWhole(lockFile)
  /\ lockFile = boot.pin
  /\ boots' = Append(boots, boot)
  /\ boot' = NoBoot
  /\ Go(Main, <<"BOOT", "DECLARE", "YIELD">>[Len(boots) + 1])
  /\ IF boots = <<>>
       THEN session' = "OPEN" /\ allowed' = External(lockFile)
       ELSE UNCHANGED <<session, allowed>>
  /\ UNCHANGED <<lockFiles, builds, leases, packIdentity, lockIdentity, contexts, yielded, read,
                 returned>>

\* A bootstrap raises: without a session the operation is over.
BootFails ==
  /\ pc[Main] \in {"BOOT", "BOOT_INTEGRATION", "BOOT_LOCK"}
  /\ session' = IF Len(boots) = 1 THEN Poisoned ELSE session
  /\ Go(Main, IF session = "NONE" THEN "ENDED" ELSE "CLOSE")
  /\ UNCHANGED <<lockFiles, builds, allowed, leases, packIdentity, lockIdentity, contexts, operation,
                 read, returned>>

\* _load_project_registration_verified: the verified lock is the pinned one.
LoadVerified ==
  /\ pc[Main] = "LOADED"
  /\ IF returned[Main].lock = boots[2].pin
       THEN Go(Main, "BOOT") /\ UNCHANGED session
       ELSE Go(Main, "CLOSE") /\ session' = Poisoned
  /\ UNCHANGED <<lockFiles, builds, allowed, leases, packIdentity, lockIdentity, contexts, operation,
                 read, returned>>

\* Mutant: the bootstraps are not compared.
YieldUncompared ==
  /\ pc[Main] = "YIELD"
  /\ Go(Main, "BODY")
  /\ yielded' = returned[Main]
  /\ UNCHANGED <<lockFiles, builds, sessionVars, boot, boots, read, returned>>

\* _require_unchanged_bootstrap, and the body begins.
Yield ==
  /\ pc[Main] = "YIELD"
  /\ IF boots[1] = boots[2] /\ boots[2] = boots[3]
       THEN Go(Main, "BODY") /\ yielded' = returned[Main] /\ UNCHANGED session
       ELSE Go(Main, "CLOSE") /\ session' = Poisoned /\ UNCHANGED yielded
  /\ UNCHANGED <<lockFiles, builds, allowed, leases, packIdentity, lockIdentity, contexts, boot, boots,
                 read, returned>>

EndBody ==
  /\ pc[Main] = "BODY"
  /\ Go(Main, "CLOSE")
  /\ UNCHANGED <<lockFiles, builds, sessionVars, operation, read, returned>>

\* CapabilityVerificationSession.close: no new lease, then wait for the leases.
BeginClose ==
  /\ pc[Main] = "CLOSE"
  /\ session' = "CLOSING"
  /\ Go(Main, "DRAIN")
  /\ UNCHANGED <<lockFiles, builds, allowed, leases, packIdentity, lockIdentity, contexts, operation,
                 read, returned>>

\* Packs and their identities are forgotten, lock contexts are not.
EndClose ==
  /\ pc[Main] = "DRAIN"
  /\ leases = 0
  /\ session' = "CLOSED"
  /\ packIdentity' = Nothing
  /\ Go(Main, "ENDED")
  /\ UNCHANGED <<lockFiles, builds, allowed, leases, lockIdentity, contexts, operation, read, returned>>

-----------------------------------------------------------------------------
VerifyStep(t) ==
  \/ Declare(t) \/ AcquireLease(t) \/ ReadLock(t) \/ ReadBinding(t) \/ ReadInputs(t)
  \/ ReadRegistry(t) \/ ReadInputsAgain(t) \/ GetPacks(t) \/ Compare(t) \/ Publish(t)
  \/ ReturnContext(t) \/ Fail(t)

MainStep ==
  \/ BootRegistration \/ BootIntegration \/ BootLock \/ BootFails \/ LoadVerified \/ Yield
  \/ EndBody \/ BeginClose \/ EndClose

LockNext ==
  \/ Drift
  \/ \E p \in Builders :
       \/ BuildBinding(p) \/ BuildReasons(p) \/ BuildCatalog(p) \/ BuildPack(p)
       \/ BuildTruncate(p) \/ BuildWrite(p) \/ BuildDies(p)
  \/ MainStep
  \/ \E t \in Threads : CallVerify(t) \/ VerifyStep(t)

\* A thread in a call goes on; nobody has to build, and the files need not change.
LockFairness == WF_lockVars(MainStep) /\ \A t \in Threads : WF_lockVars(VerifyStep(t))

LockSpec == LockInit /\ [][LockNext]_lockVars /\ LockFairness

-----------------------------------------------------------------------------
(***************************************************************************)
(* Properties.                                                             *)
(***************************************************************************)

\* The type invariant, and the account of the leases: one for every thread that is
\* between the lease and its release.
LockTypeOK ==
  /\ lockFile \in Locks \cup {TornLock}
  /\ binding \in Bindings /\ registry \in Registries /\ pack \in Packs
  /\ pin \in Locks /\ integration \in Integrations
  /\ session \in {"NONE", "OPEN", "FAILED", "CLOSING", "CLOSED"}
  /\ leases = Cardinality({t \in Threads : pc[t] \in UnderLease})
  /\ packIdentity \in Packs \cup {Nothing}
  /\ \A c \in contexts : c.lock \in Locks /\ c.binding \in Bindings /\ c.registry \in Registries

\* Whatever builders wrote from reads of different moments, and however often the
\* files change during a verification, a lock that is accepted is one that a
\* build at a single moment would have written for the binding, the registry and
\* the pack of its context: nothing mixed or torn passes.
VerifiedLocksAreBuildable ==
  \A c \in contexts : \E version \in c.registry.usable :
    c.lock = LockOf(c.binding, [c.registry EXCEPT !.active = version], c.pack)

\* All verifications of one session that succeed are of the same lock, binding,
\* registry and pack, whichever thread made them.
OneLockPerSession ==
  \A t, u \in Threads : returned[t] # Nothing /\ returned[u] # Nothing => returned[t] = returned[u]

\* A verification uses the external pack only in a session that was opened for
\* it, though the lock that was declared and the lock that is verified are two
\* reads of the file.
OnlyAllowedPacks == packIdentity # Nothing => allowed

\* The body of a registered operation runs with the lock its registration pinned
\* before, during and after the verification, under the same integration, and
\* with a session opened for exactly that lock.
YieldedIsPinned ==
  yielded # Nothing =>
    /\ \A i \in 1..3 : boots[i].pin = yielded.lock /\ boots[i].integration = boots[1].integration
    /\ External(yielded.lock) = allowed

\* An operation that ends closes its session, failed verifications and workers
\* that are still verifying, or begin to, included.
OperationsEnd == (pc[Main] = "CLOSE") ~> (pc[Main] = "ENDED")

\* The invariant of the lock: what a verification accepts some build could have
\* written, a session has one lock, and asks for no pack it was not opened for.
LockInv ==
  LockTypeOK /\ VerifiedLocksAreBuildable /\ OneLockPerSession /\ OnlyAllowedPacks
=============================================================================
