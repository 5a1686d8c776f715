----------------------------- MODULE PackSession -----------------------------
(***************************************************************************)
(* One CapabilityVerificationSession, capability_pack_registry.py: threads *)
(* ask it for verified packs and read their files, one thread per pack     *)
(* runs the candidate gate in a checkout of its own while the others wait  *)
(* for it, a failure poisons the session, and close waits for everybody    *)
(* and removes the checkouts.  The session's mutex is held for one step at *)
(* a time; the work between two steps runs without it.                     *)
(*                                                                         *)
(* A registration stands for a line of the registry, a source for the Git  *)
(* worktree the line points to: what it has checked out, and whether it is *)
(* `clean', which stands for the answer to any one of the Git commands of  *)
(* _assert_pack_source_content (PackSource has them one by one).  Both     *)
(* change under the session's feet.  The toolchain binding is not followed *)
(* here: a witness that finds it changed fails like any other.             *)
(***************************************************************************)
EXTENDS FiniteSets, Naturals, Sequences

CONSTANTS
  Users,          \* threads that request packs and read them
  Closers,        \* threads that close the session
  Capabilities,   \* capability IDs the session allows
  Registrations,  \* what the registry may say of a capability
  Heads,          \* commits a source may have checked out
  Keys,           \* PackVerificationKeys
  KeyOf,          \* _pack_verification_key: the locator is not part of it
  CapabilityOf,   \* the capability of a key
  HeadOf,         \* the commit a registration pins
  MaxDrifts,      \* bound on the changes of the world
  NoKey,          \* no identity was seen in this slot
  NoPack,         \* no pack, or the request raised
  NoOne           \* no capability was asked for, no registration selected

Threads == Users \cup Closers
Packs == [key : Keys, registration : Registrations, owner : Users]

ASSUME SessionAssumption ==
  /\ KeyOf \in [Registrations -> Keys]
  /\ CapabilityOf \in [Keys -> Capabilities]
  /\ HeadOf \in [Registrations -> Heads]
  /\ MaxDrifts \in Nat
  /\ NoKey \notin Keys
  /\ NoPack \notin Packs
  /\ NoOne \notin Registrations \cup Capabilities
  /\ Users \cap Closers = {}
  /\ IsFiniteSet(Users)

VARIABLES
  session,     \* _state
  leases,      \* _active_use_lease_count
  flight,      \* state of the _PackFlight of each key, "NONE" before there is one
  error,       \* the flights that have an error
  value,       \* the pack of each flight
  listed,      \* the keys of _flights
  identity,    \* _identity_by_slot
  verified,    \* the packs in _verified
  cleanups,    \* _cleanups: the packs whose checkouts are retained
  checkouts,   \* the checkouts that are on disk
  stuck,       \* the checkouts whose removal failed
  gates,       \* full_candidate_gate_count of each key
  registered,  \* the world: what the registry says of each capability
  source,      \* the world: the worktree of each capability's pack
  drifts,      \* how often the world has changed
  pc,          \* where each thread is
  slot,        \* the capability a thread asks for
  selected,    \* the registration it selected
  purpose,     \* why it compares the witness of a pack
  got,         \* the pack it is about to return or is reading
  asleep,      \* the threads that wait for a condition and were not notified
  handles,     \* the packs that requests returned to each thread
  pending,     \* the checkouts a closer has yet to remove
  seen         \* what the world was since the thread's call began

trust == <<flight, error, value, listed, identity, verified>>
disk == <<cleanups, checkouts, stuck>>
world == <<registered, source, drifts>>
call == <<slot, selected, purpose>>
sessionVars == <<session, leases, trust, disk, gates, world, pc, call, got, asleep,
                 handles, pending, seen>>

-----------------------------------------------------------------------------
Sources == [head : Heads, clean : BOOLEAN]

RequestSteps == {"SELECT", "PREPARE", "JOIN", "WAIT", "CHECK_OUT", "GATE", "PUBLISH", "DISCARD",
                 "RAISE", "RETURN"}
WitnessSteps == {"WITNESS_REGISTRATION", "WITNESS_HEAD", "WITNESS_CLEAN"}
CloseSteps == {"DRAIN", "AWAIT_CLOSED", "CLEAN"}
Steps == {"IDLE", "READ", "RELEASE"} \cup RequestSteps \cup WitnessSteps \cup CloseSteps

(***************************************************************************)
(* The type invariant.                                                     *)
(***************************************************************************)
SessionTypeOK ==
  /\ session \in {"OPEN", "FAILED", "CLOSING", "CLOSED"}
  /\ leases \in Nat
  /\ flight \in [Keys -> {"NONE", "VERIFYING", "VERIFIED"}]
  /\ error \in SUBSET Keys
  /\ value \in [Keys -> Packs \cup {NoPack}]
  /\ listed \in SUBSET Keys
  /\ identity \in [Capabilities -> Keys \cup {NoKey}]
  /\ verified \in SUBSET Packs
  /\ cleanups \in Seq(Packs)
  /\ checkouts \in SUBSET Packs
  /\ stuck \in SUBSET Packs
  /\ gates \in [Keys -> Nat]
  /\ registered \in [Capabilities -> Registrations]
  /\ source \in [Capabilities -> Sources]
  /\ drifts \in 0..MaxDrifts
  /\ pc \in [Threads -> Steps]
  /\ slot \in [Threads -> Capabilities \cup {NoOne}]
  /\ selected \in [Threads -> Registrations \cup {NoOne}]
  /\ purpose \in [Threads -> {"NONE", "OWN", "REUSE", "READ", "REREAD"}]
  /\ got \in [Threads -> Packs \cup {NoPack}]
  /\ asleep \in SUBSET Threads
  /\ handles \in [Threads -> SUBSET Packs]
  /\ pending \in [Threads -> Seq(Packs)]
  /\ seen \in [Threads -> SUBSET (Registrations \cup Sources)]

SessionInit ==
  /\ session = "OPEN"
  /\ leases = 0
  /\ flight = [k \in Keys |-> "NONE"]
  /\ error = {}
  /\ value = [k \in Keys |-> NoPack]
  /\ listed = {}
  /\ identity = [c \in Capabilities |-> NoKey]
  /\ verified = {}
  /\ cleanups = <<>>
  /\ checkouts = {}
  /\ stuck = {}
  /\ gates = [k \in Keys |-> 0]
  /\ registered \in [Capabilities -> Registrations]
  /\ source = [c \in Capabilities |-> [head |-> HeadOf[registered[c]], clean |-> TRUE]]
  /\ \A c \in Capabilities : CapabilityOf[KeyOf[registered[c]]] = c
  /\ drifts = 0
  /\ pc = [t \in Threads |-> "IDLE"]
  /\ slot = [t \in Threads |-> NoOne]
  /\ selected = [t \in Threads |-> NoOne]
  /\ purpose = [t \in Threads |-> "NONE"]
  /\ got = [t \in Threads |-> NoPack]
  /\ asleep = {}
  /\ handles = [t \in Threads |-> {}]
  /\ pending = [t \in Threads |-> <<>>]
  /\ seen = [t \in Threads |-> {}]

-----------------------------------------------------------------------------
(***************************************************************************)
(* Helpers: the thread's own state, conditions, poison.                    *)
(***************************************************************************)
Key(t) == KeyOf[selected[t]]
Go(t, step) == pc' = [pc EXCEPT ![t] = step]
Take(t, p) == got' = [got EXCEPT ![t] = p]

WaitingFor(ks) == {t \in Threads : pc[t] = "WAIT" /\ Key(t) \in ks}
WaitingForDrain == {t \in Threads : pc[t] \in {"DRAIN", "AWAIT_CLOSED"}}

\* Mutant: the failure does not wake those who wait for the failed flights.
PoisonUnheard ==
  LET failing == {k \in listed : flight[k] = "VERIFYING"} IN
  /\ session' = IF session = "OPEN" THEN "FAILED" ELSE session
  /\ error' = error \cup failing
  /\ listed' = listed \ failing
  /\ UNCHANGED <<flight, value, identity, verified, asleep>>

\* _poison: an open session fails, and with it every flight that has not landed.
Poison ==
  LET failing == {k \in listed : flight[k] = "VERIFYING"} IN
  /\ session' = IF session = "OPEN" THEN "FAILED" ELSE session
  /\ error' = error \cup failing
  /\ listed' = listed \ failing
  /\ asleep' = asleep \ WaitingFor(failing)
  /\ UNCHANGED <<flight, value, identity, verified>>

\* What the thread's call could have seen of the world from its first step on.
StartSeeing(t, c) == seen' = [seen EXCEPT ![t] = {registered[c], source[c]}]

-----------------------------------------------------------------------------
(***************************************************************************)
(* A request: _get_verified_capability_pack.                               *)
(***************************************************************************)

\* _operation_lease, entry.  A session that is not open refuses.
AcquireLease(t, c) ==
  /\ pc[t] = "IDLE"
  /\ session = "OPEN"
  /\ leases' = leases + 1
  /\ slot' = [slot EXCEPT ![t] = c]
  /\ StartSeeing(t, c)
  /\ Go(t, "SELECT")
  /\ UNCHANGED <<session, trust, disk, gates, world, selected, purpose, got, asleep, handles, pending>>

\* _selected_registration reads the registry.
SelectRegistration(t) ==
  /\ pc[t] = "SELECT"
  /\ selected' = [selected EXCEPT ![t] = registered[slot[t]]]
  /\ Go(t, "PREPARE")
  /\ UNCHANGED <<session, leases, trust, disk, gates, world, slot, purpose, got, asleep, handles,
                 pending, seen>>

\* _prepare_pack_snapshot: the source must have the pinned commit checked out.
PrepareSnapshot(t) ==
  /\ pc[t] = "PREPARE"
  /\ source[slot[t]].head = HeadOf[selected[t]]
  /\ Go(t, "JOIN")
  /\ UNCHANGED <<session, leases, trust, disk, gates, world, call, got, asleep, handles, pending, seen>>

\* The registry cannot be read, has no or several active lines for the
\* capability, the source is not at the commit, or a command fails.
RequestFails(t) ==
  /\ pc[t] \in {"SELECT", "PREPARE", "CHECK_OUT"}
  /\ Go(t, "RAISE")
  /\ UNCHANGED <<session, leases, trust, disk, gates, world, call, got, asleep, handles, pending, seen>>

\* The exception leaves the request and the lease: _poison.
Raise(t) ==
  /\ pc[t] = "RAISE"
  /\ Poison
  /\ Take(t, NoPack)
  /\ Go(t, "RELEASE")
  /\ UNCHANGED <<leases, disk, gates, world, call, handles, pending, seen>>

JoinRefused(t) ==
  /\ pc[t] = "JOIN"
  /\ session # "OPEN"
  /\ Go(t, "RAISE")
  /\ UNCHANGED <<session, leases, trust, disk, gates, world, call, got, asleep, handles, pending, seen>>

\* Another identity was seen in this slot: poison, under the mutex.
JoinOtherIdentity(t) ==
  /\ pc[t] = "JOIN"
  /\ session = "OPEN"
  /\ identity[slot[t]] \notin {NoKey, Key(t)}
  /\ Poison
  /\ Go(t, "RAISE")
  /\ UNCHANGED <<leases, disk, gates, world, call, got, handles, pending, seen>>

\* Mutant: whatever identity the slot has.
JoinsAnyIdentity(t) ==
  /\ pc[t] = "JOIN"
  /\ session = "OPEN"
  /\ identity' = [identity EXCEPT ![slot[t]] = Key(t)]

\* The slot is free for this key or already has it.
Joins(t) ==
  /\ pc[t] = "JOIN"
  /\ session = "OPEN"
  /\ identity[slot[t]] \in {NoKey, Key(t)}
  /\ identity' = [identity EXCEPT ![slot[t]] = Key(t)]

\* Mutant: the first one in does not list its flight before it leaves the mutex.
JoinAsOwnerUnlisted(t) ==
  /\ Joins(t)
  /\ Key(t) \notin listed
  /\ flight' = [flight EXCEPT ![Key(t)] = "VERIFYING"]
  /\ purpose' = [purpose EXCEPT ![t] = "OWN"]
  /\ Go(t, "CHECK_OUT")
  /\ UNCHANGED <<session, leases, error, value, listed, verified, disk, gates, world, slot, selected,
                 got, asleep, handles, pending, seen>>

\* The first one in owns the flight.
JoinAsOwner(t) ==
  /\ Joins(t)
  /\ Key(t) \notin listed
  /\ listed' = listed \cup {Key(t)}
  /\ flight' = [flight EXCEPT ![Key(t)] = "VERIFYING"]
  /\ purpose' = [purpose EXCEPT ![t] = "OWN"]
  /\ Go(t, "CHECK_OUT")
  /\ UNCHANGED <<session, leases, error, value, verified, disk, gates, world, slot, selected, got,
                 asleep, handles, pending, seen>>

JoinAsWaiter(t) ==
  /\ Joins(t)
  /\ Key(t) \in listed
  /\ flight[Key(t)] = "VERIFYING"
  /\ asleep' = asleep \cup {t}
  /\ Go(t, "WAIT")
  /\ UNCHANGED <<session, leases, flight, error, value, listed, verified, disk, gates, world, call,
                 got, handles, pending, seen>>

\* The flight has landed: its pack is taken and compared with the world.
TakeValue(t) ==
  /\ flight[Key(t)] = "VERIFIED"
  /\ Take(t, value[Key(t)])
  /\ purpose' = [purpose EXCEPT ![t] = "REUSE"]
  /\ Go(t, "WITNESS_REGISTRATION")

\* Mutant: a repeated request does not compare the witness again.
JoinVerifiedUnwitnessed(t) ==
  /\ Joins(t)
  /\ flight[Key(t)] = "VERIFIED"
  /\ Take(t, value[Key(t)])
  /\ Go(t, "RETURN")
  /\ UNCHANGED <<session, leases, flight, error, value, listed, verified, disk, gates, world, call,
                 asleep, handles, pending, seen>>

JoinVerified(t) ==
  /\ Joins(t)
  /\ Key(t) \in listed
  /\ TakeValue(t)
  /\ UNCHANGED <<session, leases, flight, error, value, listed, verified, disk, gates, world, slot,
                 selected, asleep, handles, pending, seen>>

\* A notified waiter: the flight has landed or the session is not open any more.
WakeToVerified(t) ==
  /\ pc[t] = "WAIT"
  /\ t \notin asleep
  /\ Key(t) \notin error
  /\ TakeValue(t)
  /\ UNCHANGED <<session, leases, trust, disk, gates, world, slot, selected, asleep, handles,
                 pending, seen>>

WakeToError(t) ==
  /\ pc[t] = "WAIT"
  /\ t \notin asleep
  /\ Key(t) \in error \/ flight[Key(t)] # "VERIFIED"
  /\ Go(t, "RAISE")
  /\ UNCHANGED <<session, leases, trust, disk, gates, world, call, got, asleep, handles, pending, seen>>

-----------------------------------------------------------------------------
(***************************************************************************)
(* The owner: _materialize_verified_capability_pack and publication.       *)
(***************************************************************************)
Mine(t) == [key |-> Key(t), registration |-> selected[t], owner |-> t]

\* _assert_pack_source_content, the toolchain, _isolated_fixed_checkout.
CheckOut(t) ==
  /\ pc[t] = "CHECK_OUT"
  /\ source[slot[t]].clean
  /\ checkouts' = checkouts \cup {Mine(t)}
  /\ Take(t, Mine(t))
  /\ Go(t, "GATE")
  /\ UNCHANGED <<session, leases, trust, cleanups, stuck, gates, world, call, asleep, handles,
                 pending, seen>>

\* _run_candidate_gate is counted before it starts and ends within its timeout.
GatePasses(t) ==
  /\ pc[t] = "GATE"
  /\ gates' = [gates EXCEPT ![Key(t)] = @ + 1]
  /\ Go(t, "WITNESS_REGISTRATION")
  /\ UNCHANGED <<session, leases, trust, disk, world, call, got, asleep, handles, pending, seen>>

\* A temporary directory is removed, or its removal fails and it stays.
Remove(p) ==
  \/ checkouts' = checkouts \ {p} /\ UNCHANGED stuck
  \/ stuck' = stuck \cup {p} /\ UNCHANGED checkouts

\* The gate fails, runs out of time or changes what it was given.
GateFails(t) ==
  /\ pc[t] = "GATE"
  /\ gates' = [gates EXCEPT ![Key(t)] = @ + 1]
  /\ Remove(got[t])
  /\ Go(t, "RAISE")
  /\ UNCHANGED <<session, leases, trust, cleanups, world, call, got, asleep, handles, pending, seen>>

\* Mutant: a session that failed meanwhile gets the pack all the same.
PublishAnyway(t) ==
  /\ pc[t] = "PUBLISH"
  /\ cleanups' = Append(cleanups, got[t])
  /\ verified' = verified \cup {got[t]}
  /\ value' = [value EXCEPT ![Key(t)] = got[t]]
  /\ flight' = [flight EXCEPT ![Key(t)] = "VERIFIED"]
  /\ asleep' = asleep \ WaitingFor({Key(t)})
  /\ Go(t, "RETURN")
  /\ UNCHANGED <<session, leases, error, listed, identity, checkouts, stuck, gates, world, call, got,
                 handles, pending, seen>>

Publish(t) ==
  /\ pc[t] = "PUBLISH"
  /\ session = "OPEN"
  /\ cleanups' = Append(cleanups, got[t])
  /\ verified' = verified \cup {got[t]}
  /\ value' = [value EXCEPT ![Key(t)] = got[t]]
  /\ flight' = [flight EXCEPT ![Key(t)] = "VERIFIED"]
  /\ asleep' = asleep \ WaitingFor({Key(t)})
  /\ Go(t, "RETURN")
  /\ UNCHANGED <<session, leases, error, listed, identity, checkouts, stuck, gates, world, call, got,
                 handles, pending, seen>>

PublishRefused(t) ==
  /\ pc[t] = "PUBLISH"
  /\ session # "OPEN"
  /\ error' = error \cup {Key(t)}
  /\ asleep' = asleep \ WaitingFor({Key(t)})
  /\ Go(t, "DISCARD")
  /\ UNCHANGED <<session, leases, flight, value, listed, identity, verified, disk, gates, world,
                 call, got, handles, pending, seen>>

\* Mutant: the refused pack's checkout is forgotten.
DiscardForgotten(t) ==
  /\ pc[t] = "DISCARD"
  /\ Go(t, "RAISE")
  /\ UNCHANGED <<session, leases, trust, disk, gates, world, call, got, asleep, handles, pending, seen>>

\* The checkout of a pack that was not published is removed at once.
Discard(t) ==
  /\ pc[t] = "DISCARD"
  /\ Remove(got[t])
  /\ Go(t, "RAISE")
  /\ UNCHANGED <<session, leases, trust, cleanups, gates, world, call, got, asleep, handles, pending, seen>>

-----------------------------------------------------------------------------
(***************************************************************************)
(* The witness: _recheck_verified_pack_witness reads the registry first,   *)
(* then the HEAD of the source and then its worktree, by commands of their *)
(* own; HEAD is not read again afterwards.                                 *)
(***************************************************************************)
AfterWitness == [OWN |-> "PUBLISH", REUSE |-> "RETURN", READ |-> "READ", REREAD |-> "RELEASE"]

WitnessRegistration(t) ==
  /\ pc[t] = "WITNESS_REGISTRATION"
  /\ registered[slot[t]] = got[t].registration
  /\ Go(t, "WITNESS_HEAD")
  /\ UNCHANGED <<session, leases, trust, disk, gates, world, call, got, asleep, handles, pending, seen>>

WitnessHead(t) ==
  /\ pc[t] = "WITNESS_HEAD"
  /\ source[slot[t]].head = HeadOf[got[t].registration]
  /\ Go(t, "WITNESS_CLEAN")
  /\ UNCHANGED <<session, leases, trust, disk, gates, world, call, got, asleep, handles, pending, seen>>

\* Mutant: the worktree is taken to be what it was when the pack was made.
WitnessCleanSkipped(t) ==
  /\ pc[t] = "WITNESS_CLEAN"
  /\ Go(t, AfterWitness[purpose[t]])
  /\ UNCHANGED <<session, leases, trust, disk, gates, world, call, got, asleep, handles, pending, seen>>

WitnessClean(t) ==
  /\ pc[t] = "WITNESS_CLEAN"
  /\ source[slot[t]].clean
  /\ Go(t, AfterWitness[purpose[t]])
  /\ UNCHANGED <<session, leases, trust, disk, gates, world, call, got, asleep, handles, pending, seen>>

\* The owner's witness differs or cannot be read: its checkout goes.
OwnWitnessFails(t) ==
  /\ pc[t] \in WitnessSteps
  /\ purpose[t] = "OWN"
  /\ Remove(got[t])
  /\ Go(t, "RAISE")
  /\ UNCHANGED <<session, leases, trust, cleanups, gates, world, call, got, asleep, handles, pending, seen>>

\* Mutant: the pack that failed its witness is removed from disk at once.
WitnessFailsRemoving(t) ==
  /\ pc[t] \in WitnessSteps
  /\ purpose[t] # "OWN"
  /\ Poison
  /\ Remove(got[t])
  /\ Go(t, IF purpose[t] = "REUSE" THEN "RAISE" ELSE "RELEASE")
  /\ Take(t, NoPack)
  /\ UNCHANGED <<leases, cleanups, gates, world, call, handles, pending, seen>>

\* _recheck_pack_under_lease: a witness that fails poisons the session.
WitnessFails(t) ==
  /\ pc[t] \in WitnessSteps
  /\ purpose[t] # "OWN"
  /\ Poison
  /\ Go(t, IF purpose[t] = "REUSE" THEN "RAISE" ELSE "RELEASE")
  /\ Take(t, NoPack)
  /\ UNCHANGED <<leases, disk, gates, world, call, handles, pending, seen>>

-----------------------------------------------------------------------------
(***************************************************************************)
(* Reading a pack: _read_verified_blob, under a _verified_lease.           *)
(***************************************************************************)

\* Mutant: a read is not counted as a use of the session.
BeginReadUncounted(t, p) ==
  /\ pc[t] = "IDLE"
  /\ p \in handles[t]
  /\ session = "OPEN"
  /\ p \in verified
  /\ slot' = [slot EXCEPT ![t] = CapabilityOf[p.key]]
  /\ purpose' = [purpose EXCEPT ![t] = "READ"]
  /\ StartSeeing(t, CapabilityOf[p.key])
  /\ Take(t, p)
  /\ Go(t, "WITNESS_REGISTRATION")
  /\ UNCHANGED <<session, leases, trust, disk, gates, world, selected, asleep, handles, pending>>

BeginRead(t, p) ==
  /\ pc[t] = "IDLE"
  /\ p \in handles[t]
  /\ session = "OPEN"
  /\ p \in verified
  /\ leases' = leases + 1
  /\ slot' = [slot EXCEPT ![t] = CapabilityOf[p.key]]
  /\ purpose' = [purpose EXCEPT ![t] = "READ"]
  /\ StartSeeing(t, CapabilityOf[p.key])
  /\ Take(t, p)
  /\ Go(t, "WITNESS_REGISTRATION")
  /\ UNCHANGED <<session, trust, disk, gates, world, selected, asleep, handles, pending>>

\* _blob reads the retained checkout; the witness is compared once more.
ReadBlob(t) ==
  /\ pc[t] = "READ"
  /\ purpose' = [purpose EXCEPT ![t] = "REREAD"]
  /\ Go(t, "WITNESS_REGISTRATION")
  /\ UNCHANGED <<session, leases, trust, disk, gates, world, slot, selected, got, asleep, handles,
                 pending, seen>>

\* A path that is not selected, or a Git command that fails, poisons nothing.
ReadFails(t) ==
  /\ pc[t] = "READ"
  /\ Take(t, NoPack)
  /\ Go(t, "RELEASE")
  /\ UNCHANGED <<session, leases, trust, disk, gates, world, call, asleep, handles, pending, seen>>

-----------------------------------------------------------------------------
(***************************************************************************)
(* The end of a call.                                                      *)
(***************************************************************************)

\* _operation_lease, normal exit: a session that is not open raises.
Return(t) ==
  /\ pc[t] = "RETURN"
  /\ Take(t, IF session = "OPEN" THEN got[t] ELSE NoPack)
  /\ Go(t, "RELEASE")
  /\ UNCHANGED <<session, leases, trust, disk, gates, world, call, asleep, handles, pending, seen>>

\* The call is over for the thread; a pack it got is its to read.
Forget(t) ==
  /\ handles' = [handles EXCEPT ![t] = IF got[t] = NoPack THEN @ ELSE @ \cup {got[t]}]
  /\ Take(t, NoPack)
  /\ slot' = [slot EXCEPT ![t] = NoOne]
  /\ selected' = [selected EXCEPT ![t] = NoOne]
  /\ purpose' = [purpose EXCEPT ![t] = "NONE"]
  /\ seen' = [seen EXCEPT ![t] = {}]
  /\ Go(t, "IDLE")

Release(t) ==
  /\ pc[t] = "RELEASE"
  /\ leases' = leases - 1
  /\ asleep' = IF leases' = 0 THEN asleep \ WaitingForDrain ELSE asleep
  /\ Forget(t)
  /\ UNCHANGED <<session, trust, disk, gates, world, pending>>

-----------------------------------------------------------------------------
(***************************************************************************)
(* close.                                                                  *)
(***************************************************************************)

\* The leases are drained: the closer takes the cleanups, last one first, and
\* everything that was trusted is forgotten.
TakeCleanups(t) ==
  /\ pending' = [pending EXCEPT ![t] = [i \in 1..Len(cleanups) |-> cleanups[Len(cleanups) + 1 - i]]]
  /\ cleanups' = <<>>
  /\ verified' = {}
  /\ listed' = {}
  /\ identity' = [c \in Capabilities |-> NoKey]
  /\ Go(t, "CLEAN")

BeginClose(t) ==
  /\ pc[t] = "IDLE"
  /\ session \in {"OPEN", "FAILED"}
  /\ session' = "CLOSING"
  /\ \/ /\ leases = 0
        /\ TakeCleanups(t)
        /\ asleep' = asleep \ WaitingFor(listed)
     \/ /\ leases > 0
        /\ Go(t, "DRAIN")
        /\ asleep' = (asleep \ WaitingFor(listed)) \cup {t}
        /\ UNCHANGED <<cleanups, verified, listed, identity, pending>>
  /\ UNCHANGED <<leases, flight, error, value, checkouts, stuck, gates, world, call, got, handles, seen>>

Drained(t) ==
  /\ pc[t] = "DRAIN"
  /\ t \notin asleep
  /\ leases = 0
  /\ TakeCleanups(t)
  /\ UNCHANGED <<session, leases, flight, error, value, checkouts, stuck, gates, world, call, got,
                 asleep, handles, seen>>

\* Another thread is closing: wait for it on the same condition.
JoinClose(t) ==
  /\ pc[t] = "IDLE"
  /\ session = "CLOSING"
  /\ asleep' = asleep \cup {t}
  /\ Go(t, "AWAIT_CLOSED")
  /\ UNCHANGED <<session, leases, trust, disk, gates, world, call, got, handles, pending, seen>>

\* The waiting closer was notified: back to sleep unless the session is closed.
WakeCloser(t) ==
  /\ pc[t] = "AWAIT_CLOSED"
  /\ t \notin asleep
  /\ \/ /\ session = "CLOSED"
        /\ Go(t, "IDLE")
        /\ UNCHANGED asleep
     \/ /\ session # "CLOSED"
        /\ asleep' = asleep \cup {t}
        /\ UNCHANGED pc
  /\ UNCHANGED <<session, leases, trust, disk, gates, world, call, got, handles, pending, seen>>

\* Every cleanup is tried, whether or not an earlier one failed.
CleanUpOne(t) ==
  /\ pc[t] = "CLEAN"
  /\ pending[t] # <<>>
  /\ Remove(Head(pending[t]))
  /\ pending' = [pending EXCEPT ![t] = Tail(@)]
  /\ UNCHANGED <<session, leases, trust, cleanups, gates, world, pc, call, got, asleep, handles, seen>>

EndClose(t) ==
  /\ pc[t] = "CLEAN"
  /\ pending[t] = <<>>
  /\ session' = "CLOSED"
  /\ asleep' = asleep \ WaitingForDrain
  /\ Go(t, "IDLE")
  /\ UNCHANGED <<leases, trust, disk, gates, world, call, got, handles, pending, seen>>

-----------------------------------------------------------------------------
(***************************************************************************)
(* The world changes: a line of the registry, a worktree.                  *)
(***************************************************************************)
Watching(c) == {t \in Threads : slot[t] = c}

SeeAlso(c, what) == seen' = [t \in Threads |-> IF t \in Watching(c) THEN seen[t] \cup {what} ELSE seen[t]]

Reregister(c, r) ==
  /\ drifts < MaxDrifts
  /\ CapabilityOf[KeyOf[r]] = c
  /\ r # registered[c]
  /\ registered' = [registered EXCEPT ![c] = r]
  /\ drifts' = drifts + 1
  /\ SeeAlso(c, r)
  /\ UNCHANGED <<session, leases, trust, disk, gates, source, pc, call, got, asleep, handles, pending>>

ChangeSource(c, s) ==
  /\ drifts < MaxDrifts
  /\ s # source[c]
  /\ source' = [source EXCEPT ![c] = s]
  /\ drifts' = drifts + 1
  /\ SeeAlso(c, s)
  /\ UNCHANGED <<session, leases, trust, disk, gates, registered, pc, call, got, asleep, handles, pending>>

-----------------------------------------------------------------------------
UserStep(t) ==
  \/ SelectRegistration(t) \/ PrepareSnapshot(t) \/ RequestFails(t) \/ Raise(t)
  \/ JoinRefused(t) \/ JoinOtherIdentity(t) \/ JoinAsOwner(t) \/ JoinAsWaiter(t) \/ JoinVerified(t)
  \/ WakeToVerified(t) \/ WakeToError(t)
  \/ CheckOut(t) \/ GatePasses(t) \/ GateFails(t) \/ Publish(t) \/ PublishRefused(t) \/ Discard(t)
  \/ WitnessRegistration(t) \/ WitnessHead(t) \/ WitnessClean(t) \/ OwnWitnessFails(t)
  \/ WitnessFails(t)
  \/ ReadBlob(t) \/ ReadFails(t) \/ Return(t) \/ Release(t)

CloserStep(t) == Drained(t) \/ WakeCloser(t) \/ CleanUpOne(t) \/ EndClose(t)

SessionNext ==
  \/ \E t \in Users :
       \/ UserStep(t)
       \/ \E c \in Capabilities : AcquireLease(t, c)
       \/ \E p \in Packs : BeginRead(t, p)
  \/ \E t \in Closers : CloserStep(t) \/ BeginClose(t) \/ JoinClose(t)
  \/ \E c \in Capabilities :
       \/ \E r \in Registrations : Reregister(c, r)
       \/ \E s \in Sources : ChangeSource(c, s)

\* A thread that is in a call goes on: every command it runs has a timeout.
\* Nobody has to call, and the world need not change.
SessionFairness ==
  /\ \A t \in Users : WF_sessionVars(UserStep(t))
  /\ \A t \in Closers : WF_sessionVars(CloserStep(t))

SessionSpec == SessionInit /\ [][SessionNext]_sessionVars /\ SessionFairness

-----------------------------------------------------------------------------
(***************************************************************************)
(* Properties.                                                             *)
(***************************************************************************)

\* However many threads ask for a pack, in whatever order, its candidate gate
\* runs at most once in a session: _flights hands the work to one owner.
OneGatePerKey == \A k \in Keys : gates[k] <= 1

\* A thread that reads a pack finds its checkout on disk: close waits for the
\* leases before it removes anything.
ReadersKeepCheckout == \A t \in Users : pc[t] = "READ" => got[t] \in checkouts

\* A closed session has no use under way and leaves no checkout behind but those
\* whose removal was tried and failed, also when it failed or was closed while
\* gates were running.
ClosedLeavesNothing == session = "CLOSED" => leases = 0 /\ checkouts \subseteq stuck

\* Two packs that the session returned for one capability have the same
\* identity: a second identity poisons the session instead.
OneIdentityPerCapability ==
  \A t, u \in Users : \A p \in handles[t], q \in handles[u] :
    CapabilityOf[p.key] = CapabilityOf[q.key] => p = q

\* A call that answers with a pack, or with bytes read from it, does so from
\* facts of its own time: since it began there was a moment at which the
\* registration was the pack's, one at which the source had the pinned commit
\* checked out, and one at which the source was clean.  A verification from
\* before is never returned on trust.  The three moments may differ: a source
\* that is at the commit but dirty, and then clean at another one, passes.
AnswersAreFresh ==
  \A t \in Users :
    pc[t] = "RELEASE" /\ got[t] # NoPack =>
      /\ got[t].registration \in seen[t]
      /\ \E s \in Sources \cap seen[t] : s.head = HeadOf[got[t].registration]
      /\ \E s \in Sources \cap seen[t] : s.clean

\* A session that failed or is closing never publishes another pack, however far
\* its verification had come.
NothingPublishedLate == [][session # "OPEN" => verified' \subseteq verified]_sessionVars

\* Every request, read and close comes to an end: no waiter misses the answer of
\* an owner that passes, fails or finds the session poisoned or closing.
CallsEnd == \A t \in Threads : (pc[t] # "IDLE") ~> (pc[t] = "IDLE")

\* The invariant of the session: its types, one gate and one identity per key and
\* capability, checkouts that outlive their readers, and none after the close.
SessionInv ==
  /\ SessionTypeOK
  /\ OneGatePerKey /\ OneIdentityPerCapability
  /\ ReadersKeepCheckout /\ ClosedLeavesNothing
=============================================================================
