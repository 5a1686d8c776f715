---------------------------- MODULE SessionProofs ----------------------------
(***************************************************************************)
(* Theorems about the verification session, for any finite set of users,   *)
(* any closers, capabilities, registrations and number of drifts.          *)
(***************************************************************************)
EXTENDS PackSession, FiniteSetTheorems, TLAPS

-----------------------------------------------------------------------------
(***************************************************************************)
(* The inductive invariant.                                                *)
(***************************************************************************)

OwnSteps == {"CHECK_OUT", "GATE", "PUBLISH", "DISCARD"}
UserSteps == {"IDLE", "READ", "RELEASE"} \cup RequestSteps \cup WitnessSteps
CloserSteps == {"IDLE"} \cup CloseSteps

\* The owner of a flight, from the join to the publication or the failure.
Owner(t) == pc[t] \in OwnSteps \/ (pc[t] \in WitnessSteps /\ purpose[t] = "OWN")

\* A thread that holds a checkout of its own that is not published.
Holds(t) == Owner(t) /\ pc[t] # "CHECK_OUT"

\* A pack that the session published once.
Landed(p) == p \in Packs /\ flight[p.key] = "VERIFIED" /\ value[p.key] = p

\* A thread whose pack was published.
Answered(t) ==
  \/ pc[t] \in {"RETURN", "READ"}
  \/ pc[t] \in WitnessSteps /\ purpose[t] # "OWN"
  \/ pc[t] = "RELEASE" /\ got[t] # NoPack

\* Who is where, and what each thread has chosen.
RolesInv ==
  /\ \A t \in Users : pc[t] \in UserSteps
  /\ \A t \in Closers : pc[t] \in CloserSteps
  /\ \A c \in Capabilities : CapabilityOf[KeyOf[registered[c]]] = c
  /\ \A t \in Users :
       /\ pc[t] # "IDLE" => slot[t] \in Capabilities
       /\ pc[t] \in {"PREPARE", "JOIN", "WAIT"} \/ Owner(t) =>
            selected[t] \in Registrations /\ CapabilityOf[Key(t)] = slot[t]
       /\ pc[t] \in OwnSteps => purpose[t] = "OWN"
       /\ pc[t] \in WitnessSteps => purpose[t] # "NONE"
       /\ pc[t] = "READ" => purpose[t] = "READ"

\* A lease for every thread in a call.
InCall == {t \in Users : pc[t] # "IDLE"}
LeasesInv == leases = Cardinality(InCall)

\* While the session is open, a key that is not listed is untouched.  A flight has
\* one owner, whose gate has not run before it; it lands with a pack of its
\* key, and under the one identity of its capability.
FlightInv ==
  /\ session = "OPEN" => \A k \in Keys \ listed :
       gates[k] = 0 /\ flight[k] = "NONE" /\ \A t \in Users : Owner(t) => Key(t) # k
  /\ \A t \in Users : Owner(t) =>
       /\ flight[Key(t)] = "VERIFYING"
       /\ session = "OPEN" => identity[slot[t]] = Key(t)
       /\ pc[t] \in {"CHECK_OUT", "GATE"} => gates[Key(t)] = 0
  /\ \A t, u \in Users : Owner(t) /\ Owner(u) /\ Key(t) = Key(u) => t = u
  /\ \A k \in Keys : flight[k] = "VERIFIED" =>
       /\ value[k] \in Packs /\ value[k].key = k
       /\ session = "OPEN" => identity[CapabilityOf[k]] = k
  /\ \A k, m \in Keys :
       flight[k] = "VERIFIED" /\ flight[m] = "VERIFIED" /\ CapabilityOf[k] = CapabilityOf[m] => k = m

\* What each thread has got.
GotInv ==
  \A t \in Users :
    /\ Holds(t) => got[t] = Mine(t)
    /\ Answered(t) => Landed(got[t])
    /\ \A p \in handles[t] : Landed(p)

\* One closer at a time drains and cleans; when it cleans, nobody is in a call
\* and none is to come.
Draining(c) == pc[c] \in {"DRAIN", "CLEAN"}
Cleaned == session = "CLOSED" \/ \E c \in Closers : pc[c] = "CLEAN"

ClosersInv ==
  /\ \A c, d \in Closers : Draining(c) /\ Draining(d) => c = d
  /\ \A c \in Closers : Draining(c) => session = "CLOSING"
  /\ \A c \in Closers : pending[c] # <<>> => pc[c] = "CLEAN"
  /\ Cleaned => leases = 0 /\ cleanups = <<>>

\* A checkout that is there, and whose removal did not fail, is held by its owner or
\* will be removed by a closer; and what was published is there until then.
Retained(p) ==
  \/ \E t \in Users : Holds(t) /\ got[t] = p
  \/ \E i \in 1..Len(cleanups) : cleanups[i] = p
  \/ \E c \in Closers : \E i \in 1..Len(pending[c]) : pending[c][i] = p

CheckoutsRetained == \A p \in checkouts \ stuck : Retained(p)

PublishedStays ==
  /\ \A t \in Users : Holds(t) => got[t] \in checkouts
  /\ ~Cleaned => \A k \in Keys : flight[k] = "VERIFIED" => value[k] \in checkouts

\* What a thread has compared it has seen since its call began.
SeenHead(t) == \E s \in Sources \cap seen[t] : s.head = HeadOf[got[t].registration]
SeenClean(t) == \E s \in Sources \cap seen[t] : s.clean

SeenInv ==
  \A t \in Users :
    /\ pc[t] # "IDLE" => registered[slot[t]] \in seen[t] /\ source[slot[t]] \in seen[t]
    /\ pc[t] \in {"WITNESS_HEAD", "WITNESS_CLEAN"} => got[t].registration \in seen[t]
    /\ pc[t] = "WITNESS_CLEAN" => SeenHead(t)
    /\ pc[t] \in {"PUBLISH", "RETURN", "READ"} \/ (pc[t] = "RELEASE" /\ got[t] # NoPack) =>
         got[t].registration \in seen[t] /\ SeenHead(t) /\ SeenClean(t)

VerificationInv ==
  /\ SessionTypeOK
  /\ RolesInv
  /\ LeasesInv
  /\ FlightInv
  /\ GotInv
  /\ ClosersInv
  /\ CheckoutsRetained
  /\ PublishedStays
  /\ SeenInv
  /\ OneGatePerKey

-----------------------------------------------------------------------------
(***************************************************************************)
(* Facts that the steps rest on.                                           *)
(***************************************************************************)

LEMMA StepsAreSteps ==
  /\ UserSteps \cup CloserSteps \subseteq Steps
  /\ {"IDLE", "SELECT", "PREPARE", "JOIN", "WAIT", "CHECK_OUT", "GATE", "PUBLISH", "DISCARD", "RAISE",
      "RETURN", "RELEASE", "READ", "WITNESS_REGISTRATION", "WITNESS_HEAD", "WITNESS_CLEAN", "DRAIN",
      "AWAIT_CLOSED", "CLEAN"} \subseteq Steps
  BY DEF UserSteps, CloserSteps, Steps, RequestSteps, WitnessSteps, CloseSteps

\* A thread that has joined knows its key, and what it may own is a pack.
LEMMA OwnersKnowTheirPack ==
  ASSUME SessionTypeOK, RolesInv, GotInv, NEW t \in Users
  PROVE  /\ pc[t] \in {"PREPARE", "JOIN", "WAIT"} \/ Owner(t) => Key(t) \in Keys /\ Mine(t) \in Packs
         /\ Holds(t) => got[t] \in Packs
<1>1. ASSUME pc[t] \in {"PREPARE", "JOIN", "WAIT"} \/ Owner(t)
      PROVE  Key(t) \in Keys /\ Mine(t) \in Packs
  <2>1. Key(t) \in Keys /\ selected[t] \in Registrations
    BY <1>1, SessionAssumption DEF RolesInv, Key
  <2> QED
    BY <2>1 DEF Mine, Packs
<1>2. ASSUME Holds(t)
      PROVE  got[t] \in Packs
  BY <1>1, <1>2 DEF GotInv, Holds
<1> QED
  BY <1>1, <1>2

\* A thread in a call is counted, so nobody cleans while it is there.
LEMMA CallersHoldALease ==
  ASSUME SessionTypeOK, LeasesInv, ClosersInv, NEW t \in Users, pc[t] # "IDLE"
  PROVE  leases - 1 \in Nat /\ ~Cleaned
<1>1. IsFiniteSet(InCall) /\ t \in InCall
  BY SessionAssumption, FS_Subset DEF InCall
<1>2. Cardinality(InCall) # 0
  BY <1>1, FS_EmptySet
<1> QED
  BY <1>2 DEF LeasesInv, ClosersInv, SessionTypeOK

\* The cleanups in reverse order.
LEMMA ReversedCleanups ==
  ASSUME NEW s \in Seq(Packs)
  PROVE  [i \in 1..Len(s) |-> s[Len(s) + 1 - i]] \in Seq(Packs)
<1>1. \A i \in 1..Len(s) : s[Len(s) + 1 - i] \in Packs
  <2>1. \A i \in 1..Len(s) : Len(s) + 1 - i \in 1..Len(s)
    OBVIOUS
  <2> QED
    BY <2>1
<1>2. [i \in 1..Len(s) |-> s[Len(s) + 1 - i]] \in [1..Len(s) -> Packs]
  BY <1>1
<1> QED
  BY <1>2

\* Once the session is not open, the flights stay as they are while nobody moves.
LEMMA FlightsRest ==
  ASSUME FlightInv, session' # "OPEN", UNCHANGED <<flight, value, gates, slot, selected, purpose>>,
         \A u \in Users : pc'[u] = pc[u]
  PROVE  FlightInv'
<1>1. \A u \in Users : (Owner(u)' <=> Owner(u)) /\ Key(u)' = Key(u)
  BY DEF Owner, Key
<1> QED
  BY <1>1 DEF FlightInv

\* As long as the same threads are in a call, their leases are right.
LEMMA LeasesRest ==
  ASSUME LeasesInv, leases' = leases, \A u \in Users : pc[u] = "IDLE" <=> pc'[u] = "IDLE"
  PROVE  LeasesInv'
<1>1. InCall' = InCall
  BY DEF InCall
<1> QED
  BY <1>1 DEF LeasesInv

\* A thread that enters a call takes a lease.
LEMMA LeasesGrow ==
  ASSUME LeasesInv, NEW t \in Users, pc[t] = "IDLE", pc'[t] # "IDLE", leases' = leases + 1,
         \A u \in Users \ {t} : pc'[u] = pc[u]
  PROVE  LeasesInv'
<1>1. InCall' = InCall \cup {t} /\ t \notin InCall
  BY DEF InCall
<1>2. IsFiniteSet(InCall)
  BY SessionAssumption, FS_Subset DEF InCall
<1> QED
  BY <1>1, <1>2, FS_AddElement DEF LeasesInv

\* A thread that leaves its call gives its lease back.
LEMMA LeasesShrink ==
  ASSUME LeasesInv, NEW t \in Users, pc[t] # "IDLE", pc'[t] = "IDLE", leases' = leases - 1,
         \A u \in Users \ {t} : pc'[u] = pc[u]
  PROVE  LeasesInv'
<1>1. InCall' = InCall \ {t} /\ t \in InCall
  BY DEF InCall
<1>2. IsFiniteSet(InCall)
  BY SessionAssumption, FS_Subset DEF InCall
<1> QED
  BY <1>1, <1>2, FS_RemoveElement DEF LeasesInv

\* A checkout is retained as long as those who hold one keep it.
LEMMA RetainedRest ==
  ASSUME CheckoutsRetained, UNCHANGED <<cleanups, pending, checkouts, stuck>>,
         \A u \in Users : Holds(u) => Holds(u)' /\ got'[u] = got[u]
  PROVE  CheckoutsRetained'
  BY DEF CheckoutsRetained, Retained

\* One that its holder removes, or fails to remove, need not be retained.
LEMMA RetainedRemoved ==
  ASSUME CheckoutsRetained, UNCHANGED <<cleanups, pending, got>>, NEW t \in Users, Remove(got[t]),
         \A u \in Users \ {t} : Holds(u) => Holds(u)'
  PROVE  CheckoutsRetained'
<1> SUFFICES ASSUME NEW p \in checkouts' \ stuck'
             PROVE  Retained(p)'
  BY DEF CheckoutsRetained
<1>1. p \in checkouts \ stuck /\ p # got[t]
  BY DEF Remove
<1>2. Retained(p)
  BY <1>1 DEF CheckoutsRetained
<1> QED
  BY <1>1, <1>2 DEF Retained

\* The checkouts that the closer takes over are retained by it from then on.
LEMMA RetainedTaken ==
  ASSUME CheckoutsRetained, cleanups \in Seq(Packs), NEW t \in Closers, pending[t] = <<>>,
         pending \in [Threads -> Seq(Packs)], TakeCleanups(t), UNCHANGED <<checkouts, stuck>>,
         \A u \in Users : Holds(u) => Holds(u)' /\ got'[u] = got[u]
  PROVE  CheckoutsRetained'
<1> DEFINE r == [i \in 1..Len(cleanups) |-> cleanups[Len(cleanups) + 1 - i]]
<1> SUFFICES ASSUME NEW p \in checkouts \ stuck
             PROVE  Retained(p)'
  BY DEF CheckoutsRetained
<1>0. t \in Threads
  BY DEF Threads
<1>1. pending'[t] = r /\ \A c \in Closers \ {t} : pending'[c] = pending[c]
  BY <1>0 DEF TakeCleanups, Threads
<1>2. Retained(p)
  BY DEF CheckoutsRetained
<1>3. CASE \E u \in Users : Holds(u) /\ got[u] = p
  BY <1>3 DEF Retained
<1>4. CASE \E i \in 1..Len(cleanups) : cleanups[i] = p
  <2>1. PICK i \in 1..Len(cleanups) : cleanups[i] = p
    BY <1>4
  <2>2. Len(cleanups) \in Nat /\ Len(r) = Len(cleanups)
    OBVIOUS
  <2>3. Len(cleanups) + 1 - i \in 1..Len(r) /\ r[Len(cleanups) + 1 - i] = p
    BY <2>1, <2>2
  <2> QED
    BY <1>1, <2>3 DEF Retained
<1>5. CASE \E c \in Closers : \E i \in 1..Len(pending[c]) : pending[c][i] = p
  <2>1. PICK c \in Closers : \E i \in 1..Len(pending[c]) : pending[c][i] = p
    BY <1>5
  <2>2. c # t
    BY <2>1
  <2> QED
    BY <1>1, <2>1, <2>2 DEF Retained
<1> QED
  BY <1>2, <1>3, <1>4, <1>5 DEF Retained

\* A checkout that is made is held, and one that is published is to be cleaned up.
LEMMA RetainedAdded ==
  ASSUME CheckoutsRetained, UNCHANGED <<cleanups, pending, stuck>>, NEW t \in Users, NEW q,
         checkouts' = checkouts \cup {q}, Holds(t)', got'[t] = q,
         \A u \in Users \ {t} : Holds(u) => Holds(u)' /\ got'[u] = got[u], ~Holds(t)
  PROVE  CheckoutsRetained'
  BY DEF CheckoutsRetained, Retained

LEMMA RetainedPublished ==
  ASSUME CheckoutsRetained, UNCHANGED <<checkouts, pending, stuck, got>>, NEW t \in Users,
         cleanups \in Seq(Packs), got[t] \in Packs, cleanups' = Append(cleanups, got[t]),
         \A u \in Users \ {t} : Holds(u) => Holds(u)'
  PROVE  CheckoutsRetained'
<1> SUFFICES ASSUME NEW p \in checkouts \ stuck
             PROVE  Retained(p)'
  BY DEF CheckoutsRetained
<1>1. /\ Len(cleanups) \in Nat /\ Len(cleanups') = Len(cleanups) + 1
      /\ \A i \in 1..Len(cleanups) : cleanups'[i] = cleanups[i]
      /\ cleanups'[Len(cleanups) + 1] = got[t]
  OBVIOUS
<1>2. Retained(p)
  BY DEF CheckoutsRetained
<1>3. CASE p = got[t]
  BY <1>1, <1>3 DEF Retained
<1>4. CASE \E i \in 1..Len(cleanups) : cleanups[i] = p
  BY <1>1, <1>4 DEF Retained
<1> QED
  BY <1>2, <1>3, <1>4 DEF Retained

\* The closer removes the first of those it has yet to remove.
LEMMA RetainedCleaned ==
  ASSUME CheckoutsRetained, UNCHANGED <<cleanups, got>>, NEW t \in Closers,
         pending \in [Threads -> Seq(Packs)], pending[t] # <<>>, Remove(Head(pending[t])),
         pending' = [pending EXCEPT ![t] = Tail(@)],
         \A u \in Users : Holds(u) => Holds(u)'
  PROVE  CheckoutsRetained'
<1> SUFFICES ASSUME NEW p \in checkouts' \ stuck'
             PROVE  Retained(p)'
  BY DEF CheckoutsRetained
<1>1. p \in checkouts \ stuck /\ p # Head(pending[t])
  BY DEF Remove
<1>2. Retained(p)
  BY <1>1 DEF CheckoutsRetained
<1>3. t \in Threads /\ pending[t] \in Seq(Packs)
  BY DEF Threads
<1>4. pending'[t] = Tail(pending[t]) /\ \A c \in Closers \ {t} : pending'[c] = pending[c]
  BY <1>3 DEF Threads
<1>5. CASE \E i \in 1..Len(pending[t]) : pending[t][i] = p
  <2>1. PICK i \in 1..Len(pending[t]) : pending[t][i] = p
    BY <1>5
  <2>2. i # 1
    BY <1>1, <1>3, <2>1
  <2>3. i - 1 \in 1..Len(Tail(pending[t])) /\ Tail(pending[t])[i - 1] = p
    BY <1>3, <2>1, <2>2
  <2> QED
    BY <1>4, <2>3 DEF Retained
<1> QED
  BY <1>2, <1>4, <1>5 DEF Retained

\* Nothing that is held or published disappears.
LEMMA PublishedRest ==
  ASSUME PublishedStays, Cleaned => Cleaned', checkouts \subseteq checkouts',
         \A u \in Users : Holds(u)' =>
           (Holds(u) /\ got'[u] = got[u]) \/ got'[u] \in checkouts',
         \A k \in Keys : flight'[k] = "VERIFIED" =>
           (flight[k] = "VERIFIED" /\ value'[k] = value[k]) \/ value'[k] \in checkouts'
  PROVE  PublishedStays'
  BY DEF PublishedStays

\* What an owner removes is neither published nor held by another.
LEMMA PublishedOutlivesRemoval ==
  ASSUME VerificationInv, NEW t \in Users, Holds(t), ~Holds(t)', Remove(got[t]),
         UNCHANGED <<flight, value, got>>, Cleaned => Cleaned',
         \A u \in Users \ {t} : Holds(u)' => Holds(u)
  PROVE  PublishedStays'
<1> USE DEF VerificationInv
<1>1. \A p \in checkouts : p # got[t] => p \in checkouts'
  BY DEF Remove
<1>2. got[t] = Mine(t) /\ Owner(t)
  BY DEF GotInv, Holds
<1>3. \A u \in Users : Holds(u) /\ u # t => got[u] # got[t]
  <2>1. \A u \in Users : Mine(u).owner = u
    BY DEF Mine
  <2> QED
    BY <1>2, <2>1 DEF GotInv
<1>4. \A k \in Keys : flight[k] = "VERIFIED" => value[k] # got[t]
  BY <1>2 DEF FlightInv, Mine
<1> QED
  BY <1>1, <1>3, <1>4 DEF PublishedStays

-----------------------------------------------------------------------------
(***************************************************************************)
(* Every step keeps the invariant, part by part.                           *)
(***************************************************************************)

\* Every step keeps the types.
LEMMA SessionTypeOKKept ==
  ASSUME VerificationInv, SessionNext
  PROVE  SessionTypeOK'
<1> USE SessionAssumption DEF VerificationInv, SessionTypeOK, RolesInv, Go, Take, Poison, Joins,
    TakeValue, Remove, TakeCleanups, Forget, StartSeeing, SeeAlso, WaitingFor, WaitingForDrain,
    trust, disk, world, call
<1>1. ASSUME NEW t \in Users, UserStep(t)
      PROVE  SessionTypeOK'
  <2>0. t \in Threads
    BY DEF Threads
  <2>1. CASE SelectRegistration(t)
    BY <2>1, <2>0, StepsAreSteps DEF SelectRegistration
  <2>2. CASE PrepareSnapshot(t)
    BY <2>2, <2>0, StepsAreSteps DEF PrepareSnapshot
  <2>3. CASE RequestFails(t)
    BY <2>3, <2>0, StepsAreSteps DEF RequestFails
  <2>4. CASE Raise(t)
    BY <2>4, <2>0, StepsAreSteps DEF Raise
  <2>5. CASE JoinRefused(t)
    BY <2>5, <2>0, StepsAreSteps DEF JoinRefused
  <2>6. CASE JoinOtherIdentity(t)
    BY <2>6, <2>0, StepsAreSteps DEF JoinOtherIdentity
  <2>7. CASE JoinAsOwner(t)
    BY <2>7, <2>0, StepsAreSteps, OwnersKnowTheirPack DEF JoinAsOwner
  <2>8. CASE JoinAsWaiter(t)
    BY <2>8, <2>0, StepsAreSteps, OwnersKnowTheirPack DEF JoinAsWaiter
  <2>9. CASE JoinVerified(t)
    BY <2>9, <2>0, StepsAreSteps, OwnersKnowTheirPack DEF JoinVerified
  <2>10. CASE WakeToVerified(t)
    BY <2>10, <2>0, StepsAreSteps, OwnersKnowTheirPack DEF WakeToVerified
  <2>11. CASE WakeToError(t)
    BY <2>11, <2>0, StepsAreSteps DEF WakeToError
  <2>12. CASE CheckOut(t)
    BY <2>12, <2>0, StepsAreSteps, OwnersKnowTheirPack DEF CheckOut, Owner, OwnSteps, WitnessSteps,
       Holds
  <2>13. CASE GatePasses(t)
    BY <2>13, <2>0, StepsAreSteps, OwnersKnowTheirPack DEF GatePasses, Owner, OwnSteps,
       WitnessSteps, Holds
  <2>14. CASE GateFails(t)
    BY <2>14, <2>0, StepsAreSteps, OwnersKnowTheirPack DEF GateFails, Owner, OwnSteps, WitnessSteps,
       Holds
  <2>15. CASE Publish(t)
    BY <2>15, <2>0, StepsAreSteps, OwnersKnowTheirPack DEF Publish, Owner, OwnSteps, WitnessSteps,
       Holds
  <2>16. CASE PublishRefused(t)
    BY <2>16, <2>0, StepsAreSteps, OwnersKnowTheirPack DEF PublishRefused, Owner, OwnSteps,
       WitnessSteps, Holds
  <2>17. CASE Discard(t)
    BY <2>17, <2>0, StepsAreSteps, OwnersKnowTheirPack DEF Discard, Owner, OwnSteps, WitnessSteps,
       Holds
  <2>18. CASE WitnessRegistration(t)
    BY <2>18, <2>0, StepsAreSteps DEF WitnessRegistration
  <2>19. CASE WitnessHead(t)
    BY <2>19, <2>0, StepsAreSteps DEF WitnessHead, WitnessSteps
  <2>26. CASE WitnessClean(t)
    BY <2>26, <2>0, StepsAreSteps DEF WitnessClean, AfterWitness, WitnessSteps
  <2>20. CASE OwnWitnessFails(t)
    BY <2>20, <2>0, StepsAreSteps, OwnersKnowTheirPack DEF OwnWitnessFails, Owner, OwnSteps,
       WitnessSteps, Holds
  <2>21. CASE WitnessFails(t)
    BY <2>21, <2>0, StepsAreSteps DEF WitnessFails
  <2>22. CASE ReadBlob(t)
    BY <2>22, <2>0, StepsAreSteps DEF ReadBlob
  <2>23. CASE ReadFails(t)
    BY <2>23, <2>0, StepsAreSteps DEF ReadFails
  <2>24. CASE Return(t)
    BY <2>24, <2>0, StepsAreSteps DEF Return
  <2>25. CASE Release(t)
    BY <2>25, <2>0, StepsAreSteps, CallersHoldALease DEF Release
  <2> QED
    BY <1>1, <2>1, <2>2, <2>3, <2>4, <2>5, <2>6, <2>7, <2>8, <2>9, <2>10, <2>11, <2>12, <2>13,
       <2>14, <2>15, <2>16, <2>17, <2>18, <2>19, <2>20, <2>21, <2>22, <2>23, <2>24, <2>25, <2>26
       DEF UserStep
<1>2. ASSUME NEW t \in Users, NEW c \in Capabilities, AcquireLease(t, c)
      PROVE  SessionTypeOK'
  <2>0. t \in Threads
    BY DEF Threads
  <2> QED
    BY <1>2, <2>0, StepsAreSteps DEF AcquireLease
<1>3. ASSUME NEW t \in Users, NEW p \in Packs, BeginRead(t, p)
      PROVE  SessionTypeOK'
  <2>0. t \in Threads /\ CapabilityOf[p.key] \in Capabilities
    BY SessionAssumption DEF Threads, Packs
  <2> QED
    BY <1>3, <2>0, StepsAreSteps DEF BeginRead
<1>4. ASSUME NEW t \in Closers, CloserStep(t) \/ BeginClose(t) \/ JoinClose(t)
      PROVE  SessionTypeOK'
  <2>0. t \in Threads
    BY DEF Threads
  <2>1. CASE Drained(t)
    BY <2>1, <2>0, StepsAreSteps, ReversedCleanups DEF Drained
  <2>2. CASE WakeCloser(t)
    BY <2>2, <2>0, StepsAreSteps DEF WakeCloser
  <2>3. CASE CleanUpOne(t)
    <3>1. Head(pending[t]) \in Packs /\ Tail(pending[t]) \in Seq(Packs)
      BY <2>3, <2>0 DEF CleanUpOne
    <3> QED
      BY <2>3, <2>0, <3>1 DEF CleanUpOne
  <2>4. CASE EndClose(t)
    BY <2>4, <2>0, StepsAreSteps DEF EndClose
  <2>5. CASE BeginClose(t)
    <3>0. session' = "CLOSING" /\ UNCHANGED <<leases, flight, error, value, checkouts, stuck, gates,
                                               world, call, got, handles, seen>>
      BY <2>5 DEF BeginClose
    <3>1. CASE leases = 0
      <4>1. TakeCleanups(t) /\ asleep' = asleep \ WaitingFor(listed)
        BY <2>5, <3>1 DEF BeginClose
      <4> QED
        BY <2>0, <3>0, <4>1, StepsAreSteps, ReversedCleanups
    <3>2. CASE leases > 0
      <4>1. /\ Go(t, "DRAIN")
            /\ asleep' = (asleep \ WaitingFor(listed)) \cup {t}
            /\ UNCHANGED <<cleanups, verified, listed, identity, pending>>
        BY <2>5, <3>2 DEF BeginClose
      <4> QED
        BY <2>0, <3>0, <4>1, StepsAreSteps, ReversedCleanups
    <3> QED
      BY <2>5, <3>1, <3>2 DEF BeginClose
  <2>6. CASE JoinClose(t)
    BY <2>6, <2>0, StepsAreSteps DEF JoinClose
  <2> QED
    BY <1>4, <2>1, <2>2, <2>3, <2>4, <2>5, <2>6 DEF CloserStep
<1>5. ASSUME NEW c \in Capabilities, NEW r \in Registrations, Reregister(c, r)
      PROVE  SessionTypeOK'
  BY <1>5 DEF Reregister
<1>6. ASSUME NEW c \in Capabilities, NEW s \in Sources, ChangeSource(c, s)
      PROVE  SessionTypeOK'
  BY <1>6 DEF ChangeSource
<1> QED
  BY <1>1, <1>2, <1>3, <1>4, <1>5, <1>6 DEF SessionNext

\* Every step keeps the roles.
LEMMA RolesInvKept ==
  ASSUME VerificationInv, SessionNext
  PROVE  RolesInv'
<1> USE SessionAssumption DEF VerificationInv, SessionTypeOK, RolesInv, Owner, Threads, Steps,
    RequestSteps, WitnessSteps, CloseSteps, UserSteps, CloserSteps, OwnSteps, Key, Mine, Go, Take,
    Poison, Joins, TakeValue, Remove, TakeCleanups, Forget, StartSeeing, SeeAlso, Watching, trust,
    disk, world, call
<1>1. ASSUME NEW t \in Users, UserStep(t)
      PROVE  RolesInv'
  <2>0. t \in Threads
    BY DEF Threads
  <2>1. CASE SelectRegistration(t)
    BY <2>1, <2>0 DEF SelectRegistration
  <2>2. CASE PrepareSnapshot(t)
    BY <2>2, <2>0 DEF PrepareSnapshot
  <2>3. CASE RequestFails(t)
    BY <2>3, <2>0 DEF RequestFails
  <2>4. CASE Raise(t)
    BY <2>4, <2>0 DEF Raise
  <2>5. CASE JoinRefused(t)
    BY <2>5, <2>0 DEF JoinRefused
  <2>6. CASE JoinOtherIdentity(t)
    BY <2>6, <2>0 DEF JoinOtherIdentity
  <2>7. CASE JoinAsOwner(t)
    BY <2>7, <2>0 DEF JoinAsOwner
  <2>8. CASE JoinAsWaiter(t)
    BY <2>8, <2>0 DEF JoinAsWaiter
  <2>9. CASE JoinVerified(t)
    BY <2>9, <2>0 DEF JoinVerified, Packs
  <2>10. CASE WakeToVerified(t)
    BY <2>10, <2>0 DEF WakeToVerified
  <2>11. CASE WakeToError(t)
    BY <2>11, <2>0 DEF WakeToError
  <2>12. CASE CheckOut(t)
    BY <2>12, <2>0 DEF CheckOut
  <2>13. CASE GatePasses(t)
    BY <2>13, <2>0 DEF GatePasses
  <2>14. CASE GateFails(t)
    BY <2>14, <2>0 DEF GateFails
  <2>15. CASE Publish(t)
    BY <2>15, <2>0 DEF Publish
  <2>16. CASE PublishRefused(t)
    BY <2>16, <2>0 DEF PublishRefused
  <2>17. CASE Discard(t)
    BY <2>17, <2>0 DEF Discard
  <2>18. CASE WitnessRegistration(t)
    BY <2>18, <2>0 DEF WitnessRegistration
  <2>19. CASE WitnessHead(t)
    BY <2>19, <2>0 DEF WitnessHead
  <2>26. CASE WitnessClean(t)
    BY <2>26, <2>0 DEF WitnessClean, AfterWitness
  <2>20. CASE OwnWitnessFails(t)
    BY <2>20, <2>0 DEF OwnWitnessFails
  <2>21. CASE WitnessFails(t)
    BY <2>21, <2>0 DEF WitnessFails
  <2>22. CASE ReadBlob(t)
    BY <2>22, <2>0 DEF ReadBlob
  <2>23. CASE ReadFails(t)
    BY <2>23, <2>0 DEF ReadFails
  <2>24. CASE Return(t)
    BY <2>24, <2>0 DEF Return
  <2>25. CASE Release(t)
    BY <2>25, <2>0 DEF Release
  <2> QED
    BY <1>1, <2>1, <2>2, <2>3, <2>4, <2>5, <2>6, <2>7, <2>8, <2>9, <2>10, <2>11, <2>12, <2>13,
       <2>14, <2>15, <2>16, <2>17, <2>18, <2>19, <2>20, <2>21, <2>22, <2>23, <2>24, <2>25, <2>26
       DEF UserStep
<1>2. ASSUME NEW t \in Users, NEW c \in Capabilities, AcquireLease(t, c)
      PROVE  RolesInv'
  <2>0. t \in Threads
    BY DEF Threads
  <2> QED
    BY <1>2, <2>0 DEF AcquireLease
<1>3. ASSUME NEW t \in Users, NEW p \in Packs, BeginRead(t, p)
      PROVE  RolesInv'
  <2>0. t \in Threads
    BY DEF Threads
  <2> QED
    BY <1>3, <2>0 DEF BeginRead, Packs
<1>4. ASSUME NEW t \in Closers, CloserStep(t) \/ BeginClose(t) \/ JoinClose(t)
      PROVE  RolesInv'
  <2>0. t \in Threads
    BY DEF Threads
  <2>1. CASE Drained(t)
    BY <2>1, <2>0 DEF Drained
  <2>2. CASE WakeCloser(t)
    <3>1. CASE Go(t, "IDLE")
      BY <2>2, <2>0, <3>1 DEF WakeCloser
    <3>2. CASE UNCHANGED pc
      BY <2>2, <2>0, <3>2 DEF WakeCloser
    <3> QED
      BY <2>2, <3>1, <3>2 DEF WakeCloser
  <2>3. CASE CleanUpOne(t)
    BY <2>3, <2>0 DEF CleanUpOne
  <2>4. CASE EndClose(t)
    BY <2>4, <2>0 DEF EndClose
  <2>5. CASE BeginClose(t)
    <3>0. session' = "CLOSING" /\ UNCHANGED <<leases, flight, error, value, checkouts, stuck, gates,
                                               world, call, got, handles, seen>>
      BY <2>5 DEF BeginClose
    <3>1. CASE leases = 0
      <4>1. TakeCleanups(t) /\ asleep' = asleep \ WaitingFor(listed)
        BY <2>5, <3>1 DEF BeginClose
      <4> QED
        BY <2>0, <3>0, <4>1
    <3>2. CASE leases > 0
      <4>1. /\ Go(t, "DRAIN")
            /\ asleep' = (asleep \ WaitingFor(listed)) \cup {t}
            /\ UNCHANGED <<cleanups, verified, listed, identity, pending>>
        BY <2>5, <3>2 DEF BeginClose
      <4> QED
        BY <2>0, <3>0, <4>1
    <3> QED
      BY <2>5, <3>1, <3>2 DEF BeginClose
  <2>6. CASE JoinClose(t)
    BY <2>6, <2>0 DEF JoinClose
  <2> QED
    BY <1>4, <2>1, <2>2, <2>3, <2>4, <2>5, <2>6 DEF CloserStep
<1>5. ASSUME NEW c \in Capabilities, NEW r \in Registrations, Reregister(c, r)
      PROVE  RolesInv'
  BY <1>5 DEF Reregister
<1>6. ASSUME NEW c \in Capabilities, NEW s \in Sources, ChangeSource(c, s)
      PROVE  RolesInv'
  BY <1>6 DEF ChangeSource
<1> QED
  BY <1>1, <1>2, <1>3, <1>4, <1>5, <1>6 DEF SessionNext

\* Every step keeps the flights, their owners and their identities.
LEMMA FlightInvKept ==
  ASSUME VerificationInv, SessionNext
  PROVE  FlightInv'
<1> USE SessionAssumption DEF VerificationInv, SessionTypeOK, RolesInv, FlightInv, GotInv, Owner,
    Holds, Threads, Steps, RequestSteps, WitnessSteps, CloseSteps, UserSteps, CloserSteps,
    OwnSteps, Key, Mine, Go, Take, Poison, Joins, TakeValue, Remove, TakeCleanups, Forget,
    StartSeeing, SeeAlso, Watching, trust, disk, world, call
<1>1. ASSUME NEW t \in Users, UserStep(t)
      PROVE  FlightInv'
  <2>0. t \in Threads
    BY DEF Threads
  <2>1. CASE SelectRegistration(t)
    BY <2>1, <2>0 DEF SelectRegistration
  <2>2. CASE PrepareSnapshot(t)
    BY <2>2, <2>0 DEF PrepareSnapshot
  <2>3. CASE RequestFails(t)
    BY <2>3, <2>0 DEF RequestFails
  <2>4. CASE Raise(t)
    BY <2>4, <2>0 DEF Raise
  <2>5. CASE JoinRefused(t)
    BY <2>5, <2>0 DEF JoinRefused
  <2>6. CASE JoinOtherIdentity(t)
    BY <2>6, <2>0 DEF JoinOtherIdentity
  <2>7. CASE JoinAsOwner(t)
    BY <2>7, <2>0 DEF JoinAsOwner
  <2>8. CASE JoinAsWaiter(t)
    BY <2>8, <2>0 DEF JoinAsWaiter
  <2>9. CASE JoinVerified(t)
    BY <2>9, <2>0 DEF JoinVerified
  <2>10. CASE WakeToVerified(t)
    BY <2>10, <2>0 DEF WakeToVerified
  <2>11. CASE WakeToError(t)
    BY <2>11, <2>0 DEF WakeToError
  <2>12. CASE CheckOut(t)
    BY <2>12, <2>0 DEF CheckOut
  <2>13. CASE GatePasses(t)
    BY <2>13, <2>0 DEF GatePasses
  <2>14. CASE GateFails(t)
    BY <2>14, <2>0 DEF GateFails
  <2>15. CASE Publish(t)
    BY <2>15, <2>0 DEF Publish, Packs
  <2>16. CASE PublishRefused(t)
    BY <2>16, <2>0 DEF PublishRefused
  <2>17. CASE Discard(t)
    BY <2>17, <2>0 DEF Discard
  <2>18. CASE WitnessRegistration(t)
    BY <2>18, <2>0 DEF WitnessRegistration
  <2>19. CASE WitnessHead(t)
    BY <2>19, <2>0 DEF WitnessHead
  <2>26. CASE WitnessClean(t)
    BY <2>26, <2>0 DEF WitnessClean, AfterWitness
  <2>20. CASE OwnWitnessFails(t)
    BY <2>20, <2>0 DEF OwnWitnessFails
  <2>21. CASE WitnessFails(t)
    BY <2>21, <2>0 DEF WitnessFails
  <2>22. CASE ReadBlob(t)
    BY <2>22, <2>0 DEF ReadBlob
  <2>23. CASE ReadFails(t)
    BY <2>23, <2>0 DEF ReadFails
  <2>24. CASE Return(t)
    BY <2>24, <2>0 DEF Return
  <2>25. CASE Release(t)
    BY <2>25, <2>0 DEF Release
  <2> QED
    BY <1>1, <2>1, <2>2, <2>3, <2>4, <2>5, <2>6, <2>7, <2>8, <2>9, <2>10, <2>11, <2>12, <2>13,
       <2>14, <2>15, <2>16, <2>17, <2>18, <2>19, <2>20, <2>21, <2>22, <2>23, <2>24, <2>25, <2>26
       DEF UserStep
<1>2. ASSUME NEW t \in Users, NEW c \in Capabilities, AcquireLease(t, c)
      PROVE  FlightInv'
  <2>0. t \in Threads
    BY DEF Threads
  <2> QED
    BY <1>2, <2>0 DEF AcquireLease
<1>3. ASSUME NEW t \in Users, NEW p \in Packs, BeginRead(t, p)
      PROVE  FlightInv'
  <2>0. t \in Threads
    BY DEF Threads
  <2> QED
    BY <1>3, <2>0 DEF BeginRead
<1>4. ASSUME NEW t \in Closers, CloserStep(t) \/ BeginClose(t) \/ JoinClose(t)
      PROVE  FlightInv'
  <2>0. t \in Threads
    BY DEF Threads
  <2>1. CASE Drained(t)
    <3>1. \A u \in Users : pc'[u] = pc[u]
      BY <2>1, <2>0 DEF Drained, ClosersInv, Draining
    <3> QED
      BY <2>1, <3>1, FlightsRest DEF Drained, ClosersInv, Draining
  <2>2. CASE WakeCloser(t)
    BY <2>2, <2>0 DEF WakeCloser
  <2>3. CASE CleanUpOne(t)
    BY <2>3, <2>0 DEF CleanUpOne
  <2>4. CASE EndClose(t)
    BY <2>4, <2>0 DEF EndClose
  <2>5. CASE BeginClose(t)
    <3>1. \A u \in Users : pc'[u] = pc[u]
      BY <2>5, <2>0 DEF BeginClose
    <3> QED
      BY <2>5, <3>1, FlightsRest DEF BeginClose
  <2>6. CASE JoinClose(t)
    BY <2>6, <2>0 DEF JoinClose
  <2> QED
    BY <1>4, <2>1, <2>2, <2>3, <2>4, <2>5, <2>6 DEF CloserStep
<1>5. ASSUME NEW c \in Capabilities, NEW r \in Registrations, Reregister(c, r)
      PROVE  FlightInv'
  BY <1>5 DEF Reregister
<1>6. ASSUME NEW c \in Capabilities, NEW s \in Sources, ChangeSource(c, s)
      PROVE  FlightInv'
  BY <1>6 DEF ChangeSource
<1> QED
  BY <1>1, <1>2, <1>3, <1>4, <1>5, <1>6 DEF SessionNext

\* Every step keeps what the threads have got.
LEMMA GotInvKept ==
  ASSUME VerificationInv, SessionNext
  PROVE  GotInv'
<1> USE SessionAssumption DEF VerificationInv, SessionTypeOK, RolesInv, FlightInv, GotInv, Owner,
    Holds, Answered, Landed, Threads, Steps, RequestSteps, WitnessSteps, CloseSteps, UserSteps,
    CloserSteps, OwnSteps, Key, Mine, Go, Take, Poison, Joins, TakeValue, Remove, TakeCleanups,
    Forget, StartSeeing, SeeAlso, Watching, trust, disk, world, call
<1>1. ASSUME NEW t \in Users, UserStep(t)
      PROVE  GotInv'
  <2>0. t \in Threads
    BY DEF Threads
  <2>1. CASE SelectRegistration(t)
    BY <2>1, <2>0 DEF SelectRegistration
  <2>2. CASE PrepareSnapshot(t)
    BY <2>2, <2>0 DEF PrepareSnapshot
  <2>3. CASE RequestFails(t)
    BY <2>3, <2>0 DEF RequestFails
  <2>4. CASE Raise(t)
    BY <2>4, <2>0 DEF Raise
  <2>5. CASE JoinRefused(t)
    BY <2>5, <2>0 DEF JoinRefused
  <2>6. CASE JoinOtherIdentity(t)
    BY <2>6, <2>0 DEF JoinOtherIdentity
  <2>7. CASE JoinAsOwner(t)
    BY <2>7, <2>0 DEF JoinAsOwner
  <2>8. CASE JoinAsWaiter(t)
    BY <2>8, <2>0 DEF JoinAsWaiter
  <2>9. CASE JoinVerified(t)
    BY <2>9, <2>0 DEF JoinVerified
  <2>10. CASE WakeToVerified(t)
    BY <2>10, <2>0 DEF WakeToVerified
  <2>11. CASE WakeToError(t)
    BY <2>11, <2>0 DEF WakeToError
  <2>12. CASE CheckOut(t)
    BY <2>12, <2>0 DEF CheckOut, Packs
  <2>13. CASE GatePasses(t)
    BY <2>13, <2>0 DEF GatePasses
  <2>14. CASE GateFails(t)
    BY <2>14, <2>0 DEF GateFails
  <2>15. CASE Publish(t)
    BY <2>15, <2>0 DEF Publish, Packs
  <2>16. CASE PublishRefused(t)
    BY <2>16, <2>0 DEF PublishRefused
  <2>17. CASE Discard(t)
    BY <2>17, <2>0 DEF Discard
  <2>18. CASE WitnessRegistration(t)
    BY <2>18, <2>0 DEF WitnessRegistration
  <2>19. CASE WitnessHead(t)
    BY <2>19, <2>0 DEF WitnessHead
  <2>26. CASE WitnessClean(t)
    BY <2>26, <2>0 DEF WitnessClean, AfterWitness
  <2>20. CASE OwnWitnessFails(t)
    BY <2>20, <2>0 DEF OwnWitnessFails
  <2>21. CASE WitnessFails(t)
    BY <2>21, <2>0 DEF WitnessFails
  <2>22. CASE ReadBlob(t)
    BY <2>22, <2>0 DEF ReadBlob
  <2>23. CASE ReadFails(t)
    BY <2>23, <2>0 DEF ReadFails
  <2>24. CASE Return(t)
    BY <2>24, <2>0 DEF Return
  <2>25. CASE Release(t)
    BY <2>25, <2>0 DEF Release
  <2> QED
    BY <1>1, <2>1, <2>2, <2>3, <2>4, <2>5, <2>6, <2>7, <2>8, <2>9, <2>10, <2>11, <2>12, <2>13,
       <2>14, <2>15, <2>16, <2>17, <2>18, <2>19, <2>20, <2>21, <2>22, <2>23, <2>24, <2>25, <2>26
       DEF UserStep
<1>2. ASSUME NEW t \in Users, NEW c \in Capabilities, AcquireLease(t, c)
      PROVE  GotInv'
  <2>0. t \in Threads
    BY DEF Threads
  <2> QED
    BY <1>2, <2>0 DEF AcquireLease
<1>3. ASSUME NEW t \in Users, NEW p \in Packs, BeginRead(t, p)
      PROVE  GotInv'
  <2>0. t \in Threads
    BY DEF Threads
  <2> QED
    BY <1>3, <2>0 DEF BeginRead
<1>4. ASSUME NEW t \in Closers, CloserStep(t) \/ BeginClose(t) \/ JoinClose(t)
      PROVE  GotInv'
  <2>0. t \in Threads
    BY DEF Threads
  <2>1. CASE Drained(t)
    BY <2>1, <2>0 DEF Drained
  <2>2. CASE WakeCloser(t)
    BY <2>2, <2>0 DEF WakeCloser
  <2>3. CASE CleanUpOne(t)
    BY <2>3, <2>0 DEF CleanUpOne
  <2>4. CASE EndClose(t)
    BY <2>4, <2>0 DEF EndClose
  <2>5. CASE BeginClose(t)
    BY <2>5, <2>0 DEF BeginClose
  <2>6. CASE JoinClose(t)
    BY <2>6, <2>0 DEF JoinClose
  <2> QED
    BY <1>4, <2>1, <2>2, <2>3, <2>4, <2>5, <2>6 DEF CloserStep
<1>5. ASSUME NEW c \in Capabilities, NEW r \in Registrations, Reregister(c, r)
      PROVE  GotInv'
  BY <1>5 DEF Reregister
<1>6. ASSUME NEW c \in Capabilities, NEW s \in Sources, ChangeSource(c, s)
      PROVE  GotInv'
  BY <1>6 DEF ChangeSource
<1> QED
  BY <1>1, <1>2, <1>3, <1>4, <1>5, <1>6 DEF SessionNext

\* Every step keeps the order among those who close.
LEMMA ClosersInvKept ==
  ASSUME VerificationInv, SessionNext
  PROVE  ClosersInv'
<1> USE SessionAssumption DEF VerificationInv, SessionTypeOK, RolesInv, ClosersInv, Draining,
    Cleaned, Threads, Steps, RequestSteps, WitnessSteps, CloseSteps, UserSteps, CloserSteps,
    OwnSteps, Key, Mine, Go, Take, Poison, Joins, TakeValue, Remove, TakeCleanups, Forget,
    StartSeeing, SeeAlso, Watching, trust, disk, world, call
<1>1. ASSUME NEW t \in Users, UserStep(t)
      PROVE  ClosersInv'
  <2>0. t \in Threads
    BY DEF Threads
  <2>1. CASE SelectRegistration(t)
    BY <2>1, <2>0 DEF SelectRegistration
  <2>2. CASE PrepareSnapshot(t)
    BY <2>2, <2>0 DEF PrepareSnapshot
  <2>3. CASE RequestFails(t)
    BY <2>3, <2>0 DEF RequestFails
  <2>4. CASE Raise(t)
    BY <2>4, <2>0 DEF Raise
  <2>5. CASE JoinRefused(t)
    BY <2>5, <2>0 DEF JoinRefused
  <2>6. CASE JoinOtherIdentity(t)
    BY <2>6, <2>0 DEF JoinOtherIdentity
  <2>7. CASE JoinAsOwner(t)
    BY <2>7, <2>0 DEF JoinAsOwner
  <2>8. CASE JoinAsWaiter(t)
    BY <2>8, <2>0 DEF JoinAsWaiter
  <2>9. CASE JoinVerified(t)
    BY <2>9, <2>0 DEF JoinVerified
  <2>10. CASE WakeToVerified(t)
    BY <2>10, <2>0 DEF WakeToVerified
  <2>11. CASE WakeToError(t)
    BY <2>11, <2>0 DEF WakeToError
  <2>12. CASE CheckOut(t)
    BY <2>12, <2>0 DEF CheckOut
  <2>13. CASE GatePasses(t)
    BY <2>13, <2>0 DEF GatePasses
  <2>14. CASE GateFails(t)
    BY <2>14, <2>0 DEF GateFails
  <2>15. CASE Publish(t)
    BY <2>15, <2>0, CallersHoldALease DEF Publish
  <2>16. CASE PublishRefused(t)
    BY <2>16, <2>0 DEF PublishRefused
  <2>17. CASE Discard(t)
    BY <2>17, <2>0 DEF Discard
  <2>18. CASE WitnessRegistration(t)
    BY <2>18, <2>0 DEF WitnessRegistration
  <2>19. CASE WitnessHead(t)
    BY <2>19, <2>0 DEF WitnessHead
  <2>26. CASE WitnessClean(t)
    BY <2>26, <2>0 DEF WitnessClean, AfterWitness
  <2>20. CASE OwnWitnessFails(t)
    BY <2>20, <2>0 DEF OwnWitnessFails
  <2>21. CASE WitnessFails(t)
    BY <2>21, <2>0 DEF WitnessFails
  <2>22. CASE ReadBlob(t)
    BY <2>22, <2>0 DEF ReadBlob
  <2>23. CASE ReadFails(t)
    BY <2>23, <2>0 DEF ReadFails
  <2>24. CASE Return(t)
    BY <2>24, <2>0 DEF Return
  <2>25. CASE Release(t)
    BY <2>25, <2>0, CallersHoldALease DEF Release
  <2> QED
    BY <1>1, <2>1, <2>2, <2>3, <2>4, <2>5, <2>6, <2>7, <2>8, <2>9, <2>10, <2>11, <2>12, <2>13,
       <2>14, <2>15, <2>16, <2>17, <2>18, <2>19, <2>20, <2>21, <2>22, <2>23, <2>24, <2>25, <2>26
       DEF UserStep
<1>2. ASSUME NEW t \in Users, NEW c \in Capabilities, AcquireLease(t, c)
      PROVE  ClosersInv'
  <2>0. t \in Threads
    BY DEF Threads
  <2> QED
    BY <1>2, <2>0 DEF AcquireLease
<1>3. ASSUME NEW t \in Users, NEW p \in Packs, BeginRead(t, p)
      PROVE  ClosersInv'
  <2>0. t \in Threads
    BY DEF Threads
  <2> QED
    BY <1>3, <2>0 DEF BeginRead
<1>4. ASSUME NEW t \in Closers, CloserStep(t) \/ BeginClose(t) \/ JoinClose(t)
      PROVE  ClosersInv'
  <2>0. t \in Threads
    BY DEF Threads
  <2>1. CASE Drained(t)
    BY <2>1, <2>0 DEF Drained
  <2>2. CASE WakeCloser(t)
    BY <2>2, <2>0 DEF WakeCloser
  <2>3. CASE CleanUpOne(t)
    BY <2>3, <2>0 DEF CleanUpOne
  <2>4. CASE EndClose(t)
    BY <2>4, <2>0 DEF EndClose
  <2>5. CASE BeginClose(t)
    BY <2>5, <2>0 DEF BeginClose
  <2>6. CASE JoinClose(t)
    BY <2>6, <2>0 DEF JoinClose
  <2> QED
    BY <1>4, <2>1, <2>2, <2>3, <2>4, <2>5, <2>6 DEF CloserStep
<1>5. ASSUME NEW c \in Capabilities, NEW r \in Registrations, Reregister(c, r)
      PROVE  ClosersInv'
  BY <1>5 DEF Reregister
<1>6. ASSUME NEW c \in Capabilities, NEW s \in Sources, ChangeSource(c, s)
      PROVE  ClosersInv'
  BY <1>6 DEF ChangeSource
<1> QED
  BY <1>1, <1>2, <1>3, <1>4, <1>5, <1>6 DEF SessionNext

\* Every step keeps what the threads have seen.
LEMMA SeenInvKept ==
  ASSUME VerificationInv, SessionNext
  PROVE  SeenInv'
<1> USE SessionAssumption DEF VerificationInv, SessionTypeOK, RolesInv, SeenInv, SeenHead, SeenClean, GotInv, Holds,
    Owner, Threads, Steps, RequestSteps, WitnessSteps, CloseSteps, UserSteps, CloserSteps,
    OwnSteps, Key, Mine, Go, Take, Poison, Joins, TakeValue, Remove, TakeCleanups, Forget,
    StartSeeing, SeeAlso, Watching, trust, disk, world, call
<1>1. ASSUME NEW t \in Users, UserStep(t)
      PROVE  SeenInv'
  <2>0. t \in Threads
    BY DEF Threads
  <2>1. CASE SelectRegistration(t)
    BY <2>1, <2>0 DEF SelectRegistration
  <2>2. CASE PrepareSnapshot(t)
    BY <2>2, <2>0 DEF PrepareSnapshot
  <2>3. CASE RequestFails(t)
    BY <2>3, <2>0 DEF RequestFails
  <2>4. CASE Raise(t)
    BY <2>4, <2>0 DEF Raise
  <2>5. CASE JoinRefused(t)
    BY <2>5, <2>0 DEF JoinRefused
  <2>6. CASE JoinOtherIdentity(t)
    BY <2>6, <2>0 DEF JoinOtherIdentity
  <2>7. CASE JoinAsOwner(t)
    BY <2>7, <2>0 DEF JoinAsOwner
  <2>8. CASE JoinAsWaiter(t)
    BY <2>8, <2>0 DEF JoinAsWaiter
  <2>9. CASE JoinVerified(t)
    BY <2>9, <2>0 DEF JoinVerified
  <2>10. CASE WakeToVerified(t)
    BY <2>10, <2>0 DEF WakeToVerified
  <2>11. CASE WakeToError(t)
    BY <2>11, <2>0 DEF WakeToError
  <2>12. CASE CheckOut(t)
    BY <2>12, <2>0 DEF CheckOut
  <2>13. CASE GatePasses(t)
    BY <2>13, <2>0 DEF GatePasses
  <2>14. CASE GateFails(t)
    BY <2>14, <2>0 DEF GateFails
  <2>15. CASE Publish(t)
    BY <2>15, <2>0 DEF Publish
  <2>16. CASE PublishRefused(t)
    BY <2>16, <2>0 DEF PublishRefused
  <2>17. CASE Discard(t)
    BY <2>17, <2>0 DEF Discard
  <2>18. CASE WitnessRegistration(t)
    BY <2>18, <2>0 DEF WitnessRegistration
  <2>19. CASE WitnessHead(t)
    <3>1. got[t].registration \in seen[t] /\ SeenHead(t)
      BY <2>19 DEF WitnessHead
    <3> QED
      BY <2>19, <2>0, <3>1 DEF WitnessHead
  <2>26. CASE WitnessClean(t)
    <3>1. got[t].registration \in seen[t] /\ SeenHead(t) /\ SeenClean(t)
      BY <2>26 DEF WitnessClean
    <3> QED
      BY <2>26, <2>0, <3>1 DEF WitnessClean
  <2>20. CASE OwnWitnessFails(t)
    BY <2>20, <2>0 DEF OwnWitnessFails
  <2>21. CASE WitnessFails(t)
    BY <2>21, <2>0 DEF WitnessFails
  <2>22. CASE ReadBlob(t)
    BY <2>22, <2>0 DEF ReadBlob
  <2>23. CASE ReadFails(t)
    BY <2>23, <2>0 DEF ReadFails
  <2>24. CASE Return(t)
    BY <2>24, <2>0 DEF Return
  <2>25. CASE Release(t)
    BY <2>25, <2>0 DEF Release
  <2> QED
    BY <1>1, <2>1, <2>2, <2>3, <2>4, <2>5, <2>6, <2>7, <2>8, <2>9, <2>10, <2>11, <2>12, <2>13,
       <2>14, <2>15, <2>16, <2>17, <2>18, <2>19, <2>20, <2>21, <2>22, <2>23, <2>24, <2>25, <2>26
       DEF UserStep
<1>2. ASSUME NEW t \in Users, NEW c \in Capabilities, AcquireLease(t, c)
      PROVE  SeenInv'
  <2>0. t \in Threads
    BY DEF Threads
  <2> QED
    BY <1>2, <2>0 DEF AcquireLease
<1>3. ASSUME NEW t \in Users, NEW p \in Packs, BeginRead(t, p)
      PROVE  SeenInv'
  <2>0. t \in Threads
    BY DEF Threads
  <2> QED
    BY <1>3, <2>0 DEF BeginRead
<1>4. ASSUME NEW t \in Closers, CloserStep(t) \/ BeginClose(t) \/ JoinClose(t)
      PROVE  SeenInv'
  <2>0. t \in Threads
    BY DEF Threads
  <2>1. CASE Drained(t)
    BY <2>1, <2>0 DEF Drained
  <2>2. CASE WakeCloser(t)
    BY <2>2, <2>0 DEF WakeCloser
  <2>3. CASE CleanUpOne(t)
    BY <2>3, <2>0 DEF CleanUpOne
  <2>4. CASE EndClose(t)
    BY <2>4, <2>0 DEF EndClose
  <2>5. CASE BeginClose(t)
    BY <2>5, <2>0 DEF BeginClose
  <2>6. CASE JoinClose(t)
    BY <2>6, <2>0 DEF JoinClose
  <2> QED
    BY <1>4, <2>1, <2>2, <2>3, <2>4, <2>5, <2>6 DEF CloserStep
<1>5. ASSUME NEW c \in Capabilities, NEW r \in Registrations, Reregister(c, r)
      PROVE  SeenInv'
  BY <1>5 DEF Reregister
<1>6. ASSUME NEW c \in Capabilities, NEW s \in Sources, ChangeSource(c, s)
      PROVE  SeenInv'
  BY <1>6 DEF ChangeSource
<1> QED
  BY <1>1, <1>2, <1>3, <1>4, <1>5, <1>6 DEF SessionNext

\* No step runs the gate of a key again.
LEMMA OneGatePerKeyKept ==
  ASSUME VerificationInv, SessionNext
  PROVE  OneGatePerKey'
<1> USE SessionAssumption DEF VerificationInv, SessionTypeOK, RolesInv, FlightInv, OneGatePerKey,
    Owner, Threads, Steps, RequestSteps, WitnessSteps, CloseSteps, UserSteps, CloserSteps,
    OwnSteps, Key, Mine, Go, Take, Poison, Joins, TakeValue, Remove, TakeCleanups, Forget,
    StartSeeing, SeeAlso, Watching, trust, disk, world, call
<1>1. ASSUME NEW t \in Users, UserStep(t)
      PROVE  OneGatePerKey'
  <2>0. t \in Threads
    BY DEF Threads
  <2>1. CASE SelectRegistration(t)
    BY <2>1, <2>0 DEF SelectRegistration
  <2>2. CASE PrepareSnapshot(t)
    BY <2>2, <2>0 DEF PrepareSnapshot
  <2>3. CASE RequestFails(t)
    BY <2>3, <2>0 DEF RequestFails
  <2>4. CASE Raise(t)
    BY <2>4, <2>0 DEF Raise
  <2>5. CASE JoinRefused(t)
    BY <2>5, <2>0 DEF JoinRefused
  <2>6. CASE JoinOtherIdentity(t)
    BY <2>6, <2>0 DEF JoinOtherIdentity
  <2>7. CASE JoinAsOwner(t)
    BY <2>7, <2>0 DEF JoinAsOwner
  <2>8. CASE JoinAsWaiter(t)
    BY <2>8, <2>0 DEF JoinAsWaiter
  <2>9. CASE JoinVerified(t)
    BY <2>9, <2>0 DEF JoinVerified
  <2>10. CASE WakeToVerified(t)
    BY <2>10, <2>0 DEF WakeToVerified
  <2>11. CASE WakeToError(t)
    BY <2>11, <2>0 DEF WakeToError
  <2>12. CASE CheckOut(t)
    BY <2>12, <2>0 DEF CheckOut
  <2>13. CASE GatePasses(t)
    BY <2>13, <2>0 DEF GatePasses
  <2>14. CASE GateFails(t)
    BY <2>14, <2>0 DEF GateFails
  <2>15. CASE Publish(t)
    BY <2>15, <2>0 DEF Publish
  <2>16. CASE PublishRefused(t)
    BY <2>16, <2>0 DEF PublishRefused
  <2>17. CASE Discard(t)
    BY <2>17, <2>0 DEF Discard
  <2>18. CASE WitnessRegistration(t)
    BY <2>18, <2>0 DEF WitnessRegistration
  <2>19. CASE WitnessHead(t)
    BY <2>19, <2>0 DEF WitnessHead
  <2>26. CASE WitnessClean(t)
    BY <2>26, <2>0 DEF WitnessClean, AfterWitness
  <2>20. CASE OwnWitnessFails(t)
    BY <2>20, <2>0 DEF OwnWitnessFails
  <2>21. CASE WitnessFails(t)
    BY <2>21, <2>0 DEF WitnessFails
  <2>22. CASE ReadBlob(t)
    BY <2>22, <2>0 DEF ReadBlob
  <2>23. CASE ReadFails(t)
    BY <2>23, <2>0 DEF ReadFails
  <2>24. CASE Return(t)
    BY <2>24, <2>0 DEF Return
  <2>25. CASE Release(t)
    BY <2>25, <2>0 DEF Release
  <2> QED
    BY <1>1, <2>1, <2>2, <2>3, <2>4, <2>5, <2>6, <2>7, <2>8, <2>9, <2>10, <2>11, <2>12, <2>13,
       <2>14, <2>15, <2>16, <2>17, <2>18, <2>19, <2>20, <2>21, <2>22, <2>23, <2>24, <2>25, <2>26
       DEF UserStep
<1>2. ASSUME NEW t \in Users, NEW c \in Capabilities, AcquireLease(t, c)
      PROVE  OneGatePerKey'
  <2>0. t \in Threads
    BY DEF Threads
  <2> QED
    BY <1>2, <2>0 DEF AcquireLease
<1>3. ASSUME NEW t \in Users, NEW p \in Packs, BeginRead(t, p)
      PROVE  OneGatePerKey'
  <2>0. t \in Threads
    BY DEF Threads
  <2> QED
    BY <1>3, <2>0 DEF BeginRead
<1>4. ASSUME NEW t \in Closers, CloserStep(t) \/ BeginClose(t) \/ JoinClose(t)
      PROVE  OneGatePerKey'
  <2>0. t \in Threads
    BY DEF Threads
  <2>1. CASE Drained(t)
    BY <2>1, <2>0 DEF Drained
  <2>2. CASE WakeCloser(t)
    BY <2>2, <2>0 DEF WakeCloser
  <2>3. CASE CleanUpOne(t)
    BY <2>3, <2>0 DEF CleanUpOne
  <2>4. CASE EndClose(t)
    BY <2>4, <2>0 DEF EndClose
  <2>5. CASE BeginClose(t)
    BY <2>5, <2>0 DEF BeginClose
  <2>6. CASE JoinClose(t)
    BY <2>6, <2>0 DEF JoinClose
  <2> QED
    BY <1>4, <2>1, <2>2, <2>3, <2>4, <2>5, <2>6 DEF CloserStep
<1>5. ASSUME NEW c \in Capabilities, NEW r \in Registrations, Reregister(c, r)
      PROVE  OneGatePerKey'
  BY <1>5 DEF Reregister
<1>6. ASSUME NEW c \in Capabilities, NEW s \in Sources, ChangeSource(c, s)
      PROVE  OneGatePerKey'
  BY <1>6 DEF ChangeSource
<1> QED
  BY <1>1, <1>2, <1>3, <1>4, <1>5, <1>6 DEF SessionNext

\* Every step keeps the count of the leases.
LEMMA LeasesInvKept ==
  ASSUME VerificationInv, SessionNext
  PROVE  LeasesInv'
<1> USE SessionAssumption DEF VerificationInv, SessionTypeOK, RolesInv, Threads, Steps,
    RequestSteps, WitnessSteps, CloseSteps, UserSteps, CloserSteps, OwnSteps, Go, Joins,
    TakeValue, TakeCleanups, Forget, trust, disk, world, call
<1>1. ASSUME NEW t \in Users, UserStep(t)
      PROVE  LeasesInv'
  <2>0. t \in Threads
    BY DEF Threads
  <2>1. CASE SelectRegistration(t)
    BY <2>1, <2>0, LeasesRest DEF SelectRegistration
  <2>2. CASE PrepareSnapshot(t)
    BY <2>2, <2>0, LeasesRest DEF PrepareSnapshot
  <2>3. CASE RequestFails(t)
    BY <2>3, <2>0, LeasesRest DEF RequestFails
  <2>4. CASE Raise(t)
    BY <2>4, <2>0, LeasesRest DEF Raise
  <2>5. CASE JoinRefused(t)
    BY <2>5, <2>0, LeasesRest DEF JoinRefused
  <2>6. CASE JoinOtherIdentity(t)
    BY <2>6, <2>0, LeasesRest DEF JoinOtherIdentity
  <2>7. CASE JoinAsOwner(t)
    BY <2>7, <2>0, LeasesRest DEF JoinAsOwner
  <2>8. CASE JoinAsWaiter(t)
    BY <2>8, <2>0, LeasesRest DEF JoinAsWaiter
  <2>9. CASE JoinVerified(t)
    BY <2>9, <2>0, LeasesRest DEF JoinVerified
  <2>10. CASE WakeToVerified(t)
    BY <2>10, <2>0, LeasesRest DEF WakeToVerified
  <2>11. CASE WakeToError(t)
    BY <2>11, <2>0, LeasesRest DEF WakeToError
  <2>12. CASE CheckOut(t)
    BY <2>12, <2>0, LeasesRest DEF CheckOut
  <2>13. CASE GatePasses(t)
    BY <2>13, <2>0, LeasesRest DEF GatePasses
  <2>14. CASE GateFails(t)
    BY <2>14, <2>0, LeasesRest DEF GateFails
  <2>15. CASE Publish(t)
    BY <2>15, <2>0, LeasesRest DEF Publish
  <2>16. CASE PublishRefused(t)
    BY <2>16, <2>0, LeasesRest DEF PublishRefused
  <2>17. CASE Discard(t)
    BY <2>17, <2>0, LeasesRest DEF Discard
  <2>18. CASE WitnessRegistration(t)
    BY <2>18, <2>0, LeasesRest DEF WitnessRegistration
  <2>19. CASE WitnessHead(t)
    BY <2>19, <2>0, LeasesRest DEF WitnessHead
  <2>26. CASE WitnessClean(t)
    BY <2>26, <2>0, LeasesRest DEF WitnessClean, AfterWitness
  <2>20. CASE OwnWitnessFails(t)
    BY <2>20, <2>0, LeasesRest DEF OwnWitnessFails
  <2>21. CASE WitnessFails(t)
    BY <2>21, <2>0, LeasesRest DEF WitnessFails
  <2>22. CASE ReadBlob(t)
    BY <2>22, <2>0, LeasesRest DEF ReadBlob
  <2>23. CASE ReadFails(t)
    BY <2>23, <2>0, LeasesRest DEF ReadFails
  <2>24. CASE Return(t)
    BY <2>24, <2>0, LeasesRest DEF Return
  <2>25. CASE Release(t)
    BY <2>25, <2>0, LeasesShrink DEF Release
  <2> QED
    BY <1>1, <2>1, <2>2, <2>3, <2>4, <2>5, <2>6, <2>7, <2>8, <2>9, <2>10, <2>11, <2>12, <2>13,
       <2>14, <2>15, <2>16, <2>17, <2>18, <2>19, <2>20, <2>21, <2>22, <2>23, <2>24, <2>25, <2>26
       DEF UserStep
<1>2. ASSUME NEW t \in Users, NEW c \in Capabilities, AcquireLease(t, c)
      PROVE  LeasesInv'
  <2>0. t \in Threads
    BY DEF Threads
  <2> QED
    BY <1>2, <2>0, LeasesGrow DEF AcquireLease
<1>3. ASSUME NEW t \in Users, NEW p \in Packs, BeginRead(t, p)
      PROVE  LeasesInv'
  <2>0. t \in Threads
    BY DEF Threads
  <2> QED
    BY <1>3, <2>0, LeasesGrow DEF BeginRead
<1>4. ASSUME NEW t \in Closers, CloserStep(t) \/ BeginClose(t) \/ JoinClose(t)
      PROVE  LeasesInv'
  <2>0. t \in Threads
    BY DEF Threads
  <2>1. CASE Drained(t)
    BY <2>1, <2>0, LeasesRest DEF Drained
  <2>2. CASE WakeCloser(t)
    BY <2>2, <2>0, LeasesRest DEF WakeCloser
  <2>3. CASE CleanUpOne(t)
    BY <2>3, <2>0, LeasesRest DEF CleanUpOne
  <2>4. CASE EndClose(t)
    BY <2>4, <2>0, LeasesRest DEF EndClose
  <2>5. CASE BeginClose(t)
    BY <2>5, <2>0, LeasesRest DEF BeginClose
  <2>6. CASE JoinClose(t)
    BY <2>6, <2>0, LeasesRest DEF JoinClose
  <2> QED
    BY <1>4, <2>1, <2>2, <2>3, <2>4, <2>5, <2>6 DEF CloserStep
<1>5. ASSUME NEW c \in Capabilities, NEW r \in Registrations, Reregister(c, r)
      PROVE  LeasesInv'
  BY <1>5, LeasesRest DEF Reregister
<1>6. ASSUME NEW c \in Capabilities, NEW s \in Sources, ChangeSource(c, s)
      PROVE  LeasesInv'
  BY <1>6, LeasesRest DEF ChangeSource
<1> QED
  BY <1>1, <1>2, <1>3, <1>4, <1>5, <1>6 DEF SessionNext

\* Every step keeps the checkouts retained.
LEMMA CheckoutsRetainedKept ==
  ASSUME VerificationInv, SessionNext
  PROVE  CheckoutsRetained'
<1> USE SessionAssumption DEF VerificationInv, SessionTypeOK, RolesInv, Holds, Owner, Threads,
    Steps, RequestSteps, WitnessSteps, CloseSteps, UserSteps, CloserSteps, OwnSteps, Go, Take,
    Joins, TakeValue, Forget, trust, disk, world, call
<1>1. ASSUME NEW t \in Users, UserStep(t)
      PROVE  CheckoutsRetained'
  <2>0. t \in Threads
    BY DEF Threads
  <2>1. CASE SelectRegistration(t)
    BY <2>1, <2>0, RetainedRest DEF SelectRegistration
  <2>2. CASE PrepareSnapshot(t)
    BY <2>2, <2>0, RetainedRest DEF PrepareSnapshot
  <2>3. CASE RequestFails(t)
    BY <2>3, <2>0, RetainedRest DEF RequestFails
  <2>4. CASE Raise(t)
    BY <2>4, <2>0, RetainedRest DEF Raise, Poison
  <2>5. CASE JoinRefused(t)
    BY <2>5, <2>0, RetainedRest DEF JoinRefused
  <2>6. CASE JoinOtherIdentity(t)
    BY <2>6, <2>0, RetainedRest DEF JoinOtherIdentity, Poison
  <2>7. CASE JoinAsOwner(t)
    BY <2>7, <2>0, RetainedRest DEF JoinAsOwner
  <2>8. CASE JoinAsWaiter(t)
    BY <2>8, <2>0, RetainedRest DEF JoinAsWaiter
  <2>9. CASE JoinVerified(t)
    BY <2>9, <2>0, RetainedRest DEF JoinVerified
  <2>10. CASE WakeToVerified(t)
    BY <2>10, <2>0, RetainedRest DEF WakeToVerified
  <2>11. CASE WakeToError(t)
    BY <2>11, <2>0, RetainedRest DEF WakeToError
  <2>12. CASE CheckOut(t)
    <3>1. Holds(t)' /\ ~Holds(t) /\ got'[t] = Mine(t)
      BY <2>12, <2>0 DEF CheckOut
    <3>2. \A u \in Users \ {t} : Holds(u) => Holds(u)' /\ got'[u] = got[u]
      BY <2>12, <2>0 DEF CheckOut
    <3> QED
      BY <2>12, <3>1, <3>2, RetainedAdded DEF CheckOut
  <2>13. CASE GatePasses(t)
    BY <2>13, <2>0, RetainedRest DEF GatePasses
  <2>14. CASE GateFails(t)
    BY <2>14, <2>0, RetainedRemoved DEF GateFails
  <2>15. CASE Publish(t)
    <3>1. got[t] \in Packs
      BY <2>15, OwnersKnowTheirPack DEF Publish
    <3>2. \A u \in Users \ {t} : Holds(u) => Holds(u)'
      BY <2>15, <2>0 DEF Publish
    <3> QED
      BY <2>15, <3>1, <3>2, RetainedPublished DEF Publish
  <2>16. CASE PublishRefused(t)
    BY <2>16, <2>0, RetainedRest DEF PublishRefused
  <2>17. CASE Discard(t)
    BY <2>17, <2>0, RetainedRemoved DEF Discard
  <2>18. CASE WitnessRegistration(t)
    BY <2>18, <2>0, RetainedRest DEF WitnessRegistration
  <2>19. CASE WitnessHead(t)
    BY <2>19, <2>0, RetainedRest DEF WitnessHead
  <2>26. CASE WitnessClean(t)
    BY <2>26, <2>0, RetainedRest DEF WitnessClean, AfterWitness
  <2>20. CASE OwnWitnessFails(t)
    BY <2>20, <2>0, RetainedRemoved DEF OwnWitnessFails
  <2>21. CASE WitnessFails(t)
    BY <2>21, <2>0, RetainedRest DEF WitnessFails, Poison
  <2>22. CASE ReadBlob(t)
    BY <2>22, <2>0, RetainedRest DEF ReadBlob
  <2>23. CASE ReadFails(t)
    BY <2>23, <2>0, RetainedRest DEF ReadFails
  <2>24. CASE Return(t)
    BY <2>24, <2>0, RetainedRest DEF Return
  <2>25. CASE Release(t)
    BY <2>25, <2>0, RetainedRest DEF Release
  <2> QED
    BY <1>1, <2>1, <2>2, <2>3, <2>4, <2>5, <2>6, <2>7, <2>8, <2>9, <2>10, <2>11, <2>12, <2>13,
       <2>14, <2>15, <2>16, <2>17, <2>18, <2>19, <2>20, <2>21, <2>22, <2>23, <2>24, <2>25, <2>26
       DEF UserStep
<1>2. ASSUME NEW t \in Users, NEW c \in Capabilities, AcquireLease(t, c)
      PROVE  CheckoutsRetained'
  <2>0. t \in Threads
    BY DEF Threads
  <2> QED
    BY <1>2, <2>0, RetainedRest DEF AcquireLease
<1>3. ASSUME NEW t \in Users, NEW p \in Packs, BeginRead(t, p)
      PROVE  CheckoutsRetained'
  <2>0. t \in Threads
    BY DEF Threads
  <2> QED
    BY <1>3, <2>0, RetainedRest DEF BeginRead
<1>4. ASSUME NEW t \in Closers, CloserStep(t) \/ BeginClose(t) \/ JoinClose(t)
      PROVE  CheckoutsRetained'
  <2>0. t \in Threads
    BY DEF Threads
  <2>1. CASE Drained(t)
    <3>1. pending[t] = <<>>
      BY <2>1, <2>0 DEF Drained, ClosersInv
    <3>2. \A u \in Users : Holds(u) => Holds(u)' /\ got'[u] = got[u]
      BY <2>1, <2>0 DEF Drained, TakeCleanups
    <3> QED
      BY <2>1, <3>1, <3>2, RetainedTaken DEF Drained
  <2>2. CASE WakeCloser(t)
    BY <2>2, <2>0, RetainedRest DEF WakeCloser
  <2>3. CASE CleanUpOne(t)
    <3>1. \A u \in Users : Holds(u) => Holds(u)'
      BY <2>3 DEF CleanUpOne
    <3> QED
      BY <2>3, <3>1, RetainedCleaned DEF CleanUpOne
  <2>4. CASE EndClose(t)
    BY <2>4, <2>0, RetainedRest DEF EndClose
  <2>5. CASE BeginClose(t)
    <3>1. pending[t] = <<>>
      BY <2>5, <2>0 DEF BeginClose, ClosersInv
    <3>2. \A u \in Users : Holds(u) => Holds(u)' /\ got'[u] = got[u]
      BY <2>5, <2>0 DEF BeginClose, TakeCleanups
    <3>3. CASE TakeCleanups(t)
      BY <2>5, <3>1, <3>2, <3>3, RetainedTaken DEF BeginClose
    <3>4. CASE UNCHANGED <<cleanups, pending>>
      BY <2>5, <3>2, <3>4, RetainedRest DEF BeginClose
    <3> QED
      BY <2>5, <3>3, <3>4 DEF BeginClose
  <2>6. CASE JoinClose(t)
    BY <2>6, <2>0, RetainedRest DEF JoinClose
  <2> QED
    BY <1>4, <2>1, <2>2, <2>3, <2>4, <2>5, <2>6 DEF CloserStep
<1>5. ASSUME NEW c \in Capabilities, NEW r \in Registrations, Reregister(c, r)
      PROVE  CheckoutsRetained'
  BY <1>5, RetainedRest DEF Reregister
<1>6. ASSUME NEW c \in Capabilities, NEW s \in Sources, ChangeSource(c, s)
      PROVE  CheckoutsRetained'
  BY <1>6, RetainedRest DEF ChangeSource
<1> QED
  BY <1>1, <1>2, <1>3, <1>4, <1>5, <1>6 DEF SessionNext

\* Every step keeps what is held or published on disk.
LEMMA PublishedStaysKept ==
  ASSUME VerificationInv, SessionNext
  PROVE  PublishedStays'
<1> USE SessionAssumption DEF VerificationInv, SessionTypeOK, RolesInv, Holds, Owner, Cleaned,
    ClosersInv, Draining, Threads, Steps, RequestSteps, WitnessSteps, CloseSteps, UserSteps,
    CloserSteps, OwnSteps, Go, Take, Poison, Joins, TakeValue, Forget, trust, disk, world, call
<1>1. ASSUME NEW t \in Users, UserStep(t)
      PROVE  PublishedStays'
  <2>0. t \in Threads
    BY DEF Threads
  <2>1. CASE SelectRegistration(t)
    BY <2>1, <2>0, PublishedRest DEF SelectRegistration
  <2>2. CASE PrepareSnapshot(t)
    BY <2>2, <2>0, PublishedRest DEF PrepareSnapshot
  <2>3. CASE RequestFails(t)
    BY <2>3, <2>0, PublishedRest DEF RequestFails
  <2>4. CASE Raise(t)
    BY <2>4, <2>0, PublishedRest DEF Raise
  <2>5. CASE JoinRefused(t)
    BY <2>5, <2>0, PublishedRest DEF JoinRefused
  <2>6. CASE JoinOtherIdentity(t)
    BY <2>6, <2>0, PublishedRest DEF JoinOtherIdentity
  <2>7. CASE JoinAsOwner(t)
    BY <2>7, <2>0, PublishedRest DEF JoinAsOwner
  <2>8. CASE JoinAsWaiter(t)
    BY <2>8, <2>0, PublishedRest DEF JoinAsWaiter
  <2>9. CASE JoinVerified(t)
    BY <2>9, <2>0, PublishedRest DEF JoinVerified
  <2>10. CASE WakeToVerified(t)
    BY <2>10, <2>0, PublishedRest DEF WakeToVerified
  <2>11. CASE WakeToError(t)
    BY <2>11, <2>0, PublishedRest DEF WakeToError
  <2>12. CASE CheckOut(t)
    BY <2>12, <2>0, PublishedRest DEF CheckOut
  <2>13. CASE GatePasses(t)
    BY <2>13, <2>0, PublishedRest DEF GatePasses
  <2>14. CASE GateFails(t)
    BY <2>14, <2>0, PublishedOutlivesRemoval DEF GateFails
  <2>15. CASE Publish(t)
    <3>1. got[t] \in checkouts
      BY <2>15 DEF Publish, PublishedStays
    <3> QED
      BY <2>15, <2>0, <3>1, PublishedRest DEF Publish
  <2>16. CASE PublishRefused(t)
    BY <2>16, <2>0, PublishedRest DEF PublishRefused
  <2>17. CASE Discard(t)
    BY <2>17, <2>0, PublishedOutlivesRemoval DEF Discard
  <2>18. CASE WitnessRegistration(t)
    BY <2>18, <2>0, PublishedRest DEF WitnessRegistration
  <2>19. CASE WitnessHead(t)
    BY <2>19, <2>0, PublishedRest DEF WitnessHead
  <2>26. CASE WitnessClean(t)
    BY <2>26, <2>0, PublishedRest DEF WitnessClean, AfterWitness
  <2>20. CASE OwnWitnessFails(t)
    BY <2>20, <2>0, PublishedOutlivesRemoval DEF OwnWitnessFails
  <2>21. CASE WitnessFails(t)
    BY <2>21, <2>0, PublishedRest DEF WitnessFails
  <2>22. CASE ReadBlob(t)
    BY <2>22, <2>0, PublishedRest DEF ReadBlob
  <2>23. CASE ReadFails(t)
    BY <2>23, <2>0, PublishedRest DEF ReadFails
  <2>24. CASE Return(t)
    BY <2>24, <2>0, PublishedRest DEF Return
  <2>25. CASE Release(t)
    BY <2>25, <2>0, PublishedRest DEF Release
  <2> QED
    BY <1>1, <2>1, <2>2, <2>3, <2>4, <2>5, <2>6, <2>7, <2>8, <2>9, <2>10, <2>11, <2>12, <2>13,
       <2>14, <2>15, <2>16, <2>17, <2>18, <2>19, <2>20, <2>21, <2>22, <2>23, <2>24, <2>25, <2>26
       DEF UserStep
<1>2. ASSUME NEW t \in Users, NEW c \in Capabilities, AcquireLease(t, c)
      PROVE  PublishedStays'
  <2>0. t \in Threads
    BY DEF Threads
  <2> QED
    BY <1>2, <2>0, PublishedRest DEF AcquireLease
<1>3. ASSUME NEW t \in Users, NEW p \in Packs, BeginRead(t, p)
      PROVE  PublishedStays'
  <2>0. t \in Threads
    BY DEF Threads
  <2> QED
    BY <1>3, <2>0, PublishedRest DEF BeginRead
<1>4. ASSUME NEW t \in Closers, CloserStep(t) \/ BeginClose(t) \/ JoinClose(t)
      PROVE  PublishedStays'
  <2>0. t \in Threads
    BY DEF Threads
  <2>1. CASE Drained(t)
    BY <2>1, <2>0, PublishedRest DEF Drained, TakeCleanups
  <2>2. CASE WakeCloser(t)
    BY <2>2, <2>0, PublishedRest DEF WakeCloser
  <2>3. CASE CleanUpOne(t)
    <3>1. Cleaned /\ Cleaned'
      BY <2>3 DEF CleanUpOne
    <3>2. \A u \in Users : pc[u] = "IDLE"
      BY <3>1, CallersHoldALease
    <3>3. \A u \in Users : ~Holds(u)'
      BY <2>3, <3>2 DEF CleanUpOne
    <3> QED
      BY <3>1, <3>3 DEF PublishedStays
  <2>4. CASE EndClose(t)
    BY <2>4, <2>0, PublishedRest DEF EndClose
  <2>5. CASE BeginClose(t)
    <3>1. ~Cleaned
      BY <2>5 DEF BeginClose
    <3>2. \A u \in Users : Holds(u)' => Holds(u) /\ got'[u] = got[u]
      BY <2>5, <2>0 DEF BeginClose, TakeCleanups
    <3> QED
      BY <2>5, <3>1, <3>2, PublishedRest DEF BeginClose
  <2>6. CASE JoinClose(t)
    BY <2>6, <2>0, PublishedRest DEF JoinClose
  <2> QED
    BY <1>4, <2>1, <2>2, <2>3, <2>4, <2>5, <2>6 DEF CloserStep
<1>5. ASSUME NEW c \in Capabilities, NEW r \in Registrations, Reregister(c, r)
      PROVE  PublishedStays'
  BY <1>5, PublishedRest DEF Reregister
<1>6. ASSUME NEW c \in Capabilities, NEW s \in Sources, ChangeSource(c, s)
      PROVE  PublishedStays'
  BY <1>6, PublishedRest DEF ChangeSource
<1> QED
  BY <1>1, <1>2, <1>3, <1>4, <1>5, <1>6 DEF SessionNext

-----------------------------------------------------------------------------
(***************************************************************************)
(* The theorems.                                                           *)
(***************************************************************************)

LEMMA VerificationBegins == SessionInit => VerificationInv
<1> SUFFICES ASSUME SessionInit
             PROVE  VerificationInv
  OBVIOUS
<1> USE SessionAssumption DEF SessionInit
<1>1. SessionTypeOK
  BY DEF SessionTypeOK, Sources, Steps
<1>2. InCall = {} /\ \A t \in Threads : ~Owner(t) /\ ~Holds(t) /\ ~Answered(t)
  BY DEF InCall, Owner, Holds, Answered, OwnSteps, WitnessSteps, Threads
<1>3. LeasesInv
  BY <1>2, FS_EmptySet DEF LeasesInv
<1>4. RolesInv /\ FlightInv /\ GotInv /\ OneGatePerKey
  BY <1>2 DEF RolesInv, FlightInv, GotInv, OneGatePerKey, UserSteps, CloserSteps, OwnSteps,
              WitnessSteps, Threads
<1>5. ClosersInv /\ CheckoutsRetained /\ PublishedStays /\ SeenInv
  BY <1>2 DEF ClosersInv, CheckoutsRetained, PublishedStays, SeenInv, Draining, Cleaned, Threads
<1> QED
  BY <1>1, <1>3, <1>4, <1>5 DEF VerificationInv

\* Every behaviour of the session keeps the inductive invariant.
LEMMA VerificationIsInvariant == SessionSpec => []VerificationInv
<1>1. VerificationInv /\ [SessionNext]_sessionVars => VerificationInv'
  <2>1. ASSUME VerificationInv, SessionNext
        PROVE  VerificationInv'
    BY <2>1, SessionTypeOKKept, RolesInvKept, LeasesInvKept, FlightInvKept, GotInvKept, ClosersInvKept,
       CheckoutsRetainedKept, PublishedStaysKept, SeenInvKept, OneGatePerKeyKept
       DEF VerificationInv
  <2>2. ASSUME VerificationInv, UNCHANGED sessionVars
        PROVE  VerificationInv'
    BY <2>2
       DEF VerificationInv, sessionVars, trust, disk, world, call, SessionTypeOK, RolesInv, LeasesInv,
           InCall, FlightInv, GotInv, ClosersInv, CheckoutsRetained, PublishedStays, SeenInv, SeenHead,
           SeenClean, OneGatePerKey, Owner, Holds, Landed, Answered, Draining, Cleaned, Retained, Key,
           Mine
  <2> QED
    BY <2>1, <2>2
<1> QED
  BY <1>1, VerificationBegins, PTL DEF SessionSpec

\* In every behaviour of a CapabilityVerificationSession: the candidate gate of a
\* key runs at most once, the packs handed out for a capability are one pack, a
\* reader finds the checkout it reads, and a closed session leaves no use and
\* no checkout behind but those whose removal failed.
THEOREM SessionIsSound == SessionSpec => []SessionInv
<1>1. ASSUME VerificationInv
      PROVE  SessionInv
  <2> USE <1>1 DEF VerificationInv
  <2>1. OneIdentityPerCapability
    BY DEF OneIdentityPerCapability, GotInv, Landed, FlightInv, Packs
  <2>2. ReadersKeepCheckout
    <3> SUFFICES ASSUME NEW t \in Users, pc[t] = "READ"
                 PROVE  got[t] \in checkouts
      BY DEF ReadersKeepCheckout
    <3>1. ~Cleaned
      BY CallersHoldALease
    <3>2. Landed(got[t]) /\ got[t].key \in Keys
      BY DEF GotInv, Answered, Landed, Packs
    <3> QED
      BY <3>1, <3>2 DEF PublishedStays, Landed
  <2>3. ClosedLeavesNothing
    <3> SUFFICES ASSUME session = "CLOSED"
                 PROVE  leases = 0 /\ checkouts \subseteq stuck
      BY DEF ClosedLeavesNothing
    <3>1. leases = 0 /\ cleanups = <<>>
      BY DEF ClosersInv, Cleaned
    <3>2. \A c \in Closers : pending[c] = <<>>
      BY DEF ClosersInv, Draining
    <3>3. \A t \in Users : ~Holds(t)
      <4>1. \A t \in Users : pc[t] = "IDLE"
        BY CallersHoldALease DEF Cleaned
      <4> QED
        BY <4>1 DEF Holds, Owner, OwnSteps, WitnessSteps
    <3> QED
      BY <3>1, <3>2, <3>3 DEF CheckoutsRetained, Retained
  <2> QED
    BY <2>1, <2>2, <2>3 DEF SessionInv
<1> QED
  BY <1>1, VerificationIsInvariant, PTL

\* In every behaviour, a call that answers with a pack or with its bytes has seen
\* since it began the registration of the pack, a source at the pinned commit and
\* a clean source, each at a moment of its own.
THEOREM AnswersStayFresh == SessionSpec => []AnswersAreFresh
<1>1. VerificationInv => AnswersAreFresh
  BY DEF VerificationInv, SeenInv, AnswersAreFresh, SeenHead, SeenClean
<1> QED
  BY <1>1, VerificationIsInvariant, PTL

\* In every behaviour, a session that is not open publishes nothing any more.
THEOREM NothingIsPublishedLate == SessionSpec => NothingPublishedLate
<1>1. [SessionNext]_sessionVars => [session # "OPEN" => verified' \subseteq verified]_sessionVars
  BY DEF SessionNext, UserStep, CloserStep, SelectRegistration, PrepareSnapshot, RequestFails, Raise,
         JoinRefused, JoinOtherIdentity, JoinAsOwner, JoinAsWaiter, JoinVerified, WakeToVerified,
         WakeToError, CheckOut, GatePasses, GateFails, Publish, PublishRefused, Discard,
         WitnessRegistration, WitnessHead, WitnessClean, OwnWitnessFails, WitnessFails, ReadBlob, ReadFails, Return,
         Release, AcquireLease, BeginRead, Drained, WakeCloser, CleanUpOne, EndClose, BeginClose,
         JoinClose, Reregister, ChangeSource, TakeCleanups, Poison, trust, sessionVars
<1> QED
  BY <1>1, PTL DEF SessionSpec, NothingPublishedLate
=============================================================================
