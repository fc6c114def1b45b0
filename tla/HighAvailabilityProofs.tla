----------------------- MODULE HighAvailabilityProofs -----------------------
(***************************************************************************)
(* Theorems about the parts of ha.py: the fenced leases (FencedLease), for *)
(* any number of replicas, any TTL and any bound on clock and token, and   *)
(* the admission and drain of a replica (RuntimeLifecycle), for every      *)
(* finite set of requests, any tenants and every capacity envelope.        *)
(***************************************************************************)
EXTENDS FencedLease, RuntimeLifecycle, FiniteSetTheorems, TLAPS

-----------------------------------------------------------------------------
(* Leases: types *)

\* Every variable keeps its type.
THEOREM LeaseTyping == LeaseSpec => []LeaseTypeOK
<1>1. LeaseInit => LeaseTypeOK
  BY DEF LeaseInit, LeaseTypeOK, FencedLeases, LeaseRequests
<1>2. LeaseTypeOK /\ [LeaseNext]_leaseVars => LeaseTypeOK'
  <2> SUFFICES ASSUME LeaseTypeOK, [LeaseNext]_leaseVars PROVE LeaseTypeOK'
    OBVIOUS
  <2> USE LeaseAssumption DEF LeaseTypeOK, FencedLeases, LeaseRequests
  <2>1. CASE Tick
    BY <2>1 DEF Tick
  <2>2. ASSUME NEW o \in Owners, Acquire(o) PROVE LeaseTypeOK'
    BY <2>2 DEF Acquire, Asks, Answer, Done
  <2>3. ASSUME NEW o \in Owners, Reacquire(o) PROVE LeaseTypeOK'
    BY <2>3 DEF Reacquire, Asks, Answer, Done
  <2>4. ASSUME NEW o \in Owners, NEW op \in {"acquire", "renew", "release"}, ReadClock(o, op)
        PROVE  LeaseTypeOK'
    BY <2>4 DEF ReadClock
  <2>5. ASSUME NEW o \in Owners, Renew(o) PROVE LeaseTypeOK'
    BY <2>5 DEF Renew, Asks, Answer, Done
  <2>6. ASSUME NEW o \in Owners, Release(o) PROVE LeaseTypeOK'
    BY <2>6 DEF Release, Drop, Done
  <2>7. ASSUME NEW o \in Owners, LeaseLost(o) PROVE LeaseTypeOK'
    BY <2>7 DEF LeaseLost, Drop, Done
  <2>8. ASSUME NEW o \in Owners, RollBack(o) \/ Crash(o) PROVE LeaseTypeOK'
    BY <2>8 DEF RollBack, Crash, Drop, Done
  <2>9. CASE UNCHANGED leaseVars
    BY <2>9 DEF leaseVars
  <2> QED
    BY <2>1, <2>2, <2>3, <2>4, <2>5, <2>6, <2>7, <2>8, <2>9 DEF LeaseNext
<1> QED
  BY <1>1, <1>2, PTL DEF LeaseSpec

-----------------------------------------------------------------------------
(* Leases: ownership *)

\* A row is only taken over, handed back or given up by a step that keeps the
\* newest token in its owner's hands, whatever the clock said when the step
\* was decided.
THEOREM LeaseInvariance == LeaseSpec => []LeaseInv
<1>1. LeaseInit => LeaseInv
  BY LeaseAssumption
     DEF LeaseInit, LeaseInv, LeaseTypeOK, FencedLeases, LeaseRequests, TokenOfOwner,
         TokensAreDistinct, BeliefIsCurrent, believes, ReadingsAreOld, RowIsShort
<1>2. LeaseTypeOK' /\ LeaseInv /\ [LeaseNext]_leaseVars => LeaseInv'
  <2> DEFINE Parts == TokenOfOwner /\ TokensAreDistinct /\ BeliefIsCurrent
                      /\ ReadingsAreOld /\ RowIsShort
  <2> SUFFICES ASSUME LeaseTypeOK', LeaseInv, [LeaseNext]_leaseVars PROVE Parts'
    BY DEF LeaseInv
  <2> USE LeaseAssumption DEF LeaseInv, LeaseTypeOK, FencedLeases, LeaseRequests, TokenOfOwner,
                              TokensAreDistinct, BeliefIsCurrent, believes, ReadingsAreOld,
                              RowIsShort
  <2>1. CASE Tick
    BY <2>1 DEF Tick
  <2>2. ASSUME NEW o \in Owners, Acquire(o) PROVE Parts'
    <3>1. \A p \in Owners : ~ believes(p)
      BY <2>2 DEF Acquire, Asks, unexpired
    <3>2. \A p \in Owners \ {o} : /\ held'[p] = held[p] /\ pending'[p] = pending[p]
                                   /\ (p \in givenUp') = (p \in givenUp)
      BY <2>2 DEF Acquire, Answer, Done
    <3>3. /\ fence' = fence + 1 /\ owner' = o /\ clock' = clock
          /\ expires' = pending[o].now + TTL /\ pending[o].now \in Nat
          /\ pending[o].now <= clock
          /\ pending'[o] = None
      BY <2>2 DEF Acquire, Asks, Done
    <3>4. \/ held'[o] = held[o] /\ (o \in givenUp') = (o \in givenUp)
          \/ held'[o] # None /\ held'[o].fence = fence' /\ held'[o].expires = expires'
      BY <2>2 DEF Acquire, Answer
    <3>5. \A p \in Owners : held[p] # None =>
             held[p].fence \in Nat /\ held[p].expires \in Nat /\ held[p].fence < fence'
      BY <3>3
    <3>6. TokenOfOwner'
      BY <3>2, <3>3, <3>4, <3>5
    <3>7. TokensAreDistinct'
      BY <3>2, <3>4, <3>5
    <3>8. BeliefIsCurrent'
      BY <3>1, <3>2, <3>3, <3>4
    <3>9. ReadingsAreOld' /\ RowIsShort'
      BY <3>2, <3>3, <3>4
    <3> QED
      BY <3>6, <3>7, <3>8, <3>9
  <2>3. ASSUME NEW o \in Owners, Reacquire(o) PROVE Parts'
    <3>1. \A p \in Owners \ {o} : /\ held'[p] = held[p] /\ pending'[p] = pending[p]
                                   /\ (p \in givenUp') = (p \in givenUp)
      BY <2>3 DEF Reacquire, Answer, Done
    <3>2. UNCHANGED <<clock, fence, owner, expires>> /\ pending'[o] = None
      BY <2>3 DEF Reacquire, Done
    <3>3. \/ held'[o] = held[o] /\ (o \in givenUp') = (o \in givenUp)
          \/ /\ owner = o
             /\ held'[o] # None /\ held'[o].fence = fence /\ held'[o].expires = expires
      BY <2>3 DEF Reacquire, Answer
    <3>4. TokenOfOwner' /\ TokensAreDistinct'
      BY <3>1, <3>2, <3>3
    <3>5. BeliefIsCurrent'
      BY <3>1, <3>2, <3>3
    <3>6. ReadingsAreOld' /\ RowIsShort'
      BY <3>1, <3>2, <3>3
    <3> QED
      BY <3>4, <3>5, <3>6
  <2>4. ASSUME NEW o \in Owners, NEW op \in {"acquire", "renew", "release"}, ReadClock(o, op)
        PROVE  Parts'
    BY <2>4 DEF ReadClock
  <2>5. ASSUME NEW o \in Owners, Renew(o) PROVE Parts'
    <3>1. \A p \in Owners \ {o} : /\ held'[p] = held[p] /\ pending'[p] = pending[p]
                                   /\ (p \in givenUp') = (p \in givenUp)
      BY <2>5 DEF Renew, Answer, Done
    <3>2. UNCHANGED <<clock, fence, owner>> /\ pending'[o] = None
      BY <2>5 DEF Renew, Done
    <3>3. /\ owner = o /\ held[o] # None /\ held[o].fence = fence
          /\ expires' = pending[o].now + TTL
          /\ pending[o].now \in Nat /\ pending[o].now <= clock
          /\ held[o].expires \in Nat /\ held[o].expires <= expires'
      BY <2>5 DEF Renew, Asks, current
    <3>4. \/ held'[o] = held[o] /\ (o \in givenUp') = (o \in givenUp)
          \/ held'[o] # None /\ held'[o].fence = fence /\ held'[o].expires = expires'
      BY <2>5 DEF Renew, Answer
    <3>5. TokenOfOwner' /\ TokensAreDistinct'
      BY <3>1, <3>2, <3>3, <3>4
    <3>6. BeliefIsCurrent'
      BY <3>1, <3>2, <3>3, <3>4
    <3>7. ReadingsAreOld' /\ RowIsShort'
      BY <3>1, <3>2, <3>3, <3>4
    <3> QED
      BY <3>5, <3>6, <3>7
  <2>6. ASSUME NEW o \in Owners, Release(o) PROVE Parts'
    BY <2>6 DEF Release, Drop, Asks, Done, current
  <2>7. ASSUME NEW o \in Owners, LeaseLost(o) PROVE Parts'
    BY <2>7 DEF LeaseLost, Drop, Done
  <2>8. ASSUME NEW o \in Owners, RollBack(o) PROVE Parts'
    BY <2>8 DEF RollBack, Done
  <2>9. ASSUME NEW o \in Owners, Crash(o) PROVE Parts'
    BY <2>9 DEF Crash, Drop, Done
  <2>10. CASE UNCHANGED leaseVars
    BY <2>10 DEF leaseVars
  <2> HIDE DEF Parts, LeaseInv, LeaseTypeOK, TokenOfOwner, TokensAreDistinct, BeliefIsCurrent,
               ReadingsAreOld, RowIsShort
  <2> QED
    BY <2>1, <2>2, <2>3, <2>4, <2>5, <2>6, <2>7, <2>8, <2>9, <2>10 DEF LeaseNext
<1> QED
  BY <1>1, <1>2, LeaseTyping, PTL DEF LeaseSpec

\* No two replicas hold unexpired leases of one resource that they have not
\* asked to release at the same time, whichever answers are lost.
THEOREM ExclusiveOwner == LeaseSpec => []OneUnexpiredOwner
<1>1. LeaseInv => OneUnexpiredOwner
  BY DEF LeaseInv, BeliefIsCurrent, OneUnexpiredOwner
<1> QED
  BY <1>1, LeaseInvariance, PTL

\* An unexpired lease in hand that was not given up is the row's own lease
\* (ha.py 142-194).
THEOREM BeliefsHold == LeaseSpec => []BeliefIsCurrent
<1>1. LeaseInv => BeliefIsCurrent
  BY DEF LeaseInv
<1> QED
  BY <1>1, LeaseInvariance, PTL

\* No two replicas hold one token (ha.py 142-165).
THEOREM TokensDiffer == LeaseSpec => []TokensAreDistinct
<1>1. LeaseInv => TokensAreDistinct
  BY DEF LeaseInv
<1> QED
  BY <1>1, LeaseInvariance, PTL

\* The token never falls and ownership only passes on by a larger token, after
\* the lease before it expired or was released.
THEOREM Fencing == LeaseSpec => TakeoverIsFenced
<1> DEFINE Fenced == /\ fence <= fence'
                     /\ owner' \notin {None, owner} => fence < fence'
                     /\ owner # None /\ owner' \notin {None, owner} => expires <= clock
<1>1. LeaseInv /\ [LeaseNext]_leaseVars => [Fenced]_leaseVars
  <2> SUFFICES ASSUME LeaseInv, LeaseNext PROVE Fenced
    OBVIOUS
  <2> USE DEF LeaseInv, LeaseTypeOK
  <2>1. CASE Tick
    BY <2>1 DEF Tick
  <2>2. ASSUME NEW o \in Owners, Acquire(o) PROVE Fenced
    BY <2>2 DEF Acquire, Asks, unexpired, ReadingsAreOld, LeaseRequests
  <2>3. ASSUME NEW o \in Owners,
               \/ Reacquire(o) \/ Renew(o) \/ LeaseLost(o) \/ RollBack(o) \/ Crash(o)
               \/ \E op \in {"acquire", "renew", "release"} : ReadClock(o, op)
        PROVE  Fenced
    BY <2>3 DEF Reacquire, ReadClock, Renew, LeaseLost, RollBack, Crash
  <2>4. ASSUME NEW o \in Owners, Release(o) PROVE Fenced
    BY <2>4 DEF Release
  <2> QED
    BY <2>1, <2>2, <2>3, <2>4 DEF LeaseNext
<1> QED
  BY <1>1, LeaseInvariance, PTL DEF LeaseSpec, TakeoverIsFenced

-----------------------------------------------------------------------------
(* Admission and drain *)

\* types apart from the counters, whose type follows from what they count
Shape ==
    /\ state \in RuntimeState
    /\ perTenant \in [Tenants -> Int]
    /\ pc \in [Requests -> {"new", "inside", "holding", "leaving", "ended"}]
    /\ lifespan \in {"serving", "draining", "waiting", "stopping", "done"}
    /\ drained \in BOOLEAN

\* draining begins with the shutdown and is not undone; wait_for_drain has
\* answered only when the application goes on to stop
Phases ==
    /\ lifespan # "serving" => state # "accepting"
    /\ drained => lifespan \in {"stopping", "done"}

LifecycleInv == Shape /\ Phases /\ CountersAreExact /\ EnvelopeHolds /\ DrainedIsEmpty

\* The counted sets are finite, so their cardinalities are natural numbers.
LEMMA Countable ==
  /\ IsFiniteSet(Inside) /\ Cardinality(Inside) \in Nat
  /\ IsFiniteSet(Holding) /\ Cardinality(Holding) \in Nat
  /\ \A t : IsFiniteSet(HoldingOf(t)) /\ Cardinality(HoldingOf(t)) \in Nat
<1>1. IsFiniteSet(Requests)
  BY LifecycleAssumption
<1>2. /\ Inside \in SUBSET Requests /\ Holding \in SUBSET Requests
      /\ \A t : HoldingOf(t) \in SUBSET Requests
  BY DEF Inside, Holding, HoldingOf
<1>3. \A S \in SUBSET Requests : IsFiniteSet(S)
  BY <1>1, FS_Subset
<1> QED BY <1>2, <1>3, FS_CardinalityType

\* The invariant gives the whole of TypeOK.
LEMMA Counted == LifecycleInv => TypeOK
<1> SUFFICES ASSUME LifecycleInv PROVE TypeOK
  OBVIOUS
<1>1. inFlight \in Nat /\ total \in Nat /\ \A t \in Tenants : perTenant[t] \in Nat
  BY Countable DEF LifecycleInv, CountersAreExact
<1>2. perTenant \in [Tenants -> Nat]
  BY <1>1 DEF LifecycleInv, Shape
<1> QED BY <1>1, <1>2 DEF LifecycleInv, Shape, TypeOK

\* A step that moves one request from one stage to the next.
Moves(r, stage) == pc' = [pc EXCEPT ![r] = stage]

\* A request that takes no slot and returns none leaves the slots alone.
LEMMA SlotsStay ==
  ASSUME Shape, NEW r \in Requests, NEW stage, Moves(r, stage),
         pc[r] # "holding", stage # "holding"
  PROVE  Holding' = Holding /\ \A t : HoldingOf(t)' = HoldingOf(t)
<1>1. Holding' = Holding
  BY DEF Moves, Shape, Holding
<1> QED BY <1>1 DEF HoldingOf

\* A request inside that stays inside leaves the count of those alone.
LEMMA InsideStays ==
  ASSUME Shape, NEW r \in Requests, NEW stage, Moves(r, stage),
         pc[r] \in {"inside", "holding", "leaving"} <=> stage \in {"inside", "holding", "leaving"}
  PROVE  Inside' = Inside
BY DEF Moves, Shape, Inside

\* A slot is taken by one request and counted for its tenant.
LEMMA SlotTaken ==
  ASSUME Shape, NEW r \in Requests, Moves(r, "holding"), pc[r] # "holding"
  PROVE  /\ Cardinality(Holding') = Cardinality(Holding) + 1
         /\ Cardinality(HoldingOf(TenantOf[r])') = Cardinality(HoldingOf(TenantOf[r])) + 1
         /\ \A t : t # TenantOf[r] => HoldingOf(t)' = HoldingOf(t)
<1>1. Holding' = Holding \cup {r} /\ r \notin Holding
  BY DEF Moves, Shape, Holding
<1>2. /\ HoldingOf(TenantOf[r])' = HoldingOf(TenantOf[r]) \cup {r}
      /\ r \notin HoldingOf(TenantOf[r])
      /\ \A t : t # TenantOf[r] => HoldingOf(t)' = HoldingOf(t)
  BY <1>1 DEF HoldingOf
<1> QED BY <1>1, <1>2, Countable, FS_AddElement

\* And given back once.
LEMMA SlotReturned ==
  ASSUME Shape, NEW r \in Requests, Moves(r, "leaving"), pc[r] = "holding"
  PROVE  /\ Cardinality(Holding') = Cardinality(Holding) - 1
         /\ Cardinality(HoldingOf(TenantOf[r])') = Cardinality(HoldingOf(TenantOf[r])) - 1
         /\ \A t : t # TenantOf[r] => HoldingOf(t)' = HoldingOf(t)
<1>1. Holding' = Holding \ {r} /\ r \in Holding
  BY DEF Moves, Shape, Holding
<1>2. /\ HoldingOf(TenantOf[r])' = HoldingOf(TenantOf[r]) \ {r}
      /\ r \in HoldingOf(TenantOf[r])
      /\ \A t : t # TenantOf[r] => HoldingOf(t)' = HoldingOf(t)
  BY <1>1 DEF HoldingOf
<1> QED BY <1>1, <1>2, Countable, FS_RemoveElement

\* Every step of a request keeps the invariant.
LEMMA RequestInductive ==
  ASSUME LifecycleInv, NEW r \in Requests, RequestNext(r)
  PROVE  LifecycleInv'
<1> DEFINE t0 == TenantOf[r]
<1>1. Shape /\ Phases /\ CountersAreExact /\ EnvelopeHolds /\ DrainedIsEmpty /\ t0 \in Tenants
  BY LifecycleAssumption DEF LifecycleInv
<1>2. ASSUME UNCHANGED <<state, lifespan, drained>>, Inside = {} => Inside' = {}
      PROVE  Phases' /\ DrainedIsEmpty'
  BY <1>1, <1>2 DEF Phases, DrainedIsEmpty
<1>3. CASE Admit(r)
  <2>1. /\ Moves(r, "inside") /\ pc[r] = "new" /\ state = "accepting" /\ inFlight' = inFlight + 1
        /\ UNCHANGED <<state, total, perTenant, lifespan, drained>>
    BY <1>3 DEF Admit, Moves
  <2>2. Inside' = Inside \cup {r} /\ r \notin Inside
    BY <1>1, <2>1 DEF Moves, Shape, Inside
  <2>3. Cardinality(Inside') = Cardinality(Inside) + 1
    BY <2>2, Countable, FS_AddElement
  <2>4. Holding' = Holding /\ \A t : HoldingOf(t)' = HoldingOf(t)
    BY <1>1, <2>1, SlotsStay
  <2>5. CountersAreExact' /\ EnvelopeHolds'
    BY <1>1, <2>1, <2>3, <2>4 DEF CountersAreExact, EnvelopeHolds
  <2>6. Phases' /\ DrainedIsEmpty'
    BY <1>1, <2>1 DEF Phases, DrainedIsEmpty
  <2>7. Shape'
    BY <1>1, <2>1 DEF Shape, Moves
  <2> QED BY <2>5, <2>6, <2>7 DEF LifecycleInv
<1>4. CASE Refuse(r)
  <2>1. /\ Moves(r, "ended") /\ pc[r] = "new"
        /\ UNCHANGED <<state, inFlight, total, perTenant, lifespan, drained>>
    BY <1>4 DEF Refuse, Moves
  <2>2. Inside' = Inside /\ Holding' = Holding /\ \A t : HoldingOf(t)' = HoldingOf(t)
    BY <1>1, <2>1, SlotsStay, InsideStays
  <2>3. CountersAreExact' /\ EnvelopeHolds'
    BY <1>1, <2>1, <2>2 DEF CountersAreExact, EnvelopeHolds
  <2>4. Shape'
    BY <1>1, <2>1 DEF Shape, Moves
  <2> QED BY <1>2, <2>1, <2>2, <2>3, <2>4 DEF LifecycleInv
<1>5. CASE TakeSlot(r)
  <2>1. /\ Moves(r, "holding") /\ pc[r] = "inside" /\ Fits(t0) /\ total' = total + 1
        /\ perTenant' = [perTenant EXCEPT ![t0] = perTenant[t0] + 1]
        /\ UNCHANGED <<state, inFlight, lifespan, drained>>
    BY <1>5 DEF TakeSlot, Moves
  <2>2. Inside' = Inside
    BY <1>1, <2>1, InsideStays
  <2>3. /\ Cardinality(Holding') = Cardinality(Holding) + 1
        /\ Cardinality(HoldingOf(t0)') = Cardinality(HoldingOf(t0)) + 1
        /\ \A t : t # t0 => HoldingOf(t)' = HoldingOf(t)
    BY <1>1, <2>1, SlotTaken
  <2>4. CountersAreExact'
    BY <1>1, <2>1, <2>2, <2>3 DEF CountersAreExact, Shape
  <2>5. EnvelopeHolds'
    BY <1>1, <2>1, <2>3, Countable, LifecycleAssumption DEF CountersAreExact, EnvelopeHolds, Fits
  <2>6. Shape'
    BY <1>1, <2>1 DEF Shape, Moves
  <2> QED BY <1>2, <2>1, <2>2, <2>4, <2>5, <2>6 DEF LifecycleInv
<1>6. CASE ReturnSlot(r)
  <2>1. /\ Moves(r, "leaving") /\ pc[r] = "holding" /\ total' = total - 1
        /\ perTenant' = [perTenant EXCEPT ![t0] = perTenant[t0] - 1]
        /\ UNCHANGED <<state, inFlight, lifespan, drained>>
    BY <1>6 DEF ReturnSlot, Moves
  <2>2. Inside' = Inside
    BY <1>1, <2>1, InsideStays
  <2>3. /\ Cardinality(Holding') = Cardinality(Holding) - 1
        /\ Cardinality(HoldingOf(t0)') = Cardinality(HoldingOf(t0)) - 1
        /\ \A t : t # t0 => HoldingOf(t)' = HoldingOf(t)
    BY <1>1, <2>1, SlotReturned
  <2>4. CountersAreExact'
    BY <1>1, <2>1, <2>2, <2>3 DEF CountersAreExact, Shape
  <2>5. EnvelopeHolds'
    BY <1>1, <2>3, Countable, LifecycleAssumption DEF EnvelopeHolds
  <2>6. Shape'
    BY <1>1, <2>1 DEF Shape, Moves
  <2> QED BY <1>2, <2>1, <2>2, <2>4, <2>5, <2>6 DEF LifecycleInv
<1>7. CASE Leave(r)
  <2>1. /\ Moves(r, "ended") /\ pc[r] \in {"inside", "leaving"} /\ inFlight' = inFlight - 1
        /\ UNCHANGED <<state, total, perTenant, lifespan, drained>>
    BY <1>7 DEF Leave, Moves
  <2>2. Inside' = Inside \ {r} /\ r \in Inside
    BY <1>1, <2>1 DEF Moves, Shape, Inside
  <2>3. Cardinality(Inside') = Cardinality(Inside) - 1
    BY <2>2, Countable, FS_RemoveElement
  <2>4. Holding' = Holding /\ \A t : HoldingOf(t)' = HoldingOf(t)
    BY <1>1, <2>1, SlotsStay
  <2>5. CountersAreExact' /\ EnvelopeHolds'
    BY <1>1, <2>1, <2>3, <2>4 DEF CountersAreExact, EnvelopeHolds
  <2>6. Shape'
    BY <1>1, <2>1 DEF Shape, Moves
  <2> QED BY <1>2, <2>1, <2>2, <2>5, <2>6 DEF LifecycleInv
<1> QED BY <1>3, <1>4, <1>5, <1>6, <1>7 DEF RequestNext

\* A step of the lifespan leaves the requests where they are.
LEMMA LifespanInductive ==
  ASSUME LifecycleInv, BeginDraining \/ Shutdown \/ UNCHANGED vars
  PROVE  LifecycleInv'
<1>1. UNCHANGED <<inFlight, total, perTenant, pc>>
  BY DEF BeginDraining, Shutdown, StartWaiting, DrainCompletes, DrainTimesOut, Stop, vars
<1>2. Inside' = Inside /\ Holding' = Holding /\ \A t : HoldingOf(t)' = HoldingOf(t)
  BY <1>1 DEF Inside, Holding, HoldingOf
<1>3. CountersAreExact' /\ EnvelopeHolds'
  BY <1>1, <1>2 DEF LifecycleInv, CountersAreExact, EnvelopeHolds
<1>4. inFlight = 0 => Inside = {}
  BY Countable, FS_EmptySet DEF LifecycleInv, CountersAreExact
<1>5. Shape' /\ Phases'
  <2> USE DEF BeginDraining, Shutdown, StartWaiting, DrainCompletes, DrainTimesOut, Stop, vars
  <2>1. /\ state' \in RuntimeState
        /\ lifespan' \in {"serving", "draining", "waiting", "stopping", "done"}
        /\ lifespan' # "serving" => state' # "accepting"
    BY DEF LifecycleInv, Shape, Phases, RuntimeState
  <2>2. drained' \in BOOLEAN
    BY Zenon DEF LifecycleInv, Shape
  <2>3. drained' => lifespan' \in {"stopping", "done"}
    <3>1. CASE BeginDraining \/ StartWaiting
      BY <3>1 DEF LifecycleInv, Phases
    <3>2. CASE DrainCompletes \/ DrainTimesOut \/ Stop
      BY <3>2
    <3>3. CASE UNCHANGED vars
      BY <3>3 DEF LifecycleInv, Phases
    <3> QED BY <3>1, <3>2, <3>3
  <2> HIDE DEF BeginDraining, Shutdown, StartWaiting, DrainCompletes, DrainTimesOut, Stop, vars
  <2> QED BY <1>1, <2>1, <2>2, <2>3 DEF LifecycleInv, Shape, Phases
<1>6. DrainedIsEmpty'
  BY <1>2, <1>4 DEF LifecycleInv, DrainedIsEmpty, BeginDraining, Shutdown, StartWaiting,
     DrainCompletes, DrainTimesOut, Stop, vars
<1> QED BY <1>3, <1>5, <1>6 DEF LifecycleInv

\* A replica starts empty and accepting.
LEMMA Initially == Init => LifecycleInv
<1> SUFFICES ASSUME Init PROVE LifecycleInv
  OBVIOUS
<1>1. Inside = {} /\ Holding = {} /\ \A t : HoldingOf(t) = {}
  BY DEF Init, Inside, Holding, HoldingOf
<1>2. CountersAreExact /\ EnvelopeHolds
  BY <1>1, FS_EmptySet, LifecycleAssumption DEF Init, CountersAreExact, EnvelopeHolds
<1>3. Shape
  <2>1. drained \in BOOLEAN
    BY DEF Init
  <2>2. state \in RuntimeState /\ perTenant \in [Tenants -> Int] /\ lifespan = "serving"
    BY DEF Init, RuntimeState
  <2>3. pc \in [Requests -> {"new", "inside", "holding", "leaving", "ended"}]
    BY DEF Init
  <2> QED BY <2>1, <2>2, <2>3 DEF Shape
<1>4. Phases /\ DrainedIsEmpty
  BY <1>1 DEF Init, Phases, DrainedIsEmpty
<1> QED BY <1>2, <1>3, <1>4 DEF LifecycleInv

----------------------------------------------------------------------------
(* Admission and drain: the theorems *)

\* The inductive invariant holds in every reachable state.
THEOREM LifecycleInvariance == Spec => []LifecycleInv
<1>1. LifecycleInv /\ [Next]_vars => LifecycleInv'
  BY RequestInductive, LifespanInductive DEF Next
<1> QED BY <1>1, Initially, PTL DEF Spec

\* No counter goes below zero on any path through the finally blocks.
THEOREM LifecycleTyping == Spec => []TypeOK
BY Counted, LifecycleInvariance, PTL

\* The lifecycle's and the admission controller's counters are exact.
THEOREM Exactness == Spec => []CountersAreExact
<1>1. LifecycleInv => CountersAreExact
  BY DEF LifecycleInv
<1> QED BY <1>1, LifecycleInvariance, PTL

\* CapacityAdmissionController never lends more than the envelope.
THEOREM Capacity == Spec => []EnvelopeHolds
<1>1. LifecycleInv => EnvelopeHolds
  BY DEF LifecycleInv
<1> QED BY <1>1, LifecycleInvariance, PTL

\* A drained replica has nothing in flight, then and later (wait_for_drain).
THEOREM Drained == Spec => []DrainedIsEmpty
<1>1. LifecycleInv => DrainedIsEmpty
  BY DEF LifecycleInv
<1> QED BY <1>1, LifecycleInvariance, PTL

\* Once a shutdown has begun requests only leave: no request that was outside
\* enters, also one that raced begin_draining for the lock.
THEOREM DrainingOnlyEmpties ==
  Spec => [][lifespan # "serving" => Inside' \subseteq Inside]_vars
<1>1. LifecycleInv /\ [Next]_vars => (lifespan # "serving" => Inside' \subseteq Inside)
  <2> SUFFICES ASSUME LifecycleInv, [Next]_vars, lifespan # "serving"
               PROVE  Inside' \subseteq Inside
    OBVIOUS
  <2>1. state # "accepting"
    BY DEF LifecycleInv, Phases
  <2>2. ASSUME NEW r \in Requests, RequestNext(r) PROVE Inside' \subseteq Inside
    <3>1. PICK stage : Moves(r, stage) /\ (stage = "ended" \/ r \in Inside)
      BY <2>1, <2>2 DEF RequestNext, Admit, Refuse, TakeSlot, ReturnSlot, Leave, Moves, Inside
    <3> QED BY <3>1 DEF Moves, Inside, LifecycleInv, Shape
  <2>3. ASSUME BeginDraining \/ Shutdown \/ UNCHANGED vars PROVE Inside' \subseteq Inside
    <3>1. pc' = pc
      BY <2>3 DEF BeginDraining, Shutdown, StartWaiting, DrainCompletes, DrainTimesOut, Stop, vars
    <3> QED BY <3>1 DEF Inside
  <2> QED BY <2>2, <2>3 DEF Next
<1> QED BY <1>1, LifecycleInvariance, PTL DEF Spec

\* how far the application's lifespan has come
Phase(l) ==
    CASE l = "serving" -> 0 [] l = "draining" -> 1 [] l = "waiting" -> 2
      [] l = "stopping" -> 3 [] OTHER -> 4

\* A shutdown only goes forward: each of its steps takes the lifespan to a
\* later phase, no request changes the phase, and a replica that has begun to
\* drain never accepts again. With the exact counters, one of its steps is
\* possible in every phase before the last, which is what ShutdownEnds needs.
THEOREM ShutdownAdvances ==
  Spec => [][/\ Phase(lifespan) <= Phase(lifespan')
             /\ Shutdown => Phase(lifespan) < Phase(lifespan')
             /\ state # "accepting" => state' # "accepting"]_vars
<1>1. LifecycleInv /\ Next =>
        /\ Phase(lifespan) <= Phase(lifespan')
        /\ Shutdown => Phase(lifespan) < Phase(lifespan')
        /\ state # "accepting" => state' # "accepting"
  <2> SUFFICES ASSUME LifecycleInv, Next
               PROVE  /\ Phase(lifespan) <= Phase(lifespan')
                      /\ Shutdown => Phase(lifespan) < Phase(lifespan')
                      /\ state # "accepting" => state' # "accepting"
    OBVIOUS
  <2>1. ASSUME Shutdown
        PROVE  /\ Phase(lifespan) < Phase(lifespan') /\ Phase(lifespan) <= Phase(lifespan')
               /\ state # "accepting" => state' # "accepting"
    BY <2>1 DEF Shutdown, StartWaiting, DrainCompletes, DrainTimesOut, Stop, Phase
  <2>2. ASSUME BeginDraining
        PROVE  /\ Phase(lifespan) <= Phase(lifespan')
               /\ state # "accepting" => state' # "accepting"
    BY <2>2 DEF BeginDraining, Phase
  <2>3. ASSUME NEW r \in Requests, RequestNext(r)
        PROVE  /\ Phase(lifespan) <= Phase(lifespan')
               /\ state # "accepting" => state' # "accepting"
    <3>1. lifespan' = lifespan /\ state' = state
      BY <2>3 DEF RequestNext, Admit, Refuse, TakeSlot, ReturnSlot, Leave
    <3>2. Phase(lifespan) \in Nat
      BY DEF Phase
    <3> QED BY <3>1, <3>2
  <2> QED BY <2>1, <2>2, <2>3 DEF Next
<1> QED BY <1>1, LifecycleInvariance, PTL DEF Spec
=============================================================================
