-------------------------- MODULE RuntimeLifecycle --------------------------
(***************************************************************************)
(* One control replica: the admission and drain state of RuntimeLifecycle, *)
(* the capacity slots of CapacityAdmissionController, the requests that    *)
(* pass through them, and the shutdown sequence of the application's       *)
(* lifespan. A lock section never suspends, so each is one step; the       *)
(* handler between an entry and its finally block suspends at will, and    *)
(* the finally block runs however the handler ends.                        *)
(***************************************************************************)
EXTENDS Integers, FiniteSets

CONSTANTS
    Requests,       \* requests a replica may see
    Tenants,
    TenantOf,       \* the tenant of each request
    MaxInFlight,    \* CapacityEnvelope.max_in_flight
    MaxPerTenant    \* CapacityEnvelope.max_per_tenant_in_flight

VARIABLES
    state,          \* RuntimeLifecycle._state
    inFlight,       \* RuntimeLifecycle._in_flight
    total,          \* CapacityAdmissionController._total
    perTenant,      \* CapacityAdmissionController._per_tenant
    pc,             \* where each request is
    lifespan,       \* where the application's lifespan is
    drained         \* what wait_for_drain returned

vars == <<state, inFlight, total, perTenant, pc, lifespan, drained>>

RuntimeState == {"accepting", "draining", "stopped"}

ASSUME LifecycleAssumption ==
    /\ TenantOf \in [Requests -> Tenants]
    /\ IsFiniteSet(Requests)
    /\ MaxInFlight \in Nat \ {0} /\ MaxPerTenant \in Nat \ {0}

\* mutant: only a stopped replica refuses
AdmitWhileDraining(r) ==
    /\ pc[r] = "new"
    /\ state # "stopped"
    /\ pc' = [pc EXCEPT ![r] = "inside"]
    /\ inFlight' = inFlight + 1
    /\ UNCHANGED <<state, total, perTenant, lifespan, drained>>

\* the first lock section of RuntimeLifecycle.admit
Admit(r) ==
    /\ pc[r] = "new"
    /\ state = "accepting"
    /\ pc' = [pc EXCEPT ![r] = "inside"]
    /\ inFlight' = inFlight + 1
    /\ UNCHANGED <<state, total, perTenant, lifespan, drained>>

\* RuntimeDrainingError: the middleware answers 503
Refuse(r) ==
    /\ pc[r] = "new"
    /\ state # "accepting"
    /\ pc' = [pc EXCEPT ![r] = "ended"]
    /\ UNCHANGED <<state, inFlight, total, perTenant, lifespan, drained>>

Fits(t) == total < MaxInFlight /\ perTenant[t] < MaxPerTenant

\* CapacityAdmissionController.admit; without a free slot the handler raises
\* and leaves through the lifecycle's finally block
TakeSlot(r) ==
    /\ pc[r] = "inside"
    /\ Fits(TenantOf[r])
    /\ total' = total + 1
    /\ perTenant' = [perTenant EXCEPT ![TenantOf[r]] = perTenant[TenantOf[r]] + 1]
    /\ pc' = [pc EXCEPT ![r] = "holding"]
    /\ UNCHANGED <<state, inFlight, lifespan, drained>>

\* mutant: the tenant is popped with its first slot
DropTenant(r) ==
    /\ pc[r] = "holding"
    /\ total' = total - 1
    /\ perTenant' = [perTenant EXCEPT ![TenantOf[r]] = 0]
    /\ pc' = [pc EXCEPT ![r] = "leaving"]
    /\ UNCHANGED <<state, inFlight, lifespan, drained>>

\* its finally block; a tenant without slots is popped, which reads as zero
ReturnSlot(r) ==
    /\ pc[r] = "holding"
    /\ total' = total - 1
    /\ perTenant' = [perTenant EXCEPT ![TenantOf[r]] = perTenant[TenantOf[r]] - 1]
    /\ pc' = [pc EXCEPT ![r] = "leaving"]
    /\ UNCHANGED <<state, inFlight, lifespan, drained>>

\* the finally block of RuntimeLifecycle.admit
Leave(r) ==
    /\ pc[r] \in {"inside", "leaving"}
    /\ inFlight' = inFlight - 1
    /\ pc' = [pc EXCEPT ![r] = "ended"]
    /\ UNCHANGED <<state, total, perTenant, lifespan, drained>>

BeginDraining ==
    /\ lifespan = "serving"
    /\ state' = IF state = "accepting" THEN "draining" ELSE state
    /\ lifespan' = "draining"
    /\ UNCHANGED <<inFlight, total, perTenant, pc, drained>>

\* wait_for_drain finds requests inside and waits for a notification
StartWaiting ==
    /\ lifespan = "draining"
    /\ inFlight > 0
    /\ lifespan' = "waiting"
    /\ UNCHANGED <<state, inFlight, total, perTenant, pc, drained>>

\* wait_for_drain sees the count at zero, at once or after a notification
DrainCompletes ==
    /\ lifespan \in {"draining", "waiting"}
    /\ inFlight = 0
    /\ drained' = TRUE
    /\ lifespan' = "stopping"
    /\ UNCHANGED <<state, inFlight, total, perTenant, pc>>

\* mutant: the grace period does not cut off requests inside
TimeOutWhenIdle ==
    /\ lifespan = "waiting"
    /\ inFlight = 0
    /\ drained' = FALSE
    /\ lifespan' = "stopping"
    /\ UNCHANGED <<state, inFlight, total, perTenant, pc>>

\* the grace period runs out, even as the last request leaves; the return
\* value is not looked at
DrainTimesOut ==
    /\ lifespan = "waiting"
    /\ drained' = FALSE
    /\ lifespan' = "stopping"
    /\ UNCHANGED <<state, inFlight, total, perTenant, pc>>

Stop ==
    /\ lifespan = "stopping"
    /\ state' = "stopped"
    /\ lifespan' = "done"
    /\ UNCHANGED <<inFlight, total, perTenant, pc, drained>>

Init ==
    /\ state = "accepting"
    /\ inFlight = 0
    /\ total = 0
    /\ perTenant = [t \in Tenants |-> 0]
    /\ pc = [r \in Requests |-> "new"]
    /\ lifespan = "serving"
    /\ drained = FALSE

RequestNext(r) == Admit(r) \/ Refuse(r) \/ TakeSlot(r) \/ ReturnSlot(r) \/ Leave(r)
Shutdown == StartWaiting \/ DrainCompletes \/ DrainTimesOut \/ Stop

Next == (\E r \in Requests : RequestNext(r)) \/ BeginDraining \/ Shutdown

Spec == Init /\ [][Next]_vars

\* The event loop runs the lifespan once it has begun to shut down, and its
\* grace timer fires; nothing is assumed of handlers.
FairSpec == Spec /\ WF_vars(Shutdown)

(***************************************************************************)
(* Properties                                                              *)
(***************************************************************************)

\* The values each part of the replica takes.
TypeOK ==
    /\ state \in RuntimeState
    /\ inFlight \in Nat /\ total \in Nat
    /\ perTenant \in [Tenants -> Nat]
    /\ pc \in [Requests -> {"new", "inside", "holding", "leaving", "ended"}]
    /\ lifespan \in {"serving", "draining", "waiting", "stopping", "done"}
    /\ drained \in BOOLEAN

Inside == {r \in Requests : pc[r] \in {"inside", "holding", "leaving"}}
Holding == {r \in Requests : pc[r] = "holding"}
HoldingOf(t) == {r \in Holding : TenantOf[r] = t}

\* The three counters are exact whatever path each request takes through the
\* nested finally blocks: none leaks a slot and none returns one twice.
CountersAreExact ==
    /\ inFlight = Cardinality(Inside)
    /\ total = Cardinality(Holding)
    /\ \A t \in Tenants : perTenant[t] = Cardinality(HoldingOf(t))

\* The requests that hold a slot never exceed the capacity envelope, in all
\* and per tenant.
EnvelopeHolds ==
    /\ Cardinality(Holding) <= MaxInFlight
    /\ \A t \in Tenants : Cardinality(HoldingOf(t)) <= MaxPerTenant

\* When wait_for_drain reports a drained replica, no request is inside it
\* then or at any later time.
DrainedIsEmpty == drained => Inside = {}

\* A shutdown that has begun ends, whatever the requests inside do.
ShutdownEnds == lifespan = "draining" ~> lifespan = "done"
=============================================================================
