---------------------------- MODULE FencedLease ----------------------------
(***************************************************************************)
(* PostgresLeaseStore (postgres/ha.py) and InMemoryLeaseStore              *)
(* (runtime/ha.py): one (tenant_id, resource_key) row, which rows of other *)
(* resources never touch, and the replicas that compete for it.            *)
(*                                                                         *)
(* Each operation reads the clock and only then waits for the row, so what *)
(* it knows of the time may be old when it writes; acquire excludes other  *)
(* acquires by an advisory lock from before it reads the clock.  The       *)
(* in-memory store does all of it under one lock: the behaviours in which  *)
(* nothing comes in between.                                               *)
(* A lease_id is drawn afresh exactly when the fence token grows, so the   *)
(* token stands for both.                                                  *)
(***************************************************************************)
EXTENDS Naturals

CONSTANTS
    Owners,     \* owner_id of each replica; a restarted replica keeps its own
    TTL,        \* lease_ttl_seconds
    MaxTime,    \* bound on the clock
    MaxFence,   \* bound on the fence token (a BIGINT column)
    None

ASSUME LeaseAssumption ==
    /\ TTL \in Nat \ {0}
    /\ MaxTime \in Nat
    /\ MaxFence \in Nat
    /\ None \notin Owners
    /\ None \notin [fence: Nat, expires: Nat]
    /\ None \notin [op: {"acquire", "renew", "release"}, now: Nat]

VARIABLES
    clock,      \* the database clock
    fence,      \* the row's fence_token, 0 until the row is inserted
    owner,      \* the row's owner_id, None while it carries no lease
    expires,    \* the row's expires_at
    held,       \* the FencedLease each owner has in hand
    pending,    \* the operation of each owner that has read the clock
    givenUp     \* owners that called release() with the lease in hand

leaseVars == <<clock, fence, owner, expires, held, pending, givenUp>>

FencedLeases  == [fence: Nat, expires: Nat]
LeaseRequests == [op: {"acquire", "renew", "release"}, now: Nat]

LeaseInit ==
    /\ clock = 0
    /\ fence = 0
    /\ owner = None
    /\ expires = 0
    /\ held = [o \in Owners |-> None]
    /\ pending = [o \in Owners |-> None]
    /\ givenUp = {}

\* the row carries a lease that is_expired() does not refuse at time `at'
unexpired(at) == owner # None /\ at < expires

\* SELECT clock_timestamp(), before the row is locked
ReadClock(o, op) ==
    /\ pending[o] = None
    /\ op = "acquire" => \A p \in Owners : pending[p] # None => pending[p].op # "acquire"
    /\ op # "acquire" => held[o] # None
    /\ pending' = [pending EXCEPT ![o] = [op |-> op, now |-> clock]]
    /\ givenUp' = IF op = "release" THEN givenUp \cup {o} ELSE givenUp
    /\ UNCHANGED <<clock, fence, owner, expires, held>>

Asks(o, op) == pending[o] # None /\ pending[o].op = op

Done(o) == pending' = [pending EXCEPT ![o] = None]

\* the FencedLease is returned, unless the answer to the commit is lost
Answer(o, f, e) ==
    \/ /\ held' = [held EXCEPT ![o] = [fence |-> f, expires |-> e]]
       /\ givenUp' = givenUp \ {o}
    \/ UNCHANGED <<held, givenUp>>

\* the lease in hand is dropped
Drop(o) ==
    /\ held' = [held EXCEPT ![o] = None]
    /\ givenUp' = givenUp \ {o}

\* mutant: another owner's unexpired lease is taken over
AcquireAnyway(o) ==
    /\ Asks(o, "acquire")
    /\ fence < MaxFence
    /\ fence' = fence + 1
    /\ owner' = o
    /\ expires' = pending[o].now + TTL
    /\ Answer(o, fence', expires')
    /\ Done(o)
    /\ UNCHANGED clock

\* A free, released or expired row is taken over with a larger token.
Acquire(o) ==
    /\ Asks(o, "acquire")
    /\ ~unexpired(pending[o].now)
    /\ fence < MaxFence
    /\ fence' = fence + 1
    /\ owner' = o
    /\ expires' = pending[o].now + TTL
    /\ Answer(o, fence', expires')
    /\ Done(o)
    /\ UNCHANGED clock

\* The owner of an unexpired lease gets that lease back, another gets nothing.
Reacquire(o) ==
    /\ Asks(o, "acquire")
    /\ unexpired(pending[o].now)
    /\ IF owner = o THEN Answer(o, fence, expires) ELSE UNCHANGED <<held, givenUp>>
    /\ Done(o)
    /\ UNCHANGED <<clock, fence, owner, expires>>

\* _require_current, for the lease in hand and the time read
current(o) ==
    /\ owner = o
    /\ fence = held[o].fence
    /\ unexpired(pending[o].now)

Renew(o) ==
    /\ Asks(o, "renew")
    /\ current(o)
    /\ expires' = pending[o].now + TTL
    /\ Answer(o, fence, expires')
    /\ Done(o)
    /\ UNCHANGED <<clock, fence, owner>>

\* mutant: the row is deleted, and its token with it
ReleaseDeletes(o) ==
    /\ Asks(o, "release")
    /\ current(o)
    /\ fence' = 0
    /\ owner' = None
    /\ expires' = 0
    /\ Drop(o) \/ UNCHANGED <<held, givenUp>>
    /\ Done(o)
    /\ UNCHANGED clock

\* The row gives up its lease and keeps its token.  When the answer to the
\* commit is lost, the former owner still has the FencedLease in hand.
Release(o) ==
    /\ Asks(o, "release")
    /\ current(o)
    /\ owner' = None
    /\ expires' = 0
    /\ Drop(o) \/ UNCHANGED <<held, givenUp>>
    /\ Done(o)
    /\ UNCHANGED <<clock, fence>>

\* LeaseLostError: the owner learns that it is one no longer
LeaseLost(o) ==
    /\ Asks(o, "renew") \/ Asks(o, "release")
    /\ ~current(o)
    /\ Drop(o)
    /\ Done(o)
    /\ UNCHANGED <<clock, fence, owner, expires>>

\* The transaction fails and rolls back.
RollBack(o) ==
    /\ pending[o] # None
    /\ Done(o)
    /\ UNCHANGED <<clock, fence, owner, expires, held, givenUp>>

\* The replica dies and forgets; its lease stays in the row.
Crash(o) ==
    /\ held[o] # None
    /\ Drop(o)
    /\ Done(o)
    /\ UNCHANGED <<clock, fence, owner, expires>>

Tick ==
    /\ clock < MaxTime
    /\ clock' = clock + 1
    /\ UNCHANGED <<fence, owner, expires, held, pending, givenUp>>

LeaseNext ==
    \/ Tick
    \/ \E o \in Owners :
          \/ \E op \in {"acquire", "renew", "release"} : ReadClock(o, op)
          \/ Acquire(o) \/ Reacquire(o) \/ Renew(o) \/ Release(o)
          \/ LeaseLost(o) \/ RollBack(o) \/ Crash(o)

LeaseSpec == LeaseInit /\ [][LeaseNext]_leaseVars

-----------------------------------------------------------------------------
(* Properties *)

LeaseTypeOK ==
    /\ clock \in Nat
    /\ fence \in Nat
    /\ owner \in Owners \cup {None}
    /\ expires \in Nat
    /\ held \in [Owners -> FencedLeases \cup {None}]
    /\ pending \in [Owners -> LeaseRequests \cup {None}]
    /\ givenUp \subseteq Owners

\* the lease in o's hand is one its holder may still act on: it has not
\* expired, and o has not called release() with it
believes(o) == held[o] # None /\ o \notin givenUp /\ clock < held[o].expires

\* Two replicas never hold unexpired leases of one resource at the same time,
\* though operations are decided on old readings of the clock and the answers
\* to acquire, renew and release get lost
\* (docs/architecture/high-availability.md, rule 1 of Fenced ownership).  A
\* lease its holder asked to release does not count: whether that release
\* committed is unknown to the holder when it raised, and once it did commit
\* the row is free for another.
OneUnexpiredOwner ==
    \A o, p \in Owners : believes(o) /\ believes(p) => o = p

\* A lease its holder may still act on is the one the store would accept: an
\* unexpired FencedLease that was not given up is never an outdated one
\* (postgres/ha.py 225-238).
BeliefIsCurrent ==
    \A o \in Owners : believes(o) =>
        /\ owner = o
        /\ fence = held[o].fence
        /\ held[o].expires <= expires

\* No two replicas ever hold the same token, dead leases included: a sink that
\* compares tokens can tell every pair of holders apart.
TokensAreDistinct ==
    \A o, p \in Owners :
        held[o] # None /\ held[p] # None /\ held[o].fence = held[p].fence => o = p

\* The token never falls, and the row passes from one owner to another only by
\* a larger token and never while its lease is unexpired (postgres/ha.py 140-161).
TakeoverIsFenced ==
    [][/\ fence <= fence'
       /\ owner' \notin {None, owner} => fence < fence'
       /\ owner # None /\ owner' \notin {None, owner} => expires <= clock]_leaseVars

-----------------------------------------------------------------------------
(* What the proofs add *)

\* the newest token is in no hands but those of the row's owner, or of the
\* owner that gave it up and has not heard so
TokenOfOwner ==
    \A o \in Owners : held[o] # None =>
        /\ held[o].fence <= fence
        /\ held[o].fence = fence => owner = o \/ (owner = None /\ o \in givenUp)

\* no reading of the clock is from the future, no lease in hand is longer than
\* a renewal decided on the reading at hand would make it
ReadingsAreOld ==
    \A o \in Owners :
        /\ held[o] # None => held[o].expires <= clock + TTL
        /\ pending[o] # None =>
              /\ pending[o].now <= clock
              /\ pending[o].op # "acquire" =>
                    held[o] # None /\ held[o].expires <= pending[o].now + TTL
              /\ pending[o].op = "release" => o \in givenUp

\* no lease in the row is longer than one granted now
RowIsShort == expires <= clock + TTL

LeaseInv == LeaseTypeOK /\ TokenOfOwner /\ TokensAreDistinct /\ BeliefIsCurrent
               /\ ReadingsAreOld /\ RowIsShort
=============================================================================
