----------------------------- MODULE RunLedger -----------------------------
(***************************************************************************)
(* One run: its event ledger (postgres/ledger.py), its RunRecord in the    *)
(* run store (postgres/runs.py), and the requests that write them, which   *)
(* are RunCoordinator.start_run and complete_run (runtime/coordinator.py), *)
(* the lineage endpoint that records a node and calls bind_lineage         *)
(* (fastapi/app.py), and single event appends such as the ActionBroker's.  *)
(*                                                                         *)
(* Every statement that awaits the database is a step.  append holds a     *)
(* transaction-scoped advisory lock on (tenant, run); drafts of another    *)
(* tenant for the same run_id take another lock.  Hashes are injective: an *)
(* event hash is the identity of the request whose event it covers.        *)
(***************************************************************************)
EXTENDS Naturals, FiniteSets

CONSTANTS
    Requests,   \* each appends at most one event
    KindOf,     \* "start", "complete", "bind" or "event"
    TenantOf,   \* tenant_id of the request's actor
    StatusOf,   \* terminal status asked for by a "complete"
    SpecOf,     \* specification revision named by a "bind", or None
    Tenants,
    Statuses,   \* terminal statuses
    Specs,
    None

ASSUME RunAssumption ==
    /\ KindOf \in [Requests -> {"start", "complete", "bind", "event"}]
    /\ TenantOf \in [Requests -> Tenants]
    /\ StatusOf \in [Requests -> Statuses]
    /\ SpecOf \in [Requests -> Specs \cup {None}]
    /\ {"running", "absent"} \cap Statuses = {}
    /\ None \notin Specs \cup Requests \cup Tenants

RunRecord == [tenant: Tenants \cup {None}, status: Statuses \cup {"running", "absent"},
              spec: Specs \cup {None}, graph: SUBSET Requests]
Event      == [by: Requests, tenant: Tenants, seq: Nat, prev: Requests \cup {None}]
LedgerTail == [seq: Nat, prev: Requests \cup {None}]

VARIABLES
    pc,         \* where each request waits
    copy,       \* the RunRecord a request has read
    seen,       \* the position an append has read
    locked,     \* holder of each tenant's advisory lock on the run
    events,     \* control_events rows of the run
    run,        \* the stored RunRecord
    graph       \* lineage nodes, each named after the request that recorded it

vars == <<pc, copy, seen, locked, events, run, graph>>

NoRun  == [tenant |-> None, status |-> "absent", spec |-> None, graph |-> {}]
NoTail == [seq |-> 0, prev |-> None]

Init ==
    /\ pc = [r \in Requests |-> "new"]
    /\ copy = [r \in Requests |-> NoRun]
    /\ seen = [r \in Requests |-> NoTail]
    /\ locked = [t \in Tenants |-> None]
    /\ events = {}
    /\ run = NoRun
    /\ graph = {}

Goto(r, p) == pc' = [pc EXCEPT ![r] = p]

\* RunStore.get, by tenant
Visible(r) == run # NoRun /\ run.tenant = TenantOf[r]

-----------------------------------------------------------------------------
(* RunCoordinator and the lineage endpoint *)

\* start_run draws a fresh run_id, so there is no such run yet
CreateRun(r) ==
    /\ pc[r] = "new" /\ KindOf[r] = "start"
    /\ run = NoRun
    /\ run' = [tenant |-> TenantOf[r], status |-> "running",
               spec |-> SpecOf[r], graph |-> {}]
    /\ Goto(r, "append")
    /\ UNCHANGED <<copy, seen, locked, events, graph>>

\* mutant: the status changes before RUN_COMPLETED is appended
ReadToCompleteUnaudited(r) ==
    /\ pc[r] = "new" /\ KindOf[r] = "complete"
    /\ Visible(r)
    /\ copy' = [copy EXCEPT ![r] = run]
    /\ Goto(r, IF run.status \in Statuses THEN "failed" ELSE "replace")
    /\ UNCHANGED <<seen, locked, events, run, graph>>

\* complete_run refuses a run it cannot see and one that is terminal
ReadToComplete(r) ==
    /\ pc[r] = "new" /\ KindOf[r] = "complete"
    /\ Visible(r)
    /\ copy' = [copy EXCEPT ![r] = run]
    /\ Goto(r, IF run.status \in Statuses THEN "failed" ELSE "append")
    /\ UNCHANGED <<seen, locked, events, run, graph>>

\* record_node writes under the advisory lock that append takes too
RecordNode(r) ==
    /\ pc[r] = "new" /\ KindOf[r] = "bind"
    /\ Visible(r)
    /\ locked[TenantOf[r]] = None
    /\ graph' = graph \cup {r}
    /\ Goto(r, "graph")
    /\ UNCHANGED <<copy, seen, locked, events, run>>

\* get_graph, whose digest the request goes on to bind
ReadGraph(r) ==
    /\ pc[r] = "graph"
    /\ copy' = [copy EXCEPT ![r].graph = graph]
    /\ Goto(r, "bind")
    /\ UNCHANGED <<seen, locked, events, run, graph>>

\* bind_lineage reads the run; it refuses another specification revision
ReadToBind(r) ==
    /\ pc[r] = "bind"
    /\ copy' = [copy EXCEPT ![r] = [run EXCEPT !.graph = copy[r].graph,
                                               !.spec = IF SpecOf[r] = None THEN @ ELSE SpecOf[r]]]
    /\ Goto(r, IF run.spec # None /\ SpecOf[r] \notin {None, run.spec}
               THEN "failed" ELSE "replace")
    /\ UNCHANGED <<seen, locked, events, run, graph>>

\* RunStore.replace writes the whole record
Replace(r) ==
    /\ pc[r] = "replace"
    /\ run' = IF KindOf[r] = "complete" THEN [copy[r] EXCEPT !.status = StatusOf[r]] ELSE copy[r]
    /\ Goto(r, IF KindOf[r] = "complete" THEN "done" ELSE "append")
    /\ UNCHANGED <<copy, seen, locked, events, graph>>

\* an append that no coordinator guards
Draft(r) ==
    /\ pc[r] = "new" /\ KindOf[r] = "event"
    /\ Goto(r, "append")
    /\ UNCHANGED <<copy, seen, locked, events, run, graph>>

-----------------------------------------------------------------------------
(* PostgresEventLedger.append *)

Lock(r) ==
    /\ pc[r] = "append"
    /\ locked[TenantOf[r]] = None
    /\ locked' = [locked EXCEPT ![TenantOf[r]] = r]
    /\ Goto(r, "locked")
    /\ UNCHANGED <<copy, seen, events, run, graph>>

\* mutant: the lock belongs to the session and outlives its transaction
UnlockNever(r) == UNCHANGED locked

\* the lock ends with the transaction
Unlock(r) == locked' = [locked EXCEPT ![TenantOf[r]] = None]

\* "a control run cannot cross tenant ledgers"
CheckForeign(r) ==
    /\ pc[r] = "locked"
    /\ IF \E e \in events : e.tenant # TenantOf[r]
       THEN Goto(r, "failed") /\ Unlock(r)
       ELSE Goto(r, "checked") /\ UNCHANGED locked
    /\ UNCHANGED <<copy, seen, events, run, graph>>

Own(r) == {e \in events : e.tenant = TenantOf[r]}

\* mutant: the hash before it is left out
ReadLastUnlinked(r) ==
    /\ pc[r] = "checked"
    /\ seen' = [seen EXCEPT ![r] = [seq |-> Cardinality(Own(r)) + 1, prev |-> None]]
    /\ Goto(r, "insert")
    /\ UNCHANGED <<copy, locked, events, run, graph>>

\* the row with the highest sequence gives the next one and the hash before it
ReadLast(r) ==
    /\ pc[r] = "checked"
    /\ \/ /\ Own(r) = {}
          /\ seen' = [seen EXCEPT ![r] = [seq |-> 1, prev |-> None]]
       \/ \E e \in Own(r) :
             /\ \A d \in Own(r) : d.seq <= e.seq
             /\ seen' = [seen EXCEPT ![r] = [seq |-> e.seq + 1, prev |-> e.by]]
    /\ Goto(r, "insert")
    /\ UNCHANGED <<copy, locked, events, run, graph>>

AfterAppend(r) == IF KindOf[r] = "complete" THEN "replace" ELSE "done"

\* INSERT and COMMIT; the table's UNIQUE (run_id, sequence) may refuse
Insert(r) ==
    /\ pc[r] = "insert"
    /\ IF \E e \in events : e.seq = seen[r].seq
       THEN Goto(r, "failed") /\ UNCHANGED events
       ELSE /\ events' = events \cup {[by |-> r, tenant |-> TenantOf[r],
                                       seq |-> seen[r].seq, prev |-> seen[r].prev]}
            /\ Goto(r, AfterAppend(r))
    /\ Unlock(r)
    /\ UNCHANGED <<copy, seen, run, graph>>

\* The request dies or a statement fails: an open append rolls back.
Crash(r) ==
    /\ pc[r] \notin {"new", "done", "failed"}
    /\ Goto(r, "failed")
    /\ locked' = [locked EXCEPT ![TenantOf[r]] = IF @ = r THEN None ELSE @]
    /\ UNCHANGED <<copy, seen, events, run, graph>>

Step(r) ==
    \/ CreateRun(r) \/ ReadToComplete(r) \/ RecordNode(r) \/ ReadGraph(r)
    \/ ReadToBind(r) \/ Replace(r) \/ Draft(r)
    \/ Lock(r) \/ CheckForeign(r) \/ ReadLast(r) \/ Insert(r)

Next == \E r \in Requests : Step(r) \/ Crash(r)

Spec == Init /\ [][Next]_vars

\* The database answers every statement of a request that has begun.
FairSpec == Spec /\ \A r \in Requests : WF_vars(pc[r] # "new" /\ Step(r))

-----------------------------------------------------------------------------
(* Properties *)

PC == {"new", "graph", "bind", "replace", "append", "locked", "checked", "insert",
       "done", "failed"}

TypeOK ==
    /\ pc \in [Requests -> PC]
    /\ copy \in [Requests -> RunRecord]
    /\ seen \in [Requests -> LedgerTail]
    /\ locked \in [Tenants -> Requests \cup {None}]
    /\ events \subseteq Event
    /\ run \in RunRecord
    /\ graph \subseteq Requests

\* The run's rows form one hash chain: no two share a sequence, and each but
\* the first links to the row before it, so that verify_run always succeeds,
\* whichever appends raced or rolled back (postgres/ledger.py 97-114).
ChainIsSound ==
    /\ \A d, e \in events : d.seq = e.seq => d = e
    /\ \A e \in events :
          \/ e.seq = 1 /\ e.prev = None
          \/ \E d \in events : d.seq + 1 = e.seq /\ d.by = e.prev

\* The events of a run are all one tenant's, though appends of two tenants pass
\* the foreign-tenant check together (postgres/ledger.py 33-42).
OneTenantPerRun == \A d, e \in events : d.tenant = e.tenant

\* A run shows a terminal status only when the ledger has its RUN_COMPLETED
\* with that status: the audit append precedes the change (coordinator.py
\* 104-105), and no concurrent writer restores a status that was not audited.
CompletionIsAudited ==
    run.status \in Statuses =>
        \E e \in events : KindOf[e.by] = "complete" /\ StatusOf[e.by] = run.status

\* Every request that got as far as writing ends: no append waits for ever for
\* a lock, though its holder may have died (postgres/ledger.py 27-32).
RequestsEnd == <>[](\A r \in Requests : pc[r] \in {"new", "done", "failed"})

-----------------------------------------------------------------------------
(* What the proofs add *)

\* an append past its lock holds it, and what it read of its own rows is fresh
AppendIsExclusive ==
    \A r \in Requests :
        /\ pc[r] \in {"locked", "checked", "insert"} => locked[TenantOf[r]] = r
        /\ pc[r] = "insert" =>
              /\ \A e \in Own(r) : e.seq < seen[r].seq
              /\ \/ seen[r] = [seq |-> 1, prev |-> None] /\ Own(r) = {}
                 \/ \E e \in Own(r) : e.seq + 1 = seen[r].seq /\ e.by = seen[r].prev

\* the first position is taken first
ChainHasRoot == events # {} => \E e \in events : e.seq = 1

Audited(status) ==
    \E e \in events : KindOf[e.by] = "complete" /\ StatusOf[e.by] = status

\* only a lineage request reads the graph and binds it
BindersBind == \A r \in Requests : pc[r] \in {"graph", "bind"} => KindOf[r] = "bind"

\* a status on its way into the store has been audited
PendingIsAudited ==
    \A r \in Requests :
        /\ copy[r].status \in Statuses => Audited(copy[r].status)
        /\ pc[r] = "replace" /\ KindOf[r] = "complete" => Audited(StatusOf[r])

ChainInv == AppendIsExclusive /\ ChainHasRoot /\ ChainIsSound /\ OneTenantPerRun
AuditInv == BindersBind /\ PendingIsAudited /\ CompletionIsAudited
=============================================================================
