----------------------------- MODULE RunProofs -----------------------------
(***************************************************************************)
(* Theorems about one run: its ledger's chain and the audit of completions *)
(* (RunLedger), for any number of requests and tenants, and its lineage    *)
(* and the verdicts on it (Lineage), for any graph and any requests.       *)
(***************************************************************************)
EXTENDS RunLedger, Lineage, FiniteSetTheorems, WellFoundedInduction, TLAPS

-----------------------------------------------------------------------------
(* Types *)

\* Every variable keeps its type.
THEOREM Typing == Spec => []TypeOK
<1>1. Init => TypeOK
  BY DEF Init, TypeOK, PC, RunRecord, LedgerTail, NoRun, NoTail
<1>2. TypeOK /\ [Next]_vars => TypeOK'
  <2> SUFFICES ASSUME TypeOK, [Next]_vars PROVE TypeOK'
    OBVIOUS
  <2> USE RunAssumption DEF TypeOK, PC
  <2>1. ASSUME NEW r \in Requests, CreateRun(r) PROVE TypeOK'
    BY <2>1 DEF CreateRun, Goto, RunRecord
  <2>2. ASSUME NEW r \in Requests, ReadToComplete(r) PROVE TypeOK'
    BY <2>2 DEF ReadToComplete, Goto
  <2>3. ASSUME NEW r \in Requests, RecordNode(r) \/ Draft(r) PROVE TypeOK'
    BY <2>3 DEF RecordNode, Draft, Goto
  <2>4. ASSUME NEW r \in Requests, ReadGraph(r) PROVE TypeOK'
    BY <2>4 DEF ReadGraph, Goto, RunRecord
  <2>5. ASSUME NEW r \in Requests, ReadToBind(r) PROVE TypeOK'
    BY <2>5 DEF ReadToBind, Goto, RunRecord
  <2>6. ASSUME NEW r \in Requests, Replace(r) PROVE TypeOK'
    BY <2>6 DEF Replace, Goto, RunRecord
  <2>7. ASSUME NEW r \in Requests, Lock(r) \/ CheckForeign(r) \/ Crash(r) PROVE TypeOK'
    BY <2>7 DEF Lock, CheckForeign, Crash, Unlock, Goto
  <2>8. ASSUME NEW r \in Requests, ReadLast(r) PROVE TypeOK'
    BY <2>8 DEF ReadLast, Own, Goto, LedgerTail, Event
  <2>9. ASSUME NEW r \in Requests, Insert(r) PROVE TypeOK'
    BY <2>9 DEF Insert, AfterAppend, Unlock, Goto, LedgerTail, Event
  <2>10. CASE UNCHANGED vars
    BY <2>10 DEF vars
  <2> QED
    BY <2>1, <2>2, <2>3, <2>4, <2>5, <2>6, <2>7, <2>8, <2>9, <2>10 DEF Next, Step
<1> QED
  BY <1>1, <1>2, PTL DEF Spec

-----------------------------------------------------------------------------
(* The hash chain *)

\* A step that appends nothing and moves no request into an append.
LEMMA NoAppend ==
    ASSUME TypeOK, ChainInv, events' = events, seen' = seen, locked' = locked,
           NEW r \in Requests, NEW q \in PC, Goto(r, q),
           q \notin {"locked", "checked", "insert"}
    PROVE  ChainInv'
BY DEF ChainInv, AppendIsExclusive, ChainHasRoot, ChainIsSound, OneTenantPerRun, Own, Goto,
       TypeOK

\* Appends of one tenant exclude each other and read their chain's end; when
\* two tenants race for a run's first position, the table refuses one of them.
THEOREM ChainInvariance == Spec => []ChainInv
<1>1. Init => ChainInv
  BY DEF Init, ChainInv, AppendIsExclusive, ChainHasRoot, ChainIsSound, OneTenantPerRun
<1>2. TypeOK /\ ChainInv /\ [Next]_vars => ChainInv'
  <2> SUFFICES ASSUME TypeOK, ChainInv, [Next]_vars PROVE ChainInv'
    OBVIOUS
  <2>1. ASSUME NEW r \in Requests,
               \/ CreateRun(r) \/ ReadToComplete(r) \/ RecordNode(r) \/ ReadGraph(r)
               \/ ReadToBind(r) \/ Replace(r) \/ Draft(r)
        PROVE  ChainInv'
    <3>1. UNCHANGED <<events, seen, locked>>
      BY <2>1 DEF CreateRun, ReadToComplete, RecordNode, ReadGraph, ReadToBind, Replace, Draft
    <3>2. \E q \in PC \ {"locked", "checked", "insert"} : Goto(r, q)
      BY <2>1 DEF CreateRun, ReadToComplete, RecordNode, ReadGraph, ReadToBind, Replace, Draft, PC
    <3> QED
      BY <3>1, <3>2, NoAppend
  <2>2. ASSUME NEW r \in Requests, Lock(r) PROVE ChainInv'
    <3>1. pc[r] = "append" /\ locked[TenantOf[r]] = None /\ UNCHANGED <<events, seen>>
      BY <2>2 DEF Lock
    <3>2. \A t \in Requests : t # r /\ pc[t] \in {"locked", "checked", "insert"} =>
              TenantOf[t] # TenantOf[r]
      BY <3>1, RunAssumption DEF ChainInv, AppendIsExclusive
    <3>3. \A t \in Requests : t # r => pc'[t] = pc[t]
      BY <2>2 DEF Lock, Goto, TypeOK
    <3>4. pc'[r] = "locked" /\ locked'[TenantOf[r]] = r
      BY <2>2, RunAssumption DEF Lock, Goto, TypeOK
    <3>5. \A t \in Requests : TenantOf[t] # TenantOf[r] => locked'[TenantOf[t]] = locked[TenantOf[t]]
      BY <2>2, RunAssumption DEF Lock, TypeOK
    <3>6. AppendIsExclusive'
      BY <3>1, <3>2, <3>3, <3>4, <3>5 DEF ChainInv, AppendIsExclusive, Own
    <3> QED
      BY <3>1, <3>6 DEF ChainInv, ChainHasRoot, ChainIsSound, OneTenantPerRun
  <2>3. ASSUME NEW r \in Requests, CheckForeign(r) PROVE ChainInv'
    <3>1. AppendIsExclusive'
      BY <2>3, RunAssumption
         DEF CheckForeign, Unlock, Goto, ChainInv, AppendIsExclusive, Own, TypeOK
    <3> QED
      BY <2>3, <3>1 DEF CheckForeign, ChainInv, ChainHasRoot, ChainIsSound, OneTenantPerRun
  <2>4. ASSUME NEW r \in Requests, ReadLast(r) PROVE ChainInv'
    <3>1. AppendIsExclusive'
      BY <2>4, RunAssumption
         DEF ReadLast, Goto, ChainInv, AppendIsExclusive, Own, TypeOK, Event, LedgerTail
    <3> QED
      BY <2>4, <3>1 DEF ReadLast, ChainInv, ChainHasRoot, ChainIsSound, OneTenantPerRun
  <2>5. ASSUME NEW r \in Requests, Crash(r) PROVE ChainInv'
    <3>1. AppendIsExclusive'
      BY <2>5, RunAssumption DEF Crash, Goto, ChainInv, AppendIsExclusive, Own, TypeOK
    <3> QED
      BY <2>5, <3>1 DEF Crash, ChainInv, ChainHasRoot, ChainIsSound, OneTenantPerRun
  <2>6. ASSUME NEW r \in Requests, Insert(r), events' = events PROVE ChainInv'
    <3>1. AppendIsExclusive'
      BY <2>6, RunAssumption
         DEF Insert, AfterAppend, Unlock, Goto, ChainInv, AppendIsExclusive, Own, TypeOK
    <3> QED
      BY <2>6, <3>1 DEF ChainInv, ChainHasRoot, ChainIsSound, OneTenantPerRun
  <2>7. ASSUME NEW r \in Requests, Insert(r), events' # events PROVE ChainInv'
    <3> DEFINE new == [by |-> r, tenant |-> TenantOf[r], seq |-> seen[r].seq, prev |-> seen[r].prev]
    <3>1. /\ events' = events \cup {new}
          /\ \A e \in events : e.seq # seen[r].seq
          /\ pc[r] = "insert"
      BY <2>7 DEF Insert
    <3>2. \A e \in events : e.tenant = TenantOf[r]
      <4>1. CASE Own(r) = {}
        <5>1. seen[r].seq = 1
          BY <3>1, <4>1 DEF ChainInv, AppendIsExclusive
        <5>2. events = {}
          BY <3>1, <5>1 DEF ChainInv, ChainHasRoot
        <5> QED
          BY <5>2
      <4>2. CASE Own(r) # {}
        BY <4>2 DEF Own, ChainInv, OneTenantPerRun
      <4> QED
        BY <4>1, <4>2
    <3>3. OneTenantPerRun'
      BY <3>1, <3>2 DEF OneTenantPerRun
    <3>4. Own(r) = events
      BY <3>2 DEF Own
    <3>5. ChainIsSound'
      BY <3>1, <3>4 DEF ChainInv, ChainIsSound, AppendIsExclusive
    <3>6. ChainHasRoot'
      BY <3>1, <3>4 DEF ChainInv, ChainHasRoot, AppendIsExclusive
    <3>7. AppendIsExclusive'
      <4> SUFFICES ASSUME NEW t \in Requests,
                          pc'[t] \in {"locked", "checked", "insert"}
                   PROVE  /\ locked'[TenantOf[t]] = t
                          /\ pc'[t] = "insert" =>
                                /\ \A e \in Own(t)' : e.seq < seen'[t].seq
                                /\ \/ seen'[t] = [seq |-> 1, prev |-> None] /\ Own(t)' = {}
                                   \/ \E e \in Own(t)' : e.seq + 1 = seen'[t].seq /\ e.by = seen'[t].prev
        BY DEF AppendIsExclusive
      <4>1. t # r /\ pc'[t] = pc[t] /\ seen' = seen
        BY <2>7 DEF Insert, AfterAppend, Goto, TypeOK
      <4>2. TenantOf[t] # TenantOf[r] /\ locked'[TenantOf[t]] = t
        BY <2>7, <3>1, <4>1, RunAssumption DEF ChainInv, AppendIsExclusive, Insert, Unlock, TypeOK
      <4>3. Own(t)' = Own(t)
        BY <3>1, <4>2 DEF Own
      <4> QED
        BY <4>1, <4>2, <4>3 DEF ChainInv, AppendIsExclusive
    <3> QED
      BY <3>3, <3>5, <3>6, <3>7 DEF ChainInv
  <2>8. CASE UNCHANGED vars
    BY <2>8 DEF vars, ChainInv, AppendIsExclusive, ChainHasRoot, ChainIsSound, OneTenantPerRun, Own
  <2> QED
    BY <2>1, <2>2, <2>3, <2>4, <2>5, <2>6, <2>7, <2>8 DEF Next, Step
<1> QED
  BY <1>1, <1>2, Typing, PTL DEF Spec

\* A run's events form one sound chain (ledger.py 43-75).
THEOREM ChainHolds == Spec => []ChainIsSound
<1>1. ChainInv => ChainIsSound
  BY DEF ChainInv
<1> QED
  BY <1>1, ChainInvariance, PTL

\* They all belong to one tenant (ledger.py 33-42).
THEOREM TenantHolds == Spec => []OneTenantPerRun
<1>1. ChainInv => OneTenantPerRun
  BY DEF ChainInv
<1> QED
  BY <1>1, ChainInvariance, PTL

-----------------------------------------------------------------------------
(* The audit of completions *)

\* What the ledger holds it keeps.
LEMMA LedgerGrows ==
    ASSUME NEW r \in Requests, Step(r) \/ Crash(r)
    PROVE  events \subseteq events'
BY DEF Step, CreateRun, ReadToComplete, RecordNode, ReadGraph, ReadToBind, Replace, Draft, Lock,
       CheckForeign, ReadLast, Insert, Crash

\* Only Insert moves a completion on to Replace, only Replace writes the status,
\* and a copy of the record carries a status that is audited already.
THEOREM AuditInvariance == Spec => []AuditInv
<1>1. Init => AuditInv
  BY RunAssumption DEF Init, NoRun, AuditInv, BindersBind, PendingIsAudited, CompletionIsAudited
<1>2. TypeOK /\ AuditInv /\ [Next]_vars => AuditInv'
  <2> SUFFICES ASSUME TypeOK, AuditInv, [Next]_vars PROVE AuditInv'
    OBVIOUS
  <2>1. ASSUME NEW r \in Requests, Step(r) \/ Crash(r) PROVE AuditInv'
    <3>1. \A s \in Statuses : Audited(s) => Audited(s)'
      BY <2>1, LedgerGrows DEF Audited
    <3>2. run.status \in Statuses => Audited(run.status)
      BY DEF AuditInv, CompletionIsAudited, Audited
    <3>3. \A t \in Requests : StatusOf[t] \in Statuses
      BY RunAssumption
    <3>4. \A t \in Requests : t # r => pc'[t] = pc[t] /\ copy'[t] = copy[t]
      BY <2>1 DEF Step, CreateRun, ReadToComplete, RecordNode, ReadGraph, ReadToBind, Replace,
                  Draft, Lock, CheckForeign, ReadLast, Insert, Crash, Goto, TypeOK
    <3>5. copy'[r].status \in {copy[r].status, run.status}
      <4>1. CASE ReadGraph(r)
        BY <4>1 DEF ReadGraph, TypeOK, RunRecord
      <4>2. CASE ReadToBind(r)
        BY <4>2 DEF ReadToBind, TypeOK, RunRecord
      <4> QED
        BY <2>1, <4>1, <4>2 DEF Step, CreateRun, ReadToComplete, RecordNode, Replace, Draft, Lock,
                                CheckForeign, ReadLast, Insert, Crash, TypeOK
    <3>6. run'.status \in Statuses =>
              \/ run'.status = run.status
              \/ run'.status = copy[r].status
              \/ run'.status = StatusOf[r] /\ pc[r] = "replace" /\ KindOf[r] = "complete"
      BY <2>1, RunAssumption
         DEF Step, CreateRun, ReadToComplete, RecordNode, ReadGraph, ReadToBind, Replace,
             Draft, Lock, CheckForeign, ReadLast, Insert, Crash, TypeOK, RunRecord
    <3>7. BindersBind'
      BY <2>1, <3>4
         DEF Step, CreateRun, ReadToComplete, RecordNode, ReadGraph, ReadToBind, Replace, Draft, Lock,
             CheckForeign, ReadLast, Insert, AfterAppend, Crash, Goto, TypeOK, AuditInv, BindersBind
    <3>8. pc'[r] = "replace" /\ KindOf[r] = "complete" => Audited(StatusOf[r])'
      <4>1. CASE Insert(r)
        <5> DEFINE new == [by |-> r, tenant |-> TenantOf[r],
                           seq |-> seen[r].seq, prev |-> seen[r].prev]
        <5>1. pc'[r] = "failed" \/ new \in events'
          BY <4>1 DEF Insert, Goto, TypeOK
        <5>2. new.by = r
          OBVIOUS
        <5> HIDE DEF new
        <5> QED
          BY <5>1, <5>2 DEF Audited
      <4>2. CASE ReadToBind(r)
        BY <4>2 DEF ReadToBind, AuditInv, BindersBind
      <4> QED
        BY <2>1, <4>1, <4>2
           DEF Step, CreateRun, ReadToComplete, RecordNode, ReadGraph, Replace,
               Draft, Lock, CheckForeign, ReadLast, Crash, Goto, TypeOK
    <3>9. PendingIsAudited'
      BY <3>1, <3>2, <3>3, <3>4, <3>5, <3>8 DEF AuditInv, PendingIsAudited
    <3>10. CompletionIsAudited'
      BY <3>1, <3>2, <3>3, <3>6 DEF AuditInv, PendingIsAudited, CompletionIsAudited, Audited
    <3> QED
      BY <3>7, <3>9, <3>10 DEF AuditInv
  <2>2. CASE UNCHANGED vars
    BY <2>2 DEF vars, AuditInv, BindersBind, PendingIsAudited, CompletionIsAudited, Audited
  <2> QED
    BY <2>1, <2>2 DEF Next
<1> QED
  BY <1>1, <1>2, Typing, PTL DEF Spec

\* A terminal run has its RUN_COMPLETED.
THEOREM CompletionHolds == Spec => []CompletionIsAudited
<1>1. AuditInv => CompletionIsAudited
  BY DEF AuditInv
<1> QED
  BY <1>1, AuditInvariance, PTL

-----------------------------------------------------------------------------
(* Progress: what RequestsEnd rests on *)

\* whoever is named as a lock's holder is inside an append of that tenant
LocksAreManned ==
    \A t \in Tenants : locked[t] # None =>
        pc[locked[t]] \in {"locked", "checked", "insert"} /\ TenantOf[locked[t]] = t

\* No lock is orphaned: however an append ends (committed, refused by the
\* foreign-tenant check, by the unique sequence or by a crash), the advisory
\* lock goes with its transaction, so a waiting append waits for a live one.
THEOREM NoLockIsOrphaned == Spec => []LocksAreManned
<1>1. Init => LocksAreManned
  BY DEF Init, LocksAreManned
<1>2. TypeOK /\ ChainInv /\ LocksAreManned /\ [Next]_vars => LocksAreManned'
  <2> SUFFICES ASSUME TypeOK, ChainInv, LocksAreManned, [Next]_vars PROVE LocksAreManned'
    OBVIOUS
  <2>1. ASSUME NEW r \in Requests,
               \/ CreateRun(r) \/ ReadToComplete(r) \/ RecordNode(r) \/ ReadGraph(r)
               \/ ReadToBind(r) \/ Replace(r) \/ Draft(r)
        PROVE  LocksAreManned'
    <3>1. /\ locked' = locked /\ pc[r] \notin {"locked", "checked", "insert"}
          /\ \A q \in Requests \ {r} : pc'[q] = pc[q]
      BY <2>1 DEF CreateRun, ReadToComplete, RecordNode, ReadGraph, ReadToBind, Replace, Draft,
                  Goto, TypeOK
    <3> QED
      BY <3>1 DEF LocksAreManned, TypeOK
  <2>2. ASSUME NEW r \in Requests, Lock(r) PROVE LocksAreManned'
    BY <2>2, RunAssumption DEF Lock, Goto, LocksAreManned, TypeOK
  <2>3. ASSUME NEW r \in Requests, CheckForeign(r) \/ ReadLast(r) \/ Insert(r)
        PROVE  LocksAreManned'
    <3>1. locked[TenantOf[r]] = r
      BY <2>3 DEF CheckForeign, ReadLast, Insert, ChainInv, AppendIsExclusive
    <3>2. \/ locked' = locked /\ pc'[r] \in {"checked", "insert"}
          \/ locked' = [locked EXCEPT ![TenantOf[r]] = None]
      BY <2>3 DEF CheckForeign, ReadLast, Insert, Unlock, Goto, TypeOK
    <3>3. \A q \in Requests \ {r} : pc'[q] = pc[q]
      BY <2>3 DEF CheckForeign, ReadLast, Insert, Goto, TypeOK
    <3> QED
      BY <3>1, <3>2, <3>3, RunAssumption DEF LocksAreManned, TypeOK
  <2>4. ASSUME NEW r \in Requests, Crash(r) PROVE LocksAreManned'
    BY <2>4, RunAssumption DEF Crash, Goto, LocksAreManned, TypeOK
  <2>5. CASE UNCHANGED vars
    BY <2>5 DEF vars, LocksAreManned
  <2> QED
    BY <2>1, <2>2, <2>3, <2>4, <2>5 DEF Next, Step
<1> QED
  BY <1>1, <1>2, Typing, ChainInvariance, PTL DEF Spec

\* how far a request has come: a completion appends before it replaces the
\* record, every other request afterwards
Progress(r, p) ==
    CASE p = "new"     -> 0
      [] p = "graph"   -> 1
      [] p = "bind"    -> 2
      [] p = "replace" -> IF KindOf[r] = "complete" THEN 8 ELSE 3
      [] p = "append"  -> 4
      [] p = "locked"  -> 5
      [] p = "checked" -> 6
      [] p = "insert"  -> 7
      [] OTHER         -> 9

OneAdvances ==
    \E r \in Requests :
        /\ Progress(r, pc[r]) < Progress(r, pc'[r])
        /\ \A q \in Requests \ {r} : pc'[q] = pc[q]

\* No request ever goes back or repeats a step: each step takes one request
\* strictly onward, so it ends after nine of them at the most.
THEOREM RequestsAdvance == Spec => [][OneAdvances]_vars
<1>1. TypeOK /\ AuditInv /\ Next => OneAdvances
  <2> SUFFICES ASSUME TypeOK, AuditInv, NEW r \in Requests, Step(r) \/ Crash(r)
               PROVE  OneAdvances
    BY DEF Next
  <2>1. \A q \in Requests \ {r} : pc'[q] = pc[q]
    BY DEF Step, CreateRun, ReadToComplete, RecordNode, ReadGraph, ReadToBind, Replace, Draft,
           Lock, CheckForeign, ReadLast, Insert, Crash, Goto, TypeOK
  <2>2. CASE CreateRun(r) \/ ReadToComplete(r) \/ RecordNode(r) \/ Draft(r)
    <3>1. pc[r] = "new" /\ pc'[r] \in {"append", "failed", "graph"}
      BY <2>2 DEF CreateRun, ReadToComplete, RecordNode, Draft, Goto, TypeOK
    <3> QED
      BY <2>1, <3>1 DEF Progress, OneAdvances
  <2>3. CASE ReadGraph(r)
    <3>1. pc[r] = "graph" /\ pc'[r] = "bind"
      BY <2>3 DEF ReadGraph, Goto, TypeOK
    <3> QED
      BY <2>1, <3>1 DEF Progress, OneAdvances
  <2>4. CASE ReadToBind(r)
    <3>1. pc[r] = "bind" /\ pc'[r] \in {"failed", "replace"} /\ KindOf[r] # "complete"
      BY <2>4 DEF ReadToBind, Goto, TypeOK, AuditInv, BindersBind
    <3> QED
      BY <2>1, <3>1 DEF Progress, OneAdvances
  <2>5. CASE Replace(r)
    <3>1. pc[r] = "replace" /\ pc'[r] = IF KindOf[r] = "complete" THEN "done" ELSE "append"
      BY <2>5 DEF Replace, Goto, TypeOK
    <3> QED
      BY <2>1, <3>1 DEF Progress, OneAdvances
  <2>6. CASE Lock(r) \/ CheckForeign(r) \/ ReadLast(r)
    <3>1. \/ pc[r] = "append" /\ pc'[r] = "locked"
          \/ pc[r] = "locked" /\ pc'[r] \in {"checked", "failed"}
          \/ pc[r] = "checked" /\ pc'[r] = "insert"
      BY <2>6 DEF Lock, CheckForeign, ReadLast, Goto, TypeOK
    <3> QED
      BY <2>1, <3>1 DEF Progress, OneAdvances
  <2>7. CASE Insert(r)
    <3>1. pc[r] = "insert" /\ pc'[r] \in {"failed", AfterAppend(r)}
      BY <2>7 DEF Insert, Goto, TypeOK
    <3> QED
      BY <2>1, <3>1 DEF AfterAppend, Progress, OneAdvances
  <2>8. CASE Crash(r)
    <3>1. pc[r] \in PC \ {"new", "done", "failed"} /\ pc'[r] = "failed"
      BY <2>8 DEF Crash, Goto, TypeOK
    <3> QED
      BY <2>1, <3>1 DEF PC, Progress, OneAdvances
  <2> QED
    BY <2>2, <2>3, <2>4, <2>5, <2>6, <2>7, <2>8 DEF Step
<1> QED
  BY <1>1, Typing, AuditInvariance, PTL DEF Spec

-----------------------------------------------------------------------------
(* The production policy *)

\* A nonempty set of positions has a first one.
LEMMA Least ==
  ASSUME NEW S \in SUBSET Nat, S # {}
  PROVE  Min(S) \in S /\ \A y \in S : Min(S) <= y
<1> DEFINE upto(x) == 0..x
           O == StrictSubsetOrdering(Nat)
           T == {upto(x) : x \in S}
<1>1. T \in SUBSET FiniteSubsetsOf(Nat) /\ T # {}
  <2>1. ASSUME NEW x \in S PROVE upto(x) \in FiniteSubsetsOf(Nat)
    <3>1. IsFiniteSet(upto(x))
      BY FS_Interval
    <3> QED BY <3>1 DEF FiniteSubsetsOf
  <2>2. T \subseteq FiniteSubsetsOf(Nat)
    BY <2>1, Zenon
  <2>3. PICK x \in S : TRUE
    OBVIOUS
  <2>4. upto(x) \in T
    OBVIOUS
  <2> QED BY <2>2, <2>4, Zenon
<1>2. IsWellFoundedOn(O, FiniteSubsetsOf(Nat))
  BY FS_StrictSubsetOrderingWellFounded
<1>3. PICK U \in T : \A V \in T : ~ (<<V, U>> \in O)
  <2> HIDE DEF T, O
  <2> QED BY <1>1, <1>2, WFMin
<1>4. PICK x \in S : U = upto(x)
  BY <1>3
<1>5. ASSUME NEW y \in S, y < x PROVE FALSE
  <2>1. upto(y) \subseteq upto(x) /\ upto(y) # upto(x)
    BY <1>5
  <2>2. <<upto(y), U>> \in O
    BY <2>1, <1>4 DEF StrictSubsetOrdering
  <2> QED BY <2>2, <1>3
<1>6. \A y \in S : x <= y
  BY <1>5
<1> QED BY <1>6 DEF Min

\* The first of a set stays the first when later positions are added.
LEMMA LeastStays ==
  ASSUME NEW S \in SUBSET Nat, S # {}, NEW T \in SUBSET Nat, S \subseteq T,
         \A y \in T \ S, x \in S : x < y
  PROVE  Min(T) = Min(S)
<1>1. Min(S) \in S /\ \A y \in S : Min(S) <= y
  BY Least
<1>2. Min(T) \in T /\ \A y \in T : Min(T) <= y
  BY Least
<1>3. Min(T) <= Min(S) /\ Min(S) \in Nat /\ Min(T) \in Nat
  BY <1>1, <1>2
<1>4. Min(T) \in S
  BY <1>1, <1>2, <1>3
<1> QED BY <1>1, <1>3, <1>4

\* A choice is one of the candidates.
LEMMA FirstIsCandidate ==
  ASSUME NEW f, DOMAIN f \in SUBSET Nat, FirstOf(f) # NoNode
  PROVE  \E i \in DOMAIN f : FirstOf(f) = f[i]
<1> DEFINE good == {i \in DOMAIN f : f[i].ok}
<1>1. FirstOf(f) = IF good # {} THEN f[Min(good)]
                   ELSE IF DOMAIN f # {} THEN f[Min(DOMAIN f)] ELSE NoNode
  BY DEF FirstOf
<1>2. good # {} => Min(good) \in good
  BY Least
<1>3. DOMAIN f # {} => Min(DOMAIN f) \in DOMAIN f
  BY Least
<1>4. good \subseteq DOMAIN f
  OBVIOUS
<1> HIDE DEF good
<1> QED BY <1>1, <1>2, <1>3, <1>4

\* A successful choice does not change when later candidates appear.
LEMMA FirstStays ==
  ASSUME NEW f, NEW g, DOMAIN f \in SUBSET Nat, DOMAIN g \in SUBSET Nat,
         DOMAIN f \subseteq DOMAIN g, \A i \in DOMAIN f : g[i] = f[i],
         \A y \in DOMAIN g \ DOMAIN f, x \in DOMAIN f : x < y,
         FirstOf(f) # NoNode, FirstOf(f).ok
  PROVE  FirstOf(g) = FirstOf(f)
<1> DEFINE goodF == {i \in DOMAIN f : f[i].ok}
           goodG == {i \in DOMAIN g : g[i].ok}
<1>1. PICK i \in DOMAIN f : FirstOf(f) = f[i]
  BY FirstIsCandidate
<1>2. i \in goodF
  BY <1>1
<1>3. goodF \in SUBSET Nat /\ goodG \in SUBSET Nat /\ goodF \subseteq goodG
      /\ \A y \in goodG \ goodF, x \in goodF : x < y
  OBVIOUS
<1>4. FirstOf(f) = f[Min(goodF)]
  BY <1>2 DEF FirstOf
<1>5. FirstOf(g) = g[Min(goodG)]
  BY <1>2, <1>3 DEF FirstOf
<1>6. Min(goodF) \in DOMAIN f
  <2>1. Min(goodF) \in goodF
    <3> HIDE DEF goodF
    <3> QED BY <1>2, <1>3, Least
  <2> QED BY <2>1
<1>7. Min(goodG) = Min(goodF)
  <2> HIDE DEF goodF, goodG
  <2> QED BY <1>2, <1>3, LeastStays
<1> QED BY <1>4, <1>5, <1>6, <1>7

\* what validate_graph and the primary keys keep true of a stored graph
SoundGraph(N, R) ==
    /\ N \subseteq LineageNode /\ R \in Seq(LineageRelation)
    /\ \A m, n \in N : m.id = n.id => m = n
    /\ \A i \in DOMAIN R : /\ \E n \in N : Ref(n) = R[i].subject
                           /\ \E n \in N : Ref(n) = R[i].object

LEMMA EndsAreNodes ==
  ASSUME NEW N, NEW R, SoundGraph(N, R), NEW i \in DOMAIN R
  PROVE  /\ NodeOf(N, R[i].subject) \in N /\ Ref(NodeOf(N, R[i].subject)) = R[i].subject
         /\ NodeOf(N, R[i].object) \in N /\ Ref(NodeOf(N, R[i].object)) = R[i].object
BY DEF SoundGraph, NodeOf

\* _subject returns a node of the asked kind that is linked to the object.
LEMMA SubjectIsLinked ==
  ASSUME NEW N, NEW R, SoundGraph(N, R), NEW type, NEW object, NEW kind,
         SubjectOf(N, R, type, object, kind) # NoNode
  PROVE  LET n == SubjectOf(N, R, type, object, kind)
         IN  n \in N /\ n.kind = kind /\ Linked(R, n, type, object)
<1> DEFINE into == {i \in DOMAIN R : /\ R[i].relation = type /\ R[i].object = Ref(object)
                                     /\ NodeOf(N, R[i].subject).kind = kind}
           f == [i \in into |-> NodeOf(N, R[i].subject)]
<1>1. SubjectOf(N, R, type, object, kind) = FirstOf(f)
  BY DEF SubjectOf
<1>2. DOMAIN f \in SUBSET Nat
  BY DEF SoundGraph
<1>3. PICK i \in DOMAIN f : FirstOf(f) = f[i]
  <2> HIDE DEF f
  <2> QED BY <1>1, <1>2, FirstIsCandidate
<1>4. i \in DOMAIN R /\ R[i].relation = type /\ R[i].object = Ref(object) /\ f[i].kind = kind
      /\ f[i] = NodeOf(N, R[i].subject)
  BY <1>3
<1>5. f[i] \in N /\ Ref(f[i]) = R[i].subject
  BY <1>4, EndsAreNodes
<1>6. R[i] \in LineageRelation /\ R[i] \in Range(R)
  BY <1>4 DEF SoundGraph, Range
<1>7. R[i] = [relation |-> type, subject |-> Ref(f[i]), object |-> Ref(object)]
  BY <1>4, <1>5, <1>6 DEF LineageRelation
<1> HIDE DEF f, into
<1> QED BY <1>1, <1>3, <1>4, <1>5, <1>6, <1>7 DEF Linked

\* And _object one that the subject is linked to.
LEMMA ObjectIsLinked ==
  ASSUME NEW N, NEW R, SoundGraph(N, R), NEW type, NEW subject, NEW kind,
         ObjectOf(N, R, type, subject, kind) # NoNode
  PROVE  LET n == ObjectOf(N, R, type, subject, kind)
         IN  n \in N /\ n.kind = kind /\ Linked(R, subject, type, n)
<1> DEFINE out == {i \in DOMAIN R : /\ R[i].relation = type /\ R[i].subject = Ref(subject)
                                    /\ NodeOf(N, R[i].object).kind = kind}
           f == [i \in out |-> NodeOf(N, R[i].object)]
<1>1. ObjectOf(N, R, type, subject, kind) = FirstOf(f)
  BY DEF ObjectOf
<1>2. DOMAIN f \in SUBSET Nat
  BY DEF SoundGraph
<1>3. PICK i \in DOMAIN f : FirstOf(f) = f[i]
  <2> HIDE DEF f
  <2> QED BY <1>1, <1>2, FirstIsCandidate
<1>4. i \in DOMAIN R /\ R[i].relation = type /\ R[i].subject = Ref(subject) /\ f[i].kind = kind
      /\ f[i] = NodeOf(N, R[i].object)
  BY <1>3
<1>5. f[i] \in N /\ Ref(f[i]) = R[i].object
  BY <1>4, EndsAreNodes
<1>6. R[i] \in LineageRelation /\ R[i] \in Range(R)
  BY <1>4 DEF SoundGraph, Range
<1>7. R[i] = [relation |-> type, subject |-> Ref(subject), object |-> Ref(f[i])]
  BY <1>4, <1>5, <1>6 DEF LineageRelation
<1> HIDE DEF f, out
<1> QED BY <1>1, <1>3, <1>4, <1>5, <1>6, <1>7 DEF Linked

\* the graph M, Q has all that N, R has, and what it has more comes later
Prolongs(N, R, M, Q) ==
    /\ DOMAIN R \subseteq DOMAIN Q /\ DOMAIN Q \subseteq Nat
    /\ \A i \in DOMAIN R : /\ Q[i] = R[i]
                           /\ NodeOf(M, R[i].subject) = NodeOf(N, R[i].subject)
                           /\ NodeOf(M, R[i].object) = NodeOf(N, R[i].object)
    /\ \A j \in DOMAIN Q \ DOMAIN R, i \in DOMAIN R : i < j

\* A successful stage of the path stays what it was.
LEMMA SubjectStays ==
  ASSUME NEW N, NEW R, NEW M, NEW Q, Prolongs(N, R, M, Q), NEW type, NEW object, NEW kind,
         SubjectOf(N, R, type, object, kind) # NoNode, SubjectOf(N, R, type, object, kind).ok
  PROVE  SubjectOf(M, Q, type, object, kind) = SubjectOf(N, R, type, object, kind)
<1> DEFINE intoR == {i \in DOMAIN R : /\ R[i].relation = type /\ R[i].object = Ref(object)
                                      /\ NodeOf(N, R[i].subject).kind = kind}
           intoQ == {i \in DOMAIN Q : /\ Q[i].relation = type /\ Q[i].object = Ref(object)
                                      /\ NodeOf(M, Q[i].subject).kind = kind}
           f == [i \in intoR |-> NodeOf(N, R[i].subject)]
           g == [i \in intoQ |-> NodeOf(M, Q[i].subject)]
<1>1. object # NoNode
  BY DEF SubjectOf
<1>2. /\ SubjectOf(N, R, type, object, kind) = FirstOf(f)
      /\ SubjectOf(M, Q, type, object, kind) = FirstOf(g)
  BY <1>1 DEF SubjectOf
<1>3. intoR \subseteq intoQ /\ intoR \in SUBSET Nat /\ intoQ \in SUBSET Nat
  BY DEF Prolongs
<1>4. \A j \in intoQ \ intoR, i \in intoR : i < j
  BY DEF Prolongs
<1>5. \A i \in intoR : g[i] = f[i]
  BY <1>3 DEF Prolongs
<1>6. DOMAIN f = intoR /\ DOMAIN g = intoQ
  OBVIOUS
<1> HIDE DEF f, g, intoR, intoQ
<1> QED BY <1>2, <1>3, <1>4, <1>5, <1>6, FirstStays

LEMMA ObjectStays ==
  ASSUME NEW N, NEW R, NEW M, NEW Q, Prolongs(N, R, M, Q), NEW type, NEW subject, NEW kind,
         ObjectOf(N, R, type, subject, kind) # NoNode, ObjectOf(N, R, type, subject, kind).ok
  PROVE  ObjectOf(M, Q, type, subject, kind) = ObjectOf(N, R, type, subject, kind)
<1> DEFINE outR == {i \in DOMAIN R : /\ R[i].relation = type /\ R[i].subject = Ref(subject)
                                     /\ NodeOf(N, R[i].object).kind = kind}
           outQ == {i \in DOMAIN Q : /\ Q[i].relation = type /\ Q[i].subject = Ref(subject)
                                     /\ NodeOf(M, Q[i].object).kind = kind}
           f == [i \in outR |-> NodeOf(N, R[i].object)]
           g == [i \in outQ |-> NodeOf(M, Q[i].object)]
<1>1. subject # NoNode
  BY DEF ObjectOf
<1>2. /\ ObjectOf(N, R, type, subject, kind) = FirstOf(f)
      /\ ObjectOf(M, Q, type, subject, kind) = FirstOf(g)
  BY <1>1 DEF ObjectOf
<1>3. outR \subseteq outQ /\ outR \in SUBSET Nat /\ outQ \in SUBSET Nat
  BY DEF Prolongs
<1>4. \A j \in outQ \ outR, i \in outR : i < j
  BY DEF Prolongs
<1>5. \A i \in outR : g[i] = f[i]
  BY <1>3 DEF Prolongs
<1>6. DOMAIN f = outR /\ DOMAIN g = outQ
  OBVIOUS
<1> HIDE DEF f, g, outR, outQ
<1> QED BY <1>2, <1>3, <1>4, <1>5, <1>6, FirstStays

Stages == {"specification", "decisions", "generator", "tree", "verification", "build",
           "authorization", "action", "deployment", "observed", "reconciliation"}

\* Each stage is found from the one after it.
LEMMA StagesFollow ==
  ASSUME NEW N, NEW R, NEW o, NEW p, p = Path(N, R, o)
  PROVE  /\ DOMAIN p = Stages
         /\ p = [specification |-> p.specification, decisions |-> p.decisions,
                 generator |-> p.generator, tree |-> p.tree, verification |-> p.verification,
                 build |-> p.build, authorization |-> p.authorization, action |-> p.action,
                 deployment |-> p.deployment, observed |-> p.observed,
                 reconciliation |-> p.reconciliation]
         /\ p.observed = o
         /\ p.deployment = SubjectOf(N, R, "observed_as", o, "deployment")
         /\ p.action = SubjectOf(N, R, "deployed_as", p.deployment, "agent_action")
         /\ p.authorization = SubjectOf(N, R, "authorized_action", p.action, "authorization")
         /\ p.build = SubjectOf(N, R, "authorized_by", p.authorization, "build_artifact")
         /\ p.tree = SubjectOf(N, R, "built_as", p.build, "source_tree")
         /\ p.generator = SubjectOf(N, R, "produced", p.tree, "generator_configuration")
         /\ p.specification =
               ObjectOf(N, R, "generated_from", p.generator, "specification_revision")
         /\ p.decisions = ObjectOf(N, R, "generated_from", p.generator, "decision_set")
         /\ p.verification = ObjectOf(N, R, "verified_by", p.tree, "verification")
         /\ p.reconciliation = ObjectOf(N, R, "compared_by", o, "reconciliation")
BY DEF Path, Stages

LEMMA NothingMissing ==
  ASSUME NEW N, NEW R, NEW o, NEW p, p = Path(N, R, o), Complete(Assess(N, R, o))
  PROVE  \A q \in Stages : p[q] # NoNode /\ p[q].ok
BY StagesFollow DEF Complete, Assess, Missing

\* A complete assessment has found a continuous chain of successful stages.
LEMMA CompletePathIsContinuous ==
  ASSUME NEW N, NEW R, SoundGraph(N, R), NEW o, Complete(Assess(N, R, o))
  PROVE  Continuous(N, R, o)
<1>1. PICK p : p = Path(N, R, o)
  OBVIOUS
<1>2. \A q \in Stages : p[q] # NoNode /\ p[q].ok
  BY <1>1, NothingMissing
<1>3. /\ p.specification # NoNode /\ p.specification.ok /\ p.decisions # NoNode /\ p.decisions.ok
      /\ p.generator # NoNode /\ p.generator.ok /\ p.tree # NoNode /\ p.tree.ok
      /\ p.verification # NoNode /\ p.verification.ok /\ p.build # NoNode /\ p.build.ok
      /\ p.authorization # NoNode /\ p.authorization.ok /\ p.action # NoNode /\ p.action.ok
      /\ p.deployment # NoNode /\ p.deployment.ok
      /\ p.reconciliation # NoNode /\ p.reconciliation.ok
  BY <1>2 DEF Stages
<1>4. /\ p.deployment = SubjectOf(N, R, "observed_as", o, "deployment")
      /\ p.action = SubjectOf(N, R, "deployed_as", p.deployment, "agent_action")
      /\ p.authorization = SubjectOf(N, R, "authorized_action", p.action, "authorization")
      /\ p.build = SubjectOf(N, R, "authorized_by", p.authorization, "build_artifact")
      /\ p.tree = SubjectOf(N, R, "built_as", p.build, "source_tree")
      /\ p.generator = SubjectOf(N, R, "produced", p.tree, "generator_configuration")
      /\ p.specification = ObjectOf(N, R, "generated_from", p.generator, "specification_revision")
      /\ p.decisions = ObjectOf(N, R, "generated_from", p.generator, "decision_set")
      /\ p.verification = ObjectOf(N, R, "verified_by", p.tree, "verification")
      /\ p.reconciliation = ObjectOf(N, R, "compared_by", o, "reconciliation")
  BY <1>1, StagesFollow
<1>5. /\ p.deployment \in N /\ Succeeded(p.deployment, "deployment")
      /\ Linked(R, p.deployment, "observed_as", o)
  BY <1>3, <1>4, SubjectIsLinked DEF Succeeded
<1>6. /\ p.action \in N /\ Succeeded(p.action, "agent_action")
      /\ Linked(R, p.action, "deployed_as", p.deployment)
  BY <1>3, <1>4, SubjectIsLinked DEF Succeeded
<1>7. /\ p.authorization \in N /\ Succeeded(p.authorization, "authorization")
      /\ Linked(R, p.authorization, "authorized_action", p.action)
  BY <1>3, <1>4, SubjectIsLinked DEF Succeeded
<1>8. /\ p.build \in N /\ Succeeded(p.build, "build_artifact")
      /\ Linked(R, p.build, "authorized_by", p.authorization)
  BY <1>3, <1>4, SubjectIsLinked DEF Succeeded
<1>9. /\ p.tree \in N /\ Succeeded(p.tree, "source_tree")
      /\ Linked(R, p.tree, "built_as", p.build)
  BY <1>3, <1>4, SubjectIsLinked DEF Succeeded
<1>10. /\ p.generator \in N /\ Succeeded(p.generator, "generator_configuration")
       /\ Linked(R, p.generator, "produced", p.tree)
  BY <1>3, <1>4, SubjectIsLinked DEF Succeeded
<1>11. /\ \E n \in N : Succeeded(n, "verification") /\ Linked(R, p.tree, "verified_by", n)
       /\ \E n \in N : Succeeded(n, "specification_revision")
                       /\ Linked(R, p.generator, "generated_from", n)
       /\ \E n \in N : Succeeded(n, "decision_set") /\ Linked(R, p.generator, "generated_from", n)
       /\ \E n \in N : Succeeded(n, "reconciliation") /\ Linked(R, o, "compared_by", n)
  BY <1>3, <1>4, ObjectIsLinked DEF Succeeded
<1> QED BY <1>5, <1>6, <1>7, <1>8, <1>9, <1>10, <1>11, Zenon DEF Continuous

\* A complete assessment is repeated by every later graph.
LEMMA CompleteStays ==
  ASSUME NEW N, NEW R, NEW M, NEW Q, Prolongs(N, R, M, Q), NEW o, Complete(Assess(N, R, o))
  PROVE  Assess(M, Q, o) = Assess(N, R, o)
<1>1. PICK p : p = Path(N, R, o)
  OBVIOUS
<1>2. PICK t : t = Path(M, Q, o)
  OBVIOUS
<1>3. \A q \in Stages : p[q] # NoNode /\ p[q].ok
  BY <1>1, NothingMissing
<1>4. /\ p.specification # NoNode /\ p.specification.ok /\ p.decisions # NoNode /\ p.decisions.ok
      /\ p.generator # NoNode /\ p.generator.ok /\ p.tree # NoNode /\ p.tree.ok
      /\ p.verification # NoNode /\ p.verification.ok /\ p.build # NoNode /\ p.build.ok
      /\ p.authorization # NoNode /\ p.authorization.ok /\ p.action # NoNode /\ p.action.ok
      /\ p.deployment # NoNode /\ p.deployment.ok
      /\ p.reconciliation # NoNode /\ p.reconciliation.ok
  BY <1>3 DEF Stages
<1>5. t.deployment = p.deployment
  BY <1>1, <1>2, <1>4, StagesFollow, SubjectStays
<1>6. t.action = p.action
  BY <1>1, <1>2, <1>4, <1>5, StagesFollow, SubjectStays
<1>7. t.authorization = p.authorization
  BY <1>1, <1>2, <1>4, <1>6, StagesFollow, SubjectStays
<1>8. t.build = p.build
  BY <1>1, <1>2, <1>4, <1>7, StagesFollow, SubjectStays
<1>9. t.tree = p.tree
  BY <1>1, <1>2, <1>4, <1>8, StagesFollow, SubjectStays
<1>10. t.generator = p.generator
  BY <1>1, <1>2, <1>4, <1>9, StagesFollow, SubjectStays
<1>11. t.specification = p.specification /\ t.decisions = p.decisions
  BY <1>1, <1>2, <1>4, <1>10, StagesFollow, ObjectStays
<1>12. t.verification = p.verification /\ t.reconciliation = p.reconciliation
  BY <1>1, <1>2, <1>4, <1>9, StagesFollow, ObjectStays
<1>13. t.observed = p.observed
  BY <1>1, <1>2, StagesFollow
<1>14. t = p
  BY <1>1, <1>2, <1>5, <1>6, <1>7, <1>8, <1>9, <1>10, <1>11, <1>12, <1>13, StagesFollow
<1> QED BY <1>1, <1>2, <1>14 DEF Assess

-----------------------------------------------------------------------------
(* The lineage store and the verdicts *)

\* complete, and still what the policy says of the graph as it is now
Standing(v) == Complete(v) /\ Assess(nodes, relations, v.observation) = v

\* Also the verdicts that are yet to be appended must stand: the graph may grow
\* between an assessment and its append.
LineageInv ==
    /\ SoundGraph(nodes, relations)
    /\ calls = [c \in Calls |-> calls[c]]
    /\ \A v \in verdicts : Standing(v)
    /\ \A c \in Calls : calls[c] # NoCall /\ Complete(calls[c]) => Standing(calls[c])

\* A step that only lets the graph grow.
LEMMA GraphGrows ==
  ASSUME LineageInv, SoundGraph(nodes', relations'), UNCHANGED <<calls, verdicts>>,
         Prolongs(nodes, relations, nodes', relations')
  PROVE  LineageInv'
<1>1. ASSUME NEW v, Standing(v) PROVE Standing(v)'
  <2>1. Complete(Assess(nodes, relations, v.observation))
    BY <1>1 DEF Standing
  <2>2. Assess(nodes', relations', v.observation) = Assess(nodes, relations, v.observation)
    BY <2>1, CompleteStays
  <2> QED BY <1>1, <2>2 DEF Standing
<1>2. SoundGraph(nodes, relations)'
  OBVIOUS
<1>3. \A v \in verdicts' : Standing(v)'
  BY <1>1 DEF LineageInv
<1>4. ASSUME NEW c \in Calls, (calls[c] # NoCall /\ Complete(calls[c]))' PROVE Standing(calls[c])'
  <2>1. PICK v : v = calls[c]
    OBVIOUS
  <2>2. Standing(v)'
    BY <1>1, <1>4, <2>1 DEF LineageInv
  <2> QED BY <2>1, <2>2 DEF Standing
<1> QED BY <1>2, <1>3, <1>4 DEF LineageInv

LEMMA RecordNodeInv ==
  ASSUME LineageInv, NEW n \in Nodes, RecordLineageNode(n)
  PROVE  LineageInv'
<1>1. /\ nodes' = nodes \cup {n} /\ n \in LineageNode /\ UNCHANGED <<relations, calls, verdicts>>
      /\ \A m \in nodes : m.id = n.id => m = n
  BY LineageAssumption DEF RecordLineageNode
<1>2. SoundGraph(nodes, relations)
  BY DEF LineageInv
<1>3. \A m, k \in nodes' : m.id = k.id => m = k
  BY <1>1, <1>2 DEF SoundGraph
<1>4. SoundGraph(nodes', relations')
  BY <1>1, <1>2, <1>3 DEF SoundGraph
<1>5. ASSUME NEW ref, NEW m \in nodes, Ref(m) = ref PROVE NodeOf(nodes', ref) = NodeOf(nodes, ref)
  <2>1. NodeOf(nodes, ref) \in nodes /\ Ref(NodeOf(nodes, ref)) = ref
    BY <1>5 DEF NodeOf
  <2>2. NodeOf(nodes', ref) \in nodes' /\ Ref(NodeOf(nodes', ref)) = ref
    BY <1>1, <1>5 DEF NodeOf
  <2>3. \A k : Ref(k) = ref => k.id = ref.id
    BY DEF Ref
  <2> QED BY <1>1, <1>3, <2>1, <2>2, <2>3
<1>6. DOMAIN relations \subseteq Nat
  BY <1>2 DEF SoundGraph
<1>7. Prolongs(nodes, relations, nodes', relations')
  BY <1>1, <1>2, <1>5, <1>6 DEF Prolongs, SoundGraph
<1> QED BY <1>1, <1>4, <1>7, GraphGrows

LEMMA RecordRelationInv ==
  ASSUME LineageInv, NEW r \in Relations, RecordRelation(r)
  PROVE  LineageInv'
<1>1. /\ relations' = Append(relations, r) /\ r \in LineageRelation
      /\ UNCHANGED <<nodes, calls, verdicts>>
      /\ ValidGraph(nodes, relations')
  BY LineageAssumption DEF RecordRelation
<1>2. SoundGraph(nodes, relations)
  BY DEF LineageInv
<1>3. relations \in Seq(LineageRelation) /\ relations' \in Seq(LineageRelation)
  BY <1>1, <1>2 DEF SoundGraph
<1>4. /\ DOMAIN relations = 1..Len(relations) /\ DOMAIN relations' = 1..(Len(relations) + 1)
      /\ Len(relations) \in Nat /\ \A i \in DOMAIN relations : relations'[i] = relations[i]
  BY <1>1, <1>3
<1>5. \A i \in DOMAIN relations' : relations'[i] \in Range(relations')
  BY DEF Range
<1>6. SoundGraph(nodes', relations')
  BY <1>1, <1>2, <1>3, <1>5 DEF SoundGraph, ValidGraph
<1>7. Prolongs(nodes, relations, nodes', relations')
  BY <1>1, <1>4 DEF Prolongs
<1> QED BY <1>1, <1>6, <1>7, GraphGrows

LEMMA CallInv ==
  ASSUME LineageInv, NEW c \in Calls,
         \/ \E n \in nodes : BeginAssess(c, n)
         \/ RecordAssessment(c) \/ Abandon(c)
  PROVE  LineageInv'
<1>1. UNCHANGED <<nodes, relations>>
  BY DEF BeginAssess, RecordAssessment, Abandon
<1>2. ASSUME NEW v, Standing(v) PROVE Standing(v)'
  BY <1>1, <1>2 DEF Standing
<1>3. SoundGraph(nodes, relations)'
  BY <1>1 DEF LineageInv
<1>4. \A d \in Calls : d # c => calls'[d] = calls[d]
  BY DEF LineageInv, BeginAssess, RecordAssessment, Abandon
<1>5. calls' = [d \in Calls |-> calls'[d]]
  BY DEF LineageInv, BeginAssess, RecordAssessment, Abandon
<1>6. \A v \in verdicts' : Standing(v)
  BY DEF LineageInv, BeginAssess, RecordAssessment, Abandon
<1>7. calls'[c] # NoCall /\ Complete(calls'[c]) => Standing(calls'[c])
  <2>1. ASSUME NEW o \in nodes, BeginAssess(c, o) PROVE calls'[c] = Assess(nodes, relations, o)
    BY <2>1 DEF BeginAssess, LineageInv
  <2>2. \A o : Assess(nodes, relations, o).observation = o
    BY DEF Assess
  <2>3. RecordAssessment(c) \/ Abandon(c) => calls'[c] = NoCall
    BY DEF RecordAssessment, Abandon, LineageInv
  <2> QED BY <2>1, <2>2, <2>3 DEF Standing
<1>8. ASSUME NEW d \in Calls, (calls[d] # NoCall /\ Complete(calls[d]))' PROVE Standing(calls[d])'
  <2>1. PICK v : v = calls'[d]
    OBVIOUS
  <2>2. Standing(v)
    BY <1>4, <1>7, <1>8, <2>1 DEF LineageInv
  <2>3. Standing(v)'
    BY <1>2, <2>2
  <2> QED BY <2>1, <2>3 DEF Standing
<1> QED BY <1>2, <1>3, <1>5, <1>6, <1>8 DEF LineageInv

\* The graph stays sound and every complete verdict, stored or on its way to
\* the ledger, stands.
THEOREM LineageInvariance == LineageSpec => []LineageInv
<1>1. LineageInit => LineageInv
  <2> SUFFICES ASSUME LineageInit PROVE LineageInv
    OBVIOUS
  <2>1. PICK h \in Histories : nodes = h.nodes /\ relations = h.relations
    BY DEF LineageInit
  <2>2. /\ nodes \subseteq LineageNode /\ relations \in Seq(LineageRelation)
        /\ ValidGraph(nodes, relations)
    BY <2>1, LineageAssumption
  <2>3. \A i \in DOMAIN relations : relations[i] \in Range(relations)
    BY DEF Range
  <2>4. SoundGraph(nodes, relations)
    BY <2>2, <2>3 DEF SoundGraph, ValidGraph
  <2> QED BY <2>4 DEF LineageInit, LineageInv
<1>2. LineageInv /\ [LineageNext]_lineageVars => LineageInv'
  <2> SUFFICES ASSUME LineageInv, [LineageNext]_lineageVars PROVE LineageInv'
    OBVIOUS
  <2>1. CASE UNCHANGED lineageVars
    BY <2>1 DEF lineageVars, LineageInv, Standing
  <2> QED BY <2>1, RecordNodeInv, RecordRelationInv, CallInv DEF LineageNext
<1> QED BY <1>1, <1>2, PTL DEF LineageSpec

\* What the production policy calls complete is a continuous chain of
\* successful stages, in every graph the store can hold.
THEOREM CompletenessIsContinuity == LineageSpec => []CompleteIsContinuous
<1>1. LineageInv => CompleteIsContinuous
  BY CompletePathIsContinuous DEF LineageInv, CompleteIsContinuous
<1> QED BY <1>1, LineageInvariance, PTL

\* A recorded complete verdict is never refuted by what is recorded later.
THEOREM VerdictsStand == LineageSpec => []RecordedVerdictHolds
<1>1. LineageInv => RecordedVerdictHolds
  BY DEF LineageInv, Standing, RecordedVerdictHolds
<1> QED BY <1>1, LineageInvariance, PTL
=============================================================================
