-------------------------- MODULE WorkQueueProofs --------------------------
(***************************************************************************)
(* The queue's guarantees for any number of items, tenants and workers,    *)
(* any retry budgets and any depth.                                        *)
(***************************************************************************)
EXTENDS WorkQueue, FiniteSetTheorems, TLAPS

-----------------------------------------------------------------------------
(* Types *)

LEMMA RowUpdates ==
    ASSUME NEW r \in Row, NEW w \in Workers
    PROVE  Buried(r) \in Row /\ Taken(r, w) \in Row
BY DEF Buried, Taken, Row, WorkState

\* Every variable keeps its type, and a worker past acquire has work in hand.
THEOREM Typing == Spec => [](TypeOK /\ \A w \in Workers : wpc[w] # "idle" => job[w] # None)
<1> DEFINE Busy == \A w \in Workers : wpc[w] # "idle" => job[w] # None
<1>1. Init => TypeOK /\ Busy
  BY DEF Init, TypeOK, Row, WorkState
<1>2. TypeOK /\ Busy /\ [Next]_vars => (TypeOK /\ Busy)'
  <2> SUFFICES ASSUME TypeOK, Busy, [Next]_vars PROVE (TypeOK /\ Busy)'
    OBVIOUS
  <2> USE QueueAssumption DEF TypeOK
  <2>1. ASSUME NEW i \in Items, Enqueue(i) PROVE (TypeOK /\ Busy)'
    BY <2>1 DEF Enqueue, Row, WorkState
  <2>2. ASSUME NEW i \in Items, Ripens(i) \/ LeaseLapses(i) PROVE (TypeOK /\ Busy)'
    BY <2>2 DEF Ripens, LeaseLapses, Row
  <2>3. ASSUME NEW w \in Workers, NEW t \in Tenants, Acquire(w, t) PROVE (TypeOK /\ Busy)'
    <3>1. PICK i \in Ready(t), dead \in SUBSET Exhausted(t) :
             /\ row' = [j \in Items |-> CASE j = i       -> Taken(row[j], w)
                                          [] j \in dead  -> Buried(row[j])
                                          [] OTHER       -> row[j]]
             /\ job' = [job EXCEPT ![w] = [item |-> i, attempt |-> row[i].attempt + 1,
                                           fence |-> row[i].fence + 1]]
      BY <2>3 DEF Acquire
    <3>2. i \in Items
      BY DEF Ready
    <3>3. \A j \in Items : Buried(row[j]) \in Row /\ Taken(row[j], w) \in Row
      BY RowUpdates
    <3>4. row' \in [Items -> Row]
      BY <3>1, <3>3
    <3>5. [item |-> i, attempt |-> row[i].attempt + 1, fence |-> row[i].fence + 1] \in Leased
      BY <3>2 DEF Leased, Row
    <3>6. job' \in [Workers -> Leased \cup {None}] /\ job'[w] # None
      BY <3>1, <3>5 DEF Leased
    <3> QED
      BY <2>3, <3>1, <3>4, <3>6 DEF Acquire
  <2>4. ASSUME NEW w \in Workers, NEW t \in Tenants, AcquireNothing(w, t) PROVE (TypeOK /\ Busy)'
    <3>1. \A j \in Items : Buried(row[j]) \in Row
      BY RowUpdates
    <3> QED
      BY <2>4, <3>1 DEF AcquireNothing
  <2>5. ASSUME NEW w \in Workers, HandlerReturns(w) \/ HandlerRaises(w) PROVE (TypeOK /\ Busy)'
    BY <2>5 DEF HandlerReturns, HandlerRaises, HandlerEnds
  <2>6. ASSUME NEW w \in Workers, Complete(w) \/ Retry(w) PROVE (TypeOK /\ Busy)'
    <3>1. job[w] \in Leased
      BY <2>6 DEF Complete, Retry
    <3>2. acked' \subseteq Ack
      BY <2>6, <3>1 DEF Complete, Retry, Acknowledge, Ack, Leased
    <3>3. row[job[w].item] \in Row /\ Buried(row[job[w].item]) \in Row
      BY <3>1, RowUpdates DEF Leased
    <3>4. row' \in [Items -> Row]
      <4> DEFINE i == job[w].item
      <4>1. i \in Items
        BY <3>1 DEF Leased
      <4>2. [row[i] EXCEPT !.state = "succeeded", !.owner = None] \in Row
        BY <3>3 DEF Row, WorkState
      <4>3. [row[i] EXCEPT !.state = "queued", !.owner = None] \in Row
        BY <3>3 DEF Row, WorkState
      <4>4. CASE Complete(w)
        <5>1. row' = [row EXCEPT ![i] = [row[i] EXCEPT !.state = "succeeded", !.owner = None]]
          BY <4>1, <4>4 DEF Complete
        <5> QED
          BY <5>1, <4>1, <4>2
      <4>5. CASE Retry(w)
        BY <4>1, <4>3, <4>5, <3>3 DEF Retry
      <4> QED
        BY <2>6, <4>4, <4>5
    <3> QED
      BY <2>6, <3>2, <3>4 DEF Complete, Retry, Idle
  <2>7. ASSUME NEW w \in Workers, LeaseLost(w) \/ Crash(w) PROVE (TypeOK /\ Busy)'
    BY <2>7 DEF LeaseLost, Crash, Idle
  <2>8. CASE UNCHANGED vars
    BY <2>8 DEF vars
  <2> QED
    BY <2>1, <2>2, <2>3, <2>4, <2>5, <2>6, <2>7, <2>8 DEF Next, Poll, Settle
<1> QED
  BY <1>1, <1>2, PTL DEF Spec

-----------------------------------------------------------------------------
(* Tokens and acknowledgements *)

Tokens ==
    /\ \A i \in Items : Budgeted(i) /\ SpentTokens(i)
    /\ \A w \in Workers : HandHeld(w)
    /\ AcksAreOld
    /\ AcknowledgedOnce

\* A step that leaves rows and acknowledgements alone and hands out no work.
LEMMA QuietSteps ==
    ASSUME IInv, TypeOK', row' = row, acked' = acked, lapsed \subseteq lapsed',
           \A w \in Workers : job'[w] \in {job[w], None}
    PROVE  Tokens'
<1>1. \A i \in Items : Budgeted(i)'
  BY DEF IInv, Budgeted
<1>2. \A i \in Items : SpentTokens(i)'
  BY DEF IInv, SpentTokens, Failed
<1>3. \A w \in Workers : HandHeld(w)'
  BY DEF IInv, HandHeld
<1>4. AcksAreOld' /\ AcknowledgedOnce'
  BY DEF IInv, AcksAreOld, AcknowledgedOnce
<1> QED
  BY <1>1, <1>2, <1>3, <1>4 DEF Tokens

\* A new row has handed out no token.
LEMMA EnqueueStep ==
    ASSUME IInv, TypeOK', NEW i \in Items, Enqueue(i)
    PROVE  Tokens'
<1> USE DEF Enqueue
<1>1. row[i].state = "absent" /\ row[i].fence = 0 /\ row[i].attempt = 0
  BY DEF IInv, Budgeted
<1>2. /\ row'[i].state = "queued" /\ row'[i].fence = 0 /\ row'[i].attempt = 0
      /\ \A j \in Items \ {i} : row'[j] = row[j]
  BY <1>1 DEF IInv, TypeOK, Row
<1>3. \A j \in Items : Budgeted(j)'
  BY <1>2, QueueAssumption DEF IInv, Budgeted
<1>4. \A j \in Items : SpentTokens(j)'
  BY <1>2 DEF IInv, SpentTokens, Failed
<1>5. \A w \in Workers : HandHeld(w)'
  BY <1>1, <1>2 DEF IInv, HandHeld, TypeOK, Leased
<1>6. AcksAreOld' /\ AcknowledgedOnce'
  BY <1>1, <1>2 DEF IInv, AcksAreOld, AcknowledgedOnce, TypeOK, Ack
<1> QED
  BY <1>3, <1>4, <1>5, <1>6 DEF Tokens

\* Burying exhausted rows, each of which lapsed, spoils no token.
LEMMA BuryStep ==
    ASSUME IInv, TypeOK', NEW w \in Workers, NEW t \in Tenants, AcquireNothing(w, t)
    PROVE  Tokens'
<1>1. PICK dead \in SUBSET Exhausted(t) :
         row' = [j \in Items |-> IF j \in dead THEN Buried(row[j]) ELSE row[j]]
  BY DEF AcquireNothing
<1>2. UNCHANGED <<lapsed, job, acked>>
  BY DEF AcquireNothing
<1>3. \A j \in dead : /\ j \in Items
                      /\ row[j].state = "leased" /\ <<j, row[j].fence>> \in lapsed
                      /\ row[j].attempt = row[j].fence /\ row[j].fence = MaxAttempts[j]
  BY QueueAssumption DEF Exhausted, eligible, IInv, Budgeted, TypeOK, Row
<1>4. \A j \in dead : /\ row'[j].state = "dead_letter"
                      /\ row'[j].attempt = row[j].attempt /\ row'[j].fence = row[j].fence
  BY <1>1, <1>3 DEF Buried
<1>5. \A j \in Items \ dead : row'[j] = row[j]
  BY <1>1
<1>6. \A j \in Items : Budgeted(j)'
  <2> SUFFICES ASSUME NEW j \in Items PROVE Budgeted(j)'
    OBVIOUS
  <2>1. CASE j \in dead
    <3>1. MaxAttempts[j] \in Nat
      BY QueueAssumption
    <3>2. /\ row'[j].state = "dead_letter"
          /\ row'[j].fence = MaxAttempts[j] /\ row'[j].attempt = MaxAttempts[j]
      BY <1>3, <1>4, <2>1
    <3> QED
      BY <3>1, <3>2 DEF Budgeted
  <2>2. CASE j \notin dead
    BY <1>5, <2>2 DEF IInv, Budgeted
  <2> QED
    BY <2>1, <2>2
<1>7. \A j \in Items : SpentTokens(j)'
  BY <1>2, <1>3, <1>4, <1>5 DEF IInv, SpentTokens, Failed
<1>8. \A v \in Workers : HandHeld(v)'
  BY <1>2, <1>3, <1>4, <1>5 DEF IInv, HandHeld, TypeOK, Leased
<1>9. AcksAreOld' /\ AcknowledgedOnce'
  <2>1. \A a \in acked : a.item \in Items
    BY DEF IInv, TypeOK, Ack
  <2>2. AcksAreOld'
    BY <1>2, <1>3, <1>4, <1>5, <2>1 DEF IInv, AcksAreOld
  <2>3. \A a \in acked : a.outcome = "succeeded" => a.item \notin dead
    BY <1>3 DEF IInv, AcknowledgedOnce
  <2>4. AcknowledgedOnce'
    BY <1>2, <1>4, <1>5, <2>1, <2>3 DEF IInv, AcknowledgedOnce
  <2> QED
    BY <2>2, <2>4
<1> QED
  BY <1>6, <1>7, <1>8, <1>9 DEF Tokens

\* Handing out an item spends its last token: it lapsed, or was retried.
LEMMA AcquireStep ==
    ASSUME IInv, TypeOK', NEW w \in Workers, NEW t \in Tenants, Acquire(w, t)
    PROVE  Tokens'
<1>1. PICK i \in Ready(t), dead \in SUBSET Exhausted(t) :
         /\ row' = [j \in Items |-> CASE j = i       -> Taken(row[j], w)
                                      [] j \in dead  -> Buried(row[j])
                                      [] OTHER       -> row[j]]
         /\ job' = [job EXCEPT ![w] = [item |-> i, attempt |-> row[i].attempt + 1,
                                       fence |-> row[i].fence + 1]]
  BY DEF Acquire
<1>2. UNCHANGED <<lapsed, acked>>
  BY DEF Acquire
<1>3. /\ i \in Items /\ i \notin dead
      /\ row[i].fence \in Nat /\ row[i].fence < MaxAttempts[i]
      /\ row[i].attempt = row[i].fence
      /\ \/ row[i].state = "queued"
         \/ row[i].state = "leased" /\ <<i, row[i].fence>> \in lapsed
  BY QueueAssumption DEF Ready, Exhausted, eligible, IInv, Budgeted, TypeOK, Row
<1>4. \A j \in dead : /\ j \in Items
                      /\ row[j].state = "leased" /\ <<j, row[j].fence>> \in lapsed
                      /\ row[j].attempt = row[j].fence /\ row[j].fence = MaxAttempts[j]
  BY QueueAssumption DEF Exhausted, eligible, IInv, Budgeted, TypeOK, Row
<1>5. \A j \in dead : /\ row'[j].state = "dead_letter"
                      /\ row'[j].attempt = row[j].attempt /\ row'[j].fence = row[j].fence
  BY <1>1, <1>3, <1>4 DEF Buried
<1>6. \A j \in Items : j # i /\ j \notin dead => row'[j] = row[j]
  BY <1>1
<1>7. /\ row'[i].state = "leased" /\ row'[i].owner = w
      /\ row'[i].fence = row[i].fence + 1 /\ row'[i].attempt = row[i].fence + 1
  BY <1>1, <1>3 DEF Taken
<1>8. /\ job'[w].item = i /\ job'[w].fence = row[i].fence + 1
      /\ \A v \in Workers \ {w} : job'[v] = job[v]
  BY <1>1 DEF IInv, TypeOK
<1>9. \A j \in Items : Budgeted(j)'
  <2>1. Budgeted(i)'
    BY <1>3, <1>7, QueueAssumption DEF Budgeted
  <2>2. ASSUME NEW j \in Items \ {i} PROVE Budgeted(j)'
    <3>1. CASE j \in dead
      <4>1. MaxAttempts[j] \in Nat
        BY QueueAssumption
      <4>2. /\ row'[j].state = "dead_letter"
            /\ row'[j].fence = MaxAttempts[j] /\ row'[j].attempt = MaxAttempts[j]
        BY <1>4, <1>5, <3>1
      <4> QED
        BY <4>1, <4>2 DEF Budgeted
    <3>2. CASE j \notin dead
      BY <1>6, <3>2 DEF IInv, Budgeted
    <3> QED
      BY <3>1, <3>2
  <2> QED
    BY <2>1, <2>2
<1>10. \A j \in Items : SpentTokens(j)'
  <2>1. SpentTokens(i)'
    <3> SUFFICES ASSUME NEW f \in 1..row[i].fence PROVE Failed(i, f)
      BY <1>2, <1>3, <1>7 DEF SpentTokens, Failed
    <3> QED
      BY <1>3 DEF IInv, SpentTokens, Failed
  <2>2. \A j \in Items \ {i} : SpentTokens(j)'
    BY <1>2, <1>4, <1>5, <1>6 DEF IInv, SpentTokens, Failed
  <2> QED
    BY <2>1, <2>2
<1>11. \A v \in Workers : HandHeld(v)'
  <2>1. HandHeld(w)'
    BY <1>2, <1>3, <1>7, <1>8 DEF IInv, HandHeld, AcksAreOld, TypeOK, Ack
  <2>2. ASSUME NEW v \in Workers \ {w} PROVE HandHeld(v)'
    BY <1>2, <1>3, <1>4, <1>5, <1>6, <1>7, <1>8 DEF IInv, HandHeld, TypeOK, Leased
  <2> QED
    BY <2>1, <2>2
<1>12. AcksAreOld' /\ AcknowledgedOnce'
  <2>1. \A a \in acked : a.item \in Items /\ a.fence \in Nat
    BY DEF IInv, TypeOK, Ack
  <2>2. ASSUME NEW a \in acked
        PROVE  /\ a.fence <= row'[a.item].fence
               /\ a.fence = row'[a.item].fence => row'[a.item].state # "leased"
    <3>1. CASE a.item = i
      BY <1>3, <1>7, <2>1, <3>1 DEF IInv, AcksAreOld
    <3>2. CASE a.item # i
      BY <1>4, <1>5, <1>6, <2>1, <3>2 DEF IInv, AcksAreOld
    <3> QED
      BY <3>1, <3>2
  <2>3. \A a \in acked : a.outcome = "succeeded" => a.item \notin dead \cup {i}
    BY <1>3, <1>4 DEF IInv, AcknowledgedOnce
  <2>4. AcknowledgedOnce'
    BY <1>2, <1>5, <1>6, <1>7, <2>1, <2>3 DEF IInv, AcknowledgedOnce
  <2> QED
    BY <1>2, <2>2, <2>4 DEF AcksAreOld
<1> QED
  BY <1>9, <1>10, <1>11, <1>12 DEF Tokens

\* The acknowledged token was the row's last and had not been acknowledged.
LEMMA SettleStep ==
    ASSUME IInv, TypeOK', NEW w \in Workers, Complete(w) \/ Retry(w)
    PROVE  Tokens'
<1>0. PICK i \in Items, f \in Nat, o \in {"succeeded", "retried"} :
         /\ i = job[w].item /\ f = job[w].fence /\ job[w] # None
         /\ o = IF Complete(w) THEN "succeeded" ELSE "retried"
  BY DEF IInv, TypeOK, Complete, Retry, Leased
<1> DEFINE new == [item |-> i, fence |-> f, outcome |-> o]
<1>2. row[i].state = "leased" /\ row[i].fence = f /\ row[i].owner = w
  BY <1>0 DEF Complete, Retry, current
<1>3. /\ row[i].fence \in Nat /\ row[i].fence > 0
      /\ row[i].attempt = row[i].fence /\ row[i].fence <= MaxAttempts[i]
      /\ MaxAttempts[i] \in Nat
  BY <1>0, <1>2, QueueAssumption DEF IInv, Budgeted, TypeOK, Row
<1>4. acked' = acked \cup {new} /\ lapsed' = lapsed
  BY <1>0 DEF Complete, Retry, Acknowledge
<1>5. job'[w] = None /\ \A v \in Workers \ {w} : job'[v] = job[v]
  BY DEF Complete, Retry, Idle, IInv, TypeOK
<1>6. /\ row'[i].attempt = row[i].fence /\ row'[i].fence = row[i].fence
      /\ \A j \in Items \ {i} : row'[j] = row[j]
  <2>1. CASE Complete(w)
    BY <1>0, <1>3, <2>1 DEF Complete, IInv, TypeOK, Row
  <2>2. CASE Retry(w)
    BY <1>0, <1>3, <2>2 DEF Retry, Buried, IInv, TypeOK, Row
  <2> QED
    BY <2>1, <2>2
<1>7. \/ /\ o = "succeeded" /\ row'[i].state = "succeeded"
      \/ /\ o = "retried" /\ row[i].fence = MaxAttempts[i] /\ row'[i].state = "dead_letter"
      \/ /\ o = "retried" /\ row[i].fence < MaxAttempts[i] /\ row'[i].state = "queued"
  <2>1. CASE Complete(w)
    BY <1>0, <2>1 DEF Complete, IInv, TypeOK, Row
  <2>2. CASE ~ Complete(w)
    <3>1. Retry(w) /\ o = "retried"
      BY <1>0, <2>2
    <3>2. row[i].attempt >= MaxAttempts[i] => row'[i].state = "dead_letter"
      BY <1>0, <3>1 DEF Retry, Buried, IInv, TypeOK, Row
    <3>3. ~(row[i].attempt >= MaxAttempts[i]) => row'[i].state = "queued"
      BY <1>0, <3>1 DEF Retry, IInv, TypeOK, Row
    <3> QED
      BY <1>3, <3>1, <3>2, <3>3
  <2> QED
    BY <2>1, <2>2
<1>8. \A j \in Items : Budgeted(j)'
  BY <1>0, <1>3, <1>6, <1>7 DEF IInv, Budgeted
<1>9. \A j \in Items : SpentTokens(j)'
  <2>1. SpentTokens(i)'
    <3> SUFFICES ASSUME NEW g \in 1..f, g = f => o = "retried"
                 PROVE  Failed(i, g)'
      BY <1>2, <1>6, <1>7 DEF SpentTokens
    <3>1. CASE g = f
      BY <1>4, <3>1 DEF Failed
    <3>2. CASE g # f
      BY <1>2, <1>4, <3>2 DEF IInv, SpentTokens, Failed
    <3> QED
      BY <3>1, <3>2
  <2>2. \A j \in Items \ {i} : SpentTokens(j)'
    BY <1>4, <1>6 DEF IInv, SpentTokens, Failed
  <2> QED
    BY <2>1, <2>2
<1>10. \A v \in Workers : HandHeld(v)'
  <2> SUFFICES ASSUME NEW v \in Workers, v # w, job[v] # None
               PROVE  HandHeld(v)'
    BY <1>5 DEF HandHeld
  <2>1. job'[v] = job[v] /\ job[v] \in Leased /\ HandHeld(v)
    BY <1>5 DEF IInv, TypeOK
  <2>2. ~(job[v].item = i /\ job[v].fence = row[i].fence)
    BY <1>2, <2>1 DEF HandHeld
  <2> QED
    BY <1>2, <1>4, <1>6, <2>1, <2>2 DEF HandHeld, Leased
<1>11. \A a \in acked : a.item \in Items /\ a.fence \in Nat
  BY DEF IInv, TypeOK, Ack
<1>12. \A a \in acked : ~(a.item = i /\ a.fence = row[i].fence)
  BY <1>2 DEF IInv, AcksAreOld
<1>13. AcksAreOld'
  BY <1>0, <1>2, <1>3, <1>4, <1>6, <1>7, <1>11 DEF IInv, AcksAreOld
<1>14. AcknowledgedOnce'
  <2>1. ASSUME NEW a \in acked', NEW b \in acked', a.item = b.item, a.fence = b.fence
        PROVE  a = b
    <3>1. ASSUME NEW c \in acked PROVE ~(c.item = new.item /\ c.fence = new.fence)
      BY <1>2, <1>12
    <3> HIDE DEF new
    <3>2. CASE a \in acked /\ b \in acked
      BY <2>1, <3>2 DEF IInv, AcknowledgedOnce
    <3> QED
      BY <1>4, <2>1, <3>1, <3>2
  <2>2. ASSUME NEW a \in acked', a.outcome = "succeeded"
        PROVE  row'[a.item].state = "succeeded" /\ row'[a.item].fence = a.fence
    <3>1. CASE a = new
      BY <1>2, <1>6, <1>7, <2>2, <3>1
    <3>2. CASE a \in acked
      BY <1>2, <1>6, <1>11, <2>2, <3>2 DEF IInv, AcknowledgedOnce
    <3> QED
      BY <1>4, <3>1, <3>2
  <2>3. ASSUME NEW j \in Items, row'[j].state = "succeeded"
        PROVE  \E a \in acked' : a.item = j /\ a.outcome = "succeeded"
    <3>1. CASE j = i
      <4>1. new \in acked' /\ new.item = j /\ new.outcome = "succeeded"
        BY <1>4, <1>7, <2>3, <3>1
      <4> QED
        BY <4>1
    <3>2. CASE j # i
      BY <1>4, <1>6, <2>3, <3>2 DEF IInv, AcknowledgedOnce
    <3> QED
      BY <3>1, <3>2
  <2> QED
    BY <2>1, <2>2, <2>3 DEF AcknowledgedOnce
<1> QED
  BY <1>8, <1>9, <1>10, <1>13, <1>14 DEF Tokens

\* The inductive invariant: tokens count attempts, all but the current one have
\* failed, and the current one is in one worker's hands.
THEOREM Invariance == Spec => []IInv
<1> DEFINE Busy == \A w \in Workers : wpc[w] # "idle" => job[w] # None
<1>1. Init => IInv
  <2> SUFFICES ASSUME Init PROVE IInv
    OBVIOUS
  <2>1. TypeOK /\ Busy
    BY DEF Init, TypeOK, Row, WorkState
  <2>2. \A i \in Items : Budgeted(i) /\ SpentTokens(i)
    BY QueueAssumption DEF Init, Budgeted, SpentTokens
  <2>3. (\A w \in Workers : HandHeld(w)) /\ AcksAreOld /\ AcknowledgedOnce
    BY DEF Init, HandHeld, AcksAreOld, AcknowledgedOnce
  <2> QED
    BY <2>1, <2>2, <2>3 DEF IInv
<1>2. IInv /\ (TypeOK /\ Busy)' /\ [Next]_vars => IInv'
  <2> SUFFICES ASSUME IInv, TypeOK', Busy', [Next]_vars PROVE Tokens'
    BY DEF IInv, Tokens
  <2>1. ASSUME NEW i \in Items, Ripens(i) \/ LeaseLapses(i) PROVE Tokens'
    BY <2>1, QuietSteps DEF Ripens, LeaseLapses
  <2>2. ASSUME NEW w \in Workers,
               HandlerReturns(w) \/ HandlerRaises(w) \/ LeaseLost(w) \/ Crash(w)
        PROVE  Tokens'
    <3>1. \A v \in Workers : job'[v] \in {job[v], None}
      BY <2>2 DEF HandlerReturns, HandlerRaises, HandlerEnds, LeaseLost, Crash, Idle, IInv, TypeOK
    <3>2. row' = row /\ acked' = acked /\ lapsed' = lapsed
      BY <2>2 DEF HandlerReturns, HandlerRaises, HandlerEnds, LeaseLost, Crash
    <3> QED
      BY <3>1, <3>2, QuietSteps
  <2>3. CASE UNCHANGED vars
    BY <2>3, QuietSteps DEF vars
  <2>4. ASSUME NEW i \in Items, Enqueue(i) PROVE Tokens'
    BY <2>4, EnqueueStep
  <2>5. ASSUME NEW w \in Workers, NEW t \in Tenants, Poll(w, t) PROVE Tokens'
    BY <2>5, AcquireStep, BuryStep DEF Poll
  <2>6. ASSUME NEW w \in Workers, Complete(w) \/ Retry(w) PROVE Tokens'
    BY <2>6, SettleStep
  <2> QED
    BY <2>1, <2>2, <2>3, <2>4, <2>5, <2>6 DEF Next, Settle
<1> QED
  BY <1>1, <1>2, Typing, PTL DEF Spec

-----------------------------------------------------------------------------
(* What follows from the invariant *)

\* Two workers never work on one item under unlapsed leases: an older token has
\* lapsed or was acknowledged, and the newest is its owner's alone.
THEOREM OneLiveWorker == Spec => []AtMostOneLiveWorker
<1>1. IInv => AtMostOneLiveWorker
  <2> SUFFICES ASSUME IInv, NEW v \in Workers, NEW w \in Workers, NEW i \in Items,
                      holds(v, i), holds(w, i)
               PROVE  v = w
    BY DEF AtMostOneLiveWorker
  <2>1. ASSUME NEW u \in Workers, holds(u, i) PROVE row[i].owner = u
    <3>1. /\ job[u] \in Leased /\ job[u].item = i /\ <<i, job[u].fence>> \notin lapsed
          /\ job[u].fence \in Nat /\ row[i].fence \in Nat
      BY <2>1 DEF holds, IInv, TypeOK, Leased, Row
    <3>2. HandHeld(u) /\ SpentTokens(i) /\ job[u] # None
      BY <2>1 DEF IInv, holds
    <3>3. CASE job[u].fence = row[i].fence
      BY <3>1, <3>2, <3>3 DEF HandHeld
    <3>4. CASE job[u].fence # row[i].fence
      <4>1. job[u].fence \in 1..row[i].fence
        BY <3>1, <3>2 DEF HandHeld
      <4>2. Failed(i, job[u].fence)
        BY <3>2, <3>4, <4>1 DEF SpentTokens
      <4>3. [item |-> i, fence |-> job[u].fence, outcome |-> "retried"] \notin acked
        BY <3>1, <3>2 DEF HandHeld
      <4> QED
        BY <3>1, <4>2, <4>3 DEF Failed
    <3> QED
      BY <3>3, <3>4
  <2> QED
    BY <2>1
<1> QED
  BY <1>1, Invariance, PTL

\* Acknowledged transitions stand (ha.py 383-415).
THEOREM SettlementIsFinal == Spec => []AcknowledgedOnce
<1>1. IInv => AcknowledgedOnce
  BY DEF IInv
<1> QED
  BY <1>1, Invariance, PTL

\* Work is given up only when all of its attempts failed (ha.py 348-380).
THEOREM BurialIsEarned == Spec => []DeadLetterIsEarned
<1>1. IInv => DeadLetterIsEarned
  <2> SUFFICES ASSUME IInv, NEW i \in Items, row[i].state = "dead_letter",
                      NEW f \in 1..MaxAttempts[i]
               PROVE  Failed(i, f)
    BY DEF DeadLetterIsEarned, Failed
  <2>1. SpentTokens(i) /\ row[i].fence = MaxAttempts[i]
    BY DEF IInv, Budgeted
  <2> QED
    BY <2>1 DEF SpentTokens
<1> QED
  BY <1>1, Invariance, PTL

\* Only enqueue makes a row active, and only below the depth.
THEOREM DepthHolds == Spec => []DepthIsBounded
<1>1. Init => DepthIsBounded
  <2> SUFFICES ASSUME Init PROVE DepthIsBounded
    OBVIOUS
  <2>1. Active = {}
    BY DEF Init, Active
  <2> QED
    BY <2>1, FS_EmptySet, QueueAssumption DEF DepthIsBounded
<1>2. IInv /\ TypeOK' /\ DepthIsBounded /\ [Next]_vars => DepthIsBounded'
  <2> SUFFICES ASSUME IInv, DepthIsBounded, [Next]_vars PROVE DepthIsBounded'
    OBVIOUS
  <2>1. IsFiniteSet(Active) /\ Cardinality(Active) \in Nat
    BY FS_Subset, FS_CardinalityType, QueueAssumption DEF Active
  <2>2. ASSUME Active' \subseteq Active PROVE DepthIsBounded'
    <3>1. Cardinality(Active') \in Nat /\ Cardinality(Active') <= Cardinality(Active)
      BY <2>1, <2>2, FS_Subset, FS_CardinalityType
    <3> QED
      BY <2>1, <3>1, QueueAssumption DEF DepthIsBounded
  <2>3. ASSUME NEW i \in Items, Enqueue(i) PROVE DepthIsBounded'
    <3>1. Active' = Active \cup {i}
      BY <2>3 DEF Enqueue, Active, IInv, TypeOK, Row
    <3>2. i \notin Active
      BY <2>3 DEF Enqueue, Active
    <3>3. Cardinality(Active') = Cardinality(Active) + 1
      BY <2>1, <3>1, <3>2, FS_AddElement
    <3> QED
      BY <2>1, <2>3, <3>3, QueueAssumption DEF Enqueue, DepthIsBounded
  <2>4. ASSUME NEW i \in Items, Ripens(i) \/ LeaseLapses(i) PROVE DepthIsBounded'
    BY <2>2, <2>4 DEF Ripens, LeaseLapses, Active
  <2>5. ASSUME NEW w \in Workers, NEW t \in Tenants, Acquire(w, t) PROVE DepthIsBounded'
    <3>1. PICK i \in Ready(t), dead \in SUBSET Exhausted(t) :
             row' = [j \in Items |-> CASE j = i       -> Taken(row[j], w)
                                       [] j \in dead  -> Buried(row[j])
                                       [] OTHER       -> row[j]]
      BY <2>5 DEF Acquire
    <3>2. i \in Active
      BY DEF Ready, eligible, Active
    <3>3. \A j \in Items : j # i /\ row'[j].state \in {"queued", "leased"} => row'[j] = row[j]
      BY <3>1 DEF Buried
    <3> QED
      BY <2>2, <3>2, <3>3 DEF Active
  <2>6. ASSUME NEW w \in Workers, NEW t \in Tenants, AcquireNothing(w, t) PROVE DepthIsBounded'
    <3>1. \A j \in Items : row'[j].state \in {"queued", "leased"} => row'[j] = row[j]
      BY <2>6 DEF AcquireNothing, Buried
    <3> QED
      BY <2>2, <3>1 DEF Active
  <2>7. ASSUME NEW w \in Workers, Complete(w) \/ Retry(w) PROVE DepthIsBounded'
    <3>1. row[job[w].item].state = "leased"
      BY <2>7 DEF Complete, Retry, current
    <3>2. \A j \in Items : j # job[w].item => row'[j] = row[j]
      BY <2>7 DEF Complete, Retry, IInv, TypeOK
    <3> QED
      BY <2>2, <3>1, <3>2 DEF Active
  <2>8. ASSUME NEW w \in Workers,
               HandlerReturns(w) \/ HandlerRaises(w) \/ LeaseLost(w) \/ Crash(w)
        PROVE  DepthIsBounded'
    BY <2>2, <2>8 DEF HandlerReturns, HandlerRaises, HandlerEnds, LeaseLost, Crash, Active
  <2>9. CASE UNCHANGED vars
    BY <2>2, <2>9 DEF vars, Active
  <2> QED
    BY <2>3, <2>4, <2>5, <2>6, <2>7, <2>8, <2>9 DEF Next, Poll, Settle
<1> QED
  BY <1>1, <1>2, Invariance, Typing, PTL DEF Spec

\* Only enqueue stores a row, and only under an identity no row has.
THEOREM IdentityIsUnique == Spec => []OneRowPerIdentity
<1>1. Init => OneRowPerIdentity
  BY DEF Init, OneRowPerIdentity
<1>2. IInv /\ OneRowPerIdentity /\ [Next]_vars => OneRowPerIdentity'
  <2> SUFFICES ASSUME IInv, OneRowPerIdentity, [Next]_vars PROVE OneRowPerIdentity'
    OBVIOUS
  <2>1. ASSUME NEW i \in Items, Enqueue(i) PROVE OneRowPerIdentity'
    <3>1. \A j \in Items : j # i => row'[j] = row[j]
      BY <2>1 DEF Enqueue, IInv, TypeOK
    <3> QED
      BY <2>1, <3>1 DEF Enqueue, OneRowPerIdentity
  <2>2. ASSUME \A j \in Items : row[j].state = "absent" => row'[j].state = "absent"
        PROVE  OneRowPerIdentity'
    BY <2>2 DEF OneRowPerIdentity
  <2>3. ASSUME NEW i \in Items, Ripens(i) \/ LeaseLapses(i) PROVE OneRowPerIdentity'
    BY <2>2, <2>3 DEF Ripens, LeaseLapses
  <2>4. ASSUME NEW w \in Workers, NEW t \in Tenants, Poll(w, t) PROVE OneRowPerIdentity'
    <3>1. \A j \in Items : row[j].state = "absent" => j \notin Ready(t) \cup Exhausted(t)
      BY DEF Ready, Exhausted, eligible
    <3> QED
      BY <2>2, <2>4, <3>1 DEF Poll, Acquire, AcquireNothing
  <2>5. ASSUME NEW w \in Workers, Complete(w) \/ Retry(w) PROVE OneRowPerIdentity'
    <3>1. row[job[w].item].state = "leased"
      BY <2>5 DEF Complete, Retry, current
    <3>2. \A j \in Items : j # job[w].item => row'[j] = row[j]
      BY <2>5 DEF Complete, Retry, IInv, TypeOK
    <3> QED
      BY <2>2, <3>1, <3>2
  <2>6. ASSUME NEW w \in Workers,
               HandlerReturns(w) \/ HandlerRaises(w) \/ LeaseLost(w) \/ Crash(w)
        PROVE  OneRowPerIdentity'
    BY <2>2, <2>6 DEF HandlerReturns, HandlerRaises, HandlerEnds, LeaseLost, Crash
  <2>7. CASE UNCHANGED vars
    BY <2>2, <2>7 DEF vars
  <2> QED
    BY <2>1, <2>3, <2>4, <2>5, <2>6, <2>7 DEF Next, Settle
<1> QED
  BY <1>1, <1>2, Invariance, PTL DEF Spec

-----------------------------------------------------------------------------
(* The queue implements BoundedWork *)

\* how one step may change one row
Open(s) == s \in {"queued", "leased"}
Move(j) ==
    \/ row'[j].state = row[j].state /\ row'[j].attempt = row[j].attempt
    \/ /\ Open(row[j].state) /\ Open(row'[j].state) /\ row'[j].attempt = row[j].attempt
    \/ /\ row[j].state = "absent" /\ row'[j].state = "queued"
       /\ row'[j].attempt = row[j].attempt
    \/ /\ Open(row[j].state) /\ row[j].attempt < MaxAttempts[j]
       /\ row'[j].state = "leased" /\ row'[j].attempt = row[j].attempt + 1
    \/ /\ Open(row[j].state) /\ row[j].attempt > 0
       /\ row'[j].state = "succeeded" /\ row'[j].attempt = row[j].attempt
    \/ /\ Open(row[j].state) /\ row[j].attempt = MaxAttempts[j]
       /\ row'[j].state = "dead_letter" /\ row'[j].attempt = row[j].attempt

LEMMA EveryRowMoves ==
    ASSUME IInv, [Next]_vars, NEW j \in Items
    PROVE  Move(j)
<1>1. /\ row[j] \in Row /\ row[j].attempt \in Nat /\ MaxAttempts[j] \in Nat
      /\ row[j].attempt <= MaxAttempts[j]
      /\ row[j].state = "leased" => row[j].attempt > 0
  BY QueueAssumption DEF IInv, TypeOK, Row, Budgeted
<1>2. ASSUME NEW i \in Items, Enqueue(i) PROVE Move(j)
  <2>1. row[i].state = "absent"
    BY <1>2 DEF Enqueue
  <2>2. CASE j = i
    BY <1>1, <1>2, <2>1, <2>2 DEF Enqueue, Move, IInv, TypeOK, Row
  <2>3. CASE j # i
    BY <1>2, <2>3 DEF Enqueue, Move, IInv, TypeOK
  <2> QED
    BY <2>2, <2>3
<1>3. ASSUME NEW w \in Workers, NEW t \in Tenants, Acquire(w, t) PROVE Move(j)
  <2>1. PICK i \in Ready(t), dead \in SUBSET Exhausted(t) :
           row' = [k \in Items |-> CASE k = i       -> Taken(row[k], w)
                                     [] k \in dead  -> Buried(row[k])
                                     [] OTHER       -> row[k]]
    BY <1>3 DEF Acquire
  <2>2. CASE j = i
    <3>0. i \notin dead
      BY QueueAssumption, <1>1, <2>2 DEF Ready, Exhausted
    <3>1. row'[j].state = "leased" /\ row'[j].attempt = row[j].attempt + 1
      BY <2>1, <2>2, <3>0 DEF Taken
    <3>2. Open(row[j].state) /\ row[j].attempt < MaxAttempts[j]
      BY <2>2 DEF Ready, eligible, Open
    <3> QED
      BY <3>1, <3>2 DEF Move
  <2>3. CASE j # i /\ j \in dead
    <3>1. row'[j].state = "dead_letter" /\ row'[j].attempt = row[j].attempt
      BY <2>1, <2>3 DEF Buried
    <3>2. Open(row[j].state) /\ row[j].attempt >= MaxAttempts[j]
      BY <2>3 DEF Exhausted, eligible, Open
    <3> QED
      BY <1>1, <3>1, <3>2 DEF Move
  <2>4. CASE j # i /\ j \notin dead
    BY <2>1, <2>4 DEF Move
  <2> QED
    BY <2>2, <2>3, <2>4
<1>4. ASSUME NEW w \in Workers, NEW t \in Tenants, AcquireNothing(w, t) PROVE Move(j)
  <2>1. PICK dead \in SUBSET Exhausted(t) :
           row' = [k \in Items |-> IF k \in dead THEN Buried(row[k]) ELSE row[k]]
    BY <1>4 DEF AcquireNothing
  <2>2. CASE j \in dead
    <3>1. row'[j].state = "dead_letter" /\ row'[j].attempt = row[j].attempt
      BY <2>1, <2>2 DEF Buried
    <3>2. Open(row[j].state) /\ row[j].attempt >= MaxAttempts[j]
      BY <2>2 DEF Exhausted, eligible, Open
    <3> QED
      BY <1>1, <3>1, <3>2 DEF Move
  <2>3. CASE j \notin dead
    BY <2>1, <2>3 DEF Move
  <2> QED
    BY <2>2, <2>3
<1>5. ASSUME NEW w \in Workers, Complete(w) PROVE Move(j)
  <2>1. CASE j = job[w].item
    <3>1. row[j].state = "leased"
      BY <1>5, <2>1 DEF Complete, current
    <3>2. row'[j].state = "succeeded" /\ row'[j].attempt = row[j].attempt
      BY <1>1, <1>5, <2>1 DEF Complete, IInv, TypeOK, Row
    <3> QED
      BY <1>1, <3>1, <3>2 DEF Move, Open
  <2>2. CASE j # job[w].item
    BY <1>5, <2>2 DEF Complete, Move, IInv, TypeOK
  <2> QED
    BY <2>1, <2>2
<1>6. ASSUME NEW w \in Workers, Retry(w) PROVE Move(j)
  <2>1. CASE j = job[w].item
    <3>1. row[j].state = "leased"
      BY <1>6, <2>1 DEF Retry, current
    <3>2. CASE row[j].attempt >= MaxAttempts[j]
      <4>1. row'[j].state = "dead_letter" /\ row'[j].attempt = row[j].attempt
        BY <1>1, <1>6, <2>1, <3>2 DEF Retry, Buried, IInv, TypeOK
      <4> QED
        BY <1>1, <3>1, <3>2, <4>1 DEF Move, Open
    <3>3. CASE ~(row[j].attempt >= MaxAttempts[j])
      <4>1. row'[j].state = "queued" /\ row'[j].attempt = row[j].attempt
        BY <1>1, <1>6, <2>1, <3>3 DEF Retry, IInv, TypeOK, Row
      <4> QED
        BY <3>1, <4>1 DEF Move, Open
    <3> QED
      BY <3>2, <3>3
  <2>2. CASE j # job[w].item
    BY <1>6, <2>2 DEF Retry, Move, IInv, TypeOK
  <2> QED
    BY <2>1, <2>2
<1>7. CASE row' = row
  BY <1>7 DEF Move
<1> QED
  BY <1>2, <1>3, <1>4, <1>5, <1>6, <1>7
  DEF Next, Poll, Settle, Ripens, LeaseLapses, HandlerReturns, HandlerRaises, HandlerEnds,
      LeaseLost, Crash, vars

\* Each item is run at most max_attempts times and settled once, whatever the
\* workers do.
THEOREM RefinesBoundedWork == Spec => KeepsPromise
<1>1. Init => Promise!Init
  BY DEF Init, Promise!Init
<1>2. IInv /\ [Next]_vars => [Promise!Next]_(Promise!vars)
  <2> SUFFICES ASSUME IInv, [Next]_vars PROVE Promise!Next
    OBVIOUS
  <2> SUFFICES ASSUME NEW j \in Items
               PROVE  \/ Promise!Admit(j) \/ Promise!Run(j) \/ Promise!Finish(j)
                      \/ Promise!GiveUp(j) \/ Promise!Rest(j)
    BY DEF Promise!Next
  <2>1. Move(j)
    BY EveryRowMoves
  <2> QED
    BY <2>1 DEF Move, Open, Promise!Admit, Promise!Run, Promise!Finish, Promise!GiveUp,
                Promise!Rest
<1> QED
  BY <1>1, <1>2, Invariance, PTL DEF Spec, KeepsPromise, Promise!Spec
=============================================================================
