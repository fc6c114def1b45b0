------------------------ MODULE TenantControlProofs ------------------------
(***************************************************************************)
(* Proofs about TenantControl, for every set of processes, actors and      *)
(* grants and every bound on the clock.                                    *)
(***************************************************************************)
EXTENDS TenantControl, TLAPS

\* A transaction under way was authorized by a grant that was live then.
TxIsLive ==
    \A p \in Procs : tx[p].pc # "idle" =>
        /\ tx[p].at <= now
        /\ tx[p].ctx \in Grants =>
              LET g == grants[tx[p].ctx] IN
              /\ g # NoGrant
              /\ CapabilityOf(tx[p].kind) \in g.caps
              /\ g.issued <= tx[p].at /\ tx[p].at < g.expires
              /\ g.revoked # 0 => tx[p].at <= g.revoked
              /\ tx[p].at \in consented

\* An opt-in in force is in force now.
ConsentIsNow == optIn = "on" => now \in consented

\* The audit trail never runs ahead of the clock.
AuditIsPast == \A e \in audit : e.at <= now

\* The lifecycle row satisfies the contract's validator.
RowIsValid == row # NoRow => ValidLifecycle(row)

\* A transaction that locked the row it read still sees the current row.
TxSeesRow ==
    \A p \in Procs :
        /\ tx[p].pc \in {"read", "written"} /\ tx[p].seen # NoRow => tx[p].seen = row
        /\ tx[p].pc = "written" =>
              /\ tx[p].write = NewRow(tx[p].kind, tx[p].seen, tx[p].notBefore)
              /\ Permitted(tx[p].kind, tx[p].seen, tx[p].notBefore, tx[p].at)

\* At most one transaction holds the lifecycle row's lock.
OneLocker == \A p, q \in Procs : RowLocked(p) /\ RowLocked(q) => p = q

\* A deletion written before the governance hold is older than the hold.
WrittenBeforeHold ==
    \A p \in Procs : /\ tx[p].pc = "written"
                     /\ tx[p].kind \in {"schedule", "complete"}
                     /\ govHold.state = "active"
                     => tx[p].at <= govHold.at

\* The standalone store runs no database transaction.
StandaloneHasNoTx == store = "standalone" => \A p \in Procs : tx[p].pc = "idle"

IInv ==
    /\ TypeOK /\ SupportUseIsLive /\ TxIsLive /\ AuditIsPast /\ RowIsValid
    /\ TxSeesRow /\ OneLocker /\ WrittenBeforeHold /\ StandaloneHasNoTx /\ ConsentIsNow

----------------------------------------------------------------------------
\* A record the lifecycle operations build from a typed row is typed.
LEMMA NewRowTyped ==
    ASSUME NEW kind \in {"hold", "release", "schedule", "complete"},
           NEW seen \in MaybeRow, NEW nb \in MaybeTime
    PROVE  /\ NewRow(kind, seen, nb) \in TenantLifecycleRecord
           /\ kind = "hold" => NewRow(kind, seen, nb) = HeldRow(seen, TRUE)
           /\ kind = "release" => NewRow(kind, seen, nb) = HeldRow(seen, FALSE)
           /\ kind = "schedule" => NewRow(kind, seen, nb) = ScheduledRow(nb)
           /\ kind = "complete" => NewRow(kind, seen, nb) = DeletedRow
<1>1. MaybeTime = 0..MaxTime /\ 0 \in MaybeTime
  BY TenancyAssumption DEF MaybeTime
<1>2. ASSUME NEW e \in BOOLEAN PROVE HeldRow(seen, e) \in TenantLifecycleRecord
  BY <1>1 DEF HeldRow, TenantLifecycleRecord, TenantLifecycleStatus, MaybeRow
<1>3. ScheduledRow(nb) \in TenantLifecycleRecord /\ DeletedRow \in TenantLifecycleRecord
  BY <1>1 DEF ScheduledRow, DeletedRow, TenantLifecycleRecord, TenantLifecycleStatus
<1>4. CASE kind = "hold"
  BY <1>2, <1>4 DEF NewRow
<1>5. CASE kind = "release"
  BY <1>2, <1>5 DEF NewRow
<1>6. CASE kind = "schedule"
  BY <1>3, <1>6 DEF NewRow
<1>7. CASE kind = "complete"
  BY <1>3, <1>7 DEF NewRow
<1> QED BY <1>4, <1>5, <1>6, <1>7

\* The audit event of a lifecycle operation is known and needs its capability.
LEMMA EventTyped ==
    ASSUME NEW kind \in {"hold", "release", "schedule", "complete"}
    PROVE  /\ EventOf(kind) \in TenantAuditEventType
           /\ EventOf(kind) \in DOMAIN UseCapability
           /\ UseCapability[EventOf(kind)] = CapabilityOf(kind)
<1>1. CASE kind = "hold"
  BY <1>1 DEF EventOf, TenantAuditEventType, UseCapability, CapabilityOf
<1>2. CASE kind = "release"
  BY <1>2 DEF EventOf, TenantAuditEventType, UseCapability, CapabilityOf
<1>3. CASE kind = "schedule"
  BY <1>3 DEF EventOf, TenantAuditEventType, UseCapability, CapabilityOf
<1>4. CASE kind = "complete"
  BY <1>4 DEF EventOf, TenantAuditEventType, UseCapability, CapabilityOf
<1> QED BY <1>1, <1>2, <1>3, <1>4

\* The initial states satisfy the inductive invariant.
LEMMA InitInv == Init => IInv
<1> SUFFICES ASSUME Init PROVE IInv
  OBVIOUS
<1> USE TenancyAssumption
<1>1. Idle \in Transaction
  BY DEF Idle, Transaction, Context, Time, MaybeTime, MaybeRow
<1>2. TypeOK
  BY <1>1 DEF Init, TypeOK, Time, MaybeRow
<1>3. \A p \in Procs : tx[p].pc = "idle"
  BY DEF Init, Idle
<1> QED BY <1>2, <1>3 DEF Init, IInv, SupportUseIsLive, TxIsLive, AuditIsPast, RowIsValid,
            TxSeesRow, OneLocker, RowLocked, WrittenBeforeHold, StandaloneHasNoTx, ConsentIsNow

\* what an audited use of elevation g needs of the grant
LiveUse(type, g, at) ==
    type \in DOMAIN UseCapability =>
        /\ grants[g] # NoGrant
        /\ UseCapability[type] \in grants[g].caps
        /\ grants[g].issued <= at /\ at < grants[g].expires
        /\ grants[g].revoked # 0 => at <= grants[g].revoked
        /\ at \in consented

\* Appending an event that was live when it was authorized keeps the trail sound.
LEMMA AppendKeeps ==
    ASSUME IInv, NEW type \in TenantAuditEventType, NEW ctx \in Context, NEW at \in Time,
           at <= now, AppendAudit(type, ctx, at),
           ctx \in Grants => LiveUse(type, ctx, at)
    PROVE  /\ audit' \subseteq TenantAuditEvent
           /\ \A e \in audit' : e.at <= now
           /\ \A e \in audit' : LiveUse(e.type, e.elevation, e.at)
           /\ \A e \in audit' : e.elevation \in Grants /\ e.at \in Time
<1>1. ASSUME NEW e \in audit'
      PROVE  e \in audit \/ (ctx \in Grants /\ e = [type |-> type, elevation |-> ctx, at |-> at])
  BY TenancyAssumption DEF AppendAudit, Context
<1>2. ASSUME NEW e \in audit PROVE e \in TenantAuditEvent /\ e.at <= now
  BY DEF IInv, TypeOK, AuditIsPast
<1>3. ASSUME NEW e \in audit PROVE LiveUse(e.type, e.elevation, e.at)
  BY DEF IInv, SupportUseIsLive, LiveUse
<1>4. ASSUME NEW e \in audit' PROVE e \in TenantAuditEvent /\ e.at <= now
  BY <1>1, <1>2, <1>4 DEF TenantAuditEvent
<1>5. ASSUME NEW e \in audit' PROVE LiveUse(e.type, e.elevation, e.at)
  <2>1. CASE e \in audit
    BY <1>3, <2>1
  <2>2. CASE ctx \in Grants /\ e = [type |-> type, elevation |-> ctx, at |-> at]
    <3>1. e.type = type /\ e.elevation = ctx /\ e.at = at
      BY <2>2
    <3> QED BY <2>2, <3>1
  <2> QED BY <1>1, <2>1, <2>2
<1> QED BY <1>4, <1>5 DEF TenantAuditEvent

\* An elevation Authorize accepts is live for the capability.
LEMMA AuthorizedIsLive ==
    ASSUME IInv, NEW ctx \in Context, NEW cap, Authorize(ctx, cap, now), ctx \in Grants
    PROVE  /\ grants[ctx] # NoGrant /\ cap \in grants[ctx].caps
           /\ grants[ctx].issued <= now /\ now < grants[ctx].expires
           /\ grants[ctx].revoked = 0 /\ now \in consented
BY TenancyAssumption DEF Authorize, Active, Context, IInv, ConsentIsNow

\* Any step that changes only the audit trail, soundly, keeps the invariant;
\* so do opt-in and redemption.
LEMMA AuditOnly ==
    ASSUME IInv, NEW type \in TenantAuditEventType, NEW ctx \in Context,
           AppendAudit(type, ctx, now), ctx \in Grants => LiveUse(type, ctx, now),
           optIn' \in {"unset", "off", "on"}, held' \in [Actors -> SUBSET Grants],
           consented \subseteq consented', consented' \subseteq Time,
           optIn' = "on" => now \in consented',
           UNCHANGED <<store, now, grants, row, govHold, tx>>
    PROVE  IInv'
<1>1. now \in Time /\ now <= now
  BY DEF IInv, TypeOK, Time
<1>2. /\ audit' \subseteq TenantAuditEvent
      /\ \A e \in audit' : e.at <= now
      /\ \A e \in audit' : LiveUse(e.type, e.elevation, e.at)
  BY <1>1, AppendKeeps
<1>3. TypeOK'
  BY <1>2 DEF IInv, TypeOK
<1>4. SupportUseIsLive' /\ AuditIsPast'
  BY <1>2 DEF SupportUseIsLive, LiveUse, AuditIsPast
<1>5. (/\ TxIsLive /\ RowIsValid /\ TxSeesRow /\ OneLocker /\ WrittenBeforeHold
       /\ StandaloneHasNoTx /\ ConsentIsNow)'
  BY DEF IInv, TxIsLive, RowIsValid, TxSeesRow, OneLocker, RowLocked, WrittenBeforeHold,
         StandaloneHasNoTx, ConsentIsNow
<1> QED BY <1>3, <1>4, <1>5 DEF IInv

\* Issuing a grant keeps the invariant: nothing was done under it before.
LEMMA IssueKeeps ==
    ASSUME IInv, NEW g \in Grants, NEW operator \in SupportStaff,
           NEW caps \in SUBSET TenantCapability, NEW ttl \in Ttls, grants[g] = NoGrant,
           grants' = [grants EXCEPT ![g] = [operator |-> operator, caps |-> caps,
                          issued |-> now, expires |-> now + ttl, revoked |-> 0]],
           AppendAudit("support_elevation_issued", g, now),
           UNCHANGED <<store, now, optIn, consented, held, row, govHold, tx>>
    PROVE  IInv'
<1> DEFINE new == [operator |-> operator, caps |-> caps, issued |-> now,
                   expires |-> now + ttl, revoked |-> 0]
<1>1. now \in Time /\ now <= now /\ now \in Nat
  BY TenancyAssumption DEF IInv, TypeOK, Time
<1>2. "support_elevation_issued" \notin DOMAIN UseCapability
      /\ "support_elevation_issued" \in TenantAuditEventType
  BY DEF UseCapability, TenantAuditEventType
<1>3. /\ audit' \subseteq TenantAuditEvent
      /\ \A e \in audit' : e.at <= now
      /\ \A e \in audit' : LiveUse(e.type, e.elevation, e.at)
      /\ \A e \in audit' : e.elevation \in Grants
  BY <1>1, <1>2, AppendKeeps DEF LiveUse, Context
<1>4. new \in SupportElevationGrant
  BY <1>1, TenancyAssumption DEF SupportElevationGrant, MaybeTime
<1>5. \A h \in Grants : grants[h] # NoGrant => grants'[h] = grants[h]
  BY DEF IInv, TypeOK
<1>6. TypeOK'
  <2>1. grants' \in [Grants -> SupportElevationGrant \cup {NoGrant}]
    BY <1>4 DEF IInv, TypeOK
  <2> QED BY <1>3, <2>1 DEF IInv, TypeOK
<1>7. SupportUseIsLive' /\ AuditIsPast'
  BY <1>3, <1>5 DEF SupportUseIsLive, LiveUse, AuditIsPast
<1>8. TxIsLive'
  BY <1>5 DEF IInv, TxIsLive
<1>9. (/\ RowIsValid /\ TxSeesRow /\ OneLocker /\ WrittenBeforeHold /\ StandaloneHasNoTx
       /\ ConsentIsNow)'
  BY DEF IInv, RowIsValid, TxSeesRow, OneLocker, RowLocked, WrittenBeforeHold,
         StandaloneHasNoTx, ConsentIsNow
<1> QED BY <1>6, <1>7, <1>8, <1>9 DEF IInv

\* Revoking a grant keeps the invariant: every use of it is in the past.
LEMMA RevokeKeeps ==
    ASSUME IInv, NEW g \in Grants, grants[g] # NoGrant, grants[g].revoked = 0,
           grants' = [grants EXCEPT ![g].revoked = now],
           AppendAudit("support_elevation_revoked", g, now),
           UNCHANGED <<store, now, optIn, consented, held, row, govHold, tx>>
    PROVE  IInv'
<1>1. now \in Time /\ now <= now /\ now \in Nat /\ now \in MaybeTime
  BY TenancyAssumption DEF IInv, TypeOK, Time, MaybeTime
<1>2. "support_elevation_revoked" \notin DOMAIN UseCapability
      /\ "support_elevation_revoked" \in TenantAuditEventType
  BY DEF UseCapability, TenantAuditEventType
<1>3. /\ audit' \subseteq TenantAuditEvent
      /\ \A e \in audit' : e.at <= now
      /\ \A e \in audit' : LiveUse(e.type, e.elevation, e.at)
      /\ \A e \in audit' : e.elevation \in Grants
  BY <1>1, <1>2, AppendKeeps DEF LiveUse, Context
<1>4. grants[g] \in SupportElevationGrant
  BY DEF IInv, TypeOK
<1>5. /\ grants'[g] \in SupportElevationGrant /\ grants'[g] # NoGrant
      /\ grants'[g].caps = grants[g].caps /\ grants'[g].issued = grants[g].issued
      /\ grants'[g].expires = grants[g].expires /\ grants'[g].revoked = now
      /\ \A h \in Grants \ {g} : grants'[h] = grants[h]
  BY <1>1, <1>4, TenancyAssumption DEF IInv, TypeOK, SupportElevationGrant
<1>6. TypeOK'
  <2>1. grants' \in [Grants -> SupportElevationGrant \cup {NoGrant}]
    BY <1>5 DEF IInv, TypeOK
  <2> QED BY <1>3, <2>1 DEF IInv, TypeOK
<1>7. SupportUseIsLive'
  <2> SUFFICES ASSUME NEW e \in audit', e.type \in DOMAIN UseCapability
               PROVE  LET k == grants'[e.elevation] IN
                      /\ k # NoGrant /\ UseCapability[e.type] \in k.caps
                      /\ k.issued <= e.at /\ e.at < k.expires
                      /\ k.revoked # 0 => e.at <= k.revoked
                      /\ e.at \in consented
    BY DEF SupportUseIsLive
  <2>1. CASE e.elevation = g
    BY <1>3, <1>5, <2>1 DEF LiveUse
  <2>2. CASE e.elevation # g
    BY <1>3, <1>5, <2>2 DEF LiveUse
  <2> QED BY <2>1, <2>2
<1>8. TxIsLive'
  <2> SUFFICES ASSUME NEW p \in Procs, tx[p].pc # "idle"
               PROVE  (/\ tx[p].at <= now
                       /\ tx[p].ctx \in Grants =>
                          LET k == grants[tx[p].ctx] IN
                          /\ k # NoGrant
                          /\ CapabilityOf(tx[p].kind) \in k.caps
                          /\ k.issued <= tx[p].at /\ tx[p].at < k.expires
                          /\ k.revoked # 0 => tx[p].at <= k.revoked
                          /\ tx[p].at \in consented)'
    BY DEF TxIsLive
  <2>1. CASE tx[p].ctx = g
    BY <1>5, <2>1 DEF IInv, TxIsLive
  <2>2. CASE tx[p].ctx # g
    BY <1>5, <2>2 DEF IInv, TxIsLive
  <2> QED BY <2>1, <2>2
<1>9. AuditIsPast'
  BY <1>3 DEF AuditIsPast
<1>10. (/\ RowIsValid /\ TxSeesRow /\ OneLocker /\ WrittenBeforeHold /\ StandaloneHasNoTx
       /\ ConsentIsNow)'
  BY DEF IInv, RowIsValid, TxSeesRow, OneLocker, RowLocked, WrittenBeforeHold,
         StandaloneHasNoTx, ConsentIsNow
<1> QED BY <1>6, <1>7, <1>8, <1>9, <1>10 DEF IInv

----------------------------------------------------------------------------
(* Lifecycle transactions *)

\* Beginning a transaction keeps the invariant.
LEMMA BeginKeeps ==
    ASSUME IInv, NEW p \in Procs, NEW kind \in {"hold", "release", "schedule", "complete"},
           NEW ctx \in Context, NEW nb \in MaybeTime, BeginTx(p, kind, ctx, nb)
    PROVE  IInv'
<1> DEFINE t == [pc |-> "authorized", kind |-> kind, ctx |-> ctx, at |-> now,
                 notBefore |-> nb, seen |-> NoRow, write |-> NoRow]
<1>1. now \in Time /\ now \in Nat
  BY TenancyAssumption DEF IInv, TypeOK, Time
<1>2. t \in Transaction
  BY <1>1 DEF Transaction, MaybeRow
<1>3. tx' = [tx EXCEPT ![p] = t] /\ UNCHANGED <<store, now, optIn, consented, grants, held, row, govHold, audit>>
  BY DEF BeginTx
<1>4. TypeOK'
  BY <1>2, <1>3 DEF IInv, TypeOK
<1>5. tx'[p] = t /\ \A q \in Procs \ {p} : tx'[q] = tx[q]
  BY <1>3 DEF IInv, TypeOK
<1>6. TxIsLive'
  <2>1. Authorize(ctx, CapabilityOf(kind), now)
    BY DEF BeginTx
  <2>2. ctx \in Grants => /\ grants[ctx] # NoGrant /\ CapabilityOf(kind) \in grants[ctx].caps
                          /\ grants[ctx].issued <= now /\ now < grants[ctx].expires
                          /\ grants[ctx].revoked = 0 /\ now \in consented
    BY <2>1, AuthorizedIsLive
  <2> SUFFICES ASSUME NEW q \in Procs, tx'[q].pc # "idle"
               PROVE  /\ tx'[q].at <= now
                      /\ tx'[q].ctx \in Grants =>
                          LET k == grants[tx'[q].ctx] IN
                          /\ k # NoGrant
                          /\ CapabilityOf(tx'[q].kind) \in k.caps
                          /\ k.issued <= tx'[q].at /\ tx'[q].at < k.expires
                          /\ k.revoked # 0 => tx'[q].at <= k.revoked
                          /\ tx'[q].at \in consented
    BY <1>3 DEF TxIsLive
  <2>3. CASE q = p
    BY <1>1, <1>5, <2>2, <2>3
  <2>4. CASE q # p
    BY <1>5, <2>4 DEF IInv, TxIsLive
  <2> QED BY <2>3, <2>4
<1>7. TxSeesRow' /\ OneLocker' /\ WrittenBeforeHold'
  BY <1>3, <1>5 DEF IInv, TxSeesRow, OneLocker, RowLocked, WrittenBeforeHold
<1>8. SupportUseIsLive' /\ AuditIsPast' /\ RowIsValid' /\ StandaloneHasNoTx' /\ ConsentIsNow'
  BY <1>3 DEF IInv, SupportUseIsLive, AuditIsPast, RowIsValid, StandaloneHasNoTx, BeginTx,
              ConsentIsNow
<1> QED BY <1>4, <1>6, <1>7, <1>8 DEF IInv

\* A transaction that takes its next step without touching the tables, and
\* either gives up or keeps what it was authorized for, keeps the invariant.
LEMMA LocalStepKeeps ==
    ASSUME IInv, NEW p \in Procs, NEW t \in Transaction, tx' = [tx EXCEPT ![p] = t],
           UNCHANGED <<store, now, optIn, consented, grants, held, row, govHold, audit>>,
           store = "postgres",
           t.pc # "idle" => /\ tx[p].pc # "idle" /\ t.kind = tx[p].kind
                            /\ t.ctx = tx[p].ctx /\ t.at = tx[p].at,
           t.pc \in {"read", "written"} /\ t.seen # NoRow => t.seen = row,
           t.pc = "written" =>
               /\ t.write = NewRow(t.kind, t.seen, t.notBefore)
               /\ Permitted(t.kind, t.seen, t.notBefore, t.at)
               /\ t.kind \in {"schedule", "complete"} => govHold.state # "active",
           t.pc = "written" \/ (t.pc = "read" /\ t.seen # NoRow) => LockFree(p)
    PROVE  IInv'
<1>1. TypeOK'
  BY DEF IInv, TypeOK
<1>2. tx'[p] = t /\ \A q \in Procs \ {p} : tx'[q] = tx[q]
  BY DEF IInv, TypeOK
<1>3. TxIsLive'
  <2> SUFFICES ASSUME NEW q \in Procs, tx'[q].pc # "idle"
               PROVE  /\ tx'[q].at <= now
                      /\ tx'[q].ctx \in Grants =>
                          LET k == grants[tx'[q].ctx] IN
                          /\ k # NoGrant
                          /\ CapabilityOf(tx'[q].kind) \in k.caps
                          /\ k.issued <= tx'[q].at /\ tx'[q].at < k.expires
                          /\ k.revoked # 0 => tx'[q].at <= k.revoked
                          /\ tx'[q].at \in consented
    BY DEF TxIsLive
  <2>1. /\ tx[q].pc # "idle" /\ tx'[q].kind = tx[q].kind
        /\ tx'[q].ctx = tx[q].ctx /\ tx'[q].at = tx[q].at
    BY <1>2
  <2> QED BY <2>1 DEF IInv, TxIsLive
<1>4. TxSeesRow'
  BY <1>2 DEF IInv, TxSeesRow
<1>5. OneLocker'
  BY <1>2 DEF IInv, OneLocker, RowLocked, LockFree
<1>6. WrittenBeforeHold'
  BY <1>2 DEF IInv, WrittenBeforeHold
<1>7. SupportUseIsLive' /\ AuditIsPast' /\ RowIsValid' /\ StandaloneHasNoTx' /\ ConsentIsNow'
  BY DEF IInv, SupportUseIsLive, AuditIsPast, RowIsValid, StandaloneHasNoTx, ConsentIsNow
<1> QED BY <1>1, <1>3, <1>4, <1>5, <1>6, <1>7 DEF IInv

\* Reading the row keeps the invariant: the lock of a row that exists is free.
LEMMA ReadKeeps == ASSUME IInv, NEW p \in Procs, ReadRow(p) PROVE IInv'
<1> DEFINE t == [tx[p] EXCEPT !.pc = "read", !.seen = row]
<1>1. tx[p] \in Transaction /\ row \in MaybeRow
  BY DEF IInv, TypeOK
<1>2. /\ t \in Transaction /\ t.pc = "read" /\ t.seen = row /\ t.kind = tx[p].kind
      /\ t.ctx = tx[p].ctx /\ t.at = tx[p].at
  BY <1>1 DEF Transaction
<1>3. tx' = [tx EXCEPT ![p] = t]
  BY DEF ReadRow
<1>4. store = "postgres"
  BY DEF ReadRow, IInv, TypeOK, StandaloneHasNoTx
<1>5. row # NoRow => LockFree(p)
  BY DEF ReadRow
<1>6. tx[p].pc # "idle" /\ UNCHANGED <<store, now, optIn, consented, grants, held, row, govHold, audit>>
  BY DEF ReadRow
<1> HIDE DEF t
<1> QED BY <1>2, <1>3, <1>4, <1>5, <1>6, LocalStepKeeps

\* Writing the row keeps the invariant: the lock is free and no governance
\* hold is active when a deletion is written.
LEMMA WriteKeeps == ASSUME IInv, NEW p \in Procs, WriteRow(p) PROVE IInv'
<1> DEFINE new == NewRow(tx[p].kind, tx[p].seen, tx[p].notBefore)
           t == [tx[p] EXCEPT !.pc = "written", !.write = new]
<1>1. tx[p] \in Transaction
  BY DEF IInv, TypeOK
<1>a. /\ tx[p].kind \in {"hold", "release", "schedule", "complete"}
      /\ tx[p].seen \in MaybeRow /\ tx[p].notBefore \in MaybeTime
  BY <1>1 DEF Transaction
<1>2. /\ new \in TenantLifecycleRecord
      /\ tx[p].kind = "schedule" => new = ScheduledRow(tx[p].notBefore)
      /\ tx[p].kind = "complete" => new = DeletedRow
  BY <1>a, NewRowTyped
<1> HIDE DEF new
<1>3. /\ t \in Transaction /\ t.pc = "written" /\ t.seen = tx[p].seen /\ t.kind = tx[p].kind
      /\ t.ctx = tx[p].ctx /\ t.at = tx[p].at /\ t.notBefore = tx[p].notBefore /\ t.write = new
  BY <1>1, <1>2 DEF Transaction, MaybeRow
<1>4. tx' = [tx EXCEPT ![p] = t]
  BY DEF WriteRow, new
<1>5. /\ store = "postgres" /\ tx[p].pc = "read" /\ LockFree(p) /\ ~TriggerRejects(new)
      /\ Permitted(tx[p].kind, tx[p].seen, tx[p].notBefore, tx[p].at)
      /\ UNCHANGED <<store, now, optIn, consented, grants, held, row, govHold, audit>>
  BY DEF WriteRow, IInv, TypeOK, StandaloneHasNoTx, new
<1>6. tx[p].kind \in {"schedule", "complete"} => govHold.state # "active"
  BY <1>2, <1>5 DEF TriggerRejects, ScheduledRow, DeletedRow
<1>7. tx[p].seen # NoRow => tx[p].seen = row
  BY <1>5 DEF IInv, TxSeesRow
<1>8. new = NewRow(t.kind, t.seen, t.notBefore)
  BY <1>3 DEF new
<1> HIDE DEF t
<1> QED BY <1>3, <1>4, <1>5, <1>6, <1>7, <1>8, LocalStepKeeps

\* Rolling back keeps the invariant.
LEMMA RollbackKeeps == ASSUME IInv, NEW p \in Procs, RollbackTx(p) PROVE IInv'
<1>1. Idle \in Transaction /\ Idle.pc = "idle"
  BY TenancyAssumption DEF Idle, Transaction, Context, Time, MaybeTime, MaybeRow
<1>2. store = "postgres" /\ tx' = [tx EXCEPT ![p] = Idle]
      /\ UNCHANGED <<store, now, optIn, consented, grants, held, row, govHold, audit>>
  BY DEF RollbackTx, IInv, TypeOK, StandaloneHasNoTx
<1> QED BY <1>1, <1>2, LocalStepKeeps

\* what the committing transaction knows of the row it replaces
LEMMA CommitFacts ==
    ASSUME IInv, NEW p \in Procs, CommitTx(p)
    PROVE  /\ tx[p] \in Transaction
           /\ row' = NewRow(tx[p].kind, tx[p].seen, tx[p].notBefore)
           /\ row' \in TenantLifecycleRecord /\ ValidLifecycle(row')
           /\ tx[p].seen # NoRow => tx[p].seen = row
           /\ tx[p].kind = "schedule" => ScheduleAllowed(tx[p].seen)
           /\ tx[p].kind = "complete" => CompleteAllowed(tx[p].seen, tx[p].at)
           /\ tx[p].at <= now /\ tx[p].at \in Nat /\ now \in Nat
           /\ \A q \in Procs \ {p} : ~RowLocked(q) /\ tx'[q] = tx[q]
           /\ tx'[p] = Idle
<1>1. tx[p] \in Transaction
  BY DEF IInv, TypeOK
<1>2. /\ tx[p].kind \in {"hold", "release", "schedule", "complete"}
      /\ tx[p].seen \in MaybeRow /\ tx[p].notBefore \in MaybeTime /\ tx[p].at \in Time
  BY <1>1 DEF Transaction
<1>3. /\ row' = NewRow(tx[p].kind, tx[p].seen, tx[p].notBefore)
      /\ tx[p].seen # NoRow => tx[p].seen = row
      /\ Permitted(tx[p].kind, tx[p].seen, tx[p].notBefore, tx[p].at)
  BY DEF CommitTx, IInv, TxSeesRow
<1>4. row' \in TenantLifecycleRecord
  BY <1>2, <1>3, NewRowTyped
<1>5. /\ ValidLifecycle(row')
      /\ tx[p].kind = "schedule" => ScheduleAllowed(tx[p].seen)
      /\ tx[p].kind = "complete" => CompleteAllowed(tx[p].seen, tx[p].at)
  BY <1>3 DEF Permitted
<1>6. tx[p].at <= now /\ tx[p].at \in Nat /\ now \in Nat
  BY <1>2, TenancyAssumption DEF CommitTx, IInv, TypeOK, TxIsLive, Time
<1>7. \A q \in Procs \ {p} : ~RowLocked(q) /\ tx'[q] = tx[q]
  BY DEF CommitTx, IInv, TypeOK, OneLocker, RowLocked
<1>8. tx'[p] = Idle
  BY DEF CommitTx, IInv, TypeOK
<1> QED BY <1>1, <1>3, <1>4, <1>5, <1>6, <1>7, <1>8

\* Committing keeps the invariant: whoever locked the row was this transaction.
LEMMA CommitKeeps == ASSUME IInv, NEW p \in Procs, CommitTx(p) PROVE IInv'
<1>1. /\ tx[p] \in Transaction /\ row' \in TenantLifecycleRecord /\ ValidLifecycle(row')
      /\ tx[p].at <= now
      /\ \A q \in Procs \ {p} : ~RowLocked(q) /\ tx'[q] = tx[q]
      /\ tx'[p] = Idle
  BY CommitFacts
<1>2. /\ tx[p].kind \in {"hold", "release", "schedule", "complete"}
      /\ tx[p].ctx \in Context /\ tx[p].at \in Time
  BY <1>1 DEF Transaction
<1>3. Idle \in Transaction /\ Idle.pc = "idle"
  BY TenancyAssumption DEF Idle, Transaction, Context, Time, MaybeTime, MaybeRow
<1>4. /\ tx' = [tx EXCEPT ![p] = Idle] /\ AppendAudit(EventOf(tx[p].kind), tx[p].ctx, tx[p].at)
      /\ UNCHANGED <<store, now, optIn, consented, grants, held, govHold>>
  BY DEF CommitTx
<1>5. tx[p].ctx \in Grants => LiveUse(EventOf(tx[p].kind), tx[p].ctx, tx[p].at)
  BY <1>2, EventTyped DEF CommitTx, IInv, TxIsLive, LiveUse
<1>6. EventOf(tx[p].kind) \in TenantAuditEventType
  BY <1>2, EventTyped
<1>7. /\ audit' \subseteq TenantAuditEvent
      /\ \A e \in audit' : e.at <= now
      /\ \A e \in audit' : LiveUse(e.type, e.elevation, e.at)
  BY <1>1, <1>2, <1>4, <1>5, <1>6, AppendKeeps
<1>8. TypeOK'
  BY <1>1, <1>3, <1>4, <1>7 DEF IInv, TypeOK, MaybeRow
<1>9. SupportUseIsLive' /\ AuditIsPast'
  BY <1>4, <1>7 DEF SupportUseIsLive, LiveUse, AuditIsPast
<1>10. RowIsValid'
  BY <1>1 DEF RowIsValid
<1>11. TxIsLive' /\ WrittenBeforeHold' /\ StandaloneHasNoTx' /\ ConsentIsNow'
  BY <1>1, <1>3, <1>4 DEF IInv, TxIsLive, WrittenBeforeHold, StandaloneHasNoTx, ConsentIsNow
<1>12. TxSeesRow' /\ OneLocker'
  BY <1>1, <1>3 DEF IInv, TxSeesRow, OneLocker, RowLocked
<1> QED BY <1>8, <1>9, <1>10, <1>11, <1>12 DEF IInv

\* A standalone operation that replaces the row by a valid one keeps the invariant.
LEMMA StandaloneRowKeeps ==
    ASSUME IInv, store = "standalone", row' \in TenantLifecycleRecord, ValidLifecycle(row'),
           NEW type \in TenantAuditEventType, NEW ctx \in Context,
           AppendAudit(type, ctx, now), ctx \in Grants => LiveUse(type, ctx, now),
           UNCHANGED <<store, now, optIn, consented, grants, held, govHold, tx>>
    PROVE  IInv'
<1>1. now \in Time /\ now <= now
  BY DEF IInv, TypeOK, Time
<1>2. /\ audit' \subseteq TenantAuditEvent
      /\ \A e \in audit' : e.at <= now
      /\ \A e \in audit' : LiveUse(e.type, e.elevation, e.at)
  BY <1>1, AppendKeeps
<1>3. TypeOK'
  BY <1>2 DEF IInv, TypeOK, MaybeRow
<1>4. SupportUseIsLive' /\ AuditIsPast' /\ RowIsValid'
  BY <1>2 DEF SupportUseIsLive, LiveUse, AuditIsPast, RowIsValid
<1>5. \A p \in Procs : tx'[p].pc = "idle"
  BY DEF IInv, StandaloneHasNoTx
<1>6. (/\ TxIsLive /\ TxSeesRow /\ OneLocker /\ WrittenBeforeHold /\ StandaloneHasNoTx
       /\ ConsentIsNow)'
  BY <1>5 DEF IInv, TxIsLive, TxSeesRow, OneLocker, RowLocked, WrittenBeforeHold,
              StandaloneHasNoTx, ConsentIsNow
<1> QED BY <1>3, <1>4, <1>6 DEF IInv

\* AuthorizeLocked accepts what Authorize accepts.
LEMMA AuthorizedLockedIsLive ==
    ASSUME IInv, NEW ctx \in Context, NEW cap, AuthorizeLocked(ctx, cap), ctx \in Grants
    PROVE  /\ grants[ctx] # NoGrant /\ cap \in grants[ctx].caps
           /\ grants[ctx].issued <= now /\ now < grants[ctx].expires
           /\ grants[ctx].revoked = 0 /\ now \in consented
BY TenancyAssumption DEF AuthorizeLocked, Active, Context, IInv, ConsentIsNow

\* The standalone lifecycle operations keep the invariant.
LEMMA StandaloneNextKeeps == ASSUME IInv, StandaloneNext PROVE IInv'
<1> PICK ctx \in Context :
        \/ \E enabled \in BOOLEAN : StandaloneSetLegalHold(ctx, enabled)
        \/ \E notBefore \in MaybeTime : StandaloneSchedule(ctx, notBefore)
        \/ StandaloneComplete(ctx)
        \/ StandaloneExport(ctx)
  BY DEF StandaloneNext
<1>0. row \in MaybeRow /\ now \in Nat
  BY TenancyAssumption DEF IInv, TypeOK, Time
<1>k. {"hold", "release"} \subseteq {"hold", "release", "schedule", "complete"}
      /\ 0 \in MaybeTime
  BY TenancyAssumption DEF MaybeTime
<1>1. ASSUME NEW enabled \in BOOLEAN, StandaloneSetLegalHold(ctx, enabled) PROVE IInv'
  <2> DEFINE type == IF enabled THEN "legal_hold_placed" ELSE "legal_hold_released"
  <2>1. type \in TenantAuditEventType /\ type \in DOMAIN UseCapability
        /\ UseCapability[type] = "legal_hold"
    BY DEF TenantAuditEventType, UseCapability
  <2>2. row' = HeldRow(row, enabled) /\ ValidLifecycle(row')
    BY <1>1 DEF StandaloneSetLegalHold
  <2>3. row' \in TenantLifecycleRecord
    BY <1>0, <1>k, <2>2 DEF HeldRow, TenantLifecycleRecord, TenantLifecycleStatus, MaybeRow
  <2>4. ctx \in Grants => LiveUse(type, ctx, now)
    BY <1>1, <2>1, AuthorizedLockedIsLive DEF StandaloneSetLegalHold, LiveUse
  <2>5. /\ store = "standalone" /\ AppendAudit(type, ctx, now)
        /\ UNCHANGED <<store, now, optIn, consented, grants, held, govHold, tx>>
    BY <1>1 DEF StandaloneSetLegalHold
  <2> HIDE DEF type
  <2> QED BY <2>1, <2>2, <2>3, <2>4, <2>5, StandaloneRowKeeps
<1>2. ASSUME NEW nb \in MaybeTime, StandaloneSchedule(ctx, nb) PROVE IInv'
  <2>1. /\ "deletion_scheduled" \in TenantAuditEventType
        /\ "deletion_scheduled" \in DOMAIN UseCapability
        /\ UseCapability["deletion_scheduled"] = "delete"
    BY DEF TenantAuditEventType, UseCapability
  <2>2. row' = ScheduledRow(nb) /\ nb # 0
    BY <1>0, <1>2 DEF StandaloneSchedule
  <2>3. row' \in TenantLifecycleRecord /\ ValidLifecycle(row')
    BY <2>2 DEF ScheduledRow, TenantLifecycleRecord, TenantLifecycleStatus, ValidLifecycle
  <2>4. ctx \in Grants => LiveUse("deletion_scheduled", ctx, now)
    BY <1>2, <2>1, AuthorizedLockedIsLive DEF StandaloneSchedule, LiveUse
  <2> QED BY <1>2, <2>1, <2>3, <2>4, StandaloneRowKeeps DEF StandaloneSchedule
<1>3. ASSUME StandaloneComplete(ctx) PROVE IInv'
  <2>1. /\ "deletion_completed" \in TenantAuditEventType
        /\ "deletion_completed" \in DOMAIN UseCapability
        /\ UseCapability["deletion_completed"] = "delete"
    BY DEF TenantAuditEventType, UseCapability
  <2>2. row' = DeletedRow
    BY <1>3 DEF StandaloneComplete
  <2>3. row' \in TenantLifecycleRecord /\ ValidLifecycle(row')
    BY <1>k, <2>2 DEF DeletedRow, TenantLifecycleRecord, TenantLifecycleStatus, ValidLifecycle
  <2>4. ctx \in Grants => LiveUse("deletion_completed", ctx, now)
    BY <1>3, <2>1, AuthorizedLockedIsLive DEF StandaloneComplete, LiveUse
  <2> QED BY <1>3, <2>1, <2>3, <2>4, StandaloneRowKeeps DEF StandaloneComplete
<1>4. ASSUME StandaloneExport(ctx) PROVE IInv'
  <2>1. /\ "export_created" \in TenantAuditEventType
        /\ "export_created" \in DOMAIN UseCapability
        /\ UseCapability["export_created"] = "export"
    BY DEF TenantAuditEventType, UseCapability
  <2>2. ctx \in Grants => LiveUse("export_created", ctx, now)
    BY <1>4, <2>1, AuthorizedLockedIsLive DEF StandaloneExport, LiveUse
  <2> QED BY <1>4, <2>1, <2>2, AuditOnly DEF StandaloneExport, IInv, TypeOK, ConsentIsNow
<1> QED BY <1>1, <1>2, <1>3, <1>4

\* Issuing, redeeming and revoking keep the invariant in both stores.
LEMMA GrantNextKeeps == ASSUME IInv, GrantNext PROVE IInv'
<1> PICK g \in Grants, a \in Actors :
        \/ \E o \in Actors, caps \in GrantCaps, ttl \in Ttls :
              IssueSupportGrant(g, a, o, caps, ttl) \/ StandaloneIssue(g, a, o, caps, ttl)
        \/ RedeemSupportGrant(g, a) \/ StandaloneRedeem(g, a)
        \/ RevokeSupportGrant(g, a) \/ StandaloneRevoke(g, a)
  BY DEF GrantNext
<1>1. ASSUME NEW o \in Actors, NEW caps \in GrantCaps, NEW ttl \in Ttls,
             IssueSupportGrant(g, a, o, caps, ttl) \/ StandaloneIssue(g, a, o, caps, ttl)
      PROVE  IInv'
  <2>1. o \in SupportStaff /\ caps \in SUBSET TenantCapability
    BY <1>1, TenancyAssumption DEF IssueSupportGrant, StandaloneIssue
  <2> QED BY <1>1, <2>1, IssueKeeps DEF IssueSupportGrant, StandaloneIssue
<1>2. ASSUME RedeemSupportGrant(g, a) \/ StandaloneRedeem(g, a) PROVE IInv'
  <2>1. /\ "support_elevation_used" \in TenantAuditEventType
        /\ "support_elevation_used" \notin DOMAIN UseCapability
    BY DEF TenantAuditEventType, UseCapability
  <2>2. held' \in [Actors -> SUBSET Grants]
    BY <1>2 DEF RedeemSupportGrant, StandaloneRedeem, IInv, TypeOK
  <2>3. g \in Context /\ LiveUse("support_elevation_used", g, now)
    BY <2>1 DEF Context, LiveUse
  <2> QED BY <1>2, <2>1, <2>2, <2>3, AuditOnly
          DEF RedeemSupportGrant, StandaloneRedeem, IInv, TypeOK, ConsentIsNow
<1>3. ASSUME RevokeSupportGrant(g, a) \/ StandaloneRevoke(g, a) PROVE IInv'
  BY <1>3, RevokeKeeps DEF RevokeSupportGrant, StandaloneRevoke
<1> QED BY <1>1, <1>2, <1>3

\* Every step of a lifecycle transaction keeps the invariant.
LEMMA TxNextKeeps == ASSUME IInv, NEW p \in Procs, TxNext(p) PROVE IInv'
BY BeginKeeps, ReadKeeps, WriteKeeps, RollbackKeeps, CommitKeeps DEF TxNext

\* Governance holds and the clock keep the invariant: a hold is dated when it
\* is placed, after every transaction that has already written.
LEMMA EnvironmentKeeps ==
    ASSUME IInv, PlaceGovernanceHold \/ ReleaseGovernanceHold \/ Tick PROVE IInv'
<1>1. now \in Nat /\ now' \in Nat /\ now <= now' /\ now' \in Time
      /\ UNCHANGED <<store, optIn, grants, held, row, tx, audit>>
  BY TenancyAssumption
     DEF IInv, TypeOK, Time, PlaceGovernanceHold, ReleaseGovernanceHold, Tick
<1>2. govHold' \in [state: {"none", "active", "released"}, at: Time]
  BY DEF IInv, TypeOK, PlaceGovernanceHold, ReleaseGovernanceHold, Tick
<1>c. consented \subseteq consented' /\ consented' \subseteq Time /\ ConsentIsNow'
  BY <1>1 DEF PlaceGovernanceHold, ReleaseGovernanceHold, Tick, Consent, ConsentIsNow, IInv, TypeOK
<1>3. TypeOK'
  BY <1>1, <1>2, <1>c DEF IInv, TypeOK
<1>4. \A p \in Procs : tx[p] \in Transaction /\ tx[p].at \in Nat
  BY TenancyAssumption DEF IInv, TypeOK, Transaction, Time
<1>5. \A e \in audit : e.at \in Nat
  BY TenancyAssumption DEF IInv, TypeOK, TenantAuditEvent, Time
<1>6. TxIsLive' /\ AuditIsPast' /\ SupportUseIsLive'
  BY <1>1, <1>4, <1>5, <1>c DEF IInv, TxIsLive, AuditIsPast, SupportUseIsLive
<1>7. (RowIsValid /\ TxSeesRow /\ OneLocker /\ StandaloneHasNoTx)'
  BY <1>1 DEF IInv, RowIsValid, TxSeesRow, OneLocker, RowLocked, StandaloneHasNoTx
<1>8. WrittenBeforeHold'
  <2>1. CASE PlaceGovernanceHold
    BY <1>1, <2>1 DEF PlaceGovernanceHold, IInv, TxIsLive, WrittenBeforeHold
  <2>2. CASE ReleaseGovernanceHold
    BY <1>1, <2>2 DEF ReleaseGovernanceHold, IInv, TypeOK, WrittenBeforeHold
  <2>3. CASE Tick
    BY <1>1, <2>3 DEF Tick, IInv, WrittenBeforeHold
  <2> QED BY <2>1, <2>2, <2>3
<1> QED BY <1>3, <1>6, <1>7, <1>8, <1>c DEF IInv

\* Every step keeps the inductive invariant.
LEMMA StepInv == IInv /\ [Next]_vars => IInv'
<1> SUFFICES ASSUME IInv, [Next]_vars PROVE IInv'
  OBVIOUS
<1>1. ASSUME NEW v \in {"off", "on"}, PutProfile(v) \/ StandalonePutProfile(v) PROVE IInv'
  <2>1. "configuration_changed" \in TenantAuditEventType /\ Member \in Context
    BY DEF TenantAuditEventType, Context
  <2> QED BY <1>1, <2>1, TenancyAssumption, AuditOnly
          DEF PutProfile, StandalonePutProfile, Consent, IInv, TypeOK
<1>2. ASSUME NEW ctx \in Context, ExportManifest(ctx) PROVE IInv'
  <2>1. /\ "export_created" \in TenantAuditEventType
        /\ "export_created" \in DOMAIN UseCapability
        /\ UseCapability["export_created"] = "export"
    BY DEF TenantAuditEventType, UseCapability
  <2>2. ctx \in Grants => LiveUse("export_created", ctx, now)
    BY <1>2, <2>1, AuthorizedIsLive DEF ExportManifest, LiveUse
  <2> QED BY <1>2, <2>1, <2>2, AuditOnly DEF ExportManifest, IInv, TypeOK, ConsentIsNow
<1>3. CASE UNCHANGED vars
  <2>1. UNCHANGED <<store, now, optIn, consented, grants, held, row, govHold, tx, audit>>
    BY <1>3 DEF vars
  <2>2. TypeOK' /\ SupportUseIsLive' /\ TxIsLive' /\ AuditIsPast' /\ RowIsValid'
    BY <2>1 DEF IInv, TypeOK, SupportUseIsLive, TxIsLive, AuditIsPast, RowIsValid
  <2>3. TxSeesRow' /\ OneLocker' /\ WrittenBeforeHold' /\ StandaloneHasNoTx' /\ ConsentIsNow'
    BY <2>1 DEF IInv, TxSeesRow, OneLocker, RowLocked, WrittenBeforeHold, StandaloneHasNoTx,
                ConsentIsNow
  <2> QED BY <2>2, <2>3 DEF IInv
<1> QED BY <1>1, <1>2, <1>3, GrantNextKeeps, TxNextKeeps, StandaloneNextKeeps,
           EnvironmentKeeps DEF Next

----------------------------------------------------------------------------
(* Theorems *)

\* The inductive invariant holds in every reachable state.
THEOREM Invariance == Spec => []IInv
BY InitInv, StepInv, PTL DEF Spec

\* Every variable keeps its shape.
THEOREM TypeCorrect == Spec => []TypeOK
<1>1. IInv => TypeOK
  BY DEF IInv
<1> QED BY <1>1, Invariance, PTL

\* Live revalidation: everything audited under a support elevation was granted
\* and authorized inside its window, before its revocation and while the
\* tenant's opt-in was in force.
THEOREM SupportIsLive == Spec => []SupportUseIsLive
<1>1. IInv => SupportUseIsLive
  BY DEF IInv
<1> QED BY <1>1, Invariance, PTL

\* the steps that replace the lifecycle row
LEMMA RowChange ==
    ASSUME IInv, [Next]_vars, row' # row
    PROVE  \/ store = "postgres" /\ \E p \in Procs : CommitTx(p)
           \/ \E ctx \in Context, enabled \in BOOLEAN : StandaloneSetLegalHold(ctx, enabled)
           \/ \E ctx \in Context, nb \in MaybeTime : StandaloneSchedule(ctx, nb)
           \/ \E ctx \in Context : StandaloneComplete(ctx)
<1>1. ASSUME NEW p \in Procs, CommitTx(p) PROVE store = "postgres"
  BY <1>1 DEF CommitTx, IInv, TypeOK, StandaloneHasNoTx
<1>2. ASSUME NEW p \in Procs, TxNext(p) PROVE store = "postgres" /\ CommitTx(p)
  BY <1>1, <1>2 DEF TxNext, BeginTx, ReadRow, WriteRow, RollbackTx
<1>3. ~GrantNext
  BY DEF GrantNext, IssueSupportGrant, StandaloneIssue, RedeemSupportGrant, StandaloneRedeem,
         RevokeSupportGrant, StandaloneRevoke
<1>4. CASE StandaloneNext
  BY <1>4 DEF StandaloneNext, StandaloneExport
<1>5. CASE \E p \in Procs : TxNext(p)
  BY <1>2, <1>5
<1> QED BY <1>3, <1>4, <1>5 DEF Next, vars, PutProfile, StandalonePutProfile, ExportManifest,
           PlaceGovernanceHold, ReleaseGovernanceHold, Tick

\* A deletion completes only over a due schedule that is current at commit,
\* whatever was requested while it ran.
THEOREM DeletionsAreDue == Spec => DeletionIsDue
<1> DEFINE Due == row' # NoRow /\ row'.status = "deleted" /\ row' # row =>
                     /\ row # NoRow
                     /\ row.status = "deletion_scheduled" /\ ~row.hold
                     /\ row.notBefore <= now
<1>1. ASSUME IInv, [Next]_vars PROVE Due
  <2> SUFFICES ASSUME row' # NoRow, row'.status = "deleted", row' # row
               PROVE  /\ row # NoRow
                      /\ row.status = "deletion_scheduled" /\ ~row.hold
                      /\ row.notBefore <= now
    OBVIOUS
  <2>0. row \in MaybeRow
    BY <1>1 DEF IInv, TypeOK
  <2>r. row # NoRow /\ row.status = "deleted" => row = DeletedRow
    BY <1>1, <2>0 DEF IInv, RowIsValid, ValidLifecycle, DeletedRow, MaybeRow,
                      TenantLifecycleRecord
  <2>1. ASSUME NEW p \in Procs, CommitTx(p)
        PROVE  row # NoRow /\ row.status = "deletion_scheduled" /\ ~row.hold
               /\ row.notBefore <= now
    <3>1. /\ tx[p] \in Transaction
          /\ row' = NewRow(tx[p].kind, tx[p].seen, tx[p].notBefore)
          /\ ValidLifecycle(row')
          /\ tx[p].seen # NoRow => tx[p].seen = row
          /\ tx[p].kind = "complete" => CompleteAllowed(tx[p].seen, tx[p].at)
          /\ tx[p].at <= now /\ tx[p].at \in Nat /\ now \in Nat
      BY <1>1, <2>1, CommitFacts
    <3>2. /\ tx[p].kind \in {"hold", "release", "schedule", "complete"}
          /\ tx[p].seen \in MaybeRow /\ tx[p].notBefore \in MaybeTime
      BY <3>1 DEF Transaction
    <3>3. tx[p].kind # "schedule"
      BY <3>1, <3>2, NewRowTyped DEF ScheduledRow
    <3>4. tx[p].kind # "hold"
      <4> SUFFICES ASSUME tx[p].kind = "hold" PROVE FALSE
        OBVIOUS
      <4>1. row' = HeldRow(tx[p].seen, TRUE)
        BY <3>1, <3>2, NewRowTyped
      <4> QED BY <3>1, <4>1 DEF HeldRow, ValidLifecycle
    <3>5. tx[p].kind # "release"
      <4> SUFFICES ASSUME tx[p].kind = "release" PROVE FALSE
        OBVIOUS
      <4>1. row' = HeldRow(tx[p].seen, FALSE)
        BY <3>1, <3>2, NewRowTyped
      <4>2. tx[p].seen # NoRow /\ tx[p].seen.status = "deleted" /\ row' = DeletedRow
        BY <4>1 DEF HeldRow, DeletedRow
      <4> QED BY <2>r, <3>1, <4>2
    <3>6. tx[p].kind = "complete"
      BY <3>2, <3>3, <3>4, <3>5
    <3>7. /\ row # NoRow /\ row.status = "deletion_scheduled" /\ ~row.hold
          /\ row.notBefore <= tx[p].at
      BY <3>1, <3>6 DEF CompleteAllowed
    <3>8. row.notBefore \in Nat
      BY <2>0, <3>7, TenancyAssumption DEF MaybeRow, TenantLifecycleRecord, MaybeTime
    <3> QED BY <3>1, <3>7, <3>8
  <2>2. ASSUME NEW ctx \in Context, NEW enabled \in BOOLEAN, StandaloneSetLegalHold(ctx, enabled)
        PROVE FALSE
    <3>1. row' = HeldRow(row, enabled) /\ ValidLifecycle(row')
      BY <2>2 DEF StandaloneSetLegalHold
    <3>2. ~enabled /\ row # NoRow /\ row.status = "deleted" /\ row' = DeletedRow
      BY <3>1 DEF HeldRow, ValidLifecycle, DeletedRow
    <3> QED BY <2>r, <3>2
  <2>3. ASSUME NEW ctx \in Context, NEW nb \in MaybeTime, StandaloneSchedule(ctx, nb)
        PROVE FALSE
    BY <2>3 DEF StandaloneSchedule, ScheduledRow
  <2>4. ASSUME NEW ctx \in Context, StandaloneComplete(ctx)
        PROVE  row # NoRow /\ row.status = "deletion_scheduled" /\ ~row.hold
               /\ row.notBefore <= now
    BY <2>4 DEF StandaloneComplete
  <2> QED BY <1>1, <2>1, <2>2, <2>3, <2>4, RowChange
<1>2. IInv /\ [Next]_vars => [Due]_vars
  BY <1>1
<1> QED BY <1>2, Invariance, PTL DEF Spec, DeletionIsDue

\* Apart from the unlocked first insert, only a release lifts a legal hold.
THEOREM HoldsAreReleased == Spec => HoldIsLiftedByRelease
<1> DEFINE Lift == row # NoRow /\ row.hold /\ ~row'.hold =>
                      \/ store = "standalone" /\ row'.status = row.status
                      \/ \E p \in Procs : /\ Committing(p)
                                          /\ tx[p].kind = "release" \/ tx[p].seen = NoRow
<1>1. ASSUME IInv, [Next]_vars PROVE Lift
  <2> SUFFICES ASSUME row # NoRow, row.hold, ~row'.hold
               PROVE  \/ store = "standalone" /\ row'.status = row.status
                      \/ \E p \in Procs : /\ Committing(p)
                                          /\ tx[p].kind = "release" \/ tx[p].seen = NoRow
    OBVIOUS
  <2>0. row \in TenantLifecycleRecord /\ row' # row /\ row.hold = TRUE
    BY <1>1 DEF IInv, TypeOK, MaybeRow, TenantLifecycleRecord
  <2>1. ASSUME NEW p \in Procs, CommitTx(p)
        PROVE  Committing(p) /\ (tx[p].kind = "release" \/ tx[p].seen = NoRow)
    <3>1. /\ tx[p] \in Transaction
          /\ row' = NewRow(tx[p].kind, tx[p].seen, tx[p].notBefore)
          /\ tx[p].seen # NoRow => tx[p].seen = row
          /\ tx[p].kind = "schedule" => ScheduleAllowed(tx[p].seen)
          /\ tx[p].kind = "complete" => CompleteAllowed(tx[p].seen, tx[p].at)
          /\ tx'[p] = Idle
      BY <1>1, <2>1, CommitFacts
    <3>2. /\ tx[p].kind \in {"hold", "release", "schedule", "complete"}
          /\ tx[p].seen \in MaybeRow /\ tx[p].notBefore \in MaybeTime
      BY <3>1 DEF Transaction
    <3>3. Committing(p)
      BY <2>1, <3>1 DEF Committing, CommitTx, Idle
    <3>4. tx[p].kind # "hold"
      BY <3>1, <3>2, NewRowTyped DEF HeldRow
    <3>5. tx[p].kind = "schedule" => tx[p].seen = NoRow
      BY <3>1 DEF ScheduleAllowed
    <3>6. tx[p].kind # "complete"
      BY <3>1 DEF CompleteAllowed
    <3> QED BY <3>2, <3>3, <3>4, <3>5, <3>6
  <2>2. ASSUME NEW ctx \in Context, NEW enabled \in BOOLEAN, StandaloneSetLegalHold(ctx, enabled)
        PROVE  store = "standalone" /\ row'.status = row.status
    <3>1. row' = HeldRow(row, FALSE) /\ store = "standalone"
      BY <2>2 DEF StandaloneSetLegalHold, HeldRow
    <3>2. row.notBefore = 0 /\ row' = [status |-> row.status, hold |-> FALSE, notBefore |-> 0]
      BY <1>1, <2>0, <3>1 DEF IInv, RowIsValid, ValidLifecycle, HeldRow
    <3>3. row'.status = row.status
      BY <3>2, Zenon
    <3> QED BY <3>1, <3>3, Zenon
  <2>3. ASSUME NEW ctx \in Context, NEW nb \in MaybeTime, StandaloneSchedule(ctx, nb) PROVE FALSE
    BY <2>3 DEF StandaloneSchedule
  <2>4. ASSUME NEW ctx \in Context, StandaloneComplete(ctx) PROVE FALSE
    BY <2>4 DEF StandaloneComplete
  <2> QED BY <1>1, <2>0, <2>1, <2>2, <2>3, <2>4, RowChange
<1>2. IInv /\ [Next]_vars => [Lift]_vars
  BY <1>1
<1> QED BY <1>2, Invariance, PTL DEF Spec, HoldIsLiftedByRelease

\* No deletion whose transaction began after a governance hold commits over it.
THEOREM GovernanceHoldsBlock == Spec => GovernanceHoldBlocksDeletion
<1> DEFINE Blocks == \A p \in Procs : /\ Committing(p)
                                      /\ tx[p].kind \in {"schedule", "complete"}
                                      /\ govHold.state = "active"
                                      => tx[p].at <= govHold.at
<1>1. IInv => Blocks
  BY DEF IInv, WrittenBeforeHold, Committing
<1>2. IInv /\ [Next]_vars => [Blocks]_vars
  BY <1>1
<1> QED BY <1>2, Invariance, PTL DEF Spec, GovernanceHoldBlocksDeletion
=============================================================================
