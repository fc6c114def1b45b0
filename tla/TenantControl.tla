--------------------------- MODULE TenantControl ---------------------------
(***************************************************************************)
(* Tenant control in both of its store profiles. The deployment runs either *)
(* the durable store of module Tenancy or the standalone in-memory store,  *)
(* whose operations take one asyncio lock, await nothing while they hold   *)
(* it and so are single steps. The standalone store has no governance      *)
(* trigger.                                                                *)
(***************************************************************************)
EXTENDS Tenancy

StandalonePutProfile(v) ==
    /\ store = "standalone"
    /\ optIn' = v
    /\ Consent(v, now)
    /\ AppendAudit("configuration_changed", Member, now)
    /\ UNCHANGED <<store, now, grants, held, row, govHold, tx>>

StandaloneIssue(g, issuer, operator, caps, ttl) ==
    /\ store = "standalone"
    /\ grants[g] = NoGrant
    /\ issuer \in Authorities /\ operator \in SupportStaff /\ caps # {}
    /\ optIn = "on"
    /\ grants' = [grants EXCEPT ![g] = [operator |-> operator, caps |-> caps, issued |-> now,
                                        expires |-> now + ttl, revoked |-> 0]]
    /\ AppendAudit("support_elevation_issued", g, now)
    /\ UNCHANGED <<store, now, optIn, consented, held, row, govHold, tx>>

StandaloneRedeem(g, operator) ==
    /\ store = "standalone"
    /\ optIn = "on"
    /\ Active(g, now) /\ grants[g].operator = operator
    /\ held' = [held EXCEPT ![operator] = @ \cup {g}]
    /\ AppendAudit("support_elevation_used", g, now)
    /\ UNCHANGED <<store, now, optIn, consented, grants, row, govHold, tx>>

StandaloneRevoke(g, actor) ==
    /\ store = "standalone"
    /\ grants[g] # NoGrant
    /\ actor = grants[g].operator \/ actor \in Authorities
    /\ grants[g].revoked = 0
    /\ grants' = [grants EXCEPT ![g].revoked = now]
    /\ AppendAudit("support_elevation_revoked", g, now)
    /\ UNCHANGED <<store, now, optIn, consented, held, row, govHold, tx>>

\* _authorize_locked: the same live revalidation as the durable store's
AuthorizeLocked(ctx, cap) ==
    \/ ctx = Member
    \/ /\ ctx \in Grants
       /\ \E a \in Actors : ctx \in held[a]
       /\ optIn = "on"
       /\ Active(ctx, now)
       /\ cap \in grants[ctx].caps

StandaloneSetLegalHold(ctx, enabled) ==
    /\ store = "standalone"
    /\ AuthorizeLocked(ctx, "legal_hold")
    /\ ValidLifecycle(HeldRow(row, enabled))
    /\ row' = HeldRow(row, enabled)
    /\ AppendAudit(IF enabled THEN "legal_hold_placed" ELSE "legal_hold_released", ctx, now)
    /\ UNCHANGED <<store, now, optIn, consented, grants, held, govHold, tx>>

StandaloneSchedule(ctx, notBefore) ==
    /\ store = "standalone"
    /\ notBefore > now
    /\ AuthorizeLocked(ctx, "delete")
    /\ row # NoRow => ~row.hold
    /\ row' = ScheduledRow(notBefore)
    /\ AppendAudit("deletion_scheduled", ctx, now)
    /\ UNCHANGED <<store, now, optIn, consented, grants, held, govHold, tx>>

StandaloneComplete(ctx) ==
    /\ store = "standalone"
    /\ AuthorizeLocked(ctx, "delete")
    /\ row # NoRow
    /\ row.status = "deletion_scheduled" /\ row.notBefore # 0
    /\ row.notBefore <= now /\ ~row.hold
    /\ row' = DeletedRow
    /\ AppendAudit("deletion_completed", ctx, now)
    /\ UNCHANGED <<store, now, optIn, consented, grants, held, govHold, tx>>

StandaloneExport(ctx) ==
    /\ store = "standalone"
    /\ AuthorizeLocked(ctx, "export")
    /\ AppendAudit("export_created", ctx, now)
    /\ UNCHANGED <<store, now, optIn, consented, grants, held, row, govHold, tx>>

----------------------------------------------------------------------------
Init ==
    /\ store \in {"postgres", "standalone"}
    /\ now = 1
    /\ optIn = "unset"
    /\ grants = [g \in Grants |-> NoGrant]
    /\ held = [a \in Actors |-> {}]
    /\ row = NoRow
    /\ govHold = [state |-> "none", at |-> 1]
    /\ tx = [p \in Procs |-> Idle]
    /\ audit = {}
    /\ consented = {}

GrantNext ==
    \E g \in Grants, a \in Actors :
        \/ \E o \in Actors, caps \in GrantCaps, ttl \in Ttls :
              IssueSupportGrant(g, a, o, caps, ttl) \/ StandaloneIssue(g, a, o, caps, ttl)
        \/ RedeemSupportGrant(g, a) \/ StandaloneRedeem(g, a)
        \/ RevokeSupportGrant(g, a) \/ StandaloneRevoke(g, a)

TxNext(p) ==
    \/ \E kind \in {"hold", "release", "schedule", "complete"}, ctx \in Context,
          notBefore \in MaybeTime : BeginTx(p, kind, ctx, notBefore)
    \/ ReadRow(p) \/ WriteRow(p) \/ RollbackTx(p) \/ CommitTx(p)

StandaloneNext ==
    \E ctx \in Context :
        \/ \E enabled \in BOOLEAN : StandaloneSetLegalHold(ctx, enabled)
        \/ \E notBefore \in MaybeTime : StandaloneSchedule(ctx, notBefore)
        \/ StandaloneComplete(ctx)
        \/ StandaloneExport(ctx)

Next ==
    \/ \E v \in {"off", "on"} : PutProfile(v) \/ StandalonePutProfile(v)
    \/ GrantNext
    \/ \E ctx \in Context : ExportManifest(ctx)
    \/ \E p \in Procs : TxNext(p)
    \/ StandaloneNext
    \/ PlaceGovernanceHold \/ ReleaseGovernanceHold
    \/ Tick

Spec == Init /\ [][Next]_vars

----------------------------------------------------------------------------
(* Properties *)

\* Every variable keeps the shape of its table or of the process's locals.
TypeOK ==
    /\ store \in {"postgres", "standalone"}
    /\ now \in Time
    /\ optIn \in {"unset", "off", "on"}
    /\ grants \in [Grants -> SupportElevationGrant \cup {NoGrant}]
    /\ held \in [Actors -> SUBSET Grants]
    /\ row \in MaybeRow
    /\ govHold \in [state: {"none", "active", "released"}, at: Time]
    /\ tx \in [Procs -> Transaction]
    /\ audit \subseteq TenantAuditEvent
    /\ consented \subseteq Time

\* the capability each audited use of an elevation needs
UseCapability ==
    [u \in {"export_created", "deletion_scheduled", "deletion_completed",
            "legal_hold_placed", "legal_hold_released"} |->
        CASE u = "export_created" -> "export"
          [] u \in {"deletion_scheduled", "deletion_completed"} -> "delete"
          [] OTHER -> "legal_hold"]

\* Whatever the audit trail says was done under a support elevation was
\* granted, and was authorized inside the grant's window, before its
\* revocation and while the tenant's opt-in was in force, however long ago the
\* context was redeemed: "Revocation or tenant opt-out is immediately
\* effective" (docs/operations/tenant-isolation.md, Support elevation). An
\* operation authorized before may still commit after: `at' is when it was
\* authorized, to the tick.
SupportUseIsLive ==
    \A e \in audit : e.type \in DOMAIN UseCapability =>
        LET g == grants[e.elevation] IN
        /\ g # NoGrant
        /\ UseCapability[e.type] \in g.caps
        /\ g.issued <= e.at /\ e.at < g.expires
        /\ g.revoked # 0 => e.at <= g.revoked
        /\ e.at \in consented

\* A deletion is completed only over the schedule that is current when it
\* commits, once that schedule is due, and never over a legal hold, even
\* when a hold or another schedule was requested while it ran.
DeletionIsDue ==
    [][row' # NoRow /\ row'.status = "deleted" /\ row' # row =>
          /\ row # NoRow
          /\ row.status = "deletion_scheduled" /\ ~row.hold
          /\ row.notBefore <= now]_vars

\* the transaction that commits in this step
Committing(p) == tx[p].pc = "written" /\ tx'[p].pc = "idle"

\* Only a release lifts the tenant's legal hold, except for a transaction
\* that read the lifecycle before the tenant had a row: that one locked
\* nothing, and its upsert overwrites the hold. (A standalone release is one
\* step that leaves the status alone.)
HoldIsLiftedByRelease ==
    [][row # NoRow /\ row.hold /\ ~row'.hold =>
          \/ store = "standalone" /\ row'.status = row.status
          \/ \E p \in Procs : /\ Committing(p)
                              /\ tx[p].kind = "release" \/ tx[p].seen = NoRow]_vars

\* A governance legal hold committed before a deletion transaction began
\* blocks it: no schedule and no deletion commits over it.
GovernanceHoldBlocksDeletion ==
    [][\A p \in Procs : /\ Committing(p)
                        /\ tx[p].kind \in {"schedule", "complete"}
                        /\ govHold.state = "active"
                        => tx[p].at <= govHold.at]_vars

\* "Legal hold blocks deletion scheduling and takes precedence over existing
\* schedules": a hold in force is lifted by a release and by nothing else.
LegalHoldTakesPrecedence ==
    [][row # NoRow /\ row.hold /\ ~row'.hold =>
          \/ store = "standalone" /\ row'.status = row.status
          \/ \E p \in Procs : Committing(p) /\ tx[p].kind = "release"]_vars

=============================================================================
