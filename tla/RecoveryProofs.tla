--------------------------- MODULE RecoveryProofs ---------------------------
(***************************************************************************)
(* Theorems about RecoveryControl, for all profiles, backups, grants,      *)
(* restores, attempts and concurrent calls and any time horizon.           *)
(***************************************************************************)
EXTENDS RecoveryControl, TLAPS

----------------------------------------------------------------------------
(* What the actions of both profiles do, grouped by the table they write *)

Publishes(doc) ==
    /\ profiles' = Append(profiles, doc)
    /\ UNCHANGED <<store, now, backups, grantVars, uses, stageVars, attempts, calls, exercises>>

Records(b, manifest) ==
    /\ Recordable(manifest, now) /\ backups[b] \in {NoBackup, manifest}
    /\ backups' = [backups EXCEPT ![b] = manifest]
    /\ UNCHANGED <<store, now, profiles, grantVars, uses, stageVars, attempts, calls, exercises>>

Issues(g, grant) ==
    /\ grants[g] = NoGrant /\ ValidGrant(grant) /\ grant \in BreakGlassGrant
    /\ grants' = [grants EXCEPT ![g] = grant]
    /\ UNCHANGED <<store, now, catalogVars, revoked, uses, stageVars, attempts, calls, exercises>>

Revokes(g) ==
    /\ revoked' = revoked \cup {g}
    /\ UNCHANGED <<store, now, catalogVars, grants, uses, stageVars, attempts, calls, exercises>>

\* a use of grant g by its operator while it is live
Uses(g, capability) ==
    /\ \E actor \in Actors : Live(g, capability, actor)
    /\ UseWith(g, capability)

Plans(x, b, g, later) ==
    /\ plans[x] = NoPlan /\ Uses(g, "restore")
    /\ later >= now /\ now' = later
    /\ backups[b] # NoBackup
    /\ plans' = [plans EXCEPT ![x] = [backup |-> b, revision |-> backups[b].revision,
                                      grant |-> g, failed |-> later]]
    /\ UNCHANGED <<store, catalogVars, grantVars, scans, recoveries, gaps, results,
                   attempts, calls, exercises>>

Scans(x, obs) ==
    /\ plans[x] # NoPlan /\ Uses(plans[x].grant, "integrity_scan")
    /\ scans' = scans \cup {Verify(backups[plans[x].backup], x, obs)}
    /\ UNCHANGED <<store, now, catalogVars, grantVars, plans, recoveries, gaps, results,
                   attempts, calls, exercises>>

RecordsGap(x, unresolved) ==
    /\ plans[x] # NoPlan /\ Uses(plans[x].grant, "reconcile")
    /\ gaps[x] = NoGap
    /\ gaps' = [gaps EXCEPT ![x] = unresolved]
    /\ UNCHANGED <<store, now, catalogVars, grantVars, plans, scans, recoveries, results,
                   attempts, calls, exercises>>

\* the durable store judges by the plan's profile and its own journal
Completes(x, scan, i, later, unresolved) ==
    /\ plans[x] # NoPlan /\ Uses(plans[x].grant, "failover")
    /\ later >= now /\ now' = later
    /\ scan \in scans /\ scan.restore = x
    /\ i \in 1..Len(profiles)
    /\ ~unresolved => \A a \in DOMAIN recoveries[x] : recoveries[x][a] \notin Inconclusive
    /\ store = "postgres" => /\ i = plans[x].revision /\ later = now
                             /\ unresolved = Unresolved(x) /\ results[x] = NoResult
    /\ results' = [results EXCEPT ![x] = ResultOf(x, scan, profiles[i], later, unresolved)]
    /\ UNCHANGED <<store, catalogVars, grantVars, plans, scans, recoveries, gaps,
                   attempts, calls, exercises>>

Begins(c, x, seen) ==
    /\ plans[x] # NoPlan /\ Uses(plans[x].grant, "reconcile")
    /\ calls' = [calls EXCEPT ![c] = [restore |-> x, seen |-> seen]]
    /\ UNCHANGED <<store, now, catalogVars, grantVars, stageVars, attempts, exercises>>

\* the durable store uses the authority again
Ends(c, x, new) ==
    /\ calls[c] # NoCall /\ x = calls[c].restore
    /\ \/ /\ store = "postgres" /\ Uses(plans[x].grant, "reconcile")
          /\ \A a \in DOMAIN recoveries[x] : a \in DOMAIN new /\ new[a] = recoveries[x][a]
       \/ store = "standalone" /\ uses' = uses
    /\ recoveries' = [recoveries EXCEPT ![x] = new]
    /\ calls' = [calls EXCEPT ![c] = NoCall]
    /\ UNCHANGED <<store, now, catalogVars, grantVars, plans, scans, gaps, results,
                   attempts, exercises>>

Exercises(exercise) ==
    /\ exercises' = exercises \cup {exercise}
    /\ UNCHANGED <<store, now, catalogVars, grantVars, uses, stageVars, attempts, calls>>

\* only the record of a use is written
OnlyUses(g, capability) ==
    /\ Uses(g, capability)
    /\ UNCHANGED <<store, now, catalogVars, grantVars, stageVars, attempts, calls, exercises>>

----------------------------------------------------------------------------
(* Types, in groups *)

Call == [restore: Restores, seen: SUBSET Attempts]

CatalogTypes ==
    /\ store \in {"postgres", "standalone"}
    /\ now \in Time
    /\ profiles \in Seq(Profiles)
    /\ backups \in [Backups -> BackupManifest \cup {NoBackup}]

GrantTypes ==
    /\ grants \in [Grants -> BreakGlassGrant \cup {NoGrant}]
    /\ revoked \subseteq Grants
    /\ uses \in [Grants -> SUBSET BreakGlassCapability]

StageTypes ==
    /\ plans \in [Restores -> RestorePlan \cup {NoPlan}]
    /\ scans \subseteq IntegrityScanResult
    /\ gaps \in [Restores -> Nat \cup {NoGap}]

CallTypes ==
    /\ attempts \in [Attempts -> Time \cup {Never}]
    /\ calls \in [Calls -> Call \cup {NoCall}]
    /\ recoveries \in [Restores -> Recoveries]

ResultTypes ==
    /\ results \in [Restores -> RestoreResult \cup {NoResult}]
    /\ exercises \subseteq GameDayExercise

\* The groups together are TypeOK.
LEMMA TypesAre == TypeOK <=> CatalogTypes /\ GrantTypes /\ StageTypes /\ CallTypes /\ ResultTypes
BY DEF TypeOK, CatalogTypes, GrantTypes, StageTypes, CallTypes, ResultTypes, Call

\* A new grant is well formed.
LEMMA GrantTyped ==
  ASSUME CatalogTypes, NEW o \in Actors, NEW a \in Actors, NEW scope \in GrantScopes,
         NEW ttl \in GrantTimes
  PROVE  NewGrant(o, a, scope, ttl) \in BreakGlassGrant
<1>1. now + ttl \in Nat /\ scope \in SUBSET BreakGlassCapability
  BY RecoveryAssumption DEF CatalogTypes, Time
<1> QED BY <1>1 DEF NewGrant, BreakGlassGrant

\* An exercise rests on a result, its own or a reported one.
LEMMA ExerciseTyped ==
  ASSUME NEW r \in RestoreResult, NEW s \in BOOLEAN, NEW p \in BOOLEAN
  PROVE  [restore |-> r.restore, simulated |-> s, scan |-> r.scan, passed |-> p] \in GameDayExercise
BY DEF RestoreResult, GameDayExercise
\* The findings of a reconciliation are well formed.
LEMMA FindingsTyped ==
  ASSUME NEW seen \in SUBSET Attempts, NEW found \in [Attempts -> Dispositions]
  PROVE  [a \in seen |-> found[a]] \in Recoveries
<1>1. \A a \in seen : found[a] \in UncertainRecoveryDisposition
  BY RecoveryAssumption
<1>2. [a \in seen |-> found[a]] \in [seen -> UncertainRecoveryDisposition]
  BY <1>1
<1> QED BY <1>2 DEF Recoveries

\* Added to earlier ones, they are too.
LEMMA RecoveryTyped ==
  ASSUME NEW old \in Recoveries, NEW seen \in SUBSET Attempts,
         NEW found \in [Attempts -> Dispositions]
  PROVE  [a \in DOMAIN old \cup seen |-> IF a \in seen THEN found[a] ELSE old[a]] \in Recoveries
<1>1. \A a \in seen : found[a] \in UncertainRecoveryDisposition
  BY RecoveryAssumption
<1>2. PICK D \in SUBSET Attempts : old \in [D -> UncertainRecoveryDisposition]
  BY DEF Recoveries
<1>4. D \cup seen \in SUBSET Attempts /\ DOMAIN old = D
  BY <1>2
<1>5. [a \in D \cup seen |-> IF a \in seen THEN found[a] ELSE old[a]]
        \in [D \cup seen -> UncertainRecoveryDisposition]
  BY <1>1, <1>2
<1> QED BY <1>4, <1>5 DEF Recoveries

\* Every step of the specification has one of these effects.
LEMMA Steps ==
  ASSUME TypeOK, Next
  PROVE  \/ \E doc \in Profiles : Publishes(doc)
         \/ \E b \in Backups, manifest \in Manifests : Records(b, manifest)
         \/ \E g \in Grants, grant \in BreakGlassGrant : Issues(g, grant)
         \/ \E g \in Grants : Revokes(g)
         \/ \E g \in Grants, capability \in DirectUses : OnlyUses(g, capability)
         \/ \E x \in Restores, b \in Backups, g \in Grants, later \in Time : Plans(x, b, g, later)
         \/ \E x \in Restores, obs \in Observations : Scans(x, obs)
         \/ \E x \in Restores, unresolved \in 0..1 : RecordsGap(x, unresolved)
         \/ \E x \in Restores, scan \in scans, later \in Time, i \in 1..Len(profiles),
               unresolved \in BOOLEAN : Completes(x, scan, i, later, unresolved)
         \/ \E a \in Attempts : AttemptBecomesUncertain(a)
         \/ \E c \in Calls, x \in Restores, seen \in SUBSET Attempts : Begins(c, x, seen)
         \/ \E c \in Calls, x \in Restores, new \in Recoveries : Ends(c, x, new)
         \/ \E c \in Calls : AbandonReconcile(c)
         \/ \E exercise \in GameDayExercise : Exercises(exercise)
         \/ Tick
<1> USE DEF Uses
<1>1. now \in Time /\ now <= now /\ (store = "postgres" => store # "standalone")
  BY RecoveryAssumption DEF TypeOK, Time
<1>2. CASE CatalogNext
  BY <1>2 DEF CatalogNext, PublishProfile, StandalonePublishProfile, RecordBackup,
     StandaloneRecordBackup, Publishes, Records
<1>3. CASE GrantNext
  <2>1. ASSUME NEW g \in Grants, NEW operator \in Actors, NEW approver \in Actors,
               NEW scope \in GrantScopes, NEW ttl \in GrantTimes,
               \/ IssueBreakGlass(g, operator, approver, scope, ttl)
               \/ StandaloneIssueBreakGlass(g, operator, approver, scope, ttl)
        PROVE  \E grant \in BreakGlassGrant : Issues(g, grant)
    <3>1. NewGrant(operator, approver, scope, ttl) \in BreakGlassGrant
      BY GrantTyped, TypesAre
    <3> QED BY <2>1, <3>1 DEF Issues, IssueBreakGlass, StandaloneIssueBreakGlass
  <2>2. ASSUME NEW g \in Grants, RevokeBreakGlass(g) \/ StandaloneRevokeBreakGlass(g)
        PROVE  Revokes(g)
    BY <2>2 DEF Revokes, RevokeBreakGlass, StandaloneRevokeBreakGlass
  <2>3. ASSUME NEW g \in Grants, NEW capability \in DirectUses, NEW actor \in Actors,
               UseBreakGlass(g, capability, actor) \/ StandaloneUseBreakGlass(g, capability, actor)
        PROVE  OnlyUses(g, capability)
    BY <2>3 DEF OnlyUses, UseBreakGlass, StandaloneUseBreakGlass
  <2> QED BY <1>3, <2>1, <2>2, <2>3 DEF GrantNext
<1>4. CASE StageNext
  <2>1. ASSUME NEW x \in Restores, NEW b \in Backups, NEW g \in Grants, NEW actor \in Actors,
               \/ PlanRestore(x, b, g, actor)
               \/ \E later \in Time : StandalonePlanRestore(x, b, g, actor, later)
        PROVE  \E later \in Time : Plans(x, b, g, later)
    <3>1. CASE PlanRestore(x, b, g, actor)
      <4>1. Plans(x, b, g, now)
        BY <1>1, <3>1 DEF PlanRestore, Plans
      <4> QED BY <1>1, <4>1
    <3>2. ASSUME NEW later \in Time, StandalonePlanRestore(x, b, g, actor, later)
          PROVE  Plans(x, b, g, later)
      BY <3>2 DEF StandalonePlanRestore, Plans
    <3> QED BY <2>1, <3>1, <3>2
  <2>2. ASSUME NEW x \in Restores, NEW obs \in Observations, NEW actor \in Actors,
               VerifyRestore(x, obs, actor) \/ StandaloneVerifyRestore(x, obs, actor)
        PROVE  Scans(x, obs)
    BY <2>2 DEF Scans, VerifyRestore, StandaloneVerifyRestore
  <2>3. ASSUME NEW x \in Restores, NEW unresolved \in 0..1, NEW actor \in Actors,
               RecordRecoveryGap(x, unresolved, actor) \/ StandaloneRecordGap(x, unresolved, actor)
        PROVE  RecordsGap(x, unresolved)
    BY <2>3 DEF RecordsGap, RecordRecoveryGap, StandaloneRecordGap
  <2>4. ASSUME NEW x \in Restores, NEW scan \in scans, NEW actor \in Actors,
               CompleteRestore(x, scan, actor)
        PROVE  \E later \in Time, i \in 1..Len(profiles), unresolved \in BOOLEAN :
                  Completes(x, scan, i, later, unresolved)
    <3>1. plans[x].revision \in 1..Len(profiles)
      BY <2>4 DEF CompleteRestore, IsActive, Effective
    <3>4. ~Unresolved(x) => \A a \in DOMAIN recoveries[x] : recoveries[x][a] \notin Inconclusive
      BY DEF Unresolved
    <3>2. Completes(x, scan, plans[x].revision, now, Unresolved(x))
      BY <1>1, <2>4, <3>1, <3>4 DEF CompleteRestore, Completes
    <3>3. Unresolved(x) \in BOOLEAN
      BY DEF Unresolved
    <3> QED BY <1>1, <3>1, <3>2, <3>3
  <2>5. ASSUME NEW x \in Restores, NEW scan \in scans, NEW actor \in Actors, NEW later \in Time,
               StandaloneCompleteRestore(x, scan, actor, later)
        PROVE  \E i \in 1..Len(profiles), unresolved \in BOOLEAN :
                  Completes(x, scan, i, later, unresolved)
    <3> DEFINE open == \E a \in DOMAIN recoveries[x] : recoveries[x][a] \in Inconclusive
    <3>1. PICK i \in Effective(later) :
             results' = [results EXCEPT ![x] = ResultOf(x, scan, profiles[i], later, open)]
      BY <2>5 DEF StandaloneCompleteRestore
    <3>2. i \in 1..Len(profiles) /\ open \in BOOLEAN
      BY DEF Effective
    <3>3. /\ store # "postgres"
          /\ ~open => \A a \in DOMAIN recoveries[x] : recoveries[x][a] \notin Inconclusive
      BY <2>5 DEF StandaloneCompleteRestore
    <3> HIDE DEF open
    <3>4. Completes(x, scan, i, later, open)
      BY <2>5, <3>1, <3>2, <3>3 DEF StandaloneCompleteRestore, Completes
    <3> QED BY <3>2, <3>4
  <2> QED BY <1>4, <2>1, <2>2, <2>3, <2>4, <2>5 DEF StageNext
<1>5. CASE ReconcileNext
  <2>1. Uncertain \in SUBSET Attempts
    BY DEF Uncertain
  <2>2. ASSUME NEW c \in Calls, NEW x \in Restores, NEW actor \in Actors,
               \/ BeginReconcile(c, x, actor)
               \/ \E chosen \in SUBSET Uncertain : StandaloneBeginReconcile(c, x, chosen, actor)
        PROVE  \E seen \in SUBSET Attempts : Begins(c, x, seen)
    <3>1. CASE BeginReconcile(c, x, actor)
      <4>1. Begins(c, x, Uncertain)
        BY <3>1 DEF BeginReconcile, Begins
      <4> QED BY <2>1, <4>1
    <3>2. ASSUME NEW chosen \in SUBSET Uncertain, StandaloneBeginReconcile(c, x, chosen, actor)
          PROVE  chosen \in SUBSET Attempts /\ Begins(c, x, chosen)
      BY <2>1, <3>2 DEF StandaloneBeginReconcile, Begins
    <3> QED BY <2>2, <3>1, <3>2
  <2>3. ASSUME NEW c \in Calls, calls[c] # NoCall
        PROVE  /\ calls[c].restore \in Restores /\ calls[c].seen \in SUBSET Attempts
               /\ recoveries[calls[c].restore] \in Recoveries
    BY <2>3 DEF TypeOK
  <2>4. ASSUME NEW c \in Calls, NEW found \in [Attempts -> Dispositions], NEW actor \in Actors,
               CommitReconcile(c, found, actor)
        PROVE  \E x \in Restores, new \in Recoveries : Ends(c, x, new)
    <3> DEFINE x == calls[c].restore
               seen == calls[c].seen
               new == [a \in DOMAIN recoveries[x] \cup seen |->
                          IF a \in seen THEN found[a] ELSE recoveries[x][a]]
    <3>1. calls[c] # NoCall
      BY <2>4 DEF CommitReconcile
    <3>2. x \in Restores /\ new \in Recoveries
      BY <2>3, <3>1, RecoveryTyped
    <3>3. recoveries' = [recoveries EXCEPT ![x] = new]
      BY <2>4 DEF CommitReconcile
    <3>5. \A a \in DOMAIN recoveries[x] : a \in DOMAIN new /\ new[a] = recoveries[x][a]
      BY <2>4 DEF CommitReconcile
    <3> HIDE DEF new
    <3>4. Ends(c, x, new)
      BY <2>4, <3>1, <3>3, <3>5 DEF CommitReconcile, Ends
    <3> QED BY <3>2, <3>4
  <2>5. ASSUME NEW c \in Calls, NEW found \in [Attempts -> Dispositions],
               StandaloneEndReconcile(c, found)
        PROVE  \E x \in Restores, new \in Recoveries : Ends(c, x, new)
    <3> DEFINE x == calls[c].restore
               new == [a \in calls[c].seen |-> found[a]]
    <3>1. calls[c] # NoCall
      BY <2>5 DEF StandaloneEndReconcile
    <3>2. x \in Restores /\ calls[c].seen \in SUBSET Attempts
      BY <2>3, <3>1
    <3>4. new \in Recoveries
      BY <3>2, FindingsTyped
    <3>3. Ends(c, x, new)
      BY <2>5, <3>1 DEF StandaloneEndReconcile, Ends
    <3> QED BY <3>2, <3>3, <3>4
  <2> QED BY <1>5, <2>2, <2>4, <2>5 DEF ReconcileNext
<1>6. CASE GameDayNext
  <2>1. PICK result \in ReportedResults \cup {results[x] : x \in {y \in Restores : results[y] # NoResult}},
             simulated \in BOOLEAN :
               RecordGameDay(result, simulated) \/ StandaloneRecordGameDay(result, simulated)
    BY <1>6 DEF GameDayNext
  <2>2. result \in RestoreResult
    BY RecoveryAssumption DEF TypeOK
  <2>3. CASE RecordGameDay(result, simulated)
    <3> DEFINE e(p) == [restore |-> result.restore, simulated |-> simulated, scan |-> result.scan,
                        passed |-> p]
    <3>1. PICK i \in Effective(now) :
            exercises' = exercises \cup {e(Passed(result, profiles[i], simulated))}
      BY <2>3 DEF RecordGameDay
    <3>2. Passed(result, profiles[i], simulated) \in BOOLEAN
      BY DEF Passed
    <3>3. e(Passed(result, profiles[i], simulated)) \in GameDayExercise
      BY <2>2, <3>2, ExerciseTyped
    <3> QED BY <2>3, <3>1, <3>3 DEF RecordGameDay, Exercises
  <2>4. CASE StandaloneRecordGameDay(result, simulated)
    <3> DEFINE e == [restore |-> result.restore, simulated |-> simulated, scan |-> result.scan,
                     passed |-> FALSE]
    <3>1. e \in GameDayExercise
      BY <2>2, ExerciseTyped
    <3> QED BY <2>4, <3>1 DEF StandaloneRecordGameDay, Exercises
  <2> QED BY <2>1, <2>3, <2>4
<1> QED BY <1>2, <1>3, <1>4, <1>5, <1>6 DEF Next

----------------------------------------------------------------------------
(* What a step leaves in place *)

\* the tables that a step does not write stay as they are
LEMMA CatalogSteps ==
  ASSUME TypeOK, Next
  PROVE  /\ store' = store
         /\ \/ \E doc \in Profiles : Publishes(doc)
            \/ profiles' = profiles
         /\ \/ \E b \in Backups, manifest \in Manifests : Records(b, manifest)
            \/ backups' = backups
         /\ \/ \E g \in Grants, grant \in BreakGlassGrant : Issues(g, grant)
            \/ grants' = grants
         /\ \/ \E x \in Restores, b \in Backups, g \in Grants, later \in Time : Plans(x, b, g, later)
            \/ plans' = plans
         /\ \/ \E x \in Restores, scan \in scans, later \in Time, i \in 1..Len(profiles),
                  unresolved \in BOOLEAN : Completes(x, scan, i, later, unresolved)
            \/ results' = results
         /\ \/ \E a \in Attempts : AttemptBecomesUncertain(a)
            \/ attempts' = attempts
BY Steps DEF Publishes, Records, Issues, Revokes, OnlyUses, Plans, Scans, RecordsGap, Completes,
   AttemptBecomesUncertain, Begins, Ends, AbandonReconcile, Exercises, Tick, catalogVars,
   grantVars, stageVars

\* The clock goes forward.
LEMMA ClockSteps ==
  ASSUME TypeOK, Next
  PROVE  now \in Nat /\ now' \in Time /\ now' \in Nat /\ now <= now'
<1>1. Time \subseteq Nat /\ now \in Time /\ MaxTime \in Nat
  BY RecoveryAssumption DEF TypeOK, Time
<1>2. CASE Tick
  BY <1>1, <1>2 DEF Tick, Time
<1>3. CASE \E x \in Restores, b \in Backups, g \in Grants, later \in Time : Plans(x, b, g, later)
  BY <1>1, <1>3 DEF Plans
<1>4. CASE \E x \in Restores, scan \in scans, later \in Time, i \in 1..Len(profiles),
              unresolved \in BOOLEAN : Completes(x, scan, i, later, unresolved)
  BY <1>1, <1>4 DEF Completes
<1>5. now' = now \/ Tick
      \/ (\E x \in Restores, b \in Backups, g \in Grants, later \in Time : Plans(x, b, g, later))
      \/ (\E x \in Restores, scan \in scans, later \in Time, i \in 1..Len(profiles),
              unresolved \in BOOLEAN : Completes(x, scan, i, later, unresolved))
  BY Steps DEF Publishes, Records, Issues, Revokes, OnlyUses, Scans, RecordsGap,
     AttemptBecomesUncertain, Begins, Ends, AbandonReconcile, Exercises
<1> QED BY <1>1, <1>2, <1>3, <1>4, <1>5

\* Rows are never changed: profiles, backups, grants, plans and the journal
\* only grow, and so do the results of the durable store.
LEMMA RowsStay ==
  ASSUME TypeOK, Next
  PROVE  /\ Len(profiles) \in Nat /\ Len(profiles') \in Nat /\ Len(profiles) <= Len(profiles')
         /\ \A i \in 1..Len(profiles) : profiles'[i] = profiles[i]
         /\ \A b \in Backups : backups[b] # NoBackup => backups'[b] = backups[b]
         /\ \A g \in Grants : grants[g] # NoGrant => grants'[g] = grants[g]
         /\ \A x \in Restores : plans[x] # NoPlan => plans'[x] = plans[x]
         /\ \A x \in Restores : store = "postgres" /\ results[x] # NoResult => results'[x] = results[x]
         /\ \A a \in Attempts : attempts[a] # Never => attempts'[a] = attempts[a]
<1> USE CatalogSteps
<1>1. /\ Len(profiles) \in Nat /\ Len(profiles') \in Nat /\ Len(profiles) <= Len(profiles')
      /\ \A i \in 1..Len(profiles) : profiles'[i] = profiles[i]
  <2>1. CASE profiles' = profiles
    BY <2>1 DEF TypeOK
  <2>2. ASSUME NEW doc \in Profiles, Publishes(doc)
        PROVE  /\ Len(profiles) \in Nat /\ Len(profiles') \in Nat /\ Len(profiles) <= Len(profiles')
               /\ \A i \in 1..Len(profiles) : profiles'[i] = profiles[i]
    <3>1. profiles' = Append(profiles, doc) /\ profiles \in Seq(Profiles)
      BY <2>2 DEF Publishes, TypeOK
    <3> QED BY <3>1
  <2> QED BY <2>1, <2>2
<1>2. \A b \in Backups : backups[b] # NoBackup => backups'[b] = backups[b]
  BY DEF Records, TypeOK
<1>3. \A g \in Grants : grants[g] # NoGrant => grants'[g] = grants[g]
  BY DEF Issues, TypeOK
<1>4. \A x \in Restores : plans[x] # NoPlan => plans'[x] = plans[x]
  BY DEF Plans, TypeOK
<1>5. \A x \in Restores : store = "postgres" /\ results[x] # NoResult => results'[x] = results[x]
  BY DEF Completes, TypeOK
<1>6. \A a \in Attempts : attempts[a] # Never => attempts'[a] = attempts[a]
  BY DEF AttemptBecomesUncertain, TypeOK
<1> QED BY <1>1, <1>2, <1>3, <1>4, <1>5, <1>6

----------------------------------------------------------------------------
(* The rows refer to each other *)

\* a backup was recorded under the profile it names
BackupsInv ==
    \A b \in Backups : backups[b] # NoBackup =>
        /\ backups[b].point <= now
        /\ backups[b].revision \in 1..Len(profiles)
        /\ profiles[backups[b].revision].required \subseteq backups[b].components

GrantsInv == \A g \in Grants : grants[g] # NoGrant => ValidGrant(grants[g])

\* a plan was made for a backup of an earlier point
PlansInv ==
    \A x \in Restores : plans[x] # NoPlan =>
        /\ backups[plans[x].backup] # NoBackup
        /\ backups[plans[x].backup].revision = plans[x].revision
        /\ backups[plans[x].backup].point <= plans[x].failed
        /\ plans[x].failed <= now

ResultsInv ==
    \A x \in Restores : results[x] # NoResult => plans[x] # NoPlan /\ results[x].at <= now

\* Backups keep the profile they were recorded under.
LEMMA BackupsInductive ==
  ASSUME TypeOK, BackupsInv, Next
  PROVE  BackupsInv'
<1> USE ClockSteps, RowsStay
<1>1. SUFFICES ASSUME NEW b \in Backups, backups'[b] # NoBackup
               PROVE  /\ backups'[b].point <= now'
                      /\ backups'[b].revision \in 1..Len(profiles')
                      /\ profiles'[backups'[b].revision].required \subseteq backups'[b].components
  BY DEF BackupsInv
<1>2. CASE backups[b] # NoBackup
  <2>1. backups'[b] = backups[b] /\ backups[b] \in BackupManifest
    BY <1>2 DEF TypeOK
  <2>2. /\ backups[b].point <= now /\ backups[b].point \in Nat
        /\ backups[b].revision \in 1..Len(profiles)
        /\ profiles[backups[b].revision].required \subseteq backups[b].components
    BY <1>2, <2>1, RecoveryAssumption DEF BackupsInv, BackupManifest, Time
  <2> QED BY <2>1, <2>2
<1>3. CASE backups[b] = NoBackup
  <2>1. PICK manifest \in Manifests : Records(b, manifest)
    BY <1>1, <1>3, CatalogSteps DEF Records, TypeOK
  <2>2. /\ backups'[b] = manifest /\ profiles' = profiles /\ now' = now
        /\ Recordable(manifest, now)
    BY <2>1 DEF Records, TypeOK
  <2> QED BY <2>2 DEF Recordable, Effective
<1> QED BY <1>2, <1>3

\* Nobody approves a grant for themselves.
LEMMA GrantsInductive ==
  ASSUME TypeOK, GrantsInv, Next
  PROVE  GrantsInv'
<1>1. SUFFICES ASSUME NEW g \in Grants, grants'[g] # NoGrant PROVE ValidGrant(grants'[g])
  BY DEF GrantsInv
<1>2. CASE grants[g] # NoGrant
  BY <1>2, RowsStay DEF GrantsInv
<1>3. CASE grants[g] = NoGrant
  BY <1>1, <1>3, CatalogSteps DEF Issues, TypeOK
<1> QED BY <1>2, <1>3

\* A plan keeps its backup, which is older than the plan.
LEMMA PlansInductive ==
  ASSUME TypeOK, BackupsInv, PlansInv, Next
  PROVE  PlansInv'
<1>1. SUFFICES ASSUME NEW x \in Restores, plans'[x] # NoPlan
               PROVE  /\ backups'[plans'[x].backup] # NoBackup
                      /\ backups'[plans'[x].backup].revision = plans'[x].revision
                      /\ backups'[plans'[x].backup].point <= plans'[x].failed
                      /\ plans'[x].failed <= now'
  BY DEF PlansInv
<1>2. CASE plans[x] # NoPlan
  <2>1. plans'[x] = plans[x] /\ plans[x] \in RestorePlan
    BY <1>2, RowsStay DEF TypeOK
  <2>2. plans[x].backup \in Backups /\ plans[x].failed \in Nat
    BY <2>1, RecoveryAssumption DEF RestorePlan, Time
  <2>3. backups'[plans[x].backup] = backups[plans[x].backup]
    BY <1>2, <2>2, RowsStay DEF PlansInv
  <2> QED BY <1>2, <2>1, <2>2, <2>3, ClockSteps DEF PlansInv
<1>3. CASE plans[x] = NoPlan
  <2>1. PICK b \in Backups, g \in Grants, later \in Time : Plans(x, b, g, later)
    BY <1>1, <1>3, CatalogSteps DEF Plans, TypeOK
  <2>2. /\ plans'[x] = [backup |-> b, revision |-> backups[b].revision, grant |-> g, failed |-> later]
        /\ backups' = backups /\ backups[b] # NoBackup /\ now <= later /\ now' = later
    BY <2>1 DEF Plans, TypeOK, catalogVars
  <2>3. backups[b].point <= now /\ backups[b].point \in Nat /\ later \in Nat
    BY <2>2, RecoveryAssumption DEF BackupsInv, TypeOK, BackupManifest, Time
  <2> QED BY <2>2, <2>3, ClockSteps
<1> QED BY <1>2, <1>3

----------------------------------------------------------------------------
(* Results *)

\* What a result says, and what it takes to be promoted.
LEMMA ResultSays ==
  ASSUME NEW x, NEW scan, NEW profile, NEW at, NEW unresolved
  PROVE  /\ ResultOf(x, scan, profile, at, unresolved).at = at
         /\ ResultOf(x, scan, profile, at, unresolved).recovered = recoveries[x]
         /\ ResultOf(x, scan, profile, at, unresolved).scan = scan
         /\ ResultOf(x, scan, profile, at, unresolved).promoted =>
               /\ ~unresolved /\ scan.verified /\ gaps[x] = 0
               /\ ResultOf(x, scan, profile, at, unresolved).status = "verified"
               /\ plans[x].failed - backups[plans[x].backup].point <= profile.rpo
               /\ at - plans[x].failed <= profile.rto
<1> DEFINE rpo == plans[x].failed - backups[plans[x].backup].point
           rto == at - plans[x].failed
           earned == /\ scan.verified /\ ~unresolved /\ gaps[x] = 0
                     /\ rpo <= profile.rpo /\ rto <= profile.rto
           status == IF earned THEN "verified" ELSE IF scan.verified THEN "degraded" ELSE "failed"
           whole == gaps[x] = 0
           R == [restore |-> x, backup |-> plans[x].backup, status |-> status,
                 promoted |-> earned, rpo |-> rpo, rto |-> rto, scan |-> scan,
                 gapReconciled |-> whole, recovered |-> recoveries[x], at |-> at]
<1>1. ResultOf(x, scan, profile, at, unresolved) = R
  BY DEF ResultOf
<1>2. earned => /\ ~unresolved /\ scan.verified /\ gaps[x] = 0
                /\ rpo <= profile.rpo /\ rto <= profile.rto /\ status = "verified"
  OBVIOUS
<1> HIDE DEF rpo, rto, earned, status, whole
<1>3. /\ R.at = at /\ R.recovered = recoveries[x] /\ R.scan = scan /\ R.status = status
      /\ R.promoted <=> earned
  OBVIOUS
<1> HIDE DEF R
<1> QED BY <1>1, <1>2, <1>3 DEF rpo, rto

\* The parts of a result make a well-formed one.
LEMMA ResultParts ==
  ASSUME NEW x \in Restores, NEW b \in Backups, NEW status \in RestoreStatus,
         NEW earned \in BOOLEAN, NEW rpo \in Nat, NEW rto \in Nat,
         NEW scan \in IntegrityScanResult, NEW whole \in BOOLEAN,
         NEW found \in Recoveries, NEW at \in Time
  PROVE  [restore |-> x, backup |-> b, status |-> status, promoted |-> earned,
          rpo |-> rpo, rto |-> rto, scan |-> scan, gapReconciled |-> whole,
          recovered |-> found, at |-> at] \in RestoreResult
BY DEF RestoreResult

\* RPO and RTO of a result are not negative: the backup is older than the
\* plan, and the plan than the completion.
LEMMA ResultTyped ==
  ASSUME TypeOK, PlansInv, NEW x \in Restores, plans[x] # NoPlan, NEW scan \in scans,
         NEW profile, NEW at \in Time, now <= at, NEW unresolved
  PROVE  ResultOf(x, scan, profile, at, unresolved) \in RestoreResult
<1> DEFINE rpo == plans[x].failed - backups[plans[x].backup].point
           rto == at - plans[x].failed
           earned == /\ scan.verified /\ ~unresolved /\ gaps[x] = 0
                     /\ rpo <= profile.rpo /\ rto <= profile.rto
           status == IF earned THEN "verified" ELSE IF scan.verified THEN "degraded" ELSE "failed"
           whole == gaps[x] = 0
<1>1. plans[x] \in RestorePlan /\ scan \in IntegrityScanResult /\ recoveries[x] \in Recoveries
  BY DEF TypeOK
<1>2. plans[x].backup \in Backups /\ plans[x].failed \in Nat /\ at \in Nat /\ now \in Nat
  BY <1>1, RecoveryAssumption DEF RestorePlan, Time, TypeOK
<1>3. backups[plans[x].backup] \in BackupManifest
  BY <1>2 DEF TypeOK, PlansInv
<1>4. backups[plans[x].backup].point \in Nat
  BY <1>3, RecoveryAssumption DEF BackupManifest, Time
<1>5. rpo \in Nat /\ rto \in Nat
  BY <1>2, <1>4 DEF PlansInv
<1>6. earned \in BOOLEAN /\ whole \in BOOLEAN
  OBVIOUS
<1>7. status \in RestoreStatus
  BY DEF RestoreStatus
<1>8. ResultOf(x, scan, profile, at, unresolved)
        = [restore |-> x, backup |-> plans[x].backup, status |-> status, promoted |-> earned,
           rpo |-> rpo, rto |-> rto, scan |-> scan, gapReconciled |-> whole,
           recovered |-> recoveries[x], at |-> at]
  BY DEF ResultOf
<1> HIDE DEF rpo, rto, earned, status, whole
<1> QED BY <1>1, <1>2, <1>5, <1>6, <1>7, <1>8, ResultParts

\* A result that changes is that of a completion.
LEMMA NewResult ==
  ASSUME TypeOK, Next, NEW x \in Restores, results'[x] # results[x]
  PROVE  \E scan \in scans, later \in Time, i \in 1..Len(profiles), unresolved \in BOOLEAN :
            Completes(x, scan, i, later, unresolved)
<1>1. PICK y \in Restores, scan \in scans, later \in Time, i \in 1..Len(profiles),
           unresolved \in BOOLEAN : Completes(y, scan, i, later, unresolved)
  BY CatalogSteps
<1>2. y = x
  BY <1>1 DEF Completes, TypeOK
<1> QED BY <1>1, <1>2

\* A result belongs to a plan and is not from the future.
LEMMA ResultsInductive ==
  ASSUME TypeOK, ResultsInv, Next
  PROVE  ResultsInv'
<1>1. SUFFICES ASSUME NEW x \in Restores, results'[x] # NoResult
               PROVE  plans'[x] # NoPlan /\ results'[x].at <= now'
  BY DEF ResultsInv
<1>2. CASE results'[x] = results[x]
  <2>1. results[x] \in RestoreResult /\ results[x].at <= now /\ plans[x] # NoPlan
    BY <1>1, <1>2 DEF ResultsInv, TypeOK
  <2>2. results[x].at \in Nat
    BY <2>1, RecoveryAssumption DEF RestoreResult, Time
  <2> QED BY <1>2, <2>1, <2>2, ClockSteps, RowsStay
<1>3. CASE results'[x] # results[x]
  <2>1. PICK scan \in scans, later \in Time, i \in 1..Len(profiles), unresolved \in BOOLEAN :
               Completes(x, scan, i, later, unresolved)
    BY <1>3, NewResult
  <2>2. /\ results'[x] = ResultOf(x, scan, profiles[i], later, unresolved)
        /\ plans[x] # NoPlan /\ plans' = plans /\ now' = later
    BY <2>1 DEF Completes, TypeOK
  <2> QED BY <2>2, ResultSays, ClockSteps
<1> QED BY <1>2, <1>3

\* A promotion keeps the targets of the profile it was planned under.
LEMMA MeetsInductive ==
  ASSUME TypeOK, BackupsInv, PlansInv, ResultsInv, PromotionMeetsItsProfile, Next
  PROVE  PromotionMeetsItsProfile'
<1>1. SUFFICES ASSUME NEW x \in Restores, store' = "postgres", Promoted(x)'
               PROVE  /\ backups'[plans'[x].backup].revision = plans'[x].revision
                      /\ profiles'[plans'[x].revision].required
                            \subseteq backups'[plans'[x].backup].components
                      /\ plans'[x].failed - backups'[plans'[x].backup].point
                            <= profiles'[plans'[x].revision].rpo
                      /\ results'[x].at - plans'[x].failed <= profiles'[plans'[x].revision].rto
  BY DEF PromotionMeetsItsProfile
<1> DEFINE backup == backups[plans[x].backup]
           profile == profiles[plans[x].revision]
<1>2. plans[x] # NoPlan
  <2>1. CASE results[x] # NoResult
    BY <2>1 DEF ResultsInv
  <2>2. CASE results[x] = NoResult
    BY <1>1, <2>2, CatalogSteps DEF Completes, TypeOK, Promoted
  <2> QED BY <2>1, <2>2
<1>3. plans'[x] = plans[x] /\ plans[x].backup \in Backups
  <2>1. plans[x] \in RestorePlan
    BY <1>2 DEF TypeOK
  <2> QED BY <1>2, <2>1, RowsStay DEF RestorePlan
<1>4. backup # NoBackup /\ backup.revision = plans[x].revision
  BY <1>2 DEF PlansInv
<1>5. /\ backups'[plans[x].backup] = backup
      /\ plans[x].revision \in 1..Len(profiles)
      /\ profiles'[plans[x].revision] = profile
      /\ profile.required \subseteq backup.components
  BY <1>3, <1>4, RowsStay DEF BackupsInv
<1>6. /\ plans[x].failed - backup.point <= profile.rpo
      /\ results'[x].at - plans[x].failed <= profile.rto
  <2>1. CASE results'[x] = results[x]
    BY <1>1, <2>1, CatalogSteps DEF Promoted, PromotionMeetsItsProfile
  <2>2. CASE results'[x] # results[x]
    <3>1. PICK scan \in scans, later \in Time, i \in 1..Len(profiles), unresolved \in BOOLEAN :
                 Completes(x, scan, i, later, unresolved)
      BY <2>2, NewResult
    <3>2. results'[x] = ResultOf(x, scan, profile, later, unresolved)
      BY <1>1, <3>1 DEF Completes, TypeOK
    <3>3. ResultOf(x, scan, profile, later, unresolved).promoted
      BY <1>1, <3>2 DEF Promoted
    <3> QED BY <3>2, <3>3, ResultSays
  <2> QED BY <2>1, <2>2
<1> QED BY <1>3, <1>4, <1>5, <1>6

\* An attempt left uncertain before a promotion is settled in its result.
LEMMA ReconciledInductive ==
  ASSUME TypeOK, ResultsInv, PromotionReconciledUncertainty, Next
  PROVE  PromotionReconciledUncertainty'
<1>1. SUFFICES ASSUME NEW x \in Restores, store' = "postgres", Promoted(x)',
                      NEW a \in Attempts, attempts'[a] # Never, attempts'[a] < results'[x].at
               PROVE  /\ a \in DOMAIN results'[x].recovered
                      /\ results'[x].recovered[a] \notin Inconclusive
  BY DEF PromotionReconciledUncertainty
<1>2. CASE results'[x] = results[x]
  <2>1. results[x] # NoResult /\ results[x].promoted /\ store = "postgres"
    BY <1>1, <1>2, CatalogSteps DEF Promoted
  <2>2. results[x].at <= now /\ results[x].at \in Nat /\ now \in Nat
    <3>1. results[x] \in RestoreResult
      BY <2>1 DEF TypeOK
    <3> QED BY <2>1, <3>1, ClockSteps, RecoveryAssumption DEF ResultsInv, RestoreResult, Time
  <2>3. attempts[a] # Never
    <3>1. SUFFICES ASSUME attempts[a] = Never PROVE FALSE
      OBVIOUS
    <3>2. attempts'[a] = now
      BY <1>1, <3>1, CatalogSteps DEF AttemptBecomesUncertain, TypeOK
    <3> QED BY <1>1, <1>2, <2>2, <3>2
  <2>4. attempts'[a] = attempts[a]
    BY <2>3, RowsStay
  <2> QED BY <1>1, <1>2, <2>1, <2>3, <2>4 DEF PromotionReconciledUncertainty, Promoted
<1>3. CASE results'[x] # results[x]
  <2>1. PICK scan \in scans, later \in Time, i \in 1..Len(profiles), unresolved \in BOOLEAN :
               Completes(x, scan, i, later, unresolved)
    BY <1>3, NewResult
  <2>2. /\ results'[x] = ResultOf(x, scan, profiles[i], later, unresolved)
        /\ unresolved = Unresolved(x) /\ attempts' = attempts
    BY <1>1, <2>1 DEF Completes, TypeOK
  <2>3. results'[x].promoted
    BY <1>1 DEF Promoted
  <2>4. ~Unresolved(x) /\ results'[x].recovered = recoveries[x]
    BY <2>2, <2>3, ResultSays
  <2>5. a \in Uncertain
    BY <1>1, <2>2 DEF Uncertain
  <2> QED BY <2>4, <2>5 DEF Unresolved
<1> QED BY <1>2, <1>3

----------------------------------------------------------------------------
(* Integrity scans, and what a promotion rests on *)

\* a scan that verified found the chain, the anchor, the checkpoint and the
\* objects in order
ScansInv ==
    \A scan \in scans : scan.verified => scan.chain /\ scan.anchor /\ scan.checkpoint /\ scan.objects

\* The parts of a scan make a well-formed one.
LEMMA ScanParts ==
  ASSUME NEW x \in Restores, NEW chain \in BOOLEAN, NEW anchor \in BOOLEAN,
         NEW checkpoint \in BOOLEAN, NEW objects \in BOOLEAN, NEW verified \in BOOLEAN
  PROVE  [restore |-> x, chain |-> chain, anchor |-> anchor, checkpoint |-> checkpoint,
          objects |-> objects, verified |-> verified] \in IntegrityScanResult
BY DEF IntegrityScanResult

\* What the verifier reports about one restored site.
LEMMA ScanSays ==
  ASSUME NEW manifest, NEW x \in Restores, NEW obs \in Observations
  PROVE  /\ Verify(manifest, x, obs) \in IntegrityScanResult
         /\ Verify(manifest, x, obs).verified =>
               /\ Verify(manifest, x, obs).chain /\ Verify(manifest, x, obs).anchor
               /\ Verify(manifest, x, obs).checkpoint /\ Verify(manifest, x, obs).objects
<1> DEFINE seen == (manifest.components \cap obs.seen) \ obs.altered
           checkpoint == obs.checkpoint /\ (obs.anchor => obs.signature)
           objects == ObjectStore \in manifest.components => ObjectStore \in seen
           verified == /\ seen = manifest.components /\ obs.seen \subseteq manifest.components
                       /\ obs.chain /\ obs.anchor /\ checkpoint /\ objects
           S == [restore |-> x, chain |-> obs.chain, anchor |-> obs.anchor,
                 checkpoint |-> checkpoint, objects |-> objects, verified |-> verified]
<1>1. Verify(manifest, x, obs) = S
  BY DEF Verify
<1>2. obs \in Observation
  BY RecoveryAssumption
<1>3. obs.chain \in BOOLEAN /\ obs.anchor \in BOOLEAN
  BY <1>2 DEF Observation
<1>4. checkpoint \in BOOLEAN /\ objects \in BOOLEAN /\ verified \in BOOLEAN
  OBVIOUS
<1>5. verified => obs.chain /\ obs.anchor /\ checkpoint /\ objects
  OBVIOUS
<1> HIDE DEF seen, checkpoint, objects, verified
<1>6. S \in IntegrityScanResult
  BY <1>3, <1>4, ScanParts
<1>7. /\ S.chain = obs.chain /\ S.anchor = obs.anchor /\ S.checkpoint = checkpoint
      /\ S.objects = objects /\ S.verified = verified
  OBVIOUS
<1> HIDE DEF S
<1> QED BY <1>1, <1>5, <1>6, <1>7

\* Scans only accumulate, gaps are recorded once, results name their scan.
LEMMA EvidenceSteps ==
  ASSUME TypeOK, Next
  PROVE  /\ \/ \E x \in Restores, obs \in Observations : Scans(x, obs)
            \/ scans' = scans
         /\ \/ \E x \in Restores, unresolved \in 0..1 : RecordsGap(x, unresolved)
            \/ gaps' = gaps
         /\ \/ \E c \in Calls, x \in Restores, new \in Recoveries : Ends(c, x, new)
            \/ recoveries' = recoveries
         /\ \/ \E exercise \in GameDayExercise : Exercises(exercise)
            \/ exercises' = exercises
BY Steps DEF Publishes, Records, Issues, Revokes, OnlyUses, Plans, Scans, RecordsGap, Completes,
   AttemptBecomesUncertain, Begins, Ends, AbandonReconcile, Exercises, Tick, catalogVars,
   grantVars, stageVars

\* Every scan on record was made by the verifier.
LEMMA ScansInductive ==
  ASSUME TypeOK, ScansInv, Next
  PROVE  ScansInv' /\ scans \subseteq scans'
<1>1. ASSUME NEW x \in Restores, NEW obs \in Observations, Scans(x, obs)
      PROVE  ScansInv' /\ scans \subseteq scans'
  <2> DEFINE new == Verify(backups[plans[x].backup], x, obs)
  <2>1. scans' = scans \cup {new}
    BY <1>1 DEF Scans
  <2>2. new.verified => new.chain /\ new.anchor /\ new.checkpoint /\ new.objects
    BY ScanSays
  <2> HIDE DEF new
  <2> QED BY <2>1, <2>2 DEF ScansInv
<1>2. CASE scans' = scans
  BY <1>2 DEF ScansInv
<1> QED BY <1>1, <1>2, EvidenceSteps

\* A promotion keeps the evidence it was earned with.
LEMMA EarnedInductive ==
  ASSUME TypeOK, ScansInv, PromotionIsEarned, Next
  PROVE  PromotionIsEarned'
<1>1. SUFFICES ASSUME NEW x \in Restores, Promoted(x)'
               PROVE  /\ results'[x].status = "verified"
                      /\ results'[x].scan \in scans' /\ results'[x].scan.restore = x
                      /\ results'[x].scan.chain /\ results'[x].scan.anchor
                      /\ results'[x].scan.checkpoint /\ results'[x].scan.objects
                      /\ gaps'[x] = 0
                      /\ \A a \in DOMAIN results'[x].recovered :
                            results'[x].recovered[a] \notin Inconclusive
  BY DEF PromotionIsEarned
<1>2. scans \subseteq scans' /\ (gaps[x] = 0 => gaps'[x] = 0)
  BY ScansInductive, EvidenceSteps, RecoveryAssumption DEF RecordsGap, TypeOK
<1>3. CASE results'[x] = results[x]
  BY <1>1, <1>2, <1>3 DEF PromotionIsEarned, Promoted
<1>4. CASE results'[x] # results[x]
  <2>1. PICK scan \in scans, later \in Time, i \in 1..Len(profiles), unresolved \in BOOLEAN :
               Completes(x, scan, i, later, unresolved)
    BY <1>4, NewResult
  <2>2. /\ results'[x] = ResultOf(x, scan, profiles[i], later, unresolved)
        /\ scan.restore = x
        /\ ~unresolved => \A a \in DOMAIN recoveries[x] : recoveries[x][a] \notin Inconclusive
    BY <2>1 DEF Completes, TypeOK
  <2>3. results'[x].promoted
    BY <1>1 DEF Promoted
  <2>4. /\ results'[x].scan = scan /\ results'[x].recovered = recoveries[x]
        /\ ~unresolved /\ scan.verified /\ gaps[x] = 0 /\ results'[x].status = "verified"
    BY <2>2, <2>3, ResultSays
  <2>5. scan.chain /\ scan.anchor /\ scan.checkpoint /\ scan.objects
    BY <2>4 DEF ScansInv
  <2> QED BY <1>2, <2>2, <2>4, <2>5
<1> QED BY <1>3, <1>4

----------------------------------------------------------------------------
(* Types *)

\* a reconciliation is under way for a planned restore
CallsInv == \A c \in Calls : calls[c] # NoCall => plans[calls[c].restore] # NoPlan

\* A reconciliation under way keeps its plan.
LEMMA CallsInductive ==
  ASSUME TypeOK, CallsInv, Next
  PROVE  CallsInv' /\ calls' \in [Calls -> Call \cup {NoCall}]
<1>1. \A c \in Calls : calls[c] \in Call \cup {NoCall}
  BY DEF TypeOK, Call
<1>2. \A call \in Call : call.restore \in Restores
  BY DEF Call
<1>3. ASSUME NEW c \in Calls, calls[c] # NoCall PROVE plans'[calls[c].restore] # NoPlan
  BY <1>1, <1>2, <1>3, RowsStay DEF CallsInv
<1>4. CASE calls' = calls
  BY <1>3, <1>4 DEF CallsInv, TypeOK, Call
<1>5. ASSUME NEW c \in Calls, NEW x \in Restores, NEW seen \in SUBSET Attempts, Begins(c, x, seen)
      PROVE  CallsInv' /\ calls' \in [Calls -> Call \cup {NoCall}]
  <2> DEFINE new == [restore |-> x, seen |-> seen]
  <2>1. new \in Call /\ new.restore = x
    BY DEF Call
  <2>2. calls' = [calls EXCEPT ![c] = new] /\ plans' = plans /\ plans[x] # NoPlan
    BY <1>5 DEF Begins, stageVars
  <2> HIDE DEF new
  <2>3. calls \in [Calls -> Call \cup {NoCall}]
    BY DEF TypeOK, Call
  <2> QED BY <1>3, <2>1, <2>2, <2>3 DEF CallsInv
<1>6. ASSUME NEW c \in Calls, calls' = [calls EXCEPT ![c] = NoCall]
      PROVE  CallsInv' /\ calls' \in [Calls -> Call \cup {NoCall}]
  <2>1. calls \in [Calls -> Call \cup {NoCall}]
    BY DEF TypeOK, Call
  <2> QED BY <1>3, <1>6, <2>1 DEF CallsInv
<1>7. \/ calls' = calls
      \/ \E c \in Calls, x \in Restores, seen \in SUBSET Attempts : Begins(c, x, seen)
      \/ \E c \in Calls : calls' = [calls EXCEPT ![c] = NoCall]
  BY Steps DEF Publishes, Records, Issues, Revokes, OnlyUses, Plans, Scans, RecordsGap, Completes,
     AttemptBecomesUncertain, Ends, AbandonReconcile, Exercises, Tick
<1> QED BY <1>4, <1>5, <1>6, <1>7

\* Every step keeps the types of the tables.
LEMMA Typed ==
  ASSUME TypeOK, PlansInv, CallsInv, Next
  PROVE  TypeOK'
<1>1. CatalogTypes'
  <2>1. profiles' \in Seq(Profiles)
    <3>1. ASSUME NEW doc \in Profiles, Publishes(doc) PROVE profiles' \in Seq(Profiles)
      <4>1. profiles' = Append(profiles, doc) /\ profiles \in Seq(Profiles)
        BY <3>1 DEF Publishes, TypeOK
      <4> QED BY <4>1
    <3> QED BY <3>1, CatalogSteps DEF TypeOK
  <2>2. backups' \in [Backups -> BackupManifest \cup {NoBackup}]
    BY CatalogSteps, RecoveryAssumption DEF Records, TypeOK
  <2> QED BY <2>1, <2>2, CatalogSteps, ClockSteps DEF CatalogTypes, TypeOK
<1>2. GrantTypes'
  <2>1. grants' \in [Grants -> BreakGlassGrant \cup {NoGrant}]
    BY CatalogSteps DEF Issues, TypeOK
  <2>2. revoked' = revoked \/ \E g \in Grants : revoked' = revoked \cup {g}
    BY Steps DEF Publishes, Records, Issues, Revokes, OnlyUses, Plans, Scans, RecordsGap, Completes,
       AttemptBecomesUncertain, Begins, Ends, AbandonReconcile, Exercises, Tick, grantVars
  <2>3. \/ uses' = uses
        \/ \E g \in Grants, capability \in BreakGlassCapability : UseWith(g, capability)
    <3>1. ASSUME NEW x \in Restores, plans[x] # NoPlan PROVE plans[x].grant \in Grants
      <4>1. plans[x] \in RestorePlan
        BY <3>1 DEF TypeOK
      <4> QED BY <4>1 DEF RestorePlan
    <3>2. DirectUses \subseteq BreakGlassCapability
          /\ {"restore", "failover", "integrity_scan", "reconcile"} \subseteq BreakGlassCapability
      BY RecoveryAssumption DEF BreakGlassCapability
    <3>3. ASSUME NEW c \in Calls, NEW x \in Restores, NEW new \in Recoveries, Ends(c, x, new)
          PROVE  uses' = uses \/ \E capability \in BreakGlassCapability :
                                    \E g \in Grants : UseWith(g, capability)
      <4>1. CASE store = "standalone" /\ uses' = uses
        BY <4>1
      <4>2. CASE Uses(plans[x].grant, "reconcile")
        <5>1. plans[x].grant \in Grants
          BY <3>1, <3>3 DEF Ends, CallsInv
        <5> QED BY <3>2, <4>2, <5>1 DEF Uses
      <4> QED BY <3>3, <4>1, <4>2 DEF Ends
    <3> QED
      BY <3>1, <3>2, <3>3, Steps DEF Publishes, Records, Issues, Revokes, OnlyUses, Plans, Scans,
         RecordsGap, Completes, AttemptBecomesUncertain, Begins, AbandonReconcile, Exercises,
         Tick, Uses
  <2>4. uses' \in [Grants -> SUBSET BreakGlassCapability]
    BY <2>3 DEF UseWith, TypeOK
  <2> QED BY <2>1, <2>2, <2>4 DEF GrantTypes, TypeOK
<1>3. StageTypes'
  <2>1. plans' \in [Restores -> RestorePlan \cup {NoPlan}]
    <3>1. ASSUME NEW x \in Restores, NEW b \in Backups, NEW g \in Grants, NEW later \in Time,
                 Plans(x, b, g, later)
          PROVE  plans' \in [Restores -> RestorePlan \cup {NoPlan}]
      <4> DEFINE new == [backup |-> b, revision |-> backups[b].revision, grant |-> g, failed |-> later]
      <4>1. plans' = [plans EXCEPT ![x] = new] /\ backups[b] \in BackupManifest
        BY <3>1 DEF Plans, TypeOK
      <4>2. new \in RestorePlan
        BY <4>1 DEF RestorePlan, BackupManifest
      <4> HIDE DEF new
      <4> QED BY <4>1, <4>2 DEF TypeOK
    <3> QED BY <3>1, CatalogSteps DEF TypeOK
  <2>2. scans' \subseteq IntegrityScanResult
    BY EvidenceSteps, ScanSays DEF Scans, TypeOK
  <2>3. gaps' \in [Restores -> Nat \cup {NoGap}]
    BY EvidenceSteps DEF RecordsGap, TypeOK
  <2> QED BY <2>1, <2>2, <2>3 DEF StageTypes
<1>4. CallTypes'
  <2>1. attempts' \in [Attempts -> Time \cup {Never}]
    BY CatalogSteps DEF AttemptBecomesUncertain, TypeOK
  <2>2. recoveries' \in [Restores -> Recoveries]
    BY EvidenceSteps DEF Ends, TypeOK
  <2> QED BY <2>1, <2>2, CallsInductive DEF CallTypes
<1>5. ResultTypes'
  <2>1. results' \in [Restores -> RestoreResult \cup {NoResult}]
    <3>1. ASSUME NEW x \in Restores, NEW scan \in scans, NEW later \in Time,
                 NEW i \in 1..Len(profiles), NEW unresolved \in BOOLEAN,
                 Completes(x, scan, i, later, unresolved)
          PROVE  results' \in [Restores -> RestoreResult \cup {NoResult}]
      <4>1. /\ results' = [results EXCEPT ![x] = ResultOf(x, scan, profiles[i], later, unresolved)]
            /\ plans[x] # NoPlan /\ now <= later
        BY <3>1 DEF Completes
      <4>2. ResultOf(x, scan, profiles[i], later, unresolved) \in RestoreResult
        BY <4>1, ResultTyped
      <4> QED BY <4>1, <4>2 DEF TypeOK
    <3> QED BY <3>1, CatalogSteps DEF TypeOK
  <2>2. exercises' \subseteq GameDayExercise
    BY EvidenceSteps DEF Exercises, TypeOK
  <2> QED BY <2>1, <2>2 DEF ResultTypes
<1> QED BY <1>1, <1>2, <1>3, <1>4, <1>5 DEF TypeOK, CatalogTypes, GrantTypes, StageTypes,
           CallTypes, ResultTypes, Call

----------------------------------------------------------------------------
(* What a step may do to a restore *)

\* what StagesAreLive says of one step
StagesLive ==
    store = "postgres" => \A x \in Restores :
        plans'[x] # plans[x] \/ recoveries'[x] # recoveries[x] \/ gaps'[x] # gaps[x]
            \/ results'[x] # results[x]
        => LET g == plans'[x].grant IN
           g \notin revoked /\ now < grants[g].expires /\ grants[g].operator # grants[g].approver

\* what EvidenceIsFinal says of one step
EvidenceFinal ==
    store = "postgres" => \A x \in Restores :
        /\ plans[x] # NoPlan => plans'[x] = plans[x]
        /\ gaps[x] # NoGap => gaps'[x] = gaps[x]
        /\ results[x] # NoResult => results'[x] = results[x]
        /\ \A a \in DOMAIN recoveries[x] :
              a \in DOMAIN recoveries'[x] /\ recoveries'[x][a] = recoveries[x][a]

\* A stage is recorded under a live grant of two people.
LEMMA LiveStep ==
  ASSUME TypeOK, GrantsInv, CallsInv, Next
  PROVE  StagesLive
<1> SUFFICES ASSUME store = "postgres", NEW x \in Restores,
                    \/ plans'[x] # plans[x] \/ recoveries'[x] # recoveries[x]
                    \/ gaps'[x] # gaps[x] \/ results'[x] # results[x]
             PROVE  /\ plans'[x].grant \notin revoked
                    /\ now < grants[plans'[x].grant].expires
                    /\ grants[plans'[x].grant].operator # grants[plans'[x].grant].approver
  BY DEF StagesLive
<1>1. ASSUME NEW g \in Grants, NEW capability, Uses(g, capability)
      PROVE  g \notin revoked /\ now < grants[g].expires /\ grants[g].operator # grants[g].approver
  BY <1>1 DEF Uses, Live, GrantsInv, ValidGrant
<1>2. ASSUME plans[x] # NoPlan PROVE plans[x].grant \in Grants /\ plans'[x] = plans[x]
  <2>1. plans[x] \in RestorePlan
    BY <1>2 DEF TypeOK
  <2> QED BY <1>2, <2>1, RowsStay DEF RestorePlan
<1>3. CASE plans'[x] # plans[x]
  <2>1. PICK b \in Backups, g \in Grants, later \in Time : Plans(x, b, g, later)
    <3>1. PICK y \in Restores, b \in Backups, g \in Grants, later \in Time : Plans(y, b, g, later)
      BY <1>3, CatalogSteps
    <3>2. y = x
      BY <1>3, <3>1 DEF Plans, TypeOK
    <3> QED BY <3>1, <3>2
  <2>2. plans'[x].grant = g /\ Uses(g, "restore")
    <3>1. plans'[x] = [backup |-> b, revision |-> backups[b].revision, grant |-> g, failed |-> later]
      BY <2>1 DEF Plans, TypeOK
    <3> QED BY <2>1, <3>1 DEF Plans
  <2> QED BY <1>1, <2>2
<1>4. CASE gaps'[x] # gaps[x]
  <2>1. plans[x] # NoPlan /\ Uses(plans[x].grant, "reconcile")
    BY <1>4, EvidenceSteps DEF RecordsGap, TypeOK
  <2> QED BY <1>1, <1>2, <2>1
<1>5. CASE results'[x] # results[x]
  <2>1. plans[x] # NoPlan /\ Uses(plans[x].grant, "failover")
    BY <1>5, NewResult DEF Completes
  <2> QED BY <1>1, <1>2, <2>1
<1>6. CASE recoveries'[x] # recoveries[x]
  <2>1. PICK c \in Calls, y \in Restores, new \in Recoveries : Ends(c, y, new)
    BY <1>6, EvidenceSteps
  <2>2. y = x
    BY <1>6, <2>1 DEF Ends, TypeOK
  <2>3. plans[x] # NoPlan /\ Uses(plans[x].grant, "reconcile")
    BY <2>1, <2>2 DEF Ends, CallsInv
  <2> QED BY <1>1, <1>2, <2>3
<1> QED BY <1>3, <1>4, <1>5, <1>6

\* Recovery evidence of the durable store is not rewritten.
LEMMA FinalStep ==
  ASSUME TypeOK, Next
  PROVE  EvidenceFinal
<1> SUFFICES ASSUME store = "postgres", NEW x \in Restores
             PROVE  /\ plans[x] # NoPlan => plans'[x] = plans[x]
                    /\ gaps[x] # NoGap => gaps'[x] = gaps[x]
                    /\ results[x] # NoResult => results'[x] = results[x]
                    /\ \A a \in DOMAIN recoveries[x] :
                          a \in DOMAIN recoveries'[x] /\ recoveries'[x][a] = recoveries[x][a]
  BY DEF EvidenceFinal
<1>1. gaps[x] # NoGap => gaps'[x] = gaps[x]
  BY EvidenceSteps DEF RecordsGap, TypeOK
<1>2. ASSUME NEW c \in Calls, NEW y \in Restores, NEW new \in Recoveries, Ends(c, y, new)
      PROVE  \A a \in DOMAIN recoveries[x] :
                a \in DOMAIN recoveries'[x] /\ recoveries'[x][a] = recoveries[x][a]
  <2>1. CASE y = x
    <3>1. recoveries'[x] = new
      BY <1>2, <2>1 DEF Ends, TypeOK
    <3> QED BY <1>2, <2>1, <3>1 DEF Ends
  <2>2. CASE y # x
    BY <1>2, <2>2 DEF Ends, TypeOK
  <2> QED BY <2>1, <2>2
<1>3. \A a \in DOMAIN recoveries[x] :
         a \in DOMAIN recoveries'[x] /\ recoveries'[x][a] = recoveries[x][a]
  BY <1>2, EvidenceSteps
<1> QED BY <1>1, <1>3, RowsStay

----------------------------------------------------------------------------
(* The theorems *)

IInv ==
    /\ TypeOK
    /\ BackupsInv /\ GrantsInv /\ PlansInv /\ ResultsInv /\ ScansInv /\ CallsInv
    /\ PromotionIsEarned /\ PromotionMeetsItsProfile /\ PromotionReconciledUncertainty

\* Every store starts with empty tables.
LEMMA Initially == Init => IInv
<1> SUFFICES ASSUME Init PROVE IInv
  OBVIOUS
<1>1. <<>> \in Recoveries
  <2>1. <<>> = [a \in {} |-> "unverifiable"]
    OBVIOUS
  <2>2. [a \in {} |-> "unverifiable"] \in [{} -> UncertainRecoveryDisposition]
    OBVIOUS
  <2>3. {} \in SUBSET Attempts
    OBVIOUS
  <2> QED BY <2>1, <2>2, <2>3 DEF Recoveries
<1>2. TypeOK
  BY <1>1, RecoveryAssumption DEF Init, TypeOK, Time
<1>3. BackupsInv /\ GrantsInv /\ PlansInv /\ ResultsInv /\ ScansInv /\ CallsInv
  BY DEF Init, BackupsInv, GrantsInv, PlansInv, ResultsInv, ScansInv, CallsInv
<1>4. PromotionIsEarned /\ PromotionMeetsItsProfile /\ PromotionReconciledUncertainty
  BY DEF Init, Promoted, PromotionIsEarned, PromotionMeetsItsProfile, PromotionReconciledUncertainty
<1> QED BY <1>2, <1>3, <1>4 DEF IInv

\* IInv is inductive.
LEMMA Inductive == IInv /\ [Next]_vars => IInv'
<1> SUFFICES ASSUME IInv, [Next]_vars PROVE IInv'
  OBVIOUS
<1> USE DEF IInv
<1>1. CASE Next
  <2>1. TypeOK' /\ BackupsInv' /\ GrantsInv' /\ PlansInv' /\ ResultsInv' /\ ScansInv' /\ CallsInv'
    BY <1>1, Typed, BackupsInductive, GrantsInductive, PlansInductive, ResultsInductive,
       ScansInductive, CallsInductive
  <2>2. PromotionIsEarned' /\ PromotionMeetsItsProfile' /\ PromotionReconciledUncertainty'
    BY <1>1, EarnedInductive, MeetsInductive, ReconciledInductive
  <2> QED BY <2>1, <2>2
<1>2. CASE UNCHANGED vars
  <2> USE <1>2 DEF vars, catalogVars, grantVars, stageVars
  <2>1. TypeOK'
    BY DEF TypeOK
  <2>2. BackupsInv' /\ GrantsInv' /\ PlansInv' /\ ResultsInv' /\ ScansInv' /\ CallsInv'
    BY DEF BackupsInv, GrantsInv, PlansInv, ResultsInv, ScansInv, CallsInv
  <2>3. PromotionIsEarned' /\ PromotionMeetsItsProfile' /\ PromotionReconciledUncertainty'
    BY DEF Promoted, PromotionIsEarned, PromotionMeetsItsProfile, PromotionReconciledUncertainty
  <2> HIDE <1>2 DEF vars, catalogVars, grantVars, stageVars
  <2> QED BY <2>1, <2>2, <2>3
<1> QED BY <1>1, <1>2

\* The inductive invariant holds in every reachable state of both stores.
THEOREM Invariance == Spec => []IInv
BY Initially, Inductive, PTL DEF Spec

\* Typing: the tables keep their types and no RPO or RTO is negative.
THEOREM Typing == Spec => []TypeOK
<1>1. IInv => TypeOK
  BY DEF IInv
<1> QED BY <1>1, Invariance, PTL

\* A promotion rests on a full scan, a reconciled gap and conclusive findings
\* of its own restore (complete_restore of both stores).
THEOREM PromotionsAreEarned == Spec => []PromotionIsEarned
<1>1. IInv => PromotionIsEarned
  BY DEF IInv
<1> QED BY <1>1, Invariance, PTL

\* A durable promotion met the targets of the one profile its backup, plan
\* and completion share.
THEOREM TargetsAreMet == Spec => []PromotionMeetsItsProfile
<1>1. IInv => PromotionMeetsItsProfile
  BY DEF IInv
<1> QED BY <1>1, Invariance, PTL

\* Every attempt left uncertain before a durable promotion was settled.
THEOREM UncertaintyIsSettled == Spec => []PromotionReconciledUncertainty
<1>1. IInv => PromotionReconciledUncertainty
  BY DEF IInv
<1> QED BY <1>1, Invariance, PTL

\* No stage is recorded under a revoked, expired or self-approved grant
\* (_record_break_glass_use in every stage's own transaction).
THEOREM AuthorityIsLive == Spec => StagesAreLive
<1>1. IInv /\ Next => StagesLive
  BY LiveStep DEF IInv
<1>2. IInv /\ [Next]_vars => [StagesLive]_vars
  BY <1>1
<1> QED BY <1>2, Invariance, PTL DEF Spec, StagesAreLive, StagesLive

\* Plans, gaps, results and findings of the durable store are append-only.
THEOREM EvidenceStays == Spec => EvidenceIsFinal
<1>1. IInv /\ Next => EvidenceFinal
  BY FinalStep DEF IInv
<1>2. IInv /\ [Next]_vars => [EvidenceFinal]_vars
  BY <1>1
<1> QED BY <1>2, Invariance, PTL DEF Spec, EvidenceIsFinal, EvidenceFinal
=============================================================================
