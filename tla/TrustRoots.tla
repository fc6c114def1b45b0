----------------------------- MODULE TrustRoots -----------------------------
(***************************************************************************)
(* The trust-root history and the evidence-transfer receipts of the        *)
(* durable governance store. A root is one row of governance_trust_roots,  *)
(* its revision the index; retired = 0 stands for a null retired_at.       *)
(***************************************************************************)
EXTENDS Governance

GovernedTrustRoot ==
    [doc: TrustPolicies, activated: Time, retired: 0..MaxTime, request: Requests]

EvidenceTransferManifest == [archive: Packages, bundle: Bundles, schema: SchemaVersions]

EvidenceTransferVerification == [transfer: Transfers, manifest: EvidenceTransferManifest]

\* report stands for verification_sha256, the digest of the whole report
EvidenceImportReceipt ==
    [transfer: Transfers, archive: Packages, schema: SchemaVersions,
     report: EvidenceTransferVerification]

ASSUME TrustRootAssumption ==
    /\ TrustedKeys \in [TrustPolicies -> SUBSET Keys]
    /\ BundleOf \in [Packages -> Bundles] /\ Sound \subseteq Packages
    /\ SchemaVersions \subseteq Nat \ {0} /\ MinSchema \in Nat /\ CurrentSchema \in Nat
    /\ NoTransfer \notin EvidenceTransferManifest

----------------------------------------------------------------------------
(* Trust roots *)

NewRoot(doc, activated, r) ==
    [doc |-> doc, activated |-> activated, retired |-> 0, request |-> r]

BootstrapTrustRoot(doc, r, activated) ==
    /\ store = "postgres" /\ lock = NoLock
    /\ \A i \in 1..Len(roots) : roots[i].retired # 0
    /\ roots = <<>>    \* the primary key: revision 1 is inserted
    /\ ApprovedRequest(requests[r], "trust_root_policy", doc, NoDigest)
    /\ roots' = <<NewRoot(doc, activated, r)>>
    /\ requests' = MarkApplied(r)
    /\ UNCHANGED <<store, now, policies, holds, retentionVars, transferVars>>

\* _current_trust_root: the unretired root of the highest revision
IsCurrentRoot(i) ==
    /\ i \in 1..Len(roots)
    /\ roots[i].retired = 0
    /\ \A j \in (i + 1)..Len(roots) : roots[j].retired # 0

\* mutant: the overlap may end before the next root is active
OverlapUnchecked(activate, overlap) == TRUE

\* validate_rotation
ValidRotation(activate, overlap) == activate <= overlap

\* mutant: the old root is retired now, whatever overlap was planned
RetireNow(i, overlap) == [roots EXCEPT ![i].retired = now]

\* the old root, retired at the end of the overlap
Retired(i, overlap) == [roots EXCEPT ![i].retired = overlap]

\* The retirement trigger refuses a window that ends before it begins, the
\* primary key a revision that is taken.
RotateTrustRoot(doc, r, activate, overlap, emergency) ==
    /\ store = "postgres" /\ lock = NoLock
    /\ ValidRotation(activate, overlap)
    /\ activate >= now \/ emergency
    /\ \E i \in 1..Len(roots) :
          /\ IsCurrentRoot(i) /\ i = Len(roots)
          /\ ApprovedRequest(requests[r], "trust_root_policy", doc, roots[i].doc)
          /\ overlap > roots[i].activated
          /\ roots' = Append(Retired(i, overlap), NewRoot(doc, activate, r))
    /\ requests' = MarkApplied(r)
    /\ UNCHANGED <<store, now, policies, holds, retentionVars, transferVars>>

\* policy_for: the roots of a history that cover a signing time
Covers(root, t) == root.activated <= t /\ (root.retired = 0 \/ t < root.retired)

\* and trust the key; the history answers only when there is exactly one
Matches(history, t, key) ==
    {i \in 1..Len(history) : Covers(history[i], t) /\ key \in TrustedKeys[history[i].doc]}

----------------------------------------------------------------------------
(* Evidence transfer *)

CreateTransferManifest(t, manifest) ==
    /\ store = "postgres"
    /\ transfers[t] = NoTransfer
    /\ transfers' = [transfers EXCEPT ![t] = manifest]
    /\ UNCHANGED <<store, now, changeVars, retentionVars, roots, verifications, imports>>

\* path_from: the schema is inside the supported upgrade window
PathFrom(schema) == MinSchema <= schema /\ schema <= CurrentSchema

\* GovernanceEvidenceTransferVerifier.verify, on whatever manifest and
\* package its caller presents
VerifyTransfer(t, manifest, package) ==
    /\ package = manifest.archive
    /\ PathFrom(manifest.schema)
    /\ package \in Sound
    /\ BundleOf[package] = manifest.bundle
    /\ verifications' = verifications \cup {[transfer |-> t, manifest |-> manifest]}
    /\ UNCHANGED <<store, now, changeVars, retentionVars, roots, transfers, imports>>

\* mutant: the verification is not bound to the archive that is imported
VerifiedSomething(v, t, manifest, archive) ==
    v.transfer = t /\ manifest.archive = archive

\* _validate_import_verification
ValidateImportVerification(v, t, manifest, archive) ==
    /\ v.transfer = t
    /\ manifest.archive = archive /\ v.manifest.archive = archive
    /\ v.manifest.bundle = manifest.bundle
    /\ v.manifest.schema = manifest.schema

Receipt(t, manifest, v, archive) ==
    [transfer |-> t, archive |-> archive, schema |-> manifest.schema, report |-> v]

\* v is whatever report the caller passes: its fields are compared, nothing
\* shows that the verifier returned it
RecordVerifiedImport(t, manifest, v, archive) ==
    /\ store = "postgres"
    /\ ValidateImportVerification(v, t, manifest, archive)
    /\ PathFrom(manifest.schema)
    /\ imports' = imports \cup {Receipt(t, manifest, v, archive)}
    /\ UNCHANGED <<store, now, changeVars, retentionVars, roots, transfers, verifications>>
=============================================================================
