------------------------- MODULE MCRecoveryControl -------------------------
(* Instances of RecoveryControl for TLC. *)
EXTENDS RecoveryControl, TLC

CONSTANTS ann, bob, objectStore, g1, x1, b1

ProfileOf(revision, effective, rpo, rto) ==
    [revision |-> revision, created |-> 1, effective |-> effective, rpo |-> rpo, rto |-> rto,
     required |-> {objectStore}, window |-> 3]

\* a profile, and a tighter one that takes effect during the recovery
TwoProfiles == {ProfileOf(1, 1, 1, 1), ProfileOf(2, 2, 0, 1)}

ManifestAt(revision, point) ==
    [revision |-> revision, components |-> {objectStore}, point |-> point]
OneManifest == {ManifestAt(1, 1)}

OneScope == {BreakGlassCapability}

Site(seen, anchor, signature) ==
    [seen |-> seen, altered |-> {}, chain |-> TRUE, anchor |-> anchor,
     checkpoint |-> TRUE, signature |-> signature]
TwoSites == {Site({objectStore}, TRUE, TRUE), Site({objectStore}, TRUE, FALSE)}

\* a result that was computed in some other catalog
ReportedElsewhere ==
    {[restore |-> x1, backup |-> b1, status |-> "verified", promoted |-> TRUE, rpo |-> 0, rto |-> 0,
      scan |-> [restore |-> x1, chain |-> TRUE, anchor |-> TRUE, checkpoint |-> TRUE,
                objects |-> TRUE, verified |-> TRUE],
      gapReconciled |-> TRUE, recovered |-> <<>>, at |-> 1]}

CallSymmetry == Permutations(Calls) \cup Permutations(Attempts) \cup Permutations(Actors)
=============================================================================
