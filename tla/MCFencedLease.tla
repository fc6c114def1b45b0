--------------------------- MODULE MCFencedLease ---------------------------
(* Instances of FencedLease for TLC. *)
EXTENDS FencedLease, TLC

CONSTANTS o1, o2, o3

OwnerSymmetry == Permutations(Owners)
=============================================================================
