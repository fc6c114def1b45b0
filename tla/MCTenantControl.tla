-------------------------- MODULE MCTenantControl --------------------------
(***************************************************************************)
(* Instances of TenantControl for TLC.                                     *)
(***************************************************************************)
EXTENDS TenantControl, TLC

CONSTANTS p1, p2, op, lead, g1

HoldCaps == {{"legal_hold"}}
ProcSymmetry == Permutations(Procs)
=============================================================================
