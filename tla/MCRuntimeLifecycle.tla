------------------------ MODULE MCRuntimeLifecycle ------------------------
(* An instance of RuntimeLifecycle for TLC. *)
EXTENDS RuntimeLifecycle

CONSTANTS acme, beta, q1, q2, q3, q4

\* three requests of one tenant, one of the other
MostlyAcme == [r \in Requests |-> IF r = q4 THEN beta ELSE acme]
=============================================================================
