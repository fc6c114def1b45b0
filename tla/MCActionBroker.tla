--------------------------- MODULE MCActionBroker ---------------------------
(***************************************************************************)
(* Instances of ActionBroker for TLC.                                      *)
(***************************************************************************)
EXTENDS ActionBroker, TLC

CONSTANTS c1, c2, b1, b2, b3, x, k1, k2, r1, r2

\* two different actions carry one idempotency key, a third has its own
TwoKeys == b1 :> k1 @@ b2 :> k1 @@ b3 :> k2

\* b1 always needs an approval; r1 allows b2 and r2 denies it; b3 is allowed
Gating == r1 :> (b1 :> "require_approval" @@ b2 :> "allow" @@ b3 :> "allow")
       @@ r2 :> (b1 :> "require_approval" @@ b2 :> "deny" @@ b3 :> "allow")

\* b1 may be approved under r1
GivenApproval == {[action |-> [body |-> b1, artifact |-> x], revision |-> r1, outcome |-> "approved"]}
=============================================================================
