-------------------------- MODULE MCReconciliation --------------------------
(* Instances of Reconciliation for TLC. *)
EXTENDS Reconciliation, TLC

CONSTANTS a1, o1, o2, d1, d2, e1, e2, s1, s2, c1, c2

AtSource == [a \in Actions |-> s1]
WantD1 == [a \in Actions |-> d1]

\* e1 belongs to the controlled action, e2 to nobody
Attribution == [e \in Events |-> IF e = e1 THEN a1 ELSE NoAction]

State(o, a, d, t) == [id |-> o, action |-> a, digest |-> d, at |-> t]

\* nothing; the expected state, seen early; a contradiction, seen later
Answers == {{}, {State(o1, a1, d1, 1)}, {State(o1, a1, d1, 1), State(o2, a1, d2, 2)}}

Planned == {Actions}

Strict == {[required |-> {s1}, maxAge |-> 1, matched |-> TRUE]}

PollerSymmetry == Permutations(Pollers)
=============================================================================
