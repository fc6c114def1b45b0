---------------------------- MODULE MCWorkQueue ----------------------------
(* An instance of WorkQueue for TLC. *)
EXTENDS WorkQueue, TLC

CONSTANTS w1, w2, i1, i2, i3, i4, ta, tb, ka, kb, kc

\* i1 and i2 are submissions of one identity; with i3, another tenant's work,
\* and i4 there are three pieces of work for a queue with room for two
SharedIdentity == [i \in Items |-> CASE i \in {i1, i2} -> ka [] i = i3 -> kb [] i = i4 -> kc]
TwoTenants     == [i \in Items |-> IF i = i3 THEN tb ELSE ta]
Mixed          == [i \in Items |-> IF i = i1 THEN 2 ELSE 1]
=============================================================================
