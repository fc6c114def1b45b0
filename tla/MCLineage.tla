----------------------------- MODULE MCLineage -----------------------------
(* Instances of Lineage for TLC. *)
EXTENDS Lineage, TLC

CONSTANTS spec, decs, gen, src, tests, bld, auth, act1, act2, dep1, dep2, obs, rec, d

Node(k, i, ok) == [kind |-> k, id |-> i, digest |-> d, ok |-> ok]

Spec1 == Node("specification_revision", spec, TRUE)
Decs1 == Node("decision_set", decs, TRUE)
Gen1 == Node("generator_configuration", gen, TRUE)
Tree1 == Node("source_tree", src, TRUE)
Tests1 == Node("verification", tests, TRUE)
Build1 == Node("build_artifact", bld, TRUE)
Auth1 == Node("authorization", auth, TRUE)
Act1(ok) == Node("agent_action", act1, ok)
Act2 == Node("agent_action", act2, TRUE)
Dep1 == Node("deployment", dep1, TRUE)
Dep2 == Node("deployment", dep2, TRUE)
Obs1 == Node("production_observation", obs, TRUE)
Rec1(ok) == Node("reconciliation", rec, ok)

Rel(m, type, n) == [relation |-> type, subject |-> Ref(m), object |-> Ref(n)]

\* the run up to its authorization: intent, generation, tests and build
Prepared ==
    <<Rel(Gen1, "generated_from", Spec1), Rel(Gen1, "generated_from", Decs1),
      Rel(Gen1, "produced", Tree1), Rel(Tree1, "verified_by", Tests1),
      Rel(Tree1, "built_as", Build1), Rel(Build1, "authorized_by", Auth1)>>

\* two actions, of which the first may have failed, and two deployments that
\* the same observation may be of
Started ==
    {[nodes |-> {Spec1, Decs1, Gen1, Tree1, Tests1, Build1, Auth1, Act1(ok), Act2, Dep1, Dep2, Obs1},
      relations |-> Prepared] : ok \in BOOLEAN}

\* reconciled, or not, under one id
Offered == {Rec1(TRUE), Rec1(FALSE)}

\* what is still to be told; the last can never be accepted
Told ==
    {Rel(Auth1, "authorized_action", Act1(TRUE)), Rel(Auth1, "authorized_action", Act2),
     Rel(Act1(TRUE), "deployed_as", Dep1), Rel(Act2, "deployed_as", Dep2),
     Rel(Dep1, "observed_as", Obs1), Rel(Dep2, "observed_as", Obs1),
     Rel(Obs1, "compared_by", Rec1(TRUE)), Rel(Obs1, "observed_as", Dep1)}
=============================================================================
