------------------------ MODULE MCGovernanceControl ------------------------
(* Instances of GovernanceControl for TLC. *)
EXTENDS GovernanceControl, TLC

CONSTANTS ann, annCi, bob, res, res2, rootA, rootB, rootC, key1, key2, h1, good, bad, bun1, bun2

\* ann under a second workload identity is annCi
TwoPeople == [a \in {ann, annCi, bob} |-> IF a = annCi THEN ann ELSE a]

Policy(revision, effective, days) ==
    [revision |-> revision, effective |-> effective, retain |-> [c \in Resources |-> days]]

\* a first policy, and two candidates for the second: one that later keeps
\* everything, one that is dated before the first
ShortRetention == Policy(1, 2, 0)
KeepLater == Policy(2, 3, Forever)
Backdated == Policy(2, 1, 1)
SmallPolicies == {ShortRetention, KeepLater, Backdated}

Change(type, doc, expected, risk) ==
    [type |-> type, digest |-> doc, expected |-> expected, risk |-> risk]

RetentionProposals ==
    {Change("retention_policy", ShortRetention, NoDigest, "high")}
    \cup {Change("retention_policy", p, ShortRetention, "low") : p \in SmallPolicies \ {ShortRetention}}

CreatedFirst == [c \in Resources |-> 1]

RootProposals ==
    {Change("trust_root_policy", rootA, NoDigest, "low"),
     Change("trust_root_policy", rootB, rootA, "low"),
     Change("trust_root_policy", rootC, rootA, "low"),
     Change("trust_root_policy", rootC, rootB, "low")}

RootKeys == [d \in TrustPolicies |-> CASE d = rootA -> {key1} [] d = rootB -> {key1, key2}
                                        [] OTHER -> {key2}]

BundleOne == [p \in Packages |-> bun1]

CallSymmetry == Permutations(Requests) \cup Permutations(Executions)
=============================================================================
