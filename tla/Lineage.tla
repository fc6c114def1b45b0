------------------------------ MODULE Lineage ------------------------------
(***************************************************************************)
(* The lineage graph of one run of one tenant and the production policy    *)
(* that judges it.                                                         *)
(*                                                                         *)
(* Nodes and relations are only ever added, each by a transaction under    *)
(* the run's advisory lock or asyncio lock. An assessment reads the graph, *)
(* follows it back from an observation, and appends its verdict to the     *)
(* ledger later: what is recorded in between it does not see. The policy   *)
(* does not search: at every stage it follows one candidate, the first     *)
(* recorded that succeeded, or else the first recorded.                    *)
(*                                                                         *)
(* A node is its reference (kind, id, digest) and whether its stage        *)
(* succeeded; a relation is its key. Scopes are checked by the run; times  *)
(* and evidence are left out.                                              *)
(***************************************************************************)
EXTENDS Naturals, Sequences, Functions, FiniteSetsExt

CONSTANTS
    NodeIds,
    Digests,
    Nodes,        \* the nodes callers offer
    Relations,    \* the relations callers offer
    Histories,    \* the graphs with which the run may be met
    Calls,        \* assess_lineage requests
    NoNode, NoCall

VARIABLES
    nodes,        \* lineage_nodes
    relations,    \* lineage_relations, by id
    calls,        \* the assessment each request is about to record
    verdicts      \* the LINEAGE_ASSESSED events of the ledger that say complete

lineageVars == <<nodes, relations, calls, verdicts>>

LineageNodeKind ==
    {"specification_revision", "decision_set", "generator_configuration", "source_tree",
     "verification", "build_artifact", "authorization", "agent_action", "deployment",
     "production_observation", "reconciliation"}

\* kinds whose nodes are facts and do not fail
Facts == {"specification_revision", "decision_set", "source_tree", "production_observation"}

\* ok: succeeded, authorized, PASSED or MATCHED, by kind
LineageNode ==
    {n \in [kind: LineageNodeKind, id: NodeIds, digest: Digests, ok: BOOLEAN] :
        n.kind \in Facts => n.ok}

Ref(n) == [kind |-> n.kind, id |-> n.id, digest |-> n.digest]

LineageNodeRef == [kind: LineageNodeKind, id: NodeIds, digest: Digests]

\* _ALLOWED_RELATIONS, as triples
AllowedRelations ==
    {<<"generator_configuration", "generated_from", "specification_revision">>,
     <<"generator_configuration", "generated_from", "decision_set">>,
     <<"generator_configuration", "produced", "source_tree">>,
     <<"source_tree", "verified_by", "verification">>,
     <<"source_tree", "built_as", "build_artifact">>,
     <<"build_artifact", "authorized_by", "authorization">>,
     <<"authorization", "authorized_action", "agent_action">>,
     <<"agent_action", "deployed_as", "deployment">>,
     <<"deployment", "observed_as", "production_observation">>,
     <<"production_observation", "compared_by", "reconciliation">>}

LineageRelationType == {a[2] : a \in AllowedRelations}

LineageRelation ==
    {r \in [relation: LineageRelationType, subject: LineageNodeRef, object: LineageNodeRef] :
        r.subject # r.object}

----------------------------------------------------------------------------
(* LineageGraph *)

\* the nodes that a chain of relations leaves inside S
Onward(S, R) == {r.subject.id : r \in {r \in Range(R) : r.subject.id \in S /\ r.object.id \in S}}

\* _validate_acyclic: no set of nodes in which every one leads to another
Acyclic(N, R) ==
    LET left[k \in Nat] == IF k = 0 THEN {n.id : n \in N} ELSE Onward(left[k - 1], R)
    IN  left[Len(R) + 1] = {}

\* validate_graph
ValidGraph(N, R) ==
    /\ \A m, n \in N : m.id = n.id => m = n
    /\ \A r \in Range(R) :
          /\ \E n \in N : Ref(n) = r.subject
          /\ \E n \in N : Ref(n) = r.object
          /\ <<r.subject.kind, r.relation, r.object.kind>> \in AllowedRelations
    /\ IsInjective(R)
    /\ Acyclic(N, R)

----------------------------------------------------------------------------
(* ProductionLineagePolicy *)

NodeOf(N, ref) == CHOOSE n \in N : Ref(n) = ref

\* mutant: the newest candidate that succeeded
LatestOf(candidates) ==
    LET good == {i \in DOMAIN candidates : candidates[i].ok} IN
    IF good # {} THEN candidates[Max(good)]
    ELSE IF DOMAIN candidates # {} THEN candidates[Min(DOMAIN candidates)] ELSE NoNode

\* the first candidate that succeeded, or else the first; candidates are the
\* nodes by the position of the relation that names them
FirstOf(candidates) ==
    LET good == {i \in DOMAIN candidates : candidates[i].ok} IN
    IF good # {} THEN candidates[Min(good)]
    ELSE IF DOMAIN candidates # {} THEN candidates[Min(DOMAIN candidates)] ELSE NoNode

\* mutant: relations are followed by type alone
SubjectOfAny(N, R, type, object, kind) ==
    IF object = NoNode THEN NoNode
    ELSE LET into == {i \in DOMAIN R : R[i].relation = type /\ NodeOf(N, R[i].subject).kind = kind}
         IN  FirstOf([i \in into |-> NodeOf(N, R[i].subject)])

\* _subject
SubjectOf(N, R, type, object, kind) ==
    IF object = NoNode THEN NoNode
    ELSE LET into == {i \in DOMAIN R : /\ R[i].relation = type /\ R[i].object = Ref(object)
                                       /\ NodeOf(N, R[i].subject).kind = kind}
         IN  FirstOf([i \in into |-> NodeOf(N, R[i].subject)])

\* _object
ObjectOf(N, R, type, subject, kind) ==
    IF subject = NoNode THEN NoNode
    ELSE LET out == {i \in DOMAIN R : /\ R[i].relation = type /\ R[i].subject = Ref(subject)
                                      /\ NodeOf(N, R[i].object).kind = kind}
         IN  FirstOf([i \in out |-> NodeOf(N, R[i].object)])

\* assess: the node found for every required stage. A requirement is met by
\* a node that succeeded; the verdict is complete when none is missing.
Path(N, R, observed) ==
    LET deployment == SubjectOf(N, R, "observed_as", observed, "deployment")
        action == SubjectOf(N, R, "deployed_as", deployment, "agent_action")
        authorization == SubjectOf(N, R, "authorized_action", action, "authorization")
        build == SubjectOf(N, R, "authorized_by", authorization, "build_artifact")
        tree == SubjectOf(N, R, "built_as", build, "source_tree")
        generator == SubjectOf(N, R, "produced", tree, "generator_configuration")
    IN  [specification |-> ObjectOf(N, R, "generated_from", generator, "specification_revision"),
         decisions |-> ObjectOf(N, R, "generated_from", generator, "decision_set"),
         generator |-> generator, tree |-> tree,
         verification |-> ObjectOf(N, R, "verified_by", tree, "verification"),
         build |-> build, authorization |-> authorization, action |-> action,
         deployment |-> deployment, observed |-> observed,
         reconciliation |-> ObjectOf(N, R, "compared_by", observed, "reconciliation")]

\* _mark, for each requirement
Missing(path) == {q \in DOMAIN path : path[q] = NoNode \/ ~path[q].ok}

Assess(N, R, observed) ==
    LET path == Path(N, R, observed) IN
    [observation |-> observed, path |-> path, missing |-> Missing(path)]

Complete(assessment) == assessment.missing = {}

----------------------------------------------------------------------------
(* The store and the endpoints *)

\* record_node: an id keeps its node
RecordLineageNode(n) ==
    /\ \A m \in nodes : m.id = n.id => m = n
    /\ nodes' = nodes \cup {n}
    /\ UNCHANGED <<relations, calls, verdicts>>

\* record_relation: a repeated relation changes nothing, a new one must keep
\* the graph valid
RecordRelation(r) ==
    /\ nodes # {}
    /\ r \notin Range(relations)
    /\ ValidGraph(nodes, Append(relations, r))
    /\ relations' = Append(relations, r)
    /\ UNCHANGED <<nodes, calls, verdicts>>

\* assess_lineage: get_graph and the policy
BeginAssess(c, observed) ==
    /\ calls[c] = NoCall
    /\ observed \in nodes /\ observed.kind = "production_observation"
    /\ calls' = [calls EXCEPT ![c] = Assess(nodes, relations, observed)]
    /\ UNCHANGED <<nodes, relations, verdicts>>

\* the append of LINEAGE_ASSESSED
RecordAssessment(c) ==
    /\ calls[c] # NoCall
    /\ verdicts' = IF Complete(calls[c]) THEN verdicts \cup {calls[c]} ELSE verdicts
    /\ calls' = [calls EXCEPT ![c] = NoCall]
    /\ UNCHANGED <<nodes, relations>>

\* the request ends before its append
Abandon(c) ==
    /\ calls[c] # NoCall
    /\ calls' = [calls EXCEPT ![c] = NoCall]
    /\ UNCHANGED <<nodes, relations, verdicts>>

LineageInit ==
    /\ \E h \in Histories : nodes = h.nodes /\ relations = h.relations
    /\ calls = [c \in Calls |-> NoCall]
    /\ verdicts = {}

LineageNext ==
    \/ \E n \in Nodes : RecordLineageNode(n)
    \/ \E r \in Relations : RecordRelation(r)
    \/ \E c \in Calls :
          \/ \E n \in nodes : BeginAssess(c, n)
          \/ RecordAssessment(c) \/ Abandon(c)

LineageSpec == LineageInit /\ [][LineageNext]_lineageVars

ASSUME LineageAssumption ==
    /\ Nodes \subseteq LineageNode /\ Relations \subseteq LineageRelation
    /\ NoNode \notin LineageNode
    /\ \A h \in Histories :
          /\ h.nodes \subseteq LineageNode
          /\ h.relations \in Seq(LineageRelation)
          /\ ValidGraph(h.nodes, h.relations)

----------------------------------------------------------------------------
(* Properties *)

\* n, of the given kind, succeeded
Succeeded(n, kind) == n.kind = kind /\ n.ok

Linked(R, m, type, n) == [relation |-> type, subject |-> Ref(m), object |-> Ref(n)] \in Range(R)

\* "a continuous graph": some choice of one successful node per stage is
\* linked without a break, from the intent to the reconciled observation
Continuous(N, R, observed) ==
    \E deployment \in {n \in N : Succeeded(n, "deployment") /\ Linked(R, n, "observed_as", observed)} :
    \E action \in {n \in N : Succeeded(n, "agent_action") /\ Linked(R, n, "deployed_as", deployment)} :
    \E authorization \in {n \in N : Succeeded(n, "authorization")
                                    /\ Linked(R, n, "authorized_action", action)} :
    \E build \in {n \in N : Succeeded(n, "build_artifact")
                            /\ Linked(R, n, "authorized_by", authorization)} :
    \E tree \in {n \in N : Succeeded(n, "source_tree") /\ Linked(R, n, "built_as", build)} :
    \E generator \in {n \in N : Succeeded(n, "generator_configuration")
                                /\ Linked(R, n, "produced", tree)} :
        /\ \E n \in N : Succeeded(n, "verification") /\ Linked(R, tree, "verified_by", n)
        /\ \E n \in N : Succeeded(n, "specification_revision")
                        /\ Linked(R, generator, "generated_from", n)
        /\ \E n \in N : Succeeded(n, "decision_set") /\ Linked(R, generator, "generated_from", n)
        /\ \E n \in N : Succeeded(n, "reconciliation") /\ Linked(R, observed, "compared_by", n)

\* Whatever assess calls complete has a continuous lineage of successful
\* stages; pieces of different chains never add up to one.
CompleteIsContinuous ==
    \A o \in {n \in nodes : n.kind = "production_observation"} :
        Complete(Assess(nodes, relations, o)) => Continuous(nodes, relations, o)

\* A complete verdict, once in the ledger, stays what any later assessment of
\* that observation says, along the same path, although it was computed on
\* an older graph and nodes, failed stages and other chains are recorded
\* before and after its append.
RecordedVerdictHolds ==
    \A v \in verdicts : Assess(nodes, relations, v.observation) = v
=============================================================================
