---------------------------- MODULE MCRunLedger ----------------------------
(* Instances of RunLedger for TLC. *)
EXTENDS RunLedger, TLC

CONSTANTS s, c1, c2, b1, b2, x1, ta, tb, p, q

\* s starts the run, c1 and c2 complete it differently, b1 and b2 bind lineage
\* and name different specifications, x1 appends for another tenant
Kind   == [r \in Requests |-> CASE r = s            -> "start"
                                [] r \in {c1, c2}   -> "complete"
                                [] r \in {b1, b2}   -> "bind"
                                [] r = x1           -> "event"]
Tenant == [r \in Requests |-> IF r = x1 THEN tb ELSE ta]
Status == [r \in Requests |-> IF r = c2 THEN "failed" ELSE "succeeded"]
Bound  == [r \in Requests |-> CASE r = b1 -> p [] r = b2 -> q [] OTHER -> None]
=============================================================================
