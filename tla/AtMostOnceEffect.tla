-------------------------- MODULE AtMostOnceEffect --------------------------
(***************************************************************************)
(* What the broker promises its callers about one idempotency key, with    *)
(* nothing said of how: the first action that takes the key owns it for    *)
(* ever, the target is asked at most once, and only what was asked can     *)
(* ever have an outcome, which never changes.                              *)
(***************************************************************************)
CONSTANTS Keys, Bodies, Result, None

VARIABLES
    owner,      \* the action digest that owns each key
    asked,      \* the target was asked to perform the key's action
    outcome     \* the outcome published for the key

vars == <<owner, asked, outcome>>

Init ==
    /\ owner = [k \in Keys |-> None]
    /\ asked = [k \in Keys |-> FALSE]
    /\ outcome = [k \in Keys |-> None]

Take(k, b) ==
    /\ owner[k] = None
    /\ owner' = [owner EXCEPT ![k] = b]
    /\ UNCHANGED <<asked, outcome>>

Ask(k) ==
    /\ owner[k] # None
    /\ ~asked[k]
    /\ asked' = [asked EXCEPT ![k] = TRUE]
    /\ UNCHANGED <<owner, outcome>>

Publish(k, r) ==
    /\ asked[k]
    /\ outcome[k] = None
    /\ outcome' = [outcome EXCEPT ![k] = r]
    /\ UNCHANGED <<owner, asked>>

Next == \E k \in Keys : \/ \E b \in Bodies : Take(k, b)
                        \/ Ask(k)
                        \/ \E r \in Result : Publish(k, r)

Spec == Init /\ [][Next]_vars
=============================================================================
