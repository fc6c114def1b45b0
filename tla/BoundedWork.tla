---------------------------- MODULE BoundedWork ----------------------------
(***************************************************************************)
(* What a durable queue promises of each piece of work, with workers,      *)
(* leases, tokens and time left out: it is admitted at most once, run at   *)
(* most Budget[i] times, and settled once: done, which takes a run, or     *)
(* given up, which takes them all.                                         *)
(***************************************************************************)
EXTENDS Naturals

CONSTANTS Items, Budget

VARIABLES
    phase,      \* "absent", "open", "done" or "dead"
    runs        \* times the work was handed to a worker

vars == <<phase, runs>>

Init ==
    /\ phase = [i \in Items |-> "absent"]
    /\ runs = [i \in Items |-> 0]

Admit(i) == phase[i] = "absent" /\ phase'[i] = "open" /\ runs'[i] = runs[i]

Run(i) ==
    /\ phase[i] = "open" /\ runs[i] < Budget[i]
    /\ phase'[i] = "open" /\ runs'[i] = runs[i] + 1

Finish(i) ==
    /\ phase[i] = "open" /\ runs[i] > 0
    /\ phase'[i] = "done" /\ runs'[i] = runs[i]

GiveUp(i) ==
    /\ phase[i] = "open" /\ runs[i] = Budget[i]
    /\ phase'[i] = "dead" /\ runs'[i] = runs[i]

Rest(i) == phase'[i] = phase[i] /\ runs'[i] = runs[i]

\* One step of the queue may move several pieces of work, each by one step.
Next == \A i \in Items : Admit(i) \/ Run(i) \/ Finish(i) \/ GiveUp(i) \/ Rest(i)

Spec == Init /\ [][Next]_vars
=============================================================================
