------------------------------ MODULE TaskLease ------------------------------
(***************************************************************************)
(* What the lease columns of the subagent queue promise: the lease of a    *)
(* task is granted only while nobody holds it, every grant carries a token *)
(* never used before, and it passes from one attempt to another only       *)
(* through a release.                                                      *)
(***************************************************************************)
EXTENDS Naturals

CONSTANT Tasks

VARIABLES
    holder,     \* the attempt holding the lease of a task, 0 for none
    granted     \* grants of a task so far; the last one's token

leaseVars == <<holder, granted>>

Init ==
    /\ holder = [t \in Tasks |-> 0]
    /\ granted = [t \in Tasks |-> 0]

Grant(t) ==
    /\ holder[t] = 0
    /\ granted' = [granted EXCEPT ![t] = @ + 1]
    /\ holder' = [holder EXCEPT ![t] = granted[t] + 1]

\* One statement may take back the leases of several tasks.
Release(T) ==
    /\ holder' = [t \in Tasks |-> IF t \in T THEN 0 ELSE holder[t]]
    /\ UNCHANGED granted

Next ==
    \/ \E t \in Tasks : Grant(t)
    \/ \E T \in SUBSET Tasks : Release(T)

Spec == Init /\ [][Next]_leaseVars
=============================================================================
