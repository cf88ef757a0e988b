---- MODULE TaskLedger ----
(***************************************************************************)
(* What a navigation coordinator promises, as topics.py and                *)
(* msgs/navigation.py state it: a submit starts a task immediately, at     *)
(* most one task runs, and a task ends exactly once, in a terminal state   *)
(* that never changes afterwards.                                          *)
(***************************************************************************)
EXTENDS TaskStates

CONSTANTS Tasks     \* task ids

VARIABLE phase      \* what the coordinator knows of each task

Unknown == "unknown"

Init == phase = [t \in Tasks |-> Unknown]

\* There is no queued state: an accepted task runs, and it is the only one.
Accept(t) ==
    /\ phase[t] = Unknown
    /\ \A u \in Tasks : phase[u] # "running"
    /\ phase' = [phase EXCEPT ![t] = "running"]

End(t) ==
    /\ phase[t] = "running"
    /\ \E s \in TaskState : IsTerminal(s) /\ phase' = [phase EXCEPT ![t] = s]

Next == \E t \in Tasks : Accept(t) \/ End(t)

Spec == Init /\ [][Next]_phase
====
