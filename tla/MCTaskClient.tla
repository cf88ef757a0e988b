---- MODULE MCTaskClient ----
(***************************************************************************)
(* Instances of TaskClient for TLC: two callers, and one task more than    *)
(* the history holds, so that results are evicted while others are waited  *)
(* for.                                                                    *)
(***************************************************************************)
EXTENDS TaskClient, TLC

\* Callers are interchangeable; tasks are too.
Symmetry == Permutations(Caller) \cup Permutations(Task)
====
