---- MODULE MovementSources ----
(***************************************************************************)
(* MovementSource of msgs/motion.py: who a command comes from, by rank.    *)
(***************************************************************************)
EXTENDS Integers, Sequences

\* Declaration order of MovementSource.
Sources == <<"autonomous", "planner", "assisted_teleop", "controller">>

SourceNames == {Sources[i] : i \in DOMAIN Sources}

\* MovementSource.priority: list.index, counted from zero; higher wins.
Priority(source) == (CHOOSE i \in DOMAIN Sources : Sources[i] = source) - 1

Outranks(source, other) == Priority(source) > Priority(other)

\* active_source is None.
Nobody == "nobody"
====
