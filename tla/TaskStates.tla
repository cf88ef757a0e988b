---- MODULE TaskStates ----
(***************************************************************************)
(* The vocabulary of msgs/navigation.py that the navigation modules share: *)
(* the lifecycle of a task and the payload of its result key.              *)
(***************************************************************************)

\* TaskState: one value streams, four are reported once.
TaskState == {"running", "succeeded", "failed", "canceled", "blocked"}

\* TaskState.is_terminal.
IsTerminal(s) == s \in {"succeeded", "failed", "canceled", "blocked"}

\* TaskResult, without its message and timestamp.
TaskResult(Task, State) == [task : Task, state : State]
====
