---- MODULE TaskClient ----
(***************************************************************************)
(* How RobotClient correlates navigation tasks with their results:         *)
(* wait_for_task, the bounded history behind it, and _on_task_result, the  *)
(* handler of the wildcard result subscription.                            *)
(*                                                                         *)
(* Everything runs on one asyncio loop, so an action is the code between   *)
(* two suspension points: a wait that finds nothing suspends, a delivered  *)
(* result resolves its future, and the caller resumes in a later step -    *)
(* other callers, other results and the timer run in between.              *)
(***************************************************************************)
EXTENDS TaskStates, Naturals, Sequences, SequencesExt

CONSTANTS
    Caller,       \* coroutines that call wait_for_task
    Task,         \* task ids
    Outcome,      \* the terminal states results are published with
    HistorySize,  \* NAV_RESULT_HISTORY
    SharedWaits,  \* may two callers wait for one task at the same time?
    Nobody,       \* an empty waiter slot
    NoTask,       \* what an idle caller waits for
    Pending       \* a future without a result, a task without a record

ASSUME HistorySizeAssumption == HistorySize \in Nat \ {0}
ASSUME OutcomeAssumption == \A s \in Outcome : s \in TaskState /\ IsTerminal(s)
ASSUME SharedWaitsAssumption == SharedWaits \in BOOLEAN
ASSUME NobodyAssumption == Nobody \notin Caller
ASSUME NoTaskAssumption == NoTask \notin Task
ASSUME PendingAssumption ==
    /\ Pending \notin TaskResult(Task, TaskState)
    /\ Pending \notin TaskState

VARIABLES
    published,  \* every payload ever put on a result key
    wire,       \* the payloads still on their way to this client
    delivered,  \* the tasks whose terminal result arrived, in order of arrival
    history,    \* the keys of _task_results, oldest first
    recorded,   \* the values of _task_results
    waiters,    \* _task_waiters: one slot per task
    asked,      \* what each caller passed to its last wait_for_task
    limited,    \* whether that call has a timeout
    status,     \* where that call is
    future      \* the caller's future, then what the call returned

network == <<published, wire>>
memory  == <<delivered, history, recorded>>
call    == <<asked, limited, status, future>>
vars    == <<published, wire, delivered, history, recorded, waiters,
             asked, limited, status, future>>

Result == TaskResult(Task, TaskState)
Status == {"idle", "waiting", "returned", "timed out", "cancelled"}

Waiting(c) == status[c] = "waiting"

TypeOK ==
    /\ published \subseteq Result
    /\ wire \subseteq published
    /\ delivered \in Seq(Task)
    /\ history \in Seq(Task)
    /\ recorded \in [Task -> Outcome \cup {Pending}]
    /\ waiters \in [Task -> Caller \cup {Nobody}]
    /\ asked \in [Caller -> Task \cup {NoTask}]
    /\ limited \in [Caller -> BOOLEAN]
    /\ status \in [Caller -> Status]
    /\ future \in [Caller -> Result \cup {Pending}]

Init ==
    /\ published = {}
    /\ wire = {}
    /\ delivered = <<>>
    /\ history = <<>>
    /\ recorded = [t \in Task |-> Pending]
    /\ waiters = [t \in Task |-> Nobody]
    /\ asked = [c \in Caller |-> NoTask]
    /\ limited = [c \in Caller |-> FALSE]
    /\ status = [c \in Caller |-> "idle"]
    /\ future = [c \in Caller |-> Pending]

----
(* The coordinator and the network, as far as the result keys go.          *)

\* One terminal payload per task. A running payload on a result key is the
\* producer bug that _on_task_result is written to survive.
Publish(r) ==
    /\ r \notin published
    /\ \/ r.state \in Outcome /\ \A p \in published : p.task = r.task => p.state = "running"
       \/ r.state = "running"
    /\ published' = published \cup {r}
    /\ wire' = wire \cup {r}
    /\ UNCHANGED <<memory, waiters, call>>

\* Results are not latched: one that is lost does not come back.
Lose(r) ==
    /\ r \in wire
    /\ wire' = wire \ {r}
    /\ UNCHANGED <<published, memory, waiters, call>>

----
(* RobotClient.wait_for_task.                                              *)

\* The guard is the caller's: the code lets anyone wait, SharedWaits says
\* whether these callers make use of it.
MayWait(c, t) ==
    /\ ~Waiting(c)
    /\ SharedWaits \/ \A d \in Caller : ~(Waiting(d) /\ asked[d] = t)

\* A recorded result is returned without suspending.
ReturnRecorded(c, t, timeout) ==
    /\ MayWait(c, t)
    /\ recorded[t] # Pending
    /\ asked' = [asked EXCEPT ![c] = t]
    /\ limited' = [limited EXCEPT ![c] = timeout]
    /\ status' = [status EXCEPT ![c] = "returned"]
    /\ future' = [future EXCEPT ![c] = [task |-> t, state |-> recorded[t]]]
    /\ UNCHANGED <<network, memory, waiters>>

\* A plausible slip: suspending without looking at the recorded results.
StartWaitBlind(c, t, timeout) ==
    /\ MayWait(c, t)
    /\ asked' = [asked EXCEPT ![c] = t]
    /\ limited' = [limited EXCEPT ![c] = timeout]
    /\ status' = [status EXCEPT ![c] = "waiting"]
    /\ future' = [future EXCEPT ![c] = Pending]
    /\ waiters' = [waiters EXCEPT ![t] = c]
    /\ UNCHANGED <<network, memory>>

\* Otherwise a new future takes the task's slot, whoever held it.
StartWait(c, t, timeout) ==
    /\ MayWait(c, t)
    /\ recorded[t] = Pending
    /\ asked' = [asked EXCEPT ![c] = t]
    /\ limited' = [limited EXCEPT ![c] = timeout]
    /\ status' = [status EXCEPT ![c] = "waiting"]
    /\ future' = [future EXCEPT ![c] = Pending]
    /\ waiters' = [waiters EXCEPT ![t] = c]
    /\ UNCHANGED <<network, memory>>

\* A plausible slip: no finally clause.
LeaveSlot(c, how) ==
    /\ status' = [status EXCEPT ![c] = how]
    /\ UNCHANGED waiters

\* A plausible slip: clearing the table instead of popping one slot.
LeaveAll(c, how) ==
    /\ status' = [status EXCEPT ![c] = how]
    /\ waiters' = [t \in Task |-> Nobody]

\* The finally clause pops the slot by task id, whoever holds it by now.
Leave(c, how) ==
    /\ status' = [status EXCEPT ![c] = how]
    /\ waiters' = [waiters EXCEPT ![asked[c]] = Nobody]

\* The future was resolved and the caller gets to run.
Resume(c) ==
    /\ Waiting(c)
    /\ future[c] # Pending
    /\ Leave(c, "returned")
    /\ UNCHANGED <<network, memory, asked, limited, future>>

\* The timer of wait_for. It may fire after the future was resolved and before
\* the caller ran: from Python 3.12 on the call then raises TimeoutError and
\* the result stays in the history; 3.11 returns it, which is Resume.
TimeOut(c) ==
    /\ Waiting(c)
    /\ limited[c]
    /\ Leave(c, "timed out")
    /\ UNCHANGED <<network, memory, asked, limited, future>>

\* The task the caller runs in is cancelled while it waits.
CancelCaller(c) ==
    /\ Waiting(c)
    /\ Leave(c, "cancelled")
    /\ UNCHANGED <<network, memory, asked, limited, future>>

----
(* RobotClient._on_task_result.                                            *)

\* The newest HistorySize keys of a history.
Newest(keys) ==
    IF Len(keys) > HistorySize
    THEN SubSeq(keys, Len(keys) - HistorySize + 1, Len(keys))
    ELSE keys

\* A plausible slip: a full history takes no new key.
RememberUntilFull(t) ==
    IF Contains(history, t) \/ Len(history) = HistorySize THEN history ELSE Append(history, t)

\* The key of a new result goes last; a dict keeps the place of a key that is
\* assigned again. The while loop then drops the oldest keys.
Remember(t) == Newest(IF Contains(history, t) THEN history ELSE Append(history, t))

Record(r) ==
    /\ history' = Remember(r.task)
    /\ recorded' = [t \in Task |->
                      IF ~Contains(history', t) THEN Pending
                      ELSE IF t = r.task THEN r.state ELSE recorded[t]]
    /\ delivered' = Append(delivered, r.task)

\* A plausible slip: waking whoever waits, whatever for.
WakeAll(r) ==
    future' = [c \in Caller |-> IF Waiting(c) /\ future[c] = Pending THEN r ELSE future[c]]

\* Only a waiter that is there and not done is given the result.
Wake(r) ==
    LET c == waiters[r.task]
    IN  IF c # Nobody /\ future[c] = Pending
        THEN future' = [future EXCEPT ![c] = r]
        ELSE UNCHANGED future

\* A plausible slip: believing whatever arrives on a result key.
OnAnyResult(r) == Record(r) /\ Wake(r)

\* A payload that is not terminal is dropped.
OnTaskResult(r) ==
    IF IsTerminal(r.state)
    THEN Record(r) /\ Wake(r)
    ELSE UNCHANGED <<memory, future>>

Deliver(r) ==
    /\ r \in wire
    /\ wire' = wire \ {r}
    /\ OnTaskResult(r)
    /\ UNCHANGED <<published, waiters, asked, limited, status>>

----
Next ==
    \/ \E r \in Result : Publish(r) \/ Lose(r) \/ Deliver(r)
    \/ \E c \in Caller, t \in Task, timeout \in BOOLEAN :
          ReturnRecorded(c, t, timeout) \/ StartWait(c, t, timeout)
    \/ \E c \in Caller : Resume(c) \/ TimeOut(c) \/ CancelCaller(c)

Spec == Init /\ [][Next]_vars

\* The loop runs every callback that is ready and every timer that is due.
\* Nothing makes the coordinator publish or the network deliver.
Fairness == \A c \in Caller : WF_vars(Resume(c)) /\ WF_vars(TimeOut(c))

FairSpec == Spec /\ Fairness

----
(* Properties.                                                             *)

\* What wait_for_task returns is the terminal result of the task that was
\* asked for, and the coordinator published it: neither another task's result
\* nor a running payload, whatever arrived in between (client.py:715-735 and
\* 789-799).
AnswersAreTrue ==
    \A c \in Caller :
        status[c] = "returned" =>
            /\ future[c] \in published
            /\ future[c].task = asked[c]
            /\ IsTerminal(future[c].state)

\* No wake-up is lost: while the result of a task is on record, nobody is
\* still suspended on an unresolved future for it. This is what makes
\* wait_for_task safe to call before, during and after the arrival
\* (client.py:726-731 against 794-799). It needs one waiter per task.
RecordedResultWakes ==
    \A c \in Caller :
        Waiting(c) /\ recorded[asked[c]] # Pending => future[c] # Pending

\* A slot never outlives the wait that put it there: a finished call leaves
\* no future behind for a later result to resolve (the finally clause of
\* client.py:734-735).
SlotsAreLive ==
    \A t \in Task : waiters[t] # Nobody => Waiting(waiters[t]) /\ asked[waiters[t]] = t

\* The history holds the results of exactly the last NAV_RESULT_HISTORY tasks
\* that arrived, so a late wait for any of them still returns at once
\* (client.py:84-86, 794-796).
HistoryIsRecent ==
    /\ history = Newest(delivered)
    /\ \A t \in Task : Contains(history, t) <=> recorded[t] # Pending

\* A caller whose result arrived while it waited is not left waiting.
DeliveredWaitEnds ==
    \A c \in Caller, t \in Task :
        (Waiting(c) /\ asked[c] = t /\ Contains(history, t)) ~> ~Waiting(c)
====
