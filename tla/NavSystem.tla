---- MODULE NavSystem ----
(***************************************************************************)
(* Navigation end to end: callers of run_goal and cancel_task, nodes that  *)
(* run the two-stage route of examples/navigate.py, the service calls they *)
(* make, the coordinator that answers them, and the result key.            *)
(* The client side is TaskClient, whose actions appear here as parts of    *)
(* the calls; the coordinator is external: one task at a time, which ends  *)
(* once, as topics.py has it. Messages of the service calls and of the     *)
(* result key are not ordered among each other: a result may be here       *)
(* before the reply to its submit.                                         *)
(***************************************************************************)
EXTENDS TaskClient

CONSTANTS
    Refused,   \* a reply with accepted=False
    Route      \* the callers that are a navigate.py; others call run_goal

ASSUME RouteAssumption == Route \subseteq Caller
ASSUME RefusedAssumption == Refused \notin Task \cup {NoTask}

VARIABLES
    phase,      \* the coordinator: what became of each task
    stage,      \* which goal it is of a route; the only one counts as second
    goal,       \* where each caller's goal, and the cancel after it, is
    request,    \* callers whose submit the coordinator has not answered
    reply,      \* the answer to a submit that is on its way
    acked,      \* each caller's cancel: asked for, and how it was answered
    lastAsk     \* history: the task whose handle each caller holds

server   == <<phase, request>>
session  == <<stage, goal, reply, acked, lastAsk>>
allVars  == <<vars, server, session>>

Goal == {"idle", "submitting", "refused", "no answer", "waiting",
         "cancelling", "no answer to cancel", "waiting again"}

NavTypeOK ==
    /\ TypeOK
    /\ phase \in [Task -> {"unknown", "running"} \cup Outcome]
    /\ stage \in [Caller -> {1, 2}]
    /\ goal \in [Caller -> Goal]
    /\ request \subseteq Caller
    /\ reply \in [Caller -> Task \cup {Refused, NoTask}]
    /\ acked \in [Caller -> {"none", "asked", "yes", "no"}]
    /\ lastAsk \in [Caller -> Task \cup {NoTask}]

NavInit ==
    /\ Init
    /\ phase = [t \in Task |-> "unknown"]
    /\ stage = [c \in Caller |-> IF c \in Route THEN 1 ELSE 2]
    /\ goal = [c \in Caller |-> "idle"]
    /\ request = {}
    /\ reply = [c \in Caller |-> NoTask]
    /\ acked = [c \in Caller |-> "none"]
    /\ lastAsk = [c \in Caller |-> NoTask]

----
(* The coordinator.                                                        *)

Running == {t \in Task : phase[t] = "running"}

Ends(t, s) ==
    /\ phase' = [phase EXCEPT ![t] = s]
    /\ Publish([task |-> t, state |-> s])

\* A task reaches a terminal state of its own, and its result is published.
TaskEnds(t, s) ==
    /\ t \in Running
    /\ Ends(t, s)
    /\ UNCHANGED <<request, session>>

\* A preempting submit first stops the task that runs.
Preempts(c) ==
    /\ c \in request \ Route
    /\ \E t \in Running : Ends(t, "canceled")
    /\ UNCHANGED <<request, session>>

Answers(c, answer) ==
    /\ request' = request \ {c}
    /\ reply' = IF goal[c] = "submitting" THEN [reply EXCEPT ![c] = answer] ELSE reply
    /\ UNCHANGED <<vars, stage, goal, acked, lastAsk>>

Accepts(c, t) ==
    /\ c \in request
    /\ Running = {} /\ phase[t] = "unknown"
    /\ phase' = [phase EXCEPT ![t] = "running"]
    /\ Answers(c, t)

Refuses(c) ==
    /\ c \in request
    /\ Answers(c, Refused)
    /\ UNCHANGED phase

\* cancel: canceled=False for a task that is over.
AnswersCancel(c) ==
    /\ acked[c] = "asked"
    /\ IF lastAsk[c] \in Running
       THEN Ends(lastAsk[c], "canceled") /\ acked' = [acked EXCEPT ![c] = "yes"]
       ELSE acked' = [acked EXCEPT ![c] = "no"] /\ UNCHANGED <<vars, phase>>
    /\ UNCHANGED <<request, stage, goal, reply, lastAsk>>

----
(* The callers.                                                            *)

Moves(c, to) == goal' = [goal EXCEPT ![c] = to] /\ UNCHANGED stage

\* run_goal: submit, up to its service call.
Submits(c) ==
    /\ goal[c] = "idle"
    /\ Moves(c, "submitting")
    /\ request' = request \cup {c}
    /\ UNCHANGED <<vars, phase, reply, acked, lastAsk>>

\* wait_for_task, from within another call. The waits of a route are limited.
WaitsFor(c, t) ==
    \E timeout \in (IF c \in Route THEN {TRUE} ELSE BOOLEAN) :
        ReturnRecorded(c, t, timeout) \/ StartWait(c, t, timeout)

\* The reply to the submit: PermissionError, or on to the wait at once.
ReplyArrives(c) ==
    /\ goal[c] = "submitting" /\ reply[c] # NoTask
    /\ reply' = [reply EXCEPT ![c] = NoTask]
    /\ IF reply[c] = Refused
       THEN Moves(c, "refused") /\ UNCHANGED <<vars, lastAsk>>
       ELSE /\ Moves(c, "waiting")
            /\ lastAsk' = [lastAsk EXCEPT ![c] = reply[c]]
            /\ WaitsFor(c, reply[c])
    /\ UNCHANGED <<server, acked>>

\* A plausible slip: a service call without its timeout.
SubmitWaitsOn(c) == FALSE /\ UNCHANGED allVars

\* ServiceTimeout: the call is over, the request is not.
SubmitTimesOut(c) ==
    /\ goal[c] = "submitting"
    /\ Moves(c, "no answer")
    /\ reply' = [reply EXCEPT ![c] = NoTask]
    /\ UNCHANGED <<vars, server, acked, lastAsk>>

\* A plausible slip: whatever navigate_to returned is taken for an arrival.
NextStageAnyway(c) ==
    /\ stage[c] = 1 /\ goal[c] = "waiting" /\ status[c] = "returned"
    /\ stage' = [stage EXCEPT ![c] = 2]
    /\ goal' = [goal EXCEPT ![c] = "submitting"]
    /\ request' = request \cup {c}
    /\ lastAsk' = [lastAsk EXCEPT ![c] = NoTask]
    /\ UNCHANGED <<vars, phase, reply, acked>>

\* navigate_to returned an arrival, and the second goal is submitted at once.
NextStage(c) ==
    /\ stage[c] = 1 /\ goal[c] = "waiting" /\ status[c] = "returned"
    /\ future[c].state = "succeeded"
    /\ stage' = [stage EXCEPT ![c] = 2]
    /\ goal' = [goal EXCEPT ![c] = "submitting"]
    /\ request' = request \cup {c}
    /\ lastAsk' = [lastAsk EXCEPT ![c] = NoTask]
    /\ UNCHANGED <<vars, phase, reply, acked>>

\* The wait timed out, not the task: cancelling is a call of its own. In its
\* first stage a route does not catch the TimeoutError.
Cancels(c) ==
    /\ stage[c] = 2 /\ goal[c] = "waiting" /\ status[c] = "timed out"
    /\ Moves(c, "cancelling")
    /\ acked' = [acked EXCEPT ![c] = "asked"]
    /\ UNCHANGED <<vars, server, reply, lastAsk>>

\* ServiceTimeout again: the cancel may still reach the coordinator.
CancelTimesOut(c) ==
    /\ goal[c] = "cancelling"
    /\ Moves(c, "no answer to cancel")
    /\ UNCHANGED <<vars, server, reply, acked, lastAsk>>

\* Whatever the answer says, the result is awaited once more.
CancelReturns(c) ==
    /\ goal[c] = "cancelling" /\ acked[c] \in {"yes", "no"}
    /\ Moves(c, "waiting again")
    /\ WaitsFor(c, lastAsk[c])
    /\ UNCHANGED <<server, reply, acked, lastAsk>>

\* The steps of the client that no call of this module takes.
ClientSteps ==
    /\ \/ \E r \in Result : Lose(r) \/ Deliver(r)
       \/ \E c \in Caller : Resume(c) \/ TimeOut(c)
    /\ UNCHANGED <<server, session>>

----
CoordinatorSteps ==
    \/ \E t \in Task, s \in Outcome : TaskEnds(t, s)
    \/ \E c \in Caller : \/ Preempts(c) \/ Refuses(c) \/ AnswersCancel(c)
                         \/ \E t \in Task : Accepts(c, t)

CallerSteps(c) ==
    \/ ReplyArrives(c) \/ SubmitTimesOut(c) \/ CancelReturns(c) \/ CancelTimesOut(c)
    \/ NextStage(c)
    \/ c \in Route /\ Cancels(c)

\* The node has no goal any more: it was refused, got no answer, was told how
\* the last one ended, or let a TimeoutError escape.
Over(c) ==
    \/ goal[c] \in {"refused", "no answer", "no answer to cancel"}
    \/ goal[c] = "waiting again" /\ ~Waiting(c)
    \/ goal[c] = "waiting" /\ status[c] = "returned"
          /\ (stage[c] = 2 \/ future[c].state # "succeeded")
    \/ goal[c] = "waiting" /\ status[c] = "timed out" /\ stage[c] = 1

NavNext ==
    \/ CoordinatorSteps
    \/ \E c \in Caller : Submits(c) \/ CallerSteps(c) \/ Cancels(c)
    \/ ClientSteps

NavSpec == NavInit /\ [][NavNext]_allVars

\* Callbacks and timers of the client run. The coordinator owes nothing.
NavFairSpec ==
    /\ NavSpec
    /\ \A c \in Caller :
          /\ WF_allVars(CallerSteps(c))
          /\ WF_allVars((Resume(c) \/ TimeOut(c)) /\ UNCHANGED <<server, session>>)

----
(* Properties.                                                             *)

\* What a goal's wait returns is how its own task ended at the coordinator, of
\* whichever stage; a caller that was refused has no task of that stage; and
\* canceled=True is not taken back: the task whose cancel was confirmed ends
\* canceled for whoever asks, and for the caller that waits for it once more
\* (client.py:668-676, 737-748).
GoalsEndAsTold ==
    \A c \in Caller :
        /\ goal[c] \in {"waiting", "waiting again"} /\ status[c] = "returned" =>
               future[c] = [task |-> lastAsk[c], state |-> phase[lastAsk[c]]]
        /\ goal[c] \in {"refused", "no answer"} => lastAsk[c] = NoTask /\ ~Waiting(c)
        /\ acked[c] = "yes" => phase[lastAsk[c]] = "canceled"

\* A route is gone on with from an arrival only: the first task has succeeded
\* at the coordinator by the time the second goal is submitted, and was not
\* blocked, preempted or cancelled by another client ("Stage two starts from
\* where this ends, so anything other than SUCCEEDED ends the run",
\* navigate.py:55-61).
StageTwoFromArrival ==
    [][\A c \in Caller : stage'[c] # stage[c] => phase[lastAsk[c]] = "succeeded"]_allVars

\* A route comes to its end, though results are lost and the coordinator may
\* answer nothing at all: every service call and every wait of it is limited
\* (navigate.py:57-84, client.py:78-80, 695, 743).
RouteEnds == \A c \in Route : goal[c] = "submitting" ~> Over(c)
====
