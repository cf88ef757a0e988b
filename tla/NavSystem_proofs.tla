---- MODULE NavSystem_proofs ----
(***************************************************************************)
(* Proofs about NavSystem, for any callers, routes, tasks and histories:   *)
(* every step is one of TaskClient, so that what is proved of the client   *)
(* holds among its callers; and what goals end with is what the            *)
(* coordinator says of their tasks.                                        *)
(***************************************************************************)
EXTENDS NavSystem, TaskClient_proofs

----
(* The inductive invariant.                                                *)

\* What was published is how the task ended, and nothing of a task that runs.
PublishedAsEnded ==
    \A r \in published : r.state \in Outcome /\ phase[r.task] = r.state

\* What a caller holds and waits for, by where its goal is.
GoalFits(c) ==
    /\ goal[c] \in {"idle", "submitting", "refused", "no answer"} =>
           lastAsk[c] = NoTask /\ ~Waiting(c)
    /\ goal[c] \in {"waiting", "waiting again"} =>
           lastAsk[c] \in Task /\ asked[c] = lastAsk[c]
    /\ goal[c] \in {"cancelling", "no answer to cancel"} =>
           lastAsk[c] \in Task /\ ~Waiting(c)
    /\ acked[c] # "none" =>
           goal[c] \in {"cancelling", "no answer to cancel", "waiting again"}

ConfirmedIsCanceled == \A c \in Caller : acked[c] = "yes" => phase[lastAsk[c]] = "canceled"

NavInv ==
    /\ SafetyInv /\ NavTypeOK
    /\ PublishedAsEnded /\ ConfirmedIsCanceled
    /\ \A c \in Caller : GoalFits(c)

----
(* What a step does to the coordinator's tasks.                            *)

\* A task that ran ends, and exactly that is published.
TaskOver ==
    \E t \in Running, s \in Outcome :
        /\ phase' = [phase EXCEPT ![t] = s]
        /\ published' = published \cup {[task |-> t, state |-> s]}

\* A task that was not known runs, and no other one does.
TaskBegins ==
    \E t \in Task :
        /\ Running = {} /\ phase[t] = "unknown"
        /\ phase' = [phase EXCEPT ![t] = "running"]
        /\ UNCHANGED published

\* Neither of what a task is before it ends is among the outcomes.
LEMMA OutcomesAreFinal ==
    Outcome \subseteq TaskState /\ "running" \notin Outcome /\ "unknown" \notin Outcome
BY OutcomeAssumption DEF IsTerminal, TaskState

\* A task ends by a payload that the client's network takes.
LEMMA EndsIsOver ==
    ASSUME NavInv, NEW t \in Running, NEW s \in TaskState \ {"running"}, Ends(t, s)
    PROVE  /\ TaskOver
           /\ \E r \in Result : Publish(r)
<1>1. [task |-> t, state |-> s] \in Result
  BY DEF Running, Result, TaskResult
<1>2. s \in Outcome
  BY DEF Ends, Publish
<1> QED BY <1>1, <1>2 DEF Ends, Publish, TaskOver

\* A wait is a step of the client.
LEMMA WaitsForIsClient ==
    ASSUME NEW c \in Caller, NEW t \in Task, WaitsFor(c, t)
    PROVE  /\ Next
           /\ \E timeout \in BOOLEAN : ReturnRecorded(c, t, timeout) \/ StartWait(c, t, timeout)
BY DEF WaitsFor, Next

\* The coordinator's steps, for the client and for the tasks.
LEMMA CoordinatorStep ==
    ASSUME NavInv, CoordinatorSteps
    PROVE  /\ [Next]_vars
           /\ TaskOver \/ TaskBegins \/ UNCHANGED <<phase, published>>
<1>1. ASSUME NEW t \in Task, NEW s \in Outcome, TaskEnds(t, s)
      PROVE  TaskOver /\ \E r \in Result : Publish(r)
  BY <1>1, EndsIsOver, OutcomesAreFinal DEF TaskEnds
<1>2. ASSUME NEW c \in Caller, Preempts(c)
      PROVE  TaskOver /\ \E r \in Result : Publish(r)
  BY <1>2, EndsIsOver DEF Preempts, TaskState
<1>3. ASSUME NEW c \in Caller, Refuses(c)
      PROVE  UNCHANGED vars /\ UNCHANGED <<phase, published>>
  BY <1>3 DEF Refuses, Answers, vars
<1>4. ASSUME NEW c \in Caller, AnswersCancel(c)
      PROVE  \/ TaskOver /\ \E r \in Result : Publish(r)
             \/ UNCHANGED vars /\ UNCHANGED <<phase, published>>
  BY <1>4, EndsIsOver DEF AnswersCancel, TaskState, vars
<1>5. ASSUME NEW c \in Caller, NEW t \in Task, Accepts(c, t)
      PROVE  TaskBegins /\ UNCHANGED vars
  BY <1>5 DEF Accepts, Answers, TaskBegins, vars
<1> QED BY <1>1, <1>2, <1>3, <1>4, <1>5 DEF CoordinatorSteps, Next

\* The callers' steps: a wait, or nothing of the client, and never a task.
LEMMA CallerStep ==
    ASSUME NavInv, NEW c \in Caller, Submits(c) \/ CallerSteps(c) \/ Cancels(c)
    PROVE  [Next]_vars /\ UNCHANGED <<phase, published>>
<1>1. CASE Submits(c) \/ SubmitTimesOut(c) \/ CancelTimesOut(c) \/ NextStage(c) \/ Cancels(c)
  BY <1>1 DEF Submits, SubmitTimesOut, CancelTimesOut, NextStage, Cancels, server, vars
<1>2. CASE ReplyArrives(c)
  <2>1. CASE reply[c] = Refused
    BY <1>2, <2>1 DEF ReplyArrives, server, vars
  <2>2. CASE reply[c] # Refused
    <3>1. reply[c] \in Task /\ WaitsFor(c, reply[c]) /\ UNCHANGED phase
      BY <1>2, <2>2 DEF ReplyArrives, server, NavInv, NavTypeOK
    <3> QED BY <3>1, WaitsForIsClient DEF ReturnRecorded, StartWait, network
  <2> QED BY <2>1, <2>2
<1>3. CASE CancelReturns(c)
  <2>1. lastAsk[c] \in Task /\ WaitsFor(c, lastAsk[c]) /\ UNCHANGED phase
    BY <1>3 DEF CancelReturns, server, NavInv, GoalFits
  <2> QED BY <2>1, WaitsForIsClient DEF ReturnRecorded, StartWait, network
<1> QED BY <1>1, <1>2, <1>3 DEF CallerSteps

\* Deliveries, losses, timers and resumptions.
LEMMA ClientStep ==
    ASSUME ClientSteps PROVE Next /\ UNCHANGED <<phase, published>>
BY DEF ClientSteps, Next, server, Lose, Deliver, Resume, TimeOut, network

\* Every step of the system is one of the client or leaves it alone.
LEMMA NavStepIsClient == ASSUME NavInv, [NavNext]_allVars PROVE [Next]_vars
<1>1. CASE UNCHANGED allVars
  BY <1>1 DEF allVars
<1> QED BY <1>1, CoordinatorStep, CallerStep, ClientStep DEF NavNext

\* And it ends a task, begins one, or does nothing to tasks.
LEMMA NavStepOfTasks ==
    ASSUME NavInv, [NavNext]_allVars
    PROVE  TaskOver \/ TaskBegins \/ UNCHANGED <<phase, published>>
<1>1. CASE UNCHANGED allVars
  BY <1>1 DEF allVars, vars, server
<1> QED BY <1>1, CoordinatorStep, CallerStep, ClientStep DEF NavNext

----
(* The steps.                                                              *)

\* Nobody has a goal, nothing ran.
LEMMA NavInitInv == NavInit => NavInv
<1> SUFFICES ASSUME NavInit PROVE NavInv
  OBVIOUS
<1>1. SafetyInv
  BY InitSafety DEF NavInit
<1>2. NavTypeOK
  BY <1>1 DEF SafetyInv, NavInit, NavTypeOK, Goal
<1>3. PublishedAsEnded /\ ConfirmedIsCanceled
  BY DEF NavInit, Init, PublishedAsEnded, ConfirmedIsCanceled
<1>4. ASSUME NEW c \in Caller PROVE GoalFits(c)
  BY DEF NavInit, Init, GoalFits, Waiting
<1> QED BY <1>1, <1>2, <1>3, <1>4 DEF NavInv

\* Tasks end once: what is over stays what it was, and was published as that.
LEMMA TasksInv ==
    ASSUME NavInv, TaskOver \/ TaskBegins \/ UNCHANGED <<phase, published>>
    PROVE  /\ phase' \in [Task -> {"unknown", "running"} \cup Outcome]
           /\ PublishedAsEnded'
           /\ \A t \in Task : phase[t] \in Outcome => phase'[t] = phase[t]
<1>1. /\ phase \in [Task -> {"unknown", "running"} \cup Outcome]
      /\ published \subseteq Result
      /\ "running" \notin Outcome /\ "unknown" \notin Outcome
  BY OutcomesAreFinal DEF NavInv, NavTypeOK, TypeOK
<1>2. CASE TaskOver
  <2>1. PICK t \in Running, s \in Outcome :
            /\ phase' = [phase EXCEPT ![t] = s]
            /\ published' = published \cup {[task |-> t, state |-> s]}
    BY <1>2 DEF TaskOver
  <2>2. t \in Task /\ phase[t] = "running"
    BY DEF Running
  <2>3. PublishedAsEnded'
    BY <1>1, <2>1, <2>2 DEF NavInv, PublishedAsEnded, Result, TaskResult
  <2> QED BY <1>1, <2>1, <2>2, <2>3
<1>3. CASE TaskBegins
  BY <1>1, <1>3 DEF TaskBegins, NavInv, PublishedAsEnded, Result, TaskResult
<1>4. CASE UNCHANGED <<phase, published>>
  BY <1>1, <1>4 DEF NavInv, PublishedAsEnded
<1> QED BY <1>2, <1>3, <1>4

\* A confirmed cancel is not taken back, as long as its caller holds the task.
LEMMA ConfirmedStays ==
    ASSUME NavInv, TaskOver \/ TaskBegins \/ UNCHANGED <<phase, published>>,
           NEW c \in Caller, acked[c] = "yes", lastAsk'[c] = lastAsk[c]
    PROVE  phase'[lastAsk'[c]] = "canceled"
<1>1. lastAsk[c] \in Task /\ phase[lastAsk[c]] = "canceled"
  BY DEF NavInv, GoalFits, ConfirmedIsCanceled
<1>2. "canceled" \in Outcome
  BY <1>1 DEF NavInv, NavTypeOK
<1> QED BY <1>1, <1>2, TasksInv

\* What the coordinator answers is typed, and a yes is of a task it has ended.
LEMMA CoordinatorInv ==
    ASSUME NavInv, CoordinatorSteps
    PROVE  /\ request' \subseteq Caller
           /\ reply' \in [Caller -> Task \cup {Refused, NoTask}]
           /\ acked' \in [Caller -> {"none", "asked", "yes", "no"}]
           /\ UNCHANGED <<stage, goal, lastAsk>>
           /\ \A c \in Caller : GoalFits(c)'
           /\ ConfirmedIsCanceled'
<1>0. NavTypeOK /\ (\A c \in Caller : GoalFits(c))
  BY DEF NavInv
<1>1. ASSUME NEW c \in Caller, AnswersCancel(c)
      PROVE  /\ UNCHANGED <<request, stage, goal, reply, lastAsk, status, asked>>
             /\ acked[c] = "asked"
             /\ \/ acked' = [acked EXCEPT ![c] = "no"]
                \/ acked' = [acked EXCEPT ![c] = "yes"] /\ phase'[lastAsk[c]] = "canceled"
  BY <1>0, <1>1 DEF AnswersCancel, Ends, Publish, call, vars, Running, NavTypeOK
<1>2. ASSUME ~\E c \in Caller : AnswersCancel(c)
      PROVE  /\ UNCHANGED <<stage, goal, lastAsk, acked, status, asked>>
             /\ request' \subseteq Caller
             /\ reply' \in [Caller -> Task \cup {Refused, NoTask}]
  <2>1. ASSUME NEW c \in Caller, NEW answer \in Task \cup {Refused}, Answers(c, answer)
        PROVE  /\ UNCHANGED <<stage, goal, lastAsk, acked, status, asked>>
               /\ request' \subseteq Caller
               /\ reply' \in [Caller -> Task \cup {Refused, NoTask}]
    BY <1>0, <2>1 DEF Answers, NavTypeOK, vars
  <2>2. ASSUME NEW t \in Task, NEW s \in TaskState, Ends(t, s), UNCHANGED <<request, session>>
        PROVE  /\ UNCHANGED <<stage, goal, lastAsk, acked, status, asked>>
               /\ request' \subseteq Caller
               /\ reply' \in [Caller -> Task \cup {Refused, NoTask}]
    BY <1>0, <2>2 DEF Ends, Publish, call, session, NavTypeOK
  <2>3. CASE \E t \in Task, s \in Outcome : TaskEnds(t, s)
    BY <2>2, <2>3, OutcomesAreFinal DEF TaskEnds
  <2>4. CASE \E c \in Caller : Preempts(c)
    BY <2>2, <2>4 DEF Preempts, Running, TaskState
  <2>5. CASE \E c \in Caller : Refuses(c) \/ \E t \in Task : Accepts(c, t)
    BY <2>1, <2>5 DEF Refuses, Accepts
  <2> QED BY <1>2, <2>3, <2>4, <2>5 DEF CoordinatorSteps
<1>3. CASE \E c \in Caller : AnswersCancel(c)
  <2>1. PICK c \in Caller : AnswersCancel(c)
    BY <1>3
  <2>2. \A d \in Caller : GoalFits(d)'
    BY <1>0, <1>1, <2>1 DEF GoalFits, Waiting, NavTypeOK
  <2>3. ASSUME NEW d \in Caller, acked'[d] = "yes" PROVE phase'[lastAsk'[d]] = "canceled"
    <3>1. lastAsk'[d] = lastAsk[d] /\ (acked[d] = "yes" \/ d = c)
      BY <1>0, <1>1, <2>1, <2>3 DEF NavTypeOK
    <3>2. CASE acked[d] = "yes"
      BY <3>1, <3>2, CoordinatorStep, ConfirmedStays
    <3>3. CASE d = c /\ acked[d] # "yes"
      BY <1>0, <1>1, <2>1, <2>3, <3>1, <3>3 DEF NavTypeOK
    <3> QED BY <3>1, <3>2, <3>3
  <2> QED BY <1>0, <1>1, <2>1, <2>2, <2>3 DEF ConfirmedIsCanceled, NavTypeOK
<1>4. CASE ~\E c \in Caller : AnswersCancel(c)
  <2>1. UNCHANGED <<stage, goal, lastAsk, acked, status, asked>>
    BY <1>2, <1>4
  <2>2. \A c \in Caller : GoalFits(c)'
    BY <1>0, <2>1 DEF GoalFits, Waiting
  <2>3. ConfirmedIsCanceled'
    BY <2>1, CoordinatorStep, ConfirmedStays DEF ConfirmedIsCanceled
  <2> QED BY <1>0, <1>2, <1>4, <2>1, <2>2, <2>3 DEF NavTypeOK
<1> QED BY <1>3, <1>4

\* What is left to show of a step that a caller takes: its own goal, whatever the
\* other callers are at.
OwnOK ==
    /\ request \subseteq Caller
    /\ stage \in [Caller -> {1, 2}]
    /\ goal \in [Caller -> Goal]
    /\ reply \in [Caller -> Task \cup {Refused, NoTask}]
    /\ acked \in [Caller -> {"none", "asked", "yes", "no"}]
    /\ lastAsk \in [Caller -> Task \cup {NoTask}]

\* A call that is made, has got no answer, or goes on to its second stage.
LEMMA CallInv ==
    ASSUME NavInv, NEW c \in Caller,
           Submits(c) \/ SubmitTimesOut(c) \/ NextStage(c) \/ Cancels(c) \/ CancelTimesOut(c)
    PROVE  OwnOK' /\ (\A d \in Caller : GoalFits(d)') /\ ConfirmedIsCanceled'
<1>0. /\ OwnOK /\ (\A d \in Caller : GoalFits(d)) /\ ConfirmedIsCanceled
      /\ UNCHANGED <<vars, phase>>
  BY DEF NavInv, NavTypeOK, OwnOK, Submits, SubmitTimesOut, NextStage, Cancels, CancelTimesOut, server
<1>1. UNCHANGED <<status, asked>>
  BY <1>0 DEF vars
<1>2. CASE Submits(c)
  BY <1>0, <1>1, <1>2 DEF Submits, Moves, OwnOK, Goal, GoalFits, Waiting, ConfirmedIsCanceled
<1>3. CASE SubmitTimesOut(c)
  BY <1>0, <1>1, <1>3 DEF SubmitTimesOut, Moves, server, OwnOK, Goal, GoalFits, Waiting, ConfirmedIsCanceled
<1>4. CASE NextStage(c)
  <2>1. acked[c] = "none"
    BY <1>0, <1>4 DEF NextStage, GoalFits
  <2>2. OwnOK'
    BY <1>0, <1>4 DEF NextStage, OwnOK, Goal
  <2>3. ASSUME NEW d \in Caller PROVE GoalFits(d)'
    BY <1>0, <1>1, <1>4, <2>1 DEF NextStage, OwnOK, GoalFits, Waiting
  <2>4. ConfirmedIsCanceled'
    BY <1>0, <1>4, <2>1 DEF NextStage, OwnOK, ConfirmedIsCanceled
  <2> QED BY <2>2, <2>3, <2>4
<1>5. CASE Cancels(c)
  BY <1>0, <1>1, <1>5 DEF Cancels, Moves, server, OwnOK, Goal, GoalFits, Waiting, ConfirmedIsCanceled
<1>6. CASE CancelTimesOut(c)
  BY <1>0, <1>1, <1>6 DEF CancelTimesOut, Moves, server, OwnOK, Goal, GoalFits, Waiting, ConfirmedIsCanceled
<1> QED BY <1>2, <1>3, <1>4, <1>5, <1>6

\* A wait changes what its caller asked for, and nothing of the others.
LEMMA WaitAsks ==
    ASSUME NavInv, NEW c \in Caller, NEW t \in Task, WaitsFor(c, t)
    PROVE  /\ asked'[c] = t
           /\ \A d \in Caller \ {c} : asked'[d] = asked[d] /\ status'[d] = status[d]
<1>1. PICK timeout \in BOOLEAN : ReturnRecorded(c, t, timeout) \/ StartWait(c, t, timeout)
  BY WaitsForIsClient
<1> QED BY <1>1 DEF NavInv, NavTypeOK, TypeOK, ReturnRecorded, StartWait

\* The reply to a submit: the task that is waited for is the one the caller has
\* the handle of.
LEMMA ReplyInv ==
    ASSUME NavInv, NEW c \in Caller, ReplyArrives(c)
    PROVE  OwnOK' /\ (\A d \in Caller : GoalFits(d)') /\ ConfirmedIsCanceled'
<1>0. /\ OwnOK /\ (\A d \in Caller : GoalFits(d)) /\ ConfirmedIsCanceled
      /\ UNCHANGED <<phase, request, stage, acked>> /\ acked[c] = "none"
      /\ goal[c] = "submitting" /\ reply[c] # NoTask
      /\ reply' = [reply EXCEPT ![c] = NoTask]
  BY DEF NavInv, NavTypeOK, OwnOK, ReplyArrives, Moves, server, GoalFits
<1>1. CASE reply[c] = Refused
  <2>1. goal' = [goal EXCEPT ![c] = "refused"] /\ UNCHANGED <<lastAsk, status, asked>>
    BY <1>1 DEF ReplyArrives, Moves, vars
  <2> QED BY <1>0, <2>1 DEF OwnOK, Goal, GoalFits, Waiting, ConfirmedIsCanceled
<1>2. CASE reply[c] # Refused
  <2>1. /\ reply[c] \in Task
        /\ goal' = [goal EXCEPT ![c] = "waiting"]
        /\ lastAsk' = [lastAsk EXCEPT ![c] = reply[c]]
        /\ WaitsFor(c, reply[c])
    BY <1>0, <1>2 DEF ReplyArrives, Moves, OwnOK
  <2>2. asked'[c] = reply[c] /\ \A d \in Caller \ {c} : asked'[d] = asked[d] /\ status'[d] = status[d]
    BY <2>1, WaitAsks
  <2>3. OwnOK'
    BY <1>0, <2>1 DEF OwnOK, Goal
  <2>4. ASSUME NEW d \in Caller PROVE GoalFits(d)'
    BY <1>0, <2>1, <2>2 DEF OwnOK, GoalFits, Waiting
  <2>5. ConfirmedIsCanceled'
    BY <1>0, <2>1 DEF OwnOK, ConfirmedIsCanceled
  <2> QED BY <2>3, <2>4, <2>5
<1> QED BY <1>1, <1>2

\* The second wait is for the task that was cancelled.
LEMMA CancelReturnsInv ==
    ASSUME NavInv, NEW c \in Caller, CancelReturns(c)
    PROVE  OwnOK' /\ (\A d \in Caller : GoalFits(d)') /\ ConfirmedIsCanceled'
<1>1. /\ OwnOK /\ (\A d \in Caller : GoalFits(d)) /\ ConfirmedIsCanceled
      /\ UNCHANGED <<phase, request, stage, reply, acked, lastAsk>>
      /\ goal' = [goal EXCEPT ![c] = "waiting again"]
      /\ lastAsk[c] \in Task /\ WaitsFor(c, lastAsk[c])
  BY DEF NavInv, NavTypeOK, OwnOK, CancelReturns, Moves, server, GoalFits
<1>2. asked'[c] = lastAsk[c] /\ \A d \in Caller \ {c} : asked'[d] = asked[d] /\ status'[d] = status[d]
  BY <1>1, WaitAsks
<1>3. OwnOK' /\ ConfirmedIsCanceled'
  BY <1>1 DEF OwnOK, Goal, ConfirmedIsCanceled
<1>4. ASSUME NEW d \in Caller PROVE GoalFits(d)'
  BY <1>1, <1>2 DEF OwnOK, GoalFits, Waiting
<1> QED BY <1>3, <1>4

\* The client ends waits and starts none by itself.
LEMMA ClientInv ==
    ASSUME NavInv, ClientSteps
    PROVE  OwnOK' /\ (\A d \in Caller : GoalFits(d)') /\ ConfirmedIsCanceled'
<1>1. /\ OwnOK /\ (\A d \in Caller : GoalFits(d)) /\ ConfirmedIsCanceled
      /\ UNCHANGED <<phase, request, stage, goal, reply, acked, lastAsk>>
  BY DEF NavInv, NavTypeOK, OwnOK, ClientSteps, server, session
<1>2. /\ asked' = asked
      /\ \A d \in Caller : ~Waiting(d) => ~Waiting(d)'
  <2>1. ASSUME NEW c \in Caller, Resume(c) \/ TimeOut(c)
        PROVE  asked' = asked /\ \A d \in Caller : ~Waiting(d) => ~Waiting(d)'
    BY <2>1 DEF Resume, TimeOut, Leave, Waiting, NavInv, NavTypeOK, TypeOK
  <2>2. ASSUME NEW r \in Result, Lose(r) \/ Deliver(r) PROVE UNCHANGED <<asked, status>>
    BY <2>2 DEF Lose, Deliver, call
  <2> QED BY <2>1, <2>2 DEF ClientSteps, Waiting
<1>3. OwnOK' /\ ConfirmedIsCanceled'
  BY <1>1 DEF OwnOK, ConfirmedIsCanceled
<1>4. ASSUME NEW d \in Caller PROVE GoalFits(d)'
  BY <1>1, <1>2 DEF GoalFits
<1> QED BY <1>3, <1>4

\* Every step keeps the invariant: the client's part by TaskClient's proof, the
\* tasks by what a step does to them, the callers' one by one.
LEMMA NavStepInv == NavInv /\ [NavNext]_allVars => NavInv'
<1> SUFFICES ASSUME NavInv, [NavNext]_allVars PROVE NavInv'
  OBVIOUS
<1>1. SafetyInv'
  BY NavStepIsClient, NextSafety DEF NavInv
<1>2. phase' \in [Task -> {"unknown", "running"} \cup Outcome] /\ PublishedAsEnded'
  BY NavStepOfTasks, TasksInv
<1>3. OwnOK' /\ (\A d \in Caller : GoalFits(d)') /\ ConfirmedIsCanceled'
  <2>1. CASE CoordinatorSteps
    BY <2>1, CoordinatorInv DEF OwnOK, NavInv, NavTypeOK
  <2>2. CASE ClientSteps
    BY <2>2, ClientInv
  <2>3. ASSUME NEW c \in Caller, Submits(c) \/ CallerSteps(c) \/ Cancels(c)
        PROVE  OwnOK' /\ (\A d \in Caller : GoalFits(d)') /\ ConfirmedIsCanceled'
    BY <2>3, CallInv, ReplyInv, CancelReturnsInv DEF CallerSteps
  <2>4. CASE UNCHANGED allVars
    BY <2>4 DEF allVars, vars, server, session, NavInv, NavTypeOK, OwnOK, GoalFits, Waiting, ConfirmedIsCanceled
  <2> QED BY <2>1, <2>2, <2>3, <2>4 DEF NavNext
<1> QED BY <1>1, <1>2, <1>3 DEF NavInv, NavTypeOK, OwnOK, SafetyInv

\* A route changes its stage in one place.
LEMMA OnlyNextStage ==
    ASSUME NavInv, NavNext, NEW c \in Caller, stage'[c] # stage[c] PROVE NextStage(c)
<1>1. ASSUME NEW d \in Caller, NextStage(d) PROVE d = c
  BY <1>1 DEF NextStage, NavInv, NavTypeOK
<1>2. ASSUME NEW d \in Caller,
             \/ Submits(d) \/ ReplyArrives(d) \/ SubmitTimesOut(d) \/ CancelReturns(d)
             \/ CancelTimesOut(d) \/ Cancels(d)
      PROVE  FALSE
  BY <1>2 DEF Submits, ReplyArrives, SubmitTimesOut, CancelReturns, CancelTimesOut, Cancels, Moves
<1>3. ~CoordinatorSteps
  BY CoordinatorInv
<1>4. ~ClientSteps
  BY DEF ClientSteps, session
<1> QED BY <1>1, <1>2, <1>3, <1>4 DEF NavNext, CallerSteps

----
(* The theorems.                                                           *)

\* Among callers, routes, cancels and a coordinator of any speed, the
\* strengthened invariant holds.
THEOREM NavInvariant == NavSpec => []NavInv
BY NavInitInv, NavStepInv, PTL DEF NavSpec

\* Whatever the callers do with the client is what TaskClient allows: the results
\* proved about it are results about the system.
THEOREM NavIsTaskClient == NavSpec => Spec
<1>1. NavInit => Init
  BY DEF NavInit
<1>2. NavInv /\ [NavNext]_allVars => [Next]_vars
  BY NavStepIsClient
<1> QED BY <1>1, <1>2, NavInvariant, PTL DEF NavSpec, Spec

\* With one waiter per task, no wait of the system sleeps over a result on record
\* (client.py:726-731 against 794-799).
THEOREM NavWakesNotLost == ASSUME ~SharedWaits PROVE NavSpec => []RecordedResultWakes
BY NavIsTaskClient, WakesNotLost, PTL

\* What a goal's wait returns is the end of its own task at the coordinator, and
\* a confirmed cancel stands (client.py:668-676, 737-748).
THEOREM GoalsAreTold == NavSpec => []GoalsEndAsTold
<1>1. NavInv => GoalsEndAsTold
  <2> SUFFICES ASSUME NavInv, NEW c \in Caller
               PROVE  /\ goal[c] \in {"waiting", "waiting again"} /\ status[c] = "returned" =>
                             future[c] = [task |-> lastAsk[c], state |-> phase[lastAsk[c]]]
                      /\ goal[c] \in {"refused", "no answer"} => lastAsk[c] = NoTask /\ ~Waiting(c)
                      /\ acked[c] = "yes" => phase[lastAsk[c]] = "canceled"
    BY DEF GoalsEndAsTold
  <2>1. ASSUME goal[c] \in {"waiting", "waiting again"}, status[c] = "returned"
        PROVE  future[c] = [task |-> lastAsk[c], state |-> phase[lastAsk[c]]]
    <3>1. future[c] \in published /\ future[c].task = asked[c] /\ asked[c] = lastAsk[c]
      BY <2>1 DEF NavInv, SafetyInv, FuturesAreTrue, ReturnsHaveResults, GoalFits
    <3>2. future[c] \in Result /\ phase[future[c].task] = future[c].state
      BY <3>1 DEF NavInv, SafetyInv, TypeOK, PublishedAsEnded
    <3> QED BY <3>1, <3>2 DEF Result, TaskResult
  <2> QED BY <2>1 DEF NavInv, GoalFits, ConfirmedIsCanceled
<1> QED BY <1>1, NavInvariant, PTL

\* A route goes on from an arrival only (navigate.py:55-61).
THEOREM StageTwoIsFromArrival == NavSpec => StageTwoFromArrival
<1>1. GoalsEndAsTold /\ NavInv /\ [NavNext]_allVars =>
          [\A c \in Caller : stage'[c] # stage[c] => phase[lastAsk[c]] = "succeeded"]_allVars
  <2> SUFFICES ASSUME GoalsEndAsTold, NavInv, NavNext, NEW c \in Caller, stage'[c] # stage[c]
               PROVE  phase[lastAsk[c]] = "succeeded"
    OBVIOUS
  <2>1. NextStage(c)
    BY OnlyNextStage
  <2>2. goal[c] = "waiting" /\ status[c] = "returned" /\ future[c].state = "succeeded"
    BY <2>1 DEF NextStage
  <2>3. future[c] = [task |-> lastAsk[c], state |-> phase[lastAsk[c]]]
    BY <2>2 DEF GoalsEndAsTold
  <2> QED BY <2>2, <2>3
<1> QED BY <1>1, NavInvariant, GoalsAreTold, PTL DEF NavSpec, StageTwoFromArrival
====
