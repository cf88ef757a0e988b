---- MODULE FakeNav ----
(***************************************************************************)
(* FakeNav, the double of the navigation coordinator in testing.py: one    *)
(* task at a time, a runner coroutine per task, and submit, cancel and     *)
(* finish handlers that talk to the runner through one event.              *)
(*                                                                         *)
(* Whether a preempting submit really displaces the running task is        *)
(* decided by the order of callbacks in asyncio's ready queue, so the      *)
(* queue is part of the model: a step of the loop takes its head.  The     *)
(* attribute _finished always is the event of the task accepted last, so   *)
(* events are named by the task they were made for (0: on_start's).        *)
(***************************************************************************)
EXTENDS TaskStates, Naturals, FiniteSets, Sequences, SequencesExt

CONSTANTS
    MaxTasks,    \* bound: submits that are accepted
    Duration,    \* passes of the feedback loop before a task finishes itself
    Loops,       \* the event loops the double runs on, see wakeHops
    Displacing,  \* those on which a submit may come while a task is running
    Serving,     \* whether submits are served one at a time, see serial
    AutoState,   \* values of result_state
    TestState    \* states a test passes to finish()

ASSUME BoundsAssumption == MaxTasks \in Nat /\ Duration \in Nat
ASSUME LoopsAssumption == Loops \subseteq Nat \ {0} /\ Displacing \subseteq Loops
ASSUME ServingAssumption == Serving \subseteq BOOLEAN
ASSUME StatesAssumption == \A s \in AutoState \cup TestState : s \in TaskState /\ IsTerminal(s)

VARIABLES
    wakeHops,    \* passes through the ready queue from Event.set to a runner
                 \* suspended in wait_for: 1 since Python 3.12, 3 in 3.11
    autoFinish,  \* auto_finish
    serial,      \* the framework serves a submit to its end before the next one
    accepted,    \* len(goals), and the name of the current _finished event
    active,      \* _active_id, 0 for None
    ending,      \* _ending
    isSet,       \* the events that are set
    results,     \* _results
    runner,      \* where the coroutine _run of each task is
    awaits,      \* the event it is suspended on
    elapsed,     \* its local variable, in feedback periods
    ready,       \* the ready queue of the event loop
    wire,        \* what was published on result keys, in order
    acked,       \* tasks whose cancel was answered with canceled=True
    byHand,      \* tasks that were finished by the test itself
    overlaps     \* submits that found another one between its two halves

audit == <<acked, byHand>>
setup == <<wakeHops, autoFinish, serial>>
vars == <<wakeHops, autoFinish, serial, accepted, active, ending, isSet, results, runner, awaits,
          elapsed, ready, wire, acked, byHand, overlaps>>

Tasks    == 1 .. MaxTasks
NoResult == [task |-> 0, state |-> "running"]
Result   == TaskResult(Tasks, TaskState \ {"running"})
RunnerAt == {"none", "scheduled", "suspended", "ended"}
Handle   == [kind : {"run"}, task : Tasks, hops : 1 .. wakeHops]
            \cup [kind : {"submit"}, task : {0}, hops : {1}]

TypeOK ==
    /\ wakeHops \in Loops
    /\ autoFinish \in BOOLEAN
    /\ serial \in Serving
    /\ accepted \in 0 .. MaxTasks
    /\ active \in 0 .. MaxTasks
    /\ ending \in Result \cup {NoResult}
    /\ isSet \subseteq 0 .. MaxTasks
    /\ results \in [Tasks -> Result \cup {NoResult}]
    /\ runner \in [Tasks -> RunnerAt]
    /\ awaits \in [Tasks -> 0 .. MaxTasks]
    /\ elapsed \in [Tasks -> 0 .. Duration]
    /\ ready \in Seq(Handle)
    /\ wire \in Seq([key : Tasks, result : Result])
    /\ acked \subseteq Tasks
    /\ byHand \subseteq Tasks
    /\ overlaps \in 0 .. MaxTasks

Init ==
    /\ wakeHops \in Loops
    /\ autoFinish \in BOOLEAN
    /\ serial \in Serving
    /\ accepted = 0
    /\ active = 0
    /\ ending = NoResult
    /\ isSet = {}
    /\ results = [t \in Tasks |-> NoResult]
    /\ runner = [t \in Tasks |-> "none"]
    /\ awaits = [t \in Tasks |-> 0]
    /\ elapsed = [t \in Tasks |-> 0]
    /\ ready = <<>>
    /\ wire = <<>>
    /\ acked = {}
    /\ byHand = {}
    /\ overlaps = 0

----
(* The event loop.                                                         *)

RunHandle(t, hops) == [kind |-> "run", task |-> t, hops |-> hops]
SubmitHandle       == [kind |-> "submit", task |-> 0, hops |-> 1]

Live(t) == runner[t] \in {"scheduled", "suspended"}

\* The runners that Event.set finds suspended on event e.
WokenBy(e) == {t \in Tasks : runner[t] = "suspended" /\ awaits[t] = e}

\* A plausible slip: the submit is scheduled ahead of the runner it displaces.
RouseLate(queue, last) ==
    \E woken \in SetToSeqs(WokenBy(accepted)) :
        ready' = queue \o last \o [i \in DOMAIN woken |-> RunHandle(woken[i], wakeHops)]

\* The current event is set: its waiters are scheduled behind the queue, with
\* last behind them.
Rouse(queue, last) ==
    \E woken \in SetToSeqs(WokenBy(accepted)) :
        ready' = queue \o [i \in DOMAIN woken |-> RunHandle(woken[i], wakeHops)] \o last

Roused == [t \in Tasks |-> IF t \in WokenBy(accepted) THEN "scheduled" ELSE runner[t]]

\* A plausible slip: the ending is written and the event is not set.
FinishSilently(s, last) ==
    /\ active # 0
    /\ ending' = [task |-> active, state |-> s]
    /\ ready' = ready \o last
    /\ UNCHANGED <<setup, accepted, active, isSet, runner, awaits, elapsed, results, wire>>

\* finish(s) with a task active, called between two handles of the queue.
Finish(s, last) ==
    /\ active # 0
    /\ ending' = [task |-> active, state |-> s]
    /\ isSet' = isSet \cup {accepted}
    /\ runner' = Roused
    /\ Rouse(ready, last)
    /\ UNCHANGED <<setup, accepted, active, awaits, elapsed, results, wire>>

----
(* The served handlers, and finish() called by a test.  A refused submit,  *)
(* a cancel of another task and a finish() with no task change nothing.    *)

\* A plausible slip: the new task reuses the event of the one before it.
StartTaskOldEvent(queue) ==
    /\ accepted' = accepted + 1
    /\ active' = accepted + 1
    /\ ending' = NoResult
    /\ isSet' = IF accepted \in isSet THEN isSet \cup {accepted + 1} ELSE isSet
    /\ runner' = [runner EXCEPT ![accepted + 1] = "scheduled"]
    /\ ready' = Append(queue, RunHandle(accepted + 1, 1))
    /\ UNCHANGED <<setup, awaits, elapsed, results, wire, audit>>

\* The second half of on_submit: a new id, a new event, a new runner.
StartTask(queue) ==
    /\ accepted' = accepted + 1
    /\ active' = accepted + 1
    /\ ending' = NoResult
    /\ runner' = [runner EXCEPT ![accepted + 1] = "scheduled"]
    /\ ready' = Append(queue, RunHandle(accepted + 1, 1))
    /\ UNCHANGED <<setup, isSet, awaits, elapsed, results, wire, audit>>

\* The submits that sleep, by their place in the queue, and their number.
Sleeping == {i \in DOMAIN ready : ready[i] = SubmitHandle}
Pending  == Cardinality(Sleeping)

\* A submit is served, at most MaxTasks are accepted, and one that is served
\* while another sleeps is counted.
Served ==
    /\ accepted + Pending < MaxTasks
    /\ serial => Pending = 0
    /\ overlaps' = IF Pending = 0 THEN overlaps ELSE overlaps + 1

\* A plausible slip: starting without looking at the active task.
OnSubmitBlind == Served /\ StartTask(ready)

OnSubmitIdle == Served /\ active = 0 /\ StartTask(ready)

\* finish(CANCELED), then sleep(0) "to let the runner observe it".
OnSubmitPreempts ==
    /\ Served
    /\ wakeHops \in Displacing
    /\ Finish("canceled", <<SubmitHandle>>)
    /\ UNCHANGED audit

\* The submit comes back from sleep(0) and does not look again.
OnSubmitResumes ==
    /\ ready # <<>>
    /\ Head(ready) = SubmitHandle
    /\ StartTask(Tail(ready))
    /\ UNCHANGED overlaps

OnCancel ==
    /\ Finish("canceled", <<>>)
    /\ acked' = acked \cup {active}
    /\ UNCHANGED <<byHand, overlaps>>

TestFinishes(s) ==
    /\ Finish(s, <<>>)
    /\ byHand' = byHand \cup {active}
    /\ UNCHANGED <<acked, overlaps>>

----
(* The runner.                                                             *)

\* The last lines of _run: whatever was running, nothing is now.
End(t, final) ==
    /\ active' = 0
    /\ results' = [results EXCEPT ![t] = final]
    /\ wire' = Append(wire, [key |-> t, result |-> final])
    /\ UNCHANGED <<setup, accepted, awaits, elapsed, audit, overlaps>>

AtHead(t) == ready # <<>> /\ Head(ready) = RunHandle(t, 1)

\* The event is set: _ending says how the task ended.
RunObserves(t) ==
    /\ AtHead(t)
    /\ accepted \in isSet
    /\ ready' = Tail(ready)
    /\ runner' = [runner EXCEPT ![t] = "ended"]
    /\ End(t, ending)
    /\ UNCHANGED <<ending, isSet>>

Due(t) == autoFinish /\ elapsed[t] >= Duration

\* A plausible slip: a task that is due finishes before it looks at the event.
RunFinishesFirst(t, s) ==
    /\ AtHead(t)
    /\ Due(t)
    /\ ending' = [task |-> active, state |-> s]
    /\ isSet' = isSet \cup {accepted}
    /\ ready' = Tail(ready)
    /\ runner' = [runner EXCEPT ![t] = "ended"]
    /\ End(t, ending')

\* The task finishes itself: finish(result_state) ends the active task, and
\* does nothing when there is none.
RunFinishes(t, s) ==
    /\ AtHead(t)
    /\ accepted \notin isSet
    /\ Due(t)
    /\ IF active # 0
       THEN /\ ending' = [task |-> active, state |-> s]
            /\ isSet' = isSet \cup {accepted}
            /\ Rouse(Tail(ready), <<>>)
       ELSE /\ ready' = Tail(ready)
            /\ UNCHANGED <<ending, isSet>>
    /\ runner' = [Roused EXCEPT ![t] = "ended"]
    /\ End(t, ending')

\* One frame of feedback, then wait_for(event, feedback_period).
RunWaits(t) ==
    /\ AtHead(t)
    /\ accepted \notin isSet
    /\ ~Due(t)
    /\ ready' = Tail(ready)
    /\ runner' = [runner EXCEPT ![t] = "suspended"]
    /\ awaits' = [awaits EXCEPT ![t] = accepted]
    /\ elapsed' = [elapsed EXCEPT ![t] = IF @ < Duration THEN @ + 1 ELSE @]
    /\ UNCHANGED <<setup, accepted, active, ending, isSet, results, wire, audit, overlaps>>

\* The feedback period is over.
Timer(t) ==
    /\ runner[t] = "suspended"
    /\ runner' = [runner EXCEPT ![t] = "scheduled"]
    /\ ready' = Append(ready, RunHandle(t, wakeHops))
    /\ UNCHANGED <<setup, accepted, active, ending, isSet, awaits, elapsed, results, wire,
                   audit, overlaps>>

\* A wake-up that has further to travel goes behind what is ready now.
Hop ==
    /\ ready # <<>>
    /\ Head(ready).hops > 1
    /\ ready' = Append(Tail(ready), [Head(ready) EXCEPT !.hops = @ - 1])
    /\ UNCHANGED <<setup, accepted, active, ending, isSet, runner, awaits, elapsed,
                   results, wire, audit, overlaps>>

----
RunnerStep ==
    \E t \in Tasks : RunObserves(t) \/ RunWaits(t) \/ \E s \in AutoState : RunFinishes(t, s)

LoopStep == OnSubmitResumes \/ RunnerStep \/ Hop

Request == OnSubmitIdle \/ OnSubmitPreempts \/ OnCancel \/ \E s \in TestState : TestFinishes(s)

Next == LoopStep \/ Request \/ \E t \in Tasks : Timer(t)

Spec == Init /\ [][Next]_vars

\* The loop takes what is ready and fires the timers that are due. Nobody has
\* to submit, cancel or finish anything.
DoubleFairness == WF_vars(LoopStep) /\ \A t \in Tasks : WF_vars(Timer(t))

----
(* Properties.                                                             *)

\* One task at a time: the runner of a task is alive only while that task is
\* the active one, so no second runner streams feedback or can end. A submit
\* that is served while another one sleeps costs that, and never more than one
\* runner each (testing.py:71-72; the wait is testing.py:140-146).
OneTaskAtATime ==
    /\ overlaps = 0 => \A t \in Tasks : Live(t) => active = t
    /\ Cardinality({t \in Tasks : Live(t)}) <= 1 + overlaps

\* A result key carries exactly one payload, and a late poll gets the same
\* (topics.py:424, testing.py:204-207). It is the task's own, except that the
\* runners of overlapping submits share one ending.
ResultsAreOwn ==
    /\ \A i \in DOMAIN wire :
          /\ wire[i].result.task = wire[i].key \/ overlaps > 0
          /\ results[wire[i].key] = wire[i].result
    /\ \A i, j \in DOMAIN wire : wire[i].key = wire[j].key => i = j

\* canceled=True is a promise: the task ends canceled, whatever the runner, the
\* timer and a preempting submit did meanwhile - unless the test itself called
\* finish(), or submits overlapped (testing.py:151-158 against 181-207).
CancelIsKept ==
    overlaps = 0 =>
        \A t \in acked \ byHand : results[t] # NoResult => results[t].state = "canceled"

\* A task that was called off - cancelled, displaced or finished by the test -
\* ends even if nothing else would end it: the event reaches its runner, unless
\* an overlapping submit replaces it first. A task that may finish itself ends
\* in any case, overlap or not (testing.py:129-134, 187-207).
TasksEnd ==
    \A t \in Tasks :
        (serial /\ active = t /\ ending.task = t) \/ (autoFinish /\ Live(t))
            ~> results[t] # NoResult

\* FakeNav keeps the coordinator's promises as long as submits come one at a
\* time; where they may overlap, nothing is claimed.
phase == [t \in Tasks |-> IF ~serial THEN "unknown"
                          ELSE IF results[t] # NoResult THEN results[t].state
                          ELSE IF active = t THEN "running" ELSE "unknown"]

Ledger == INSTANCE TaskLedger
LedgerSpec == Ledger!Spec
====
