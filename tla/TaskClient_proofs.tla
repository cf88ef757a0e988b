---- MODULE TaskClient_proofs ----
(***************************************************************************)
(* Proofs about TaskClient, for any number of callers and tasks and any    *)
(* history size.                                                           *)
(***************************************************************************)
EXTENDS TaskClient, SequenceTheorems, TLAPS

----
(* The inductive invariant, in named parts.                                *)

\* A terminal payload has one of the states the coordinator publishes.
PublishedStates == \A p \in published : p.state \in Outcome \cup {"running"}

\* A record was published, and is terminal.
RecordsAreTrue ==
    \A t \in Task :
        recorded[t] # Pending =>
            /\ [task |-> t, state |-> recorded[t]] \in published
            /\ IsTerminal(recorded[t])

\* A resolved future holds a published terminal result of the task asked for,
\* from the moment it is resolved and not only once it is returned.
FuturesAreTrue ==
    \A c \in Caller :
        status[c] \in {"waiting", "returned"} /\ future[c] # Pending =>
            /\ future[c] \in published
            /\ future[c].task = asked[c]
            /\ IsTerminal(future[c].state)

\* A call returns only with a result.
ReturnsHaveResults == \A c \in Caller : status[c] = "returned" => future[c] # Pending

\* Someone who waits, waits for a task.
WaitsAreForTasks == \A c \in Caller : Waiting(c) => asked[c] \in Task

SafetyInv ==
    /\ TypeOK
    /\ PublishedStates
    /\ RecordsAreTrue
    /\ FuturesAreTrue
    /\ ReturnsHaveResults
    /\ WaitsAreForTasks
    /\ SlotsAreLive

----
(* Lemmas on the history.                                                  *)

\* Newest(keys) is again a sequence of tasks.
LEMMA NewestIsSeq == ASSUME NEW keys \in Seq(Task) PROVE Newest(keys) \in Seq(Task)
<1>1. CASE Len(keys) > HistorySize
  <2>1. \A i \in (Len(keys) - HistorySize + 1) .. Len(keys) : keys[i] \in Task
    BY <1>1, HistorySizeAssumption
  <2> QED BY <1>1, <2>1, HistorySizeAssumption DEF Newest
<1>2. CASE ~(Len(keys) > HistorySize)
  BY <1>2 DEF Newest
<1> QED BY <1>1, <1>2

\* Remembering a task keeps the history a sequence of tasks.
LEMMA RememberIsSeq ==
    ASSUME NEW t \in Task, history \in Seq(Task) PROVE Remember(t) \in Seq(Task)
<1>1. Append(history, t) \in Seq(Task)
  OBVIOUS
<1> QED BY <1>1, NewestIsSeq DEF Remember

----
(* Type correctness and the truth of the answers.                          *)

LEMMA InitSafety == Init => SafetyInv
<1> SUFFICES ASSUME Init PROVE SafetyInv
  OBVIOUS
<1>1. TypeOK
  BY DEF Init, TypeOK, Status
<1> QED
  BY <1>1 DEF Init, SafetyInv, PublishedStates, RecordsAreTrue, FuturesAreTrue,
              ReturnsHaveResults, WaitsAreForTasks, SlotsAreLive, Waiting

\* A result put on a key disturbs only what is said of the published ones.
LEMMA PublishSafety ==
    ASSUME SafetyInv, NEW r \in Result, Publish(r) PROVE SafetyInv'
<1> USE DEF SafetyInv, Publish, memory, call
<1>1. TypeOK'
  BY DEF TypeOK
<1>2. PublishedStates'
  BY DEF PublishedStates
<1>3. RecordsAreTrue'
  BY DEF RecordsAreTrue
<1>4. FuturesAreTrue'
  BY DEF FuturesAreTrue
<1>5. (ReturnsHaveResults /\ WaitsAreForTasks /\ SlotsAreLive)'
  BY DEF ReturnsHaveResults, WaitsAreForTasks, SlotsAreLive, Waiting
<1> QED BY <1>1, <1>2, <1>3, <1>4, <1>5

LEMMA LoseSafety == ASSUME SafetyInv, NEW r \in Result, Lose(r) PROVE SafetyInv'
<1> USE DEF SafetyInv, Lose, memory, call
<1>1. TypeOK'
  BY DEF TypeOK
<1>2. (PublishedStates /\ RecordsAreTrue /\ FuturesAreTrue)'
  BY DEF PublishedStates, RecordsAreTrue, FuturesAreTrue
<1>3. (ReturnsHaveResults /\ WaitsAreForTasks /\ SlotsAreLive)'
  BY DEF ReturnsHaveResults, WaitsAreForTasks, SlotsAreLive, Waiting
<1> QED BY <1>1, <1>2, <1>3

\* A wait that starts, or finds its result on record, overwrites one caller.
LEMMA StartSafety ==
    ASSUME SafetyInv, NEW c \in Caller, NEW t \in Task, NEW timeout \in BOOLEAN,
           ReturnRecorded(c, t, timeout) \/ StartWait(c, t, timeout)
    PROVE  SafetyInv'
<1> USE DEF SafetyInv, MayWait, network, memory
<1>1. CASE ReturnRecorded(c, t, timeout)
  <2> USE <1>1 DEF ReturnRecorded
  <2>1. /\ [task |-> t, state |-> recorded[t]] \in published
        /\ IsTerminal(recorded[t])
        /\ [task |-> t, state |-> recorded[t]] \in Result
    BY DEF RecordsAreTrue, TypeOK
  <2>2. [task |-> t, state |-> recorded[t]] # Pending
    BY <2>1, PendingAssumption DEF Result
  <2>3. TypeOK'
    BY <2>1 DEF TypeOK, Status
  <2>4. (PublishedStates /\ RecordsAreTrue)'
    BY DEF PublishedStates, RecordsAreTrue
  <2>5. FuturesAreTrue'
    BY <2>1 DEF FuturesAreTrue, TypeOK
  <2>6. (ReturnsHaveResults /\ WaitsAreForTasks)'
    BY <2>2 DEF ReturnsHaveResults, WaitsAreForTasks, Waiting, TypeOK
  <2>7. SlotsAreLive'
    BY NobodyAssumption DEF SlotsAreLive, Waiting, TypeOK
  <2> QED BY <2>3, <2>4, <2>5, <2>6, <2>7
<1>2. CASE StartWait(c, t, timeout)
  <2> USE <1>2 DEF StartWait
  <2>1. TypeOK'
    BY DEF TypeOK, Status
  <2>2. (PublishedStates /\ RecordsAreTrue)'
    BY DEF PublishedStates, RecordsAreTrue
  <2>3. FuturesAreTrue'
    BY DEF FuturesAreTrue, TypeOK
  <2>4. (ReturnsHaveResults /\ WaitsAreForTasks)'
    BY DEF ReturnsHaveResults, WaitsAreForTasks, Waiting, TypeOK
  <2>5. SlotsAreLive'
    BY NobodyAssumption DEF SlotsAreLive, Waiting, TypeOK
  <2> QED BY <2>1, <2>2, <2>3, <2>4, <2>5
<1> QED BY <1>1, <1>2

\* However a wait ends, it empties the slot of its task.
LEMMA LeaveSafety ==
    ASSUME SafetyInv, NEW c \in Caller, NEW how \in {"returned", "timed out", "cancelled"},
           Waiting(c), Leave(c, how), how = "returned" => future[c] # Pending,
           UNCHANGED <<network, memory, asked, limited, future>>
    PROVE  SafetyInv'
<1> USE DEF SafetyInv, Leave, network, memory
<1>1. asked[c] \in Task
  BY DEF WaitsAreForTasks
<1>2. TypeOK'
  BY <1>1 DEF TypeOK, Status
<1>3. (PublishedStates /\ RecordsAreTrue)'
  BY DEF PublishedStates, RecordsAreTrue
<1>4. FuturesAreTrue'
  BY DEF FuturesAreTrue, TypeOK, Waiting
<1>5. (ReturnsHaveResults /\ WaitsAreForTasks)'
  BY DEF ReturnsHaveResults, WaitsAreForTasks, Waiting, TypeOK
<1>6. SlotsAreLive'
  <2> SUFFICES ASSUME NEW t \in Task, waiters'[t] # Nobody
               PROVE  Waiting(waiters[t])' /\ asked[waiters[t]] = t /\ waiters'[t] = waiters[t]
    BY DEF SlotsAreLive, Waiting
  <2>1. t # asked[c] /\ waiters'[t] = waiters[t]
    BY <1>1 DEF TypeOK
  <2>2. asked[waiters[t]] = t /\ waiters[t] \in Caller /\ status[waiters[t]] = "waiting"
    BY <2>1 DEF SlotsAreLive, TypeOK, Waiting
  <2>3. status'[waiters[t]] = status[waiters[t]]
    BY <2>1, <2>2 DEF TypeOK
  <2> QED BY <2>1, <2>2, <2>3 DEF Waiting
<1> QED BY <1>2, <1>3, <1>4, <1>5, <1>6

\* A delivered result is filed under its own task and wakes that task's slot.
LEMMA DeliverSafety == ASSUME SafetyInv, NEW r \in Result, Deliver(r) PROVE SafetyInv'
<1> USE DEF SafetyInv, Deliver
<1>1. r \in published /\ r.task \in Task
  BY DEF TypeOK, Result, TaskResult
<1>2. CASE ~IsTerminal(r.state)
  <2> USE <1>2 DEF OnTaskResult, memory
  <2>1. TypeOK'
    BY DEF TypeOK
  <2>2. (PublishedStates /\ RecordsAreTrue /\ FuturesAreTrue)'
    BY DEF PublishedStates, RecordsAreTrue, FuturesAreTrue
  <2>3. (ReturnsHaveResults /\ WaitsAreForTasks /\ SlotsAreLive)'
    BY DEF ReturnsHaveResults, WaitsAreForTasks, SlotsAreLive, Waiting
  <2> QED BY <2>1, <2>2, <2>3
<1>3. CASE IsTerminal(r.state)
  <2>1. Record(r) /\ Wake(r)
    BY <1>3 DEF OnTaskResult
  <2>2. r.state \in Outcome
    BY <1>1, <1>3 DEF PublishedStates, IsTerminal
  <2>3. /\ history' \in Seq(Task)
        /\ delivered' \in Seq(Task)
    BY <1>1, <2>1, RememberIsSeq DEF Record, TypeOK
  <2>4. recorded' \in [Task -> Outcome \cup {Pending}]
    BY <2>1, <2>2 DEF Record, TypeOK
  <2>5. \/ UNCHANGED future
        \/ \E c \in Caller : /\ c = waiters[r.task]
                             /\ future' = [future EXCEPT ![c] = r]
    BY <1>1, <2>1 DEF Wake, TypeOK
  <2>6. TypeOK'
    BY <2>3, <2>4, <2>5 DEF TypeOK
  <2>7. RecordsAreTrue'
    <3>1. r = [task |-> r.task, state |-> r.state]
      BY DEF Result, TaskResult
    <3> QED BY <1>1, <1>3, <2>1, <3>1 DEF Record, RecordsAreTrue, TypeOK
  <2>8. FuturesAreTrue'
    BY <1>1, <1>3, <2>5, NobodyAssumption DEF FuturesAreTrue, SlotsAreLive, TypeOK
  <2>9. ReturnsHaveResults'
    BY <2>5, PendingAssumption DEF ReturnsHaveResults, TypeOK, Result
  <2>10. (PublishedStates /\ WaitsAreForTasks /\ SlotsAreLive)'
    BY DEF PublishedStates, WaitsAreForTasks, SlotsAreLive, Waiting
  <2> QED BY <2>6, <2>7, <2>8, <2>9, <2>10
<1> QED BY <1>2, <1>3

LEMMA NextSafety == SafetyInv /\ [Next]_vars => SafetyInv'
<1> SUFFICES ASSUME SafetyInv, [Next]_vars PROVE SafetyInv'
  OBVIOUS
<1>1. ASSUME NEW r \in Result, Publish(r) \/ Lose(r) \/ Deliver(r) PROVE SafetyInv'
  BY <1>1, PublishSafety, LoseSafety, DeliverSafety
<1>2. ASSUME NEW c \in Caller, NEW t \in Task, NEW timeout \in BOOLEAN,
             ReturnRecorded(c, t, timeout) \/ StartWait(c, t, timeout)
      PROVE  SafetyInv'
  BY <1>2, StartSafety
<1>3. ASSUME NEW c \in Caller, Resume(c) PROVE SafetyInv'
  BY <1>3, LeaveSafety DEF Resume
<1>4. ASSUME NEW c \in Caller, TimeOut(c) PROVE SafetyInv'
  BY <1>4, LeaveSafety DEF TimeOut
<1>5. ASSUME NEW c \in Caller, CancelCaller(c) PROVE SafetyInv'
  BY <1>5, LeaveSafety DEF CancelCaller
<1>6. CASE UNCHANGED vars
  <2> USE <1>6 DEF vars, SafetyInv
  <2>1. TypeOK'
    BY DEF TypeOK
  <2>2. (PublishedStates /\ RecordsAreTrue /\ FuturesAreTrue)'
    BY DEF PublishedStates, RecordsAreTrue, FuturesAreTrue
  <2>3. (ReturnsHaveResults /\ WaitsAreForTasks /\ SlotsAreLive)'
    BY DEF ReturnsHaveResults, WaitsAreForTasks, SlotsAreLive, Waiting
  <2> QED BY <2>1, <2>2, <2>3
<1> QED BY <1>1, <1>2, <1>3, <1>4, <1>5, <1>6 DEF Next

\* Every variable keeps its type, in every behaviour: _task_results maps tasks
\* to terminal states only, and a slot holds at most one caller
\* (client.py:227-228, 726-735, 789-799).
THEOREM TypeCorrect == Spec => []TypeOK
<1>1. SafetyInv => TypeOK
  BY DEF SafetyInv
<1> QED BY <1>1, InitSafety, NextSafety, PTL DEF Spec

\* wait_for_task returns nothing but the published, terminal result of the task
\* it was asked for, however many callers and tasks there are and whoever
\* shares a slot (client.py:715-735, 789-799).
THEOREM AnswersTrue == Spec => []AnswersAreTrue
<1>1. SafetyInv => AnswersAreTrue
  BY DEF SafetyInv, FuturesAreTrue, ReturnsHaveResults, AnswersAreTrue
<1> QED BY <1>1, InitSafety, NextSafety, PTL DEF Spec

\* A slot of _task_waiters never outlives the wait that filled it
\* (client.py:731-735).
THEOREM SlotsLive == Spec => []SlotsAreLive
<1>1. SafetyInv => SlotsAreLive
  BY DEF SafetyInv
<1> QED BY <1>1, InitSafety, NextSafety, PTL DEF Spec

----
(* No lost wake-up, when no two callers wait for one task at a time.       *)

\* At most one caller waits for a task.
OneWaiter ==
    \A c, d \in Caller : Waiting(c) /\ Waiting(d) /\ asked[c] = asked[d] => c = d

\* Whoever waits holds the slot of its task. Sharing breaks this conjunct: the
\* second caller's assignment of the slot, or its pop.
WaitersHoldSlots == \A c \in Caller : Waiting(c) => waiters[asked[c]] = c

WakeInv ==
    /\ SafetyInv
    /\ OneWaiter
    /\ WaitersHoldSlots
    /\ RecordedResultWakes

LEMMA StartWake ==
    ASSUME ~SharedWaits, WakeInv, SafetyInv',
           NEW c \in Caller, NEW t \in Task, NEW timeout \in BOOLEAN,
           ReturnRecorded(c, t, timeout) \/ StartWait(c, t, timeout)
    PROVE  WakeInv'
<1> USE DEF WakeInv
<1>0. TypeOK /\ TypeOK' /\ \A d \in Caller : Waiting(d) => asked[d] # t
  BY DEF SafetyInv, ReturnRecorded, StartWait, MayWait
<1>1. \A d \in Caller : Waiting(d)' /\ d # c =>
         /\ Waiting(d) /\ asked'[d] = asked[d] /\ future'[d] = future[d]
         /\ asked[d] \in Task \ {t}
  BY <1>0 DEF ReturnRecorded, StartWait, TypeOK, Waiting, SafetyInv, WaitsAreForTasks
<1>2. recorded' = recorded
  BY DEF ReturnRecorded, StartWait, memory
<1>3. CASE ReturnRecorded(c, t, timeout)
  <2>1. ~Waiting(c)' /\ waiters' = waiters
    BY <1>0, <1>3 DEF ReturnRecorded, Waiting, TypeOK
  <2> QED BY <1>1, <1>2, <2>1 DEF OneWaiter, WaitersHoldSlots, RecordedResultWakes, Waiting
<1>4. CASE StartWait(c, t, timeout)
  <2>1. /\ asked'[c] = t /\ waiters'[t] = c /\ recorded[t] = Pending
        /\ \A u \in Task \ {t} : waiters'[u] = waiters[u]
    BY <1>0, <1>4 DEF StartWait, TypeOK
  <2>2. OneWaiter'
    BY <1>1, <2>1 DEF OneWaiter, Waiting
  <2>3. WaitersHoldSlots'
    BY <1>1, <2>1 DEF WaitersHoldSlots, Waiting
  <2>4. RecordedResultWakes'
    BY <1>1, <1>2, <2>1 DEF RecordedResultWakes, Waiting
  <2> QED BY <2>2, <2>3, <2>4
<1> QED BY <1>3, <1>4

LEMMA LeaveWake ==
    ASSUME WakeInv, SafetyInv', NEW c \in Caller, NEW how \in {"returned", "timed out", "cancelled"},
           Waiting(c), Leave(c, how), UNCHANGED <<network, memory, asked, limited, future>>
    PROVE  WakeInv'
<1> USE DEF WakeInv, Leave, memory
<1>1. TypeOK /\ WaitsAreForTasks
  BY DEF SafetyInv
<1>2. \A d \in Caller : Waiting(d)' => Waiting(d) /\ d # c
  BY <1>1 DEF TypeOK, Waiting
<1>3. \A d \in Caller : Waiting(d)' => asked[d] \in Task /\ asked[d] # asked[c]
  BY <1>1, <1>2 DEF OneWaiter, WaitsAreForTasks
<1>4. \A u \in Task : u # asked[c] => waiters'[u] = waiters[u]
  BY <1>1 DEF TypeOK, WaitsAreForTasks
<1>5. (OneWaiter /\ RecordedResultWakes)'
  BY <1>2 DEF OneWaiter, RecordedResultWakes
<1>6. WaitersHoldSlots'
  BY <1>2, <1>3, <1>4 DEF WaitersHoldSlots
<1> QED BY <1>5, <1>6

\* The step that matters: the result that goes on record resolves the future of
\* the one caller that waits for it, because that caller holds the slot.
LEMMA DeliverWake ==
    ASSUME WakeInv, SafetyInv', NEW r \in Result, Deliver(r) PROVE WakeInv'
<1> USE DEF WakeInv, Deliver
<1>1. TypeOK /\ WaitsAreForTasks /\ r.task \in Task /\ r # Pending
  BY PendingAssumption DEF SafetyInv, Result, TaskResult
<1>2. (OneWaiter /\ WaitersHoldSlots)'
  BY DEF OneWaiter, WaitersHoldSlots, Waiting
<1>3. CASE ~IsTerminal(r.state)
  BY <1>2, <1>3 DEF OnTaskResult, memory, RecordedResultWakes, Waiting
<1>4. CASE IsTerminal(r.state)
  <2> SUFFICES ASSUME NEW c \in Caller, Waiting(c)', recorded'[asked'[c]] # Pending
               PROVE  future'[c] # Pending
    BY <1>2 DEF RecordedResultWakes
  <2>1. /\ Record(r) /\ Wake(r)
        /\ Waiting(c) /\ asked[c] \in Task /\ asked' = asked
    BY <1>1, <1>4 DEF OnTaskResult, Waiting, WaitsAreForTasks
  <2>2. CASE asked[c] = r.task
    <3>1. waiters[r.task] = c /\ c # Nobody
      BY <2>1, <2>2, NobodyAssumption DEF WaitersHoldSlots
    <3> QED BY <1>1, <2>1, <3>1 DEF Wake, TypeOK
  <2>3. CASE asked[c] # r.task
    <3>1. recorded[asked[c]] # Pending
      BY <2>1, <2>3 DEF Record
    <3>2. future[c] # Pending
      BY <2>1, <3>1 DEF RecordedResultWakes
    <3> QED BY <1>1, <2>1, <3>2 DEF Wake, TypeOK
  <2> QED BY <2>2, <2>3
<1> QED BY <1>2, <1>3, <1>4

LEMMA NextWake == ASSUME ~SharedWaits, WakeInv, [Next]_vars PROVE WakeInv'
<1>0. SafetyInv'
  BY NextSafety DEF WakeInv
<1>1. ASSUME NEW r \in Result, Publish(r) \/ Lose(r) PROVE WakeInv'
  BY <1>0, <1>1 DEF WakeInv, OneWaiter, WaitersHoldSlots, RecordedResultWakes, Waiting,
                    Publish, Lose, memory, call
<1>2. ASSUME NEW r \in Result, Deliver(r) PROVE WakeInv'
  BY <1>0, <1>2, DeliverWake
<1>3. ASSUME NEW c \in Caller, NEW t \in Task, NEW timeout \in BOOLEAN,
             ReturnRecorded(c, t, timeout) \/ StartWait(c, t, timeout)
      PROVE  WakeInv'
  BY <1>0, <1>3, StartWake
<1>4. ASSUME NEW c \in Caller, Resume(c) PROVE WakeInv'
  BY <1>0, <1>4, LeaveWake DEF Resume
<1>5. ASSUME NEW c \in Caller, TimeOut(c) PROVE WakeInv'
  BY <1>0, <1>5, LeaveWake DEF TimeOut
<1>6. ASSUME NEW c \in Caller, CancelCaller(c) PROVE WakeInv'
  BY <1>0, <1>6, LeaveWake DEF CancelCaller
<1>7. CASE UNCHANGED vars
  BY <1>0, <1>7 DEF WakeInv, OneWaiter, WaitersHoldSlots, RecordedResultWakes, Waiting, vars
<1> QED BY <1>1, <1>2, <1>3, <1>4, <1>5, <1>6, <1>7 DEF Next

\* With one waiter per task at a time, no caller stays suspended on an
\* unresolved future while the result it waits for is on record
\* (client.py:726-735, 794-799).
THEOREM WakesNotLost == ASSUME ~SharedWaits PROVE Spec => []RecordedResultWakes
<1>1. Init => WakeInv
  BY InitSafety DEF Init, WakeInv, OneWaiter, WaitersHoldSlots, RecordedResultWakes, Waiting
<1>2. WakeInv /\ [Next]_vars => WakeInv'
  BY NextWake
<1>3. WakeInv => RecordedResultWakes
  BY DEF WakeInv
<1> QED BY <1>1, <1>2, <1>3, PTL DEF Spec

----
(* The history is exactly the most recent results.                         *)

\* Trimming before or after an arrival makes no difference: the eviction loop,
\* which sees only the history, agrees with trimming the whole past.
LEMMA NewestAppend ==
    ASSUME NEW keys \in Seq(Task), NEW t \in Task
    PROVE  Newest(Append(Newest(keys), t)) = Newest(Append(keys, t))
<1> DEFINE H == HistorySize
           n == Len(keys)
<1>1. H \in Nat /\ H > 0 /\ n \in Nat
  BY HistorySizeAssumption
<1>2. Append(keys, t) \in Seq(Task) /\ Len(Append(keys, t)) = n + 1
  OBVIOUS
<1>3. CASE ~(n > H)
  BY <1>3 DEF Newest
<1>4. CASE n > H
  <2> DEFINE kept == SubSeq(keys, n - H + 1, n)
  <2>1. Newest(keys) = kept
    BY <1>4 DEF Newest
  <2>2. \A i \in (n - H + 1) .. n : keys[i] \in Task
    BY <1>1, <1>4
  <2>3. kept \in Seq(Task) /\ Len(kept) = H /\ \A i \in 1 .. H : kept[i] = keys[n - H + i]
    BY <1>1, <1>4, <2>2
  <2> HIDE DEF kept
  <2>4. Newest(Append(kept, t)) = SubSeq(Append(kept, t), 2, H + 1)
    <3>1. Len(Append(kept, t)) = H + 1 /\ H + 1 > H /\ (H + 1) - H + 1 = 2
      BY <1>1, <2>3
    <3> QED BY <3>1 DEF Newest
  <2>5. Newest(Append(keys, t)) = SubSeq(Append(keys, t), n - H + 2, n + 1)
    BY <1>1, <1>2, <1>4 DEF Newest
  <2> DEFINE left  == SubSeq(Append(kept, t), 2, H + 1)
             right == SubSeq(Append(keys, t), n - H + 2, n + 1)
  <2>6. left \in Seq(Task) /\ Len(left) = H /\ \A i \in 1 .. H : left[i] = Append(kept, t)[i + 1]
    BY <1>1, <2>3
  <2>7. right \in Seq(Task) /\ Len(right) = H
        /\ \A i \in 1 .. H : right[i] = Append(keys, t)[n - H + 1 + i]
    BY <1>1, <1>2, <1>4
  <2>8. \A i \in 1 .. H : Append(kept, t)[i + 1] = Append(keys, t)[n - H + 1 + i]
    BY <1>1, <1>4, <2>3
  <2> HIDE DEF left, right
  <2>9. left = right
    BY <1>1, <2>6, <2>7, <2>8, SeqEqual
  <2> QED BY <2>1, <2>4, <2>5, <2>9 DEF left, right
<1> QED BY <1>3, <1>4

\* What a trimmed history holds was in the untrimmed one.
LEMMA NewestShrinks ==
    ASSUME NEW keys \in Seq(Task), NEW t \in Task, Contains(Newest(keys), t)
    PROVE  Contains(keys, t)
<1>1. CASE ~(Len(keys) > HistorySize)
  BY <1>1 DEF Newest
<1>2. CASE Len(keys) > HistorySize
  <2> DEFINE k == Len(keys) - HistorySize
  <2>1. k \in Nat /\ Newest(keys) = SubSeq(keys, k + 1, Len(keys))
    BY <1>2, HistorySizeAssumption DEF Newest
  <2>2. PICK i \in 1 .. Len(Newest(keys)) : Newest(keys)[i] = t
    BY DEF Contains
  <2>3. Newest(keys)[i] = keys[k + i] /\ k + i \in 1 .. Len(keys)
    BY <2>1, <2>2, HistorySizeAssumption
  <2> QED BY <2>2, <2>3 DEF Contains
<1> QED BY <1>1, <1>2

\* A task has at most one terminal payload on its key.
TerminalOnce ==
    \A p, q \in published :
        p.task = q.task /\ p.state # "running" /\ q.state # "running" => p = q

\* What arrived was published, and what is still on its way did not arrive.
ArrivalsAreNew ==
    /\ \A t \in Task : Contains(delivered, t) =>
          \E p \in published : p.task = t /\ p.state # "running"
    /\ \A p \in wire : p.state # "running" => ~Contains(delivered, p.task)

HistoryInv == SafetyInv /\ TerminalOnce /\ ArrivalsAreNew /\ HistoryIsRecent

LEMMA DeliverHistory ==
    ASSUME HistoryInv, SafetyInv', NEW r \in Result, Deliver(r) PROVE HistoryInv'
<1> USE DEF HistoryInv, Deliver
<1>1. TypeOK /\ PublishedStates /\ r.task \in Task /\ r \in published
  BY DEF SafetyInv, TypeOK, Result, TaskResult
<1>2. TerminalOnce'
  BY DEF TerminalOnce
<1>3. CASE ~IsTerminal(r.state)
  <2>1. UNCHANGED <<delivered, history, recorded>>
    BY <1>3 DEF OnTaskResult, memory
  <2> QED BY <1>2, <2>1 DEF ArrivalsAreNew, HistoryIsRecent
<1>4. CASE IsTerminal(r.state)
  <2>1. Record(r) /\ r.state # "running" /\ r.state # Pending /\ r \in wire
    <3>1. r.state \in TaskState
      BY DEF Result, TaskResult
    <3> QED BY <1>4, <3>1, PendingAssumption DEF OnTaskResult, IsTerminal
  <2>2. ~Contains(delivered, r.task)
    BY <2>1 DEF ArrivalsAreNew
  <2>3. delivered \in Seq(Task) /\ history = Newest(delivered) /\ history \in Seq(Task)
    BY <1>1 DEF TypeOK, HistoryIsRecent
  <2>4. ~Contains(history, r.task)
    BY <1>1, <2>2, <2>3, NewestShrinks
  <2>5. history' = Newest(Append(history, r.task)) /\ delivered' = Append(delivered, r.task)
    BY <2>1, <2>4 DEF Record, Remember
  <2>6. history' = Newest(delivered')
    BY <1>1, <2>3, <2>5, NewestAppend
  <2>7. \A t \in Task : Contains(delivered', t) <=> Contains(delivered, t) \/ t = r.task
    BY <1>1, <2>3, <2>5 DEF Contains
  <2>8. ArrivalsAreNew'
    <3>1. \A t \in Task : Contains(delivered', t) =>
             \E p \in published : p.task = t /\ p.state # "running"
      BY <1>1, <2>1, <2>7 DEF ArrivalsAreNew
    <3>2. ASSUME NEW p \in wire', p.state # "running" PROVE ~Contains(delivered', p.task)
      <4>1. p \in wire /\ p # r /\ p \in published /\ p.task \in Task
        BY <1>1, <3>2 DEF TypeOK, Result, TaskResult
      <4>2. p.task # r.task
        BY <1>1, <2>1, <3>2, <4>1 DEF TerminalOnce
      <4> QED BY <2>7, <3>2, <4>1, <4>2 DEF ArrivalsAreNew
    <3> QED BY <3>1, <3>2 DEF ArrivalsAreNew
  <2>9. \A t \in Task : Contains(history', t) => t = r.task \/ Contains(history, t)
    <3> SUFFICES ASSUME NEW t \in Task, Contains(history', t)
                 PROVE  t = r.task \/ Contains(history, t)
      OBVIOUS
    <3>1. Append(history, r.task) \in Seq(Task)
      BY <1>1, <2>3
    <3>2. Contains(Append(history, r.task), t)
      BY <2>5, <3>1, NewestShrinks
    <3> QED BY <1>1, <2>3, <3>2 DEF Contains
  <2>10. \A t \in Task : Contains(history', t) <=> recorded'[t] # Pending
    BY <2>1, <2>9 DEF Record, HistoryIsRecent
  <2> QED BY <1>2, <2>6, <2>8, <2>10 DEF HistoryIsRecent
<1> QED BY <1>3, <1>4

LEMMA PublishHistory ==
    ASSUME HistoryInv, SafetyInv', NEW r \in Result, Publish(r) PROVE HistoryInv'
<1> USE DEF HistoryInv, Publish, memory
<1>1. TypeOK /\ r.task \in Task
  BY DEF SafetyInv, Result, TaskResult
<1>2. r.state # "running" => \A p \in published : p.task = r.task => p.state = "running"
  OBVIOUS
<1>3. TerminalOnce'
  BY <1>2 DEF TerminalOnce
<1>4. r.state # "running" => ~Contains(delivered, r.task)
  BY <1>1, <1>2 DEF ArrivalsAreNew
<1>5. ArrivalsAreNew'
  BY <1>4 DEF ArrivalsAreNew
<1> QED BY <1>3, <1>5 DEF HistoryIsRecent

\* The client answers a late wait from its history, and the history holds the
\* results of exactly the last NAV_RESULT_HISTORY tasks that arrived
\* (client.py:84-86, 794-796).
THEOREM HistoryRecent == Spec => []HistoryIsRecent
<1>1. Init => HistoryInv
  <2> SUFFICES ASSUME Init PROVE HistoryInv
    OBVIOUS
  <2>1. Newest(<<>>) = <<>>
    BY HistorySizeAssumption DEF Newest
  <2>2. \A t : ~Contains(<<>>, t)
    BY DEF Contains
  <2> QED BY <2>1, <2>2, InitSafety
          DEF Init, HistoryInv, TerminalOnce, ArrivalsAreNew, HistoryIsRecent
<1>2. HistoryInv /\ [Next]_vars => HistoryInv'
  <2> SUFFICES ASSUME HistoryInv, [Next]_vars PROVE HistoryInv'
    OBVIOUS
  <2>0. SafetyInv'
    BY NextSafety DEF HistoryInv
  <2>1. ASSUME NEW r \in Result, Publish(r) \/ Deliver(r) PROVE HistoryInv'
    BY <2>0, <2>1, PublishHistory, DeliverHistory
  <2>2. ASSUME NEW r \in Result, Lose(r) PROVE HistoryInv'
    BY <2>0, <2>2 DEF Lose, memory, HistoryInv, TerminalOnce, ArrivalsAreNew, HistoryIsRecent
  <2>3. CASE \/ \E c \in Caller, t \in Task, timeout \in BOOLEAN :
                   ReturnRecorded(c, t, timeout) \/ StartWait(c, t, timeout)
             \/ \E c \in Caller : Resume(c) \/ TimeOut(c) \/ CancelCaller(c)
             \/ UNCHANGED vars
    <3>1. UNCHANGED <<network, memory>>
      BY <2>3 DEF ReturnRecorded, StartWait, Resume, TimeOut, CancelCaller, vars, network, memory
    <3> QED BY <2>0, <3>1
            DEF network, memory, HistoryInv, TerminalOnce, ArrivalsAreNew, HistoryIsRecent
  <2> QED BY <2>1, <2>2, <2>3 DEF Next
<1>3. HistoryInv => HistoryIsRecent
  BY DEF HistoryInv
<1> QED BY <1>1, <1>2, <1>3, PTL DEF Spec
====
