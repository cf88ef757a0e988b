---- MODULE DriveBlock ----
(***************************************************************************)
(* driving(): a block that keeps a velocity alive from a pump task and     *)
(* stops the robot on its way out, for several coroutines that drive with  *)
(* the same client, and that may be cancelled at any time. Puts may raise. *)
(***************************************************************************)
EXTENDS Naturals

CONSTANT
    Driver       \* coroutines that open driving blocks

VARIABLES
    block,      \* where each coroutine is with respect to its block
    mover,      \* the pump task of that block
    legal,      \* whether its velocity passes validation
    cancel,     \* what became of a cancellation of the coroutine
    raised,     \* its last block ended with an error, of the pump or of halt()
    lastMove    \* the last command put on the request key, and by whom

blockVars == <<block, mover, legal, cancel, raised, lastMove>>

Zero    == "zero"
Nothing == "nothing"

ASSUME DriverAssumption == Zero \notin Driver /\ Nothing \notin Driver

BlockTypeOK ==
    /\ block \in [Driver -> {"out", "in", "leaving"}]
    /\ mover \in [Driver -> {"none", "ready", "asleep", "cancelled", "ended", "failed"}]
    /\ legal \in [Driver -> BOOLEAN]
    /\ cancel \in [Driver -> {"none", "raised", "swallowed"}]
    /\ raised \in [Driver -> BOOLEAN]
    /\ lastMove \in Driver \cup {Zero, Nothing}

BlockInit ==
    /\ block = [d \in Driver |-> "out"]
    /\ mover = [d \in Driver |-> "none"]
    /\ legal = [d \in Driver |-> TRUE]
    /\ cancel = [d \in Driver |-> "none"]
    /\ raised = [d \in Driver |-> FALSE]
    /\ lastMove = Nothing

----
\* A velocity outside limits.py is not refused here.
Enter(d, ok) ==
    /\ block[d] = "out"
    /\ block' = [block EXCEPT ![d] = "in"]
    /\ mover' = [mover EXCEPT ![d] = "ready"]
    /\ legal' = [legal EXCEPT ![d] = ok]
    /\ cancel' = [cancel EXCEPT ![d] = "none"]
    /\ raised' = [raised EXCEPT ![d] = FALSE]
    /\ UNCHANGED lastMove

\* A plausible slip: the pump publishes once instead of looping.
MoverMovesOnce(d) ==
    /\ mover[d] = "ready"
    /\ legal[d]
    /\ lastMove' = d
    /\ mover' = [mover EXCEPT ![d] = "ended"]
    /\ UNCHANGED <<block, legal, cancel, raised>>

\* One pass: move() validates, then publishes.
MoverMoves(d) ==
    /\ mover[d] = "ready"
    /\ legal[d]
    /\ lastMove' = d
    /\ mover' = [mover EXCEPT ![d] = "asleep"]
    /\ UNCHANGED <<block, legal, cancel, raised>>

\* The velocity does not validate, or the put raises, of any velocity: the
\* error ends the task. Nobody is told until the block ends.
MoverFails(d) ==
    /\ mover[d] = "ready"
    /\ mover' = [mover EXCEPT ![d] = "failed"]
    /\ UNCHANGED <<block, legal, cancel, raised, lastMove>>

MoverTimer(d) ==
    /\ mover[d] = "asleep"
    /\ mover' = [mover EXCEPT ![d] = "ready"]
    /\ UNCHANGED <<block, legal, cancel, raised, lastMove>>

\* halt() puts one zero command.
Halt == lastMove' = Zero

\* A plausible slip: halt() before the pump is stopped.
ExitHaltingFirst(d) ==
    /\ block[d] = "in"
    /\ mover[d] \in {"ready", "asleep"}
    /\ block' = [block EXCEPT ![d] = "out"]
    /\ Halt
    /\ UNCHANGED <<mover, legal, raised>>

\* The body of the block ends, and task.cancel() reaches a running pump: the
\* coroutine now awaits its end.
StopMover(d) ==
    /\ block[d] = "in"
    /\ mover[d] \in {"ready", "asleep"}
    /\ mover' = [mover EXCEPT ![d] = "cancelled"]
    /\ block' = [block EXCEPT ![d] = "leaving"]
    /\ UNCHANGED <<legal, raised, lastMove>>

\* The block is over, its pump is no more.
Ends(d) ==
    /\ block' = [block EXCEPT ![d] = "out"]
    /\ mover' = [mover EXCEPT ![d] = "none"]
    /\ UNCHANGED legal

\* An error leaves the block, and no zero command has been put.
Raises(d) == Ends(d) /\ raised' = [raised EXCEPT ![d] = TRUE] /\ UNCHANGED lastMove

\* Awaiting a pump that failed raises its error instead: suppress() lets only
\* a cancellation through, and halt() is not reached.
PumpErrorRaised(d) ==
    /\ block[d] = "in"
    /\ mover[d] = "failed"
    /\ Raises(d)

ExitBlock(d) ==
    /\ StopMover(d) \/ PumpErrorRaised(d)
    /\ UNCHANGED cancel

\* The coroutine is cancelled inside the block, and leaves it; the error of a
\* pump that failed takes the place of the cancellation.
CancelInside(d) ==
    \/ StopMover(d) /\ cancel' = [cancel EXCEPT ![d] = "raised"]
    \/ PumpErrorRaised(d) /\ cancel' = [cancel EXCEPT ![d] = "swallowed"]

\* A plausible slip: the await of the pump lets the coroutine's own
\* cancellation through, past halt().
CancelEscapes(d) ==
    /\ block[d] = "leaving"
    /\ cancel[d] = "none"
    /\ cancel' = [cancel EXCEPT ![d] = "raised"]
    /\ Ends(d)
    /\ UNCHANGED <<raised, lastMove>>

\* It is cancelled while it awaits the pump: suppress() cannot tell this
\* cancellation from the pump's.
CancelLeaving(d) ==
    /\ block[d] = "leaving"
    /\ cancel[d] = "none"
    /\ cancel' = [cancel EXCEPT ![d] = "swallowed"]
    /\ UNCHANGED <<block, mover, legal, raised, lastMove>>

\* A plausible slip: the pump treats its cancellation like any error and loops.
MoverCarriesOn(d) ==
    /\ mover[d] = "cancelled"
    /\ mover' = [mover EXCEPT ![d] = "ready"]
    /\ UNCHANGED <<block, legal, cancel, raised, lastMove>>

\* The cancellation is delivered to the pump.
MoverEnds(d) ==
    /\ mover[d] = "cancelled"
    /\ mover' = [mover EXCEPT ![d] = "ended"]
    /\ UNCHANGED <<block, legal, cancel, raised, lastMove>>

\* The coroutine resumes behind the pump's end, and halts; or its put raises.
Leave(d) ==
    /\ block[d] = "leaving"
    /\ mover[d] = "ended"
    /\ \/ Ends(d) /\ Halt /\ UNCHANGED raised
       \/ Raises(d)
    /\ UNCHANGED cancel

----
MoverStep(d) == MoverMoves(d) \/ MoverFails(d) \/ MoverEnds(d)

BlockNext ==
    \E d \in Driver :
        \/ \E ok \in BOOLEAN : Enter(d, ok)
        \/ MoverStep(d) \/ MoverTimer(d)
        \/ ExitBlock(d) \/ CancelInside(d) \/ CancelLeaving(d)
        \/ Leave(d)

BlockSpec == BlockInit /\ [][BlockNext]_blockVars

\* Ready tasks run and due timers fire. A block may stay open for ever.
BlockFairness == \A d \in Driver : WF_blockVars(MoverStep(d) \/ MoverTimer(d) \/ Leave(d))

----
(* Properties.                                                             *)

\* Only a coroutine that is still in its block, or on its way out of it, has
\* the last word with a velocity: no pump publishes behind its block's halt,
\* whoever else enters, leaves or is cancelled (client.py:398-410). A block that
\* ended with an error leaves its velocity standing, and no pump that repeats it.
NoPumpOutlivesBlock ==
    /\ lastMove \in Driver => block[lastMove] # "out" \/ raised[lastMove]
    /\ \A d \in Driver : block[d] = "out" => mover[d] = "none"

\* Whoever leaves a block leaves a zero command behind, cancelled or not
\* (client.py:386-388 "a zero velocity sent on exit, including on exception";
\* README.md:82).
ExitHalts ==
    [][\A d \in Driver : block[d] # "out" /\ block'[d] = "out" => lastMove' = Zero]_blockVars

\* A block that lets no error of its own out has halted, wherever the coroutine
\* and its pump were when they were cancelled: whoever is not told of an error
\* has not left a velocity standing (client.py:404-410).
SilentExitHalts ==
    [][\A d \in Driver :
          block[d] # "out" /\ block'[d] = "out" /\ ~raised'[d] => lastMove' = Zero]_blockVars

\* The zero of one block does not silence another: a coroutine that stays in
\* its block gets its velocity out again, as long as its pump lives
\* (client.py:398-401).
OthersKeepDriving ==
    \A d \in Driver :
        (block[d] = "in" /\ legal[d]) ~>
            (lastMove = d \/ block[d] # "in" \/ mover[d] = "failed")

\* A block that was left, by its end or by a cancellation, is over soon: the
\* pump it awaits does end (client.py:407-410).
BlocksEnd == \A d \in Driver : block[d] = "leaving" ~> block[d] = "out"
====
