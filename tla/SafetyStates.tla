---- MODULE SafetyStates ----
(***************************************************************************)
(* The safety latch as a message: SafetyState of msgs/safety.py.           *)
(***************************************************************************)

EstopPhase == {"clear", "stopped", "awaiting_release", "releasing", "source_lost"}

\* estop drops one phase before motion is possible again.
SafetyState(phase) ==
    [estop |-> phase \in {"stopped", "awaiting_release", "source_lost"},
     source_alive |-> phase # "source_lost",
     phase |-> phase]

\* A plausible slip: deciding from the latch alone.
LatchDown(frame) == frame.source_alive /\ ~frame.estop

\* SafetyState.motion_permitted
FrameMotionPermitted(frame) ==
    frame.source_alive /\ ~frame.estop /\ frame.phase # "releasing"
====
