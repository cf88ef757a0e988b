---- MODULE SafetyView ----
(***************************************************************************)
(* motion_permitted(): what a client may conclude from the safety latch,   *)
(* while the latch goes through its button cycle, its source or the whole  *)
(* safety node dies, and messages are late, lost or overtaken.             *)
(***************************************************************************)
EXTENDS Beacon, SafetyStates

\* The button is pressed, pulled out, released, and the robot gets up. The
\* source may be lost in any phase; when it is back the latch is in any.
After(phase) ==
    CASE phase = "clear" -> {"stopped", "source_lost"}
      [] phase = "stopped" -> {"awaiting_release", "source_lost"}
      [] phase = "awaiting_release" -> {"stopped", "releasing", "source_lost"}
      [] phase = "releasing" -> {"clear", "stopped", "source_lost"}
      [] phase = "source_lost" -> EstopPhase \ {"source_lost"}

SafetyLevels == {SafetyState(p) : p \in EstopPhase}

\* RobotClient.motion_permitted
MotionPermitted == Fresh /\ FrameMotionPermitted(latest.value)

VARIABLES
    sinceSafe     \* ticks since the robot could last be driven

safetyVars == <<beaconVars, sinceSafe>>

\* The truth the client is after: the safety node vouches, the cycle is over.
Drivable == up /\ level.phase = "clear"

SafetyTypeOK ==
    /\ BeaconTypeOK
    /\ sinceSafe \in 0..Horizon

SafetyInit ==
    /\ BeaconInit
    /\ sinceSafe = IF Drivable THEN 0 ELSE Horizon

----
Track == sinceSafe' = IF Drivable' THEN 0 ELSE sinceSafe

Authority ==
    /\ \/ \E p \in After(level.phase) : Change(SafetyState(p))
       \/ Restate
       \/ Crash
       \/ \E p \in EstopPhase : Restart(SafetyState(p))
       \/ \E i \in DOMAIN link : Lose(i)
    /\ Track

Hear(i) == Receive(i) /\ UNCHANGED sinceSafe

Pass ==
    /\ Tick
    /\ sinceSafe' = IF Drivable THEN 0 ELSE Older(sinceSafe)

SafetyNext == Authority \/ (\E i \in DOMAIN link : Hear(i)) \/ Pass

SafetySpec == SafetyInit /\ [][SafetyNext]_safetyVars

----
(* Properties.                                                             *)

\* Silence is never permission: whatever is lost, late, overtaken or dead, a
\* client that reads permission reads it of a robot that could be driven at
\* most a window and a delay ago (client.py:310-314 "a crashed safety node or
\* a severed link cannot read as permission"; safety.py:85-94 for a robot that
\* is still getting up).
NoStalePermission == MotionPermitted => sinceSafe < Horizon
====
