---- MODULE MotionStatus ----
(***************************************************************************)
(* Commands go out and nothing happens: what became of a client's command  *)
(* at the gateway and its collision monitor, which are external and do     *)
(* what msgs/motion.py says, and the reason that the client reads off the  *)
(* status. That the status read is the current one is LateJoin's.          *)
(***************************************************************************)
EXTENDS MovementSources

VARIABLES
    own,      \* the source of the client; no other client has it
    wish,     \* where its command goes
    scene     \* the winner, the zones breached, the scan, the winner's silence

statusVars == <<own, wish, scene>>

\* One zone of each kind; the stop zone is ahead.
ZoneKind == [front |-> "stop", aisle |-> "slowdown", yard |-> "limit"]

StatusTypeOK ==
    /\ own \in SourceNames /\ wish \in {"ahead", "away"}
    /\ scene.winner \in SourceNames \cup {Nobody} /\ scene.zones \subseteq DOMAIN ZoneKind
    /\ scene.stale \in BOOLEAN /\ scene.silent \in BOOLEAN

StatusInit ==
    /\ own \in SourceNames /\ wish \in {"ahead", "away"}
    /\ scene = [winner |-> Nobody, zones |-> {}, stale |-> FALSE, silent |-> FALSE]

\* Anything may happen around the robot. A watchdog trips over a winner only.
SceneChanges ==
    /\ scene' \in [winner : SourceNames \cup {Nobody}, zones : SUBSET DOMAIN ZoneKind,
                   stale : BOOLEAN, silent : BOOLEAN]
    /\ scene'.winner = Nobody => ~scene'.silent
    /\ UNCHANGED <<own, wish>>

----
(* The gateway.                                                            *)

Breached(kind) == \E z \in scene.zones : ZoneKind[z] = kind

\* A breached stop zone is directional: it strips what heads into the obstacle.
Stripped == Breached("stop") /\ wish = "ahead"

\* GatewayAction, for the command of the client.
Action ==
    CASE scene.silent \/ scene.stale \/ Stripped -> "stop"
      [] Breached("slowdown") -> "slowdown"
      [] Breached("limit") -> "limit"
      [] OTHER -> "pass_through"

\* What the robot gets of it.
Outcome ==
    IF scene.winner # own THEN "nothing"
    ELSE CASE Action = "stop" -> "nothing"
           [] Action \in {"slowdown", "limit"} -> "less"
           [] OTHER -> "intact"

MotionGatewayStatus ==
    [active_source |-> scene.winner, action |-> Action,
     active_zones |-> scene.zones, watchdog_tripped |-> scene.silent]

----
(* What the client reads.                                                  *)

DrivingNow(status) == status.active_source = own

PreemptedBy(status) ==
    IF status.active_source # Nobody /\ Outranks(status.active_source, own)
    THEN status.active_source ELSE Nobody

BlockedByZone(status) == status.active_zones

\* A plausible slip: only the watchdog is looked at.
AllowedByWatchdog(status) == ~status.watchdog_tripped

\* MotionGatewayStatus.moving_allowed
MovingAllowed(status) == ~status.watchdog_tripped /\ status.action # "stop"

----
(* Properties.                                                             *)

\* "The first thing to read when commands go out and nothing happens": a client
\* whose command is not executed as sent reads a reason. It is told the name of
\* who out-ranks it, of the zones, or that it must not move, and if none of
\* these, that it is not the driver; and it reads no such thing of a command
\* that goes out intact, but for a zone it is leaving (topics.py:139-142,
\* client.py:270-306, motion.py:178-206).
ReasonIsNamed ==
    LET status == MotionGatewayStatus IN
    /\ Outcome = "nothing" =>
           ~DrivingNow(status) \/ ~MovingAllowed(status)
    /\ Outcome = "less" => BlockedByZone(status) # {}
    /\ scene.winner # own /\ PreemptedBy(status) = Nobody =>
           scene.winner = Nobody \/ Outranks(own, scene.winner)
    /\ Outcome = "intact" =>
           /\ DrivingNow(status) /\ MovingAllowed(status) /\ PreemptedBy(status) = Nobody
           /\ \A z \in BlockedByZone(status) : ZoneKind[z] = "stop" /\ wish = "away"
====
