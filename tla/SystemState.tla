---- MODULE SystemState ----
(***************************************************************************)
(* The composite state: five facets from sources of their own, fused into  *)
(* one payload, and the two fields SystemState derives from them. Which    *)
(* facet arrives when is up to its source; the fusing node is external.    *)
(***************************************************************************)
EXTENDS Naturals, SafetyStates

VARIABLES
    phase,       \* SafetyState.phase
    operator,    \* VdaFacet.control: AUTO or MANUAL, never ESTOP
    order,       \* VdaFacet.order
    nav,         \* NavActivity of the running skill
    mode         \* the Go2's raw mode integer

stateVars == <<phase, operator, order, nav, mode>>

OrderActivity == {"idle", "executing", "waiting_release", "stopping"}
NavActivity == {"none", "cruising", "aligning", "stalled", "retreating",
                "paused", "manual", "blocked"}
Modes == 0..15

\* Posture.from_go2_mode: reserve slots and joint lock fall through.
Posture(m) ==
    CASE m \in {0, 1, 2, 8} -> "standing"
      [] m \in {3, 11, 12, 13} -> "moving"
      [] m \in {5, 10} -> "lying"
      [] m = 7 -> "damping"
      [] OTHER -> "unknown"

\* The fusing node collapses every phase with the latch up to ESTOP.
Control == IF SafetyState(phase).estop THEN "estop" ELSE operator

ReadyToMove ==
    /\ Posture(mode) \in {"standing", "moving"}
    /\ Control # "estop"
    /\ phase # "releasing"

IsDriving ==
    \/ nav \in {"cruising", "aligning"}
    \/ order \in {"executing", "stopping"}
    \/ Posture(mode) = "moving"

\* The rest of the reduction, once safety and control have nothing to say.
Activity ==
    IF Posture(mode) \in {"lying", "damping"} THEN "lying"
    ELSE IF nav = "blocked" THEN "blocked"
    ELSE IF nav \in {"stalled", "retreating"} THEN "stalled"
    ELSE IF order = "waiting_release" THEN "release"
    ELSE IF IsDriving THEN "driving" ELSE "auto"

\* A plausible slip: who is in control before why the robot cannot be driven.
HeadlineManualFirst ==
    CASE Control = "estop" -> IF phase = "source_lost" THEN "source_lost" ELSE "estop"
      [] Control = "manual" -> "manual"
      [] Control = "auto" -> IF phase = "releasing" THEN "recovering" ELSE Activity

\* First match wins.
Headline ==
    IF Control = "estop" THEN IF phase = "source_lost" THEN "source_lost" ELSE "estop"
    ELSE IF phase = "releasing" THEN "recovering"
    ELSE IF Control = "manual" THEN "manual" ELSE Activity

\* SystemState(): every facet at its default, of the modes one that reads so.
StateInit ==
    /\ phase = "clear" /\ operator = "auto"
    /\ order = "idle" /\ nav = "none"
    /\ mode = 4

----
SafetyArrives ==
    /\ phase' \in EstopPhase \ {phase}
    /\ UNCHANGED <<operator, order, nav, mode>>

VdaArrives ==
    /\ operator' \in {"auto", "manual"} /\ order' \in OrderActivity
    /\ <<operator', order'>> # <<operator, order>>
    /\ UNCHANGED <<phase, nav, mode>>

NavArrives ==
    /\ nav' \in NavActivity \ {nav}
    /\ UNCHANGED <<phase, operator, order, mode>>

BodyArrives ==
    /\ mode' \in Modes \ {mode}
    /\ UNCHANGED <<phase, operator, order, nav>>

StateNext == SafetyArrives \/ VdaArrives \/ NavArrives \/ BodyArrives

StateSpec == StateInit /\ [][StateNext]_stateVars

----
(* Properties.                                                             *)

\* What is worth telling, in the order Headline declares it.
Urgency == <<"estop", "source_lost", "recovering", "manual", "lying",
             "blocked", "stalled", "release", "driving", "auto">>

\* What is true of the robot at this moment, each fact taken by itself.
Holds(h) ==
    CASE h = "estop" -> phase \in {"stopped", "awaiting_release"}
      [] h = "source_lost" -> phase = "source_lost"
      [] h = "recovering" -> phase = "releasing"
      [] h = "manual" -> operator = "manual"
      [] h = "lying" -> mode \in {5, 7, 10}
      [] h = "blocked" -> nav = "blocked"
      [] h = "stalled" -> nav \in {"stalled", "retreating"}
      [] h = "release" -> order = "waiting_release"
      [] h = "driving" -> \/ mode \in {3, 11, 12, 13}
                          \/ nav \in {"cruising", "aligning"}
                          \/ order \in {"executing", "stopping"}
      [] h = "auto" -> TRUE

\* The headline is true, and nothing that is true outranks it: a lost source
\* is no pressed button, a robot getting up is no robot somebody drives, and a
\* route under way does not hide a robot on the floor. Nor does a robot read as
\* ready beside a headline that says it is not (system_state.py:161-189).
HeadlineIsMostUrgent ==
    /\ \E i \in DOMAIN Urgency :
        /\ Headline = Urgency[i] /\ Holds(Urgency[i])
        /\ \A j \in 1..(i - 1) : ~Holds(Urgency[j])
    /\ ReadyToMove => Headline \notin {"estop", "source_lost", "recovering", "lying"}
====
