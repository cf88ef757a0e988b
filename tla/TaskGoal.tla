---- MODULE TaskGoal ----
(***************************************************************************)
(* The goals that navigate_to and navigate_through make of what they are   *)
(* called with, the validation of a route, and what FakeNav reads off a    *)
(* goal. None stands for Python's; angles are small numbers, 0 is 0.0.     *)
(***************************************************************************)
EXTENDS Integers, Sequences, SequencesExt

CONSTANTS
    Place,      \* points of the map
    Heading,    \* angles, 0 among them
    Dwell,      \* seconds, negative ones among them
    MaxLegs,    \* bound: poses of a route
    None

ASSUME GoalAssumption ==
    /\ 0 \in Heading /\ Heading \subseteq Int /\ Dwell \subseteq Int
    /\ MaxLegs \in Nat
    /\ None \notin Heading

Pose2D == [at : Place, theta : Heading]

\* What navigate_through takes for a pose: a Pose2D, or a pair without theta.
PoseOrPair == [at : Place, theta : Heading \cup {None}]

\* The calls of navigate_to and navigate_through.
ToCall == [target : Place, heading : Heading \cup {None}]
ThroughCall ==
    [poses : BoundedSeq(PoseOrPair, MaxLegs), heading : Heading \cup {None},
     dwell : {None} \cup BoundedSeq(Dwell, MaxLegs)]

Goal(poses, heading, dwell, total) ==
    [poses |-> poses, heading |-> heading, dwell |-> dwell, total |-> total]
ValidationError == Goal(<<>>, None, None, None)

VARIABLES
    request,    \* what the client was asked, None before
    goal     \* the goal it submits, or ValidationError

goalVars == <<request, goal>>

GoalInit == request = None /\ goal = ValidationError

----
OrZero(heading) == IF heading = None THEN 0 ELSE heading

\* A plausible slip: a heading of 0.0 is falsy, and taken for none.
NavigateToFalsy(target, heading) ==
    Goal(<<[at |-> target, theta |-> OrZero(heading)]>>,
         IF heading = 0 THEN None ELSE heading, None, None)

\* The hint in the target is the heading or zero; the intent is a field of its
\* own.
NavigateTo(target, heading) ==
    Goal(<<[at |-> target, theta |-> OrZero(heading)]>>, heading, None, None)

\* NavigateThroughPosesGoal._check_dwell
CheckDwell(poses, dwell) ==
    dwell # None => Len(dwell) = Len(poses) /\ \A i \in DOMAIN dwell : dwell[i] >= 0

\* A pair becomes a pose with theta zero. Without a pose there is no route.
NavigateThrough(poses, heading, dwell) ==
    IF poses # <<>> /\ CheckDwell(poses, dwell)
    THEN Goal([i \in DOMAIN poses |-> [poses[i] EXCEPT !.theta = OrZero(@)]],
              heading, dwell, Len(poses))
    ELSE ValidationError

\* What FakeNav reads off a goal: where it ends, and how many legs it reports.
GoalTarget == Last(goal.poses)
GoalSegments == goal.total

To ==
    /\ request' \in ToCall
    /\ goal' = NavigateTo(request'.target, request'.heading)

Through ==
    /\ request' \in ThroughCall
    /\ goal' = NavigateThrough(request'.poses, request'.heading, request'.dwell)

GoalNext == request = None /\ (To \/ Through)

GoalSpec == GoalInit /\ [][GoalNext]_goalVars

----
(* Properties.                                                             *)

\* A goal says what its caller said. A call is refused only for a dwell that
\* cannot be matched to the route, or no route; otherwise the goal ends in the
\* last place named, with one leg and at most one dwell for each place; the
\* robot rotates at the end exactly if a heading was given, 0.0 included; and a
\* route whose poses carry a theta does not ask for it (client.py:555-558,
\* navigation.py:205-214, 262-279; testing.py:210-219).
GoalsSayWhatWasAsked ==
    request # None =>
        LET through == "poses" \in DOMAIN request
            places == IF through THEN [i \in DOMAIN request.poses |-> request.poses[i].at]
                                 ELSE <<request.target>>
            bad == through /\ request.dwell # None /\
                       \E i \in 1..MaxLegs :
                           \/ i \in DOMAIN request.dwell /\ request.dwell[i] < 0
                           \/ (i \in DOMAIN request.dwell) # (i \in DOMAIN request.poses)
        IN  IF places = <<>> \/ bad
            THEN goal = ValidationError
            ELSE /\ GoalTarget.at = Last(places)
                 /\ [i \in DOMAIN goal.poses |-> goal.poses[i].at] = places
                 /\ goal.poses \in Seq(Pose2D)
                 /\ goal.heading = request.heading
                 /\ through => GoalSegments = Len(places) /\ goal.dwell = request.dwell
====
