---- MODULE Topics ----
(***************************************************************************)
(* The registry of topics.py, as far as it says when a subscriber hears of *)
(* a value: each TopicSet maps its topics to what they deliver. Keys and   *)
(* payload types are left out, and the per-task keys stand under the       *)
(* wildcards they are observed through.                                    *)
(***************************************************************************)

\* level: the last message is true until the next one. latched: the message is
\* kept for whoever joins, if the producer participates. again: it is sent
\* again without a change, as a stream or on a heartbeat.
Delivery(level, latched, again) == [level |-> level, latched |-> latched, again |-> again]

Momentary == Delivery(FALSE, FALSE, FALSE)
Streamed  == Delivery(TRUE, FALSE, TRUE)
OnChange  == Delivery(TRUE, TRUE, FALSE)
Restated  == Delivery(TRUE, TRUE, TRUE)

MotionTopics == [request |-> Streamed, move |-> Streamed]

PoseTopics == [action |-> Momentary, tilt_body |-> Streamed]

ControlTopics == [status |-> Restated]

SafetyTopics ==
    [state |-> Restated, source |-> Restated,
     release |-> Momentary, cancel |-> Momentary,
     estop |-> OnChange, collision_zone |-> OnChange]

InputTopics == [gamepad |-> Streamed, gamepad_status |-> OnChange]

\* The raw streams off the robot, and what is fused from them.
StateTopics ==
    [highstate |-> Restated, odometry |-> Restated, battery |-> Restated, motor |-> Restated,
     releasebutton |-> Momentary, vda |-> OnChange, system |-> OnChange]

LocalizationTopics == [pose |-> Restated, map_identity |-> Restated]

\* A plausible slip: the flag is left out.
MapTopicsUnlatched == [grid |-> Delivery(TRUE, FALSE, FALSE)]

MapTopics == [grid |-> OnChange]

\* feedback and result are observed through their wildcards.
NavTopics ==
    [feedback |-> Streamed, result |-> Momentary,
     path |-> OnChange, costmap_global |-> OnChange, costmap_local |-> Streamed]

Registry ==
    {MotionTopics, PoseTopics, ControlTopics, SafetyTopics, InputTopics, StateTopics,
     LocalizationTopics, MapTopics, NavTopics}

\* The one producer that replays what it latched is that of the grid; the
\* others publish plainly, and will participate one day.
Participates == {"grid"}
====
