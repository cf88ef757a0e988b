---- MODULE FixedDrive ----
(***************************************************************************)
(* What the two drive examples have in common, each of which calls itself  *)
(* equivalent to the other: no velocity is published before there is a     *)
(* pose, then one and only that, and a zero when the drive is over, behind *)
(* which comes nothing. A node that is stopped before its first pose need  *)
(* not say anything: nothing has moved.                                    *)
(***************************************************************************)

VARIABLES
    stage,      \* waiting for a pose, driving, or over
    command     \* the last command published

vars == <<stage, command>>

Init == stage = "waiting" /\ command = "none"

Start == stage = "waiting" /\ stage' = "driving" /\ UNCHANGED command

Drive == stage = "driving" /\ command' = "forward" /\ UNCHANGED stage

Finish ==
    /\ stage # "over" /\ stage' = "over"
    /\ \/ command' = "zero"
       \/ stage = "waiting" /\ UNCHANGED command

Next == Start \/ Drive \/ Finish

Spec == Init /\ [][Next]_vars
====
