---- MODULE DriveExamples ----
(***************************************************************************)
(* The two drive examples side by side, each of which calls itself         *)
(* equivalent to the other: one of them runs, in the same scene, and is    *)
(* held to the same promises.                                              *)
(***************************************************************************)
EXTENDS ContractDrive, ClientDrive

VARIABLE example    \* which one runs

exampleVars == <<sceneVars, contractOwn, clientOwn, example>>

ExampleInit ==
    /\ example \in {"contract", "client"}
    /\ ContractInit /\ ClientInit

ExampleNext ==
    /\ UNCHANGED example
    /\ \/ example = "contract" /\ ContractNext /\ UNCHANGED clientOwn
       \/ example = "client" /\ ClientNext /\ UNCHANGED contractOwn

ExampleSpec == ExampleInit /\ [][ExampleNext]_exampleVars

----
(* Properties.                                                             *)

\* While poses come, the robot is not driven further than its distance from
\* where it stood when the node came up, though the node learns of that place
\* from its first pose only (contract_drive.py:66-94, client_drive.py:51-84).
DistanceIsKept == odometry => position - start \in (-Distance)..Distance

\* A look of either example while a zone it was told of is breached stops the
\* drive: "a breached collision zone must stop the drive" (test_examples.py:64).
\* Either example keeps one flag for all zones, which the next event of another
\* zone overwrites, so this is so where there is one zone, as in that test.
BreachStops ==
    [][(OnTick \/ Look) /\ told # {} => last' = "zero"]_exampleVars

\* Both do what FixedDrive says, whatever stops them: the distance, a zone, a
\* human at the gamepad, or from outside at any time, also while they wait for
\* their first pose (contract_drive.py:76-94, client_drive.py:51-76).
Stage ==
    IF example = "client" THEN task
    ELSE IF node # "running" THEN "over"
    ELSE IF origin = NoPose THEN "waiting" ELSE "driving"

Drive == INSTANCE FixedDrive WITH stage <- Stage, command <- last
DriveSpec == Drive!Spec
====
