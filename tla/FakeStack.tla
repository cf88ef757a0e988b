---- MODULE FakeStack ----
(***************************************************************************)
(* FakeStack, the double of the rest of the robot in testing.py, among a   *)
(* test that sets what it publishes, and a node whose client reads that    *)
(* and sends commands. The double participates in latching, beats no       *)
(* heart, and records without arbitrating. Both are on one session in a    *)
(* test's harness, so messages arrive in order. A test sleeps between what *)
(* it does and what it asserts: one tick, in which everything arrives.     *)
(***************************************************************************)
EXTENDS SafetyStates, Naturals, Sequences, SequencesExt

CONSTANTS
    MaxSets,        \* bound: what a test sets
    MaxCommands,    \* bound: what the node sends, of either kind
    PermitWithin    \* the window of motion_permitted, in ticks

ASSUME StackAssumption ==
    /\ MaxSets \in Nat /\ MaxCommands \in Nat /\ PermitWithin \in Nat

VARIABLES
    sets,        \* how often the test has set something
    shown,       \* per key: what the double published last
    relay,       \* what is on its way to the client
    mirror,      \* per key: the client's Latest, unknown before the first message
    heard,       \* ticks since the client's latch was updated
    joined,      \* is the node there?
    asked,       \* history, per inlet: what the node sent, in order
    inlet,       \* per inlet: what of it is on its way to the double
    record       \* the double: commands, cancels, tilts

stackVars == <<sets, shown, relay, mirror, heard, joined, asked, inlet, record>>

published == <<sets, shown, relay>>
recorded  == <<asked, inlet, record>>

Unknown == [unknown |-> TRUE]

Keys == {"odometry", "localization", "map_identity", "battery", "system", "gateway", "safety"}

GatewayStatus(source, action, zones, tripped) ==
    [active_source |-> source, action |-> action, active_zones |-> zones,
     watchdog_tripped |-> tripped]

\* What the parameters of the setters are drawn from.
Driver ==
    {GatewayStatus("controller", "stop", {"front"}, FALSE),
     GatewayStatus("autonomous", "stop", {}, TRUE)}

\* estop and phase are set independently: a pressed button in a clear phase is
\* what set_safety(estop=True) says.
Frames ==
    {SafetyState("clear"), SafetyState("releasing"), [SafetyState("clear") EXCEPT !.estop = TRUE]}

\* What the node sends to the three inlets of the double.
Sent == [commands |-> {"move", "halt"}, cancels |-> {"press"}, tilts |-> {"lean"}]
Inlets == DOMAIN Sent

StackTypeOK ==
    /\ sets \in 0 .. MaxSets
    /\ DOMAIN shown = Keys /\ DOMAIN mirror = Keys
    /\ \A i \in DOMAIN relay : relay[i].key \in Keys
    /\ heard \in 0 .. PermitWithin + 1
    /\ joined \in BOOLEAN
    /\ DOMAIN asked = Inlets /\ DOMAIN inlet = Inlets /\ DOMAIN record = Inlets
    /\ \A k \in Inlets : {asked[k], inlet[k], record[k]} \subseteq Seq(Sent[k])

\* on_start. The safety latch is permissive, unlike the defaults of the message.
StackInit ==
    /\ sets = 0
    /\ shown = [odometry |-> "origin", localization |-> "origin",
                map_identity |-> [map_id |-> "fake-map", reachable |-> TRUE],
                battery |-> "good", system |-> "standing",
                gateway |-> GatewayStatus("nobody", "pass_through", {}, FALSE),
                safety |-> SafetyState("clear")]
    /\ relay = <<>>
    /\ mirror = [k \in Keys |-> Unknown]
    /\ heard = PermitWithin + 1
    /\ joined = FALSE
    /\ asked = [k \in Inlets |-> <<>>] /\ inlet = asked /\ record = asked

----
(* The setters.                                                            *)

\* One message per key, in some order.
Messages(values) ==
    LET order == SetToSeq(DOMAIN values)
    IN  [i \in DOMAIN order |-> [key |-> order[i], value |-> values[order[i]]]]

Publish(values) ==
    /\ sets < MaxSets
    /\ sets' = sets + 1
    /\ shown' = [k \in Keys |-> IF k \in DOMAIN values THEN values[k] ELSE shown[k]]
    /\ relay' = IF joined THEN relay \o Messages(values) ELSE relay
    /\ UNCHANGED <<mirror, heard, joined, recorded>>

\* A plausible slip: only the odometry moves.
SetOdometry(pose) == Publish([odometry |-> pose])

\* Both keys, one after the other, with the same pose.
SetPose(pose) == Publish([odometry |-> pose, localization |-> pose])

SetBattery(level) == Publish([battery |-> level])
SetMap(id, reachable) == Publish([map_identity |-> [map_id |-> id, reachable |-> reachable]])
SetSafety(frame) == Publish([safety |-> frame])
SetSystem(posture) == Publish([system |-> posture])
SetDriver(status) == Publish([gateway |-> status])

TestSets ==
    \/ SetPose("ahead") \/ SetBattery("critical") \/ SetSystem("sitting")
    \/ \E id \in {"hall-b", "none"} : SetMap(id, TRUE)
    \/ \E f \in Frames : SetSafety(f)
    \/ \E d \in Driver : SetDriver(d)

----
(* The node and its client.                                                *)

\* It subscribes, and the latched values are on their way.
Joins ==
    /\ ~joined /\ joined' = TRUE
    /\ relay' = Messages(shown)
    /\ UNCHANGED <<sets, shown, mirror, heard, recorded>>

\* Latest.update of the key.
Hears ==
    /\ relay # <<>>
    /\ mirror' = [mirror EXCEPT ![Head(relay).key] = Head(relay).value]
    /\ relay' = Tail(relay)
    /\ heard' = IF Head(relay).key = "safety" THEN 0 ELSE heard
    /\ UNCHANGED <<sets, shown, joined, recorded>>

Commands == Len(asked.commands) + Len(asked.cancels) + Len(asked.tilts)

Sends(k, what) ==
    /\ joined /\ Commands < MaxCommands
    /\ asked' = [asked EXCEPT ![k] = Append(@, what)]
    /\ inlet' = [inlet EXCEPT ![k] = Append(@, what)]
    /\ UNCHANGED <<published, mirror, heard, joined, record>>

\* The three handlers: everything is recorded, in order and from every source.
OnMessage(k) ==
    /\ inlet[k] # <<>>
    /\ record' = [record EXCEPT ![k] = Append(@, Head(inlet[k]))]
    /\ inlet' = [inlet EXCEPT ![k] = Tail(@)]
    /\ UNCHANGED <<published, mirror, heard, joined, asked>>

Quiet == relay = <<>> /\ \A k \in Inlets : inlet[k] = <<>>

Sleeps ==
    /\ Quiet
    /\ heard' = IF heard > PermitWithin THEN heard ELSE heard + 1
    /\ UNCHANGED <<published, mirror, joined, recorded>>

StackNext ==
    \/ TestSets \/ Joins \/ Hears \/ Sleeps
    \/ \E k \in Inlets : OnMessage(k) \/ \E what \in Sent[k] : Sends(k, what)

StackSpec == StackInit /\ [][StackNext]_stackVars

----
(* What the test asserts on.                                               *)

\* motion_permitted() of the client.
Permitted == heard <= PermitWithin /\ FrameMotionPermitted(mirror.safety)

\* FakeStack.stopped
Stopped == record.commands # <<>> /\ Last(record.commands) = "halt"

----
(* Properties.                                                             *)

\* A test sees what it set: once it has slept, what the client holds is what
\* the double was told last, and it is so for a node that joined afterwards;
\* the two poses agree, the latch permits or does not until the window of a
\* double without a heart has passed, and the commands, presses and postures are
\* those the node sent, none missing and none twice (testing.py:263-299,
\* 382-387, client.py:308-324, tests/test_client.py:246-276).
TestsSeeWhatTheySet ==
    joined /\ Quiet =>
        /\ mirror = shown
        /\ mirror.odometry = mirror.localization
        /\ Permitted <=> heard <= PermitWithin /\ shown.safety = SafetyState("clear")
        /\ record = asked
        /\ Stopped <=> asked.commands # <<>> /\ Last(asked.commands) = "halt"
====
