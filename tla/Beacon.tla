---- MODULE Beacon ----
(***************************************************************************)
(* A level that an authority of its own publishes on every change and on a *)
(* heartbeat, and the Latest the client keeps of it: the last value and    *)
(* how long ago it arrived. SafetyView and MapView extend it with what the *)
(* level says. The authority and the link are not part of this repository; *)
(* what is assumed of them is what topics.py and the messages say.         *)
(***************************************************************************)
EXTENDS Naturals, Sequences, SequencesExt

CONSTANTS
    Level,       \* what the authority can say
    NoLevel,     \* Latest.value before the first message
    Beat,        \* ticks between two heartbeats
    MaxDelay,    \* ticks a message spends on the link at most
    Within,      \* the freshness window the caller asks with
    LinkSize,    \* bound: messages on the link at once
    Links        \* what links may do: lose messages, deliver them out of order,
                 \* carry a heartbeat

AnyLink == [loses : BOOLEAN, reorders : BOOLEAN, beats : BOOLEAN]

ASSUME BeaconAssumption ==
    /\ Beat \in Nat \ {0} /\ MaxDelay \in Nat /\ Within \in Nat
    /\ LinkSize \in Nat \ {0}
    /\ Links \subseteq AnyLink
    /\ NoLevel \notin Level

VARIABLES
    up,       \* is the authority running?
    level,    \* what it says
    due,      \* ticks until its next heartbeat
    kind,     \* what this link may do
    link,     \* messages under way: what they say, ticks since they were sent
    latest    \* Latest: the value, and the ticks since it arrived

beaconVars == <<up, level, due, kind, link, latest>>

\* Ages are counted up to here; behind it nothing distinguishes them.
Horizon == Within + MaxDelay + 1

Older(n) == IF n = Horizon THEN n ELSE n + 1

BeaconTypeOK ==
    /\ up \in BOOLEAN
    /\ level \in Level
    /\ due \in 0..Beat
    /\ kind \in Links
    /\ link \in Seq([level : Level, age : 0..MaxDelay]) /\ Len(link) <= LinkSize
    /\ latest \in [value : Level \cup {NoLevel}, age : 0..Horizon]

\* A client joins. latched=True is an intent: the client has the level on the
\* way only if the producer participates.
BeaconInit ==
    /\ up = TRUE
    /\ level \in Level
    /\ due \in 0..Beat
    /\ kind \in Links
    /\ link \in {<<>>, <<[level |-> level, age |-> 0]>>}
    /\ latest = [value |-> NoLevel, age |-> Horizon]

----
Send(l) ==
    /\ Len(link) < LinkSize
    /\ link' = Append(link, [level |-> l, age |-> 0])
    /\ UNCHANGED kind

Change(l) ==
    /\ up
    /\ l # level
    /\ level' = l
    /\ Send(l)
    /\ UNCHANGED <<up, due, latest>>

Restate ==
    /\ up
    /\ kind.beats
    /\ due = 0
    /\ due' = Beat
    /\ Send(level)
    /\ UNCHANGED <<up, level, latest>>

\* The authority is gone, and nobody says so.
Crash ==
    /\ up
    /\ up' = FALSE
    /\ UNCHANGED <<level, due, kind, link, latest>>

Restart(l) ==
    /\ ~up
    /\ up' = TRUE
    /\ level' = l
    /\ due' = Beat
    /\ Send(l)
    /\ UNCHANGED latest

Lose(i) ==
    /\ kind.loses
    /\ link' = RemoveAt(link, i)
    /\ UNCHANGED <<up, level, due, kind, latest>>

\* A message is due within MaxDelay, and so is a heartbeat.
Tick ==
    /\ \A i \in DOMAIN link : link[i].age < MaxDelay
    /\ up /\ kind.beats => due > 0
    /\ due' = IF up /\ kind.beats THEN due - 1 ELSE due
    /\ link' = [i \in DOMAIN link |-> [link[i] EXCEPT !.age = @ + 1]]
    /\ latest' = [latest EXCEPT !.age = Older(@)]
    /\ UNCHANGED <<up, level, kind>>

----
(* The client.                                                             *)

\* The age is reset when a message arrives, whatever its own stamp says.
Update(frame) == latest' = [value |-> frame.level, age |-> 0]

Receive(i) ==
    /\ i = 1 \/ kind.reorders
    /\ Update(link[i])
    /\ link' = RemoveAt(link, i)
    /\ UNCHANGED <<up, level, due, kind>>

\* A plausible slip: a window shorter than the beat.
FreshTooStrict == latest.value # NoLevel /\ latest.age < MaxDelay

\* A value arrived within the last Within ticks. NoLevel is never fresh.
Fresh == latest.value # NoLevel /\ latest.age <= Within
====
