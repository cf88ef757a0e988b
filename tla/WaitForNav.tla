---- MODULE WaitForNav ----
(***************************************************************************)
(* wait_for_nav(): a coordinator that holds no presence token is asked for *)
(* the status of a task that cannot exist, until it refuses, while it      *)
(* starts, dies and is slow to answer. Time passes in ticks.               *)
(***************************************************************************)
EXTENDS Naturals

CONSTANTS
    Timeout,         \* what the caller allows
    Poll,            \* ticks between two probes
    ProbeTimeout,    \* _NAV_PROBE_TIMEOUT
    Latency          \* how long a running coordinator takes to answer at most

ASSUME WaitAssumption ==
    /\ Timeout \in Nat /\ Poll \in Nat
    /\ ProbeTimeout \in Nat \ {0} /\ Latency \in Nat

VARIABLES
    call,     \* where the call is: probing, sleeping, ready or timed out
    clock,    \* ticks since wait_for_nav was called
    since,    \* ticks since the probe, or the sleep, began
    serving,  \* is the coordinator running?
    upFor,    \* ticks for which it has been running without a break
    seen      \* it was running at some moment of this probe

waitVars == <<call, clock, since, serving, upFor, seen>>

\* Ages are counted up to here; the call is over before.
WaitHorizon == Timeout + Poll + ProbeTimeout + 1

WaitTypeOK ==
    /\ call \in {"probing", "sleeping", "ready", "timed_out"}
    /\ clock \in 0..WaitHorizon /\ since \in 0..WaitHorizon /\ upFor \in 0..WaitHorizon
    /\ since <= IF call = "sleeping" THEN Poll ELSE ProbeTimeout
    /\ serving \in BOOLEAN /\ seen \in BOOLEAN

WaitInit ==
    /\ call = "probing" /\ clock = 0 /\ since = 0
    /\ serving = FALSE /\ upFor = 0 /\ seen = FALSE

Waiting == call \in {"probing", "sleeping"}

Return(outcome) == call' = outcome /\ UNCHANGED <<clock, since, serving, upFor, seen>>

\* ServiceTimeout: after a probe's timeout, or as soon as the session finds
\* nobody who serves the key.
Unanswered == since = ProbeTimeout \/ ~seen

\* The refusal, a ServiceError, is the answer.
Refused ==
    /\ call = "probing"
    /\ serving /\ since <= ProbeTimeout
    /\ Return("ready")

\* Nobody answered: past the deadline the call gives up, before it sleeps.
Silence ==
    /\ call = "probing"
    /\ Unanswered
    /\ IF clock >= Timeout THEN Return("timed_out")
       ELSE call' = "sleeping" /\ since' = 0 /\ UNCHANGED <<clock, serving, upFor, seen>>

\* A plausible slip: no probe behind the sleep that the deadline falls into.
WakeTooLate ==
    /\ call = "sleeping"
    /\ since = Poll
    /\ IF clock >= Timeout THEN Return("timed_out")
       ELSE call' = "probing" /\ since' = 0 /\ seen' = serving /\ UNCHANGED <<clock, serving, upFor>>

Wake ==
    /\ call = "sleeping"
    /\ since = Poll
    /\ call' = "probing" /\ since' = 0 /\ seen' = serving
    /\ UNCHANGED <<clock, serving, upFor>>

----
NavStarts ==
    /\ Waiting /\ ~serving
    /\ serving' = TRUE /\ seen' = TRUE /\ upFor' = 0
    /\ UNCHANGED <<call, clock, since>>

NavDies ==
    /\ Waiting /\ serving
    /\ serving' = FALSE /\ upFor' = 0
    /\ UNCHANGED <<call, clock, since, seen>>

Longer(n) == IF n = WaitHorizon THEN n ELSE n + 1

\* A timer that is due fires, and the answer of a coordinator that has been up
\* since the probe began arrives, before time passes.
WaitTick ==
    /\ call = "probing" => since < ProbeTimeout /\ ~(serving /\ upFor >= since /\ since >= Latency)
    /\ call = "sleeping" => since < Poll
    /\ Waiting
    /\ clock' = Longer(clock) /\ since' = since + 1
    /\ upFor' = IF serving THEN Longer(upFor) ELSE 0
    /\ UNCHANGED <<call, serving, seen>>

WaitNext == Refused \/ Silence \/ Wake \/ NavStarts \/ NavDies \/ WaitTick

WaitSpec == WaitInit /\ [][WaitNext]_waitVars

----
(* Properties.                                                             *)

\* Ready is never silence: the coordinator was running while the probe that
\* ended the wait was out. One that has been up since before the last probe and
\* answers in time is not reported missing, nor is one that came up while the
\* deadline passed in a sleep. And the wait outlasts its timeout by no more than
\* the sleep and the probe under way at the deadline (client.py:838-874).
WaitIsHonest ==
    /\ call = "ready" => seen
    /\ call = "timed_out" /\ Latency < ProbeTimeout => upFor < ProbeTimeout
    /\ clock <= Timeout + Poll + ProbeTimeout
====
