---- MODULE ClientReads_proofs ----
(***************************************************************************)
(* What a client and the nodes around it may rely on, besides the latch:   *)
(* that a press of the button counts once, for any nodes, consumers and    *)
(* numbers of presses and clients; that the wait for the coordinator, the  *)
(* look at a map of any size, the goal made of any call, the headline, the *)
(* reason and the double of the rest of the robot do what they say; that   *)
(* the two drive examples keep their distance, and implement FixedDrive;   *)
(* and what Beacon_proofs says, of the beacons that MCClientReads asks     *)
(* about.                                                                  *)
(***************************************************************************)
EXTENDS MCClientReads, FiniteSetTheorems, SequenceTheorems, TLAPS

----
(* The button: the inductive invariant.                                    *)

\* Events carry the name of the node that pressed, and presses on the way or
\* acted on have been made.
PressesAreMade ==
    /\ \A s \in Source : cancelSeq[s] <= presses[s]
    /\ \A c \in Consumer : \A m \in wire[c] :
          m.event.source_id = m.press[1] /\ m.press[2] <= presses[m.press[1]]
    /\ \A c \in Consumer : \A p \in Press : acted[c][p] > 0 => p[2] <= presses[p[1]]

\* A press is sent as one event.
OneEventEach ==
    \A c \in Consumer : \A m, n \in wire[c] : m.press = n.press => m = n

\* A press that was acted on is known, so that its re-sends are not acted on.
ActedIsKnown ==
    /\ \A c \in Consumer : \A m \in wire[c] : acted[c][m.press] > 0 => m.event \in known[c]
    /\ \A c \in Consumer : \A p \in Press : acted[c][p] <= 1

\* The first client of a node numbers its events as its presses.
FirstClient ==
    \A s \in Source : life[s] = 1 =>
        /\ cancelSeq[s] = presses[s]
        /\ \A c \in Consumer : \A m \in wire[c] : m.press[1] = s => m.event.seq = m.press[2]

\* Of a node with its first client: what is known, and what came through, was
\* acted on.
KnownIsActed ==
    \A c \in Consumer :
        /\ \A e \in known[c] : life[e.source_id] = 1 => acted[c][<<e.source_id, e.seq>>] = 1
        /\ \A p \in reached[c] : life[p[1]] = 1 => acted[c][p] = 1

ButtonInv ==
    ButtonTypeOK /\ PressesAreMade /\ OneEventEach /\ ActedIsKnown /\ FirstClient /\ KnownIsActed

----
(* The steps.                                                              *)

\* Nothing was pressed yet.
LEMMA ButtonInitInv == ButtonInit => ButtonInv
<1> SUFFICES ASSUME ButtonInit PROVE ButtonInv
  OBVIOUS
<1> USE DEF ButtonInit
<1>1. ButtonTypeOK
  BY ButtonAssumption DEF ButtonTypeOK
<1>2. PressesAreMade /\ OneEventEach /\ ActedIsKnown /\ FirstClient /\ KnownIsActed
  BY DEF PressesAreMade, OneEventEach, ActedIsKnown, FirstClient, KnownIsActed
<1> QED BY <1>1, <1>2 DEF ButtonInv

\* A press gets a number that no press of its node had, and an event of its own.
LEMMA EmergencyStopInv ==
    ASSUME NEW s \in Source, ButtonInv, EmergencyStop(s) PROVE ButtonInv'
<1> DEFINE new == [press |-> <<s, presses[s] + 1>>, event |-> ButtonEvent(s, cancelSeq[s] + 1)]
<1>1. /\ presses[s] < MaxPresses
      /\ cancelSeq' = [cancelSeq EXCEPT ![s] = @ + 1]
      /\ presses' = [presses EXCEPT ![s] = @ + 1]
      /\ wire' = [c \in Consumer |-> wire[c] \cup {new}]
      /\ UNCHANGED <<life, known, reached, acted>>
  BY DEF EmergencyStop, PutPress, ButtonInv, ButtonTypeOK
<1>2. /\ ButtonTypeOK /\ PressesAreMade
      /\ presses[s] \in Nat /\ cancelSeq[s] \in Nat /\ cancelSeq[s] <= presses[s]
  BY ButtonAssumption DEF ButtonInv, ButtonTypeOK, PressesAreMade
<1>3. /\ new.press \in Press /\ new.event \in Events
      /\ new.press[1] = s /\ new.press[2] = presses[s] + 1
      /\ new.event.source_id = s /\ new.event.seq = cancelSeq[s] + 1
  BY <1>1, <1>2, ButtonAssumption DEF Press, Events, ButtonEvent
<1>4. \A c \in Consumer : \A m \in wire'[c] : m \in wire[c] \/ m = new
  BY <1>1
<1>5. \A c \in Consumer : \A m \in wire[c] : m.press # new.press
  BY <1>2, <1>3 DEF PressesAreMade, ButtonTypeOK
<1> HIDE DEF new
<1>6. ButtonTypeOK'
  <2>1. cancelSeq' \in [Source -> 0 .. MaxPresses] /\ presses' \in [Source -> 0 .. MaxPresses]
    BY <1>1, <1>2, ButtonAssumption DEF ButtonTypeOK
  <2>2. wire' \in [Consumer -> SUBSET [press : Press, event : Events]]
    <3>1. new \in [press : Press, event : Events]
      BY <1>3 DEF new
    <3> QED BY <1>1, <1>2, <3>1 DEF ButtonTypeOK
  <2> QED BY <1>1, <1>2, <2>1, <2>2 DEF ButtonTypeOK
<1>7. PressesAreMade'
  <2>1. \A t \in Source : cancelSeq'[t] <= presses'[t] /\ presses[t] <= presses'[t]
    BY <1>1, <1>2, ButtonAssumption DEF PressesAreMade, ButtonTypeOK
  <2>2. ASSUME NEW c \in Consumer, NEW m \in wire'[c]
        PROVE  m.event.source_id = m.press[1] /\ m.press[2] <= presses'[m.press[1]]
    <3>1. CASE m = new
      BY <1>1, <1>2, <1>3, <3>1 DEF ButtonTypeOK
    <3>2. CASE m \in wire[c]
      <4>1. m.press \in Press /\ m.event.source_id = m.press[1]
            /\ m.press[2] <= presses[m.press[1]]
        BY <1>2, <3>2 DEF PressesAreMade, ButtonTypeOK
      <4>2. m.press[1] \in Source /\ m.press[2] \in Nat
        BY <4>1, ButtonAssumption DEF Press
      <4>3. presses[m.press[1]] \in Nat /\ presses'[m.press[1]] \in Nat
        BY <1>2, <1>6, <4>2, ButtonAssumption DEF ButtonTypeOK
      <4> QED BY <2>1, <4>1, <4>2, <4>3
    <3> QED BY <1>4, <3>1, <3>2
  <2>3. ASSUME NEW c \in Consumer, NEW p \in Press, acted'[c][p] > 0
        PROVE  p[2] <= presses'[p[1]]
    <3>1. p[1] \in Source /\ p[2] \in Nat /\ p[2] <= presses[p[1]]
      BY <1>1, <1>2, <2>3, ButtonAssumption DEF Press, PressesAreMade
    <3>2. presses[p[1]] \in Nat /\ presses'[p[1]] \in Nat
      BY <1>2, <1>6, <3>1, ButtonAssumption DEF ButtonTypeOK
    <3> QED BY <2>1, <3>1, <3>2
  <2> QED BY <2>1, <2>2, <2>3 DEF PressesAreMade
<1>8. OneEventEach'
  BY <1>4, <1>5 DEF ButtonInv, OneEventEach
<1>9. ActedIsKnown'
  <2>1. \A c \in Consumer : ~(acted[c][new.press] > 0)
    BY <1>2, <1>3 DEF PressesAreMade
  <2> QED BY <1>1, <1>4, <2>1 DEF ButtonInv, ActedIsKnown
<1>10. FirstClient'
  <2>1. \A t \in Source : life[t] = 1 => cancelSeq'[t] = presses'[t]
    BY <1>1, <1>2 DEF ButtonInv, FirstClient, ButtonTypeOK
  <2>2. life[s] = 1 => new.event.seq = new.press[2]
    BY <1>3 DEF ButtonInv, FirstClient
  <2>3. ASSUME NEW t \in Source, life[t] = 1, NEW c \in Consumer, NEW m \in wire'[c],
               m.press[1] = t
        PROVE  m.event.seq = m.press[2]
    BY <1>3, <1>4, <2>2, <2>3 DEF ButtonInv, FirstClient
  <2> QED BY <1>1, <2>1, <2>3 DEF FirstClient
<1>11. KnownIsActed'
  BY <1>1 DEF ButtonInv, KnownIsActed
<1> QED BY <1>6, <1>7, <1>8, <1>9, <1>10, <1>11 DEF ButtonInv

\* Of a node that has another client, nothing more is claimed.
LEMMA NewClientInv == ASSUME NEW s \in Source, ButtonInv, NewClient(s) PROVE ButtonInv'
<1>1. /\ life[s] < MaxLives
      /\ life' = [life EXCEPT ![s] = @ + 1]
      /\ cancelSeq' = [cancelSeq EXCEPT ![s] = 0]
      /\ UNCHANGED <<presses, wire, known, reached, acted>>
  BY DEF NewClient
<1>2. ButtonTypeOK /\ life[s] \in 1 .. MaxLives /\ MaxLives \in Nat /\ MaxPresses \in Nat
  BY ButtonAssumption DEF ButtonInv, ButtonTypeOK
<1>3. ButtonTypeOK'
  BY <1>1, <1>2 DEF ButtonTypeOK
<1>4. \A t \in Source : life'[t] = 1 => t # s /\ life[t] = 1
  BY <1>1, <1>2 DEF ButtonTypeOK
<1>5. PressesAreMade'
  <2>1. \A t \in Source : cancelSeq'[t] <= presses[t]
    BY <1>1, <1>2 DEF ButtonInv, PressesAreMade, ButtonTypeOK
  <2> QED BY <1>1, <2>1 DEF ButtonInv, PressesAreMade
<1>6. OneEventEach' /\ ActedIsKnown'
  BY <1>1 DEF ButtonInv, OneEventEach, ActedIsKnown
<1>7. FirstClient'
  BY <1>1, <1>2, <1>4 DEF ButtonInv, FirstClient, ButtonTypeOK
<1>8. KnownIsActed'
  <2>1. \A c \in Consumer : /\ \A e \in known[c] : e.source_id \in Source
                            /\ \A p \in reached[c] : p[1] \in Source
    BY <1>2 DEF ButtonTypeOK, Events, Press
  <2> QED BY <1>1, <1>4, <2>1 DEF ButtonInv, KnownIsActed
<1> QED BY <1>3, <1>5, <1>6, <1>7, <1>8 DEF ButtonInv

\* An event that is not known was not acted on, and a known one of a first
\* client was: so the press counts once and not twice.
LEMMA DeliverInv ==
    ASSUME NEW c \in Consumer, NEW m \in wire[c], ButtonInv, Deliver(c, m) PROVE ButtonInv'
<1> DEFINE p == m.press
           s == m.press[1]
<1>1. /\ reached' = [reached EXCEPT ![c] = @ \cup {p}]
      /\ known' = [known EXCEPT ![c] = @ \cup {m.event}]
      /\ UNCHANGED <<life, cancelSeq, presses, wire>>
  BY DEF Deliver
<1>2. ButtonTypeOK /\ p \in Press /\ m.event \in Events /\ acted[c][p] \in 0 .. 2
  BY DEF ButtonInv, ButtonTypeOK
<1>3. /\ s \in Source /\ p[2] \in Nat /\ p = <<s, p[2]>>
      /\ m.event.source_id = s /\ p[2] <= presses[s]
  BY <1>2, ButtonAssumption DEF ButtonInv, PressesAreMade, Press
<1>4. \/ m.event \in known[c] /\ acted' = acted
      \/ /\ m.event \notin known[c] /\ acted[c][p] = 0
         /\ acted' = [acted EXCEPT ![c] = [acted[c] EXCEPT ![p] = 1]]
  <2>1. m.event \notin known[c] => acted[c][p] = 0
    BY <1>2 DEF ButtonInv, ActedIsKnown
  <2>2. CASE m.event \in known[c]
    BY <2>2 DEF Deliver
  <2>3. CASE m.event \notin known[c]
    <3>1. acted' = [acted EXCEPT ![c] = [acted[c] EXCEPT ![p] = acted[c][p] + 1]]
      BY <2>3 DEF Deliver
    <3>2. acted[c][p] + 1 = 1
      BY <2>1, <2>3
    <3> QED BY <2>1, <2>3, <3>1, <3>2
  <2> QED BY <2>2, <2>3
<1>5. life[s] = 1 => m.event.seq = p[2]
  BY <1>3 DEF ButtonInv, FirstClient
<1>6. life[s] = 1 => acted'[c][p] = 1
  <2>1. SUFFICES ASSUME life[s] = 1 PROVE acted'[c][p] = 1
    OBVIOUS
  <2>2. CASE m.event \in known[c] /\ acted' = acted
    <3>1. <<m.event.source_id, m.event.seq>> = p
      BY <1>3, <1>5, <2>1
    <3> QED BY <1>3, <2>1, <2>2, <3>1 DEF ButtonInv, KnownIsActed
  <2>3. CASE acted' = [acted EXCEPT ![c] = [acted[c] EXCEPT ![p] = 1]]
    BY <1>2, <2>3 DEF ButtonTypeOK
  <2> QED BY <1>4, <2>2, <2>3
<1>7. \A d \in Consumer : \A q \in Press :
          acted'[d][q] = acted[d][q] \/ (d = c /\ q = p /\ acted'[d][q] = 1)
  BY <1>2, <1>4 DEF ButtonTypeOK
<1>8. ButtonTypeOK'
  <2>1. acted' \in [Consumer -> [Press -> 0 .. 2]]
    <3>1. [acted[c] EXCEPT ![p] = 1] \in [Press -> 0 .. 2]
      BY <1>2 DEF ButtonTypeOK
    <3> QED BY <1>2, <1>4, <3>1 DEF ButtonTypeOK
  <2> QED BY <1>1, <1>2, <2>1 DEF ButtonTypeOK
<1>9. PressesAreMade'
  BY <1>1, <1>3, <1>7 DEF ButtonInv, PressesAreMade
<1>10. OneEventEach' /\ FirstClient'
  BY <1>1 DEF ButtonInv, OneEventEach, FirstClient
<1>11. ActedIsKnown'
  <2>1. ASSUME NEW d \in Consumer, NEW n \in wire[d], acted'[d][n.press] > 0
        PROVE  n.event \in known'[d]
    <3>1. n.press \in Press
      BY <1>2 DEF ButtonTypeOK
    <3>2. CASE d = c /\ n.press = p
      BY <1>1, <1>2, <3>2 DEF ButtonInv, OneEventEach, ButtonTypeOK
    <3>3. CASE ~(d = c /\ n.press = p)
      BY <1>1, <1>2, <1>7, <2>1, <3>1, <3>3 DEF ButtonInv, ActedIsKnown, ButtonTypeOK
    <3> QED BY <3>2, <3>3
  <2>2. \A d \in Consumer : \A q \in Press : acted'[d][q] <= 1
    BY <1>7 DEF ButtonInv, ActedIsKnown
  <2> QED BY <1>1, <2>1, <2>2 DEF ActedIsKnown
<1>12. KnownIsActed'
  <2>1. ASSUME NEW d \in Consumer, NEW e \in known'[d], life[e.source_id] = 1
        PROVE  acted'[d][<<e.source_id, e.seq>>] = 1
    <3>1. CASE d = c /\ e = m.event
      BY <1>3, <1>5, <1>6, <2>1, <3>1
    <3>2. CASE ~(d = c /\ e = m.event)
      <4>1. e \in known[d]
        BY <1>1, <1>2, <3>2 DEF ButtonTypeOK
      <4>2. <<e.source_id, e.seq>> \in Press
        BY <1>2, <4>1 DEF ButtonTypeOK, Events, Press
      <4> QED BY <1>7, <2>1, <4>1, <4>2 DEF ButtonInv, KnownIsActed
    <3> QED BY <3>1, <3>2
  <2>2. ASSUME NEW d \in Consumer, NEW q \in reached'[d], life[q[1]] = 1
        PROVE  acted'[d][q] = 1
    <3>1. CASE d = c /\ q = p
      BY <1>6, <2>2, <3>1
    <3>2. CASE ~(d = c /\ q = p)
      <4>1. q \in reached[d] /\ q \in Press
        BY <1>1, <1>2, <3>2 DEF ButtonTypeOK
      <4> QED BY <1>7, <2>2, <4>1 DEF ButtonInv, KnownIsActed
    <3> QED BY <3>1, <3>2
  <2> QED BY <1>1, <2>1, <2>2 DEF KnownIsActed
<1> QED BY <1>8, <1>9, <1>10, <1>11, <1>12 DEF ButtonInv

\* What is lost was neither known nor acted on by its loss.
LEMMA VanishInv ==
    ASSUME NEW c \in Consumer, NEW m \in wire[c], ButtonInv, Vanish(c, m) PROVE ButtonInv'
<1>1. /\ wire' = [wire EXCEPT ![c] = @ \ {m}]
      /\ UNCHANGED <<life, cancelSeq, presses, known, reached, acted>>
  BY DEF Vanish
<1>2. ButtonTypeOK' /\ \A d \in Consumer : wire'[d] \subseteq wire[d]
  BY <1>1 DEF ButtonInv, ButtonTypeOK
<1>3. PressesAreMade' /\ OneEventEach' /\ ActedIsKnown'
  BY <1>1, <1>2 DEF ButtonInv, PressesAreMade, OneEventEach, ActedIsKnown
<1>4. FirstClient' /\ KnownIsActed'
  BY <1>1, <1>2 DEF ButtonInv, FirstClient, KnownIsActed
<1> QED BY <1>2, <1>3, <1>4 DEF ButtonInv

\* Every step keeps the invariant.
LEMMA ButtonStepInv == ButtonInv /\ [ButtonNext]_buttonVars => ButtonInv'
<1> SUFFICES ASSUME ButtonInv, [ButtonNext]_buttonVars PROVE ButtonInv'
  OBVIOUS
<1>1. ASSUME NEW s \in Source, EmergencyStop(s) PROVE ButtonInv'
  BY <1>1, EmergencyStopInv
<1>2. ASSUME NEW s \in Source, NewClient(s) PROVE ButtonInv'
  BY <1>2, NewClientInv
<1>3. ASSUME NEW c \in Consumer, NEW m \in wire[c], Deliver(c, m) PROVE ButtonInv'
  BY <1>3, DeliverInv
<1>4. ASSUME NEW c \in Consumer, NEW m \in wire[c], Vanish(c, m) PROVE ButtonInv'
  BY <1>4, VanishInv
<1>5. CASE UNCHANGED buttonVars
  BY <1>5 DEF buttonVars, ButtonInv, ButtonTypeOK, PressesAreMade, OneEventEach, ActedIsKnown,
              FirstClient, KnownIsActed
<1> QED BY <1>1, <1>2, <1>3, <1>4, <1>5 DEF ButtonNext

----
(* The theorem.                                                            *)

\* Whatever is sent again, lost, late or out of order: no press is acted on
\* twice by one consumer, and a press of the first client of a node that comes
\* through is acted on.
THEOREM PressesCountOnce == ButtonSpec => []PressesCount
<1>1. ButtonInv => PressesCount
  <2> SUFFICES ASSUME ButtonInv, NEW c \in Consumer, NEW p \in reached[c]
               PROVE  acted[c][p] <= 1 /\ (life[p[1]] = 1 => acted[c][p] = 1)
    BY DEF PressesCount
  <2>1. p \in Press
    BY DEF ButtonInv, ButtonTypeOK
  <2> QED BY <2>1 DEF ButtonInv, ActedIsKnown, KnownIsActed
<1> QED BY <1>1, ButtonInitInv, ButtonStepInv, PTL DEF ButtonSpec

----
(* wait_for_nav.                                                           *)

\* A probe begins before the deadline, or behind the sleep that began before
\* it; it saw the coordinator if that is there; and it is not over with a
\* coordinator that was up all the time and had the time to answer.
WaitInv ==
    /\ WaitTypeOK
    /\ call = "ready" => seen
    /\ serving => seen
    /\ ~serving => upFor = 0
    /\ call = "probing" => clock <= Timeout + Poll + since
    /\ call = "sleeping" => clock <= Timeout + since
    /\ call \in {"ready", "timed_out"} => clock <= Timeout + Poll + ProbeTimeout
    /\ call = "probing" /\ since = ProbeTimeout /\ Latency < ProbeTimeout => upFor < ProbeTimeout
    /\ call = "timed_out" /\ Latency < ProbeTimeout => upFor < ProbeTimeout

LEMMA WaitNumbers ==
    /\ Timeout \in Nat /\ Poll \in Nat /\ ProbeTimeout \in Nat \ {0} /\ Latency \in Nat
    /\ WaitHorizon \in Nat /\ WaitHorizon = Timeout + Poll + ProbeTimeout + 1
    /\ \A n \in 0..WaitHorizon :
           /\ Longer(n) \in 0..WaitHorizon /\ Longer(n) <= n + 1
           /\ Longer(n) = n + 1 \/ Longer(n) = WaitHorizon
BY WaitAssumption DEF WaitHorizon, Longer

LEMMA WaitStepInv == WaitInv /\ [WaitNext]_waitVars => WaitInv'
<1> SUFFICES ASSUME WaitInv, [WaitNext]_waitVars PROVE WaitInv'
  OBVIOUS
<1>1. /\ clock \in 0..WaitHorizon /\ since \in 0..WaitHorizon /\ upFor \in 0..WaitHorizon
      /\ since <= IF call = "sleeping" THEN Poll ELSE ProbeTimeout
      /\ serving \in BOOLEAN /\ seen \in BOOLEAN
  BY DEF WaitInv, WaitTypeOK
<1>2. CASE Refused
  <2>1. /\ call = "probing" /\ call' = "ready" /\ serving /\ seen
        /\ UNCHANGED <<clock, since, serving, upFor, seen>>
    BY <1>2 DEF Refused, Return, WaitInv
  <2>2. clock <= Timeout + Poll + ProbeTimeout
    BY <1>1, <2>1, WaitNumbers DEF WaitInv
  <2> QED BY <1>1, <2>1, <2>2 DEF WaitInv, WaitTypeOK
<1>3. CASE Silence
  <2>1. call = "probing" /\ Unanswered
    BY <1>3 DEF Silence
  <2>2. CASE clock >= Timeout
    <3>1. call' = "timed_out" /\ UNCHANGED <<clock, since, serving, upFor, seen>>
      BY <1>3, <2>2 DEF Silence, Return
    <3>2. clock <= Timeout + Poll + ProbeTimeout
      BY <1>1, <2>1, WaitNumbers DEF WaitInv
    <3>3. Latency < ProbeTimeout => upFor < ProbeTimeout
      <4>1. CASE since = ProbeTimeout
        BY <2>1, <4>1 DEF WaitInv
      <4>2. CASE ~seen
        BY <4>2, WaitNumbers DEF WaitInv
      <4> QED BY <2>1, <4>1, <4>2 DEF Unanswered
    <3> QED BY <1>1, <2>1, <3>1, <3>2, <3>3 DEF WaitInv, WaitTypeOK
  <2>3. CASE ~(clock >= Timeout)
    <3>1. call' = "sleeping" /\ since' = 0 /\ UNCHANGED <<clock, serving, upFor, seen>>
      BY <1>3, <2>3 DEF Silence
    <3>2. clock <= Timeout + since' /\ since' <= Poll /\ since' \in 0..WaitHorizon
      BY <1>1, <2>3, <3>1, WaitNumbers
    <3> QED BY <1>1, <3>1, <3>2 DEF WaitInv, WaitTypeOK
  <2> QED BY <2>2, <2>3
<1>4. CASE Wake
  <2>1. /\ call = "sleeping" /\ since = Poll
        /\ call' = "probing" /\ since' = 0 /\ seen' = serving
        /\ UNCHANGED <<clock, serving, upFor>>
    BY <1>4 DEF Wake
  <2>2. clock <= Timeout + Poll + since' /\ since' <= ProbeTimeout /\ since' \in 0..WaitHorizon
        /\ since' # ProbeTimeout
    BY <1>1, <2>1, WaitNumbers DEF WaitInv
  <2> QED BY <1>1, <2>1, <2>2 DEF WaitInv, WaitTypeOK
<1>5. CASE NavStarts
  <2>1. /\ serving' = TRUE /\ seen' = TRUE /\ upFor' = 0 /\ UNCHANGED <<call, clock, since>>
    BY <1>5 DEF NavStarts
  <2>2. upFor' \in 0..WaitHorizon /\ upFor' < ProbeTimeout
    BY <2>1, WaitNumbers
  <2> QED BY <1>1, <2>1, <2>2 DEF WaitInv, WaitTypeOK
<1>6. CASE NavDies
  <2>1. /\ serving' = FALSE /\ upFor' = 0 /\ UNCHANGED <<call, clock, since, seen>>
    BY <1>6 DEF NavDies
  <2>2. upFor' \in 0..WaitHorizon /\ upFor' < ProbeTimeout
    BY <2>1, WaitNumbers
  <2> QED BY <1>1, <2>1, <2>2 DEF WaitInv, WaitTypeOK
<1>7. CASE WaitTick
  <2>1. /\ call = "probing" => since < ProbeTimeout /\ ~(serving /\ upFor >= since /\ since >= Latency)
        /\ call = "sleeping" => since < Poll
        /\ call \in {"probing", "sleeping"}
        /\ clock' = Longer(clock) /\ since' = since + 1
        /\ upFor' = IF serving THEN Longer(upFor) ELSE 0
        /\ UNCHANGED <<call, serving, seen>>
    BY <1>7 DEF WaitTick, Waiting
  <2>2. PICK now \in 0..WaitHorizon : clock' = now /\ now <= clock + 1
    BY <1>1, <2>1, WaitNumbers
  <2>3. PICK lasted \in 0..WaitHorizon : upFor' = lasted /\ lasted <= upFor + 1
    BY <1>1, <2>1, WaitNumbers
  <2>4. CASE call = "probing"
    <3>1. since < ProbeTimeout /\ now <= Timeout + Poll + (since + 1) /\ since + 1 \in 0..WaitHorizon
          /\ since + 1 <= ProbeTimeout
      BY <1>1, <2>1, <2>2, <2>4, WaitNumbers DEF WaitInv
    <3>2. since + 1 = ProbeTimeout /\ Latency < ProbeTimeout => lasted < ProbeTimeout
      <4> SUFFICES ASSUME since + 1 = ProbeTimeout, Latency < ProbeTimeout PROVE lasted < ProbeTimeout
        OBVIOUS
      <4>1. since >= Latency
        BY <1>1, WaitNumbers
      <4>2. CASE ~serving
        BY <2>1, <2>3, <4>2, WaitNumbers
      <4>3. CASE ~(upFor >= since)
        BY <1>1, <2>3, <4>3, WaitNumbers
      <4> QED BY <2>1, <2>4, <4>1, <4>2, <4>3
    <3> QED BY <1>1, <2>1, <2>2, <2>3, <2>4, <3>1, <3>2 DEF WaitInv, WaitTypeOK
  <2>5. CASE call = "sleeping"
    <3>1. now <= Timeout + (since + 1) /\ since + 1 \in 0..WaitHorizon /\ since + 1 <= Poll
      BY <1>1, <2>1, <2>2, <2>5, WaitNumbers DEF WaitInv
    <3> QED BY <1>1, <2>1, <2>2, <2>3, <2>5, <3>1 DEF WaitInv, WaitTypeOK
  <2> QED BY <2>1, <2>4, <2>5
<1>8. CASE UNCHANGED waitVars
  BY <1>8 DEF waitVars, WaitInv, WaitTypeOK
<1> QED BY <1>2, <1>3, <1>4, <1>5, <1>6, <1>7, <1>8 DEF WaitNext

\* Ready is never silence, a coordinator that was up all the time is not
\* reported missing, and the wait is over a sleep and a probe after its
\* deadline at the latest (client.py:838-874).
THEOREM WaitsAreHonest == WaitSpec => []WaitIsHonest
<1>1. WaitInit => WaitInv
  <2> SUFFICES ASSUME WaitInit PROVE WaitInv
    OBVIOUS
  <2>1. /\ 0 \in 0..WaitHorizon /\ 0 <= Timeout + Poll + 0 /\ 0 <= ProbeTimeout
        /\ 0 # ProbeTimeout
    BY WaitNumbers
  <2> QED BY <2>1 DEF WaitInit, WaitInv, WaitTypeOK
<1>2. WaitInv => WaitIsHonest
  <2> SUFFICES ASSUME WaitInv PROVE clock <= Timeout + Poll + ProbeTimeout
    BY DEF WaitInv, WaitIsHonest
  <2>1. /\ clock \in 0..WaitHorizon /\ since \in 0..WaitHorizon
        /\ since <= (IF call = "sleeping" THEN Poll ELSE ProbeTimeout)
        /\ call \in {"probing", "sleeping", "ready", "timed_out"}
    BY DEF WaitInv, WaitTypeOK
  <2>2. CASE call = "probing"
    BY <2>1, <2>2, WaitNumbers DEF WaitInv
  <2>3. CASE call = "sleeping"
    BY <2>1, <2>3, WaitNumbers DEF WaitInv
  <2>4. CASE call \in {"ready", "timed_out"}
    BY <2>4 DEF WaitInv
  <2> QED BY <2>1, <2>2, <2>3, <2>4
<1> QED BY <1>1, <1>2, WaitStepInv, PTL DEF WaitSpec

----
(* CostMap and GridMap.                                                    *)

\* A number and a cell: the multiple of the cell's size below it is one, and
\* only one.
LEMMA Quotient ==
    ASSUME NEW a \in Int, NEW b \in Nat \ {0}
    PROVE  /\ a \div b \in Int
           /\ (a \div b) * b <= a /\ a < (a \div b) * b + b
OBVIOUS

LEMMA QuotientIsUnique ==
    ASSUME NEW b \in Nat \ {0}, NEW j \in Int, NEW k \in Int,
           j * b < k * b + b, k * b < j * b + b
    PROVE  j = k
<1>1. CASE j < k
  <2>1. PICK d \in Nat : k = j + 1 + d
    <3>1. k - j - 1 \in Nat /\ k = j + 1 + (k - j - 1)
      BY <1>1
    <3> QED BY <3>1
  <2>2. k * b = j * b + b + d * b
    BY <2>1
  <2>3. d * b >= 0
    OBVIOUS
  <2>4. j * b \in Int /\ k * b \in Int /\ d * b \in Int
    OBVIOUS
  <2> QED BY <2>2, <2>3, <2>4
<1>2. CASE k < j
  <2>1. PICK d \in Nat : j = k + 1 + d
    <3>1. j - k - 1 \in Nat /\ j = k + 1 + (j - k - 1)
      BY <1>2
    <3> QED BY <3>1
  <2>2. j * b = k * b + b + d * b
    BY <2>1
  <2>3. d * b >= 0
    OBVIOUS
  <2>4. j * b \in Int /\ k * b \in Int /\ d * b \in Int
    OBVIOUS
  <2> QED BY <2>2, <2>3, <2>4
<1> QED BY <1>1, <1>2

LEMMA Multiples ==
    ASSUME NEW b \in Nat, NEW j \in Int, NEW k \in Int, j <= k
    PROVE  j * b <= k * b
<1>1. PICK d \in Nat : k = j + d
  <2>1. k - j \in Nat /\ k = j + (k - j)
    OBVIOUS
  <2> QED BY <2>1
<1>2. k * b = j * b + d * b /\ d * b >= 0 /\ j * b \in Int /\ k * b \in Int /\ d * b \in Int
  BY <1>1
<1> QED BY <1>2

\* Rows of the grid do not overlap: a place in data[] is one cell's.
LEMMA CellsAreApart ==
    ASSUME NEW width \in Nat \ {0}, NEW row \in Int, NEW other \in Int,
           NEW col \in 0..(width - 1), NEW next \in 0..(width - 1),
           row * width + col = other * width + next
    PROVE  row = other /\ col = next
<1> DEFINE p == row * width
           q == other * width
<1>1. p \in Int /\ q \in Int /\ p + col = q + next
  OBVIOUS
<1> HIDE DEF p, q
<1>2. p < q + width /\ q < p + width
  BY <1>1
<1>3. row = other
  BY <1>2, QuotientIsUnique DEF p, q
<1>4. p = q
  BY <1>3 DEF p, q
<1> QED BY <1>1, <1>3, <1>4

\* A distance, the number of cells that int() makes of it, and the cells there
\* are.
LEMMA CellBounds ==
    ASSUME NEW c \in Int, NEW t \in Int, NEW size \in Nat \ {0}, NEW cells \in Nat \ {0},
           c >= 0 => t * size <= c /\ c < t * size + size,
           c < 0 => c <= t * size /\ t * size - size < c
    PROVE  /\ c \in 0..(cells * size - 1) => t \in 0..(cells - 1)
           /\ t \in 0..(cells - 1) => c \in (1 - size)..(cells * size - 1)
<1>1. PICK m \in Int : m = t * size
  OBVIOUS
<1>2. PICK e \in Int : e = cells * size
  OBVIOUS
<1>3. t < 0 => m <= -size
  <2> SUFFICES ASSUME t < 0 PROVE m <= -size
    OBVIOUS
  <2>1. t <= -1 /\ -1 \in Int /\ size \in Nat
    OBVIOUS
  <2>2. t * size <= (-1) * size
    BY <2>1, Multiples
  <2> QED BY <1>1, <2>2
<1>4. t >= cells => m >= e
  BY <1>1, <1>2, Multiples
<1>5. t < cells => m + size <= e
  <2> SUFFICES ASSUME t < cells PROVE m + size <= e
    OBVIOUS
  <2>1. t + 1 <= cells /\ t + 1 \in Int /\ size \in Nat /\ cells \in Int
    OBVIOUS
  <2>2. (t + 1) * size <= cells * size
    BY <2>1, Multiples
  <2>3. (t + 1) * size = t * size + size
    OBVIOUS
  <2> QED BY <1>1, <1>2, <2>2, <2>3
<1>6. t >= 0 => m >= 0
  BY <1>1
<1>7. c \in 0..(e - 1) => t \in 0..(cells - 1)
  BY <1>1, <1>3, <1>4
<1>8. t \in 0..(cells - 1) => c \in (1 - size)..(e - 1)
  BY <1>1, <1>5, <1>6
<1> QED BY <1>2, <1>7, <1>8

\* Where int() puts a distance: the cell that it lies in, or the first one for
\* what is less than a cell before the edge.
LEMMA AxisLookup ==
    ASSUME NEW c \in Int, NEW size \in Nat \ {0}, NEW cells \in Nat \ {0}
    PROVE  /\ Truncated(c, size) \in Int
           /\ c \in 0..(cells * size - 1) =>
                 /\ Truncated(c, size) \in 0..(cells - 1)
                 /\ Truncated(c, size) * size <= c
                 /\ c < Truncated(c, size) * size + size
           /\ Truncated(c, size) \in 0..(cells - 1) => c \in (1 - size)..(cells * size - 1)
<1>1. CASE c >= 0
  <2>1. PICK t \in Int : t = Truncated(c, size) /\ t * size <= c /\ c < t * size + size
    BY <1>1, Quotient DEF Truncated
  <2>2. /\ c \in 0..(cells * size - 1) => t \in 0..(cells - 1)
        /\ t \in 0..(cells - 1) => c \in (1 - size)..(cells * size - 1)
    <3>1. c < 0 => c <= t * size /\ t * size - size < c
      BY <1>1
    <3> QED BY <2>1, <3>1, CellBounds
  <2> QED BY <2>1, <2>2
<1>2. CASE c < 0
  <2>1. PICK q \in Int : q = (-c) \div size /\ q * size <= -c /\ -c < q * size + size
    BY Quotient
  <2>2. PICK t \in Int : t = -q
    BY <2>1
  <2>3. t = Truncated(c, size)
    BY <1>2, <2>1, <2>2 DEF Truncated
  <2>4. t * size = -(q * size) /\ q * size \in Int /\ t * size \in Int
    BY <2>2
  <2>5. c <= t * size /\ t * size - size < c
    BY <2>1, <2>4
  <2>6. /\ c \in 0..(cells * size - 1) => t \in 0..(cells - 1)
        /\ t \in 0..(cells - 1) => c \in (1 - size)..(cells * size - 1)
    <3>1. c >= 0 => t * size <= c /\ c < t * size + size
      BY <1>2
    <3> QED BY <2>5, <3>1, CellBounds
  <2>7. c \notin 0..(cells * size - 1)
    BY <1>2
  <2> QED BY <2>3, <2>6, <2>7
<1> QED BY <1>1, <1>2

\* A map lies somewhere, its wall is one of its cells, and the caller may look
\* anywhere.
GridTypeOK ==
    /\ gridOrigin \in Int \X Int /\ point \in Int \X Int
    /\ wall \in (0..(Height - 1)) \X (0..(Width - 1))

LEMMA GridNumbers ==
    /\ Width \in Nat \ {0} /\ Height \in Nat \ {0} /\ Resolution \in Nat \ {0} /\ Reach \in Nat
    /\ Resolution \div 2 \in Nat /\ 2 * (Resolution \div 2) = Resolution
    /\ Width * Resolution \in Nat /\ Height * Resolution \in Nat
BY GridAssumption

\* Half a cell either side of a cell's centre.
LEMMA CentreIsNear ==
    ASSUME NEW o \in Int, NEW x \in Int, NEW m \in Int, m <= x - o, x - o < m + Resolution
    PROVE  /\ 2 * (x - (o + m + Resolution \div 2)) < Resolution
           /\ 2 * ((o + m + Resolution \div 2) - x) <= Resolution
<1> DEFINE half == Resolution \div 2
<1>1. half \in Nat /\ Resolution \in Nat /\ 2 * half = Resolution
  BY GridNumbers
<1> HIDE DEF half
<1>2. 2 * (x - (o + m + half)) < Resolution /\ 2 * ((o + m + half) - x) <= Resolution
  BY <1>1
<1> QED BY <1>2 DEF half

LEMMA PointLookup == GridTypeOK => PointsAreFound
<1> SUFFICES ASSUME GridTypeOK PROVE PointsAreFound
  OBVIOUS
<1> DEFINE x == point[1] - gridOrigin[1]
           y == point[2] - gridOrigin[2]
           col == Truncated(x, Resolution)
           row == Truncated(y, Resolution)
<1>1. /\ point[1] \in Int /\ point[2] \in Int /\ gridOrigin[1] \in Int /\ gridOrigin[2] \in Int
      /\ wall[1] \in 0..(Height - 1) /\ wall[2] \in 0..(Width - 1)
      /\ x \in Int /\ y \in Int
  BY DEF GridTypeOK
<1>2. WorldToGrid(point[1], point[2]) = <<row, col>>
  BY DEF WorldToGrid
<1>3. /\ col \in Int
      /\ x \in 0..(Width * Resolution - 1) =>
            col \in 0..(Width - 1) /\ col * Resolution <= x /\ x < col * Resolution + Resolution
      /\ col \in 0..(Width - 1) => x \in (1 - Resolution)..(Width * Resolution - 1)
  BY <1>1, GridNumbers, AxisLookup
<1>4. /\ row \in Int
      /\ y \in 0..(Height * Resolution - 1) =>
            row \in 0..(Height - 1) /\ row * Resolution <= y /\ y < row * Resolution + Resolution
      /\ row \in 0..(Height - 1) => y \in (1 - Resolution)..(Height * Resolution - 1)
  BY <1>1, GridNumbers, AxisLookup
<1> HIDE DEF col, row
<1>5. IsFreeAt(point[1], point[2]) <=>
          /\ row \in 0..(Height - 1) /\ col \in 0..(Width - 1)
          /\ row * Width + col # wall[1] * Width + wall[2]
  BY <1>2 DEF IsFreeAt, IsFree, GetCost, Data, FREE, INSCRIBED, LETHAL
<1>6. IsFreeAt(point[1], point[2]) =>
          /\ x \in (1 - Resolution)..(Width * Resolution - 1)
          /\ y \in (1 - Resolution)..(Height * Resolution - 1)
  BY <1>3, <1>4, <1>5
<1>7. ASSUME OnMap
      PROVE  /\ IsFreeAt(point[1], point[2]) <=> ~OnWall
             /\ 2 * (point[1] - (gridOrigin[1] + col * Resolution + Resolution \div 2)) < Resolution
             /\ 2 * ((gridOrigin[1] + col * Resolution + Resolution \div 2) - point[1]) <= Resolution
             /\ 2 * (point[2] - (gridOrigin[2] + row * Resolution + Resolution \div 2)) < Resolution
             /\ 2 * ((gridOrigin[2] + row * Resolution + Resolution \div 2) - point[2]) <= Resolution
  <2>1. x \in 0..(Width * Resolution - 1) /\ y \in 0..(Height * Resolution - 1)
    <3> DEFINE w == Width * Resolution
               h == Height * Resolution
    <3>1. w \in Nat /\ h \in Nat
      BY GridNumbers
    <3>2. /\ point[1] >= gridOrigin[1] /\ point[1] < gridOrigin[1] + w
          /\ point[2] >= gridOrigin[2] /\ point[2] < gridOrigin[2] + h
      BY <1>7 DEF OnMap
    <3> HIDE DEF w, h
    <3>3. x \in 0..(w - 1) /\ y \in 0..(h - 1)
      BY <1>1, <3>1, <3>2
    <3> QED BY <3>3 DEF w, h
  <2>2. /\ col \in 0..(Width - 1) /\ col * Resolution <= x /\ x < col * Resolution + Resolution
        /\ row \in 0..(Height - 1) /\ row * Resolution <= y /\ y < row * Resolution + Resolution
        /\ col * Resolution \in Int /\ row * Resolution \in Int
    BY <1>3, <1>4, <2>1, GridNumbers
  <2>3. /\ 2 * (point[1] - (gridOrigin[1] + col * Resolution + Resolution \div 2)) < Resolution
        /\ 2 * ((gridOrigin[1] + col * Resolution + Resolution \div 2) - point[1]) <= Resolution
        /\ 2 * (point[2] - (gridOrigin[2] + row * Resolution + Resolution \div 2)) < Resolution
        /\ 2 * ((gridOrigin[2] + row * Resolution + Resolution \div 2) - point[2]) <= Resolution
    BY <1>1, <2>2, CentreIsNear
  <2>4. OnWall <=> col = wall[2] /\ row = wall[1]
    <3> DEFINE cw == wall[2] * Resolution
               ch == wall[1] * Resolution
               cm == col * Resolution
               rm == row * Resolution
    <3>1. cw \in Int /\ ch \in Int /\ cm \in Int /\ rm \in Int /\ Resolution \in Nat \ {0}
      BY <1>1, <2>2, GridNumbers
    <3>2. OnWall <=> /\ cw <= x /\ x < cw + Resolution
                     /\ ch <= y /\ y < ch + Resolution
      <4> DEFINE px == point[1]
                 py == point[2]
                 ox == gridOrigin[1]
                 oy == gridOrigin[2]
      <4>1. px \in Int /\ py \in Int /\ ox \in Int /\ oy \in Int /\ x = px - ox /\ y = py - oy
        BY <1>1
      <4>2. OnWall <=> /\ ox + cw <= px /\ px < ox + cw + Resolution
                       /\ oy + ch <= py /\ py < oy + ch + Resolution
        BY DEF OnWall
      <4> HIDE DEF cw, ch, px, py, ox, oy, x, y
      <4> QED BY <3>1, <4>1, <4>2
    <3>3. ASSUME col = wall[2], row = wall[1] PROVE OnWall
      <4>1. cm = cw /\ rm = ch
        BY <3>3
      <4> QED BY <2>2, <3>2, <4>1
    <3>4. ASSUME OnWall PROVE col = wall[2] /\ row = wall[1]
      <4>1. /\ cm <= x /\ x < cm + Resolution /\ cw <= x /\ x < cw + Resolution
            /\ rm <= y /\ y < rm + Resolution /\ ch <= y /\ y < ch + Resolution
        BY <2>2, <3>2, <3>4
      <4> HIDE DEF cw, ch, cm, rm, x, y
      <4>2. cm < cw + Resolution /\ cw < cm + Resolution /\ rm < ch + Resolution /\ ch < rm + Resolution
        BY <1>1, <3>1, <4>1
      <4>3. /\ col * Resolution < wall[2] * Resolution + Resolution
            /\ wall[2] * Resolution < col * Resolution + Resolution
            /\ row * Resolution < wall[1] * Resolution + Resolution
            /\ wall[1] * Resolution < row * Resolution + Resolution
        BY <4>2 DEF cw, ch, cm, rm
      <4>4. wall[1] \in Int /\ wall[2] \in Int
        BY <1>1
      <4> QED BY <1>3, <1>4, <3>1, <4>3, <4>4, QuotientIsUnique
    <3> QED BY <3>3, <3>4
  <2>5. row * Width + col = wall[1] * Width + wall[2] <=> col = wall[2] /\ row = wall[1]
    <3>1. wall[1] \in Int /\ wall[2] \in 0..(Width - 1) /\ Width \in Nat \ {0}
          /\ row \in Int /\ col \in 0..(Width - 1)
      BY <1>1, <1>4, <2>2, GridNumbers
    <3>2. row * Width + col = wall[1] * Width + wall[2] => row = wall[1] /\ col = wall[2]
      BY <3>1, CellsAreApart
    <3> QED BY <3>2
  <2> QED BY <1>5, <2>2, <2>3, <2>4, <2>5
<1>8. OnMap => \A axis \in {1, 2} :
                  /\ 2 * (point[axis] - GridToWorld(row, col)[axis]) < Resolution
                  /\ 2 * (GridToWorld(row, col)[axis] - point[axis]) <= Resolution
  BY <1>7 DEF GridToWorld
<1> QED BY <1>2, <1>6, <1>7, <1>8 DEF PointsAreFound

LEMMA PixelJudgement == negate \in BOOLEAN /\ pixel \in Grey => PixelsAreJudged
<1> SUFFICES ASSUME negate \in BOOLEAN, pixel \in Grey PROVE PixelsAreJudged
  OBVIOUS
<1>1. CASE negate
  BY <1>1 DEF PixelsAreJudged, IsOccupied, IsKnownFree, Probability, Grey, OccupiedThresh, FreeThresh
<1>2. CASE ~negate
  BY <1>2 DEF PixelsAreJudged, IsOccupied, IsKnownFree, Probability, Grey, OccupiedThresh, FreeThresh
<1> QED BY <1>1, <1>2

\* On a map of any size and resolution, wherever it lies, a point on it is
\* judged by the cell it is in, and of those off it only the ones less than a
\* cell before a near edge may be free (occupancy.py:46-47, 73-102),
\* and a pixel of either kind of raster is one of three bands
\* (occupancy.py:168-172, 190-207).
THEOREM PointsAndPixels == LookupSpec => []LookupsAreRight
<1> DEFINE GridInv == GridTypeOK
           PixelInv == negate \in BOOLEAN /\ pixel \in Grey
<1>1. GridInit => GridInv
  <2>1. 0 \in 0..(Height - 1) /\ 0 \in 0..(Width - 1)
    BY GridNumbers
  <2> QED BY <2>1 DEF GridInit, GridTypeOK
<1>2. GridInv /\ [GridNext]_gridVars => GridInv'
  <2> SUFFICES ASSUME GridTypeOK, [GridNext]_gridVars PROVE GridTypeOK'
    OBVIOUS
  <2>1. CASE MapArrives
    <3>1. -Resolution \in Int /\ {-Resolution, 0} \X {0, 1} \subseteq Int \X Int
      BY GridNumbers
    <3> QED BY <2>1, <3>1 DEF MapArrives, GridTypeOK
  <2>2. CASE LookUp
    <3>1. UNCHANGED <<gridOrigin, wall>>
      BY <2>2 DEF LookUp
    <3>2. gridOrigin[1] \in Int /\ gridOrigin[2] \in Int /\ Xs \subseteq Int /\ Ys \subseteq Int
      BY GridNumbers DEF GridTypeOK, Xs, Ys
    <3>3. point' \in Int \X Int
      BY <2>2, <3>2 DEF LookUp, GridTypeOK
    <3> QED BY <3>1, <3>3 DEF GridTypeOK
  <2>3. CASE UNCHANGED gridVars
    BY <2>3 DEF gridVars, GridTypeOK
  <2> QED BY <2>1, <2>2, <2>3 DEF GridNext
<1>3. PixelInit => PixelInv
  <2>1. 0 \in Grey
    BY DEF Grey
  <2> QED BY <2>1 DEF PixelInit
<1>4. PixelInv /\ [Judge]_pixelVars => PixelInv'
  BY DEF Judge, pixelVars
<1>5. GridInv /\ PixelInv => LookupsAreRight
  BY PointLookup, PixelJudgement DEF LookupsAreRight
<1>6. [LookupNext]_<<gridVars, pixelVars>> => [GridNext]_gridVars /\ [Judge]_pixelVars
  BY DEF LookupNext
<1> QED BY <1>1, <1>2, <1>3, <1>4, <1>5, <1>6, PTL DEF LookupSpec

----
(* The goals that are made of a call.                                      *)

\* The call is one of the two, and the goal is what its method makes of it.
GoalInv ==
    request # None =>
        \/ request \in ToCall /\ goal = NavigateTo(request.target, request.heading)
        \/ request \in ThroughCall
           /\ goal = NavigateThrough(request.poses, request.heading, request.dwell)

LEMMA BoundedSequences ==
    ASSUME NEW S, NEW n \in Nat, NEW s \in BoundedSeq(S, n)
    PROVE  s \in Seq(S) /\ Len(s) \in 0..n /\ DOMAIN s = 1..Len(s)
<1>1. PICK m \in 0..n : s \in [1..m -> S]
  BY DEF BoundedSeq, SeqOf
<1>2. m \in Nat /\ s \in Seq(S)
  BY <1>1
<1>3. DOMAIN s = 1..m /\ Len(s) \in Nat /\ DOMAIN s = 1..Len(s)
  BY <1>1, <1>2
<1>4. Len(s) = m
  BY <1>2, <1>3
<1> QED BY <1>1, <1>2, <1>3, <1>4

\* _check_dwell refuses a dwell that has a negative number, or that has or
\* lacks one that the route has not.
LEMMA DwellChecked ==
    ASSUME NEW P, NEW poses \in BoundedSeq(P, MaxLegs),
           NEW dwell \in {None} \cup BoundedSeq(Dwell, MaxLegs)
    PROVE  CheckDwell(poses, dwell) <=>
               ~ (dwell # None /\ \E i \in 1..MaxLegs :
                      \/ i \in DOMAIN dwell /\ dwell[i] < 0
                      \/ (i \in DOMAIN dwell) # (i \in DOMAIN poses))
<1>1. CASE dwell = None
  BY <1>1 DEF CheckDwell
<1>2. CASE dwell # None
  <2>1. MaxLegs \in Nat /\ dwell \in BoundedSeq(Dwell, MaxLegs)
    BY <1>2, GoalAssumption
  <2>2. PICK p \in Nat : p = Len(poses) /\ DOMAIN poses = 1..p /\ p <= MaxLegs
    BY <2>1, BoundedSequences
  <2>3. PICK d \in Nat : d = Len(dwell) /\ DOMAIN dwell = 1..d /\ d <= MaxLegs
    BY <2>1, BoundedSequences
  <2>4. \A i \in 1..d : dwell[i] \in Int
    <3>1. dwell \in Seq(Dwell) /\ Dwell \subseteq Int
      BY <2>1, BoundedSequences, GoalAssumption
    <3>2. \A i \in 1..Len(dwell) : dwell[i] \in Dwell
      BY <3>1
    <3> QED BY <2>3, <3>1, <3>2
  <2>5. (\A i \in 1..MaxLegs : (i \in 1..d) = (i \in 1..p)) <=> d = p
    <3>1. ASSUME d < p PROVE d + 1 \in 1..MaxLegs /\ d + 1 \in 1..p /\ d + 1 \notin 1..d
      BY <2>1, <2>2, <3>1
    <3>2. ASSUME p < d PROVE p + 1 \in 1..MaxLegs /\ p + 1 \in 1..d /\ p + 1 \notin 1..p
      BY <2>1, <2>3, <3>2
    <3>3. d = p \/ d < p \/ p < d
      OBVIOUS
    <3> QED BY <3>1, <3>2, <3>3
  <2>6. CheckDwell(poses, dwell) <=> d = p /\ \A i \in 1..d : dwell[i] >= 0
    BY <1>2, <2>2, <2>3 DEF CheckDwell
  <2>7. (\A i \in 1..d : dwell[i] >= 0) <=> ~ \E i \in 1..MaxLegs : i \in 1..d /\ dwell[i] < 0
    <3>1. \A i \in 1..d : i \in 1..MaxLegs /\ (dwell[i] >= 0 <=> ~(dwell[i] < 0))
      BY <2>1, <2>3, <2>4
    <3> QED BY <3>1
  <2> QED BY <1>2, <2>2, <2>3, <2>5, <2>6, <2>7
<1> QED BY <1>1, <1>2

\* The property's words, spelled out for a call of either kind.
LEMMA GoalOfTo ==
    ASSUME request \in ToCall, goal = NavigateTo(request.target, request.heading)
    PROVE  GoalsSayWhatWasAsked
<1>1. PICK target \in Place, heading \in Heading \cup {None} :
          request = [target |-> target, heading |-> heading]
  BY DEF ToCall
<1>2. "poses" \notin DOMAIN request
  BY <1>1
<1>3. OrZero(heading) \in Heading
  BY GoalAssumption DEF OrZero
<1>4. /\ goal.poses = <<[at |-> target, theta |-> OrZero(heading)]>>
      /\ goal.heading = heading
  BY <1>1 DEF NavigateTo, Goal
<1>5. /\ goal.poses \in Seq(Pose2D) /\ Len(goal.poses) = 1
      /\ goal.poses[1].at = target
      /\ [i \in DOMAIN goal.poses |-> goal.poses[i].at] = <<target>>
  BY <1>3, <1>4 DEF Pose2D
<1>6. GoalTarget.at = Last(<<target>>)
  BY <1>5 DEF GoalTarget, Last
<1>7. <<request.target>> = <<target>> /\ <<target>> # <<>>
  BY <1>1
<1> QED BY <1>1, <1>2, <1>4, <1>5, <1>6, <1>7 DEF GoalsSayWhatWasAsked

LEMMA GoalOfThrough ==
    ASSUME request \in ThroughCall,
           goal = NavigateThrough(request.poses, request.heading, request.dwell)
    PROVE  GoalsSayWhatWasAsked
<1>1. PICK poses \in BoundedSeq(PoseOrPair, MaxLegs), heading \in Heading \cup {None},
           dwell \in {None} \cup BoundedSeq(Dwell, MaxLegs) :
          request = [poses |-> poses, heading |-> heading, dwell |-> dwell]
  BY DEF ThroughCall
<1> DEFINE places == [i \in DOMAIN poses |-> poses[i].at]
           route == [i \in DOMAIN poses |-> [poses[i] EXCEPT !.theta = OrZero(@)]]
           bad == dwell # None /\
                       \E i \in 1..MaxLegs :
                           \/ i \in DOMAIN dwell /\ dwell[i] < 0
                           \/ (i \in DOMAIN dwell) # (i \in DOMAIN poses)
<1>2. /\ "poses" \in DOMAIN request
      /\ request.poses = poses /\ request.heading = heading /\ request.dwell = dwell
  BY <1>1
<1>3. CheckDwell(poses, dwell) <=> ~bad
  BY DwellChecked
<1>4. poses \in Seq(PoseOrPair) /\ Len(poses) \in Nat /\ DOMAIN poses = 1..Len(poses)
  BY GoalAssumption, BoundedSequences
<1>5. /\ route \in Seq(Pose2D) /\ DOMAIN route = 1..Len(poses) /\ Len(route) = Len(poses)
      /\ \A i \in 1..Len(poses) : route[i].at = poses[i].at
  <2>1. \A i \in 1..Len(poses) : poses[i] \in PoseOrPair
    BY <1>4
  <2>2. \A i \in 1..Len(poses) :
            [poses[i] EXCEPT !.theta = OrZero(@)] \in Pose2D
            /\ [poses[i] EXCEPT !.theta = OrZero(@)].at = poses[i].at
    BY <2>1, GoalAssumption DEF PoseOrPair, Pose2D, OrZero
  <2>3. route \in [1..Len(poses) -> Pose2D]
    BY <1>4, <2>2
  <2>4. route \in Seq(Pose2D) /\ Len(route) = Len(poses)
    BY <1>4, <2>3
  <2> QED BY <1>4, <2>2, <2>3, <2>4
<1>6. /\ places = <<>> <=> poses = <<>>
      /\ Len(places) = Len(poses) /\ DOMAIN places = 1..Len(poses)
  <2>1. places \in [1..Len(poses) -> Place]
    <3>1. \A i \in 1..Len(poses) : poses[i] \in PoseOrPair
      BY <1>4
    <3>2. \A i \in 1..Len(poses) : poses[i].at \in Place
      BY <3>1 DEF PoseOrPair
    <3> QED BY <1>4, <3>2
  <2>2. places \in Seq(Place) /\ Len(places) = Len(poses)
    BY <1>4, <2>1
  <2> QED BY <1>4, <2>1, <2>2
<1>7. [i \in DOMAIN route |-> route[i].at] = places
  BY <1>4, <1>5
<1> HIDE DEF bad, places, route
<1>8. CASE places = <<>> \/ bad
  <2>1. goal = ValidationError
    BY <1>2, <1>3, <1>6, <1>8 DEF NavigateThrough
  <2> QED BY <1>2, <1>8, <2>1 DEF GoalsSayWhatWasAsked, places, bad
<1>9. CASE ~(places = <<>> \/ bad)
  <2>1. goal = Goal(route, heading, dwell, Len(poses))
    BY <1>2, <1>3, <1>6, <1>9 DEF NavigateThrough, route
  <2>2. /\ goal.poses = route /\ goal.heading = heading
        /\ goal.dwell = dwell /\ goal.total = Len(poses)
    BY <2>1 DEF Goal
  <2>3. GoalTarget.at = Last(places)
    <3>1. Len(poses) \in 1..Len(poses)
      BY <1>4, <1>6, <1>9
    <3>2. route[Len(poses)].at = places[Len(poses)]
      BY <1>4, <1>5, <3>1 DEF places
    <3> QED BY <1>5, <1>6, <2>2, <3>2 DEF GoalTarget, Last
  <2>4. GoalSegments = Len(places)
    BY <1>6, <2>2 DEF GoalSegments
  <2> QED BY <1>2, <1>5, <1>7, <1>9, <2>2, <2>3, <2>4 DEF GoalsSayWhatWasAsked, places, bad
<1> QED BY <1>8, <1>9

\* Of whatever navigate_to and navigate_through are called with, the goal says
\* what was asked (client.py:555-558, navigation.py:205-214, 262-279).
THEOREM GoalsAreFaithful == GoalSpec => []GoalsSayWhatWasAsked
<1>1. GoalInit => GoalInv
  BY DEF GoalInit, GoalInv
<1>2. GoalInv /\ [GoalNext]_goalVars => GoalInv'
  <2> SUFFICES ASSUME GoalInv, [GoalNext]_goalVars PROVE GoalInv'
    OBVIOUS
  <2>1. CASE To
    BY <2>1 DEF To, GoalInv
  <2>2. CASE Through
    BY <2>2 DEF Through, GoalInv
  <2>3. CASE UNCHANGED goalVars
    <3>1. request' = request /\ goal' = goal
      BY <2>3 DEF goalVars
    <3> QED BY <3>1 DEF GoalInv
  <2> QED BY <2>1, <2>2, <2>3 DEF GoalNext
<1>3. GoalInv => GoalsSayWhatWasAsked
  <2>1. request = None => GoalsSayWhatWasAsked
    BY DEF GoalsSayWhatWasAsked
  <2> QED BY <2>1, GoalOfTo, GoalOfThrough DEF GoalInv
<1> QED BY <1>1, <1>2, <1>3, PTL DEF GoalSpec

----
(* The composite state, and the status of the gateway.                     *)

StateTypeOK ==
    /\ phase \in EstopPhase /\ operator \in {"auto", "manual"} /\ order \in OrderActivity
    /\ nav \in NavActivity /\ mode \in Modes

LEMMA PostureFacts ==
    ASSUME mode \in Modes
    PROVE  /\ Posture(mode) \in {"lying", "damping"} <=> mode \in {5, 7, 10}
           /\ Posture(mode) = "moving" <=> mode \in {3, 11, 12, 13}
           /\ Posture(mode) = "standing" <=> mode \in {0, 1, 2, 8}
<1>1. CASE mode \in {0, 1, 2, 8}
  BY <1>1 DEF Posture
<1>2. CASE mode \in {3, 11, 12, 13}
  BY <1>2 DEF Posture
<1>3. CASE mode \in {5, 10}
  BY <1>3 DEF Posture
<1>4. CASE mode = 7
  BY <1>4 DEF Posture
<1>5. CASE mode \notin {0, 1, 2, 8, 3, 11, 12, 13, 5, 10, 7}
  BY <1>5 DEF Posture
<1> QED BY <1>1, <1>2, <1>3, <1>4, <1>5

LEMMA ControlFacts ==
    ASSUME phase \in EstopPhase, operator \in {"auto", "manual"}
    PROVE  /\ Control = "estop" <=> phase \in {"stopped", "awaiting_release", "source_lost"}
           /\ Control # "estop" => Control = operator
<1>1. SafetyState(phase).estop <=> phase \in {"stopped", "awaiting_release", "source_lost"}
  BY DEF SafetyState
<1> QED BY <1>1 DEF Control

\* A headline, what it says, and what outranks it.
LEMMA FirstThatHolds ==
    ASSUME NEW i \in 1..10, Headline = Urgency[i], Holds(Urgency[i]),
           \A j \in 1..10 : j < i => ~Holds(Urgency[j])
    PROVE  \E n \in DOMAIN Urgency :
              /\ Headline = Urgency[n] /\ Holds(Urgency[n])
              /\ \A j \in 1..(n - 1) : ~Holds(Urgency[j])
<1>1. DOMAIN Urgency = 1..10
  BY DEF Urgency
<1>2. \A j \in 1..(i - 1) : j \in 1..10 /\ j < i
  OBVIOUS
<1> QED BY <1>1, <1>2

LEMMA WhatHolds ==
    /\ Urgency[1] = "estop" /\ Urgency[2] = "source_lost" /\ Urgency[3] = "recovering"
    /\ Urgency[4] = "manual" /\ Urgency[5] = "lying" /\ Urgency[6] = "blocked"
    /\ Urgency[7] = "stalled" /\ Urgency[8] = "release" /\ Urgency[9] = "driving"
    /\ Urgency[10] = "auto"
    /\ Holds("estop") <=> phase \in {"stopped", "awaiting_release"}
    /\ Holds("source_lost") <=> phase = "source_lost"
    /\ Holds("recovering") <=> phase = "releasing"
    /\ Holds("manual") <=> operator = "manual"
    /\ Holds("lying") <=> mode \in {5, 7, 10}
    /\ Holds("blocked") <=> nav = "blocked"
    /\ Holds("stalled") <=> nav \in {"stalled", "retreating"}
    /\ Holds("release") <=> order = "waiting_release"
    /\ Holds("driving") <=> \/ mode \in {3, 11, 12, 13}
                            \/ nav \in {"cruising", "aligning"}
                            \/ order \in {"executing", "stopping"}
    /\ Holds("auto")
<1>1. /\ Urgency[1] = "estop" /\ Urgency[2] = "source_lost" /\ Urgency[3] = "recovering"
      /\ Urgency[4] = "manual" /\ Urgency[5] = "lying" /\ Urgency[6] = "blocked"
      /\ Urgency[7] = "stalled" /\ Urgency[8] = "release" /\ Urgency[9] = "driving"
      /\ Urgency[10] = "auto"
  BY DEF Urgency
<1>2. /\ Holds("estop") <=> phase \in {"stopped", "awaiting_release"}
      /\ Holds("source_lost") <=> phase = "source_lost"
      /\ Holds("recovering") <=> phase = "releasing"
      /\ Holds("manual") <=> operator = "manual"
      /\ Holds("lying") <=> mode \in {5, 7, 10}
  BY DEF Holds
<1>3. /\ Holds("blocked") <=> nav = "blocked"
      /\ Holds("stalled") <=> nav \in {"stalled", "retreating"}
      /\ Holds("release") <=> order = "waiting_release"
      /\ Holds("driving") <=> \/ mode \in {3, 11, 12, 13}
                              \/ nav \in {"cruising", "aligning"}
                              \/ order \in {"executing", "stopping"}
      /\ Holds("auto")
  BY DEF Holds
<1> QED BY <1>1, <1>2, <1>3

LEMMA FirstMatchWins == StateTypeOK => HeadlineIsMostUrgent
<1> SUFFICES ASSUME StateTypeOK PROVE HeadlineIsMostUrgent
  OBVIOUS
<1> DEFINE Told(i) == Headline = Urgency[i] /\ Holds(Urgency[i])
                      /\ \A j \in 1..10 : j < i => ~Holds(Urgency[j])
<1>1. /\ phase \in {"clear", "stopped", "awaiting_release", "releasing", "source_lost"}
      /\ operator \in {"auto", "manual"} /\ mode \in Modes
  BY DEF StateTypeOK, EstopPhase
<1>2. /\ Control = "estop" <=> phase \in {"stopped", "awaiting_release", "source_lost"}
      /\ Control # "estop" => Control = operator
      /\ Posture(mode) \in {"lying", "damping"} <=> mode \in {5, 7, 10}
      /\ Posture(mode) = "moving" <=> mode \in {3, 11, 12, 13}
      /\ Posture(mode) = "standing" <=> mode \in {0, 1, 2, 8}
  BY <1>1, ControlFacts, PostureFacts DEF EstopPhase
<1>3. \A j \in 1..10 : j = 1 \/ j = 2 \/ j = 3 \/ j = 4 \/ j = 5 \/ j = 6 \/ j = 7
                       \/ j = 8 \/ j = 9 \/ j = 10
  OBVIOUS
<1>4. \E i \in 1..10 : Told(i)
  <2>1. CASE phase \in {"stopped", "awaiting_release"}
    <3>1. Headline = "estop"
      BY <1>2, <2>1 DEF Headline
    <3>2. Told(1)
      BY <2>1, <3>1, <1>3, WhatHolds
    <3> QED BY <3>2
  <2>2. CASE phase = "source_lost"
    <3>1. Headline = "source_lost"
      BY <1>2, <2>2 DEF Headline
    <3>2. Told(2)
      BY <2>2, <3>1, <1>3, WhatHolds
    <3> QED BY <3>2
  <2>3. CASE phase = "releasing"
    <3>1. Headline = "recovering"
      BY <1>2, <2>3 DEF Headline
    <3>2. Told(3)
      BY <2>3, <3>1, <1>3, WhatHolds
    <3> QED BY <3>2
  <2>4. CASE phase = "clear" /\ operator = "manual"
    <3>1. Headline = "manual"
      BY <1>2, <2>4 DEF Headline
    <3>2. Told(4)
      BY <2>4, <3>1, <1>3, WhatHolds
    <3> QED BY <3>2
  <2>5. CASE phase = "clear" /\ operator = "auto"
    <3>1. Headline = Activity
      BY <1>2, <2>5 DEF Headline
    <3>2. ~Holds("estop") /\ ~Holds("source_lost") /\ ~Holds("recovering") /\ ~Holds("manual")
      BY <2>5, WhatHolds
    <3>3. CASE mode \in {5, 7, 10}
      <4>1. Activity = "lying"
        BY <1>2, <3>3 DEF Activity
      <4>2. Told(5)
        BY <3>1, <3>2, <3>3, <4>1, <1>3, WhatHolds
      <4> QED BY <4>2
    <3>4. CASE mode \notin {5, 7, 10} /\ nav = "blocked"
      <4>1. Activity = "blocked"
        BY <1>2, <3>4 DEF Activity
      <4>2. Told(6)
        BY <3>1, <3>2, <3>4, <4>1, <1>3, WhatHolds
      <4> QED BY <4>2
    <3>5. CASE mode \notin {5, 7, 10} /\ nav \in {"stalled", "retreating"}
      <4>1. Activity = "stalled"
        BY <1>2, <3>5 DEF Activity
      <4>2. Told(7)
        BY <3>1, <3>2, <3>5, <4>1, <1>3, WhatHolds
      <4> QED BY <4>2
    <3>6. CASE /\ mode \notin {5, 7, 10} /\ nav \notin {"blocked", "stalled", "retreating"}
               /\ order = "waiting_release"
      <4>1. Activity = "release"
        BY <1>2, <3>6 DEF Activity
      <4>2. Told(8)
        BY <3>1, <3>2, <3>6, <4>1, <1>3, WhatHolds
      <4> QED BY <4>2
    <3>7. CASE /\ mode \notin {5, 7, 10} /\ nav \notin {"blocked", "stalled", "retreating"}
               /\ order # "waiting_release"
      <4>1. Activity = IF IsDriving THEN "driving" ELSE "auto"
        BY <1>2, <3>7 DEF Activity
      <4>2. IsDriving <=> Holds("driving")
        BY <1>2, WhatHolds DEF IsDriving
      <4>3. CASE IsDriving
        <5>1. Told(9)
          BY <3>1, <3>2, <3>7, <4>1, <4>2, <4>3, <1>3, WhatHolds
        <5> QED BY <5>1
      <4>4. CASE ~IsDriving
        <5>1. Told(10)
          BY <3>1, <3>2, <3>7, <4>1, <4>2, <4>4, <1>3, WhatHolds
        <5> QED BY <5>1
      <4> QED BY <4>3, <4>4
    <3> QED BY <3>3, <3>4, <3>5, <3>6, <3>7
  <2> QED BY <1>1, <2>1, <2>2, <2>3, <2>4, <2>5
<1>5. ReadyToMove => Headline \notin {"estop", "source_lost", "recovering", "lying"}
  <2> SUFFICES ASSUME ReadyToMove PROVE Headline \notin {"estop", "source_lost", "recovering", "lying"}
    OBVIOUS
  <2>1. Control # "estop" /\ phase # "releasing" /\ mode \notin {5, 7, 10}
    BY <1>2 DEF ReadyToMove
  <2>2. Headline = "manual" \/ Headline = Activity
    BY <2>1 DEF Headline
  <2>3. Activity \in {"blocked", "stalled", "release", "driving", "auto"}
    BY <1>2, <2>1 DEF Activity
  <2> QED BY <2>2, <2>3
<1>6. \E n \in DOMAIN Urgency :
          /\ Headline = Urgency[n] /\ Holds(Urgency[n])
          /\ \A j \in 1..(n - 1) : ~Holds(Urgency[j])
  BY <1>4, FirstThatHolds
<1> QED BY <1>5, <1>6 DEF HeadlineIsMostUrgent

\* In whatever order the five facets arrive, the headline is the most urgent
\* thing that is true (system_state.py:161-189).
THEOREM HeadlineTells == StateSpec => []HeadlineIsMostUrgent
<1>1. StateInit => StateTypeOK
  BY DEF StateInit, StateTypeOK, EstopPhase, OrderActivity, NavActivity, Modes
<1>2. StateTypeOK /\ [StateNext]_stateVars => StateTypeOK'
  BY DEF StateTypeOK, StateNext, SafetyArrives, VdaArrives, NavArrives, BodyArrives, stateVars
<1> QED BY <1>1, <1>2, FirstMatchWins, PTL DEF StateSpec

\* The declaration order of MovementSource, in numbers.
LEMMA RankNumbers ==
    /\ SourceNames = {"autonomous", "planner", "assisted_teleop", "controller"}
    /\ Priority("autonomous") = 0 /\ Priority("planner") = 1
    /\ Priority("assisted_teleop") = 2 /\ Priority("controller") = 3
<1>1. /\ DOMAIN Sources = 1..4
      /\ Sources[1] = "autonomous" /\ Sources[2] = "planner"
      /\ Sources[3] = "assisted_teleop" /\ Sources[4] = "controller"
  BY DEF Sources
<1>2. SourceNames = {"autonomous", "planner", "assisted_teleop", "controller"}
  <2>1. \A i : i \in 1..4 <=> i = 1 \/ i = 2 \/ i = 3 \/ i = 4
    OBVIOUS
  <2> QED BY <1>1, <2>1 DEF SourceNames
<1>3. /\ Priority("autonomous") = 0 /\ Priority("planner") = 1
      /\ Priority("assisted_teleop") = 2 /\ Priority("controller") = 3
  BY <1>1 DEF Priority
<1> QED BY <1>2, <1>3

LEMMA StatusTells == StatusTypeOK => ReasonIsNamed
<1> SUFFICES ASSUME StatusTypeOK PROVE ReasonIsNamed
  OBVIOUS
<1> DEFINE status == MotionGatewayStatus
<1>1. /\ status.active_source = scene.winner /\ status.action = Action
      /\ status.active_zones = scene.zones /\ (status.watchdog_tripped <=> scene.silent)
  BY DEF MotionGatewayStatus
<1>2. /\ \A src, other \in SourceNames : src # other => Outranks(src, other) \/ Outranks(other, src)
      /\ \A src \in SourceNames : ~Outranks(src, src)
      /\ Nobody \notin SourceNames
  BY RankNumbers DEF Outranks, Nobody
<1>3. /\ own \in SourceNames /\ scene.winner \in SourceNames \cup {Nobody}
      /\ scene.zones \subseteq {"front", "aisle", "yard"} /\ wish \in {"ahead", "away"}
  BY DEF StatusTypeOK, ZoneKind
<1> HIDE DEF status
<1>4. Outcome = "nothing" => ~DrivingNow(status) \/ ~MovingAllowed(status)
  BY <1>1 DEF Outcome, DrivingNow, MovingAllowed
<1>5. Outcome = "less" => BlockedByZone(status) # {}
  <2> SUFFICES ASSUME Outcome = "less" PROVE scene.zones # {}
    BY <1>1 DEF BlockedByZone
  <2>1. Action \in {"slowdown", "limit"}
    BY DEF Outcome
  <2>2. \E zoneKind : Breached(zoneKind)
    BY <2>1 DEF Action
  <2> QED BY <2>2 DEF Breached
<1>6. scene.winner # own /\ PreemptedBy(status) = Nobody =>
          scene.winner = Nobody \/ Outranks(own, scene.winner)
  BY <1>1, <1>2, <1>3 DEF PreemptedBy
<1>7. ASSUME Outcome = "intact"
      PROVE  /\ DrivingNow(status) /\ MovingAllowed(status) /\ PreemptedBy(status) = Nobody
             /\ \A z \in BlockedByZone(status) : ZoneKind[z] = "stop" /\ wish = "away"
  <2>1. scene.winner = own /\ Action \notin {"stop", "slowdown", "limit"}
    BY <1>7 DEF Outcome
  <2>2. ~scene.silent /\ ~Stripped /\ ~Breached("slowdown") /\ ~Breached("limit")
    BY <2>1 DEF Action
  <2>3. DrivingNow(status) /\ MovingAllowed(status)
    BY <1>1, <2>1, <2>2 DEF DrivingNow, MovingAllowed
  <2>4. PreemptedBy(status) = Nobody
    BY <1>1, <1>2, <1>3, <2>1 DEF PreemptedBy
  <2>5. ASSUME NEW z \in BlockedByZone(status) PROVE ZoneKind[z] = "stop" /\ wish = "away"
    <3>1. z \in scene.zones
      BY <1>1 DEF BlockedByZone
    <3>2. ZoneKind[z] \in {"stop", "slowdown", "limit"}
      BY <1>3, <3>1 DEF ZoneKind
    <3>3. ZoneKind[z] = "stop"
      BY <2>2, <3>1, <3>2 DEF Breached
    <3> QED BY <1>3, <2>2, <3>1, <3>3 DEF Stripped, Breached
  <2> QED BY <2>3, <2>4, <2>5
<1> QED BY <1>4, <1>5, <1>6, <1>7 DEF ReasonIsNamed, status

\* Whatever happens around the robot, a client whose command does not arrive
\* as sent reads why (topics.py:139-142, client.py:270-306, motion.py:178-206).
THEOREM ReasonsAreRead == StatusInit /\ [][SceneChanges]_statusVars => []ReasonIsNamed
<1>1. StatusInit => StatusTypeOK
  BY DEF StatusInit, StatusTypeOK
<1>2. StatusTypeOK /\ [SceneChanges]_statusVars => StatusTypeOK'
  <2> SUFFICES ASSUME StatusTypeOK, [SceneChanges]_statusVars PROVE StatusTypeOK'
    OBVIOUS
  <2>1. CASE SceneChanges
    BY <2>1 DEF SceneChanges, StatusTypeOK
  <2>2. CASE UNCHANGED statusVars
    BY <2>2 DEF statusVars, StatusTypeOK
  <2> QED BY <2>1, <2>2
<1> QED BY <1>1, <1>2, StatusTells, PTL

----
(* FakeStack.                                                              *)

\* What the double may have published, and what its inlets take.
Payload ==
    {"origin", "ahead", "good", "critical", "standing", "sitting"}
        \cup [map_id : {"fake-map", "hall-b", "none"}, reachable : BOOLEAN]
        \cup Driver \cup {GatewayStatus("nobody", "pass_through", {}, FALSE)} \cup Frames
Words == {"move", "halt", "press", "lean"}

PublishedTypeOK ==
    /\ joined \in BOOLEAN
    /\ shown \in [Keys -> Payload] /\ mirror \in [Keys -> Payload \cup {Unknown}]
    /\ relay \in Seq([key : Keys, value : Payload])
    /\ ~joined => relay = <<>>

\* The double tells one pose, and a latch that permits or is one of the others.
ShownIsSound == shown["odometry"] = shown["localization"] /\ shown["safety"] \in Frames

\* What is under way last is what the double shows, and so is what the client
\* holds when nothing is under way.
RelayIsCurrent ==
    /\ \A i \in 1..Len(relay) :
           (\A j \in 1..Len(relay) : j > i => relay[j].key # relay[i].key)
               => relay[i].value = shown[relay[i].key]
    /\ joined => \A k \in Keys : (\A i \in 1..Len(relay) : relay[i].key # k) => mirror[k] = shown[k]

RecordTypeOK ==
    asked \in [Inlets -> Seq(Words)] /\ inlet \in [Inlets -> Seq(Words)] /\ record \in [Inlets -> Seq(Words)]

\* What was sent has been recorded or is under way.
RecordIsComplete == \A k \in Inlets : asked[k] = record[k] \o inlet[k]

StackInv ==
    PublishedTypeOK /\ ShownIsSound /\ RelayIsCurrent /\ RecordTypeOK /\ RecordIsComplete

LEMMA KeysAreFinite == IsFiniteSet(Keys) /\ \A S \in SUBSET Keys : IsFiniteSet(S)
<1> DEFINE f == <<"odometry", "localization", "map_identity", "battery", "system", "gateway", "safety">>
<1>1. f \in [1..7 -> Keys] /\ \A k \in Keys : \E i \in 1..7 : f[i] = k
  BY DEF Keys
<1>2. f \in Surjection(1..7, Keys)
  BY <1>1 DEF Surjection
<1>3. IsFiniteSet(1..7)
  <2>1. \A a, b \in Int : IsFiniteSet(a..b)
    BY FS_Interval
  <2>2. 1 \in Int /\ 7 \in Int
    OBVIOUS
  <2> QED BY <2>1, <2>2, Zenon
<1>4. IsFiniteSet(Keys)
  BY <1>2, <1>3, FS_Surjection
<1> QED BY <1>4, FS_Subset

\* SetToSeq names every element of a finite set.
LEMMA EveryElementIsNamed ==
    ASSUME NEW S, IsFiniteSet(S)
    PROVE  /\ SetToSeq(S) \in Seq(S)
           /\ \A s \in S : \E i \in 1..Len(SetToSeq(S)) : SetToSeq(S)[i] = s
<1> DEFINE n == Cardinality(S)
           f == SetToSeq(S)
<1>1. n \in Nat /\ ExistsBijection(1..n, S)
  BY FS_CardinalityType
<1>2. f \in [1..n -> S] /\ IsInjective(f)
  BY <1>1 DEF SetToSeq, ExistsBijection, Bijection, Injection
<1>3. IsFiniteSet(1..n) /\ Cardinality(1..n) = n
  BY <1>1, FS_Interval
<1>4. f \in Surjection(1..n, S)
  BY <1>2, <1>3, FS_Injection DEF Injection
<1>5. f \in Seq(S) /\ Len(f) = n
  BY <1>1, <1>2
<1> QED BY <1>4, <1>5 DEF Surjection

\* One message for each key that is set, saying what it is set to.
LEMMA OneMessageEach ==
    ASSUME NEW values, DOMAIN values \subseteq Keys, \A k \in DOMAIN values : values[k] \in Payload
    PROVE  /\ Messages(values) \in Seq([key : Keys, value : Payload])
           /\ \A i \in 1..Len(Messages(values)) :
                  /\ Messages(values)[i].key \in DOMAIN values
                  /\ Messages(values)[i].value = values[Messages(values)[i].key]
           /\ \A k \in DOMAIN values : \E i \in 1..Len(Messages(values)) : Messages(values)[i].key = k
<1> DEFINE D == DOMAIN values
           names == SetToSeq(D)
           sent == [i \in DOMAIN names |-> [key |-> names[i], value |-> values[names[i]]]]
<1>1. IsFiniteSet(D)
  BY KeysAreFinite
<1>2. /\ names \in Seq(D)
      /\ \A k \in D : \E i \in 1..Len(names) : names[i] = k
  BY <1>1, EveryElementIsNamed
<1>3. Messages(values) = sent
  BY DEF Messages
<1> HIDE DEF names
<1>4. Len(names) \in Nat /\ DOMAIN names = 1..Len(names) /\ \A i \in 1..Len(names) : names[i] \in D
  BY <1>2
<1>5. \A i \in 1..Len(names) : [key |-> names[i], value |-> values[names[i]]] \in [key : Keys, value : Payload]
  BY <1>4
<1>6. sent \in [1..Len(names) -> [key : Keys, value : Payload]]
  BY <1>4, <1>5
<1>7. sent \in Seq([key : Keys, value : Payload]) /\ Len(sent) = Len(names)
  BY <1>4, <1>6
<1>8. \A i \in 1..Len(names) : sent[i].key = names[i] /\ sent[i].value = values[names[i]]
  BY <1>4
<1> HIDE DEF sent
<1> QED BY <1>2, <1>3, <1>4, <1>7, <1>8

\* What a setter tells, behind what was told before.
LEMMA PublishStep ==
    ASSUME StackInv, NEW values, Publish(values),
           DOMAIN values \subseteq Keys, \A k \in DOMAIN values : values[k] \in Payload,
           ("odometry" \in DOMAIN values <=> "localization" \in DOMAIN values),
           "odometry" \in DOMAIN values => values["odometry"] = values["localization"],
           "safety" \in DOMAIN values => values["safety"] \in Frames
    PROVE  StackInv'
<1> USE DEF StackInv
<1>1. /\ shown' = [k \in Keys |-> IF k \in DOMAIN values THEN values[k] ELSE shown[k]]
      /\ relay' = IF joined THEN relay \o Messages(values) ELSE relay
      /\ mirror' = mirror /\ joined' = joined
      /\ asked' = asked /\ inlet' = inlet /\ record' = record
  BY DEF Publish, recorded
<1>2. RecordTypeOK' /\ RecordIsComplete'
  BY <1>1 DEF RecordTypeOK, RecordIsComplete
<1>3. ShownIsSound'
  BY <1>1 DEF ShownIsSound, Keys
<1>4. shown' \in [Keys -> Payload] /\ mirror' \in [Keys -> Payload \cup {Unknown}]
  BY <1>1 DEF PublishedTypeOK
<1>5. CASE ~joined
  <2>1. relay = <<>> /\ relay' = <<>> /\ ~joined'
    BY <1>1, <1>5 DEF PublishedTypeOK
  <2>2. PublishedTypeOK'
    BY <1>1, <1>4, <2>1 DEF PublishedTypeOK
  <2>3. RelayIsCurrent'
    BY <2>1 DEF RelayIsCurrent
  <2> QED BY <1>2, <1>3, <2>2, <2>3
<1>6. CASE joined
  <2> DEFINE sent == Messages(values)
             M == [key : Keys, value : Payload]
  <2>1. /\ sent \in Seq(M)
        /\ \A i \in 1..Len(sent) : sent[i].key \in DOMAIN values /\ sent[i].value = values[sent[i].key]
        /\ \A k \in DOMAIN values : \E i \in 1..Len(sent) : sent[i].key = k
    BY OneMessageEach
  <2>2. relay \in Seq(M) /\ relay' = relay \o sent
    BY <1>1, <1>6 DEF PublishedTypeOK
  <2> HIDE DEF sent, M
  <2>3. PICK n \in Nat, m \in Nat : n = Len(relay) /\ m = Len(sent)
    BY <2>1, <2>2
  <2>4. /\ relay' \in Seq(M) /\ Len(relay') = n + m
        /\ \A i \in 1..n : relay'[i] = relay[i]
        /\ \A i \in 1..m : relay'[n + i] = sent[i]
    BY <2>1, <2>2, <2>3
  <2>5. \A i \in 1..(n + m) : i \in 1..n \/ \E j \in 1..m : i = n + j
    <3> SUFFICES ASSUME NEW i \in 1..(n + m), i \notin 1..n PROVE \E j \in 1..m : i = n + j
      OBVIOUS
    <3>1. i - n \in 1..m /\ i = n + (i - n)
      OBVIOUS
    <3> QED BY <3>1
  <2>6. \A k \in DOMAIN values : \E j \in 1..(n + m) : j > n /\ relay'[j].key = k
    <3> SUFFICES ASSUME NEW k \in DOMAIN values PROVE \E j \in 1..(n + m) : j > n /\ relay'[j].key = k
      OBVIOUS
    <3>1. PICK i \in 1..m : sent[i].key = k
      BY <2>1, <2>3
    <3>2. n + i \in 1..(n + m) /\ n + i > n
      OBVIOUS
    <3> QED BY <2>4, <3>1, <3>2
  <2>7. PublishedTypeOK'
    BY <1>1, <1>4, <1>6, <2>4 DEF PublishedTypeOK, M
  <2>8. ASSUME NEW i \in 1..(n + m), \A j \in 1..(n + m) : j > i => relay'[j].key # relay'[i].key
        PROVE  relay'[i].value = shown'[relay'[i].key]
    <3>1. CASE i \in 1..n
      <4>1. relay[i] \in M
        BY <2>2, <2>3, <3>1
      <4>2. relay[i].key \notin DOMAIN values
        BY <2>4, <2>6, <2>8, <3>1
      <4>3. \A j \in 1..n : j > i => relay[j].key # relay[i].key
        <5>1. \A j \in 1..n : j \in 1..(n + m)
          OBVIOUS
        <5> QED BY <2>4, <2>8, <3>1, <5>1
      <4>4. relay[i].value = shown[relay[i].key]
        BY <2>3, <3>1, <4>3 DEF RelayIsCurrent
      <4>5. relay[i].key \in Keys
        BY <4>1 DEF M
      <4> QED BY <1>1, <2>4, <3>1, <4>2, <4>4, <4>5
    <3>2. CASE i \notin 1..n
      <4>1. PICK j \in 1..m : i = n + j
        BY <2>5, <3>2
      <4>2. relay'[i] = sent[j] /\ sent[j].key \in DOMAIN values /\ sent[j].value = values[sent[j].key]
        BY <2>1, <2>3, <2>4, <4>1
      <4> QED BY <1>1, <4>2
    <3> QED BY <3>1, <3>2
  <2>9. ASSUME NEW k \in Keys, \A i \in 1..(n + m) : relay'[i].key # k
        PROVE  mirror'[k] = shown'[k]
    <3>1. k \notin DOMAIN values
      BY <2>6, <2>9
    <3>2. \A i \in 1..n : relay[i].key # k
      <4>1. \A i \in 1..n : i \in 1..(n + m)
        OBVIOUS
      <4> QED BY <2>4, <2>9, <4>1
    <3>3. mirror[k] = shown[k]
      BY <1>6, <2>3, <3>2 DEF RelayIsCurrent
    <3> QED BY <1>1, <3>1, <3>3
  <2>10. RelayIsCurrent'
    BY <2>4, <2>8, <2>9 DEF RelayIsCurrent
  <2> QED BY <1>2, <1>3, <2>7, <2>10
<1> QED BY <1>5, <1>6 DEF PublishedTypeOK

LEMMA TestSetsStep == StackInv /\ TestSets => StackInv'
<1> SUFFICES ASSUME StackInv, TestSets PROVE StackInv'
  OBVIOUS
<1>1. CASE SetPose("ahead")
  <2> DEFINE values == [odometry |-> "ahead", localization |-> "ahead"]
  <2>1. Publish(values) /\ DOMAIN values = {"odometry", "localization"}
        /\ values["odometry"] = "ahead" /\ values["localization"] = "ahead"
    BY <1>1 DEF SetPose
  <2> HIDE DEF values
  <2>2. DOMAIN values \subseteq Keys /\ \A k \in DOMAIN values : values[k] \in Payload
    BY <2>1 DEF Keys, Payload
  <2> QED BY <2>1, <2>2, PublishStep
<1>2. ASSUME NEW key \in Keys, NEW value \in Payload, NEW values, Publish(values),
             DOMAIN values = {key}, values[key] = value,
             key \notin {"odometry", "localization"}, key = "safety" => value \in Frames
      PROVE  StackInv'
  <2>1. DOMAIN values \subseteq Keys /\ \A k \in DOMAIN values : values[k] \in Payload
    BY <1>2
  <2>2. "odometry" \notin DOMAIN values /\ "localization" \notin DOMAIN values
    BY <1>2
  <2>3. "safety" \in DOMAIN values => values["safety"] \in Frames
    BY <1>2
  <2> QED BY <1>2, <2>1, <2>2, <2>3, PublishStep
<1>3. CASE SetBattery("critical")
  <2> DEFINE values == [battery |-> "critical"]
  <2>1. Publish(values) /\ DOMAIN values = {"battery"} /\ values["battery"] = "critical"
    BY <1>3 DEF SetBattery
  <2>2. "battery" \in Keys /\ "critical" \in Payload
    BY DEF Keys, Payload
  <2> HIDE DEF values
  <2> QED BY <1>2, <2>1, <2>2
<1>4. CASE SetSystem("sitting")
  <2> DEFINE values == [system |-> "sitting"]
  <2>1. Publish(values) /\ DOMAIN values = {"system"} /\ values["system"] = "sitting"
    BY <1>4 DEF SetSystem
  <2>2. "system" \in Keys /\ "sitting" \in Payload
    BY DEF Keys, Payload
  <2> HIDE DEF values
  <2> QED BY <1>2, <2>1, <2>2
<1>5. ASSUME NEW id \in {"hall-b", "none"}, SetMap(id, TRUE)
      PROVE  StackInv'
  <2> DEFINE value == [map_id |-> id, reachable |-> TRUE]
             values == [map_identity |-> value]
  <2>1. Publish(values) /\ DOMAIN values = {"map_identity"} /\ values["map_identity"] = value
    BY <1>5 DEF SetMap
  <2>2. "map_identity" \in Keys /\ value \in Payload
    BY DEF Keys, Payload
  <2> HIDE DEF values, value
  <2> QED BY <1>2, <2>1, <2>2
<1>6. ASSUME NEW f \in Frames, SetSafety(f)
      PROVE  StackInv'
  <2> DEFINE values == [safety |-> f]
  <2>1. Publish(values) /\ DOMAIN values = {"safety"} /\ values["safety"] = f
    BY <1>6 DEF SetSafety
  <2>2. "safety" \in Keys /\ f \in Payload
    BY DEF Keys, Payload
  <2> HIDE DEF values
  <2> QED BY <1>2, <2>1, <2>2
<1>7. ASSUME NEW d \in Driver, SetDriver(d)
      PROVE  StackInv'
  <2> DEFINE values == [gateway |-> d]
  <2>1. Publish(values) /\ DOMAIN values = {"gateway"} /\ values["gateway"] = d
    BY <1>7 DEF SetDriver
  <2>2. "gateway" \in Keys /\ d \in Payload
    BY DEF Keys, Payload
  <2> HIDE DEF values
  <2> QED BY <1>2, <2>1, <2>2
<1> QED BY <1>1, <1>3, <1>4, <1>5, <1>6, <1>7 DEF TestSets

LEMMA JoinsStep == StackInv /\ Joins => StackInv'
<1> SUFFICES ASSUME StackInv, Joins PROVE StackInv'
  OBVIOUS
<1> USE DEF StackInv
<1> DEFINE sent == Messages(shown)
<1>1. /\ joined' = TRUE /\ relay' = sent
      /\ shown' = shown /\ mirror' = mirror
      /\ asked' = asked /\ inlet' = inlet /\ record' = record
  BY DEF Joins, recorded
<1>2. /\ sent \in Seq([key : Keys, value : Payload])
      /\ \A i \in 1..Len(sent) : sent[i].key \in Keys /\ sent[i].value = shown[sent[i].key]
      /\ \A k \in Keys : \E i \in 1..Len(sent) : sent[i].key = k
  <2>1. DOMAIN shown = Keys /\ \A k \in Keys : shown[k] \in Payload
    BY DEF PublishedTypeOK
  <2> QED BY <2>1, OneMessageEach
<1> HIDE DEF sent
<1>3. PublishedTypeOK' /\ ShownIsSound' /\ RecordTypeOK' /\ RecordIsComplete'
  BY <1>1, <1>2 DEF PublishedTypeOK, ShownIsSound, RecordTypeOK, RecordIsComplete
<1>4. RelayIsCurrent'
  BY <1>1, <1>2 DEF RelayIsCurrent
<1> QED BY <1>3, <1>4

LEMMA HearsStep == StackInv /\ Hears => StackInv'
<1> SUFFICES ASSUME StackInv, Hears PROVE StackInv'
  OBVIOUS
<1> USE DEF StackInv
<1> DEFINE M == [key : Keys, value : Payload]
<1>1. /\ relay # <<>> /\ relay' = Tail(relay)
      /\ mirror' = [mirror EXCEPT ![Head(relay).key] = Head(relay).value]
      /\ joined' = joined /\ shown' = shown
      /\ asked' = asked /\ inlet' = inlet /\ record' = record
  BY DEF Hears, recorded
<1>2. relay \in Seq(M) /\ joined
  BY <1>1 DEF PublishedTypeOK
<1>3. /\ relay[1] \in M /\ Head(relay) = relay[1]
      /\ relay' \in Seq(M) /\ Len(relay) \in Nat \ {0} /\ Len(relay') = Len(relay) - 1
      /\ \A i \in 1..Len(relay') : relay'[i] = relay[i + 1]
  <2>1. relay[1] \in M /\ Head(relay) = relay[1] /\ Len(relay) \in Nat \ {0}
    <3>1. Len(relay) \in Nat \ {0}
      BY <1>1, <1>2
    <3>2. relay[1] \in M
      <4>1. 1 \in 1..Len(relay)
        BY <3>1
      <4> HIDE DEF M
      <4>2. \A i \in 1..Len(relay) : relay[i] \in M
        BY <1>2
      <4> QED BY <4>1, <4>2
    <3>3. Head(relay) = relay[1]
      BY <1>1, <1>2
    <3> QED BY <3>1, <3>2, <3>3
  <2>2. /\ Tail(relay) \in Seq(M) /\ Len(Tail(relay)) = Len(relay) - 1
        /\ \A i \in 1..Len(relay) - 1 : Tail(relay)[i] = relay[i + 1]
    BY <1>1, <1>2, HeadTailProperties
  <2> QED BY <1>1, <2>1, <2>2
<1>4. relay[1].key \in Keys /\ relay[1].value \in Payload
  BY <1>3
<1>5. PublishedTypeOK' /\ ShownIsSound' /\ RecordTypeOK' /\ RecordIsComplete'
  BY <1>1, <1>2, <1>3, <1>4 DEF PublishedTypeOK, ShownIsSound, RecordTypeOK, RecordIsComplete
<1> HIDE DEF M
<1>6. PICK n \in Nat \ {0} : n = Len(relay) /\ Len(relay') = n - 1
  BY <1>3
<1>7. ASSUME NEW i \in 1..(n - 1), \A j \in 1..(n - 1) : j > i => relay'[j].key # relay'[i].key
      PROVE  relay'[i].value = shown'[relay'[i].key]
  <2>1. i + 1 \in 1..n /\ relay'[i] = relay[i + 1]
    BY <1>3, <1>6
  <2>2. ASSUME NEW j \in 1..n, j > i + 1 PROVE relay[j].key # relay[i + 1].key
    <3>1. j - 1 \in 1..(n - 1) /\ j - 1 > i /\ (j - 1) + 1 = j
      BY <2>2
    <3> QED BY <1>3, <1>6, <1>7, <2>1, <3>1
  <2>3. relay[i + 1].value = shown[relay[i + 1].key]
    BY <1>6, <2>1, <2>2 DEF RelayIsCurrent
  <2> QED BY <1>1, <2>1, <2>3
<1>8. ASSUME NEW k \in Keys, \A i \in 1..(n - 1) : relay'[i].key # k
      PROVE  mirror'[k] = shown'[k]
  <2>1. ASSUME NEW j \in 1..n, j > 1 PROVE relay[j].key # k
    <3>1. j - 1 \in 1..(n - 1) /\ (j - 1) + 1 = j
      BY <2>1
    <3> QED BY <1>3, <1>6, <1>8, <3>1
  <2>2. CASE relay[1].key = k
    <3>1. 1 \in 1..n
      OBVIOUS
    <3>2. relay[1].value = shown[k]
      BY <1>6, <2>1, <2>2, <3>1 DEF RelayIsCurrent
    <3> QED BY <1>1, <1>3, <2>2, <3>2 DEF PublishedTypeOK
  <2>3. CASE relay[1].key # k
    <3>1. \A j \in 1..n : j = 1 \/ j > 1
      OBVIOUS
    <3>2. mirror[k] = shown[k]
      BY <1>2, <1>6, <2>1, <2>3, <3>1 DEF RelayIsCurrent
    <3> QED BY <1>1, <1>3, <2>3, <3>2 DEF PublishedTypeOK
  <2> QED BY <2>2, <2>3
<1>9. RelayIsCurrent'
  BY <1>6, <1>7, <1>8 DEF RelayIsCurrent
<1> QED BY <1>5, <1>9

\* The rest of the steps leave what the double publishes alone.
LEMMA RecordSteps ==
    ASSUME StackInv, [\E k \in Inlets : OnMessage(k) \/ \E what \in Sent[k] : Sends(k, what)]_<<asked, inlet, record>>,
           UNCHANGED <<published, mirror, joined>>
    PROVE  StackInv'
<1> USE DEF StackInv
<1>1. PublishedTypeOK' /\ ShownIsSound' /\ RelayIsCurrent'
  BY DEF published, PublishedTypeOK, ShownIsSound, RelayIsCurrent
<1>2. \A k \in Inlets : Sent[k] \subseteq Words
  BY DEF Inlets, Sent, Words
<1>3. \A k \in Inlets : asked[k] \in Seq(Words) /\ inlet[k] \in Seq(Words) /\ record[k] \in Seq(Words)
  BY DEF RecordTypeOK
<1>4. ASSUME NEW k \in Inlets, NEW what \in Sent[k], Sends(k, what)
      PROVE  RecordTypeOK' /\ RecordIsComplete'
  <2>1. /\ asked' = [asked EXCEPT ![k] = Append(@, what)]
        /\ inlet' = [inlet EXCEPT ![k] = Append(@, what)]
        /\ record' = record
    BY <1>4 DEF Sends
  <2>2. what \in Words
    BY <1>2
  <2>3. Append(asked[k], what) \in Seq(Words) /\ Append(inlet[k], what) \in Seq(Words)
    BY <1>3, <2>2
  <2>4. RecordTypeOK'
    BY <2>1, <2>3 DEF RecordTypeOK
  <2>5. ASSUME NEW s \in Seq(Words), NEW t \in Seq(Words)
        PROVE  Append(s \o t, what) = s \o Append(t, what)
    BY <2>2, <2>5
  <2>6. RecordIsComplete'
    <3>1. asked'[k] = Append(asked[k], what) /\ inlet'[k] = Append(inlet[k], what)
      BY <2>1 DEF RecordTypeOK
    <3>2. asked'[k] = record[k] \o inlet'[k]
      BY <1>3, <2>5, <3>1 DEF RecordIsComplete
    <3>3. \A l \in Inlets : l # k => asked'[l] = asked[l] /\ inlet'[l] = inlet[l]
      BY <2>1 DEF RecordTypeOK
    <3> QED BY <2>1, <3>2, <3>3 DEF RecordIsComplete
  <2> QED BY <2>4, <2>6
<1>5. ASSUME NEW k \in Inlets, OnMessage(k)
      PROVE  RecordTypeOK' /\ RecordIsComplete'
  <2>1. /\ inlet[k] # <<>> /\ asked' = asked
        /\ record' = [record EXCEPT ![k] = Append(@, Head(inlet[k]))]
        /\ inlet' = [inlet EXCEPT ![k] = Tail(@)]
    BY <1>5 DEF OnMessage
  <2>2. Head(inlet[k]) \in Words /\ Tail(inlet[k]) \in Seq(Words)
    BY <1>3, <2>1
  <2>3. RecordTypeOK'
    BY <1>3, <2>1, <2>2 DEF RecordTypeOK
  <2>4. ASSUME NEW s \in Seq(Words), NEW t \in Seq(Words), t # <<>>
        PROVE  Append(s, Head(t)) \o Tail(t) = s \o t
    BY <2>4
  <2>5. RecordIsComplete'
    BY <1>3, <2>1, <2>4 DEF RecordTypeOK, RecordIsComplete
  <2> QED BY <2>3, <2>5
<1>6. CASE UNCHANGED <<asked, inlet, record>>
  <2>1. asked' = asked /\ inlet' = inlet /\ record' = record
    BY <1>6
  <2>2. RecordTypeOK'
    BY <2>1 DEF RecordTypeOK
  <2>3. RecordIsComplete'
    BY <2>1 DEF RecordIsComplete
  <2> QED BY <1>1, <2>2, <2>3
<1> QED BY <1>1, <1>4, <1>5, <1>6

\* Whatever a test sets and a node sends, in any numbers, and whenever the node
\* joins: what the test looks at after its sleep is what it set and what was
\* sent (testing.py:263-299, 373-387, client.py:308-324).
THEOREM TestsCanTrust == StackSpec => []TestsSeeWhatTheySet
<1>1. StackInit => StackInv
  <2> SUFFICES ASSUME StackInit PROVE StackInv
    OBVIOUS
  <2>1. /\ DOMAIN shown = Keys /\ shown["odometry"] = "origin" /\ shown["localization"] = "origin"
        /\ shown["map_identity"] = [map_id |-> "fake-map", reachable |-> TRUE]
        /\ shown["battery"] = "good" /\ shown["system"] = "standing"
        /\ shown["gateway"] = GatewayStatus("nobody", "pass_through", {}, FALSE)
        /\ shown["safety"] = SafetyState("clear")
        /\ shown \in [Keys -> {shown[k] : k \in Keys}]
    BY DEF StackInit, Keys
  <2>2. \A k \in Keys : shown[k] \in Payload
    <3>1. shown["map_identity"] \in Payload
      BY <2>1 DEF Payload
    <3>2. shown["gateway"] \in Payload
      BY <2>1 DEF Payload
    <3>3. shown["safety"] \in Frames
      BY <2>1 DEF Frames
    <3> QED BY <2>1, <3>1, <3>2, <3>3 DEF Keys, Payload
  <2>3. relay = <<>> /\ joined = FALSE /\ mirror \in [Keys -> Payload \cup {Unknown}]
    BY DEF StackInit
  <2>4. PublishedTypeOK /\ ShownIsSound /\ RelayIsCurrent
    <3>1. shown["safety"] \in Frames
      BY <2>1 DEF Frames
    <3>2. shown \in [Keys -> Payload]
      BY <2>1, <2>2
    <3>3. PublishedTypeOK
      <4>1. <<>> \in Seq([key : Keys, value : Payload])
        OBVIOUS
      <4> QED BY <2>3, <3>2, <4>1 DEF PublishedTypeOK
    <3>4. RelayIsCurrent
      BY <2>3 DEF RelayIsCurrent
    <3> QED BY <2>1, <3>1, <3>3, <3>4 DEF ShownIsSound
  <2>5. RecordTypeOK /\ RecordIsComplete
    <3>1. \A k \in Inlets : asked[k] = <<>> /\ inlet[k] = <<>> /\ record[k] = <<>>
      BY DEF StackInit
    <3>2. RecordTypeOK
      BY DEF StackInit, RecordTypeOK
    <3>3. <<>> \o <<>> = <<>>
      OBVIOUS
    <3> QED BY <3>1, <3>2, <3>3 DEF RecordIsComplete
  <2> QED BY <2>4, <2>5 DEF StackInv
<1>2. StackInv /\ [StackNext]_stackVars => StackInv'
  <2> SUFFICES ASSUME StackInv, [StackNext]_stackVars PROVE StackInv'
    OBVIOUS
  <2>1. CASE TestSets
    BY <2>1, TestSetsStep
  <2>2. CASE Joins
    BY <2>2, JoinsStep
  <2>3. CASE Hears
    BY <2>3, HearsStep
  <2>4. CASE Sleeps
    BY <2>4, RecordSteps DEF Sleeps, recorded
  <2>5. CASE \E k \in Inlets : OnMessage(k) \/ \E what \in Sent[k] : Sends(k, what)
    <3>1. UNCHANGED <<published, mirror, joined>>
      BY <2>5 DEF OnMessage, Sends
    <3> QED BY <2>5, <3>1, RecordSteps
  <2>6. CASE UNCHANGED stackVars
    BY <2>6, RecordSteps DEF stackVars, published
  <2> QED BY <2>1, <2>2, <2>3, <2>4, <2>5, <2>6 DEF StackNext
<1>3. StackInv => TestsSeeWhatTheySet
  <2> SUFFICES ASSUME StackInv, joined, Quiet PROVE TestsSeeWhatTheySet
    BY DEF TestsSeeWhatTheySet
  <2>1. relay = <<>> /\ \A k \in Inlets : inlet[k] = <<>>
    BY DEF Quiet
  <2>2. \A k \in Keys : mirror[k] = shown[k]
    BY <2>1 DEF StackInv, RelayIsCurrent
  <2>3. mirror = shown
    BY <2>2 DEF StackInv, PublishedTypeOK
  <2>4. mirror.odometry = mirror.localization
    BY <2>3 DEF StackInv, ShownIsSound
  <2>5. FrameMotionPermitted(mirror.safety) <=> shown.safety = SafetyState("clear")
    <3>1. shown.safety \in Frames /\ mirror.safety = shown.safety
      BY <2>3 DEF StackInv, ShownIsSound
    <3>2. CASE shown.safety = SafetyState("clear")
      <4>1. ~SafetyState("clear").estop /\ SafetyState("clear").source_alive
            /\ SafetyState("clear").phase = "clear"
        <5>1. ~SafetyState("clear").estop
          BY DEF SafetyState
        <5>2. SafetyState("clear").source_alive
          BY DEF SafetyState
        <5>3. SafetyState("clear").phase = "clear"
          BY DEF SafetyState
        <5> QED BY <5>1, <5>2, <5>3
      <4> QED BY <3>1, <3>2, <4>1 DEF FrameMotionPermitted
    <3>3. CASE shown.safety = SafetyState("releasing")
      BY <3>1, <3>3 DEF FrameMotionPermitted, SafetyState
    <3>4. CASE shown.safety = [SafetyState("clear") EXCEPT !.estop = TRUE]
      <4>1. ~SafetyState("clear").estop /\ SafetyState("clear").source_alive
            /\ SafetyState("clear").phase = "clear"
        <5>1. ~SafetyState("clear").estop
          BY DEF SafetyState
        <5>2. SafetyState("clear").source_alive
          BY DEF SafetyState
        <5>3. SafetyState("clear").phase = "clear"
          BY DEF SafetyState
        <5> QED BY <5>1, <5>2, <5>3
      <4>2. shown.safety.estop = TRUE
        BY <3>4 DEF SafetyState
      <4> QED BY <3>1, <4>1, <4>2 DEF FrameMotionPermitted
    <3> QED BY <3>1, <3>2, <3>3, <3>4 DEF Frames
  <2>6. \A k \in Inlets : record[k] = asked[k]
    <3> SUFFICES ASSUME NEW k \in Inlets PROVE record[k] = asked[k]
      OBVIOUS
    <3>1. asked[k] = record[k] \o <<>> /\ record[k] \in Seq(Words)
      BY <2>1 DEF StackInv, RecordTypeOK, RecordIsComplete
    <3> QED BY <3>1
  <2>7. record = asked
    BY <2>6 DEF StackInv, RecordTypeOK
  <2> QED BY <2>3, <2>4, <2>5, <2>7 DEF TestsSeeWhatTheySet, Permitted, Stopped
<1> QED BY <1>1, <1>2, <1>3, PTL DEF StackSpec

----
(* The drive examples: the inductive invariant.                            *)

\* The robot does not move before it is driven, and is not driven before there
\* is an origin; so the origin is where it stood when the node came up.
OriginIsStart ==
    /\ origin = NoPose => position = start /\ last # "forward"
    /\ origin # NoPose => origin = start

\* Poses lag behind.
PosesAreBehind ==
    /\ start <= position
    /\ pose # NoPose => start <= pose /\ pose <= position

\* While poses come, a look that goes on leaves room for the step behind it.
RoomIsLeft ==
    odometry => /\ position <= start + Distance
                /\ last = "forward" /\ polled => position < start + Distance

ContractInv ==
    /\ travelled \in 0..Limit /\ node \in {"running", "stopping", "down"}
    /\ example = "contract" =>
          /\ pose = NoPose <=> origin = NoPose
          /\ pose # NoPose => travelled = Covered(origin, pose)
          /\ node = "stopping" => origin # NoPose
          /\ node # "running" => last = "zero"

ClientInv ==
    /\ stale \in BOOLEAN /\ preempted \in BOOLEAN
    /\ task \in {"waiting", "driving", "over"}
    /\ example = "client" =>
          /\ task = "waiting" => origin = NoPose
          /\ task = "driving" => origin # NoPose
          /\ origin # NoPose => pose # NoPose
          /\ odometry => ~stale

ExampleInv ==
    /\ example \in {"contract", "client"}
    /\ SceneTypeOK /\ OriginIsStart /\ PosesAreBehind /\ RoomIsLeft
    /\ ContractInv /\ ClientInv

----
(* The scene.                                                              *)

\* Nobody moved, and nothing was published.
LEMMA ExampleInitInv == ExampleInit => ExampleInv
<1> SUFFICES ASSUME ExampleInit PROVE ExampleInv
  OBVIOUS
<1>1. SceneTypeOK
  <2>1. events \in Seq(CollisionZoneEvent) /\ Len(events) = 0
    BY DEF ExampleInit, ContractInit, SceneInit
  <2>2. odometry \in BOOLEAN /\ polled \in BOOLEAN /\ blocked \in BOOLEAN
    BY DEF ExampleInit, ContractInit, SceneInit
  <2> QED BY <2>1, <2>2, SceneAssumption DEF ExampleInit, ContractInit, SceneInit, SceneTypeOK
<1>2. OriginIsStart /\ PosesAreBehind /\ RoomIsLeft
  BY SceneAssumption DEF ExampleInit, ContractInit, SceneInit, OriginIsStart, PosesAreBehind, RoomIsLeft, NoPose
<1>3. ContractInv
  BY SceneAssumption DEF ExampleInit, ContractInit, SceneInit, ContractInv
<1>4. ClientInv
  BY DEF ExampleInit, ClientInit, SceneInit, ClientInv
<1> QED BY <1>1, <1>2, <1>3, <1>4 DEF ExampleInit, ExampleInv

\* A step of the robot takes the room that the last look has left.
LEMMA MovesInv == ASSUME ExampleInv, Moves, UNCHANGED <<contractOwn, clientOwn, example>> PROVE ExampleInv'
<1> USE SceneAssumption DEF Moves, NoPose, ExampleInv, contractOwn, clientOwn
<1>1. SceneTypeOK'
  <2>1. position' \in 0..Limit
    BY DEF SceneTypeOK
  <2>2. polled' \in BOOLEAN
    OBVIOUS
  <2> QED BY <2>1, <2>2 DEF SceneTypeOK
<1>2. OriginIsStart' /\ PosesAreBehind' /\ RoomIsLeft'
  BY DEF SceneTypeOK, OriginIsStart, PosesAreBehind, RoomIsLeft
<1>3. ContractInv' /\ ClientInv'
  BY DEF ContractInv, ClientInv, Covered
<1> QED BY <1>1, <1>2, <1>3

\* Without odometry nothing is claimed of the distance.
LEMMA OdometryStopsInv ==
    ASSUME ExampleInv, OdometryStops, UNCHANGED <<contractOwn, clientOwn, example>> PROVE ExampleInv'
BY DEF OdometryStops, ExampleInv, SceneTypeOK, OriginIsStart, PosesAreBehind, RoomIsLeft,
       ContractInv, ClientInv, Covered, contractOwn, clientOwn

\* What a zone event that is sent, or comes, does not touch.
LEMMA ZonesInv ==
    ASSUME ExampleInv, SceneTypeOK',
           UNCHANGED <<position, start, odometry, pose, polled, last, origin, contractOwn, clientOwn, example>>
    PROVE  ExampleInv'
BY DEF ExampleInv, OriginIsStart, PosesAreBehind, RoomIsLeft,
       ContractInv, ClientInv, Covered, contractOwn, clientOwn

\* A zone is breached or cleared, and its event is sent.
LEMMA ZoneChangesInv ==
    ASSUME ExampleInv, NEW z \in Zone, ZoneChanges(z), UNCHANGED <<contractOwn, clientOwn, example>>
    PROVE  ExampleInv'
<1>1. [zone_name |-> z, active |-> z \notin breached] \in CollisionZoneEvent
  BY DEF CollisionZoneEvent
<1>2. events' \in Seq(CollisionZoneEvent) /\ Len(events') <= MaxEvents
  BY <1>1, SceneAssumption DEF ExampleInv, SceneTypeOK, ZoneChanges
<1>3. SceneTypeOK'
  BY <1>2 DEF ExampleInv, SceneTypeOK, ZoneChanges
<1> QED BY <1>3, ZonesInv DEF ZoneChanges

\* A node hears of a zone.
LEMMA ZoneHeardInv ==
    ASSUME ExampleInv, NEW e \in CollisionZoneEvent, OnCollisionZone(e),
           UNCHANGED <<contractOwn, clientOwn, example>>
    PROVE  ExampleInv'
<1>1. events' \in Seq(CollisionZoneEvent) /\ Len(events') <= MaxEvents
  BY SceneAssumption DEF ExampleInv, SceneTypeOK, OnCollisionZone, EventComes
<1>2. told' \subseteq Zone /\ blocked' \in BOOLEAN
  BY DEF ExampleInv, SceneTypeOK, OnCollisionZone, EventComes, CollisionZoneEvent
<1>3. SceneTypeOK'
  BY <1>1, <1>2 DEF ExampleInv, SceneTypeOK, OnCollisionZone, EventComes, world
<1> QED BY <1>3, ZonesInv DEF OnCollisionZone, EventComes, world

----
(* The nodes.                                                              *)

\* The first pose is where the robot has stood all the time.
LEMMA OnOdometryInv ==
    ASSUME ExampleInv, OnOdometry, example = "contract", UNCHANGED <<clientOwn, example>>
    PROVE  ExampleInv'
<1> USE SceneAssumption DEF OnOdometry, PoseComes, world, NoPose, ExampleInv, clientOwn
<1>1. SceneTypeOK'
  BY DEF SceneTypeOK
<1>2. OriginIsStart' /\ PosesAreBehind' /\ RoomIsLeft'
  BY DEF SceneTypeOK, OriginIsStart, PosesAreBehind, RoomIsLeft
<1>3. travelled' \in 0..Limit
  BY <1>1 DEF SceneTypeOK, Covered
<1>4. ContractInv' /\ ClientInv'
  BY <1>3 DEF SceneTypeOK, ContractInv, ClientInv
<1> QED BY <1>1, <1>2, <1>4

\* The timer goes on only where the newest pose, which is the robot's position
\* while odometry comes, is less than the distance from the origin.
LEMMA OnTickInv ==
    ASSUME ExampleInv, OnTick, example = "contract", UNCHANGED <<clientOwn, example>>
    PROVE  ExampleInv'
<1>1. SceneTypeOK'
  BY DEF OnTick, Looks, world, ExampleInv, SceneTypeOK
<1>2. OriginIsStart' /\ PosesAreBehind'
  BY DEF OnTick, Looks, world, ExampleInv, OriginIsStart, PosesAreBehind
<1>3. RoomIsLeft'
  <2>1. CASE Arrived
    BY <2>1 DEF OnTick, Looks, world, RoomIsLeft, ExampleInv
  <2>2. CASE ~Arrived
    <3>1. odometry => travelled = Covered(start, position)
      BY DEF OnTick, Looks, UpToDate, ExampleInv, SceneTypeOK, OriginIsStart, ContractInv
    <3>2. travelled < Distance /\ UNCHANGED <<start, position, odometry>>
      BY <2>2, SceneAssumption DEF OnTick, Looks, world, Arrived, ExampleInv, ContractInv
    <3>3. start <= position /\ start \in Nat /\ position \in Nat
      BY SceneAssumption DEF ExampleInv, PosesAreBehind, SceneTypeOK
    <3> QED BY <3>1, <3>2, <3>3, SceneAssumption DEF RoomIsLeft, Covered
  <2> QED BY <2>1, <2>2
<1>4. ContractInv' /\ ClientInv'
  BY DEF OnTick, Looks, world, clientOwn, ExampleInv, ContractInv, ClientInv, Covered
<1> QED BY <1>1, <1>2, <1>3, <1>4 DEF ExampleInv

\* A node that goes down leaves a zero.
LEMMA OnStopInv ==
    ASSUME ExampleInv, OnStop, example = "contract", UNCHANGED <<clientOwn, example>>
    PROVE  ExampleInv'
BY DEF OnStop, world, ExampleInv, SceneTypeOK, OriginIsStart, PosesAreBehind, RoomIsLeft,
       ContractInv, ClientInv, Covered, clientOwn

\* The client's Latest of the pose.
LEMMA PoseArrivesInv ==
    ASSUME ExampleInv, PoseArrives, example = "client", UNCHANGED <<contractOwn, example>>
    PROVE  ExampleInv'
<1> USE SceneAssumption DEF PoseArrives, PoseComes, world, clientOwn, contractOwn, NoPose, ExampleInv
<1>1. SceneTypeOK'
  BY DEF SceneTypeOK
<1>2. OriginIsStart' /\ PosesAreBehind' /\ RoomIsLeft'
  BY DEF SceneTypeOK, OriginIsStart, PosesAreBehind, RoomIsLeft
<1>3. ContractInv' /\ ClientInv'
  BY DEF SceneTypeOK, ContractInv, ClientInv
<1> QED BY <1>1, <1>2, <1>3

\* Its age, and the gateway's status. A pose ages when odometry has stopped.
LEMMA AgesInv ==
    ASSUME ExampleInv, PoseAges \/ StatusArrives, example = "client", UNCHANGED <<contractOwn, example>>
    PROVE  ExampleInv'
<1>1. UNCHANGED <<sceneVars, contractOwn, task, example>>
  BY DEF PoseAges, StatusArrives
<1>2. SceneTypeOK' /\ OriginIsStart' /\ PosesAreBehind' /\ RoomIsLeft' /\ ContractInv'
  BY <1>1 DEF sceneVars, contractOwn, ExampleInv, SceneTypeOK, OriginIsStart, PosesAreBehind,
              RoomIsLeft, ContractInv, Covered
<1>3. stale' \in BOOLEAN /\ preempted' \in BOOLEAN /\ (odometry' => ~stale')
  <2>1. stale \in BOOLEAN /\ preempted \in BOOLEAN /\ (odometry => ~stale)
    BY DEF ExampleInv, ClientInv
  <2>2. CASE PoseAges
    <3>1. stale' = TRUE /\ preempted' = preempted /\ ~odometry'
      BY <1>1, <2>2 DEF PoseAges, sceneVars
    <3> QED BY <2>1, <3>1
  <2>3. CASE StatusArrives
    <3>1. preempted' \in BOOLEAN
      BY <2>3 DEF StatusArrives
    <3>2. stale' = stale /\ odometry' = odometry
      BY <1>1, <2>3 DEF StatusArrives, sceneVars
    <3> QED BY <2>1, <3>1, <3>2
  <2> QED BY <2>2, <2>3
<1> QED BY <1>1, <1>2, <1>3 DEF sceneVars, ExampleInv, ClientInv

\* What the task starts from is the pose of a robot that has not moved.
LEMMA FirstPoseInv ==
    ASSUME ExampleInv, FirstPose, example = "client", UNCHANGED <<contractOwn, example>>
    PROVE  ExampleInv'
<1> USE SceneAssumption DEF FirstPose, world, NoPose, ExampleInv, contractOwn
<1>1. SceneTypeOK'
  BY DEF SceneTypeOK
<1>2. OriginIsStart' /\ PosesAreBehind' /\ RoomIsLeft'
  BY DEF SceneTypeOK, OriginIsStart, PosesAreBehind, RoomIsLeft, ClientInv
<1>3. ContractInv' /\ ClientInv'
  BY DEF ContractInv, ClientInv
<1> QED BY <1>1, <1>2, <1>3

\* A pass of the loop, as a pass of the timer.
LEMMA LookInv ==
    ASSUME ExampleInv, Look, example = "client", UNCHANGED <<contractOwn, example>>
    PROVE  ExampleInv'
<1>1. SceneTypeOK'
  BY DEF Look, Looks, world, ExampleInv, SceneTypeOK
<1>2. OriginIsStart' /\ PosesAreBehind'
  BY DEF Look, Looks, world, ExampleInv, OriginIsStart, PosesAreBehind, ClientInv
<1>3. RoomIsLeft'
  <2>1. CASE GoesOn /\ ~preempted
    <3>1. odometry => TravelledFrom(origin) = position - start /\ pose = position /\ ~stale
      BY SceneAssumption DEF Look, Looks, UpToDate, ExampleInv, SceneTypeOK, OriginIsStart, PosesAreBehind,
             ClientInv, TravelledFrom, NoPose
    <3>2. TravelledFrom(origin) < Distance /\ UNCHANGED <<start, position, odometry>>
      BY <2>1 DEF Look, Looks, world, GoesOn
    <3>3. start <= position /\ start \in Nat /\ position \in Nat
      BY SceneAssumption DEF ExampleInv, PosesAreBehind, SceneTypeOK
    <3> QED BY <3>1, <3>2, <3>3, SceneAssumption DEF RoomIsLeft
  <2>2. CASE ~(GoesOn /\ ~preempted)
    BY <2>2 DEF Look, Looks, world, RoomIsLeft, ExampleInv
  <2> QED BY <2>1, <2>2
<1>4. ContractInv' /\ ClientInv'
  BY DEF Look, Looks, world, contractOwn, ExampleInv, ContractInv, ClientInv, Covered
<1> QED BY <1>1, <1>2, <1>3, <1>4 DEF ExampleInv

\* A node that is stopped drives no further.
LEMMA CancelledInv ==
    ASSUME ExampleInv, Cancelled, example = "client", UNCHANGED <<contractOwn, example>>
    PROVE  ExampleInv'
<1> USE DEF Cancelled, world, contractOwn, ExampleInv
<1>1. SceneTypeOK' /\ OriginIsStart' /\ PosesAreBehind' /\ RoomIsLeft'
  BY DEF SceneTypeOK, OriginIsStart, PosesAreBehind, RoomIsLeft
<1>2. ContractInv' /\ ClientInv'
  BY DEF ContractInv, ClientInv, Covered
<1> QED BY <1>1, <1>2

\* Every step keeps the invariant.
LEMMA ExampleStepInv == ExampleInv /\ [ExampleNext]_exampleVars => ExampleInv'
<1> SUFFICES ASSUME ExampleInv, [ExampleNext]_exampleVars PROVE ExampleInv'
  OBVIOUS
<1>1. CASE Scene /\ UNCHANGED <<contractOwn, clientOwn, example>>
  BY <1>1, MovesInv, OdometryStopsInv, ZoneChangesInv DEF Scene
<1>2. CASE example = "contract" /\ ContractNext /\ UNCHANGED <<clientOwn, example>>
  <2>1. ASSUME NEW e \in CollisionZoneEvent, OnZone(e) PROVE ExampleInv'
    BY <1>2, <2>1, ZoneHeardInv DEF OnZone
  <2> QED BY <1>1, <1>2, <2>1, OnOdometryInv, OnTickInv, OnStopInv DEF ContractNext
<1>3. CASE example = "client" /\ ClientNext /\ UNCHANGED <<contractOwn, example>>
  <2>1. ASSUME NEW e \in CollisionZoneEvent, OnCollisionZone(e), UNCHANGED clientOwn PROVE ExampleInv'
    BY <1>3, <2>1, ZoneHeardInv
  <2> QED BY <1>1, <1>3, <2>1, PoseArrivesInv, AgesInv, FirstPoseInv, LookInv, CancelledInv
     DEF ClientNext
<1>4. CASE UNCHANGED exampleVars
  BY <1>4 DEF exampleVars, sceneVars, contractOwn, clientOwn, ExampleInv, SceneTypeOK, OriginIsStart,
              PosesAreBehind, RoomIsLeft, ContractInv, ClientInv, Covered
<1> QED BY <1>2, <1>3, <1>4 DEF ExampleNext

----
(* The refinement of FixedDrive.                                           *)

\* The scene and what is heard of it are no steps of the drive.
LEMMA SceneStutters ==
    ASSUME UNCHANGED <<last, origin, task, node, example>> PROVE UNCHANGED <<Stage, last>>
BY DEF Stage

\* The steps of the contract example, as FixedDrive sees them: the first pose
\* starts the drive, the timer drives or finishes it, and so does the end of the
\* node, unless its own stop() has.
LEMMA ContractDrives ==
    ASSUME ExampleInv, example = "contract", UNCHANGED <<task, example>>, ContractNext
    PROVE  [Drive!Next]_<<Stage, last>>
<1> USE DEF Drive!Next, Drive!Start, Drive!Drive, Drive!Finish
<1>1. CASE Scene /\ UNCHANGED contractOwn
  BY <1>1, SceneStutters DEF Scene, Moves, OdometryStops, ZoneChanges, contractOwn
<1>2. CASE OnOdometry
  <2>1. position # NoPose
    BY SceneAssumption DEF ExampleInv, SceneTypeOK, NoPose
  <2> QED BY <1>2, <2>1 DEF OnOdometry, PoseComes, Stage, ExampleInv, ContractInv
<1>3. CASE \E e \in CollisionZoneEvent : OnZone(e)
  BY <1>3, SceneStutters DEF OnZone, OnCollisionZone, EventComes, contractOwn
<1>4. CASE OnTick
  BY <1>4 DEF OnTick, Looks, Stage
<1>5. CASE OnStop
  BY <1>5 DEF OnStop, Stage, ExampleInv, ContractInv
<1> QED BY <1>1, <1>2, <1>3, <1>4, <1>5 DEF ContractNext

\* The same of the client example: the task starts with a pose it has, its loop
\* drives or finishes, and so does whoever cancels it.
LEMMA ClientDrives ==
    ASSUME ExampleInv, example = "client", UNCHANGED <<node, example>>, ClientNext
    PROVE  [Drive!Next]_<<Stage, last>>
<1> USE DEF Drive!Next, Drive!Start, Drive!Drive, Drive!Finish
<1>1. CASE Scene /\ UNCHANGED clientOwn
  BY <1>1, SceneStutters DEF Scene, Moves, OdometryStops, ZoneChanges, clientOwn
<1>2. CASE PoseArrives \/ PoseAges \/ StatusArrives
  BY <1>2, SceneStutters DEF PoseArrives, PoseComes, PoseAges, StatusArrives, sceneVars, clientOwn
<1>3. CASE \E e \in CollisionZoneEvent : OnCollisionZone(e) /\ UNCHANGED clientOwn
  BY <1>3, SceneStutters DEF OnCollisionZone, EventComes, clientOwn
<1>4. CASE FirstPose
  BY <1>4 DEF FirstPose, Stage
<1>5. CASE Look
  BY <1>5 DEF Look, Looks, Stage
<1>6. CASE Cancelled
  BY <1>6 DEF Cancelled, Stage, ExampleInv, ClientInv
<1> QED BY <1>1, <1>2, <1>3, <1>4, <1>5, <1>6 DEF ClientNext

----
(* The theorems.                                                           *)

\* Among poses that stop, zones that change and events that are late, the
\* strengthened invariant holds of both examples.
THEOREM ExampleInvariant == ExampleSpec => []ExampleInv
BY ExampleInitInv, ExampleStepInv, PTL DEF ExampleSpec

\* Neither example drives further than its distance from where it came up,
\* while poses come (contract_drive.py:66-94, client_drive.py:51-84).
THEOREM DistanceKept == ExampleSpec => []DistanceIsKept
<1>1. ExampleInv => DistanceIsKept
  BY SceneAssumption DEF ExampleInv, SceneTypeOK, PosesAreBehind, RoomIsLeft, DistanceIsKept
<1> QED BY <1>1, ExampleInvariant, PTL

\* Both examples are the drive that FixedDrive describes, whenever they are
\* stopped: no velocity before there is a pose, then velocities, and a zero behind
\* them with nothing after it.
THEOREM ExamplesAreFixedDrives == ExampleSpec => DriveSpec
<1>1. ExampleInit => Drive!Init
  BY DEF ExampleInit, ContractInit, ClientInit, SceneInit, Stage, Drive!Init
<1>2. ExampleInv /\ [ExampleNext]_exampleVars => [Drive!Next]_(Drive!vars)
  <2> SUFFICES ASSUME ExampleInv, [ExampleNext]_exampleVars PROVE [Drive!Next]_<<Stage, last>>
    BY DEF Drive!vars
  <2>1. CASE UNCHANGED exampleVars
    BY <2>1, SceneStutters DEF exampleVars, sceneVars, contractOwn, clientOwn
  <2> QED BY <2>1, ContractDrives, ClientDrives DEF ExampleNext, contractOwn, clientOwn
<1> QED BY <1>1, <1>2, ExampleInvariant, PTL DEF ExampleSpec, DriveSpec, Drive!Spec

----
(* The beacons of the map and of a topic: Beacon_proofs, for these two.    *)

OfMap == INSTANCE Beacon_proofs WITH
    up <- source, level <- stated, due <- beat, link <- path, latest <- identity,
    Beat <- MapBeat, Within <- MapWithin,
    Level <- {[map_id |-> id, reachable |-> r] : id \in MapId \cup {NoMap}, r \in BOOLEAN}

OfTopic == INSTANCE Beacon_proofs WITH
    up <- source, level <- stated, due <- beat, link <- path, latest <- identity,
    Level <- MapId

\* What a beacon's constants are assumed to be, they are.
LEMMA MapBeaconHolds ==
    /\ OfMap!BeaconAssumption
    /\ {[map_id |-> id, reachable |-> r] : id \in MapId \cup {NoMap}, r \in BOOLEAN} = OfMap!MapLevels
BY BeaconAssumption, BeaconsAssumption, MapBeatAssumption
   DEF AnyLink, OfMap!AnyLink, OfMap!BeaconAssumption, OfMap!MapLevels, OfMap!MapIdentity, Map!MapLevels, Map!MapIdentity

LEMMA TopicBeaconHolds == OfTopic!BeaconAssumption
BY BeaconAssumption, BeaconsAssumption DEF AnyLink, OfTopic!AnyLink, OfTopic!BeaconAssumption

\* MapView as Beacon_proofs extends it and MapView as MCClientReads asks about
\* it are one: the same initial states, steps and property.
LEMMA MapStarts == Map!MapInit => OfMap!MapViewInv
<1>1. Map!MapInit => OfMap!MapInit
  BY DEF Map!MapInit, OfMap!MapInit, Map!BeaconInit, OfMap!BeaconInit,
         Map!Horizon, OfMap!Horizon, Map!Frame, OfMap!Frame
<1> QED BY <1>1, MapBeaconHolds, OfMap!MapInitInv

LEMMA MapSteps == OfMap!MapViewInv /\ Map!MapNext => OfMap!MapViewInv'
<1>1. Map!Localization => OfMap!Localization
  <2>1. \A l : Map!Send(l) => OfMap!Send(l)
    BY DEF Map!Send, OfMap!Send
  <2>2. \A l : Map!Change(l) => OfMap!Change(l)
    BY <2>1 DEF Map!Change, OfMap!Change
  <2>3. \A l : Map!Restart(l) => OfMap!Restart(l)
    BY <2>1 DEF Map!Restart, OfMap!Restart
  <2>4. Map!Restate => OfMap!Restate
    BY <2>1 DEF Map!Restate, OfMap!Restate
  <2>5. Map!Crash => OfMap!Crash
    BY DEF Map!Crash, OfMap!Crash
  <2>6. \A i : Map!Lose(i) => OfMap!Lose(i)
    BY DEF Map!Lose, OfMap!Lose, Map!RemoveAt, OfMap!RemoveAt
  <2>7. Map!Anchor => OfMap!Anchor
    BY DEF Map!Anchor, OfMap!Anchor, Map!Frame, OfMap!Frame
  <2>8. Map!MapLevels = OfMap!MapLevels
    BY DEF Map!MapLevels, OfMap!MapLevels, Map!MapIdentity, OfMap!MapIdentity
  <2> QED BY <2>2, <2>3, <2>4, <2>5, <2>6, <2>7, <2>8 DEF Map!Localization, OfMap!Localization
<1>2. \A i : Map!HearMap(i) => OfMap!HearMap(i)
  BY DEF Map!HearMap, OfMap!HearMap, Map!Receive, OfMap!Receive, Map!Update, OfMap!Update,
         Map!RemoveAt, OfMap!RemoveAt
<1>3. Map!MapPasses => OfMap!MapPasses
  BY DEF Map!MapPasses, OfMap!MapPasses, Map!Tick, OfMap!Tick, Map!Older, OfMap!Older,
         Map!Horizon, OfMap!Horizon, Map!Frame, OfMap!Frame
<1>4. Map!MapNext => OfMap!MapNext
  BY <1>1, <1>2, <1>3 DEF Map!MapNext, OfMap!MapNext
<1> QED BY <1>4, MapBeaconHolds, OfMap!MapStepInv

LEMMA MapStutters == OfMap!MapViewInv /\ UNCHANGED <<kind, beaconOwn, mapOwn>> => OfMap!MapViewInv'
<1>1. UNCHANGED <<kind, beaconOwn, mapOwn>> => UNCHANGED OfMap!mapVars
  BY DEF beaconOwn, mapOwn, OfMap!mapVars, OfMap!beaconVars
<1> QED BY <1>1, MapBeaconHolds, OfMap!MapStepInv

LEMMA MapTells == OfMap!MapViewInv => Map!MapIsCurrent
<1>1. OfMap!MapIsCurrent => Map!MapIsCurrent
  BY DEF Map!MapIsCurrent, OfMap!MapIsCurrent, Map!CurrentMapId, OfMap!CurrentMapId,
         Map!Fresh, OfMap!Fresh, Map!Horizon, OfMap!Horizon
<1> QED BY <1>1, MapBeaconHolds, OfMap!MapsReadAreRecent

\* And so is LateJoin.
LEMMA TopicStarts == Join!JoinInit => OfTopic!JoinInv
<1>1. Join!Registry = OfTopic!Registry /\ Join!Participates = OfTopic!Participates
  BY DEF Join!Registry, OfTopic!Registry, Join!Participates, OfTopic!Participates,
         Join!MotionTopics, OfTopic!MotionTopics, Join!PoseTopics, OfTopic!PoseTopics,
         Join!ControlTopics, OfTopic!ControlTopics, Join!SafetyTopics, OfTopic!SafetyTopics,
         Join!InputTopics, OfTopic!InputTopics, Join!StateTopics, OfTopic!StateTopics,
         Join!LocalizationTopics, OfTopic!LocalizationTopics,
         Join!MapTopics, OfTopic!MapTopics, Join!NavTopics, OfTopic!NavTopics,
         Join!Delivery, OfTopic!Delivery, Join!Momentary, OfTopic!Momentary,
         Join!Streamed, OfTopic!Streamed, Join!OnChange, OfTopic!OnChange,
         Join!Restated, OfTopic!Restated
<1>2. Join!BeaconInit => OfTopic!BeaconInit
  BY DEF Join!BeaconInit, OfTopic!BeaconInit, Join!Horizon, OfTopic!Horizon
<1>3. Join!JoinInit => OfTopic!JoinInit
  BY <1>1, <1>2 DEF Join!JoinInit, OfTopic!JoinInit
<1> QED BY <1>3, TopicBeaconHolds, OfTopic!JoinInitInv

LEMMA TopicSteps == OfTopic!JoinInv /\ Join!JoinNext => OfTopic!JoinInv'
<1>1. \A l : Join!Send(l) => OfTopic!Send(l)
  BY DEF Join!Send, OfTopic!Send
<1>2. Join!Producer => OfTopic!Producer
  <2>1. \A l : Join!Change(l) => OfTopic!Change(l)
    BY <1>1 DEF Join!Change, OfTopic!Change
  <2>2. \A l : Join!Restart(l) => OfTopic!Restart(l)
    BY <1>1 DEF Join!Restart, OfTopic!Restart
  <2>3. Join!Crash => OfTopic!Crash
    BY DEF Join!Crash, OfTopic!Crash
  <2> QED BY <2>1, <2>2, <2>3 DEF Join!Producer, OfTopic!Producer
<1>3. Join!SendsAgain => OfTopic!SendsAgain
  BY <1>1 DEF Join!SendsAgain, OfTopic!SendsAgain, Join!Restate, OfTopic!Restate
<1>4. Join!TimePasses => OfTopic!TimePasses
  BY DEF Join!TimePasses, OfTopic!TimePasses, Join!Tick, OfTopic!Tick,
         Join!Older, OfTopic!Older, Join!Horizon, OfTopic!Horizon
<1>5. \A i : Join!Loss(i) => OfTopic!Loss(i)
  BY DEF Join!Loss, OfTopic!Loss, Join!Lose, OfTopic!Lose, Join!RemoveAt, OfTopic!RemoveAt
<1>6. \A i : Join!Arrives(i) => OfTopic!Arrives(i)
  BY DEF Join!Arrives, OfTopic!Arrives, Join!Receive, OfTopic!Receive,
         Join!Update, OfTopic!Update, Join!RemoveAt, OfTopic!RemoveAt
<1>7. Join!JoinNext => OfTopic!JoinNext
  BY <1>2, <1>3, <1>4, <1>5, <1>6 DEF Join!JoinNext, OfTopic!JoinNext
<1> QED BY <1>7, TopicBeaconHolds, OfTopic!JoinStepInv

LEMMA TopicStutters == OfTopic!JoinInv /\ UNCHANGED <<kind, beaconOwn, topicOwn>> => OfTopic!JoinInv'
<1>1. UNCHANGED <<kind, beaconOwn, topicOwn>> => UNCHANGED OfTopic!joinVars
  BY DEF beaconOwn, topicOwn, OfTopic!joinVars, OfTopic!beaconVars
<1> QED BY <1>1, TopicBeaconHolds, OfTopic!JoinStepInv

LEMMA TopicTells == OfTopic!JoinInv => Join!JoinersCatchUp /\ Join!AgeIsHonest
<1>1. OfTopic!JoinersCatchUp => Join!JoinersCatchUp
  BY DEF Join!JoinersCatchUp, OfTopic!JoinersCatchUp
<1>2. OfTopic!AgeIsHonest => Join!AgeIsHonest
  BY DEF Join!AgeIsHonest, OfTopic!AgeIsHonest, Join!Fresh, OfTopic!Fresh,
         Join!Horizon, OfTopic!Horizon
<1> QED BY <1>1, <1>2, TopicBeaconHolds, OfTopic!TheyCatchUp, OfTopic!AgesTell

\* One question at a time: its beacon keeps its invariant while it is asked,
\* and no question becomes another.
AskedInv ==
    /\ question = "map" => OfMap!MapViewInv
    /\ question = "topic" => OfTopic!JoinInv

LEMMA AskedStarts == Init => AskedInv
BY MapStarts, TopicStarts DEF Init, AskedInv

LEMMA AskedSteps == AskedInv /\ [Next]_vars => AskedInv'
<1> SUFFICES ASSUME AskedInv, [Next]_vars PROVE AskedInv'
  OBVIOUS
<1>1. question' = question
  BY DEF Next, vars, Asking, DataNext, NodesNext
<1>2. ASSUME question = "map" PROVE OfMap!MapViewInv'
  <2>1. OfMap!MapViewInv
    BY <1>2 DEF AskedInv
  <2>2. Map!MapNext \/ UNCHANGED <<kind, beaconOwn, mapOwn>>
    BY <1>2 DEF Next, vars, Asking
  <2> QED BY <2>1, <2>2, MapSteps, MapStutters
<1>3. ASSUME question = "topic" PROVE OfTopic!JoinInv'
  <2>1. OfTopic!JoinInv
    BY <1>3 DEF AskedInv
  <2>2. Join!JoinNext \/ UNCHANGED <<kind, beaconOwn, topicOwn>>
    BY <1>3 DEF Next, vars, Asking
  <2> QED BY <2>1, <2>2, TopicSteps, TopicStutters
<1> QED BY <1>1, <1>2, <1>3 DEF AskedInv

LEMMA AskedInvariant == Spec => []AskedInv
BY AskedStarts, AskedSteps, PTL DEF Spec

\* Of the questions that MCClientReads asks: a map that is read of a reachable
\* source is the one that poses are given on, or was it a window and a delay ago
\* at most, for any ids of maps, window, delay, heartbeat and link
\* (client.py:326-348).
THEOREM MapsAreCurrent == Spec => []MapIsCurrent
<1>1. AskedInv => MapIsCurrent
  BY MapTells DEF AskedInv, MapIsCurrent
<1> QED BY <1>1, AskedInvariant, PTL

\* A subscriber of any declared topic catches up with a level, and hears no
\* event of before (topics.py:21-27, 127-135).
THEOREM SubscribersCatchUp == Spec => []JoinersCatchUp
<1>1. AskedInv => JoinersCatchUp
  BY TopicTells DEF AskedInv, JoinersCatchUp
<1> QED BY <1>1, AskedInvariant, PTL

\* And the age of what he holds tells a producer that is gone from one that has
\* nothing new to say (client.py:130-141, 776-784).
THEOREM AgesTellSilence == Spec => []AgeIsHonest
<1>1. AskedInv => AgeIsHonest
  BY TopicTells DEF AskedInv, AgeIsHonest
<1> QED BY <1>1, AskedInvariant, PTL
====
