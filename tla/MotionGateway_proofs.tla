---- MODULE MotionGateway_proofs ----
(***************************************************************************)
(* Theorems about clients that drive and the gateway between them, for any *)
(* clients, sources, ages, delays and periods: the deadman, who is at the  *)
(* wheel, and what a client knows of the decision.                         *)
(***************************************************************************)
EXTENDS MotionGateway, TLAPS

----
(* Ranks, and the source that is active.                                   *)

\* The declaration order of MovementSource, in numbers.
LEMMA RankNumbers ==
    /\ SourceNames = {"autonomous", "planner", "assisted_teleop", "controller"}
    /\ Priority("autonomous") = 0 /\ Priority("planner") = 1
    /\ Priority("assisted_teleop") = 2 /\ Priority("controller") = 3
<1>1. /\ DOMAIN Sources = 1..4
      /\ Sources[1] = "autonomous" /\ Sources[2] = "planner"
      /\ Sources[3] = "assisted_teleop" /\ Sources[4] = "controller"
  BY DEF Sources
<1>2. SourceNames = {"autonomous", "planner", "assisted_teleop", "controller"}
  <2>1. \A i : i \in 1..4 <=> i = 1 \/ i = 2 \/ i = 3 \/ i = 4
    OBVIOUS
  <2> QED BY <1>1, <2>1 DEF SourceNames
<1>3. /\ Priority("autonomous") = 0 /\ Priority("planner") = 1
      /\ Priority("assisted_teleop") = 2 /\ Priority("controller") = 3
  BY <1>1 DEF Priority
<1> QED BY <1>2, <1>3

\* Of two sources one outranks the other, and only one.
LEMMA RanksDiffer ==
    /\ Nobody \notin SourceNames
    /\ \A src, other \in SourceNames :
          /\ src # other => Outranks(src, other) \/ Outranks(other, src)
          /\ ~(Outranks(src, other) /\ Outranks(other, src))
          /\ ~Outranks(src, src)
BY RankNumbers DEF Outranks, Nobody

\* Among any sources there is one that outranks the others.
LEMMA OneIsOnTop ==
    ASSUME NEW S \in SUBSET SourceNames, S # {}
    PROVE  \E src \in S : \A other \in S \ {src} : Outranks(src, other)
<1>1. CASE "controller" \in S
  BY RankNumbers, <1>1 DEF Outranks
<1>2. CASE "controller" \notin S /\ "assisted_teleop" \in S
  BY RankNumbers, <1>2 DEF Outranks
<1>3. CASE "controller" \notin S /\ "assisted_teleop" \notin S /\ "planner" \in S
  BY RankNumbers, <1>3 DEF Outranks
<1>4. CASE "controller" \notin S /\ "assisted_teleop" \notin S /\ "planner" \notin S
  <2>1. S = {"autonomous"}
    BY RankNumbers, <1>4
  <2> QED BY <2>1
<1> QED BY <1>1, <1>2, <1>3, <1>4

\* The active source has a fresh command and outranks the others that have one.
LEMMA ActiveFacts ==
    ASSUME NEW s
    PROVE  /\ FreshSources(s) = {} => Active(s) = Nobody
           /\ FreshSources(s) # {} =>
                 /\ Active(s) \in FreshSources(s) /\ Active(s) # Nobody
                 /\ \A other \in FreshSources(s) \ {Active(s)} : Outranks(Active(s), other)
<1>1. FreshSources(s) \in SUBSET SourceNames
  BY DEF FreshSources
<1>2. FreshSources(s) = {} => Active(s) = Nobody
  BY DEF Active
<1>3. ASSUME FreshSources(s) # {}
      PROVE  /\ Active(s) \in FreshSources(s)
             /\ \A other \in FreshSources(s) \ {Active(s)} : Outranks(Active(s), other)
  <2>1. \E src \in FreshSources(s) : \A other \in FreshSources(s) \ {src} : Outranks(src, other)
    BY <1>1, <1>3, OneIsOnTop
  <2> QED BY <1>3, <2>1 DEF Active
<1> QED BY <1>1, <1>2, <1>3, RanksDiffer

\* Who is forwarded holds a fresh command of the active source.
LEMMA ForwardedFacts ==
    ASSUME NEW s, NEW c \in Client, Forwarded(s) = c
    PROVE  Active(s) \in FreshSources(s) /\ s[Active(s)].by = c
<1>1. Active(s) # Nobody /\ s[Active(s)].by = c
  BY GatewayAssumption DEF Forwarded
<1> QED BY <1>1, ActiveFacts

----
(* The inductive invariant.                                                *)

\* What the robot is told is what the gateway makes of the commands it holds.
ForwardsNow == gateway => output = [by |-> Forwarded(slot), age |-> 0]

\* The command of a source is from a client of that source.
SlotOfSource == \A src \in SourceNames : \A c \in Client : slot[src].by = c => src = SourceOf[c]

\* Who is gone is gone for no longer than his last command is old.
GoneIsCounted ==
    /\ \A c \in Client : block[c] # "crashed" => gone[c] = 0
    /\ \A c \in Client : \A src \in SourceNames :
          slot[src].by = c /\ slot[src].age <= MaxAge => gone[c] <= slot[src].age
    /\ ~gateway => \A c \in Client :
          output.by = c /\ output.age <= MaxAge => gone[c] <= MaxAge + output.age

\* How old the command of a client that drives may be: a delay, the time since
\* its last pass, and another period if that one was dropped.
Lag(c) == CommandDelay + (Period - timer[c]) + (IF missed[c] THEN Period ELSE 0)

\* While a client that was heard drives, its source has a command, and if that
\* is its own, it is a velocity.
HeardIsHeld ==
    \A c \in Client : arrived[c] =>
        /\ gateway /\ block[c] = "in"
        /\ slot[SourceOf[c]].by # Nobody /\ slot[SourceOf[c]].age <= Lag(c)
        /\ slot[SourceOf[c]].by = c => ~slot[SourceOf[c]].zero

\* What is stated late was decided just now, and what was skipped is stated
\* again in time.
StatusFollows ==
    gateway =>
        /\ decision = Active(slot) \/ reign = 0
        /\ view = decision \/ (skipped /\ reign + heartbeat <= StatusBeat)

GatewayInv ==
    GatewayTypeOK /\ ForwardsNow /\ SlotOfSource /\ GoneIsCounted /\ HeardIsHeld /\ StatusFollows

\* The numbers.
LEMMA NumberFacts ==
    /\ MaxAge \in Nat /\ CommandDelay \in Nat /\ CommandDelay <= MaxAge /\ Period \in Nat \ {0}
    /\ StatusBeat \in Nat \ {0}
    /\ GoneLimit \in Nat /\ GoneLimit = 2 * MaxAge + 1
    /\ ReignLimit \in Nat /\ ReignLimit = StatusBeat + 1
    /\ \A c \in Client : SourceOf[c] \in SourceNames
BY GatewayAssumption DEF GoneLimit, ReignLimit

LEMMA CountFacts ==
    ASSUME NEW limit \in Nat, NEW n \in 0..limit
    PROVE  Aged(n, limit) \in 0..limit /\ Aged(n, limit) <= n + 1
           /\ (Aged(n, limit) = n + 1 \/ Aged(n, limit) = limit)
BY DEF Aged

----
(* The steps.                                                              *)

LEMMA GatewayStarts == GatewayInit => GatewayInv
<1> SUFFICES ASSUME GatewayInit PROVE GatewayInv
  OBVIOUS
<1>1. FreshSources(slot) = {}
  BY DEF GatewayInit, Silent, FreshSources
<1>2. Active(slot) = Nobody /\ Forwarded(slot) = Nobody
  BY <1>1, ActiveFacts DEF Forwarded
<1>3. GatewayTypeOK
  <2>1. /\ block \in [Client -> {"out", "in", "crashed"}]
        /\ missed \in [Client -> BOOLEAN] /\ arrived \in [Client -> BOOLEAN]
        /\ decision \in SourceNames \cup {Nobody} /\ view \in SourceNames \cup {Nobody}
    BY DEF GatewayInit, NoneOfThem
  <2>2. timer \in [Client -> 0..Period] /\ gone \in [Client -> 0..GoneLimit]
        /\ heartbeat \in 0..StatusBeat /\ reign \in 0..ReignLimit
    BY NumberFacts DEF GatewayInit
  <2>3. slot \in [SourceNames -> Command]
    BY NumberFacts DEF GatewayInit, Silent, Command
  <2>4. output \in [by : Client \cup {Nobody}, age : 0..MaxAge + 1]
    BY NumberFacts DEF GatewayInit
  <2>5. gateway \in BOOLEAN
    BY DEF GatewayInit
  <2>6. skipped \in BOOLEAN
    BY DEF GatewayInit
  <2> QED BY <2>1, <2>2, <2>3, <2>4, <2>5, <2>6 DEF GatewayTypeOK
<1>4. ForwardsNow
  BY <1>2 DEF GatewayInit, ForwardsNow
<1>5. SlotOfSource
  BY GatewayAssumption DEF GatewayInit, Silent, SlotOfSource
<1>6. GoneIsCounted
  BY GatewayAssumption DEF GatewayInit, Silent, GoneIsCounted
<1>7. HeardIsHeld
  BY DEF GatewayInit, NoneOfThem, HeardIsHeld
<1>8. StatusFollows
  BY <1>2 DEF GatewayInit, StatusFollows
<1> QED BY <1>3, <1>4, <1>5, <1>6, <1>7, <1>8 DEF GatewayInv

\* Whom the gateway forwards, and the source it calls active, are some.
LEMMA DecisionType ==
    ASSUME NEW s \in [SourceNames -> Command]
    PROVE  Forwarded(s) \in Client \cup {Nobody} /\ Active(s) \in SourceNames \cup {Nobody}
<1>1. FreshSources(s) \subseteq SourceNames
  BY DEF FreshSources
<1>2. Active(s) \in SourceNames \cup {Nobody}
  BY <1>1, ActiveFacts
<1> QED BY <1>1, <1>2, ActiveFacts DEF Forwarded, Command

\* A command that is put, and arrives, is dropped, or has no gateway: a pass of
\* the pump, or the zero of a block that ends.
LEMMA PutInv ==
    ASSUME GatewayInv, NEW c \in Client, NEW zero \in BOOLEAN,
           block[c] = "in", zero \/ timer[c] = 0, Put(c, zero),
           block' = [block EXCEPT ![c] = IF zero THEN "out" ELSE "in"],
           timer' = [timer EXCEPT ![c] = IF zero THEN 0 ELSE Period]
    PROVE  GatewayInv'
<1>1. GatewayTypeOK /\ ForwardsNow /\ SlotOfSource /\ GoneIsCounted /\ HeardIsHeld /\ StatusFollows
  BY DEF GatewayInv
<1>2. UNCHANGED <<gateway, heartbeat, decision, view, skipped, gone>>
  BY DEF Put, viewVars
<1>3. /\ \A d \in Client : timer[d] \in 0..Period /\ gone[d] \in Nat
      /\ heartbeat \in 0..StatusBeat /\ reign \in 0..ReignLimit
      /\ slot \in [SourceNames -> Command]
      /\ \A src \in SourceNames : slot[src].age \in Nat
  <2>1. slot \in [SourceNames -> Command]
    BY <1>1 DEF GatewayTypeOK
  <2>2. \A src \in SourceNames : slot[src].age \in Nat
    BY <2>1, NumberFacts DEF Command
  <2>3. \A d \in Client : timer[d] \in 0..Period /\ gone[d] \in Nat
    BY <1>1, NumberFacts DEF GatewayTypeOK
  <2>4. heartbeat \in 0..StatusBeat /\ reign \in 0..ReignLimit
    BY <1>1 DEF GatewayTypeOK
  <2> QED BY <2>1, <2>2, <2>3, <2>4
<1>4. /\ block' \in [Client -> {"out", "in", "crashed"}]
      /\ block'[c] = IF zero THEN "out" ELSE "in"
      /\ \A d \in Client \ {c} : block'[d] = block[d] /\ timer'[d] = timer[d]
      /\ timer'[c] = IF zero THEN 0 ELSE Period
  BY <1>1 DEF GatewayTypeOK
<1>5. timer' \in [Client -> 0..Period]
  <2>1. (IF zero THEN 0 ELSE Period) \in 0..Period
    BY NumberFacts
  <2> QED BY <1>1, <2>1 DEF GatewayTypeOK
<1>6. gone[c] = 0 /\ \A d \in Client : block'[d] # "crashed" => gone[d] = 0
  BY <1>1, <1>4 DEF GoneIsCounted
\* What the slots hold then.
<1>7. /\ slot' \in [SourceNames -> Command]
      /\ \A src \in SourceNames :
            \/ slot'[src] = slot[src]
            \/ /\ src = SourceOf[c] /\ slot'[src].by = c /\ slot'[src].zero = zero
               /\ slot'[src].age \in 0..CommandDelay
  <2>1. CASE slot' = slot
    BY <1>3, <2>1
  <2>2. ASSUME NEW age \in 0..CommandDelay, Keep(c, zero, age)
        PROVE  <1>7!:
    <3>1. slot' = [slot EXCEPT ![SourceOf[c]] = [by |-> c, zero |-> zero, age |-> age]]
      BY <2>2 DEF Keep
    <3>2. age \in 0..MaxAge + 1
      BY NumberFacts
    <3>3. [by |-> c, zero |-> zero, age |-> age] \in Command
      BY <3>2 DEF Command
    <3> QED BY <1>3, <3>1, <3>3
  <2>3. slot' = slot \/ \E age \in 0..CommandDelay : Keep(c, zero, age)
    BY DEF Put, Arrives, Dropped
  <2> QED BY <2>1, <2>2, <2>3
\* Without a gateway nothing is heard, and nothing changes for the others.
<1>8. ASSUME ~gateway PROVE GatewayInv'
  <2>1. UNCHANGED <<missed, arrived, slot, output, reign>>
    BY <1>8 DEF Put
  <2>2. \A d \in Client : ~arrived[d]
    BY <1>1, <1>8 DEF HeardIsHeld
  <2>3. GatewayTypeOK'
    BY <1>1, <1>2, <1>4, <1>5, <2>1 DEF GatewayTypeOK
  <2>4. ForwardsNow' /\ SlotOfSource' /\ HeardIsHeld' /\ StatusFollows'
    BY <1>1, <1>2, <1>8, <2>1, <2>2 DEF ForwardsNow, SlotOfSource, HeardIsHeld, StatusFollows
  <2>5. GoneIsCounted'
    BY <1>1, <1>2, <1>6, <2>1 DEF GoneIsCounted
  <2> QED BY <2>3, <2>4, <2>5 DEF GatewayInv
<1>9. ASSUME gateway PROVE GatewayInv'
  <2>1. Decide /\ (Arrives(c, zero) \/ Dropped(c, zero))
    BY <1>9 DEF Put
  <2>2. /\ missed' \in [Client -> BOOLEAN] /\ arrived' \in [Client -> BOOLEAN]
        /\ \A d \in Client \ {c} : missed'[d] = missed[d] /\ arrived'[d] = arrived[d]
    BY <1>1, <2>1 DEF GatewayTypeOK, Arrives, Dropped
  <2>3. /\ output' = [by |-> Forwarded(slot'), age |-> 0]
        /\ reign' = IF Active(slot') = Active(slot) THEN reign ELSE 0
    BY <2>1 DEF Decide
  <2>4. GatewayTypeOK'
    <3>1. output' \in [by : Client \cup {Nobody}, age : 0..MaxAge + 1]
      <4>1. Forwarded(slot') \in Client \cup {Nobody}
        BY <1>7, DecisionType
      <4>2. 0 \in 0..MaxAge + 1
        BY NumberFacts
      <4> QED BY <2>3, <4>1, <4>2
    <3>2. reign' \in 0..ReignLimit
      BY <1>3, <2>3, NumberFacts
    <3> QED BY <1>1, <1>2, <1>4, <1>5, <1>7, <2>2, <3>1, <3>2 DEF GatewayTypeOK
  <2>5. ForwardsNow'
    BY <2>3 DEF ForwardsNow
  <2>6. SlotOfSource'
    BY <1>1, <1>7 DEF SlotOfSource
  <2>7. GoneIsCounted'
    <3>1. ASSUME NEW d \in Client, NEW src \in SourceNames, slot'[src].by = d,
                 slot'[src].age <= MaxAge
          PROVE  gone[d] <= slot'[src].age
      <4>1. CASE slot'[src] = slot[src]
        BY <1>1, <3>1, <4>1 DEF GoneIsCounted
      <4>2. CASE slot'[src].by = c /\ slot'[src].age \in 0..CommandDelay
        BY <1>6, <3>1, <4>2, NumberFacts
      <4> QED BY <1>7, <4>1, <4>2
    <3> QED BY <1>2, <1>6, <1>9, <3>1 DEF GoneIsCounted
  <2>8. HeardIsHeld'
    <3>1. ASSUME NEW d \in Client \ {c}, arrived'[d]
          PROVE  /\ gateway' /\ block'[d] = "in"
                 /\ slot'[SourceOf[d]].by # Nobody /\ slot'[SourceOf[d]].age <= Lag(d)'
                 /\ slot'[SourceOf[d]].by = d => ~slot'[SourceOf[d]].zero
      <4>1. /\ arrived[d] /\ block'[d] = block[d] /\ SourceOf[d] \in SourceNames
            /\ timer'[d] = timer[d] /\ missed'[d] = missed[d] /\ timer[d] \in 0..Period
        BY <1>3, <1>4, <2>2, <3>1, NumberFacts
      <4>2. Lag(d)' = Lag(d) /\ Lag(d) \in Int /\ CommandDelay <= Lag(d)
        <5>1. Lag(d)' = Lag(d)
          BY <4>1 DEF Lag
        <5>2. Lag(d) \in Int /\ CommandDelay <= Lag(d)
          BY <4>1, NumberFacts DEF Lag
        <5> QED BY <5>1, <5>2
      <4>3. /\ block[d] = "in" /\ slot[SourceOf[d]].by # Nobody /\ slot[SourceOf[d]].age <= Lag(d)
            /\ slot[SourceOf[d]].by = d => ~slot[SourceOf[d]].zero
        BY <1>1, <4>1 DEF HeardIsHeld
      <4>4. CASE slot'[SourceOf[d]] = slot[SourceOf[d]]
        BY <1>2, <1>9, <4>1, <4>2, <4>3, <4>4
      <4>5. CASE slot'[SourceOf[d]].by = c /\ slot'[SourceOf[d]].age \in 0..CommandDelay
        <5>1. slot'[SourceOf[d]].age <= Lag(d)
          BY <4>2, <4>5, NumberFacts
        <5> QED BY <1>2, <1>9, <4>1, <4>2, <4>3, <4>5, <5>1, GatewayAssumption
      <4> QED BY <1>7, <4>1, <4>4, <4>5
    <3>2. ASSUME arrived'[c]
          PROVE  /\ gateway' /\ block'[c] = "in"
                 /\ slot'[SourceOf[c]].by # Nobody /\ slot'[SourceOf[c]].age <= Lag(c)'
                 /\ slot'[SourceOf[c]].by = c => ~slot'[SourceOf[c]].zero
      <4>1. ~zero /\ (arrived[c] \/ Arrives(c, zero))
        BY <1>1, <2>1, <3>2 DEF GatewayTypeOK, Arrives, Dropped
      <4>2. timer[c] = 0 /\ timer'[c] = Period /\ block'[c] = "in" /\ SourceOf[c] \in SourceNames
        BY <1>4, <4>1, NumberFacts
      <4>3. CASE Arrives(c, zero)
        <5>1. PICK age \in 0..CommandDelay :
                  slot' = [slot EXCEPT ![SourceOf[c]] = [by |-> c, zero |-> zero, age |-> age]]
          BY <4>3 DEF Arrives, Keep
        <5>2. slot'[SourceOf[c]] = [by |-> c, zero |-> zero, age |-> age]
          BY <1>3, <4>2, <5>1
        <5>3. missed'[c] = FALSE
          BY <1>1, <4>3 DEF Arrives, GatewayTypeOK
        <5>4. Lag(c)' = CommandDelay + (Period - Period) + 0
          BY <4>2, <5>3 DEF Lag
        <5>5. slot'[SourceOf[c]].age <= Lag(c)'
          BY <5>2, <5>4, NumberFacts
        <5> QED BY <1>2, <1>9, <4>1, <4>2, <5>2, <5>5, GatewayAssumption
      <4>4. CASE Dropped(c, zero)
        <5>1. slot' = slot /\ ~missed[c] /\ missed'[c] = TRUE /\ arrived[c]
          BY <1>1, <3>2, <4>4 DEF Dropped, GatewayTypeOK
        <5>2. Lag(c)' = CommandDelay + (Period - Period) + Period
          BY <4>2, <5>1 DEF Lag
        <5>3. Lag(c) = CommandDelay + (Period - 0) + 0
          BY <4>2, <5>1 DEF Lag
        <5>4. Lag(c)' = Lag(c)
          BY <5>2, <5>3, NumberFacts
        <5> QED BY <1>1, <1>2, <1>9, <4>2, <5>1, <5>4 DEF HeardIsHeld
      <4> QED BY <2>1, <4>3, <4>4
    <3> QED BY <3>1, <3>2 DEF HeardIsHeld
  <2>9. StatusFollows'
    <3>1. decision = Active(slot) \/ reign = 0
      BY <1>1, <1>9 DEF StatusFollows
    <3>2. view = decision \/ (skipped /\ reign + heartbeat <= StatusBeat)
      BY <1>1, <1>9 DEF StatusFollows
    <3>3. reign' = reign \/ (reign' = 0 /\ 0 + heartbeat <= StatusBeat)
      BY <1>3, <2>3, NumberFacts
    <3>4. decision = Active(slot') \/ reign' = 0
      BY <2>3, <3>1
    <3>5. view = decision \/ (skipped /\ reign' + heartbeat <= StatusBeat)
      BY <3>2, <3>3
    <3> QED BY <1>2, <3>4, <3>5 DEF StatusFollows
  <2> QED BY <2>4, <2>5, <2>6, <2>7, <2>8, <2>9 DEF GatewayInv
<1> QED BY <1>8, <1>9

\* A block that starts was not heard yet.
LEMMA EnterInv == ASSUME GatewayInv, NEW c \in Client, Enter(c) PROVE GatewayInv'
<1>1. GatewayTypeOK /\ ForwardsNow /\ SlotOfSource /\ GoneIsCounted /\ HeardIsHeld /\ StatusFollows
  BY DEF GatewayInv
<1>2. /\ block[c] = "out" /\ block' = [block EXCEPT ![c] = "in"]
      /\ timer' = [timer EXCEPT ![c] = 0]
      /\ UNCHANGED <<missed, arrived, slot, gateway, heartbeat, decision, output, view, skipped, gone, reign>>
  BY DEF Enter, gatewayVars, viewVars, ghosts
<1>3. ~arrived[c]
  BY <1>1, <1>2 DEF HeardIsHeld
<1>4. timer' \in [Client -> 0..Period] /\ block' \in [Client -> {"out", "in", "crashed"}]
  BY <1>1, <1>2, NumberFacts DEF GatewayTypeOK
<1>5. GatewayTypeOK'
  BY <1>1, <1>2, <1>4 DEF GatewayTypeOK
<1>6. ForwardsNow' /\ SlotOfSource' /\ StatusFollows'
  BY <1>1, <1>2 DEF ForwardsNow, SlotOfSource, StatusFollows
<1>7. GoneIsCounted'
  <2>1. \A d \in Client : block'[d] # "crashed" => block[d] # "crashed"
    BY <1>1, <1>2 DEF GatewayTypeOK
  <2> QED BY <1>1, <1>2, <2>1 DEF GoneIsCounted
<1>8. HeardIsHeld'
  <2>1. \A d \in Client : arrived'[d] => d # c /\ block'[d] = block[d] /\ Lag(d)' = Lag(d)
    BY <1>1, <1>2, <1>3 DEF GatewayTypeOK, Lag
  <2> QED BY <1>1, <1>2, <2>1 DEF HeardIsHeld
<1> QED BY <1>5, <1>6, <1>7, <1>8 DEF GatewayInv

\* Who crashes is gone from then on.
LEMMA CrashClientInv == ASSUME GatewayInv, NEW c \in Client, CrashClient(c) PROVE GatewayInv'
<1>1. GatewayTypeOK /\ ForwardsNow /\ SlotOfSource /\ GoneIsCounted /\ HeardIsHeld /\ StatusFollows
  BY DEF GatewayInv
<1>2. /\ block[c] = "in" /\ block' = [block EXCEPT ![c] = "crashed"]
      /\ timer' = [timer EXCEPT ![c] = 0] /\ arrived' = [arrived EXCEPT ![c] = FALSE]
      /\ UNCHANGED <<missed, slot, gateway, heartbeat, decision, output, view, skipped, gone, reign>>
  BY DEF CrashClient, gatewayVars, viewVars, ghosts
<1>3. /\ timer' \in [Client -> 0..Period]
      /\ block' \in [Client -> {"out", "in", "crashed"}]
  BY <1>1, <1>2, NumberFacts DEF GatewayTypeOK
<1>4. arrived' \in [Client -> BOOLEAN]
  BY <1>1, <1>2 DEF GatewayTypeOK
<1>5. GatewayTypeOK'
  BY <1>1, <1>2, <1>3, <1>4 DEF GatewayTypeOK
<1>6. ForwardsNow' /\ SlotOfSource' /\ StatusFollows'
  BY <1>1, <1>2 DEF ForwardsNow, SlotOfSource, StatusFollows
<1>7. GoneIsCounted'
  <2>1. \A d \in Client : block'[d] # "crashed" => block[d] # "crashed"
    BY <1>1, <1>2 DEF GatewayTypeOK
  <2> QED BY <1>1, <1>2, <2>1 DEF GoneIsCounted
<1>8. HeardIsHeld'
  <2>1. \A d \in Client : arrived'[d] => arrived[d] /\ block'[d] = block[d] /\ Lag(d)' = Lag(d)
    BY <1>1, <1>2 DEF GatewayTypeOK, Lag
  <2> QED BY <1>1, <1>2, <2>1 DEF HeardIsHeld
<1> QED BY <1>5, <1>6, <1>7, <1>8 DEF GatewayInv

\* What is skipped now is stated again a heartbeat from now.
LEMMA StateInv == ASSUME GatewayInv, State PROVE GatewayInv'
<1>1. GatewayTypeOK /\ ForwardsNow /\ SlotOfSource /\ GoneIsCounted /\ HeardIsHeld /\ StatusFollows
  BY DEF GatewayInv
<1>2. /\ gateway /\ (decision # Active(slot) \/ heartbeat = 0)
      /\ decision' = Active(slot) /\ heartbeat' = StatusBeat
      /\ \/ view' = Active(slot) /\ skipped' = FALSE
         \/ ~skipped /\ skipped' = TRUE /\ UNCHANGED view
      /\ UNCHANGED <<block, timer, missed, arrived, slot, gateway, output, gone, reign>>
  BY DEF State, driveVars, ghosts
<1>3. Active(slot) \in SourceNames \cup {Nobody}
  BY <1>1, DecisionType DEF GatewayTypeOK
<1>4. GatewayTypeOK'
  <2>1. heartbeat' \in 0..StatusBeat
    BY <1>2, NumberFacts
  <2>2. skipped' \in BOOLEAN
    BY <1>2
  <2>3. decision' \in SourceNames \cup {Nobody} /\ view' \in SourceNames \cup {Nobody}
    BY <1>1, <1>2, <1>3 DEF GatewayTypeOK
  <2> QED BY <1>1, <1>2, <2>1, <2>2, <2>3 DEF GatewayTypeOK
<1>5. ForwardsNow' /\ SlotOfSource' /\ GoneIsCounted'
  BY <1>1, <1>2 DEF ForwardsNow, SlotOfSource, GoneIsCounted
<1>6. HeardIsHeld'
  BY <1>1, <1>2 DEF HeardIsHeld, Lag
<1>7. StatusFollows'
  <2>1. view' = decision' \/ (skipped' /\ reign' + heartbeat' <= StatusBeat)
    <3>1. CASE view' = Active(slot) /\ skipped' = FALSE
      BY <1>2, <3>1
    <3>2. CASE ~skipped /\ skipped' = TRUE /\ UNCHANGED view
      <4>1. view = decision
        BY <1>1, <1>2, <3>2 DEF StatusFollows
      <4>2. CASE decision = Active(slot)
        BY <1>2, <3>2, <4>1, <4>2
      <4>3. CASE decision # Active(slot)
        <5>1. reign = 0
          BY <1>1, <1>2, <4>3 DEF StatusFollows
        <5>2. reign' + heartbeat' <= StatusBeat
          BY <1>2, <5>1, NumberFacts
        <5> QED BY <3>2, <5>2
      <4> QED BY <4>2, <4>3
    <3> QED BY <1>2, <3>1, <3>2
  <2> QED BY <1>2, <2>1 DEF StatusFollows
<1> QED BY <1>4, <1>5, <1>6, <1>7 DEF GatewayInv

\* The robot goes on with what it was told last, which was fresh.
LEMMA CrashGatewayInv == ASSUME GatewayInv, CrashGateway PROVE GatewayInv'
<1>1. GatewayTypeOK /\ ForwardsNow /\ SlotOfSource /\ GoneIsCounted /\ HeardIsHeld /\ StatusFollows
  BY DEF GatewayInv
<1>2. /\ gateway /\ gateway' = FALSE
      /\ slot' = Silent /\ missed' = NoneOfThem /\ arrived' = NoneOfThem
      /\ heartbeat' = 0 /\ decision' = Nobody /\ reign' = 0
      /\ UNCHANGED <<block, timer, output, view, skipped, gone>>
  BY DEF CrashGateway, viewVars
<1>3. GatewayTypeOK'
  <2>1. missed' \in [Client -> BOOLEAN] /\ arrived' \in [Client -> BOOLEAN]
    BY <1>2 DEF NoneOfThem
  <2>2. slot' \in [SourceNames -> Command]
    BY <1>2, NumberFacts DEF Silent, Command
  <2>3. heartbeat' \in 0..StatusBeat /\ reign' \in 0..ReignLimit
    BY <1>2, NumberFacts
  <2>4. gateway' \in BOOLEAN
    BY <1>2
  <2>5. decision' \in SourceNames \cup {Nobody}
    BY <1>2
  <2> QED BY <1>1, <1>2, <2>1, <2>2, <2>3, <2>4, <2>5 DEF GatewayTypeOK
<1>4. ForwardsNow' /\ StatusFollows'
  BY <1>2 DEF ForwardsNow, StatusFollows
<1>5. HeardIsHeld'
  BY <1>2 DEF HeardIsHeld, NoneOfThem
<1>6. SlotOfSource'
  BY <1>2, GatewayAssumption DEF Silent, SlotOfSource
<1>7. GoneIsCounted'
  <2>1. ASSUME NEW d \in Client, output.by = d PROVE gone[d] <= MaxAge + output.age
    <3>1. output.age = 0 /\ Forwarded(slot) = d
      BY <1>1, <1>2, <2>1 DEF ForwardsNow
    <3>2. /\ Active(slot) \in SourceNames /\ slot[Active(slot)].by = d
          /\ slot[Active(slot)].age <= MaxAge
      BY <3>1, ForwardedFacts DEF FreshSources, FreshCommand
    <3>3. gone[d] <= slot[Active(slot)].age
      BY <1>1, <3>2 DEF GoneIsCounted
    <3>4. gone[d] \in Nat /\ slot[Active(slot)].age \in Nat
      BY <1>1, <3>2, NumberFacts DEF GatewayTypeOK, Command
    <3> QED BY <3>1, <3>2, <3>3, <3>4, NumberFacts
  <2>2. \A src \in SourceNames : slot'[src].by \notin Client
    BY <1>2, GatewayAssumption DEF Silent
  <2> QED BY <1>1, <1>2, <2>1, <2>2 DEF GoneIsCounted
<1> QED BY <1>3, <1>4, <1>5, <1>6, <1>7 DEF GatewayInv

\* Everything gets older together.
LEMMA TickInv == ASSUME GatewayInv, GatewayTick PROVE GatewayInv'
<1>1. GatewayTypeOK /\ ForwardsNow /\ SlotOfSource /\ GoneIsCounted /\ HeardIsHeld /\ StatusFollows
  BY DEF GatewayInv
<1>2. /\ \A c \in Client : block[c] = "in" => timer[c] > 0
      /\ gateway => decision = Active(slot) /\ heartbeat > 0
      /\ timer' = [c \in Client |-> IF timer[c] = 0 THEN 0 ELSE timer[c] - 1]
      /\ slot' = [src \in SourceNames |-> [slot[src] EXCEPT !.age = Aged(@, MaxAge + 1)]]
      /\ heartbeat' = IF gateway THEN heartbeat - 1 ELSE 0
      /\ output' = IF gateway THEN [by |-> Forwarded(slot'), age |-> 0]
                   ELSE [output EXCEPT !.age = Aged(@, MaxAge + 1)]
      /\ gone' = [c \in Client |-> IF block[c] = "crashed" THEN Aged(gone[c], GoneLimit) ELSE 0]
      /\ reign' = IF gateway /\ Active(slot') = Active(slot) THEN Aged(reign, ReignLimit) ELSE 0
      /\ UNCHANGED <<block, missed, arrived, gateway, decision, view, skipped>>
  BY DEF GatewayTick, viewVars
<1>3. /\ slot \in [SourceNames -> Command]
      /\ \A src \in SourceNames : slot[src].age \in 0..MaxAge + 1 /\ slot[src].age \in Nat
  BY <1>1, NumberFacts DEF GatewayTypeOK, Command
<1>4. /\ \A c \in Client : timer[c] \in 0..Period /\ timer[c] \in Nat
      /\ \A c \in Client : gone[c] \in 0..GoneLimit /\ gone[c] \in Nat
      /\ heartbeat \in 0..StatusBeat /\ reign \in 0..ReignLimit
      /\ output.age \in 0..MaxAge + 1 /\ MaxAge + 1 \in Nat
  BY <1>1, NumberFacts DEF GatewayTypeOK
<1>5. /\ slot' \in [SourceNames -> Command]
      /\ \A src \in SourceNames : /\ slot'[src].by = slot[src].by /\ slot'[src].zero = slot[src].zero
                                  /\ slot'[src].age = Aged(slot[src].age, MaxAge + 1)
  <2>1. \A src \in SourceNames : Aged(slot[src].age, MaxAge + 1) \in 0..MaxAge + 1
    BY <1>3, <1>4, CountFacts
  <2> QED BY <1>2, <1>3, <2>1 DEF Command
<1>older. \A n \in 0..MaxAge + 1 : /\ Aged(n, MaxAge + 1) \in Nat /\ Aged(n, MaxAge + 1) <= n + 1
                                   /\ Aged(n, MaxAge + 1) <= MaxAge => Aged(n, MaxAge + 1) = n + 1
  <2> SUFFICES ASSUME NEW n \in 0..MaxAge + 1
               PROVE  /\ Aged(n, MaxAge + 1) \in Nat /\ Aged(n, MaxAge + 1) <= n + 1
                      /\ Aged(n, MaxAge + 1) <= MaxAge => Aged(n, MaxAge + 1) = n + 1
    OBVIOUS
  <2>1. /\ Aged(n, MaxAge + 1) \in 0..MaxAge + 1 /\ Aged(n, MaxAge + 1) <= n + 1
        /\ Aged(n, MaxAge + 1) = n + 1 \/ Aged(n, MaxAge + 1) = MaxAge + 1
    BY <1>4, CountFacts
  <2> QED BY <2>1, NumberFacts
<1>6. \A c \in Client : gone'[c] \in 0..GoneLimit /\ (gone'[c] = 0 \/ gone'[c] <= gone[c] + 1)
  BY <1>2, <1>4, CountFacts, NumberFacts
<1>7. GatewayTypeOK'
  <2>1. timer' \in [Client -> 0..Period]
    <3>1. \A c \in Client : (IF timer[c] = 0 THEN 0 ELSE timer[c] - 1) \in 0..Period
      BY <1>4, NumberFacts
    <3> QED BY <1>2, <3>1
  <2>2. gone' \in [Client -> 0..GoneLimit]
    BY <1>2, <1>6
  <2>3. heartbeat' \in 0..StatusBeat
    BY <1>2, <1>4, NumberFacts
  <2>4. reign' \in 0..ReignLimit
    BY <1>2, <1>4, CountFacts, NumberFacts
  <2>5. output' \in [by : Client \cup {Nobody}, age : 0..MaxAge + 1]
    <3>1. CASE gateway
      <4>1. Forwarded(slot') \in Client \cup {Nobody} /\ 0 \in 0..MaxAge + 1
        BY <1>4, <1>5, DecisionType
      <4> QED BY <1>2, <3>1, <4>1
    <3>2. CASE ~gateway
      <4>1. Aged(output.age, MaxAge + 1) \in 0..MaxAge + 1
        BY <1>4, CountFacts
      <4> QED BY <1>1, <1>2, <3>2, <4>1 DEF GatewayTypeOK
    <3> QED BY <3>1, <3>2
  <2> QED BY <1>1, <1>2, <1>5, <2>1, <2>2, <2>3, <2>4, <2>5 DEF GatewayTypeOK
<1>8. ForwardsNow'
  BY <1>2 DEF ForwardsNow
<1>9. SlotOfSource'
  BY <1>1, <1>5 DEF SlotOfSource
<1>10. GoneIsCounted'
  <2>1. \A c \in Client : block'[c] # "crashed" => gone'[c] = 0
    BY <1>2
  <2>2. ASSUME NEW c \in Client, NEW src \in SourceNames, slot'[src].by = c, slot'[src].age <= MaxAge
        PROVE  gone'[c] <= slot'[src].age
    <3>1. slot'[src].age = slot[src].age + 1
      BY <1>3, <1>5, <1>older, <2>2
    <3>2. slot[src].age <= MaxAge /\ slot[src].by = c
      BY <1>3, <1>5, <2>2, <3>1, NumberFacts
    <3>3. gone[c] <= slot[src].age
      BY <1>1, <3>2 DEF GoneIsCounted
    <3> QED BY <1>3, <1>4, <1>6, <3>1, <3>3
  <2>3. ASSUME ~gateway', NEW c \in Client, output'.by = c, output'.age <= MaxAge
        PROVE  gone'[c] <= MaxAge + output'.age
    <3>1. output'.by = output.by /\ output'.age = Aged(output.age, MaxAge + 1)
      BY <1>1, <1>2, <2>3 DEF GatewayTypeOK
    <3>2. output'.age = output.age + 1
      BY <1>4, <1>older, <2>3, <3>1
    <3>3. output.age \in Nat
      BY <1>4
    <3>4. gone[c] <= MaxAge + output.age
      BY <1>1, <1>2, <2>3, <3>1, <3>2, <3>3, NumberFacts DEF GoneIsCounted
    <3> QED BY <1>4, <1>6, <3>2, <3>3, <3>4, NumberFacts
  <2> QED BY <2>1, <2>2, <2>3 DEF GoneIsCounted
<1>11. HeardIsHeld'
  <2>1. ASSUME NEW c \in Client, arrived'[c]
        PROVE  slot'[SourceOf[c]].age <= Lag(c)'
    <3>1. /\ arrived[c] /\ block[c] = "in" /\ timer[c] > 0 /\ SourceOf[c] \in SourceNames
          /\ slot[SourceOf[c]].age <= Lag(c)
      BY <1>1, <1>2, <2>1, NumberFacts DEF HeardIsHeld
    <3>2. timer'[c] = timer[c] - 1 /\ missed'[c] = missed[c]
      BY <1>2, <1>4, <3>1
    <3>3. PICK slack \in Nat : slack = IF missed[c] THEN Period ELSE 0
      BY NumberFacts
    <3>4. Lag(c) = CommandDelay + (Period - timer[c]) + slack
      BY <3>3 DEF Lag
    <3>5. Lag(c)' = CommandDelay + (Period - (timer[c] - 1)) + slack
      BY <3>2, <3>3 DEF Lag
    <3>6. slot'[SourceOf[c]].age <= slot[SourceOf[c]].age + 1 /\ slot'[SourceOf[c]].age \in Int
      BY <1>3, <1>5, <1>older, <3>1
    <3> QED BY <1>3, <1>4, <3>1, <3>4, <3>5, <3>6, NumberFacts
  <2> QED BY <1>1, <1>2, <1>5, <2>1, NumberFacts DEF HeardIsHeld
<1>12. StatusFollows'
  <2>1. SUFFICES ASSUME gateway
                 PROVE  /\ decision = Active(slot') \/ reign' = 0
                        /\ view = decision \/ (skipped /\ reign' + heartbeat' <= StatusBeat)
    BY <1>2 DEF StatusFollows
  <2>2. decision = Active(slot) /\ heartbeat > 0 /\ heartbeat' = heartbeat - 1
    BY <1>2, <2>1
  <2>3. decision = Active(slot') \/ reign' = 0
    BY <1>2, <2>2
  <2>4. reign' + heartbeat' <= reign + heartbeat \/ (reign' = 0 /\ reign' + heartbeat' <= StatusBeat)
    BY <1>2, <1>4, <2>2, CountFacts, NumberFacts
  <2>5. reign' + heartbeat' \in Int /\ reign + heartbeat \in Int
    BY <1>2, <1>4, <2>2, CountFacts, NumberFacts
  <2>6. reign + heartbeat <= StatusBeat => reign' + heartbeat' <= StatusBeat
    BY <2>4, <2>5, NumberFacts
  <2>7. view = decision \/ (skipped /\ reign + heartbeat <= StatusBeat)
    BY <1>1, <2>1 DEF StatusFollows
  <2> QED BY <2>3, <2>6, <2>7
<1> QED BY <1>7, <1>8, <1>9, <1>10, <1>11, <1>12 DEF GatewayInv

LEMMA GatewayStep == GatewayInv /\ [GatewayNext]_wheelVars => GatewayInv'
<1> SUFFICES ASSUME GatewayInv, [GatewayNext]_wheelVars PROVE GatewayInv'
  OBVIOUS
<1>1. block \in [Client -> {"out", "in", "crashed"}] /\ timer \in [Client -> 0..Period]
  BY DEF GatewayInv, GatewayTypeOK
<1>2. ASSUME NEW c \in Client, Pump(c) PROVE GatewayInv'
  <2>1. /\ block[c] = "in" /\ timer[c] = 0 /\ Put(c, FALSE)
        /\ block' = [block EXCEPT ![c] = "in"] /\ timer' = [timer EXCEPT ![c] = Period]
    BY <1>1, <1>2 DEF Pump
  <2> QED BY <2>1, PutInv
<1>3. ASSUME NEW c \in Client, Leave(c) PROVE GatewayInv'
  BY <1>3, PutInv DEF Leave
<1>4. CASE UNCHANGED wheelVars
  BY <1>4 DEF wheelVars, driveVars, gatewayVars, viewVars, ghosts, GatewayInv, GatewayTypeOK, ForwardsNow,
              SlotOfSource, GoneIsCounted, HeardIsHeld, Lag, StatusFollows
<1> QED BY <1>2, <1>3, <1>4, EnterInv, CrashClientInv, StateInv, CrashGatewayInv, TickInv DEF GatewayNext

THEOREM GatewayInvariant == GatewaySpec => []GatewayInv
BY GatewayStarts, GatewayStep, PTL DEF GatewaySpec

----
(* The theorems.                                                           *)

\* The deadman: whom the robot follows is gone for one span of
\* COMMAND_MAX_AGE at most, and for a second one without a gateway.
THEOREM DeadmanHolds == GatewaySpec => []Deadman
<1>1. GatewayInv => Deadman
  <2> SUFFICES ASSUME GatewayInv, NEW c \in Client, Driven = c
               PROVE  gone[c] <= (IF gateway THEN MaxAge ELSE 2 * MaxAge)
    BY DEF Deadman
  <2>1. output.by = c /\ output.age <= MaxAge
    BY GatewayAssumption DEF Driven, FreshCommand
  <2>2. gone[c] \in Nat /\ output.age \in Nat
    BY NumberFacts DEF GatewayInv, GatewayTypeOK
  <2>3. CASE gateway
    <3>1. Forwarded(slot) = c
      BY <2>1, <2>3 DEF GatewayInv, ForwardsNow
    <3>2. /\ Active(slot) \in SourceNames /\ slot[Active(slot)].by = c
          /\ slot[Active(slot)].age <= MaxAge
      BY <3>1, ForwardedFacts DEF FreshSources, FreshCommand
    <3>3. gone[c] <= slot[Active(slot)].age
      BY <3>2 DEF GatewayInv, GoneIsCounted
    <3>4. slot[Active(slot)].age \in Nat
      BY <3>2, NumberFacts DEF GatewayInv, GatewayTypeOK, Command
    <3> QED BY <2>2, <2>3, <3>2, <3>3, <3>4, NumberFacts
  <2>4. CASE ~gateway
    <3>1. gone[c] <= MaxAge + output.age
      BY <2>1, <2>4 DEF GatewayInv, GoneIsCounted
    <3> QED BY <2>1, <2>2, <2>4, <3>1, NumberFacts
  <2> QED BY <2>3, <2>4
<1> QED BY <1>1, GatewayInvariant, PTL

\* Nobody stays at the wheel by being lower, and a dropped command makes no
\* gap, if a command outlives two periods and a delay: with COMMAND_MAX_AGE =
\* 0.3 s and DRIVE_RATE_HZ = 10, for delays up to a period.
THEOREM WheelIsKept ==
    ASSUME CommandDelay + 2 * Period <= MaxAge PROVE GatewaySpec => []DriverKeepsWheel
<1>1. GatewayInv => DriverKeepsWheel
  <2> SUFFICES ASSUME GatewayInv, NEW c \in Client, gateway, arrived[c], block[c] = "in",
                      ~ \E src \in FreshSources(slot) :
                            slot[src].by # c /\ ~Outranks(SourceOf[c], src)
               PROVE  Driven = c
    BY DEF DriverKeepsWheel
  <2> DEFINE own == SourceOf[c]
  <2>1. /\ own \in SourceNames /\ slot[own].by # Nobody /\ slot[own].age <= Lag(c)
        /\ slot[own].by = c => ~slot[own].zero
    BY NumberFacts DEF GatewayInv, HeardIsHeld
  <2>2. Lag(c) <= MaxAge /\ Lag(c) \in Int
    <3>1. timer[c] \in 0..Period
      BY DEF GatewayInv, GatewayTypeOK
    <3> QED BY <3>1, NumberFacts DEF Lag
  <2>3. slot[own].age \in Nat
    BY <2>1, NumberFacts DEF GatewayInv, GatewayTypeOK, Command
  <2>4. own \in FreshSources(slot)
    BY <2>1, <2>2, <2>3, NumberFacts DEF FreshSources, FreshCommand
  <2>5. slot[own].by = c
    BY <2>1, <2>4, RanksDiffer
  <2>6. Active(slot) = own
    <3>1. Active(slot) \in FreshSources(slot) /\ Active(slot) \in SourceNames
          /\ (Active(slot) # own => Outranks(Active(slot), own))
      BY <2>4, ActiveFacts DEF FreshSources
    <3>2. SUFFICES ASSUME Active(slot) # own PROVE FALSE
      OBVIOUS
    <3>3. ~Outranks(own, Active(slot))
      BY <2>1, <3>1, <3>2, RanksDiffer
    <3>4. slot[Active(slot)].by # c
      BY <3>1, <3>2 DEF GatewayInv, SlotOfSource
    <3> QED BY <3>1, <3>3, <3>4
  <2>7. output = [by |-> c, age |-> 0]
    BY <2>1, <2>5, <2>6, RanksDiffer DEF GatewayInv, ForwardsNow, Forwarded
  <2> QED BY <2>7, NumberFacts DEF Driven, FreshCommand
<1> QED BY <1>1, GatewayInvariant, PTL

\* A decision that has stood for a heartbeat is what a client reads, though its
\* first statement was lost.
THEOREM DecisionGetsKnown == GatewaySpec => []DecisionIsKnown
<1>1. GatewayInv => DecisionIsKnown
  <2> SUFFICES ASSUME GatewayInv, gateway, reign = ReignLimit PROVE view = Active(slot)
    BY DEF DecisionIsKnown, ReadsDriving, ReadsPreempted
  <2>1. heartbeat \in Nat
    BY NumberFacts DEF GatewayInv, GatewayTypeOK
  <2>2. reign # 0 /\ ~(reign + heartbeat <= StatusBeat)
    BY <2>1, NumberFacts
  <2> QED BY <2>2 DEF GatewayInv, StatusFollows
<1> QED BY <1>1, GatewayInvariant, PTL
====
