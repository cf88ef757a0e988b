---- MODULE Beacon_proofs ----
(***************************************************************************)
(* What a client may rely on of a level that is published on changes and   *)
(* heartbeats, for any beat, delay, window and link: that silence is not   *)
(* taken for permission, that a map that is long gone is not read on, that *)
(* a late joiner catches up and that ages are honest.                      *)
(***************************************************************************)
EXTENDS SafetyView, MapView, LateJoin, SequenceTheorems, TLAPS

----
(* The beacon: what its steps do to the messages under way.                *)

Message == [level : Level, age : 0..MaxDelay]

\* What is removed leaves the order of the others.
LEMMA Removal ==
    ASSUME NEW S, NEW s \in Seq(S), NEW i \in 1..Len(s)
    PROVE  /\ RemoveAt(s, i) \in Seq(S)
           /\ Len(RemoveAt(s, i)) = Len(s) - 1
           /\ \A j \in 1..Len(s) - 1 : RemoveAt(s, i)[j] = s[IF j < i THEN j ELSE j + 1]
<1> DEFINE front == SubSeq(s, 1, i - 1)
           back  == SubSeq(s, i + 1, Len(s))
<1>1. Len(s) \in Nat /\ i \in Nat /\ \A j \in 1..Len(s) : s[j] \in S
  BY LenProperties, ElementOfSeq
<1>2. /\ front \in Seq(S) /\ Len(front) = i - 1
      /\ \A j \in 1..i - 1 : front[j] = s[j]
  BY <1>1
<1>3. /\ back \in Seq(S) /\ Len(back) = Len(s) - i
      /\ \A j \in 1..Len(s) - i : back[j] = s[j + i]
  BY <1>1
<1>4. RemoveAt(s, i) = front \o back
  BY DEF RemoveAt
<1> HIDE DEF front, back
<1>5. /\ front \o back \in Seq(S)
      /\ Len(front \o back) = Len(s) - 1
      /\ \A j \in 1..Len(s) - 1 :
            (front \o back)[j] = IF j <= i - 1 THEN front[j] ELSE back[j - (i - 1)]
  <2>1. /\ front \o back \in Seq(S)
        /\ Len(front \o back) = Len(front) + Len(back)
        /\ \A j \in 1..Len(front) + Len(back) :
              (front \o back)[j] = IF j <= Len(front) THEN front[j] ELSE back[j - Len(front)]
    BY <1>2, <1>3, ConcatProperties
  <2>2. Len(front) = i - 1 /\ Len(front) + Len(back) = Len(s) - 1
    BY <1>1, <1>2, <1>3
  <2> QED BY <2>1, <2>2
<1>6. ASSUME NEW j \in 1..Len(s) - 1
      PROVE  (front \o back)[j] = s[IF j < i THEN j ELSE j + 1]
  <2>1. CASE j < i
    BY <1>1, <1>2, <1>5, <2>1
  <2>2. CASE ~(j < i)
    <3>1. j - (i - 1) \in 1..Len(s) - i /\ (j - (i - 1)) + i = j + 1
      BY <1>1, <2>2
    <3>2. (front \o back)[j] = s[(j - (i - 1)) + i]
      BY <1>1, <1>3, <1>5, <2>2, <3>1
    <3> QED BY <2>2, <3>1, <3>2
  <2> QED BY <2>1, <2>2
<1> QED BY <1>4, <1>5, <1>6

\* What is known of the link and of the Latest.
LEMMA LinkFacts ==
    ASSUME BeaconTypeOK
    PROVE  /\ link \in Seq(Message) /\ Len(link) \in Nat /\ DOMAIN link = 1..Len(link)
           /\ Len(link) <= LinkSize /\ LinkSize \in Nat
           /\ Horizon \in Nat /\ Horizon = Within + MaxDelay + 1 /\ MaxDelay \in Nat
           /\ Within \in Nat /\ Beat \in Nat /\ due \in 0..Beat /\ due \in Nat
           /\ latest.age \in 0..Horizon /\ latest.age \in Nat
           /\ \A i \in DOMAIN link :
                 link[i].level \in Level /\ link[i].age \in 0..MaxDelay /\ link[i].age \in Nat
<1>1. link \in Seq(Message)
  BY DEF BeaconTypeOK, Message
<1>2. Len(link) \in Nat /\ DOMAIN link = 1..Len(link) /\ \A i \in 1..Len(link) : link[i] \in Message
  BY <1>1, LenProperties, ElementOfSeq
<1>3. /\ Horizon \in Nat /\ Horizon = Within + MaxDelay + 1 /\ MaxDelay \in Nat
      /\ Within \in Nat /\ Beat \in Nat
  BY BeaconAssumption DEF Horizon
<1>4. due \in 0..Beat /\ due \in Nat /\ latest.age \in 0..Horizon /\ latest.age \in Nat
  BY <1>3 DEF BeaconTypeOK
<1>5. Len(link) <= LinkSize /\ LinkSize \in Nat
  BY BeaconAssumption DEF BeaconTypeOK
<1> QED BY <1>1, <1>2, <1>3, <1>4, <1>5 DEF Message

\* A message that is sent comes behind the others.
LEMMA SentLast ==
    ASSUME BeaconTypeOK, NEW l \in Level, Send(l)
    PROVE  /\ link' \in Seq(Message) /\ Len(link') = Len(link) + 1 /\ Len(link') <= LinkSize
           /\ \A i \in DOMAIN link : link'[i] = link[i]
           /\ link'[Len(link) + 1] = [level |-> l, age |-> 0]
           /\ kind' = kind
<1>1. link' = Append(link, [level |-> l, age |-> 0]) /\ Len(link) < LinkSize /\ kind' = kind
  BY DEF Send
<1>2. [level |-> l, age |-> 0] \in Message
  BY BeaconAssumption DEF Message
<1>3. link \in Seq(Message) /\ DOMAIN link = 1..Len(link) /\ Len(link) \in Nat /\ LinkSize \in Nat
  BY LinkFacts, BeaconAssumption
<1>4. /\ link' \in Seq(Message) /\ Len(link') = Len(link) + 1
      /\ \A i \in 1..Len(link) : link'[i] = link[i]
      /\ link'[Len(link) + 1] = [level |-> l, age |-> 0]
  BY <1>1, <1>2, <1>3, AppendProperties
<1> QED BY <1>1, <1>3, <1>4

\* Time makes every message older, and the Latest up to the horizon.
LEMMA AllAge ==
    ASSUME BeaconTypeOK, Tick
    PROVE  /\ link' \in Seq(Message) /\ Len(link') = Len(link)
           /\ \A i \in DOMAIN link : /\ link'[i].level = link[i].level
                                     /\ link'[i].age = link[i].age + 1
           /\ latest'.value = latest.value /\ latest'.age = Older(latest.age)
           /\ UNCHANGED <<up, level, kind>>
           /\ IF up /\ kind.beats THEN due > 0 /\ due' = due - 1 ELSE due' = due
<1>1. /\ \A i \in DOMAIN link : link[i].age < MaxDelay
      /\ link' = [i \in DOMAIN link |-> [link[i] EXCEPT !.age = @ + 1]]
      /\ latest' = [latest EXCEPT !.age = Older(@)]
      /\ UNCHANGED <<up, level, kind>>
      /\ IF up /\ kind.beats THEN due > 0 /\ due' = due - 1 ELSE due' = due
  BY DEF Tick
<1>2. /\ link \in Seq(Message) /\ Len(link) \in Nat /\ DOMAIN link = 1..Len(link)
      /\ MaxDelay \in Nat
      /\ \A i \in 1..Len(link) : link[i] \in Message
  BY LinkFacts, ElementOfSeq
<1>3. \A i \in 1..Len(link) : /\ link'[i].level = link[i].level
                              /\ link'[i].age = link[i].age + 1
                              /\ link'[i] \in Message
  BY <1>1, <1>2 DEF Message
<1>4. link' \in Seq(Message) /\ Len(link') = Len(link)
  <2>1. DOMAIN link' = 1..Len(link) /\ link' \in [1..Len(link) -> Message]
    BY <1>1, <1>2, <1>3
  <2> QED BY <1>2, <2>1
<1>5. latest'.value = latest.value /\ latest'.age = Older(latest.age)
  BY <1>1 DEF BeaconTypeOK
<1> QED BY <1>1, <1>2, <1>3, <1>4, <1>5

\* A message that arrives is what the client knows.
LEMMA OneArrives ==
    ASSUME BeaconTypeOK, NEW i \in DOMAIN link, Receive(i)
    PROVE  /\ link' \in Seq(Message) /\ Len(link') = Len(link) - 1
           /\ \A j \in 1..Len(link) - 1 : link'[j] = link[IF j < i THEN j ELSE j + 1]
           /\ latest'.value = link[i].level /\ latest'.age = 0
           /\ UNCHANGED <<up, level, due, kind>> /\ (i = 1 \/ kind.reorders)
<1>1. /\ link' = RemoveAt(link, i) /\ latest' = [value |-> link[i].level, age |-> 0]
      /\ UNCHANGED <<up, level, due, kind>> /\ (i = 1 \/ kind.reorders)
  BY DEF Receive, Update
<1>2. link \in Seq(Message) /\ i \in 1..Len(link)
  BY LinkFacts
<1> QED BY <1>1, <1>2, Removal

\* A message that is lost is known to nobody.
LEMMA OneIsLost ==
    ASSUME BeaconTypeOK, NEW i \in DOMAIN link, Lose(i)
    PROVE  /\ link' \in Seq(Message) /\ Len(link') = Len(link) - 1
           /\ \A j \in 1..Len(link) - 1 : link'[j] = link[IF j < i THEN j ELSE j + 1]
           /\ UNCHANGED <<up, level, due, kind, latest>>
<1>1. link' = RemoveAt(link, i) /\ UNCHANGED <<up, level, due, kind, latest>>
  BY DEF Lose
<1>2. link \in Seq(Message) /\ i \in 1..Len(link)
  BY LinkFacts
<1> QED BY <1>1, <1>2, Removal

\* Ages end at the horizon.
LEMMA OlderFacts ==
    ASSUME NEW n \in 0..Horizon
    PROVE  Older(n) \in 0..Horizon /\ Older(n) <= n + 1 /\ (Older(n) = n + 1 \/ Older(n) = Horizon)
BY BeaconAssumption DEF Older, Horizon

\* Every step of the beacon keeps its types.
LEMMA BeaconInitType == BeaconInit => BeaconTypeOK
<1> SUFFICES ASSUME BeaconInit PROVE BeaconTypeOK
  OBVIOUS
<1>1. Horizon \in Nat /\ MaxDelay \in Nat /\ LinkSize \in Nat \ {0}
  BY BeaconAssumption DEF Horizon
<1>2. CASE link = <<>>
  BY <1>1, <1>2 DEF BeaconInit, BeaconTypeOK
<1>3. CASE link = <<[level |-> level, age |-> 0]>>
  <2>1. [level |-> level, age |-> 0] \in [level : Level, age : 0..MaxDelay]
    BY <1>1 DEF BeaconInit
  <2> QED BY <1>1, <1>3, <2>1 DEF BeaconInit, BeaconTypeOK
<1> QED BY <1>2, <1>3 DEF BeaconInit

BeaconStep ==
    \/ \E l \in Level : Change(l) \/ Restart(l)
    \/ Restate \/ Crash \/ Tick
    \/ \E i \in DOMAIN link : Lose(i) \/ Receive(i)

LEMMA BeaconStepType == ASSUME BeaconTypeOK, BeaconStep PROVE BeaconTypeOK'
<1> USE DEF Message
<1>1. /\ Beat \in Nat /\ due \in 0..Beat /\ Len(link) \in Nat /\ DOMAIN link = 1..Len(link)
      /\ Len(link) <= LinkSize /\ LinkSize \in Nat /\ Beat \in 0..Beat
  BY LinkFacts
<1>2. ASSUME NEW l \in Level, Change(l) PROVE BeaconTypeOK'
  <2>1. Send(l) /\ level' = l /\ UNCHANGED <<up, due, latest>>
    BY <1>2 DEF Change
  <2> QED BY <2>1, SentLast DEF BeaconTypeOK
<1>3. ASSUME NEW l \in Level, Restart(l) PROVE BeaconTypeOK'
  <2>1. Send(l) /\ level' = l /\ up' = TRUE /\ due' = Beat /\ UNCHANGED latest
    BY <1>3 DEF Restart
  <2>2. due' \in 0..Beat /\ level' \in Level /\ Len(link') <= LinkSize
    BY <1>1, <2>1, SentLast
  <2>3. link' \in Seq([level : Level, age : 0..MaxDelay]) /\ kind' = kind
    BY <2>1, SentLast
  <2> QED BY <2>1, <2>2, <2>3 DEF BeaconTypeOK
<1>4. CASE Restate
  <2>1. Send(level) /\ due' = Beat /\ UNCHANGED <<up, level, latest>> /\ level \in Level
    BY <1>4 DEF Restate, BeaconTypeOK
  <2>2. due' \in 0..Beat /\ Len(link') <= LinkSize
    BY <1>1, <2>1, SentLast
  <2>3. link' \in Seq([level : Level, age : 0..MaxDelay]) /\ kind' = kind
    BY <2>1, SentLast
  <2> QED BY <2>1, <2>2, <2>3 DEF BeaconTypeOK
<1>5. CASE Crash
  BY <1>5 DEF Crash, BeaconTypeOK
<1>6. CASE Tick
  <2>1. latest'.age \in 0..Horizon /\ latest' \in [value : Level \cup {NoLevel}, age : 0..Horizon]
    <3>1. latest.age \in 0..Horizon /\ latest' = [latest EXCEPT !.age = Older(latest.age)]
      BY <1>6 DEF BeaconTypeOK, Tick
    <3> QED BY <3>1, OlderFacts DEF BeaconTypeOK
  <2>2. due' \in 0..Beat
    BY <1>1, <1>6, AllAge
  <2> QED BY <1>6, <2>1, <2>2, AllAge DEF BeaconTypeOK
<1>7. ASSUME NEW i \in DOMAIN link, Lose(i) PROVE BeaconTypeOK'
  <2>1. Len(link') <= LinkSize
    <3>1. Len(link') = Len(link) - 1
      BY <1>7, OneIsLost
    <3> QED BY <1>1, <3>1
  <2>2. link' \in Seq([level : Level, age : 0..MaxDelay])
    BY <1>7, OneIsLost
  <2> QED BY <1>7, <2>1, <2>2, OneIsLost DEF BeaconTypeOK
<1>8. ASSUME NEW i \in DOMAIN link, Receive(i) PROVE BeaconTypeOK'
  <2>1. latest' = [value |-> link[i].level, age |-> 0] /\ link[i].level \in Level
    BY <1>8, LinkFacts DEF Receive, Update
  <2>2. latest' \in [value : Level \cup {NoLevel}, age : 0..Horizon]
    BY <2>1, BeaconAssumption DEF Horizon
  <2>3. Len(link') <= LinkSize
    <3>1. Len(link') = Len(link) - 1
      BY <1>8, OneArrives
    <3> QED BY <1>1, <3>1
  <2>4. link' \in Seq([level : Level, age : 0..MaxDelay])
    BY <1>8, OneArrives
  <2> QED BY <1>8, <2>2, <2>3, <2>4, OneArrives DEF BeaconTypeOK
<1> QED BY <1>2, <1>3, <1>4, <1>5, <1>6, <1>7, <1>8 DEF BeaconStep

\* When a message leaves the link, the others were there.
LEMMA OthersStay ==
    ASSUME BeaconTypeOK, NEW i \in DOMAIN link, Lose(i) \/ Receive(i)
    PROVE  \A j \in DOMAIN link' : \E k \in DOMAIN link : link'[j] = link[k]
<1>1. /\ link' \in Seq(Message) /\ Len(link') = Len(link) - 1
      /\ \A j \in 1..Len(link) - 1 : link'[j] = link[IF j < i THEN j ELSE j + 1]
  BY OneIsLost, OneArrives
<1>2. DOMAIN link = 1..Len(link) /\ Len(link) \in Nat /\ DOMAIN link' = 1..Len(link) - 1
  BY <1>1, LinkFacts, LenProperties
<1> SUFFICES ASSUME NEW j \in DOMAIN link' PROVE \E k \in DOMAIN link : link'[j] = link[k]
  OBVIOUS
<1>3. (IF j < i THEN j ELSE j + 1) \in DOMAIN link
  BY <1>2
<1> QED BY <1>1, <1>2, <1>3

----
(* The safety latch.                                                       *)

\* A permission, on the way or received, is no older than the robot's last
\* moment in which it could be driven.
GrantsAreRecent ==
    /\ \A i \in DOMAIN link : FrameMotionPermitted(link[i].level) => sinceSafe <= link[i].age
    /\ latest.value # NoLevel /\ FrameMotionPermitted(latest.value) =>
           sinceSafe <= latest.age + MaxDelay

SafetyViewInv == SafetyTypeOK /\ GrantsAreRecent

\* Of the frames that the safety node states, the clear one permits.
LEMMA ClearPermits ==
    ASSUME Level = SafetyLevels, NEW l \in Level, FrameMotionPermitted(l)
    PROVE  l.phase = "clear"
<1>1. PICK p \in EstopPhase : l = SafetyState(p)
  BY DEF SafetyLevels
<1>2. l.phase = p /\ l.estop = (p \in {"stopped", "awaiting_release", "source_lost"})
      /\ l.source_alive = (p # "source_lost")
  BY <1>1 DEF SafetyState
<1> QED BY <1>2 DEF EstopPhase, FrameMotionPermitted

\* The latch starts with what it is, or with nothing on the way.
LEMMA SafetyInitInv == ASSUME Level = SafetyLevels, SafetyInit PROVE SafetyViewInv
<1>1. BeaconTypeOK /\ Horizon \in Nat
  BY BeaconInitType, LinkFacts DEF SafetyInit
<1>2. SafetyTypeOK
  BY <1>1 DEF SafetyInit, SafetyTypeOK
<1>3. FrameMotionPermitted(level) => sinceSafe = 0
  BY ClearPermits DEF SafetyInit, BeaconInit, Drivable
<1>4. \A i \in DOMAIN link : link[i].level = level /\ link[i].age = 0
  BY DEF SafetyInit, BeaconInit
<1>5. latest.value = NoLevel
  BY DEF SafetyInit, BeaconInit
<1> QED BY <1>2, <1>3, <1>4, <1>5 DEF SafetyViewInv, GrantsAreRecent

\* What is sent is the level, and time makes a grant as much older as the last
\* safe moment.
LEMMA SafetyStepInv ==
    ASSUME Level = SafetyLevels, SafetyViewInv, [SafetyNext]_safetyVars PROVE SafetyViewInv'
<1>1. BeaconTypeOK /\ sinceSafe \in 0..Horizon /\ GrantsAreRecent
  BY DEF SafetyViewInv, SafetyTypeOK
<1>2. /\ link \in Seq(Message) /\ Len(link) \in Nat /\ DOMAIN link = 1..Len(link)
      /\ Horizon \in Nat /\ MaxDelay \in Nat /\ sinceSafe \in Nat
      /\ latest.age \in 0..Horizon /\ latest.age \in Nat
      /\ \A i \in DOMAIN link :
            link[i].level \in Level /\ link[i].age \in 0..MaxDelay /\ link[i].age \in Nat
  BY <1>1, LinkFacts
\* What a step that sends does.
<1>3. ASSUME NEW l \in Level, Send(l), up', level' = l, UNCHANGED latest, Track,
             BeaconTypeOK'
      PROVE  SafetyViewInv'
  <2>1. sinceSafe' = IF l.phase = "clear" THEN 0 ELSE sinceSafe
    BY <1>3 DEF Track, Drivable
  <2>2. sinceSafe' \in 0..Horizon /\ sinceSafe' <= sinceSafe
    BY <1>1, <1>2, <2>1
  <2>3. /\ \A i \in DOMAIN link : link'[i] = link[i]
        /\ link'[Len(link) + 1] = [level |-> l, age |-> 0]
        /\ DOMAIN link' = 1..Len(link) + 1
    BY <1>1, <1>3, SentLast, LenProperties
  <2>4. FrameMotionPermitted(l) => sinceSafe' = 0
    BY <1>3, <2>1, ClearPermits
  <2>5. ASSUME NEW i \in DOMAIN link', FrameMotionPermitted(link'[i].level)
        PROVE  sinceSafe' <= link'[i].age
    <3>1. CASE i \in DOMAIN link
      BY <1>1, <1>2, <2>2, <2>3, <2>5, <3>1 DEF GrantsAreRecent
    <3>2. CASE i = Len(link) + 1
      BY <2>3, <2>4, <2>5, <3>2
    <3> QED BY <1>2, <2>3, <3>1, <3>2
  <2>6. latest'.value # NoLevel /\ FrameMotionPermitted(latest'.value) =>
            sinceSafe' <= latest'.age + MaxDelay
    BY <1>1, <1>2, <1>3, <2>2 DEF GrantsAreRecent
  <2> QED BY <1>3, <2>2, <2>5, <2>6 DEF SafetyViewInv, SafetyTypeOK, GrantsAreRecent
\* What a step that sends nothing does, in no time.
<1>4. ASSUME Track, BeaconTypeOK', UNCHANGED latest,
             \A i \in DOMAIN link' : \E j \in DOMAIN link : link'[i] = link[j]
      PROVE  SafetyViewInv'
  <2>1. sinceSafe' \in 0..Horizon /\ sinceSafe' <= sinceSafe
    BY <1>1, <1>2, <1>4 DEF Track
  <2>2. ASSUME NEW i \in DOMAIN link', FrameMotionPermitted(link'[i].level)
        PROVE  sinceSafe' <= link'[i].age
    <3>1. PICK j \in DOMAIN link : link'[i] = link[j]
      BY <1>4
    <3> QED BY <1>1, <1>2, <2>1, <2>2, <3>1 DEF GrantsAreRecent
  <2>3. latest'.value # NoLevel /\ FrameMotionPermitted(latest'.value) =>
            sinceSafe' <= latest'.age + MaxDelay
    BY <1>1, <1>2, <1>4, <2>1 DEF GrantsAreRecent
  <2> QED BY <1>4, <2>1, <2>2, <2>3 DEF SafetyViewInv, SafetyTypeOK, GrantsAreRecent
<1>5. ASSUME NEW p \in EstopPhase, Change(SafetyState(p)), Track PROVE SafetyViewInv'
  <2>1. SafetyState(p) \in Level
    BY DEF SafetyLevels
  <2>2. BeaconTypeOK'
    BY <1>1, <1>5, <2>1, BeaconStepType DEF BeaconStep
  <2> QED BY <1>3, <1>5, <2>1, <2>2 DEF Change
<1>6. ASSUME NEW p \in EstopPhase, Restart(SafetyState(p)), Track PROVE SafetyViewInv'
  <2>1. SafetyState(p) \in Level
    BY DEF SafetyLevels
  <2>2. BeaconTypeOK'
    BY <1>1, <1>6, <2>1, BeaconStepType DEF BeaconStep
  <2> QED BY <1>3, <1>6, <2>1, <2>2 DEF Restart
<1>7. ASSUME Restate, Track PROVE SafetyViewInv'
  <2>1. level \in Level /\ BeaconTypeOK'
    BY <1>1, <1>7, BeaconStepType DEF BeaconStep, BeaconTypeOK
  <2> QED BY <1>3, <1>7, <2>1 DEF Restate
<1>8. ASSUME Crash, Track PROVE SafetyViewInv'
  <2>1. BeaconTypeOK'
    BY <1>1, <1>8, BeaconStepType DEF BeaconStep
  <2> QED BY <1>4, <1>8, <2>1 DEF Crash
<1>9. ASSUME NEW i \in DOMAIN link, Lose(i), Track PROVE SafetyViewInv'
  <2>1. BeaconTypeOK' /\ UNCHANGED latest
    BY <1>1, <1>9, BeaconStepType DEF BeaconStep, Lose
  <2>2. \A j \in DOMAIN link' : \E k \in DOMAIN link : link'[j] = link[k]
    BY <1>1, <1>9, OthersStay
  <2> QED BY <1>4, <1>9, <2>1, <2>2
<1>10. ASSUME NEW i \in DOMAIN link, Hear(i) PROVE SafetyViewInv'
  <2>1. Receive(i) /\ sinceSafe' = sinceSafe /\ BeaconTypeOK'
    BY <1>1, <1>10, BeaconStepType DEF BeaconStep, Hear
  <2>2. \A j \in DOMAIN link' : \E k \in DOMAIN link : link'[j] = link[k]
    BY <1>1, <2>1, OthersStay
  <2>3. latest'.value = link[i].level /\ latest'.age = 0 /\ MaxDelay' = MaxDelay
    BY <1>1, <2>1, OneArrives
  <2>4. FrameMotionPermitted(latest'.value) => sinceSafe' <= latest'.age + MaxDelay
    BY <1>1, <1>2, <2>1, <2>3 DEF GrantsAreRecent
  <2>5. ASSUME NEW j \in DOMAIN link', FrameMotionPermitted(link'[j].level)
        PROVE  sinceSafe' <= link'[j].age
    BY <1>1, <2>1, <2>2, <2>5 DEF GrantsAreRecent
  <2> QED BY <1>1, <2>1, <2>4, <2>5 DEF SafetyViewInv, SafetyTypeOK, GrantsAreRecent
<1>11. CASE Pass
  <2>1. Tick /\ sinceSafe' = IF Drivable THEN 0 ELSE Older(sinceSafe)
    BY <1>11 DEF Pass
  <2>2. BeaconTypeOK'
    BY <1>1, <2>1, BeaconStepType DEF BeaconStep
  <2>3. sinceSafe' \in 0..Horizon /\ sinceSafe' <= sinceSafe + 1
    <3>1. Older(sinceSafe) \in 0..Horizon /\ Older(sinceSafe) <= sinceSafe + 1
      BY <1>1, OlderFacts
    <3>2. 0 \in 0..Horizon /\ 0 <= sinceSafe + 1
      BY <1>2
    <3>3. sinceSafe' = Older(sinceSafe) \/ sinceSafe' = 0
      BY <2>1
    <3> QED BY <3>1, <3>2, <3>3
  <2>4. /\ Len(link') = Len(link) /\ link' \in Seq(Message)
        /\ \A i \in DOMAIN link : /\ link'[i].level = link[i].level
                                  /\ link'[i].age = link[i].age + 1
        /\ latest'.value = latest.value /\ latest'.age = Older(latest.age)
    BY <1>1, <2>1, AllAge
  <2>5. DOMAIN link' = DOMAIN link
    BY <1>2, <2>4, LenProperties
  <2>6. ASSUME NEW i \in DOMAIN link', FrameMotionPermitted(link'[i].level)
        PROVE  sinceSafe' <= link'[i].age
    BY <1>1, <1>2, <2>3, <2>4, <2>5, <2>6 DEF GrantsAreRecent
  <2>7. ASSUME latest'.value # NoLevel, FrameMotionPermitted(latest'.value)
        PROVE  sinceSafe' <= latest'.age + MaxDelay
    <3>1. sinceSafe <= latest.age + MaxDelay
      BY <1>1, <2>4, <2>7 DEF GrantsAreRecent
    <3>2. latest'.age = latest.age + 1 \/ latest'.age = Horizon
      BY <1>2, <2>4, OlderFacts
    <3> QED BY <1>2, <2>3, <3>1, <3>2
  <2> QED BY <2>2, <2>3, <2>6, <2>7 DEF SafetyViewInv, SafetyTypeOK, GrantsAreRecent
<1>12. CASE UNCHANGED safetyVars
  BY <1>1, <1>12 DEF safetyVars, beaconVars, SafetyViewInv, SafetyTypeOK, BeaconTypeOK,
                     GrantsAreRecent
<1>13. CASE Authority
  <2>1. level.phase \in EstopPhase
    BY <1>1 DEF BeaconTypeOK, SafetyLevels, SafetyState
  <2>2. After(level.phase) \subseteq EstopPhase
    BY <2>1 DEF After, EstopPhase
  <2> QED BY <1>5, <1>6, <1>7, <1>8, <1>9, <1>13, <2>2 DEF Authority
<1> QED BY <1>10, <1>11, <1>12, <1>13 DEF SafetyNext

\* Silence is never permission: whatever is lost, late, overtaken or dead, a
\* permission that a client reads is at most a window and a delay old, for any
\* window, delay, heartbeat and link.
THEOREM SilenceIsNoPermission ==
    ASSUME Level = SafetyLevels PROVE SafetySpec => []NoStalePermission
<1>1. SafetyViewInv => NoStalePermission
  <2> SUFFICES ASSUME SafetyViewInv, MotionPermitted PROVE sinceSafe < Horizon
    BY DEF NoStalePermission
  <2>1. /\ Horizon = Within + MaxDelay + 1 /\ Within \in Nat /\ MaxDelay \in Nat
        /\ latest.age \in Nat /\ sinceSafe \in 0..Horizon
    BY LinkFacts DEF SafetyViewInv, SafetyTypeOK
  <2>2. sinceSafe <= latest.age + MaxDelay /\ latest.age <= Within
    BY DEF MotionPermitted, Fresh, SafetyViewInv, GrantsAreRecent
  <2> QED BY <2>1, <2>2
<1>2. SafetyInit => SafetyViewInv
  BY SafetyInitInv
<1>3. SafetyViewInv /\ [SafetyNext]_safetyVars => SafetyViewInv'
  BY SafetyStepInv
<1> QED BY <1>1, <1>2, <1>3, PTL DEF SafetySpec

----
(* Map identity.                                                           *)

\* What says, of a source that is reachable, that poses are on a map.
Names(l, m) == l.reachable /\ l.map_id = m

\* A statement that poses are on a map, on the way or received, is no older
\* than the last moment in which they were.
NamesAreRecent ==
    \A m \in MapId :
        /\ \A i \in DOMAIN link : Names(link[i].level, m) => sincePoses[m] <= link[i].age
        /\ latest.value # NoLevel /\ Names(latest.value, m) => sincePoses[m] <= latest.age + MaxDelay

MapViewInv == MapTypeOK /\ NamesAreRecent

\* A source starts with the map it states, or with nothing on the way.
LEMMA MapInitInv == ASSUME MapInit PROVE MapViewInv
<1>1. BeaconTypeOK /\ Horizon \in Nat
  BY BeaconInitType, LinkFacts DEF MapInit
<1>2. MapTypeOK
  BY <1>1 DEF MapInit, MapTypeOK
<1>3. \A m \in MapId : Names(level, m) => sincePoses[m] = 0
  BY DEF MapInit, BeaconInit, Frame, Names
<1>4. \A i \in DOMAIN link : link[i].level = level /\ link[i].age = 0
  BY DEF MapInit, BeaconInit
<1>5. latest.value = NoLevel
  BY DEF MapInit, BeaconInit
<1> QED BY <1>2, <1>3, <1>4, <1>5 DEF MapViewInv, NamesAreRecent

\* What is sent is what poses are on, and time makes a statement as much older
\* as the last pose on its map.
LEMMA MapStepInv == ASSUME Level = MapLevels, MapViewInv, [MapNext]_mapVars PROVE MapViewInv'
<1>1. BeaconTypeOK /\ sincePoses \in [MapId -> 0..Horizon] /\ NamesAreRecent
  BY DEF MapViewInv, MapTypeOK
<1>2. /\ link \in Seq(Message) /\ Len(link) \in Nat /\ DOMAIN link = 1..Len(link)
      /\ Horizon \in Nat /\ MaxDelay \in Nat /\ \A m \in MapId : sincePoses[m] \in Nat
      /\ latest.age \in 0..Horizon /\ latest.age \in Nat
      /\ \A i \in DOMAIN link :
            link[i].level \in Level /\ link[i].age \in 0..MaxDelay /\ link[i].age \in Nat
  BY <1>1, LinkFacts
\* What a step of the source does to the maps, which takes no time.
<1>3. ASSUME Anchor
      PROVE  /\ sincePoses' \in [MapId -> 0..Horizon]
             /\ \A m \in MapId : sincePoses'[m] <= sincePoses[m] /\ (Frame' = m => sincePoses'[m] = 0)
  BY <1>1, <1>2, <1>3 DEF Anchor
\* What a step that sends does.
<1>4. ASSUME NEW l \in Level, Send(l), up', level' = l, UNCHANGED latest, Anchor,
             BeaconTypeOK'
      PROVE  MapViewInv'
  <2>1. /\ \A i \in DOMAIN link : link'[i] = link[i]
        /\ link'[Len(link) + 1] = [level |-> l, age |-> 0]
        /\ DOMAIN link' = 1..Len(link) + 1
    BY <1>1, <1>4, SentLast, LenProperties
  <2>2. ASSUME NEW m \in MapId, Names(l, m) PROVE sincePoses'[m] = 0
    BY <1>3, <1>4, <2>2 DEF Names, Frame
  <2>3. ASSUME NEW m \in MapId, NEW i \in DOMAIN link', Names(link'[i].level, m)
        PROVE  sincePoses'[m] <= link'[i].age
    <3>1. CASE i \in DOMAIN link
      <4>1. sincePoses[m] <= link[i].age
        BY <1>1, <2>1, <2>3, <3>1 DEF NamesAreRecent
      <4>2. sincePoses'[m] <= sincePoses[m] /\ sincePoses'[m] \in 0..Horizon
        BY <1>3, <1>4
      <4> QED BY <1>2, <2>1, <3>1, <4>1, <4>2
    <3>2. CASE i = Len(link) + 1
      BY <2>1, <2>2, <2>3, <3>2
    <3> QED BY <1>2, <2>1, <3>1, <3>2
  <2>4. ASSUME NEW m \in MapId, latest'.value # NoLevel, Names(latest'.value, m)
        PROVE  sincePoses'[m] <= latest'.age + MaxDelay
    <3>1. sincePoses[m] <= latest.age + MaxDelay /\ latest' = latest
      BY <1>1, <1>4, <2>4 DEF NamesAreRecent
    <3>2. sincePoses'[m] <= sincePoses[m] /\ sincePoses'[m] \in 0..Horizon
      BY <1>3, <1>4
    <3> QED BY <1>2, <3>1, <3>2
  <2> QED BY <1>3, <1>4, <2>3, <2>4 DEF MapViewInv, MapTypeOK, NamesAreRecent
\* What a step that sends nothing does, in no time.
<1>5. ASSUME Anchor, BeaconTypeOK', UNCHANGED latest,
             \A i \in DOMAIN link' : \E j \in DOMAIN link : link'[i] = link[j]
      PROVE  MapViewInv'
  <2>1. ASSUME NEW m \in MapId, NEW i \in DOMAIN link', Names(link'[i].level, m)
        PROVE  sincePoses'[m] <= link'[i].age
    <3>1. PICK j \in DOMAIN link : link'[i] = link[j]
      BY <1>5
    <3>2. sincePoses[m] <= link[j].age
      BY <1>1, <2>1, <3>1 DEF NamesAreRecent
    <3>3. sincePoses'[m] <= sincePoses[m] /\ sincePoses'[m] \in 0..Horizon
      BY <1>3, <1>5
    <3> QED BY <1>2, <3>1, <3>2, <3>3
  <2>2. ASSUME NEW m \in MapId, latest'.value # NoLevel, Names(latest'.value, m)
        PROVE  sincePoses'[m] <= latest'.age + MaxDelay
    <3>1. sincePoses[m] <= latest.age + MaxDelay /\ latest' = latest
      BY <1>1, <1>5, <2>2 DEF NamesAreRecent
    <3>2. sincePoses'[m] <= sincePoses[m] /\ sincePoses'[m] \in 0..Horizon
      BY <1>3, <1>5
    <3> QED BY <1>2, <3>1, <3>2
  <2> QED BY <1>3, <1>5, <2>1, <2>2 DEF MapViewInv, MapTypeOK, NamesAreRecent
<1>6. CASE Localization
  <2>1. Anchor
    BY <1>6 DEF Localization
  <2>2. ASSUME NEW l \in MapLevels, Change(l) PROVE MapViewInv'
    <3>1. BeaconTypeOK' /\ Send(l) /\ up' /\ level' = l /\ UNCHANGED latest
      BY <1>1, <2>2, BeaconStepType DEF BeaconStep, Change
    <3> QED BY <1>4, <2>1, <3>1
  <2>3. ASSUME NEW l \in MapLevels, Restart(l) PROVE MapViewInv'
    <3>1. BeaconTypeOK' /\ Send(l) /\ up' /\ level' = l /\ UNCHANGED latest
      BY <1>1, <2>3, BeaconStepType DEF BeaconStep, Restart
    <3> QED BY <1>4, <2>1, <3>1
  <2>4. CASE Restate
    <3>1. level \in Level /\ BeaconTypeOK' /\ Send(level) /\ up' /\ UNCHANGED <<level, latest>>
      BY <1>1, <2>4, BeaconStepType DEF BeaconStep, BeaconTypeOK, Restate
    <3> QED BY <1>4, <2>1, <3>1
  <2>5. CASE Crash
    <3>1. BeaconTypeOK' /\ UNCHANGED <<link, latest>>
      BY <1>1, <2>5, BeaconStepType DEF BeaconStep, Crash
    <3> QED BY <1>5, <2>1, <3>1
  <2>6. ASSUME NEW i \in DOMAIN link, Lose(i) PROVE MapViewInv'
    <3>1. BeaconTypeOK' /\ UNCHANGED latest
      BY <1>1, <2>6, BeaconStepType DEF BeaconStep, Lose
    <3>2. \A j \in DOMAIN link' : \E k \in DOMAIN link : link'[j] = link[k]
      BY <1>1, <2>6, OthersStay
    <3> QED BY <1>5, <2>1, <3>1, <3>2
  <2> QED BY <1>6, <2>2, <2>3, <2>4, <2>5, <2>6 DEF Localization
<1>7. ASSUME NEW i \in DOMAIN link, HearMap(i) PROVE MapViewInv'
  <2>1. Receive(i) /\ sincePoses' = sincePoses /\ BeaconTypeOK'
    BY <1>1, <1>7, BeaconStepType DEF BeaconStep, HearMap
  <2>2. \A j \in DOMAIN link' : \E k \in DOMAIN link : link'[j] = link[k]
    BY <1>1, <2>1, OthersStay
  <2>3. latest'.value = link[i].level /\ latest'.age = 0
    BY <1>1, <2>1, OneArrives
  <2>4. ASSUME NEW m \in MapId, NEW j \in DOMAIN link', Names(link'[j].level, m)
        PROVE  sincePoses'[m] <= link'[j].age
    BY <1>1, <2>1, <2>2, <2>4 DEF NamesAreRecent
  <2>5. ASSUME NEW m \in MapId, Names(latest'.value, m)
        PROVE  sincePoses'[m] <= latest'.age + MaxDelay
    <3>1. sincePoses[m] <= link[i].age
      BY <1>1, <2>3, <2>5 DEF NamesAreRecent
    <3> QED BY <1>2, <2>1, <2>3, <3>1
  <2> QED BY <1>1, <2>1, <2>4, <2>5 DEF MapViewInv, MapTypeOK, NamesAreRecent
<1>8. CASE MapPasses
  <2>1. Tick /\ BeaconTypeOK' /\ sincePoses' = [m \in MapId |-> IF Frame = m THEN 0 ELSE Older(sincePoses[m])]
    BY <1>1, <1>8, BeaconStepType DEF BeaconStep, MapPasses
  <2>2. ASSUME NEW m \in MapId PROVE sincePoses'[m] \in 0..Horizon /\ sincePoses'[m] <= sincePoses[m] + 1
    <3>1. Older(sincePoses[m]) \in 0..Horizon /\ Older(sincePoses[m]) <= sincePoses[m] + 1
      BY <1>1, OlderFacts
    <3>2. sincePoses'[m] = Older(sincePoses[m]) \/ sincePoses'[m] = 0
      BY <2>1
    <3> QED BY <1>2, <3>1, <3>2
  <2>3. sincePoses' \in [MapId -> 0..Horizon]
    BY <2>1, <2>2
  <2>4. /\ Len(link') = Len(link) /\ link' \in Seq(Message)
        /\ \A i \in DOMAIN link : /\ link'[i].level = link[i].level
                                  /\ link'[i].age = link[i].age + 1
        /\ latest'.value = latest.value /\ latest'.age = Older(latest.age)
    BY <1>1, <2>1, AllAge
  <2>5. DOMAIN link' = DOMAIN link
    BY <1>2, <2>4, LenProperties
  <2>6. ASSUME NEW m \in MapId, NEW i \in DOMAIN link', Names(link'[i].level, m)
        PROVE  sincePoses'[m] <= link'[i].age
    <3>1. sincePoses[m] <= link[i].age
      BY <1>1, <2>4, <2>5, <2>6 DEF NamesAreRecent, Names
    <3> QED BY <1>2, <2>2, <2>4, <2>5, <3>1
  <2>7. ASSUME NEW m \in MapId, latest'.value # NoLevel, Names(latest'.value, m)
        PROVE  sincePoses'[m] <= latest'.age + MaxDelay
    <3>1. sincePoses[m] <= latest.age + MaxDelay
      BY <1>1, <2>4, <2>7 DEF NamesAreRecent
    <3>2. latest'.age = latest.age + 1 \/ latest'.age = Horizon
      BY <1>2, <2>4, OlderFacts
    <3> QED BY <1>2, <2>2, <3>1, <3>2
  <2> QED BY <2>1, <2>3, <2>6, <2>7 DEF MapViewInv, MapTypeOK, NamesAreRecent
<1>9. CASE UNCHANGED mapVars
  BY <1>1, <1>9 DEF mapVars, beaconVars, MapViewInv, MapTypeOK, BeaconTypeOK, NamesAreRecent
<1> QED BY <1>6, <1>7, <1>8, <1>9 DEF MapNext

\* What the invariant says of a map that is read.
LEMMA MapsReadAreRecent == MapViewInv => MapIsCurrent
<1> SUFFICES ASSUME MapViewInv, NEW m \in MapId \ {NoMap}, CurrentMapId = m,
                    latest.value.reachable
             PROVE  sincePoses[m] < Horizon
  BY DEF MapIsCurrent
<1>1. /\ Horizon = Within + MaxDelay + 1 /\ Within \in Nat /\ MaxDelay \in Nat
      /\ latest.age \in Nat /\ sincePoses[m] \in 0..Horizon
  BY LinkFacts DEF MapViewInv, MapTypeOK
<1>2. latest.value # NoLevel /\ latest.value.map_id = m /\ latest.age <= Within
  BY DEF Fresh, CurrentMapId
<1>3. sincePoses[m] <= latest.age + MaxDelay
  BY <1>2 DEF MapViewInv, NamesAreRecent, Names
<1> QED BY <1>1, <1>2, <1>3

\* Never "unchanged" of a map that is long gone: whatever is late, lost,
\* overtaken, rebuilt or dead, a map that a client reads of a reachable source
\* is the map of the poses, or was it a window and a delay ago at most, for any
\* maps, window, delay, heartbeat and link.
THEOREM MapReadIsNotLongGone ==
    ASSUME Level = MapLevels PROVE MapSpec => []MapIsCurrent
<1>1. MapInit => MapViewInv
  BY MapInitInv
<1>2. MapViewInv /\ [MapNext]_mapVars => MapViewInv'
  BY MapStepInv
<1> QED BY <1>1, <1>2, MapsReadAreRecent, PTL DEF MapSpec

----
(* A subscriber of any topic that joins at any time.                       *)

Deliveries == {Momentary, Streamed, OnChange, Restated}

\* What is declared is of one of four kinds: what is said once is not kept for
\* whoever joins, and what is a level is kept, or sent again.
LEMMA DeclaredFacts ==
    ASSUME NEW set \in Registry, NEW name \in DOMAIN set
    PROVE  /\ set[name] \in [level : BOOLEAN, latched : BOOLEAN, again : BOOLEAN]
           /\ set[name].level => set[name].again \/ set[name].latched
           /\ set[name].latched => set[name].level
<1>1. /\ \A x \in DOMAIN MotionTopics : MotionTopics[x] \in Deliveries
      /\ \A x \in DOMAIN PoseTopics : PoseTopics[x] \in Deliveries
      /\ \A x \in DOMAIN ControlTopics : ControlTopics[x] \in Deliveries
      /\ \A x \in DOMAIN SafetyTopics : SafetyTopics[x] \in Deliveries
  BY DEF MotionTopics, PoseTopics, ControlTopics, SafetyTopics, Deliveries
<1>2. /\ \A x \in DOMAIN InputTopics : InputTopics[x] \in Deliveries
      /\ \A x \in DOMAIN StateTopics : StateTopics[x] \in Deliveries
      /\ \A x \in DOMAIN LocalizationTopics : LocalizationTopics[x] \in Deliveries
  BY DEF InputTopics, StateTopics, LocalizationTopics, Deliveries
<1>3. /\ \A x \in DOMAIN MapTopics : MapTopics[x] \in Deliveries
      /\ \A x \in DOMAIN NavTopics : NavTopics[x] \in Deliveries
  BY DEF MapTopics, NavTopics, Deliveries
<1>4. set[name] \in Deliveries
  BY <1>1, <1>2, <1>3 DEF Registry
<1> DEFINE Sane(d) == /\ d \in [level : BOOLEAN, latched : BOOLEAN, again : BOOLEAN]
                      /\ d.level => d.again \/ d.latched
                      /\ d.latched => d.level
<1>5. \A d \in Deliveries : Sane(d)
  <2>1. Sane(Momentary)
    BY DEF Momentary, Delivery
  <2>2. Sane(Streamed)
    BY DEF Streamed, Delivery
  <2>3. Sane(OnChange)
    BY DEF OnChange, Delivery
  <2>4. Sane(Restated)
    BY DEF Restated, Delivery
  <2> HIDE DEF Sane
  <2> QED BY <2>1, <2>2, <2>3, <2>4 DEF Deliveries
<1>6. Sane(set[name])
  <2> HIDE DEF Sane
  <2> QED BY <1>4, <1>5
<1> QED BY <1>6

\* The topic is a declared one, and its heartbeat is that of the link.
TopicIsDeclared ==
    /\ topic.again = kind.beats
    /\ topic.level => topic.again \/ topic.latched
    /\ topic.latched => topic.level

\* What is not current was sent before the last change, and so was everything,
\* if nothing is sent again, or nobody is there to send it.
OldIsOld ==
    /\ \A i \in DOMAIN link :
          link[i].level # level \/ ~up \/ ~topic.again => calm <= link[i].age
    /\ ~up /\ latest.value # NoLevel => calm <= latest.age + MaxDelay

\* A beat after the oldest message that is under way, or, if there is none, a
\* beat after the last one was sent, the next one is due.
Since == IF link = <<>> THEN Beat - due ELSE Beat + link[1].age

BeatsAreHeard ==
    up /\ topic.again =>
        /\ calm <= Since \/ (latest.value # NoLevel /\ latest.age <= Since)
        /\ calm <= MaxDelay + Since \/ latest.value = level

\* Where nothing was lost and nothing is overtaken, the last word is the level.
LastWordIsLevel ==
    whole /\ ~kind.reorders /\ (topic.latched \/ news) =>
        IF link = <<>> THEN latest.value = level ELSE link[Len(link)].level = level

\* What is not kept for whoever joins is not heard before it is said.
UnsaidIsUnheard == ~topic.latched /\ ~news => link = <<>> /\ latest.value = NoLevel

JoinInv ==
    JoinTypeOK /\ TopicIsDeclared /\ OldIsOld /\ BeatsAreHeard /\ LastWordIsLevel /\ UnsaidIsUnheard

LEMMA JoinInitInv == JoinInit => JoinInv
<1> SUFFICES ASSUME JoinInit PROVE JoinInv
  OBVIOUS
<1>1. BeaconTypeOK /\ calm = 0 /\ news = FALSE /\ Horizon \in Nat
  BY BeaconInitType, LinkFacts DEF JoinInit
<1>2. PICK set \in Registry : \E name \in DOMAIN set :
          topic = set[name] /\ whole \in {TRUE, (name \in Participates)}
  BY DEF JoinInit
<1>3. JoinTypeOK
  <2>1. whole \in BOOLEAN
    <3>1. PICK name \in DOMAIN set : whole \in {TRUE, (name \in Participates)}
      BY <1>2
    <3>2. CASE name \in Participates
      BY <3>1, <3>2
    <3>3. CASE name \notin Participates
      <4>1. (name \in Participates) = FALSE
        BY <3>3
      <4> QED BY <3>1, <4>1
    <3> QED BY <3>2, <3>3
  <2>2. news \in BOOLEAN
    BY <1>1
  <2>3. topic \in [level : BOOLEAN, latched : BOOLEAN, again : BOOLEAN]
    BY <1>2, DeclaredFacts
  <2>4. calm \in 0..Horizon
    BY <1>1
  <2> QED BY <1>1, <2>1, <2>2, <2>3, <2>4 DEF JoinTypeOK
<1>4. TopicIsDeclared
  BY <1>2, DeclaredFacts DEF JoinInit, TopicIsDeclared
<1>5. /\ \A i \in DOMAIN link : link[i].level = level /\ link[i].age = 0
      /\ latest.value = NoLevel /\ up = TRUE
      /\ link = <<>> \/ link = <<[level |-> level, age |-> 0]>>
      /\ link # <<>> <=> whole /\ topic.latched
  BY DEF JoinInit, BeaconInit
<1>6. OldIsOld
  BY <1>1, <1>5 DEF OldIsOld
<1>7. BeatsAreHeard
  <2>1. Beat \in Nat /\ due \in 0..Beat /\ MaxDelay \in Nat
    BY <1>1, LinkFacts
  <2>2. 0 <= Since
    BY <1>5, <2>1 DEF Since
  <2>3. Since \in Int
    BY <1>5, <2>1 DEF Since
  <2> QED BY <1>1, <2>1, <2>2, <2>3 DEF BeatsAreHeard
<1>8. LastWordIsLevel /\ UnsaidIsUnheard
  BY <1>1, <1>5 DEF LastWordIsLevel, UnsaidIsUnheard
<1> QED BY <1>3, <1>4, <1>6, <1>7, <1>8 DEF JoinInv

\* The numbers behind the beat.
LEMMA SinceFacts ==
    ASSUME BeaconTypeOK
    PROVE  /\ Since \in Int /\ 0 <= Since /\ Since <= Beat + MaxDelay
           /\ link = <<>> => Since = Beat - due /\ Since <= Beat
           /\ link # <<>> => 1 \in DOMAIN link /\ Since = Beat + link[1].age
<1>1. /\ Beat \in Nat /\ due \in 0..Beat /\ MaxDelay \in Nat /\ link \in Seq(Message)
      /\ DOMAIN link = 1..Len(link) /\ Len(link) \in Nat
      /\ \A i \in DOMAIN link : link[i].age \in 0..MaxDelay
  BY LinkFacts
<1>2. link # <<>> => 1 \in DOMAIN link
  BY <1>1, EmptySeq
<1> QED BY <1>1, <1>2 DEF Since

\* The same, one step later.
LEMMA SinceFactsNext == BeaconTypeOK' => Since' \in Int /\ 0 <= Since'
<1> SUFFICES ASSUME BeaconTypeOK' PROVE Since' \in Int /\ 0 <= Since'
  OBVIOUS
<1>1. Beat \in Nat /\ due' \in 0..Beat /\ link' \in Seq(Message)
  BY BeaconAssumption DEF BeaconTypeOK, Message
<1>2. CASE link' = <<>>
  <2>1. PICK d \in 0..Beat : d = due'
    BY <1>1
  <2>2. Since' = Beat - d
    BY <1>2, <2>1 DEF Since
  <2>3. Beat - d \in Int /\ 0 <= Beat - d
    BY <1>1
  <2> QED BY <2>2, <2>3
<1>3. CASE link' # <<>>
  <2>1. 1 \in 1..Len(link')
    BY <1>1, <1>3, EmptySeq
  <2>2. link'[1] \in Message
    BY <1>1, <2>1, ElementOfSeq
  <2>3. link'[1].age \in Nat
    BY <2>2, BeaconAssumption DEF Message
  <2>4. Since' = Beat + link'[1].age
    BY <1>3 DEF Since
  <2> QED BY <1>1, <2>3, <2>4
<1> QED BY <1>2, <1>3

\* A step of the producer that sends: after a change or a restart everything
\* is to be waited for anew, and a beat comes when nothing is awaited yet.
LEMMA ProducerSays ==
    ASSUME JoinInv, NEW l \in Level, Send(l), BeaconTypeOK', up', level' = l,
           news', UNCHANGED <<topic, latest>>, whole' \in BOOLEAN,
           \/ calm' = 0
           \/ calm' = calm /\ whole' = whole /\ topic.again /\ l = level /\ up /\ due = 0
    PROVE  JoinInv'
<1>1. JoinTypeOK /\ BeaconTypeOK /\ TopicIsDeclared /\ OldIsOld /\ BeatsAreHeard /\ LastWordIsLevel
  BY DEF JoinInv, JoinTypeOK
<1>2. /\ Len(link) \in Nat /\ DOMAIN link = 1..Len(link) /\ calm \in 0..Horizon
      /\ Horizon \in Nat /\ MaxDelay \in Nat /\ Beat \in Nat
      /\ \A i \in DOMAIN link : link[i].age \in Nat
  BY <1>1, LinkFacts DEF JoinTypeOK
<1>3. /\ link' \in Seq(Message) /\ Len(link') = Len(link) + 1
      /\ \A i \in DOMAIN link : link'[i] = link[i]
      /\ link'[Len(link) + 1] = [level |-> l, age |-> 0]
      /\ kind' = kind
  BY <1>1, SentLast
<1>4. DOMAIN link' = 1..Len(link) + 1 /\ link' # <<>>
  BY <1>2, <1>3, LenProperties, EmptySeq
<1>5. calm' \in 0..Horizon /\ calm' <= calm
  BY <1>2
<1>6. JoinTypeOK'
  <2>1. news' \in BOOLEAN
    BY <1>1
  <2> QED BY <1>1, <1>5 DEF JoinTypeOK
<1>7. TopicIsDeclared'
  BY <1>1, <1>3 DEF TopicIsDeclared
<1>8. OldIsOld'
  <2>1. ASSUME NEW i \in DOMAIN link', link'[i].level # level' \/ ~topic'.again
        PROVE  calm' <= link'[i].age
    <3>1. CASE calm' = 0
      <4>1. link'[i].age \in Nat
        BY <1>2, <1>3, <1>4
      <4> QED BY <3>1, <4>1
    <3>2. CASE calm' = calm /\ topic.again /\ l = level
      <4>1. i \in DOMAIN link
        BY <1>2, <1>3, <1>4, <2>1, <3>2
      <4> QED BY <1>1, <1>3, <2>1, <3>2, <4>1 DEF OldIsOld
    <3> QED BY <3>1, <3>2
  <2> QED BY <2>1 DEF OldIsOld
<1>9. BeatsAreHeard'
  <2>1. ASSUME topic'.again
        PROVE  /\ calm' <= Since' \/ (latest'.value # NoLevel /\ latest'.age <= Since')
               /\ calm' <= MaxDelay + Since' \/ latest'.value = level'
    <3>1. Since' \in Int /\ 0 <= Since' /\ Since' = Beat + link'[1].age
      <4>1. Since' = Beat + link'[1].age
        BY <1>4 DEF Since
      <4>2. link'[1].age \in Nat
        BY <1>2, <1>3, <1>4
      <4> QED BY <1>2, <4>1, <4>2
    <3>2. CASE calm' = 0
      BY <1>2, <3>1, <3>2
    <3>3. CASE calm' = calm /\ topic.again /\ l = level /\ up /\ due = 0
      <4>1. Since' = Since
        <5>1. CASE link = <<>>
          BY <1>2, <1>3, <3>1, <3>3, <5>1 DEF Since
        <5>2. CASE link # <<>>
          <6>1. 1 \in DOMAIN link
            BY <1>1, <5>2, SinceFacts
          <6> QED BY <1>3, <3>1, <5>2, <6>1 DEF Since
        <5> QED BY <5>1, <5>2
      <4> QED BY <1>1, <3>3, <4>1 DEF BeatsAreHeard
    <3> QED BY <3>2, <3>3
  <2> QED BY <2>1 DEF BeatsAreHeard
<1>10. LastWordIsLevel'
  BY <1>3, <1>4 DEF LastWordIsLevel
<1>11. UnsaidIsUnheard'
  BY DEF UnsaidIsUnheard
<1> QED BY <1>6, <1>7, <1>8, <1>9, <1>10, <1>11 DEF JoinInv

\* A message that arrives is the level, or it was sent before the last change,
\* which is then less than a delay ago.
LEMMA ArrivesInv == ASSUME JoinInv, NEW i \in DOMAIN link, Arrives(i) PROVE JoinInv'
<1>1. JoinTypeOK /\ BeaconTypeOK /\ TopicIsDeclared /\ OldIsOld /\ BeatsAreHeard
      /\ LastWordIsLevel /\ UnsaidIsUnheard
  BY DEF JoinInv, JoinTypeOK
<1>2. Receive(i) /\ UNCHANGED <<topic, calm, news, whole>> /\ BeaconTypeOK'
  BY <1>1, BeaconStepType DEF Arrives, BeaconStep
<1>3. /\ Len(link) \in Nat /\ DOMAIN link = 1..Len(link) /\ calm \in 0..Horizon
      /\ Horizon \in Nat /\ MaxDelay \in Nat /\ Beat \in Nat
      /\ link[i].level \in Level /\ link[i].age \in 0..MaxDelay
  BY <1>1, LinkFacts DEF JoinTypeOK
<1>4. /\ link' \in Seq(Message) /\ Len(link') = Len(link) - 1
      /\ \A j \in 1..Len(link) - 1 : link'[j] = link[IF j < i THEN j ELSE j + 1]
      /\ latest'.value = link[i].level /\ latest'.age = 0
      /\ UNCHANGED <<up, level, due, kind>> /\ (i = 1 \/ kind.reorders)
  BY <1>1, <1>2, OneArrives
<1>5. \A j \in DOMAIN link' : \E k \in DOMAIN link : link'[j] = link[k]
  BY <1>1, <1>2, OthersStay
<1>6. JoinTypeOK' /\ TopicIsDeclared'
  BY <1>1, <1>2, <1>4 DEF JoinTypeOK, TopicIsDeclared
<1>7. OldIsOld'
  <2>1. ASSUME NEW j \in DOMAIN link', link'[j].level # level' \/ ~up' \/ ~topic'.again
        PROVE  calm' <= link'[j].age
    BY <1>1, <1>2, <1>4, <1>5, <2>1 DEF OldIsOld
  <2>2. ASSUME ~up' PROVE calm' <= latest'.age + MaxDelay
    <3>1. calm <= link[i].age
      BY <1>1, <1>4, <2>2 DEF OldIsOld
    <3> QED BY <1>2, <1>3, <1>4, <3>1
  <2> QED BY <2>1, <2>2 DEF OldIsOld
<1>8. BeatsAreHeard'
  <2>1. ASSUME up', topic'.again
        PROVE  /\ latest'.value # NoLevel /\ latest'.age <= Since'
               /\ calm' <= MaxDelay + Since' \/ latest'.value = level'
    <3>1. Since' \in Int /\ 0 <= Since'
      BY <1>2, SinceFactsNext
    <3>2. latest'.value # NoLevel
      BY <1>3, <1>4, BeaconAssumption
    <3>3. link[i].level # level => calm <= link[i].age
      BY <1>1 DEF OldIsOld
    <3>4. calm' <= MaxDelay + Since' \/ latest'.value = level'
      <4>1. CASE link[i].level = level
        BY <1>4, <4>1
      <4>2. CASE link[i].level # level
        <5>1. calm <= link[i].age /\ calm' = calm
          BY <1>2, <3>3, <4>2
        <5>2. calm \in Nat /\ MaxDelay \in Nat /\ link[i].age \in Nat /\ link[i].age <= MaxDelay
          BY <1>3
        <5>3. calm <= MaxDelay
          BY <5>1, <5>2
        <5>4. \A n \in Int : 0 <= n => calm <= MaxDelay + n
          BY <5>2, <5>3
        <5> QED BY <3>1, <5>1, <5>4
      <4> QED BY <4>1, <4>2
    <3> QED BY <1>4, <3>1, <3>2, <3>4
  <2> QED BY <2>1 DEF BeatsAreHeard
<1>9. LastWordIsLevel'
  <2>1. SUFFICES ASSUME whole', ~kind'.reorders, topic'.latched \/ news'
        PROVE IF link' = <<>> THEN latest'.value = level' ELSE link'[Len(link')].level = level'
    BY DEF LastWordIsLevel
  <2>2. i = 1 /\ link # <<>> /\ link[Len(link)].level = level
    BY <1>1, <1>2, <1>3, <1>4, <2>1, EmptySeq DEF LastWordIsLevel
  <2>3. CASE Len(link) = 1
    <3>1. link' = <<>>
      BY <1>4, <2>3, EmptySeq
    <3> QED BY <1>4, <2>2, <2>3, <3>1
  <2>4. CASE Len(link) # 1
    <3>1. link' # <<>> /\ link'[Len(link')] = link[Len(link)]
      BY <1>3, <1>4, <2>2, <2>4, EmptySeq
    <3> QED BY <1>4, <2>2, <3>1
  <2> QED BY <2>3, <2>4
<1>10. UnsaidIsUnheard'
  <2>1. link # <<>>
    BY <1>3, EmptySeq
  <2> QED BY <1>1, <1>2, <2>1 DEF UnsaidIsUnheard
<1> QED BY <1>6, <1>7, <1>8, <1>9, <1>10 DEF JoinInv

\* After a loss everything is to be waited for anew, if anybody sends.
LEMMA LossInv == ASSUME JoinInv, NEW i \in DOMAIN link, Loss(i) PROVE JoinInv'
<1>1. JoinTypeOK /\ BeaconTypeOK /\ TopicIsDeclared /\ OldIsOld /\ BeatsAreHeard
      /\ LastWordIsLevel /\ UnsaidIsUnheard
  BY DEF JoinInv, JoinTypeOK
<1>2. /\ Lose(i) /\ UNCHANGED <<topic, news>> /\ whole' = FALSE
      /\ calm' = (IF up THEN 0 ELSE calm) /\ BeaconTypeOK'
  BY <1>1, BeaconStepType DEF Loss, BeaconStep
<1>3. /\ Len(link) \in Nat /\ DOMAIN link = 1..Len(link) /\ calm \in 0..Horizon
      /\ Horizon \in Nat /\ MaxDelay \in Nat /\ Beat \in Nat
      /\ \A j \in DOMAIN link : link[j].age \in Nat
      /\ latest.age \in Nat
  BY <1>1, LinkFacts DEF JoinTypeOK
<1>4. UNCHANGED <<up, level, due, kind, latest>>
  BY <1>1, <1>2, OneIsLost
<1>5. \A j \in DOMAIN link' : \E k \in DOMAIN link : link'[j] = link[k]
  BY <1>1, <1>2, OthersStay
<1>6. JoinTypeOK' /\ TopicIsDeclared'
  <2>1. whole' \in BOOLEAN
    BY <1>2
  <2>2. calm' \in 0..Horizon
    BY <1>2, <1>3
  <2>3. TopicIsDeclared'
    BY <1>1, <1>2, <1>4 DEF TopicIsDeclared
  <2> QED BY <1>1, <1>2, <2>1, <2>2, <2>3 DEF JoinTypeOK
<1>7. OldIsOld'
  <2>1. ASSUME NEW j \in DOMAIN link', link'[j].level # level' \/ ~up' \/ ~topic'.again
        PROVE  calm' <= link'[j].age
    <3>1. PICK k \in DOMAIN link : link'[j] = link[k]
      BY <1>5
    <3>2. CASE up
      BY <1>2, <1>3, <3>1, <3>2
    <3>3. CASE ~up
      BY <1>1, <1>2, <3>1, <3>3 DEF OldIsOld
    <3> QED BY <3>2, <3>3
  <2>2. ASSUME ~up', latest'.value # NoLevel PROVE calm' <= latest'.age + MaxDelay
    BY <1>1, <1>2, <1>4, <2>2 DEF OldIsOld
  <2> QED BY <2>1, <2>2 DEF OldIsOld
<1>8. BeatsAreHeard'
  <2>1. Since' \in Int /\ 0 <= Since'
    BY <1>2, SinceFactsNext
  <2>2. ASSUME up' PROVE calm' <= Since' /\ calm' <= MaxDelay + Since'
    <3>1. calm' = 0
      BY <1>2, <1>4, <2>2
    <3>2. PICK n \in Int : n = Since'
      BY <2>1
    <3>3. 0 <= n
      BY <2>1, <3>2
    <3>4. MaxDelay \in Nat
      BY <1>3
    <3>5. 0 <= MaxDelay + n
      BY <3>3, <3>4
    <3> QED BY <3>1, <3>2, <3>3, <3>5, Zenon
  <2> QED BY <2>2 DEF BeatsAreHeard
<1>9. LastWordIsLevel'
  BY <1>2 DEF LastWordIsLevel
<1>10. UnsaidIsUnheard'
  <2>1. link # <<>>
    BY <1>3, EmptySeq
  <2> QED BY <1>1, <1>2, <2>1 DEF UnsaidIsUnheard
<1> QED BY <1>6, <1>7, <1>8, <1>9, <1>10 DEF JoinInv

\* Time makes what is under way as much older as the last change.
LEMMA TimePassesInv == ASSUME JoinInv, TimePasses PROVE JoinInv'
<1>1. JoinTypeOK /\ BeaconTypeOK /\ TopicIsDeclared /\ OldIsOld /\ BeatsAreHeard
      /\ LastWordIsLevel /\ UnsaidIsUnheard
  BY DEF JoinInv, JoinTypeOK
<1>2. Tick /\ calm' = Older(calm) /\ UNCHANGED <<topic, news, whole>> /\ BeaconTypeOK'
  BY <1>1, BeaconStepType DEF TimePasses, BeaconStep
<1>3. /\ Len(link) \in Nat /\ DOMAIN link = 1..Len(link) /\ calm \in 0..Horizon /\ calm \in Nat
      /\ Horizon \in Nat /\ MaxDelay \in Nat /\ Beat \in Nat /\ due \in Nat
      /\ latest.age \in 0..Horizon /\ latest.age \in Nat /\ link \in Seq(Message)
      /\ \A i \in DOMAIN link : link[i].age \in Nat
  BY <1>1, LinkFacts DEF JoinTypeOK
<1>4. /\ link' \in Seq(Message) /\ Len(link') = Len(link)
      /\ \A i \in DOMAIN link : /\ link'[i].level = link[i].level
                                /\ link'[i].age = link[i].age + 1
      /\ latest'.value = latest.value /\ latest'.age = Older(latest.age)
      /\ UNCHANGED <<up, level, kind>>
      /\ IF up /\ kind.beats THEN due > 0 /\ due' = due - 1 ELSE due' = due
  BY <1>1, <1>2, AllAge
<1>5. DOMAIN link' = DOMAIN link /\ (link' = <<>> <=> link = <<>>)
  BY <1>3, <1>4, LenProperties, EmptySeq
<1>6. calm' \in 0..Horizon /\ calm' \in Nat /\ calm' <= calm + 1
  BY <1>2, <1>3, OlderFacts
<1>7. JoinTypeOK'
  BY <1>1, <1>2, <1>6 DEF JoinTypeOK
<1>8. TopicIsDeclared'
  BY <1>1, <1>2, <1>4 DEF TopicIsDeclared
<1>9. latest'.age = latest.age + 1 \/ latest'.age = Horizon
  BY <1>3, <1>4, OlderFacts
<1>10. OldIsOld'
  <2>1. ASSUME NEW i \in DOMAIN link', link'[i].level # level' \/ ~up' \/ ~topic'.again
        PROVE  calm' <= link'[i].age
    <3>1. calm <= link[i].age
      BY <1>1, <1>2, <1>4, <1>5, <2>1 DEF OldIsOld
    <3>2. link[i].age \in Nat /\ link'[i].age = link[i].age + 1
      BY <1>3, <1>4, <1>5
    <3> QED BY <1>3, <1>6, <3>1, <3>2
  <2>2. ASSUME ~up', latest'.value # NoLevel PROVE calm' <= latest'.age + MaxDelay
    <3>1. calm <= latest.age + MaxDelay
      BY <1>1, <1>4, <2>2 DEF OldIsOld
    <3> QED BY <1>3, <1>6, <1>9, <3>1
  <2> QED BY <2>1, <2>2 DEF OldIsOld
<1>11. BeatsAreHeard'
  <2>1. SUFFICES ASSUME up', topic'.again
        PROVE  /\ calm' <= Since' \/ (latest'.value # NoLevel /\ latest'.age <= Since')
               /\ calm' <= MaxDelay + Since' \/ latest'.value = level'
    BY DEF BeatsAreHeard
  <2>2. up /\ kind.beats /\ topic.again
    BY <1>1, <1>2, <1>4, <2>1 DEF TopicIsDeclared
  <2>3. Since \in Int /\ Since' = Since + 1
    <3>1. Since \in Int
      BY <1>1, SinceFacts
    <3>2. CASE link = <<>>
      <4>1. due' = due - 1
        BY <1>4, <2>2
      <4> QED BY <1>3, <1>5, <3>2, <4>1 DEF Since
    <3>3. CASE link # <<>>
      <4>1. 1 \in DOMAIN link
        BY <1>1, <3>3, SinceFacts
      <4>2. link'[1].age = link[1].age + 1 /\ link[1].age \in Nat
        BY <1>3, <1>4, <4>1
      <4> QED BY <1>3, <1>5, <3>3, <4>2 DEF Since
    <3> QED BY <3>1, <3>2, <3>3
  <2>4. /\ calm <= Since \/ (latest.value # NoLevel /\ latest.age <= Since)
        /\ calm <= MaxDelay + Since \/ latest.value = level
    BY <1>1, <2>2 DEF BeatsAreHeard
  <2>5. latest'.age <= latest.age + 1 /\ latest'.age \in Int
    <3>1. Older(latest.age) \in 0..Horizon /\ Older(latest.age) <= latest.age + 1
      BY <1>3, OlderFacts
    <3> QED BY <1>3, <1>4, <3>1
  <2>6. (calm <= Since => calm' <= Since') /\ (latest.age <= Since => latest'.age <= Since')
        /\ (calm <= MaxDelay + Since => calm' <= MaxDelay + Since')
    BY <1>3, <1>6, <2>3, <2>5
  <2> QED BY <1>4, <2>4, <2>6
<1>12. LastWordIsLevel'
  <2>1. link # <<>> => link'[Len(link')].level = link[Len(link)].level
    BY <1>3, <1>4, EmptySeq
  <2> QED BY <1>1, <1>2, <1>4, <1>5, <2>1 DEF LastWordIsLevel
<1>13. UnsaidIsUnheard'
  BY <1>1, <1>2, <1>4, <1>5 DEF UnsaidIsUnheard
<1> QED BY <1>7, <1>8, <1>10, <1>11, <1>12, <1>13 DEF JoinInv

LEMMA JoinStepInv == ASSUME JoinInv, [JoinNext]_joinVars PROVE JoinInv'
<1>1. JoinTypeOK /\ BeaconTypeOK /\ TopicIsDeclared
  BY DEF JoinInv, JoinTypeOK
<1>2. ASSUME NEW l \in Level, Change(l) \/ Restart(l), news' = TRUE, whole' = TRUE, calm' = 0,
             UNCHANGED topic
      PROVE  JoinInv'
  <2>1. Send(l) /\ up' /\ level' = l /\ UNCHANGED latest
    BY <1>2 DEF Change, Restart
  <2>2. BeaconTypeOK'
    BY <1>1, <1>2, BeaconStepType DEF BeaconStep
  <2>3. whole' \in BOOLEAN
    BY <1>2
  <2> QED BY <1>2, <2>1, <2>2, <2>3, ProducerSays
<1>3. ASSUME Crash, UNCHANGED <<news, whole, topic>>, calm' = 0 PROVE JoinInv'
  <2>1. BeaconTypeOK' /\ up' = FALSE /\ UNCHANGED <<level, due, kind, link, latest>>
    BY <1>1, <1>3, BeaconStepType DEF BeaconStep, Crash
  <2>2. /\ \A i \in DOMAIN link : link[i].age \in Nat
        /\ latest.age \in Nat /\ MaxDelay \in Nat /\ Horizon \in Nat
    BY <1>1, LinkFacts
  <2>3. OldIsOld'
    BY <1>3, <2>1, <2>2 DEF OldIsOld
  <2>4. JoinTypeOK' /\ TopicIsDeclared'
    BY <1>1, <1>3, <2>1, <2>2 DEF JoinTypeOK, TopicIsDeclared
  <2>5. BeatsAreHeard'
    BY <2>1 DEF BeatsAreHeard
  <2>6. LastWordIsLevel' /\ UnsaidIsUnheard'
    BY <1>3, <2>1 DEF JoinInv, LastWordIsLevel, UnsaidIsUnheard
  <2> QED BY <2>3, <2>4, <2>5, <2>6 DEF JoinInv
<1>4. CASE SendsAgain
  <2>1. /\ Restate /\ news' = TRUE /\ UNCHANGED <<topic, calm, whole>> /\ level \in Level
        /\ whole \in BOOLEAN
    BY <1>1, <1>4 DEF SendsAgain, BeaconTypeOK, JoinTypeOK
  <2>2. /\ BeaconTypeOK' /\ Send(level) /\ up /\ up' /\ level' = level /\ UNCHANGED latest
        /\ due = 0 /\ topic.again
    BY <1>1, <2>1, BeaconStepType DEF BeaconStep, Restate, TopicIsDeclared
  <2> QED BY <2>1, <2>2, ProducerSays
<1>5. CASE UNCHANGED joinVars
  BY <1>5 DEF joinVars, beaconVars, JoinInv, JoinTypeOK, BeaconTypeOK, TopicIsDeclared, OldIsOld,
              BeatsAreHeard, Since, LastWordIsLevel, UnsaidIsUnheard
<1>6. CASE Producer
  BY <1>2, <1>3, <1>6 DEF Producer
<1> QED BY <1>4, <1>5, <1>6, ArrivesInv, LossInv, TimePassesInv DEF JoinNext

LEMMA JoinInvariant == JoinSpec => []JoinInv
<1>1. JoinInv /\ [JoinNext]_joinVars => JoinInv'
  BY JoinStepInv
<1> QED BY <1>1, JoinInitInv, PTL DEF JoinSpec

\* What it says of a subscriber whose link has had its time.
LEMMA TheyCatchUp == JoinInv => JoinersCatchUp
<1> SUFFICES ASSUME JoinInv PROVE JoinersCatchUp
  OBVIOUS
<1>1. BeaconTypeOK /\ calm \in Nat /\ Beat \in Nat /\ MaxDelay \in Nat
  BY LinkFacts DEF JoinInv, JoinTypeOK
<1>2. Since \in Int /\ Since <= Beat + MaxDelay
  BY <1>1, SinceFacts
<1>3. ASSUME up, topic.level, calm > Beat + 2 * MaxDelay, topic.again
      PROVE  latest.value = level
  <2>1. ~(calm <= MaxDelay + Since)
    BY <1>1, <1>2, <1>3
  <2> QED BY <1>3, <2>1 DEF JoinInv, BeatsAreHeard
<1>4. ASSUME up, topic.level, calm > Beat + 2 * MaxDelay, ~topic.again, whole, ~kind.reorders
      PROVE  latest.value = level
  <2>1. ASSUME link # <<>> PROVE FALSE
    <3>1. 1 \in DOMAIN link /\ link[1].age <= MaxDelay /\ link[1].age \in Nat
      BY <1>1, <2>1, SinceFacts, LinkFacts
    <3>2. calm <= link[1].age
      BY <1>4, <3>1 DEF JoinInv, OldIsOld
    <3> QED BY <1>1, <1>4, <3>1, <3>2
  <2>2. topic.latched
    BY <1>4 DEF JoinInv, TopicIsDeclared
  <2> QED BY <1>4, <2>1, <2>2 DEF JoinInv, LastWordIsLevel
<1>5. ~topic.level /\ ~news => latest.value = NoLevel
  BY DEF JoinInv, TopicIsDeclared, UnsaidIsUnheard
<1> QED BY <1>3, <1>4, <1>5 DEF JoinersCatchUp

\* Whoever joins catches up with a level, and hears no event of before: for
\* every declared topic, any beat, delay and link.
THEOREM LateJoinersCatchUp == JoinSpec => []JoinersCatchUp
BY TheyCatchUp, JoinInvariant, PTL

\* What it says of the age of what he holds.
LEMMA AgesTell == JoinInv => AgeIsHonest
<1> SUFFICES ASSUME JoinInv PROVE AgeIsHonest
  OBVIOUS
<1>1. /\ BeaconTypeOK /\ calm \in Nat /\ Beat \in Nat /\ MaxDelay \in Nat /\ latest.age \in Nat
      /\ Horizon = Within + MaxDelay + 1 /\ Within \in Nat
  BY LinkFacts DEF JoinInv, JoinTypeOK
<1>2. Since \in Int /\ Since <= Beat + MaxDelay
  BY <1>1, SinceFacts
<1>3. ASSUME ~up, calm = Horizon, latest.value # NoLevel PROVE ~(latest.age <= Within)
  <2>1. calm <= latest.age + MaxDelay
    BY <1>3 DEF JoinInv, OldIsOld
  <2> QED BY <1>1, <1>3, <2>1
<1>4. ASSUME up, topic.again, calm > Beat + 2 * MaxDelay, Beat + MaxDelay <= Within
      PROVE  latest.value # NoLevel /\ latest.age <= Within
  <2>1. ~(calm <= Since)
    BY <1>1, <1>2, <1>4
  <2>2. latest.value # NoLevel /\ latest.age <= Since
    BY <1>4, <2>1 DEF JoinInv, BeatsAreHeard
  <2> QED BY <1>1, <1>2, <1>4, <2>2
<1> QED BY <1>3, <1>4 DEF AgeIsHonest, Fresh

\* The age of a Latest tells silence from "nothing has changed", for every
\* declared topic, any window, beat, delay and link.
THEOREM AgesAreHonest == JoinSpec => []AgeIsHonest
BY AgesTell, JoinInvariant, PTL
====
