---- MODULE TiltPump_proofs ----
(***************************************************************************)
(* Proofs about TiltPump, for any postures, number of pump tasks and depth *)
(* of blocks: at most one pump, and level is the last word, which rests on *)
(* the first, because stopping the pump that _tilt_pump names is enough if *)
(* no other one is alive; and blocks that nest restore what was asked for. *)
(***************************************************************************)
EXTENDS TiltPump, SequenceTheorems, TLAPS

----
(* The inductive invariant.                                                *)

\* Whoever leaves has closed the blocks.
LeftWithoutBlocks == client # "open" => blocks = <<>>

\* A pump that was cancelled is not named any more.
NamedIsNotCancelled == pump # None => task[pump] # "cancelled"

TiltInv ==
    TiltTypeOK /\ OnePump /\ LevelIsTheLastWord /\ LeftWithoutBlocks /\ NamedIsNotCancelled

----
(* Lemmas on the parts of hold_tilt.                                       *)

\* Closing a block leaves a sequence of postures.
LEMMA RemoveAtIsSeq ==
    ASSUME NEW s \in Seq(Posture), NEW i \in DOMAIN s PROVE RemoveAt(s, i) \in Seq(Posture)
<1>1. i \in 1 .. Len(s)
  OBVIOUS
<1>2. SubSeq(s, 1, i - 1) \in Seq(Posture) /\ SubSeq(s, i + 1, Len(s)) \in Seq(Posture)
  BY <1>1
<1> QED BY <1>2 DEF RemoveAt

\* With one pump at most, stopping the one that is named leaves none.
LEMMA StopPumpStops ==
    ASSUME TiltTypeOK, \A i \in Pumps : Alive(i) => pump = i, StopPump
    PROVE  /\ pump' = None /\ task' \in [Pumps -> PumpState]
           /\ \A i \in Pumps : ~Alive(i)'
<1>1. pump \in Pumps \cup {None} /\ task \in [Pumps -> PumpState]
  BY DEF TiltTypeOK
<1>2. task' \in [Pumps -> PumpState]
  BY <1>1 DEF StopPump, PumpState
<1>3. ASSUME NEW i \in Pumps PROVE ~Alive(i)'
  <2>1. CASE Alive(i)
    <3>1. pump = i /\ i # None
      BY <2>1, PumpsAssumption DEF Pumps, None
    <3> QED BY <1>1, <2>1, <3>1 DEF StopPump, Alive
  <2>2. CASE ~Alive(i)
    BY <1>1, <2>2 DEF StopPump, Alive
  <2> QED BY <2>1, <2>2
<1> QED BY <1>2, <1>3 DEF StopPump

\* Behind EnsurePump the named pump is alive, and no other one is.
LEMMA EnsurePumpEnsures ==
    ASSUME TiltTypeOK, \A i \in Pumps : Alive(i) => pump = i, NamedIsNotCancelled, EnsurePump
    PROVE  /\ pump' \in Pumps /\ task' \in [Pumps -> PumpState]
           /\ \A i \in Pumps : Alive(i)' => pump' = i
           /\ Alive(pump)'
<1>1. pump \in Pumps \cup {None} /\ task \in [Pumps -> PumpState]
  BY DEF TiltTypeOK
<1>2. CASE pump = None \/ task[pump] = "done"
  <2>1. PICK i \in Pumps : task[i] = "done" /\ pump' = i /\ task' = [task EXCEPT ![i] = "ready"]
    BY <1>2 DEF EnsurePump
  <2>2. \A j \in Pumps : ~Alive(j)
    BY <1>1, <1>2, PumpsAssumption DEF Alive, Pumps, None
  <2> QED BY <1>1, <2>1, <2>2 DEF Alive, PumpState
<1>3. CASE ~(pump = None \/ task[pump] = "done")
  BY <1>1, <1>3 DEF EnsurePump, Alive, NamedIsNotCancelled, PumpState
<1> QED BY <1>2, <1>3

\* What hold_tilt leaves behind: a pump for a lean, and silence for level.
LEMMA HoldHolds ==
    ASSUME TiltInv, NEW p \in Posture, Hold(p)
    PROVE  /\ setpoint' = p /\ ~failed'
           /\ pump' \in Pumps \cup {None} /\ task' \in [Pumps -> PumpState]
           /\ shown' \in Posture /\ nudged' \in BOOLEAN /\ failed' \in BOOLEAN
           /\ OnePump' /\ NamedIsNotCancelled'
           /\ p = Level => shown' = Level /\ ~nudged' /\ \A i \in Pumps : ~Alive(i)'
<1>1. TiltTypeOK /\ NamedIsNotCancelled /\ \A i \in Pumps : Alive(i) => pump = i
  BY DEF TiltInv, OnePump
<1>2. setpoint' = p /\ ~failed' /\ failed' \in BOOLEAN
  BY DEF Hold
<1>3. CASE p = Level
  <2>1. /\ pump' = None /\ task' \in [Pumps -> PumpState] /\ \A i \in Pumps : ~Alive(i)'
        /\ shown' = Level /\ nudged' = FALSE
    BY <1>1, <1>3, StopPumpStops DEF Hold
  <2> QED BY <1>2, <1>3, <2>1 DEF OnePump, NamedIsNotCancelled
<1>4. CASE p # Level
  <2>1. /\ pump' \in Pumps /\ task' \in [Pumps -> PumpState]
        /\ \A i \in Pumps : Alive(i)' => pump' = i
        /\ Alive(pump)' /\ UNCHANGED frame
    BY <1>1, <1>4, EnsurePumpEnsures DEF Hold
  <2>2. OnePump' /\ NamedIsNotCancelled'
    BY <2>1, PumpsAssumption DEF OnePump, NamedIsNotCancelled, Alive, Pumps, None
  <2> QED BY <1>1, <1>2, <1>4, <2>1, <2>2 DEF TiltTypeOK, frame
<1> QED BY <1>3, <1>4

\* A call that holds something, of an open client, and what is left to show of it.
LEMMA HoldInv ==
    ASSUME TiltInv, NEW p \in Posture, Hold(p), client' \in {"open", "left", "closed"},
           blocks' \in Seq(Posture), tangled' \in BOOLEAN, standing' \in Posture,
           LeftWithoutBlocks', client' = "left" => p = Level
    PROVE  TiltInv'
<1>1. TiltTypeOK'
  BY HoldHolds DEF TiltTypeOK
<1>2. LevelIsTheLastWord'
  BY HoldHolds DEF LevelIsTheLastWord
<1> QED BY <1>1, <1>2, HoldHolds DEF TiltInv

----
(* The steps.                                                              *)

\* Nothing was held yet, and no pump exists.
LEMMA TiltInitInv == TiltInit => TiltInv
<1> SUFFICES ASSUME TiltInit PROVE TiltInv
  OBVIOUS
<1>1. TiltTypeOK
  <2>1. blocks \in Seq(Posture)
    BY DEF TiltInit
  <2>2. task \in [Pumps -> PumpState]
    BY DEF TiltInit, PumpState
  <2> QED BY <2>1, <2>2 DEF TiltInit, TiltTypeOK, Posture
<1>2. \A i \in Pumps : ~Alive(i)
  BY DEF TiltInit, Alive
<1> QED BY <1>1, <1>2 DEF TiltInit, TiltInv, OnePump, LevelIsTheLastWord, LeftWithoutBlocks, NamedIsNotCancelled

\* hold_tilt and clear_tilt.
LEMMA HoldTiltInv == ASSUME TiltInv, NEW p \in Posture, HoldTilt(p) PROVE TiltInv'
<1>1. /\ Hold(p) /\ client' = "open" /\ UNCHANGED blocks
      /\ standing' \in Posture /\ tangled' \in BOOLEAN
  BY DEF HoldTilt, Asked, TiltInv, TiltTypeOK
<1> QED BY <1>1, HoldInv DEF TiltInv, TiltTypeOK, LeftWithoutBlocks

\* The call that raised has changed the setpoint, and nothing is claimed of it.
LEMMA ZeroRateInv == ASSUME TiltInv, NEW p \in Posture, HoldTiltZeroRate(p) PROVE TiltInv'
<1>1. /\ setpoint' = p /\ failed' = TRUE /\ client = "open"
      /\ UNCHANGED <<pump, task, frame, blocks, client>>
      /\ standing' \in Posture /\ tangled' \in BOOLEAN
  BY DEF HoldTiltZeroRate, Asked, TiltInv, TiltTypeOK
<1>2. TiltTypeOK'
  BY <1>1 DEF TiltInv, TiltTypeOK, frame
<1>3. OnePump' /\ LevelIsTheLastWord' /\ LeftWithoutBlocks' /\ NamedIsNotCancelled'
  BY <1>1 DEF TiltInv, OnePump, LevelIsTheLastWord, LeftWithoutBlocks, NamedIsNotCancelled, Alive
<1> QED BY <1>2, <1>3 DEF TiltInv

\* A nudge changes the last frame only.
LEMMA NudgeInv == ASSUME TiltInv, NEW p \in Posture, Tilt(p) PROVE TiltInv'
<1>1. /\ client = "open" /\ shown' = p /\ nudged' = TRUE
      /\ UNCHANGED <<setpoint, pump, task, blocks, tangled, standing, client, failed>>
  BY DEF Tilt, held, scope
<1>2. TiltTypeOK'
  BY <1>1 DEF TiltInv, TiltTypeOK
<1>3. OnePump' /\ LevelIsTheLastWord' /\ LeftWithoutBlocks' /\ NamedIsNotCancelled'
  BY <1>1 DEF TiltInv, OnePump, LevelIsTheLastWord, LeftWithoutBlocks, NamedIsNotCancelled, Alive
<1> QED BY <1>2, <1>3 DEF TiltInv

\* Entering a block holds its posture and adds to what will be restored.
LEMMA EnterInv == ASSUME TiltInv, NEW p \in Posture, EnterTilting(p) PROVE TiltInv'
<1>1. /\ Hold(p) /\ client' = "open" /\ UNCHANGED <<standing, tangled>>
      /\ blocks' \in Seq(Posture)
  BY DEF EnterTilting, TiltInv, TiltTypeOK
<1> QED BY <1>1, HoldInv DEF TiltInv, TiltTypeOK, LeftWithoutBlocks

\* A block is closed on an open client only.
LEMMA ExitInv == ASSUME TiltInv, NEW i \in DOMAIN blocks, ExitTilting(i) PROVE TiltInv'
<1>1. blocks \in Seq(Posture) /\ blocks[i] \in Posture /\ client = "open"
  BY DEF TiltInv, TiltTypeOK, LeftWithoutBlocks
<1>2. /\ Hold(blocks[i]) /\ client' = "open" /\ UNCHANGED standing
      /\ tangled' \in BOOLEAN
  BY <1>1 DEF ExitTilting
<1>3. blocks' \in Seq(Posture)
  BY <1>1, RemoveAtIsSeq DEF ExitTilting
<1> QED BY <1>1, <1>2, <1>3, HoldInv DEF TiltInv, TiltTypeOK, LeftWithoutBlocks

\* A pump that publishes is alive, so that the setpoint is a lean or a call has
\* raised, and the client was not left.
LEMMA PublishInv == ASSUME TiltInv, NEW i \in Pumps, PumpPublishes(i) PROVE TiltInv'
<1>1. /\ task[i] = "ready" /\ shown' = setpoint /\ nudged' = FALSE
      /\ task' = [task EXCEPT ![i] = "asleep"]
      /\ UNCHANGED <<setpoint, pump, blocks, tangled, standing, client, failed>>
  BY DEF PumpPublishes, scope
<1>2. TiltTypeOK /\ Alive(i) /\ client # "left"
  BY <1>1 DEF TiltInv, Alive, LevelIsTheLastWord
<1>3. TiltTypeOK'
  BY <1>1, <1>2 DEF TiltTypeOK, PumpState
<1>4. \A j \in Pumps : Alive(j)' <=> Alive(j)
  BY <1>1, <1>2 DEF TiltTypeOK, Alive
<1>5. OnePump'
  BY <1>1, <1>2, <1>4 DEF TiltInv, OnePump, TiltTypeOK, Alive
<1>6. LevelIsTheLastWord' /\ LeftWithoutBlocks' /\ NamedIsNotCancelled'
  BY <1>1, <1>2, <1>4 DEF TiltInv, LevelIsTheLastWord, LeftWithoutBlocks, NamedIsNotCancelled, TiltTypeOK
<1> QED BY <1>3, <1>5, <1>6 DEF TiltInv

\* A timer changes where a pump is, not whether it is alive.
LEMMA TimerInv == ASSUME TiltInv, NEW i \in Pumps, PumpTimer(i) PROVE TiltInv'
<1>1. /\ task[i] = "asleep" /\ task' = [task EXCEPT ![i] = "ready"]
      /\ UNCHANGED <<setpoint, pump, shown, nudged, blocks, tangled, standing, client, failed>>
  BY DEF PumpTimer, frame, scope
<1>2. TiltTypeOK /\ TiltTypeOK'
  BY <1>1 DEF TiltInv, TiltTypeOK, PumpState
<1>3. \A j \in Pumps : Alive(j)' <=> Alive(j)
  BY <1>1, <1>2 DEF TiltTypeOK, Alive
<1>4. OnePump'
  BY <1>1, <1>2, <1>3 DEF TiltInv, OnePump, TiltTypeOK, Alive
<1>5. LevelIsTheLastWord' /\ LeftWithoutBlocks' /\ NamedIsNotCancelled'
  BY <1>1, <1>2, <1>3 DEF TiltInv, LevelIsTheLastWord, LeftWithoutBlocks, NamedIsNotCancelled, TiltTypeOK
<1> QED BY <1>2, <1>4, <1>5 DEF TiltInv

\* A pump that ends was cancelled, and is not the named one.
LEMMA EndInv == ASSUME TiltInv, NEW i \in Pumps, PumpEnds(i) PROVE TiltInv'
<1>1. /\ task[i] = "cancelled" /\ task' = [task EXCEPT ![i] = "done"]
      /\ UNCHANGED <<setpoint, pump, shown, nudged, blocks, tangled, standing, client, failed>>
  BY DEF PumpEnds, frame, scope
<1>2. TiltTypeOK /\ TiltTypeOK'
  BY <1>1 DEF TiltInv, TiltTypeOK, PumpState
<1>3. \A j \in Pumps : Alive(j)' <=> Alive(j)
  BY <1>1, <1>2 DEF TiltTypeOK, Alive
<1>4. OnePump'
  BY <1>1, <1>2, <1>3 DEF TiltInv, OnePump, TiltTypeOK, Alive
<1>5. LevelIsTheLastWord' /\ LeftWithoutBlocks' /\ NamedIsNotCancelled'
  BY <1>1, <1>2, <1>3 DEF TiltInv, LevelIsTheLastWord, LeftWithoutBlocks, NamedIsNotCancelled, TiltTypeOK
<1> QED BY <1>2, <1>4, <1>5 DEF TiltInv

\* A pump that dies has published nothing, and may still be the named one.
LEMMA DieInv == ASSUME TiltInv, NEW i \in Pumps, PumpDies(i) PROVE TiltInv'
<1>1. /\ task[i] = "ready" /\ task' = [task EXCEPT ![i] = "done"] /\ failed' = TRUE
      /\ UNCHANGED <<setpoint, pump, shown, nudged, blocks, tangled, standing, client>>
  BY DEF PumpDies, frame, scope
<1>2. TiltTypeOK /\ TiltTypeOK' /\ client # "left"
  BY <1>1 DEF TiltInv, TiltTypeOK, PumpState, LevelIsTheLastWord, Alive
<1>3. \A j \in Pumps : Alive(j)' => Alive(j)
  BY <1>1, <1>2 DEF TiltTypeOK, Alive
<1>4. OnePump' /\ LevelIsTheLastWord' /\ LeftWithoutBlocks'
  BY <1>1, <1>2, <1>3 DEF TiltInv, OnePump, LevelIsTheLastWord, LeftWithoutBlocks
<1>5. NamedIsNotCancelled'
  BY <1>1, <1>2 DEF TiltInv, NamedIsNotCancelled, TiltTypeOK
<1> QED BY <1>2, <1>4, <1>5 DEF TiltInv

\* __aexit__ of the client holds level, outside every block.
LEMMA LeaveInv == ASSUME TiltInv, LeaveClient PROVE TiltInv'
<1>1. /\ Hold(Level) /\ blocks = <<>> /\ UNCHANGED blocks /\ client' = "left"
      /\ standing' = Level /\ tangled' = FALSE
  BY DEF LeaveClient
<1> QED BY <1>1, HoldInv DEF TiltInv, TiltTypeOK, LeftWithoutBlocks, Posture

\* A loop that is closed leaves no pump, whatever is still held.
LEMMA CloseInv == ASSUME TiltInv, LeaveConnect PROVE TiltInv'
<1>1. /\ blocks = <<>> /\ client = "open" /\ client' = "closed" /\ task' = [i \in Pumps |-> "done"]
      /\ UNCHANGED <<setpoint, pump, shown, nudged, blocks, tangled, standing, failed>>
  BY DEF LeaveConnect, frame
<1>2. TiltTypeOK' /\ \A i \in Pumps : ~Alive(i)'
  BY <1>1 DEF TiltInv, TiltTypeOK, PumpState, Alive
<1>3. OnePump' /\ LevelIsTheLastWord' /\ LeftWithoutBlocks'
  BY <1>1, <1>2 DEF TiltInv, OnePump, LevelIsTheLastWord, LeftWithoutBlocks
<1>4. NamedIsNotCancelled'
  BY <1>1, <1>2 DEF TiltInv, NamedIsNotCancelled, TiltTypeOK
<1> QED BY <1>2, <1>3, <1>4 DEF TiltInv

\* Every step keeps the invariant.
LEMMA TiltStepInv == TiltInv /\ [TiltNext]_tiltVars => TiltInv'
<1> SUFFICES ASSUME TiltInv, [TiltNext]_tiltVars PROVE TiltInv'
  OBVIOUS
<1>1. ASSUME NEW p \in Posture, HoldTilt(p) \/ HoldTiltZeroRate(p) \/ Tilt(p) \/ EnterTilting(p)
      PROVE  TiltInv'
  BY <1>1, HoldTiltInv, ZeroRateInv, NudgeInv, EnterInv
<1>2. ASSUME NEW i \in DOMAIN blocks, ExitTilting(i) PROVE TiltInv'
  BY <1>2, ExitInv
<1>3. ASSUME NEW i \in Pumps, PumpStep(i) \/ PumpTimer(i) PROVE TiltInv'
  BY <1>3, PublishInv, TimerInv, EndInv, DieInv DEF PumpStep
<1>4. CASE LeaveClient \/ LeaveConnect
  BY <1>4, LeaveInv, CloseInv
<1>5. CASE UNCHANGED tiltVars
  BY <1>5 DEF tiltVars, held, frame, scope, TiltInv, TiltTypeOK, OnePump, LevelIsTheLastWord,
              LeftWithoutBlocks, NamedIsNotCancelled, Alive
<1> QED BY <1>1, <1>2, <1>3, <1>4, <1>5 DEF TiltNext

----
(* The theorems.                                                           *)

\* Through every call of every coroutine, the pump tasks and the ways to leave
\* the client, the strengthened invariant holds: hold_tilt finds it at its start.
THEOREM TiltInvariant == TiltSpec => []TiltInv
BY TiltInitInv, TiltStepInv, PTL DEF TiltSpec

\* At most one pump is alive, and a lean that was asked for has one, for any
\* number of calls, blocks, cancelled and failed pumps.
THEOREM OnePumpAtMost == TiltSpec => []OnePump
<1>1. TiltInv => OnePump
  BY DEF TiltInv
<1> QED BY <1>1, TiltInvariant, PTL

\* Nothing is published behind the levelling frame, and a client that was left
\* through __aexit__ stays level.
THEOREM LevelStands == TiltSpec => []LevelIsTheLastWord
<1>1. TiltInv => LevelIsTheLastWord
  BY DEF TiltInv
<1> QED BY <1>1, TiltInvariant, PTL

----
(* Blocks that nest. Not all of it follows from what TiltInv says of the   *)
(* pump, so that it is an invariant of its own beside the types.           *)

\* As long as blocks were closed in order, the outermost open one will restore
\* what was asked for before it, and with none open that is held.
OutermostRestores ==
    ~tangled => IF blocks = <<>> THEN setpoint = standing ELSE blocks[1] = standing

\* A block goes on top of those that are open.
LEMMA OutermostStays ==
    ASSUME NEW s \in Seq(Posture), NEW p \in Posture
    PROVE  /\ Append(s, p) # <<>>
           /\ Append(s, p)[1] = IF s = <<>> THEN p ELSE s[1]
<1>1. /\ Len(s) \in Nat /\ Len(Append(s, p)) = Len(s) + 1 /\ (s = <<>> <=> Len(s) = 0)
      /\ \A i \in 1..Len(s) : Append(s, p)[i] = s[i]
      /\ Append(s, p)[Len(s) + 1] = p
  BY AppendProperties, EmptySeq
<1>2. CASE s = <<>>
  BY <1>1, <1>2
<1>3. CASE s # <<>>
  <2>1. 1 \in 1..Len(s)
    BY <1>1, <1>3
  <2> QED BY <1>1, <1>3, <2>1
<1>4. Append(s, p) # <<>>
  <2>1. Len(Append(s, p)) # 0
    BY <1>1
  <2> QED BY <2>1, EmptySeq
<1> QED BY <1>2, <1>3, <1>4

\* The innermost block is taken off: it was the only one, or the outermost is
\* still there.
LEMMA InnermostGoes ==
    ASSUME NEW s \in Seq(Posture), s # <<>>
    PROVE  LET r == RemoveAt(s, Len(s)) IN IF r = <<>> THEN Len(s) = 1 ELSE r[1] = s[1]
<1> DEFINE n == Len(s)
           r == RemoveAt(s, n)
<1>1. n \in Nat \ {0} /\ \A i \in 1..n : s[i] \in Posture
  BY EmptySeq, ElementOfSeq
<1>2. SubSeq(s, n + 1, n) = <<>>
  BY <1>1, SubSeqEmpty
<1>3. /\ SubSeq(s, 1, n - 1) \in Seq(Posture)
      /\ Len(SubSeq(s, 1, n - 1)) = IF 1 <= n - 1 THEN (n - 1) - 1 + 1 ELSE 0
      /\ \A i \in 1..(n - 1) - 1 + 1 : SubSeq(s, 1, n - 1)[i] = s[1 + i - 1]
  <2>1. \A i \in 1..n - 1 : s[i] \in Posture
    BY <1>1
  <2>2. 1 \in Int /\ n - 1 \in Int
    BY <1>1
  <2> QED BY <2>1, <2>2, SubSeqProperties
<1>4. r = SubSeq(s, 1, n - 1)
  BY <1>2, <1>3, ConcatEmptySeq DEF RemoveAt
<1>5. CASE n = 1
  <2>1. n - 1 < 1 /\ 1 \in Int /\ n - 1 \in Int
    BY <1>5
  <2>2. SubSeq(s, 1, n - 1) = <<>>
    BY <2>1, SubSeqEmpty
  <2>3. r = <<>>
    BY <1>4, <2>2
  <2> QED BY <1>5, <2>3
<1>6. CASE n # 1
  <2>1. Len(r) # 0 /\ r[1] = s[1]
    <3> HIDE DEF n
    <3>1. 1 <= n - 1 /\ 1 \in 1..(n - 1) - 1 + 1 /\ 1 + 1 - 1 = 1 /\ (n - 1) - 1 + 1 # 0
      BY <1>1, <1>6
    <3> QED BY <1>3, <1>4, <3>1
  <2>2. r # <<>>
    BY <2>1, EmptySeq
  <2> QED BY <2>1, <2>2
<1> QED BY <1>5, <1>6

LEMMA RestoreStep ==
    ASSUME TiltTypeOK, OutermostRestores, [TiltNext]_tiltVars PROVE OutermostRestores'
<1>1. /\ blocks \in Seq(Posture) /\ setpoint \in Posture /\ tangled \in BOOLEAN
  BY DEF TiltTypeOK
<1>2. ASSUME NEW p \in Posture, HoldTilt(p) \/ HoldTiltZeroRate(p) PROVE OutermostRestores'
  <2>1. setpoint' = p /\ blocks' = blocks
        /\ IF blocks = <<>> THEN standing' = p ELSE UNCHANGED <<standing, tangled>>
    BY <1>2 DEF HoldTilt, HoldTiltZeroRate, Hold, Asked
  <2> QED BY <2>1 DEF OutermostRestores
<1>3. ASSUME NEW p \in Posture, EnterTilting(p) PROVE OutermostRestores'
  <2>1. blocks' = Append(blocks, setpoint) /\ UNCHANGED <<tangled, standing>>
    BY <1>3 DEF EnterTilting
  <2>2. blocks' # <<>> /\ blocks'[1] = IF blocks = <<>> THEN setpoint ELSE blocks[1]
    BY <1>1, <2>1, OutermostStays
  <2> QED BY <2>1, <2>2 DEF OutermostRestores
<1>4. ASSUME NEW i \in DOMAIN blocks, ExitTilting(i) PROVE OutermostRestores'
  <2>1. /\ blocks' = RemoveAt(blocks, i) /\ setpoint' = blocks[i] /\ standing' = standing
        /\ tangled' = (tangled \/ i # Len(blocks))
    BY <1>4 DEF ExitTilting, Hold
  <2>2. SUFFICES ASSUME ~tangled'
                 PROVE  IF blocks' = <<>> THEN setpoint' = standing' ELSE blocks'[1] = standing'
    BY DEF OutermostRestores
  <2>3. ~tangled /\ i = Len(blocks)
    BY <2>1, <2>2
  <2>4. blocks # <<>>
    BY <1>4
  <2>5. IF blocks' = <<>> THEN Len(blocks) = 1 ELSE blocks'[1] = blocks[1]
    BY <1>1, <2>1, <2>3, <2>4, InnermostGoes
  <2>6. blocks[1] = standing
    BY <2>3, <2>4 DEF OutermostRestores
  <2> QED BY <2>1, <2>3, <2>5, <2>6
<1>5. CASE LeaveClient
  BY <1>5 DEF LeaveClient, Hold, OutermostRestores
<1>6. ASSUME UNCHANGED <<setpoint, blocks, tangled, standing>> PROVE OutermostRestores'
  BY <1>6 DEF OutermostRestores
<1>7. ASSUME NEW p \in Posture, Tilt(p) PROVE OutermostRestores'
  BY <1>6, <1>7 DEF Tilt, held, scope
<1>8. ASSUME NEW i \in Pumps, PumpStep(i) \/ PumpTimer(i) PROVE OutermostRestores'
  BY <1>6, <1>8 DEF PumpStep, PumpPublishes, PumpEnds, PumpDies, PumpTimer, scope
<1>9. CASE LeaveConnect \/ UNCHANGED tiltVars
  BY <1>6, <1>9 DEF LeaveConnect, tiltVars, held, scope
<1> QED BY <1>2, <1>3, <1>4, <1>5, <1>7, <1>8, <1>9 DEF TiltNext

\* With every block closed, the posture is the one asked for outside of them,
\* however deep they nested (client.py:489-491, 498-503).
THEOREM BlocksAreRestored == TiltSpec => []BlocksRestore
<1>1. TiltInit => OutermostRestores
  BY DEF TiltInit, OutermostRestores
<1>2. TiltInv /\ OutermostRestores /\ [TiltNext]_tiltVars => OutermostRestores'
  BY RestoreStep DEF TiltInv
<1>3. OutermostRestores => BlocksRestore
  BY DEF OutermostRestores, BlocksRestore
<1> QED BY <1>1, <1>2, <1>3, TiltInvariant, PTL DEF TiltSpec
====
