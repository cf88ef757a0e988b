---- MODULE FakeNav_proofs ----
(***************************************************************************)
(* Proofs about FakeNav, for any number of tasks, any durations and any    *)
(* test, where a preempting submit meets a loop that wakes a runner in one *)
(* hop: one task at a time, one result each, and a confirmed cancel kept,  *)
(* whatever submits, timers and the test do in between; and as long as     *)
(* submits come one at a time, FakeNav implements TaskLedger.              *)
(***************************************************************************)
EXTENDS FakeNav, FiniteSetTheorems, SequenceTheorems, TLAPS

----
(* The ready queue.                                                        *)

\* Where the handles of a runner and those of sleeping submits are.
RunsIn(q, t) == {i \in DOMAIN q : q[i].kind = "run" /\ q[i].task = t}
SubmitsIn(q) == {i \in DOMAIN q : q[i] = SubmitHandle}

\* Exactly the runners of S are queued, each of them once.
Orderly(q, S) ==
    \A t \in Tasks :
        /\ t \in S <=> RunsIn(q, t) # {}
        /\ \A i, j \in RunsIn(q, t) : i = j

\* The runner of t is queued before every sleeping submit.
Ahead(q, t) == \E i \in RunsIn(q, t) : \A j \in SubmitsIn(q) : i < j

LEMMA HandleKinds ==
    /\ \A h \in Handle : h.kind = "submit" <=> h = SubmitHandle
    /\ \A h \in Handle : h.kind = "run" => h.task \in Tasks /\ h.hops \in 1..wakeHops
    /\ \A h \in Handle : h.kind \in {"run", "submit"}
    /\ SubmitHandle \in Handle
    /\ \A t \in Tasks, hops \in 1..wakeHops :
           RunHandle(t, hops) \in Handle /\ RunHandle(t, hops).kind = "run"
           /\ RunHandle(t, hops).task = t /\ RunHandle(t, hops) # SubmitHandle
BY DEF Handle, SubmitHandle, RunHandle

LEMMA QueueType ==
    ASSUME NEW q \in Seq(Handle)
    PROVE  /\ Len(q) \in Nat /\ DOMAIN q = 1..Len(q)
           /\ \A i \in 1..Len(q) : q[i] \in Handle
           /\ IsFiniteSet(SubmitsIn(q)) /\ Cardinality(SubmitsIn(q)) \in Nat
           /\ Cardinality(SubmitsIn(q)) = 0 <=> SubmitsIn(q) = {}
<1>1. Len(q) \in Nat /\ DOMAIN q = 1..Len(q) /\ \A i \in 1..Len(q) : q[i] \in Handle
  BY LenProperties, ElementOfSeq
<1>2. IsFiniteSet(1..Len(q)) /\ SubmitsIn(q) \in SUBSET (1..Len(q))
  BY <1>1, FS_Interval DEF SubmitsIn
<1>3. IsFiniteSet(SubmitsIn(q))
  BY <1>2, FS_Subset
<1> QED BY <1>1, <1>3, FS_CardinalityType, FS_EmptySet

\* A handle is put at the end.
LEMMA AppendIndex ==
    ASSUME NEW q \in Seq(Handle), NEW h \in Handle
    PROVE  /\ Append(q, h) \in Seq(Handle)
           /\ DOMAIN Append(q, h) = 1..Len(q) + 1 /\ DOMAIN q = 1..Len(q) /\ Len(q) \in Nat
           /\ \A i \in 1..Len(q) : Append(q, h)[i] = q[i]
           /\ Append(q, h)[Len(q) + 1] = h
<1>1. /\ Append(q, h) \in Seq(Handle) /\ Len(Append(q, h)) = Len(q) + 1
      /\ \A i \in 1..Len(q) : Append(q, h)[i] = q[i]
      /\ Append(q, h)[Len(q) + 1] = h
  BY AppendProperties
<1> QED BY <1>1, LenProperties

LEMMA AppendRun ==
    ASSUME NEW q \in Seq(Handle), NEW S, NEW t \in Tasks, NEW hops \in 1..wakeHops,
           Orderly(q, S), t \notin S
    PROVE  LET r == Append(q, RunHandle(t, hops))
           IN  /\ r \in Seq(Handle) /\ Orderly(r, S \cup {t})
               /\ SubmitsIn(r) = SubmitsIn(q)
               /\ \A u \in Tasks : Ahead(q, u) => Ahead(r, u)
<1> DEFINE r == Append(q, RunHandle(t, hops))
<1>1. RunHandle(t, hops) \in Handle /\ RunHandle(t, hops).kind = "run"
      /\ RunHandle(t, hops).task = t /\ RunHandle(t, hops) # SubmitHandle
  BY HandleKinds
<1>2. /\ r \in Seq(Handle)
      /\ DOMAIN r = 1..Len(q) + 1 /\ DOMAIN q = 1..Len(q) /\ Len(q) \in Nat
      /\ \A i \in 1..Len(q) : r[i] = q[i]
      /\ r[Len(q) + 1] = RunHandle(t, hops)
  BY <1>1, AppendIndex
<1> HIDE DEF r
<1>3. SubmitsIn(r) = SubmitsIn(q)
  BY <1>1, <1>2 DEF SubmitsIn
<1>4. \A u \in Tasks : RunsIn(r, u) = IF u = t THEN RunsIn(q, u) \cup {Len(q) + 1} ELSE RunsIn(q, u)
  BY <1>1, <1>2 DEF RunsIn
<1>5. RunsIn(q, t) = {}
  BY DEF Orderly
<1>6. Orderly(r, S \cup {t})
  BY <1>4, <1>5 DEF Orderly
<1>7. \A u \in Tasks : Ahead(q, u) => Ahead(r, u)
  BY <1>3, <1>4 DEF Ahead
<1> QED BY <1>2, <1>3, <1>6, <1>7 DEF r

LEMMA AppendSubmit ==
    ASSUME NEW q \in Seq(Handle), NEW S, Orderly(q, S)
    PROVE  LET r == Append(q, SubmitHandle)
           IN  /\ r \in Seq(Handle) /\ Orderly(r, S)
               /\ Cardinality(SubmitsIn(r)) = Cardinality(SubmitsIn(q)) + 1
               /\ \A u \in Tasks : Ahead(q, u) => Ahead(r, u)
               /\ \A u \in Tasks : u \in S /\ SubmitsIn(q) = {} => Ahead(r, u)
<1> DEFINE r == Append(q, SubmitHandle)
<1>1. SubmitHandle \in Handle /\ SubmitHandle.kind # "run"
  BY HandleKinds DEF SubmitHandle
<1>2. /\ r \in Seq(Handle)
      /\ DOMAIN r = 1..Len(q) + 1 /\ DOMAIN q = 1..Len(q) /\ Len(q) \in Nat
      /\ \A i \in 1..Len(q) : r[i] = q[i]
      /\ r[Len(q) + 1] = SubmitHandle
  BY <1>1, AppendIndex
<1> HIDE DEF r
<1>3. SubmitsIn(r) = SubmitsIn(q) \cup {Len(q) + 1} /\ Len(q) + 1 \notin SubmitsIn(q)
  BY <1>1, <1>2 DEF SubmitsIn
<1>4. \A u \in Tasks : RunsIn(r, u) = RunsIn(q, u) /\ RunsIn(q, u) \subseteq 1..Len(q)
  BY <1>1, <1>2 DEF RunsIn
<1>5. Cardinality(SubmitsIn(r)) = Cardinality(SubmitsIn(q)) + 1
  BY <1>3, QueueType, FS_AddElement
<1>6. Orderly(r, S)
  BY <1>4 DEF Orderly
<1>7. \A u \in Tasks : \A i \in RunsIn(q, u) : i < Len(q) + 1
  BY <1>2, <1>4
<1>8. \A u \in Tasks : Ahead(q, u) => Ahead(r, u)
  BY <1>3, <1>4, <1>7 DEF Ahead
<1>9. \A u \in Tasks : u \in S /\ SubmitsIn(q) = {} => Ahead(r, u)
  BY <1>3, <1>4, <1>7 DEF Ahead, Orderly
<1> QED BY <1>2, <1>5, <1>6, <1>8, <1>9 DEF r

\* The head is taken.
LEMMA TailIndex ==
    ASSUME NEW q \in Seq(Handle), q # <<>>
    PROVE  /\ Tail(q) \in Seq(Handle) /\ Head(q) = q[1] /\ Head(q) \in Handle
           /\ Len(q) \in Nat \ {0} /\ DOMAIN q = 1..Len(q) /\ DOMAIN Tail(q) = 1..Len(q) - 1
           /\ \A i \in 1..Len(q) - 1 : Tail(q)[i] = q[i + 1]
<1>1. /\ Head(q) \in Handle /\ Tail(q) \in Seq(Handle) /\ Len(Tail(q)) = Len(q) - 1
      /\ \A i \in 1..Len(Tail(q)) : Tail(q)[i] = q[i + 1]
  BY HeadTailProperties
<1>2. Len(q) \in Nat \ {0} /\ DOMAIN q = 1..Len(q) /\ DOMAIN Tail(q) = 1..Len(Tail(q))
  BY <1>1, EmptySeq, LenProperties
<1>3. Head(q) = q[1]
  OBVIOUS
<1> QED BY <1>1, <1>2, <1>3

\* What is behind the head moves up by one place.
LEMMA TailPlaces ==
    ASSUME NEW q \in Seq(Handle), q # <<>>
    PROVE  /\ \A t, i : i \in RunsIn(Tail(q), t) <=> i \in Nat \ {0} /\ i + 1 \in RunsIn(q, t)
           /\ \A i : i \in SubmitsIn(Tail(q)) <=> i \in Nat \ {0} /\ i + 1 \in SubmitsIn(q)
           /\ \A t : RunsIn(q, t) \subseteq Nat \ {0} /\ SubmitsIn(q) \subseteq Nat \ {0}
           /\ \A t : 1 \in RunsIn(q, t) <=> Head(q).kind = "run" /\ Head(q).task = t
           /\ 1 \in SubmitsIn(q) <=> Head(q) = SubmitHandle
<1>1. /\ Head(q) = q[1] /\ Len(q) \in Nat \ {0}
      /\ DOMAIN q = 1..Len(q) /\ DOMAIN Tail(q) = 1..Len(q) - 1
      /\ \A i \in 1..Len(q) - 1 : Tail(q)[i] = q[i + 1]
  BY TailIndex
<1>2. \A i : i \in DOMAIN Tail(q) <=> i \in Nat \ {0} /\ i + 1 \in DOMAIN q
  BY <1>1
<1>3. \A i \in DOMAIN Tail(q) : Tail(q)[i] = q[i + 1]
  BY <1>1
<1>4. \A t, i : i \in RunsIn(Tail(q), t) <=> i \in Nat \ {0} /\ i + 1 \in RunsIn(q, t)
  BY <1>2, <1>3 DEF RunsIn
<1>5. \A i : i \in SubmitsIn(Tail(q)) <=> i \in Nat \ {0} /\ i + 1 \in SubmitsIn(q)
  BY <1>2, <1>3 DEF SubmitsIn
<1>6. DOMAIN q \subseteq Nat \ {0} /\ 1 \in DOMAIN q
  BY <1>1
<1> QED BY <1>1, <1>4, <1>5, <1>6 DEF RunsIn, SubmitsIn

\* As many submits sleep behind the head as there are, less the head.
LEMMA ShiftedSubmits ==
    ASSUME NEW q \in Seq(Handle), q # <<>>
    PROVE  Cardinality(SubmitsIn(Tail(q))) =
               IF Head(q) = SubmitHandle THEN Cardinality(SubmitsIn(q)) - 1
                                         ELSE Cardinality(SubmitsIn(q))
<1> DEFINE behind == SubmitsIn(q) \ {1}
           shift  == [i \in SubmitsIn(Tail(q)) |-> i + 1]
<1>1. IsFiniteSet(SubmitsIn(q)) /\ IsFiniteSet(SubmitsIn(Tail(q)))
  BY QueueType, TailIndex
<1>2. shift \in Injection(SubmitsIn(Tail(q)), behind)
  <2>1. \A i \in SubmitsIn(Tail(q)) : i \in Nat \ {0} /\ i + 1 \in behind
    <3>1. \A i \in SubmitsIn(Tail(q)) : i \in Nat \ {0} /\ i + 1 \in SubmitsIn(q)
      BY TailPlaces
    <3>2. \A i \in Nat \ {0} : i + 1 # 1
      OBVIOUS
    <3> QED BY <3>1, <3>2
  <2>2. \A i, j \in SubmitsIn(Tail(q)) : i + 1 = j + 1 => i = j
    BY <2>1
  <2>3. IsInjective(shift)
    BY <2>2 DEF IsInjective
  <2> QED BY <2>1, <2>3 DEF Injection
<1>3. shift \in Surjection(SubmitsIn(Tail(q)), behind)
  <2>1. ASSUME NEW j \in behind PROVE \E i \in SubmitsIn(Tail(q)) : shift[i] = j
    <3>1. j \in Nat \ {0} /\ j # 1 /\ j \in SubmitsIn(q)
      BY TailPlaces
    <3>2. j - 1 \in Nat \ {0} /\ (j - 1) + 1 = j
      BY <3>1
    <3>3. j - 1 \in SubmitsIn(Tail(q))
      BY <3>1, <3>2, TailPlaces
    <3> QED BY <3>2, <3>3
  <2> QED BY <1>2, <2>1 DEF Injection, Surjection
<1>4. Cardinality(behind) = Cardinality(SubmitsIn(Tail(q)))
  BY <1>1, <1>2, <1>3, FS_Bijection DEF Bijection, ExistsBijection
<1>5. Cardinality(behind) = IF 1 \in SubmitsIn(q) THEN Cardinality(SubmitsIn(q)) - 1
                                                  ELSE Cardinality(SubmitsIn(q))
  BY <1>1, FS_RemoveElement
<1>6. 1 \in SubmitsIn(q) <=> Head(q) = SubmitHandle
  BY TailPlaces
<1> QED BY <1>4, <1>5, <1>6

LEMMA TailRun ==
    ASSUME NEW q \in Seq(Handle), NEW S, q # <<>>, Head(q).kind = "run", Orderly(q, S)
    PROVE  /\ Tail(q) \in Seq(Handle) /\ Head(q).task \in S
           /\ Orderly(Tail(q), S \ {Head(q).task})
           /\ Cardinality(SubmitsIn(Tail(q))) = Cardinality(SubmitsIn(q))
<1> DEFINE t == Head(q).task
<1>1. Head(q) # SubmitHandle /\ t \in Tasks /\ Tail(q) \in Seq(Handle)
  BY TailIndex, HandleKinds DEF SubmitHandle
<1>2. 1 \in RunsIn(q, t) /\ \A u \in Tasks : u # t => 1 \notin RunsIn(q, u)
  BY <1>1, TailPlaces
<1>3. t \in S /\ RunsIn(q, t) = {1}
  BY <1>1, <1>2 DEF Orderly
<1>4. \A u \in Tasks : RunsIn(Tail(q), u) # {} <=> u # t /\ RunsIn(q, u) # {}
  <2>1. RunsIn(Tail(q), t) = {}
    BY <1>3, TailPlaces
  <2>2. ASSUME NEW u \in Tasks, u # t, NEW j \in RunsIn(q, u)
        PROVE  RunsIn(Tail(q), u) # {}
    <3>1. j \in Nat \ {0} /\ j # 1
      BY <1>2, <2>2, TailPlaces
    <3>2. j - 1 \in Nat \ {0} /\ (j - 1) + 1 = j
      BY <3>1
    <3>3. j - 1 \in RunsIn(Tail(q), u)
      BY <2>2, <3>2, TailPlaces
    <3> QED BY <3>3
  <2>3. \A u \in Tasks : RunsIn(Tail(q), u) # {} => RunsIn(q, u) # {}
    BY TailPlaces
  <2> QED BY <2>1, <2>2, <2>3
<1>5. \A u \in Tasks : \A i, j \in RunsIn(Tail(q), u) : i = j
  <2> SUFFICES ASSUME NEW u \in Tasks, NEW i \in RunsIn(Tail(q), u), NEW j \in RunsIn(Tail(q), u)
               PROVE  i = j
    OBVIOUS
  <2>1. i \in Nat /\ j \in Nat /\ i + 1 \in RunsIn(q, u) /\ j + 1 \in RunsIn(q, u)
    BY TailPlaces
  <2>2. i + 1 = j + 1
    BY <2>1 DEF Orderly
  <2> QED BY <2>1, <2>2
<1>6. Orderly(Tail(q), S \ {t})
  BY <1>4, <1>5 DEF Orderly
<1>7. Cardinality(SubmitsIn(Tail(q))) = Cardinality(SubmitsIn(q))
  BY <1>1, ShiftedSubmits
<1> QED BY <1>1, <1>3, <1>6, <1>7

LEMMA TailSubmit ==
    ASSUME NEW q \in Seq(Handle), NEW S, q # <<>>, Head(q) = SubmitHandle, Orderly(q, S)
    PROVE  /\ Tail(q) \in Seq(Handle) /\ Orderly(Tail(q), S)
           /\ Cardinality(SubmitsIn(Tail(q))) = Cardinality(SubmitsIn(q)) - 1
           /\ SubmitsIn(q) # {} /\ \A t \in Tasks : ~Ahead(q, t)
<1>1. \A t \in Tasks : 1 \notin RunsIn(q, t)
  BY TailPlaces DEF SubmitHandle
<1>2. ASSUME NEW u \in Tasks, NEW j \in RunsIn(q, u) PROVE RunsIn(Tail(q), u) # {}
  <2>1. j \in Nat \ {0} /\ j # 1
    BY <1>1, <1>2, TailPlaces
  <2>2. j - 1 \in Nat \ {0} /\ (j - 1) + 1 = j
    BY <2>1
  <2>3. j - 1 \in RunsIn(Tail(q), u)
    BY <1>2, <2>2, TailPlaces
  <2> QED BY <2>3
<1>3. ASSUME NEW u \in Tasks, NEW i \in RunsIn(Tail(q), u), NEW j \in RunsIn(Tail(q), u)
      PROVE  i = j
  <2>1. i \in Nat /\ j \in Nat /\ i + 1 \in RunsIn(q, u) /\ j + 1 \in RunsIn(q, u)
    BY <1>3, TailPlaces
  <2>2. i + 1 = j + 1
    BY <2>1 DEF Orderly
  <2> QED BY <2>1, <2>2
<1>4. \A u \in Tasks : RunsIn(Tail(q), u) # {} => RunsIn(q, u) # {}
  BY TailPlaces
<1>5. Orderly(Tail(q), S)
  BY <1>2, <1>3, <1>4 DEF Orderly
<1>6. 1 \in SubmitsIn(q) /\ \A t : RunsIn(q, t) \subseteq Nat \ {0}
  BY TailPlaces
<1>7. \A t \in Tasks : ~Ahead(q, t)
  BY <1>6 DEF Ahead
<1> QED BY <1>5, <1>6, <1>7, TailIndex, ShiftedSubmits

\* Event.set puts those it wakes behind the queue, in any order.
LEMMA WokenOnce ==
    ASSUME NEW W, IsFiniteSet(W), NEW woken \in SetToSeqs(W)
    PROVE  /\ Len(woken) \in Nat /\ DOMAIN woken = 1..Len(woken)
           /\ \A i \in 1..Len(woken) : woken[i] \in W
           /\ \A i, j \in 1..Len(woken) : woken[i] = woken[j] => i = j
           /\ \A t \in W : \E i \in 1..Len(woken) : woken[i] = t
<1> DEFINE n == Cardinality(W)
<1>1. n \in Nat
  BY FS_CardinalityType
<1>2. woken \in [1..n -> W] /\ \A i, j \in 1..n : i # j => woken[i] # woken[j]
  BY DEF SetToSeqs
<1>3. woken \in Injection(1..n, W)
  BY <1>2 DEF Injection, IsInjective
<1>4. IsFiniteSet(1..n) /\ Cardinality(1..n) = n
  BY <1>1, FS_Interval
<1>5. woken \in Surjection(1..n, W)
  BY <1>3, <1>4, FS_Injection
<1>6. \A t \in W : \E i \in 1..n : woken[i] = t
  BY <1>5 DEF Surjection
<1>7. Len(woken) = n /\ DOMAIN woken = 1..n
  <2>1. woken \in Seq(W)
    BY <1>1, <1>2, SeqDef
  <2>2. DOMAIN woken = 1..n /\ DOMAIN woken = 1..Len(woken) /\ Len(woken) \in Nat
    BY <1>2, <2>1, LenProperties
  <2> QED BY <1>1, <2>2
<1> QED BY <1>1, <1>2, <1>6, <1>7

Behind(q, woken, hops) == q \o [i \in DOMAIN woken |-> RunHandle(woken[i], hops)]

LEMMA WakeAll ==
    ASSUME NEW q \in Seq(Handle), NEW S, Orderly(q, S), NEW W \in SUBSET Tasks, W \cap S = {},
           NEW woken \in SetToSeqs(W), NEW hops \in 1..wakeHops
    PROVE  /\ Behind(q, woken, hops) \in Seq(Handle)
           /\ Orderly(Behind(q, woken, hops), S \cup W)
           /\ SubmitsIn(Behind(q, woken, hops)) = SubmitsIn(q)
           /\ \A u \in Tasks : Ahead(q, u) => Ahead(Behind(q, woken, hops), u)
<1> DEFINE w == [i \in DOMAIN woken |-> RunHandle(woken[i], hops)]
           r == q \o w
<1>1. IsFiniteSet(W)
  <2>1. IsFiniteSet(Tasks)
    BY BoundsAssumption, FS_Interval DEF Tasks
  <2> QED BY <2>1, FS_Subset
<1>2. /\ Len(woken) \in Nat /\ DOMAIN woken = 1..Len(woken)
      /\ \A i \in 1..Len(woken) : woken[i] \in W
      /\ \A i, j \in 1..Len(woken) : woken[i] = woken[j] => i = j
      /\ \A t \in W : \E i \in 1..Len(woken) : woken[i] = t
  BY <1>1, WokenOnce
<1>3. \A i \in 1..Len(woken) : w[i] \in Handle /\ w[i].kind = "run" /\ w[i].task = woken[i]
                               /\ w[i] # SubmitHandle
  BY <1>2, HandleKinds
<1>4. w \in Seq(Handle) /\ Len(w) = Len(woken)
  <2>1. w \in [1..Len(woken) -> Handle]
    BY <1>2, <1>3
  <2>2. w \in Seq(Handle)
    BY <1>2, <2>1, SeqDef
  <2>3. DOMAIN w = 1..Len(w) /\ Len(w) \in Nat
    BY <2>2, LenProperties
  <2> QED BY <1>2, <2>1, <2>2, <2>3
<1> HIDE DEF w
<1>5. /\ r \in Seq(Handle) /\ DOMAIN r = 1..Len(q) + Len(woken)
      /\ Len(q) \in Nat /\ DOMAIN q = 1..Len(q)
      /\ \A i \in 1..Len(q) + Len(woken) : r[i] = IF i <= Len(q) THEN q[i] ELSE w[i - Len(q)]
  <2>1. /\ r \in Seq(Handle) /\ Len(r) = Len(q) + Len(w)
        /\ \A i \in 1..Len(q) + Len(w) : r[i] = IF i <= Len(q) THEN q[i] ELSE w[i - Len(q)]
    BY <1>4, ConcatProperties
  <2> QED BY <1>4, <2>1, LenProperties
<1> HIDE DEF r
<1>6. \A i \in 1..Len(q) : i \in DOMAIN r /\ r[i] = q[i]
  BY <1>2, <1>5
<1>7. \A k \in 1..Len(woken) : Len(q) + k \in DOMAIN r /\ r[Len(q) + k] = w[k]
  <2> SUFFICES ASSUME NEW k \in 1..Len(woken)
               PROVE  Len(q) + k \in DOMAIN r /\ r[Len(q) + k] = w[k]
    OBVIOUS
  <2>1. Len(q) + k \in 1..Len(q) + Len(woken) /\ ~(Len(q) + k <= Len(q)) /\ (Len(q) + k) - Len(q) = k
    BY <1>2, <1>5
  <2> QED BY <1>5, <2>1
<1>8. \A i \in DOMAIN r : i \in 1..Len(q) \/ \E k \in 1..Len(woken) : i = Len(q) + k
  <2> SUFFICES ASSUME NEW i \in DOMAIN r, i \notin 1..Len(q)
               PROVE  \E k \in 1..Len(woken) : i = Len(q) + k
    OBVIOUS
  <2>1. i - Len(q) \in 1..Len(woken) /\ i = Len(q) + (i - Len(q))
    BY <1>2, <1>5
  <2> QED BY <2>1
<1>9. SubmitsIn(r) = SubmitsIn(q)
  <2>1. ASSUME NEW i \in DOMAIN r, r[i] = SubmitHandle PROVE i \in 1..Len(q)
    <3>1. \A k \in 1..Len(woken) : r[Len(q) + k] # SubmitHandle
      BY <1>3, <1>7
    <3> QED BY <1>8, <2>1, <3>1
  <2> QED BY <1>5, <1>6, <2>1 DEF SubmitsIn
<1>10. \A t \in Tasks : RunsIn(r, t) =
           RunsIn(q, t) \cup {i \in DOMAIN r : \E k \in 1..Len(woken) : i = Len(q) + k /\ woken[k] = t}
  <2> SUFFICES ASSUME NEW t \in Tasks, NEW i
               PROVE  i \in RunsIn(r, t) <=>
                          \/ i \in RunsIn(q, t)
                          \/ i \in DOMAIN r /\ \E k \in 1..Len(woken) : i = Len(q) + k /\ woken[k] = t
    OBVIOUS
  <2>1. CASE i \in 1..Len(q)
    <3>1. \A k \in 1..Len(woken) : i # Len(q) + k
      BY <1>2, <1>5, <2>1
    <3> QED BY <1>5, <1>6, <2>1, <3>1 DEF RunsIn
  <2>2. CASE i \notin 1..Len(q)
    <3>1. i \notin RunsIn(q, t)
      BY <1>5, <2>2 DEF RunsIn
    <3>2. ASSUME NEW k \in 1..Len(woken), i = Len(q) + k
          PROVE  i \in RunsIn(r, t) <=> woken[k] = t
      <4>1. i \in DOMAIN r /\ r[i] = w[k]
        BY <1>7, <3>2
      <4> QED BY <1>3, <4>1 DEF RunsIn
    <3>3. i \in RunsIn(r, t) => i \in DOMAIN r
      BY DEF RunsIn
    <3> QED BY <1>8, <2>2, <3>1, <3>2, <3>3
  <2> QED BY <2>1, <2>2
<1>11. Orderly(r, S \cup W)
  <2> SUFFICES ASSUME NEW t \in Tasks
               PROVE  /\ t \in S \cup W <=> RunsIn(r, t) # {}
                      /\ \A i, j \in RunsIn(r, t) : i = j
    BY DEF Orderly
  <2>1. CASE t \in W
    <3>1. RunsIn(q, t) = {}
      BY <2>1 DEF Orderly
    <3>2. PICK k \in 1..Len(woken) : woken[k] = t
      BY <1>2, <2>1
    <3>3. RunsIn(r, t) = {Len(q) + k}
      BY <1>2, <1>7, <1>10, <3>1, <3>2
    <3> QED BY <2>1, <3>3
  <2>2. CASE t \notin W
    <3>1. RunsIn(r, t) = RunsIn(q, t)
      <4>1. \A k \in 1..Len(woken) : woken[k] # t
        BY <1>2, <2>2
      <4> QED BY <1>10, <4>1
    <3> QED BY <2>2, <3>1 DEF Orderly
  <2> QED BY <2>1, <2>2
<1>12. \A u \in Tasks : Ahead(q, u) => Ahead(r, u)
  BY <1>9, <1>10 DEF Ahead
<1> QED BY <1>5, <1>9, <1>11, <1>12 DEF r, w, Behind

----
(* The inductive invariant.                                                *)

Scheduled == {t \in Tasks : runner[t] = "scheduled"}
Alive     == {t \in Tasks : Live(t)}

\* The queue holds the runners that are scheduled, and submits only where a
\* runner is woken in one hop.
QueueFits == Orderly(ready, Scheduled) /\ (Pending # 0 => wakeHops = 1)

\* Every submit that was served is accepted or sleeps, and made one overlap at
\* most.
SubmitsFit ==
    /\ \A t \in Tasks : runner[t] = "none" <=> t > accepted
    /\ accepted + Pending <= MaxTasks
    /\ overlaps <= accepted + Pending
    /\ serial => overlaps = 0

\* The task accepted last is the active one until something calls it off, and
\* its runner does not sleep on an event that is set.
EventFits ==
    /\ active # 0 => active = accepted /\ Live(active)
    /\ isSet \subseteq 1..accepted
    /\ accepted \in isSet => ending \in Result /\ ending.task = accepted
    /\ accepted \notin isSet => active = accepted /\ ending = NoResult
    /\ \A t \in Tasks : t = accepted /\ runner[t] = "suspended" =>
           awaits[t] = accepted /\ (active # 0 => accepted \notin isSet)

\* A task has a result from the end of its runner on, and that was published.
WireFits ==
    /\ \A t \in Tasks : results[t] # NoResult <=> runner[t] = "ended"
    /\ \A i \in DOMAIN wire :
           runner[wire[i].key] = "ended" /\ results[wire[i].key] = wire[i].result
    /\ \A i, j \in DOMAIN wire : wire[i].key = wire[j].key => i = j
    /\ \A i \in DOMAIN wire : wire[i].result.task = wire[i].key \/ overlaps > 0

\* A runner or a sleeping submit for each overlap, and one more: the active
\* task, or the submit that displaces it. While the displaced runner has not
\* looked yet there are two, and then it is ahead of every submit.
LoadIs(alive, pending) ==
    /\ active = 0 /\ pending = 0 => alive <= overlaps
    /\ active = 0 /\ pending # 0 => alive + pending <= 1 + overlaps
    /\ active # 0 => \/ alive + pending <= 1 + overlaps
                     \/ /\ accepted \in isSet
                        /\ alive + pending <= 2 + overlaps
                        /\ pending # 0
                        /\ Ahead(ready, accepted)

LoadFits == LoadIs(Cardinality(Alive), Pending)

\* A confirmed cancel is on record, or is what the runner will find.
CancelFits ==
    overlaps = 0 =>
        \A t \in acked \ byHand :
            \/ results[t] # NoResult /\ results[t].state = "canceled"
            \/ t = active /\ accepted \in isSet /\ ending.state = "canceled"

FakeInv == TypeOK /\ QueueFits /\ SubmitsFit /\ EventFits /\ WireFits /\ LoadFits /\ CancelFits

----
(* What it says of numbers.                                                *)

LEMMA TasksAreNumbers ==
    /\ MaxTasks \in Nat /\ Duration \in Nat /\ IsFiniteSet(Tasks)
    /\ \A t : t \in Tasks <=> t \in Nat /\ 1 <= t /\ t <= MaxTasks
    /\ NoResult \notin Result
    /\ \A t \in Tasks, s \in TaskState \ {"running"} : [task |-> t, state |-> s] \in Result
    /\ \A r \in Result : r.task \in Tasks /\ r.state \in TaskState /\ r.state # "running"
<1>1. MaxTasks \in Nat /\ Duration \in Nat /\ Tasks = 1..MaxTasks
  BY BoundsAssumption DEF Tasks
<1>2. IsFiniteSet(Tasks)
  BY <1>1, FS_Interval
<1>3. \A t : t \in Tasks <=> t \in Nat /\ 1 <= t /\ t <= MaxTasks
  BY <1>1
<1>4. 0 \notin Tasks
  BY <1>3
<1> QED BY <1>1, <1>2, <1>3, <1>4 DEF Result, NoResult, TaskResult

LEMMA Counts ==
    ASSUME TypeOK
    PROVE  /\ IsFiniteSet(Alive) /\ Cardinality(Alive) \in Nat
           /\ \A t \in Alive : Cardinality(Alive) >= 1
           /\ Cardinality(Alive) <= 1 => \A t, u \in Alive : t = u
           /\ \A t \in Tasks \ Alive : Cardinality(Alive \cup {t}) = Cardinality(Alive) + 1
           /\ \A t \in Alive : Cardinality(Alive \ {t}) = Cardinality(Alive) - 1
           /\ Pending \in Nat /\ Pending = Cardinality(SubmitsIn(ready))
           /\ overlaps \in Nat /\ accepted \in Nat /\ active \in Nat
<1>1. IsFiniteSet(Alive) /\ Cardinality(Alive) \in Nat
  BY TasksAreNumbers, FS_Subset, FS_CardinalityType DEF Alive
<1>2. \A t \in Alive : Cardinality(Alive) # 0
  BY <1>1, FS_EmptySet
<1>3. Cardinality(Alive) = 1 => \A t, u \in Alive : t = u
  BY <1>1, FS_Singleton
<1>4. \A t \in Tasks \ Alive : Cardinality(Alive \cup {t}) = Cardinality(Alive) + 1
  BY <1>1, FS_AddElement
<1>5. \A t \in Alive : Cardinality(Alive \ {t}) = Cardinality(Alive) - 1
  BY <1>1, FS_RemoveElement
<1>6. ready \in Seq(Handle) /\ overlaps \in Nat /\ accepted \in Nat /\ active \in Nat
  BY TasksAreNumbers DEF TypeOK
<1>7. Pending \in Nat /\ Pending = Cardinality(SubmitsIn(ready))
  BY <1>6, QueueType DEF Pending, Sleeping, SubmitsIn
<1>8. \A t \in Alive : Cardinality(Alive) >= 1
  BY <1>1, <1>2
<1>9. Cardinality(Alive) <= 1 => \A t, u \in Alive : t = u
  <2>1. Cardinality(Alive) <= 1 => Cardinality(Alive) = 0 \/ Cardinality(Alive) = 1
    BY <1>1
  <2> QED BY <1>2, <1>3, <2>1
<1> QED BY <1>1, <1>4, <1>5, <1>6, <1>7, <1>8, <1>9

\* Whatever is active, a runner more than the overlaps at most.
LEMMA LoadBound ==
    ASSUME FakeInv
    PROVE  /\ Pending = 0 => Cardinality(Alive) <= 1 + overlaps
           /\ Pending # 0 => Cardinality(Alive) + Pending <= 2 + overlaps
<1>1. TypeOK /\ LoadIs(Cardinality(Alive), Pending)
  BY DEF FakeInv, LoadFits
<1>2. Cardinality(Alive) \in Nat /\ Pending \in Nat /\ overlaps \in Nat
  BY <1>1, Counts
<1> QED BY <1>1, <1>2 DEF LoadIs

LEMMA OneIsAlive ==
    ASSUME FakeInv, overlaps = 0, NEW t \in Tasks, Live(t)
    PROVE  active = t /\ accepted = t
<1>1. TypeOK /\ LoadIs(Cardinality(Alive), Pending) /\ EventFits
  BY DEF FakeInv, LoadFits
<1>2. /\ Cardinality(Alive) \in Nat /\ Pending \in Nat /\ active \in Nat
      /\ t \in Alive /\ Cardinality(Alive) >= 1
      /\ Cardinality(Alive) <= 1 => \A u, v \in Alive : u = v
  BY <1>1, Counts DEF Alive
<1>3. active # 0 /\ Cardinality(Alive) <= 1
  BY <1>1, <1>2 DEF LoadIs
<1>4. active \in Alive /\ active = accepted
  BY <1>1, <1>3 DEF EventFits, Alive, TypeOK, Tasks
<1> QED BY <1>2, <1>3, <1>4

LEMMA WireType ==
    ASSUME TypeOK
    PROVE  \A i \in DOMAIN wire : wire[i].key \in Tasks /\ wire[i].result \in Result
<1>1. wire \in Seq([key : Tasks, result : Result])
  BY DEF TypeOK
<1>2. \A i \in DOMAIN wire : wire[i] \in [key : Tasks, result : Result]
  BY <1>1, ElementOfSeq, LenProperties
<1> QED BY <1>2

LEMMA AcceptedIsTask ==
    ASSUME TypeOK, EventFits
    PROVE  /\ active # 0 => accepted \in Tasks
           /\ \A t \in Tasks : t # 0
<1>1. active \in 0..MaxTasks /\ MaxTasks \in Nat
  BY TasksAreNumbers DEF TypeOK
<1>2. active # 0 => active \in Tasks
  BY <1>1, TasksAreNumbers
<1> QED BY <1>2, TasksAreNumbers DEF EventFits

----
(* The steps.                                                              *)

LEMMA FakeInit == Init => FakeInv
<1> SUFFICES ASSUME Init PROVE FakeInv
  OBVIOUS
<1>1. ready = <<>> /\ wire = <<>> /\ SubmitsIn(ready) = {} /\ \A t : RunsIn(ready, t) = {}
  BY DEF Init, SubmitsIn, RunsIn
<1>2. Pending = 0
  BY <1>1, FS_EmptySet DEF Pending, Sleeping, SubmitsIn
<1>3. Scheduled = {} /\ Alive = {} /\ Cardinality(Alive) = 0
  BY FS_EmptySet DEF Init, Scheduled, Alive, Live
<1>4. TypeOK
  BY TasksAreNumbers DEF Init, TypeOK, RunnerAt
<1>5. QueueFits
  BY <1>1, <1>2, <1>3 DEF QueueFits, Orderly
<1>6. SubmitsFit
  BY <1>2, TasksAreNumbers DEF Init, SubmitsFit
<1>7. EventFits
  BY TasksAreNumbers DEF Init, EventFits
<1>8. WireFits
  BY <1>1 DEF Init, WireFits
<1>9. LoadFits
  BY <1>2, <1>3 DEF Init, LoadFits, LoadIs
<1>10. CancelFits
  BY DEF Init, CancelFits
<1> QED BY <1>4, <1>5, <1>6, <1>7, <1>8, <1>9, <1>10 DEF FakeInv

\* A task starts, behind the queue, with as many runners and submits before it
\* as there were overlaps.
LEMMA StartInv ==
    ASSUME FakeInv, NEW queue \in Seq(Handle), StartTask(queue), Orderly(queue, Scheduled),
           NEW pending \in Nat, pending = Cardinality(SubmitsIn(queue)),
           pending # 0 => wakeHops = 1,
           NEW o \in Nat, overlaps' = o, overlaps <= o, o <= accepted + 1 + pending,
           accepted + 1 + pending <= MaxTasks,
           serial => o = 0,
           o = 0 => active = 0,
           Cardinality(Alive) + pending <= o
    PROVE  FakeInv'
<1> DEFINE t == accepted + 1
<1>1. TypeOK /\ QueueFits /\ SubmitsFit /\ EventFits /\ WireFits /\ CancelFits
  BY DEF FakeInv
<1>2. /\ accepted' = t /\ active' = t /\ ending' = NoResult
      /\ runner' = [runner EXCEPT ![t] = "scheduled"]
      /\ ready' = Append(queue, RunHandle(t, 1))
      /\ UNCHANGED <<wakeHops, autoFinish, serial, isSet, awaits, elapsed, results, wire,
                     acked, byHand>>
  BY DEF StartTask, setup, audit
<1>3. accepted \in Nat /\ t \in Tasks /\ t \in Nat /\ t # 0 /\ overlaps \in Nat /\ t <= MaxTasks
  <2>1. accepted \in Nat /\ overlaps \in Nat /\ MaxTasks \in Nat
    BY <1>1, Counts, TasksAreNumbers
  <2>2. t \in Nat /\ 1 <= t /\ t <= MaxTasks /\ t # 0
    BY <2>1
  <2> QED BY <2>1, <2>2, TasksAreNumbers
<1>4. runner \in [Tasks -> RunnerAt] /\ runner[t] = "none"
  BY <1>1, <1>3 DEF TypeOK, SubmitsFit
<1>5. t \notin Scheduled /\ t \notin Alive /\ Scheduled' = Scheduled \cup {t} /\ Alive' = Alive \cup {t}
  BY <1>2, <1>3, <1>4 DEF Scheduled, Alive, Live
<1>6. 1 \in 1..wakeHops /\ Handle' = Handle
  <2>1. wakeHops \in Nat \ {0}
    BY <1>1, LoopsAssumption DEF TypeOK
  <2> QED BY <1>2, <2>1 DEF Handle
<1>7. /\ ready' \in Seq(Handle) /\ Orderly(ready', Scheduled')
      /\ SubmitsIn(ready') = SubmitsIn(queue)
  BY <1>2, <1>3, <1>5, <1>6, AppendRun
<1>8. Pending' = pending
  BY <1>7 DEF Pending, Sleeping, SubmitsIn
<1>9. Cardinality(Alive') = Cardinality(Alive) + 1 /\ Cardinality(Alive) \in Nat
  BY <1>1, <1>3, <1>5, Counts
<1>10. TypeOK'
  <2>1. runner' \in [Tasks -> RunnerAt]
    BY <1>2, <1>4 DEF RunnerAt
  <2>2. accepted' \in 0..MaxTasks /\ active' \in 0..MaxTasks
    BY <1>2, <1>3, TasksAreNumbers
  <2>3. overlaps' \in 0..MaxTasks
    BY <1>3, TasksAreNumbers
  <2>4. ready' \in Seq(Handle')
    BY <1>6, <1>7
  <2> QED BY <1>1, <1>2, <2>1, <2>2, <2>3, <2>4 DEF TypeOK
<1>11. QueueFits'
  BY <1>2, <1>7, <1>8 DEF QueueFits
<1>12. SubmitsFit'
  <2>1. \A u \in Tasks : runner'[u] = "none" <=> u > accepted'
    BY <1>1, <1>2, <1>3, <1>4, TasksAreNumbers DEF SubmitsFit
  <2>2. accepted' + Pending' <= MaxTasks /\ overlaps' <= accepted' + Pending'
    BY <1>2, <1>8
  <2>3. serial' => overlaps' = 0
    BY <1>2
  <2> QED BY <2>1, <2>2, <2>3 DEF SubmitsFit
<1>13. EventFits'
  <2>1. t \notin isSet /\ isSet \subseteq 1..t
    BY <1>1, <1>3 DEF EventFits
  <2>2. runner'[t] = "scheduled"
    BY <1>2, <1>3, <1>4
  <2>3. Live(active)'
    BY <1>2, <2>2 DEF Live
  <2> QED BY <1>2, <2>1, <2>2, <2>3 DEF EventFits
<1>14. WireFits'
  <2>1. \A u \in Tasks : runner'[u] = "ended" <=> runner[u] = "ended"
    BY <1>2, <1>4
  <2>2. \A i \in DOMAIN wire : wire[i].key \in Tasks
    BY <1>1, WireType
  <2>3. overlaps > 0 => overlaps' > 0
    BY <1>3
  <2> QED BY <1>1, <1>2, <2>1, <2>2, <2>3 DEF WireFits
<1>15. LoadFits'
  BY <1>2, <1>3, <1>8, <1>9 DEF LoadFits, LoadIs
<1>16. CancelFits'
  <2>1. SUFFICES ASSUME o = 0, NEW u \in acked \ byHand
                 PROVE  results[u] # NoResult /\ results[u].state = "canceled"
    BY <1>2 DEF CancelFits
  <2>2. overlaps = 0 /\ active = 0
    BY <1>3, <2>1
  <2>3. u \in Tasks /\ u # 0
    BY <1>1, <2>1, TasksAreNumbers DEF TypeOK
  <2> QED BY <1>1, <2>1, <2>2, <2>3 DEF CancelFits
<1> QED BY <1>10, <1>11, <1>12, <1>13, <1>14, <1>15, <1>16 DEF FakeInv

\* A submit comes back when the task it displaced is over, unless others came in
\* between.
LEMMA ResumesAfterEnd ==
    ASSUME FakeInv, ready # <<>>, Head(ready) = SubmitHandle
    PROVE  /\ Pending # 0 /\ Cardinality(Alive) + Pending <= 1 + overlaps
           /\ overlaps = 0 => active = 0
<1>1. TypeOK /\ QueueFits /\ EventFits /\ LoadIs(Cardinality(Alive), Pending)
  BY DEF FakeInv, LoadFits
<1>2. /\ ready \in Seq(Handle) /\ Orderly(ready, Scheduled) /\ Pending = Cardinality(SubmitsIn(ready))
      /\ Pending \in Nat /\ Cardinality(Alive) \in Nat
  BY <1>1, Counts DEF TypeOK, QueueFits
<1>3. SubmitsIn(ready) # {} /\ \A t \in Tasks : ~Ahead(ready, t)
  BY <1>2, TailSubmit
<1>4. Pending # 0
  BY <1>2, <1>3, QueueType
<1>5. active # 0 => accepted \in Tasks
  BY <1>1, AcceptedIsTask
<1>6. Cardinality(Alive) + Pending <= 1 + overlaps
  BY <1>1, <1>3, <1>4, <1>5 DEF LoadIs
<1>7. overlaps = 0 => Cardinality(Alive) = 0
  BY <1>2, <1>4, <1>6
<1>8. active # 0 => accepted \in Alive
  BY <1>1, <1>5 DEF EventFits, Alive
<1> QED BY <1>1, <1>2, <1>4, <1>6, <1>7, <1>8, Counts

\* The fresh submit, and the one that comes back.
LEMMA SubmitInv == ASSUME FakeInv, OnSubmitIdle \/ OnSubmitResumes PROVE FakeInv'
<1>1. TypeOK /\ QueueFits /\ SubmitsFit /\ EventFits /\ LoadIs(Cardinality(Alive), Pending)
  BY DEF FakeInv, LoadFits
<1>2. /\ ready \in Seq(Handle) /\ Orderly(ready, Scheduled) /\ Pending = Cardinality(SubmitsIn(ready))
      /\ Pending \in Nat /\ Cardinality(Alive) \in Nat /\ overlaps \in Nat /\ accepted \in Nat
      /\ MaxTasks \in Nat
  BY <1>1, Counts, TasksAreNumbers DEF TypeOK, QueueFits
<1>3. CASE OnSubmitIdle
  <2>1. /\ StartTask(ready) /\ active = 0 /\ accepted + Pending < MaxTasks
        /\ serial => Pending = 0
        /\ overlaps' = IF Pending = 0 THEN overlaps ELSE overlaps + 1
    BY <1>3 DEF OnSubmitIdle, Served
  <2>2. PICK o \in Nat : o = IF Pending = 0 THEN overlaps ELSE overlaps + 1
    BY <1>2
  <2>3. Cardinality(Alive) + Pending <= o
    BY <1>1, <1>2, <2>1, <2>2 DEF LoadIs
  <2>4. overlaps <= o /\ o <= accepted + 1 + Pending /\ accepted + 1 + Pending <= MaxTasks
    BY <1>1, <1>2, <2>1, <2>2 DEF SubmitsFit
  <2>5. serial => o = 0
    BY <1>1, <2>1, <2>2 DEF SubmitsFit
  <2>6. overlaps' = o /\ (Pending # 0 => wakeHops = 1)
    BY <1>1, <2>1, <2>2 DEF QueueFits
  <2> QED BY <1>2, <2>1, <2>3, <2>4, <2>5, <2>6, StartInv
<1>4. CASE OnSubmitResumes
  <2>1. ready # <<>> /\ Head(ready) = SubmitHandle /\ StartTask(Tail(ready)) /\ overlaps' = overlaps
    BY <1>4 DEF OnSubmitResumes
  <2>2. /\ Tail(ready) \in Seq(Handle) /\ Orderly(Tail(ready), Scheduled)
        /\ Cardinality(SubmitsIn(Tail(ready))) = Pending - 1
    BY <1>2, <2>1, TailSubmit
  <2>3. Pending # 0 /\ Cardinality(Alive) + Pending <= 1 + overlaps /\ (overlaps = 0 => active = 0)
    BY <2>1, ResumesAfterEnd
  <2>4. PICK pending \in Nat : pending = Pending - 1
    BY <1>2, <2>3
  <2>5. Cardinality(Alive) + pending <= overlaps
    BY <1>2, <2>3, <2>4
  <2>6. /\ overlaps <= accepted + 1 + pending /\ accepted + 1 + pending <= MaxTasks
    BY <1>1, <1>2, <2>4 DEF SubmitsFit
  <2>7. /\ serial => overlaps = 0
        /\ wakeHops = 1 /\ pending = Cardinality(SubmitsIn(Tail(ready)))
    BY <1>1, <2>2, <2>3, <2>4 DEF SubmitsFit, QueueFits
  <2>8. overlaps <= overlaps
    BY <1>2
  <2> QED BY <1>2, <2>1, <2>2, <2>3, <2>5, <2>6, <2>7, <2>8, StartInv
<1> QED BY <1>3, <1>4

\* Event.set schedules every runner that waits for it, behind a queue that
\* holds the runners of S.
LEMMA RouseEffect ==
    ASSUME FakeInv, NEW queue \in Seq(Handle), NEW S, Orderly(queue, S), S \subseteq Scheduled,
           NEW last \in {<<>>, <<SubmitHandle>>}, Rouse(queue, last)
    PROVE  /\ ready' \in Seq(Handle) /\ Orderly(ready', S \cup WokenBy(accepted))
           /\ last = <<>> => SubmitsIn(ready') = SubmitsIn(queue)
           /\ last # <<>> => Cardinality(SubmitsIn(ready')) = Cardinality(SubmitsIn(queue)) + 1
           /\ \A u \in Tasks : Ahead(queue, u) => Ahead(ready', u)
           /\ \A u \in S \cup WokenBy(accepted) :
                  u \in Tasks /\ last # <<>> /\ SubmitsIn(queue) = {} => Ahead(ready', u)
<1> DEFINE W == WokenBy(accepted)
<1>1. PICK woken \in SetToSeqs(W) :
          ready' = queue \o [i \in DOMAIN woken |-> RunHandle(woken[i], wakeHops)] \o last
  BY DEF Rouse
<1> DEFINE r == Behind(queue, woken, wakeHops)
<1>2. W \in SUBSET Tasks /\ W \cap S = {}
  BY DEF WokenBy, Scheduled
<1>3. wakeHops \in 1..wakeHops
  BY LoopsAssumption DEF FakeInv, TypeOK
<1>4. /\ r \in Seq(Handle) /\ Orderly(r, S \cup W) /\ SubmitsIn(r) = SubmitsIn(queue)
      /\ \A u \in Tasks : Ahead(queue, u) => Ahead(r, u)
  <2> HIDE DEF W, r
  <2>1. ASSUME NEW V \in SUBSET Tasks, V \cap S = {}, NEW w \in SetToSeqs(V), NEW h \in 1..wakeHops
        PROVE  /\ Behind(queue, w, h) \in Seq(Handle)
               /\ Orderly(Behind(queue, w, h), S \cup V)
               /\ SubmitsIn(Behind(queue, w, h)) = SubmitsIn(queue)
               /\ \A u \in Tasks : Ahead(queue, u) => Ahead(Behind(queue, w, h), u)
    BY <2>1, WakeAll
  <2> QED BY <1>2, <1>3, <2>1 DEF r
<1>5. ready' = r \o last
  BY <1>1 DEF Behind
<1> HIDE DEF r
<1>6. CASE last = <<>>
  <2>1. ready' = r
    BY <1>4, <1>5, <1>6, ConcatEmptySeq
  <2> QED BY <1>4, <1>6, <2>1
<1>7. CASE last = <<SubmitHandle>>
  <2>1. ready' = Append(r, SubmitHandle)
    BY <1>4, <1>5, <1>7, HandleKinds, AppendIsConcat
  <2>2. /\ ready' \in Seq(Handle) /\ Orderly(ready', S \cup W)
        /\ Cardinality(SubmitsIn(ready')) = Cardinality(SubmitsIn(r)) + 1
        /\ \A u \in Tasks : Ahead(r, u) => Ahead(ready', u)
        /\ \A u \in Tasks : u \in S \cup W /\ SubmitsIn(r) = {} => Ahead(ready', u)
    BY <1>4, <2>1, AppendSubmit
  <2>3. last # <<>>
    BY <1>7
  <2> QED BY <1>4, <2>2, <2>3
<1> QED BY <1>6, <1>7

\* finish() with a task active: the event is set and the runner scheduled.
LEMMA FinishInv ==
    ASSUME FakeInv, NEW s \in TaskState \ {"running"}, NEW last \in {<<>>, <<SubmitHandle>>},
           Finish(s, last),
           last = <<>> => overlaps' = overlaps,
           last # <<>> => Served /\ wakeHops = 1,
           acked' \in SUBSET Tasks, byHand' \in SUBSET Tasks,
           \A t \in acked' \ byHand' :
               \/ t \in acked \ byHand /\ t # active
               \/ t = active /\ s = "canceled"
    PROVE  FakeInv'
<1>1. TypeOK /\ QueueFits /\ SubmitsFit /\ EventFits /\ WireFits /\ CancelFits
      /\ LoadIs(Cardinality(Alive), Pending)
  BY DEF FakeInv, LoadFits
<1>2. /\ active # 0 /\ Rouse(ready, last)
      /\ ending' = [task |-> active, state |-> s]
      /\ isSet' = isSet \cup {accepted}
      /\ runner' = Roused
      /\ UNCHANGED <<wakeHops, autoFinish, serial, accepted, active, awaits, elapsed, results, wire>>
  BY DEF Finish, setup
<1>3. /\ ready \in Seq(Handle) /\ Orderly(ready, Scheduled) /\ Pending = Cardinality(SubmitsIn(ready))
      /\ Pending \in Nat /\ Cardinality(Alive) \in Nat /\ overlaps \in Nat /\ accepted \in Nat
      /\ MaxTasks \in Nat /\ runner \in [Tasks -> RunnerAt]
  BY <1>1, Counts, TasksAreNumbers DEF TypeOK, QueueFits
<1>4. active = accepted /\ accepted \in Tasks /\ accepted \in isSet' /\ accepted # 0
  BY <1>1, <1>2, AcceptedIsTask DEF EventFits
<1>5. /\ ready' \in Seq(Handle) /\ Orderly(ready', Scheduled \cup WokenBy(accepted))
      /\ last = <<>> => SubmitsIn(ready') = SubmitsIn(ready)
      /\ last # <<>> => Cardinality(SubmitsIn(ready')) = Cardinality(SubmitsIn(ready)) + 1
      /\ \A u \in Tasks : Ahead(ready, u) => Ahead(ready', u)
      /\ \A u \in Scheduled \cup WokenBy(accepted) :
             u \in Tasks /\ last # <<>> /\ SubmitsIn(ready) = {} => Ahead(ready', u)
  BY <1>2, <1>3, RouseEffect
<1>6. \A t \in Tasks : runner'[t] = IF t \in WokenBy(accepted) THEN "scheduled" ELSE runner[t]
  BY <1>2 DEF Roused
<1>7. Scheduled' = Scheduled \cup WokenBy(accepted) /\ Alive' = Alive
  BY <1>6 DEF Scheduled, Alive, Live, WokenBy
<1>8. accepted \in Scheduled'
  <2>1. Live(accepted)
    BY <1>1, <1>2 DEF EventFits
  <2>2. runner[accepted] = "suspended" => accepted \in WokenBy(accepted)
    BY <1>1, <1>4 DEF EventFits, WokenBy
  <2>3. runner[accepted] = "scheduled" => accepted \in Scheduled
    BY <1>4 DEF Scheduled
  <2> QED BY <1>7, <2>1, <2>2, <2>3 DEF Live
<1>9. Pending' = Cardinality(SubmitsIn(ready'))
  BY DEF Pending, Sleeping, SubmitsIn, SubmitHandle
<1>10. PICK p \in Nat : Pending' = p /\ p = IF last = <<>> THEN Pending ELSE Pending + 1
  BY <1>3, <1>5, <1>9
<1>11. PICK o \in Nat : /\ overlaps' = o /\ overlaps <= o
                        /\ last = <<>> => o = overlaps
                        /\ last # <<>> => o = IF Pending = 0 THEN overlaps ELSE overlaps + 1
  <2>1. CASE last = <<>>
    BY <1>3, <2>1
  <2>2. CASE last # <<>>
    BY <1>3, <2>2 DEF Served
  <2> QED BY <2>1, <2>2
<1>12. last # <<>> => accepted + Pending < MaxTasks /\ (serial => Pending = 0) /\ wakeHops = 1
  BY DEF Served
<1>13. o <= accepted + p /\ accepted + p <= MaxTasks
  BY <1>1, <1>3, <1>10, <1>11, <1>12 DEF SubmitsFit
<1>14. TypeOK'
  <2>1. runner' \in [Tasks -> RunnerAt]
    BY <1>2, <1>3 DEF Roused, RunnerAt
  <2>2. ready' \in Seq(Handle')
    BY <1>2, <1>5 DEF Handle
  <2>3. overlaps' \in 0..MaxTasks
    BY <1>3, <1>10, <1>11, <1>13
  <2>4. ending' \in Result
    BY <1>2, <1>4, TasksAreNumbers
  <2>5. isSet' \subseteq 0..MaxTasks
    BY <1>1, <1>2 DEF TypeOK
  <2> QED BY <1>1, <1>2, <2>1, <2>2, <2>3, <2>4, <2>5 DEF TypeOK
<1>15. QueueFits'
  BY <1>1, <1>2, <1>5, <1>7, <1>10, <1>12 DEF QueueFits
<1>16. SubmitsFit'
  <2>1. \A t \in Tasks : runner'[t] = "none" <=> t > accepted'
    BY <1>1, <1>2, <1>6 DEF SubmitsFit, WokenBy
  <2>2. serial' => overlaps' = 0
    BY <1>1, <1>2, <1>11, <1>12 DEF SubmitsFit
  <2>3. accepted' + Pending' <= MaxTasks /\ overlaps' <= accepted' + Pending'
    BY <1>2, <1>10, <1>11, <1>13
  <2> QED BY <2>1, <2>2, <2>3 DEF SubmitsFit
<1>17. EventFits'
  <2>1. Live(active)' /\ runner'[accepted] = "scheduled"
    BY <1>2, <1>4, <1>8 DEF Scheduled, Live
  <2>2. isSet' \subseteq 1..accepted
    BY <1>1, <1>2, <1>3, <1>4 DEF EventFits
  <2>3. ending' \in Result /\ ending'.task = accepted
    BY <1>2, <1>4, TasksAreNumbers
  <2> QED BY <1>2, <1>4, <2>1, <2>2, <2>3 DEF EventFits
<1>18. WireFits'
  <2>1. \A t \in Tasks : runner'[t] = "ended" <=> runner[t] = "ended"
    BY <1>6 DEF WokenBy
  <2>2. \A i \in DOMAIN wire : wire[i].key \in Tasks
    BY <1>1, WireType
  <2>3. overlaps > 0 => overlaps' > 0
    BY <1>3, <1>11
  <2> QED BY <1>1, <1>2, <2>1, <2>2, <2>3 DEF WireFits
<1>19. LoadFits'
  <2>1. PICK n \in Nat : n = Cardinality(Alive) /\ n = Cardinality(Alive')
    BY <1>3, <1>7
  <2>2. \/ n + Pending <= 1 + overlaps
        \/ n + Pending <= 2 + overlaps /\ Pending # 0 /\ Ahead(ready, accepted)
    BY <1>1, <1>2, <2>1 DEF LoadIs
  <2>3. \/ n + p <= 1 + o
        \/ n + p <= 2 + o /\ p # 0 /\ Ahead(ready', accepted)
    <3>1. CASE last = <<>>
      <4>1. p = Pending /\ o = overlaps
        BY <1>10, <1>11, <3>1
      <4> QED BY <1>4, <1>5, <2>2, <4>1
    <3>2. CASE last # <<>> /\ Pending = 0
      <4>1. n + p <= 2 + o /\ p # 0
        BY <1>3, <1>10, <1>11, <2>2, <3>2
      <4>2. Ahead(ready', accepted)
        BY <1>3, <1>4, <1>5, <1>7, <1>8, <3>2, QueueType
      <4> QED BY <4>1, <4>2
    <3>3. CASE last # <<>> /\ Pending # 0
      <4>1. p = Pending + 1 /\ o = overlaps + 1
        BY <1>10, <1>11, <3>3
      <4>2. CASE n + Pending <= 1 + overlaps
        BY <1>3, <4>1, <4>2
      <4>3. CASE n + Pending <= 2 + overlaps /\ Ahead(ready, accepted)
        <5>1. n + p <= 2 + o /\ p # 0
          BY <1>3, <4>1, <4>3
        <5> QED BY <1>4, <1>5, <4>3, <5>1
      <4> QED BY <2>2, <4>2, <4>3
    <3> QED BY <3>1, <3>2, <3>3
  <2> QED BY <1>2, <1>4, <1>10, <1>11, <2>1, <2>3 DEF LoadFits, LoadIs
<1>20. CancelFits'
  <2>1. SUFFICES ASSUME o = 0, NEW t \in acked' \ byHand'
                 PROVE  \/ results[t] # NoResult /\ results[t].state = "canceled"
                        \/ t = active /\ ending'.state = "canceled"
    BY <1>2, <1>4, <1>11 DEF CancelFits
  <2>2. overlaps = 0
    BY <1>3, <1>11, <2>1
  <2> QED BY <1>1, <1>2, <2>1, <2>2 DEF CancelFits
<1> QED BY <1>14, <1>15, <1>16, <1>17, <1>18, <1>19, <1>20 DEF FakeInv

LEMMA RequestInv ==
    ASSUME FakeInv, Displacing \subseteq {1}, Request
    PROVE  FakeInv'
<1>1. acked \in SUBSET Tasks /\ byHand \in SUBSET Tasks /\ (active # 0 => active \in Tasks)
  BY AcceptedIsTask DEF FakeInv, TypeOK, EventFits
<1>2. "canceled" \in TaskState \ {"running"} /\ \A s \in TestState : s \in TaskState \ {"running"}
  BY StatesAssumption DEF TaskState, IsTerminal
<1>3. CASE OnSubmitIdle
  BY <1>3, SubmitInv
<1>4. CASE OnSubmitPreempts
  <2>1. Served /\ wakeHops = 1 /\ Finish("canceled", <<SubmitHandle>>) /\ UNCHANGED <<acked, byHand>>
    BY <1>4 DEF OnSubmitPreempts, audit
  <2>2. <<SubmitHandle>> # <<>>
    OBVIOUS
  <2> QED BY <1>1, <1>2, <2>1, <2>2, FinishInv
<1>5. CASE OnCancel
  <2>1. /\ active # 0 /\ Finish("canceled", <<>>) /\ overlaps' = overlaps
        /\ acked' = acked \cup {active} /\ byHand' = byHand
    BY <1>5 DEF OnCancel, Finish
  <2> QED BY <1>1, <1>2, <2>1, FinishInv
<1>6. ASSUME NEW s \in TestState, TestFinishes(s) PROVE FakeInv'
  <2>1. /\ active # 0 /\ Finish(s, <<>>) /\ overlaps' = overlaps
        /\ byHand' = byHand \cup {active} /\ acked' = acked
    BY <1>6 DEF TestFinishes, Finish
  <2> QED BY <1>1, <1>2, <2>1, FinishInv
<1> QED BY <1>3, <1>4, <1>5, <1>6 DEF Request

\* A runner at the head of the queue is one that is scheduled.
LEMMA HeadRuns ==
    ASSUME FakeInv, NEW t \in Tasks, AtHead(t)
    PROVE  /\ t \in Scheduled /\ t \in Alive /\ runner[t] = "scheduled"
           /\ Tail(ready) \in Seq(Handle) /\ Orderly(Tail(ready), Scheduled \ {t})
           /\ Cardinality(SubmitsIn(Tail(ready))) = Pending
           /\ accepted # 0 /\ t <= accepted
<1>1. TypeOK /\ Orderly(ready, Scheduled) /\ ready \in Seq(Handle) /\ SubmitsFit
  BY DEF FakeInv, QueueFits, TypeOK
<1>2. ready # <<>> /\ Head(ready).kind = "run" /\ Head(ready).task = t
  BY DEF AtHead, RunHandle
<1>3. /\ t \in Scheduled /\ Tail(ready) \in Seq(Handle) /\ Orderly(Tail(ready), Scheduled \ {t})
      /\ Cardinality(SubmitsIn(Tail(ready))) = Cardinality(SubmitsIn(ready))
  BY <1>1, <1>2, TailRun
<1>4. runner[t] = "scheduled" /\ t \in Alive
  BY <1>3 DEF Scheduled, Alive, Live
<1>5. accepted \in Nat /\ t \in Nat /\ 1 <= t /\ Pending = Cardinality(SubmitsIn(ready))
  BY <1>1, Counts, TasksAreNumbers
<1>6. t <= accepted
  BY <1>1, <1>4, <1>5 DEF SubmitsFit
<1>7. accepted # 0
  BY <1>5, <1>6
<1> QED BY <1>3, <1>4, <1>5, <1>6, <1>7

\* The runner of t ends with the ending the event was set for, or sets the event
\* itself; others may be woken by that.
LEMMA RunEndsInv ==
    ASSUME FakeInv, NEW t \in Tasks, AtHead(t), End(t, ending'),
           ready' \in Seq(Handle), Orderly(ready', Scheduled'), Pending' = Pending,
           runner' \in [Tasks -> RunnerAt], runner'[t] = "ended",
           \A u \in Tasks \ {t} : \/ runner'[u] = runner[u]
                                  \/ runner[u] = "suspended" /\ runner'[u] = "scheduled",
           isSet' = isSet \cup {accepted},
           ending' \in Result, ending'.task = accepted,
           accepted \in isSet => ending' = ending
    PROVE  FakeInv'
<1>1. TypeOK /\ QueueFits /\ SubmitsFit /\ EventFits /\ WireFits /\ CancelFits
  BY DEF FakeInv
<1>2. /\ active' = 0 /\ results' = [results EXCEPT ![t] = ending']
      /\ wire' = Append(wire, [key |-> t, result |-> ending'])
      /\ UNCHANGED <<wakeHops, autoFinish, serial, accepted, awaits, elapsed, acked, byHand, overlaps>>
  BY DEF End, setup, audit
<1>3. /\ t \in Alive /\ runner[t] = "scheduled" /\ accepted # 0 /\ t <= accepted
  BY HeadRuns
<1>4. Alive' = Alive \ {t}
  BY <1>3 DEF Alive, Live
<1>5. \A u \in Tasks : /\ runner'[u] = "none" <=> runner[u] = "none"
                       /\ runner'[u] = "ended" <=> runner[u] = "ended" \/ u = t
                       /\ runner'[u] = "suspended" => runner[u] = "suspended"
  BY <1>3
<1>6. /\ Pending \in Nat /\ Cardinality(Alive) \in Nat /\ overlaps \in Nat /\ accepted \in Nat
      /\ Cardinality(Alive') = Cardinality(Alive) - 1
      /\ results \in [Tasks -> Result \cup {NoResult}]
  BY <1>1, <1>3, <1>4, Counts DEF TypeOK
<1>7. TypeOK'
  <2>1. wire' \in Seq([key : Tasks, result : Result])
    <3>1. [key |-> t, result |-> ending'] \in [key : Tasks, result : Result]
      OBVIOUS
    <3>2. wire \in Seq([key : Tasks, result : Result])
      BY <1>1 DEF TypeOK
    <3> QED BY <1>2, <3>1, <3>2, AppendProperties
  <2>2. ready' \in Seq(Handle')
    BY <1>2 DEF Handle
  <2>3. results' \in [Tasks -> Result \cup {NoResult}]
    BY <1>2, <1>6
  <2>4. active' \in 0..MaxTasks /\ isSet' \subseteq 0..MaxTasks
    BY <1>1, <1>2, TasksAreNumbers DEF TypeOK
  <2> QED BY <1>1, <1>2, <2>1, <2>2, <2>3, <2>4 DEF TypeOK
<1>8. QueueFits'
  BY <1>1, <1>2 DEF QueueFits
<1>9. SubmitsFit'
  BY <1>1, <1>2, <1>5 DEF SubmitsFit
<1>10. EventFits'
  <2>1. isSet' \subseteq 1..accepted /\ accepted \in isSet'
    BY <1>1, <1>3, <1>6 DEF EventFits
  <2>2. \A u \in Tasks : u = accepted /\ runner'[u] = "suspended" => awaits[u] = accepted
    BY <1>1, <1>5 DEF EventFits
  <2> QED BY <1>2, <2>1, <2>2 DEF EventFits
<1>11. WireFits'
  <2>1. \A u \in Tasks : results'[u] # NoResult <=> runner'[u] = "ended"
    BY <1>1, <1>2, <1>5, <1>6, TasksAreNumbers DEF WireFits
  <2>2. wire \in Seq([key : Tasks, result : Result])
    BY <1>1 DEF TypeOK
  <2>3. /\ DOMAIN wire = 1..Len(wire) /\ DOMAIN wire' = 1..Len(wire) + 1 /\ Len(wire) \in Nat
        /\ \A i \in 1..Len(wire) : wire'[i] = wire[i]
        /\ wire'[Len(wire) + 1] = [key |-> t, result |-> ending']
    <3>1. [key |-> t, result |-> ending'] \in [key : Tasks, result : Result]
      OBVIOUS
    <3>2. /\ wire' \in Seq([key : Tasks, result : Result]) /\ Len(wire') = Len(wire) + 1
          /\ \A i \in 1..Len(wire) : wire'[i] = wire[i]
          /\ wire'[Len(wire) + 1] = [key |-> t, result |-> ending']
      BY <1>2, <2>2, <3>1, AppendProperties
    <3> QED BY <2>2, <3>2, LenProperties
  <2>4. \A i \in 1..Len(wire) : wire[i].key \in Tasks /\ wire[i].key # t
    <3>1. \A i \in DOMAIN wire : wire[i].key \in Tasks
      BY <1>1, WireType
    <3> QED BY <1>1, <1>3, <2>3, <3>1 DEF WireFits
  <2>5. \A i \in DOMAIN wire' : i \in 1..Len(wire) \/ i = Len(wire) + 1
    BY <2>3
  <2>6. wire'[Len(wire) + 1].key = t /\ wire'[Len(wire) + 1].result = ending'
    BY <2>3
  <2>7. \A i \in DOMAIN wire' :
            runner'[wire'[i].key] = "ended" /\ results'[wire'[i].key] = wire'[i].result
    <3>1. \A i \in 1..Len(wire) :
              runner'[wire'[i].key] = "ended" /\ results'[wire'[i].key] = wire'[i].result
      BY <1>1, <1>2, <1>5, <1>6, <2>3, <2>4 DEF WireFits
    <3>2. results'[t] = ending'
      BY <1>2, <1>6
    <3> QED BY <2>5, <2>6, <3>1, <3>2
  <2>8. \A i, j \in DOMAIN wire' : wire'[i].key = wire'[j].key => i = j
    <3>1. \A i, j \in 1..Len(wire) : wire'[i].key = wire'[j].key => i = j
      BY <1>1, <2>3 DEF WireFits
    <3>2. \A i \in 1..Len(wire) : wire'[i].key # t
      BY <2>3, <2>4
    <3> QED BY <2>5, <2>6, <3>1, <3>2
  <2>9. \A i \in DOMAIN wire' : wire'[i].result.task = wire'[i].key \/ overlaps' > 0
    <3>1. overlaps = 0 => t = accepted
      BY <1>3, OneIsAlive DEF Alive
    <3>2. overlaps = 0 \/ overlaps > 0
      BY <1>6
    <3>3. \A i \in 1..Len(wire) : wire'[i].result.task = wire'[i].key \/ overlaps' > 0
      BY <1>1, <1>2, <2>3 DEF WireFits
    <3> QED BY <1>2, <2>5, <2>6, <3>1, <3>2, <3>3
  <2> QED BY <2>1, <2>7, <2>8, <2>9 DEF WireFits
<1>12. LoadFits'
  <2>1. PICK n \in Nat : n = Cardinality(Alive)
    BY <1>6
  <2>2. /\ Pending = 0 => n <= 1 + overlaps
        /\ Pending # 0 => n + Pending <= 2 + overlaps
    BY <2>1, LoadBound
  <2>3. /\ Pending = 0 => n - 1 <= overlaps
        /\ Pending # 0 => (n - 1) + Pending <= 1 + overlaps
    BY <1>6, <2>2
  <2> QED BY <1>2, <1>6, <2>1, <2>3 DEF LoadFits, LoadIs
<1>13. CancelFits'
  <2>1. SUFFICES ASSUME overlaps = 0, NEW u \in acked \ byHand
                 PROVE  results'[u] # NoResult /\ results'[u].state = "canceled"
    BY <1>2 DEF CancelFits
  <2>2. u \in Tasks
    BY <1>1 DEF TypeOK
  <2>3. active = t
    BY <1>3, <2>1, OneIsAlive DEF Alive
  <2>4. CASE u = t
    <3>1. results[t] = NoResult
      BY <1>1, <1>3 DEF WireFits
    <3>2. accepted \in isSet /\ ending.state = "canceled"
      BY <1>1, <2>1, <2>4, <3>1 DEF CancelFits
    <3>3. results'[u] = ending /\ ending \in Result
      BY <1>2, <1>6, <2>4, <3>2
    <3> QED BY <3>2, <3>3, TasksAreNumbers
  <2>5. CASE u # t
    <3>1. results'[u] = results[u]
      BY <1>2, <1>6, <2>2, <2>5
    <3> QED BY <1>1, <2>1, <2>3, <2>5, <3>1 DEF CancelFits
  <2> QED BY <2>4, <2>5
<1> QED BY <1>7, <1>8, <1>9, <1>10, <1>11, <1>12, <1>13 DEF FakeInv

\* It finds the event set, or finishes itself.
LEMMA RunObservesInv ==
    ASSUME FakeInv, NEW t \in Tasks, RunObserves(t) PROVE FakeInv'
<1>1. /\ AtHead(t) /\ accepted \in isSet /\ ready' = Tail(ready) /\ End(t, ending)
      /\ runner' = [runner EXCEPT ![t] = "ended"] /\ ending' = ending /\ isSet' = isSet
  BY DEF RunObserves
<1>2. /\ runner \in [Tasks -> RunnerAt] /\ ending \in Result /\ ending.task = accepted
  BY <1>1 DEF FakeInv, TypeOK, EventFits
<1>3. /\ t \in Scheduled /\ Tail(ready) \in Seq(Handle) /\ Orderly(Tail(ready), Scheduled \ {t})
      /\ Cardinality(SubmitsIn(Tail(ready))) = Pending
  BY <1>1, HeadRuns
<1>4. Scheduled' = Scheduled \ {t}
  BY <1>1, <1>2 DEF Scheduled
<1>5. Pending' = Pending
  BY <1>1, <1>3 DEF Pending, Sleeping, SubmitsIn, SubmitHandle
<1>6. /\ runner' \in [Tasks -> RunnerAt] /\ runner'[t] = "ended"
      /\ \A u \in Tasks \ {t} : runner'[u] = runner[u]
  BY <1>1, <1>2 DEF RunnerAt
<1>7. End(t, ending') /\ isSet' = isSet \cup {accepted} /\ ending' \in Result /\ ending'.task = accepted
      /\ ready' \in Seq(Handle) /\ Orderly(ready', Scheduled')
  BY <1>1, <1>2, <1>3, <1>4
<1> QED BY <1>1, <1>5, <1>6, <1>7, RunEndsInv

LEMMA RunFinishesInv ==
    ASSUME FakeInv, NEW t \in Tasks, NEW s \in AutoState, RunFinishes(t, s) PROVE FakeInv'
<1>1. /\ t \in Scheduled /\ Tail(ready) \in Seq(Handle) /\ Orderly(Tail(ready), Scheduled \ {t})
      /\ Cardinality(SubmitsIn(Tail(ready))) = Pending /\ accepted # 0 /\ AtHead(t)
  BY HeadRuns DEF RunFinishes
<1>2. active # 0 /\ active = accepted /\ accepted \in Tasks
  BY <1>1, AcceptedIsTask DEF RunFinishes, FakeInv, EventFits
<1>3. /\ accepted \notin isSet
      /\ ending' = [task |-> active, state |-> s] /\ isSet' = isSet \cup {accepted}
      /\ Rouse(Tail(ready), <<>>) /\ runner' = [Roused EXCEPT ![t] = "ended"] /\ End(t, ending')
  BY <1>2 DEF RunFinishes
<1>4. /\ ready' \in Seq(Handle)
      /\ Orderly(ready', (Scheduled \ {t}) \cup WokenBy(accepted))
      /\ SubmitsIn(ready') = SubmitsIn(Tail(ready))
  <2>1. <<>> \in {<<>>, <<SubmitHandle>>} /\ Scheduled \ {t} \subseteq Scheduled
    OBVIOUS
  <2> QED BY <1>1, <1>3, <2>1, RouseEffect
<1>5. runner \in [Tasks -> RunnerAt]
  BY DEF FakeInv, TypeOK
<1>6. /\ runner' \in [Tasks -> RunnerAt] /\ runner'[t] = "ended"
      /\ \A u \in Tasks \ {t} : runner'[u] = IF u \in WokenBy(accepted) THEN "scheduled" ELSE runner[u]
  BY <1>3, <1>5 DEF Roused, RunnerAt
<1>7. Scheduled' = (Scheduled \ {t}) \cup WokenBy(accepted)
  BY <1>1, <1>6 DEF Scheduled, WokenBy
<1>8. \A u \in Tasks \ {t} : \/ runner'[u] = runner[u]
                             \/ runner[u] = "suspended" /\ runner'[u] = "scheduled"
  BY <1>6 DEF WokenBy
<1>9. Pending' = Pending
  BY <1>1, <1>4 DEF Pending, Sleeping, SubmitsIn, SubmitHandle
<1>10. ending' \in Result /\ ending'.task = accepted
  <2>1. s \in TaskState \ {"running"}
    BY StatesAssumption DEF TaskState, IsTerminal
  <2> QED BY <1>2, <1>3, <2>1, TasksAreNumbers
<1>11. Orderly(ready', Scheduled')
  BY <1>4, <1>7
<1> QED BY <1>1, <1>3, <1>4, <1>6, <1>8, <1>9, <1>10, <1>11, RunEndsInv

\* A runner goes to sleep, wakes up, or gets nearer: it is as alive as before.
LEMMA SameTasksInv ==
    ASSUME FakeInv, ready' \in Seq(Handle), Orderly(ready', Scheduled'), Pending' = Pending,
           runner' \in [Tasks -> RunnerAt],
           \A u \in Tasks : runner'[u] = runner[u] \/ (Live(u) /\ Live(u)'),
           \A u \in Tasks : u = accepted /\ runner'[u] = "suspended" =>
               awaits'[u] = accepted /\ (active # 0 => accepted \notin isSet),
           awaits' \in [Tasks -> 0..MaxTasks], elapsed' \in [Tasks -> 0..Duration],
           active # 0 /\ accepted \in isSet /\ Pending # 0 =>
               (Ahead(ready, accepted) => Ahead(ready', accepted)),
           UNCHANGED <<setup, accepted, active, ending, isSet, results, wire, audit, overlaps>>
    PROVE  FakeInv'
<1>1. TypeOK /\ QueueFits /\ SubmitsFit /\ EventFits /\ WireFits /\ CancelFits
      /\ LoadIs(Cardinality(Alive), Pending)
  BY DEF FakeInv, LoadFits
<1>2. UNCHANGED <<wakeHops, autoFinish, serial, accepted, active, ending, isSet, results, wire,
                  acked, byHand, overlaps>>
  BY DEF setup, audit
<1>3. Alive' = Alive
  BY DEF Alive, Live
<1>4. \A u \in Tasks : /\ runner'[u] = "none" <=> runner[u] = "none"
                       /\ runner'[u] = "ended" <=> runner[u] = "ended"
  BY DEF Live
<1>5. TypeOK'
  <2>1. ready' \in Seq(Handle')
    BY <1>2 DEF Handle
  <2> QED BY <1>1, <1>2, <2>1 DEF TypeOK
<1>6. QueueFits' /\ SubmitsFit'
  BY <1>1, <1>2, <1>4 DEF QueueFits, SubmitsFit
<1>7. EventFits'
  <2>1. active # 0 => Live(active)'
    <3>1. active # 0 => active \in Tasks /\ active \in Alive
      BY <1>1, AcceptedIsTask DEF EventFits, Alive
    <3>2. active # 0 => active \in Alive'
      BY <1>3, <3>1
    <3> QED BY <1>2, <3>2 DEF Alive
  <2> QED BY <1>1, <1>2, <2>1 DEF EventFits
<1>8. WireFits'
  <2>1. \A i \in DOMAIN wire : wire[i].key \in Tasks
    BY <1>1, WireType
  <2> QED BY <1>1, <1>2, <1>4, <2>1 DEF WireFits
<1>9. LoadFits'
  BY <1>1, <1>2, <1>3 DEF LoadFits, LoadIs
<1>10. CancelFits'
  BY <1>1, <1>2 DEF CancelFits
<1> QED BY <1>5, <1>6, <1>7, <1>8, <1>9, <1>10 DEF FakeInv

LEMMA RunWaitsInv == ASSUME FakeInv, NEW t \in Tasks, RunWaits(t) PROVE FakeInv'
<1>1. /\ AtHead(t) /\ accepted \notin isSet /\ ready' = Tail(ready)
      /\ runner' = [runner EXCEPT ![t] = "suspended"]
      /\ awaits' = [awaits EXCEPT ![t] = accepted]
      /\ elapsed' = [elapsed EXCEPT ![t] = IF @ < Duration THEN @ + 1 ELSE @]
      /\ UNCHANGED <<setup, accepted, active, ending, isSet, results, wire, audit, overlaps>>
  BY DEF RunWaits
<1>2. /\ runner \in [Tasks -> RunnerAt] /\ awaits \in [Tasks -> 0..MaxTasks]
      /\ accepted \in 0..MaxTasks /\ elapsed \in [Tasks -> 0..Duration] /\ EventFits
  BY DEF FakeInv, TypeOK
<1>3. /\ t \in Scheduled /\ Tail(ready) \in Seq(Handle) /\ Orderly(Tail(ready), Scheduled \ {t})
      /\ Cardinality(SubmitsIn(Tail(ready))) = Pending /\ runner[t] = "scheduled"
  BY <1>1, HeadRuns
<1>4. Scheduled' = Scheduled \ {t}
  BY <1>1, <1>2 DEF Scheduled
<1>5. Pending' = Pending
  BY <1>1, <1>3 DEF Pending, Sleeping, SubmitsIn, SubmitHandle
<1>6. runner' \in [Tasks -> RunnerAt] /\ awaits' \in [Tasks -> 0..MaxTasks]
  BY <1>1, <1>2 DEF RunnerAt
<1>7. elapsed' \in [Tasks -> 0..Duration]
  <2>1. Duration \in Nat /\ elapsed[t] \in 0..Duration
    BY <1>2, TasksAreNumbers
  <2>2. (IF elapsed[t] < Duration THEN elapsed[t] + 1 ELSE elapsed[t]) \in 0..Duration
    BY <2>1
  <2> QED BY <1>1, <1>2, <2>2
<1>8. \A u \in Tasks : runner'[u] = runner[u] \/ (Live(u) /\ Live(u)')
  BY <1>1, <1>2, <1>3 DEF Live
<1>9. \A u \in Tasks : u = accepted /\ runner'[u] = "suspended" =>
          awaits'[u] = accepted /\ (active # 0 => accepted \notin isSet)
  BY <1>1, <1>2 DEF EventFits
<1>10. ready' \in Seq(Handle) /\ Orderly(ready', Scheduled')
  BY <1>1, <1>3, <1>4
<1> QED BY <1>1, <1>5, <1>6, <1>7, <1>8, <1>9, <1>10, SameTasksInv

LEMMA TimerInv == ASSUME FakeInv, NEW t \in Tasks, Timer(t) PROVE FakeInv'
<1>1. /\ runner[t] = "suspended" /\ runner' = [runner EXCEPT ![t] = "scheduled"]
      /\ ready' = Append(ready, RunHandle(t, wakeHops))
      /\ UNCHANGED <<setup, accepted, active, ending, isSet, awaits, elapsed, results, wire,
                     audit, overlaps>>
  BY DEF Timer
<1>2. /\ runner \in [Tasks -> RunnerAt] /\ awaits \in [Tasks -> 0..MaxTasks]
      /\ elapsed \in [Tasks -> 0..Duration] /\ EventFits /\ TypeOK
      /\ ready \in Seq(Handle) /\ Orderly(ready, Scheduled)
  BY DEF FakeInv, TypeOK, QueueFits
<1>3. wakeHops \in 1..wakeHops /\ t \notin Scheduled
  BY <1>1, LoopsAssumption DEF FakeInv, TypeOK, Scheduled
<1>4. /\ ready' \in Seq(Handle) /\ Orderly(ready', Scheduled \cup {t})
      /\ SubmitsIn(ready') = SubmitsIn(ready)
      /\ \A u \in Tasks : Ahead(ready, u) => Ahead(ready', u)
  BY <1>1, <1>2, <1>3, AppendRun
<1>5. Scheduled' = Scheduled \cup {t}
  BY <1>1, <1>2 DEF Scheduled
<1>6. Pending' = Pending
  BY <1>4 DEF Pending, Sleeping, SubmitsIn, SubmitHandle
<1>7. runner' \in [Tasks -> RunnerAt] /\ awaits' \in [Tasks -> 0..MaxTasks]
      /\ elapsed' \in [Tasks -> 0..Duration]
  BY <1>1, <1>2 DEF RunnerAt
<1>8. \A u \in Tasks : runner'[u] = runner[u] \/ (Live(u) /\ Live(u)')
  BY <1>1, <1>2 DEF Live
<1>9. \A u \in Tasks : u = accepted /\ runner'[u] = "suspended" =>
          awaits'[u] = accepted /\ (active # 0 => accepted \notin isSet)
  BY <1>1, <1>2 DEF EventFits
<1>10. active # 0 => (Ahead(ready, accepted) => Ahead(ready', accepted))
  BY <1>2, <1>4, AcceptedIsTask
<1>11. ready' \in Seq(Handle) /\ Orderly(ready', Scheduled')
  BY <1>4, <1>5
<1> QED BY <1>1, <1>6, <1>7, <1>8, <1>9, <1>10, <1>11, SameTasksInv

LEMMA HopInv == ASSUME FakeInv, Hop PROVE FakeInv'
<1> DEFINE t == Head(ready).task
           h == Head(ready).hops - 1
<1>1. /\ ready # <<>> /\ Head(ready).hops > 1
      /\ ready' = Append(Tail(ready), [Head(ready) EXCEPT !.hops = @ - 1])
      /\ UNCHANGED <<setup, accepted, active, ending, isSet, runner, awaits, elapsed,
                     results, wire, audit, overlaps>>
  BY DEF Hop
<1>2. /\ TypeOK /\ QueueFits /\ EventFits /\ ready \in Seq(Handle) /\ Orderly(ready, Scheduled)
      /\ wakeHops \in Nat /\ runner \in [Tasks -> RunnerAt]
      /\ awaits \in [Tasks -> 0..MaxTasks] /\ elapsed \in [Tasks -> 0..Duration]
  BY LoopsAssumption DEF FakeInv, TypeOK, QueueFits
<1>3. Head(ready) \in Handle
  BY <1>1, <1>2, TailIndex
<1>4. Head(ready).kind = "run" /\ t \in Tasks /\ Head(ready).hops \in 1..wakeHops
  <2>1. Head(ready) # SubmitHandle
    BY <1>1 DEF SubmitHandle
  <2> QED BY <1>3, <2>1, HandleKinds
<1>5. h \in 1..wakeHops /\ wakeHops # 1
  BY <1>1, <1>2, <1>4
<1>6. [Head(ready) EXCEPT !.hops = @ - 1] = RunHandle(t, h)
  BY <1>3, <1>4 DEF Handle, RunHandle
<1>7. /\ Tail(ready) \in Seq(Handle) /\ t \in Scheduled /\ Orderly(Tail(ready), Scheduled \ {t})
      /\ Cardinality(SubmitsIn(Tail(ready))) = Cardinality(SubmitsIn(ready))
  BY <1>1, <1>2, <1>4, TailRun
<1>8. /\ ready' \in Seq(Handle) /\ Orderly(ready', (Scheduled \ {t}) \cup {t})
      /\ SubmitsIn(ready') = SubmitsIn(Tail(ready))
  <2> HIDE DEF t, h
  <2>1. ready' = Append(Tail(ready), RunHandle(t, h)) /\ t \notin Scheduled \ {t}
    BY <1>1, <1>6
  <2>2. ASSUME NEW u \in Tasks, NEW k \in 1..wakeHops, NEW S, u \notin S, Orderly(Tail(ready), S)
        PROVE  LET r == Append(Tail(ready), RunHandle(u, k))
               IN  /\ r \in Seq(Handle) /\ Orderly(r, S \cup {u})
                   /\ SubmitsIn(r) = SubmitsIn(Tail(ready))
    BY <1>7, <2>2, AppendRun
  <2> QED BY <1>4, <1>5, <1>7, <2>1, <2>2
<1>9. Scheduled' = Scheduled /\ (Scheduled \ {t}) \cup {t} = Scheduled
  BY <1>1, <1>7 DEF Scheduled
<1>10. Pending' = Pending /\ Pending = 0
  BY <1>2, <1>5, <1>7, <1>8 DEF Pending, Sleeping, SubmitsIn, SubmitHandle, QueueFits
<1>11. \A u \in Tasks : u = accepted /\ runner'[u] = "suspended" =>
          awaits'[u] = accepted /\ (active # 0 => accepted \notin isSet)
  BY <1>1, <1>2 DEF EventFits
<1>12. ready' \in Seq(Handle) /\ Orderly(ready', Scheduled')
  BY <1>8, <1>9
<1> QED BY <1>1, <1>2, <1>10, <1>11, <1>12, SameTasksInv

LEMMA FakeStep ==
    ASSUME Displacing \subseteq {1}
    PROVE  FakeInv /\ [Next]_vars => FakeInv'
<1> SUFFICES ASSUME FakeInv, [Next]_vars PROVE FakeInv'
  OBVIOUS
<1>1. CASE OnSubmitResumes
  BY <1>1, SubmitInv
<1>2. CASE UNCHANGED vars
  BY <1>2 DEF vars, FakeInv, TypeOK, Handle, QueueFits, Scheduled, Pending, Sleeping, SubmitHandle,
              SubmitsFit, EventFits, Live, WireFits, LoadFits, LoadIs, Alive, CancelFits
<1> QED BY <1>1, <1>2, RequestInv, RunObservesInv, RunWaitsInv, RunFinishesInv, TimerInv, HopInv
           DEF Next, LoopStep, RunnerStep

THEOREM FakeInvariant ==
    ASSUME Displacing \subseteq {1} PROVE Spec => []FakeInv
BY FakeInit, FakeStep, PTL DEF Spec

----
(* The theorems. A preempting submit displaces the running task only where *)
(* Event.set reaches its runner in one hop; see MCFakeNav311 for the loop  *)
(* on which it does not.                                                   *)

\* One task at a time, and one more runner for each overlap of submits
\* (testing.py:71-72, 140-146).
THEOREM OneAtATime ==
    ASSUME Displacing \subseteq {1} PROVE Spec => []OneTaskAtATime
<1>1. FakeInv => OneTaskAtATime
  <2> SUFFICES ASSUME FakeInv PROVE OneTaskAtATime
    OBVIOUS
  <2>1. overlaps = 0 => \A t \in Tasks : Live(t) => active = t
    BY OneIsAlive
  <2>2. Cardinality(Alive) \in Nat /\ Pending \in Nat /\ overlaps \in Nat
    BY Counts DEF FakeInv
  <2>3. Cardinality(Alive) <= 1 + overlaps
    BY <2>2, LoadBound
  <2> QED BY <2>1, <2>3 DEF OneTaskAtATime, Alive
<1> QED BY <1>1, FakeInvariant, PTL

\* A result key carries one payload, which a late poll gets too, and it is the
\* task's own unless submits overlapped (topics.py:424, testing.py:204-207).
THEOREM OwnResults ==
    ASSUME Displacing \subseteq {1} PROVE Spec => []ResultsAreOwn
<1>1. FakeInv => ResultsAreOwn
  BY DEF FakeInv, WireFits, ResultsAreOwn
<1> QED BY <1>1, FakeInvariant, PTL

\* canceled=True is kept, unless the test ends the task or submits overlap
\* (testing.py:151-158 against 181-207).
THEOREM CancelsAreKept ==
    ASSUME Displacing \subseteq {1} PROVE Spec => []CancelIsKept
<1>1. FakeInv => CancelIsKept
  <2> SUFFICES ASSUME FakeInv, overlaps = 0, NEW t \in acked \ byHand, results[t] # NoResult
               PROVE  results[t].state = "canceled"
    BY DEF CancelIsKept
  <2>1. t = active => Live(t) /\ t \in Tasks
    BY AcceptedIsTask DEF FakeInv, EventFits, TypeOK
  <2>2. t # active
    BY <2>1 DEF FakeInv, WireFits, Live
  <2> QED BY <2>2 DEF FakeInv, CancelFits
<1> QED BY <1>1, FakeInvariant, PTL

LEMMA NotNone == \A n \in 0..MaxTasks : n # 0 => n \in Tasks
<1> SUFFICES ASSUME NEW n \in 0..MaxTasks, n # 0 PROVE n \in Tasks
  OBVIOUS
<1>1. n \in Nat /\ 1 <= n /\ n <= MaxTasks
  BY TasksAreNumbers
<1> QED BY <1>1, TasksAreNumbers

\* FakeNav implements the coordinator's promises as long as submits come one at
\* a time: a task starts when none runs, and ends once (topics.py:424).
THEOREM FakeKeepsLedger ==
    ASSUME Displacing \subseteq {1} PROVE Spec => LedgerSpec
<1>1. Init => Ledger!Init
  BY TasksAreNumbers DEF Init, phase, Ledger!Init, Ledger!Unknown
<1>2. FakeInv /\ FakeInv' /\ [Next]_vars => [Ledger!Next]_phase
  <2> SUFFICES ASSUME FakeInv, FakeInv', [Next]_vars PROVE [Ledger!Next]_phase
    OBVIOUS
  <2>1. /\ TypeOK /\ EventFits /\ SubmitsFit /\ WireFits /\ accepted \in Nat
        /\ results \in [Tasks -> Result \cup {NoResult}]
        /\ \A t \in Tasks : t # 0
    BY Counts, TasksAreNumbers DEF FakeInv, TypeOK
  <2>2. ASSUME NEW queue, StartTask(queue), serial => active = 0, accepted + 1 \in Tasks
        PROVE  [Ledger!Next]_phase
    <3>1. /\ active' = accepted + 1 /\ results' = results /\ serial' = serial
      BY <2>2 DEF StartTask, setup
    <3>2. CASE ~serial
      BY <3>1, <3>2 DEF phase
    <3>3. CASE serial
      <4>1. runner[accepted + 1] = "none" /\ results[accepted + 1] = NoResult
        BY <2>1, <2>2 DEF SubmitsFit, WireFits
      <4>2. \A t \in Tasks : phase[t] # "running" /\ phase[accepted + 1] = "unknown"
        BY <2>1, <2>2, <3>3, <4>1, TasksAreNumbers DEF phase
      <4>3. phase' = [phase EXCEPT ![accepted + 1] = "running"]
        BY <2>1, <2>2, <3>1, <3>3, <4>1 DEF phase
      <4>4. Ledger!Accept(accepted + 1)
        BY <2>2, <4>2, <4>3 DEF Ledger!Accept, Ledger!Unknown
      <4> QED BY <2>2, <4>4 DEF Ledger!Next
    <3> QED BY <3>2, <3>3
  <2>3. ASSUME NEW t \in Tasks, NEW final \in Result, AtHead(t), End(t, final)
        PROVE  [Ledger!Next]_phase
    <3>1. active' = 0 /\ results' = [results EXCEPT ![t] = final] /\ serial' = serial
      BY <2>3 DEF End, setup
    <3>2. CASE ~serial
      BY <3>1, <3>2 DEF phase
    <3>3. CASE serial
      <4>1. active = t /\ results[t] = NoResult
        <5>1. Live(t) /\ runner[t] = "scheduled"
          BY <2>3, HeadRuns DEF Live
        <5>2. overlaps = 0
          BY <2>1, <3>3 DEF SubmitsFit
        <5> QED BY <2>1, <5>1, <5>2, OneIsAlive DEF WireFits
      <4>2. phase[t] = "running"
        BY <3>3, <4>1 DEF phase
      <4>3. final # NoResult /\ final.state \in TaskState /\ final.state # "running"
        BY <2>3, TasksAreNumbers
      <4>4. phase' = [phase EXCEPT ![t] = final.state]
        BY <2>1, <3>1, <3>3, <4>1, <4>3 DEF phase
      <4>5. final.state \in Ledger!TaskState /\ Ledger!IsTerminal(final.state)
        BY <4>3 DEF TaskState, Ledger!TaskState, Ledger!IsTerminal
      <4>6. Ledger!End(t)
        BY <4>2, <4>4, <4>5 DEF Ledger!End
      <4> QED BY <4>6 DEF Ledger!Next
    <3> QED BY <3>2, <3>3
  <2>4. ASSUME UNCHANGED <<serial, active, results>> PROVE [Ledger!Next]_phase
    BY <2>4 DEF phase
  <2>5. CASE OnSubmitIdle
    <3>1. accepted + 1 \in Tasks
      <4>1. accepted + 1 = accepted' /\ accepted' = active' /\ active' # 0
        BY <2>1, <2>5 DEF OnSubmitIdle, StartTask
      <4>2. active' \in 0..MaxTasks
        BY DEF FakeInv, TypeOK
      <4> QED BY <4>1, <4>2, NotNone
    <3> QED BY <2>2, <2>5, <3>1 DEF OnSubmitIdle
  <2>6. CASE OnSubmitResumes
    <3>1. accepted + 1 \in Tasks
      <4>1. accepted + 1 = accepted' /\ accepted' = active' /\ active' # 0
        BY <2>1, <2>6 DEF OnSubmitResumes, StartTask
      <4>2. active' \in 0..MaxTasks
        BY DEF FakeInv, TypeOK
      <4> QED BY <4>1, <4>2, NotNone
    <3>2. serial => active = 0
      BY <2>1, <2>6, ResumesAfterEnd DEF SubmitsFit, OnSubmitResumes
    <3> QED BY <2>2, <2>6, <3>1, <3>2 DEF OnSubmitResumes
  <2>7. ASSUME NEW s, NEW last, Finish(s, last) PROVE [Ledger!Next]_phase
    BY <2>4, <2>7 DEF Finish, setup
  <2>8. ASSUME NEW t \in Tasks, RunObserves(t) PROVE [Ledger!Next]_phase
    <3>1. AtHead(t) /\ End(t, ending) /\ ending \in Result
      BY <2>1, <2>8 DEF RunObserves, EventFits
    <3> QED BY <2>3, <3>1
  <2>9. ASSUME NEW t \in Tasks, NEW s \in AutoState, RunFinishes(t, s) PROVE [Ledger!Next]_phase
    <3>1. AtHead(t) /\ End(t, ending')
      BY <2>9 DEF RunFinishes
    <3>2. ending' \in Result
      <4>1. accepted # 0 /\ accepted \notin isSet
        BY <2>9, <3>1, HeadRuns DEF RunFinishes
      <4>2. accepted \in isSet'
        BY <2>1, <2>9, <4>1 DEF RunFinishes, EventFits
      <4>3. accepted' = accepted
        BY <3>1 DEF End
      <4> QED BY <4>2, <4>3 DEF FakeInv, EventFits
    <3> QED BY <2>3, <3>1, <3>2
  <2>10. ASSUME NEW t \in Tasks, RunWaits(t) \/ Timer(t) PROVE [Ledger!Next]_phase
    BY <2>4, <2>10 DEF RunWaits, Timer, setup
  <2>11. CASE Hop \/ UNCHANGED vars
    BY <2>4, <2>11 DEF Hop, setup, vars
  <2> QED BY <2>5, <2>6, <2>7, <2>8, <2>9, <2>10, <2>11
             DEF Next, LoopStep, RunnerStep, Request, OnSubmitPreempts, OnCancel, TestFinishes
<1> QED BY <1>1, <1>2, FakeInvariant, PTL DEF Spec, LedgerSpec, Ledger!Spec
====
