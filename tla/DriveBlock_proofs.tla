---- MODULE DriveBlock_proofs ----
(***************************************************************************)
(* Proofs about DriveBlock, for any number of coroutines that share a      *)
(* client: no pump outlives its block, and a block that ends without an    *)
(* error ends with a zero command, cancelled or not.                       *)
(***************************************************************************)
EXTENDS DriveBlock, TLAPS

----
(* The inductive invariant.                                                *)

\* Where the pump of a block can be, given where its coroutine is.
PumpHasBlock ==
    \A d \in Driver :
        /\ block[d] = "out" <=> mover[d] = "none"
        /\ block[d] = "leaving" <=> mover[d] \in {"cancelled", "ended"}

DriveInv == BlockTypeOK /\ NoPumpOutlivesBlock /\ PumpHasBlock

----
(* The steps.                                                              *)

\* No block was opened, nothing was published.
LEMMA DriveInitInv == BlockInit => DriveInv
<1> SUFFICES ASSUME BlockInit PROVE DriveInv
  OBVIOUS
<1>1. BlockTypeOK
  BY DEF BlockInit, BlockTypeOK
<1> QED BY <1>1, DriverAssumption DEF BlockInit, DriveInv, NoPumpOutlivesBlock, PumpHasBlock

\* Entering: the block is open again, whatever the last one left standing.
LEMMA EnterInv ==
    ASSUME DriveInv, NEW d \in Driver, NEW ok \in BOOLEAN, Enter(d, ok)
    PROVE  DriveInv'
<1>1. BlockTypeOK'
  BY DEF DriveInv, BlockTypeOK, Enter
<1>2. PumpHasBlock' /\ NoPumpOutlivesBlock'
  BY DEF DriveInv, BlockTypeOK, Enter, PumpHasBlock, NoPumpOutlivesBlock
<1> QED BY <1>1, <1>2 DEF DriveInv

\* A pass of a pump: a pump that publishes has an open block.
LEMMA PumpInv ==
    ASSUME DriveInv, NEW d \in Driver, MoverStep(d) \/ MoverTimer(d)
    PROVE  DriveInv'
<1>1. CASE MoverMoves(d)
  BY <1>1 DEF DriveInv, BlockTypeOK, MoverMoves, PumpHasBlock, NoPumpOutlivesBlock
<1>2. CASE MoverFails(d)
  BY <1>2 DEF DriveInv, BlockTypeOK, MoverFails, PumpHasBlock, NoPumpOutlivesBlock
<1>3. CASE MoverEnds(d)
  BY <1>3 DEF DriveInv, BlockTypeOK, MoverEnds, PumpHasBlock, NoPumpOutlivesBlock
<1>4. CASE MoverTimer(d)
  BY <1>4 DEF DriveInv, BlockTypeOK, MoverTimer, PumpHasBlock, NoPumpOutlivesBlock
<1> QED BY <1>1, <1>2, <1>3, <1>4 DEF MoverStep

\* An error ends a block: it is on record, and there is no pump any more.
LEMMA RaisesInv ==
    ASSUME DriveInv, NEW d \in Driver, Raises(d),
           cancel' \in [Driver -> {"none", "raised", "swallowed"}]
    PROVE  DriveInv'
<1>1. /\ block' = [block EXCEPT ![d] = "out"] /\ mover' = [mover EXCEPT ![d] = "none"]
      /\ raised' = [raised EXCEPT ![d] = TRUE] /\ legal' = legal /\ lastMove' = lastMove
  BY DEF Raises, Ends
<1>2. BlockTypeOK'
  BY <1>1 DEF DriveInv, BlockTypeOK
<1>3. PumpHasBlock' /\ NoPumpOutlivesBlock'
  BY <1>1 DEF DriveInv, BlockTypeOK, PumpHasBlock, NoPumpOutlivesBlock
<1> QED BY <1>2, <1>3 DEF DriveInv

\* The body of a block ends: the pump is cancelled, or has failed.
LEMMA EndOfBodyInv ==
    ASSUME DriveInv, NEW d \in Driver, ExitBlock(d) \/ CancelInside(d)
    PROVE  DriveInv'
<1>1. StopMover(d) \/ Raises(d)
  BY DEF ExitBlock, CancelInside, PumpErrorRaised
<1>2. cancel' \in [Driver -> {"none", "raised", "swallowed"}]
  BY DEF DriveInv, BlockTypeOK, ExitBlock, CancelInside
<1>3. CASE StopMover(d)
  BY <1>2, <1>3 DEF DriveInv, BlockTypeOK, StopMover, PumpHasBlock, NoPumpOutlivesBlock
<1>4. CASE Raises(d)
  BY <1>2, <1>4, RaisesInv
<1> QED BY <1>1, <1>3, <1>4

\* The way out: a cancellation is noted, the coroutine halts, or halt() raises.
LEMMA WayOutInv ==
    ASSUME DriveInv, NEW d \in Driver, CancelLeaving(d) \/ Leave(d)
    PROVE  DriveInv'
<1>1. CASE CancelLeaving(d)
  BY <1>1 DEF DriveInv, BlockTypeOK, CancelLeaving, PumpHasBlock, NoPumpOutlivesBlock
<1>2. CASE Leave(d) /\ Raises(d)
  BY <1>2, RaisesInv DEF Leave, DriveInv, BlockTypeOK
<1>3. CASE Leave(d) /\ Ends(d) /\ Halt /\ UNCHANGED raised
  <2>1. /\ lastMove' = Zero /\ Zero \notin Driver
        /\ block' = [block EXCEPT ![d] = "out"] /\ mover' = [mover EXCEPT ![d] = "none"]
        /\ UNCHANGED <<legal, cancel, raised>>
    BY <1>3, DriverAssumption DEF Leave, Halt, Ends
  <2>2. BlockTypeOK'
    BY <2>1 DEF DriveInv, BlockTypeOK
  <2> QED BY <2>1, <2>2 DEF DriveInv, BlockTypeOK, PumpHasBlock, NoPumpOutlivesBlock
<1> QED BY <1>1, <1>2, <1>3 DEF Leave

\* Every step keeps the invariant.
LEMMA DriveStepInv == DriveInv /\ [BlockNext]_blockVars => DriveInv'
<1> SUFFICES ASSUME DriveInv, [BlockNext]_blockVars PROVE DriveInv'
  OBVIOUS
<1>1. ASSUME NEW d \in Driver,
             \/ \E ok \in BOOLEAN : Enter(d, ok)
             \/ MoverStep(d) \/ MoverTimer(d) \/ ExitBlock(d) \/ CancelInside(d)
             \/ CancelLeaving(d) \/ Leave(d)
      PROVE  DriveInv'
  BY <1>1, EnterInv, PumpInv, EndOfBodyInv, WayOutInv
<1>2. CASE UNCHANGED blockVars
  BY <1>2 DEF blockVars, DriveInv, BlockTypeOK, PumpHasBlock, NoPumpOutlivesBlock
<1> QED BY <1>1, <1>2 DEF BlockNext

\* Of the steps that leave a block the one that does not halt puts an error on
\* record: that of the pump, or of halt() itself. No cancellation leaves it.
LEMMA OutHaltsOrRaises ==
    ASSUME DriveInv, [BlockNext]_blockVars, NEW d \in Driver, block[d] # "out", block'[d] = "out"
    PROVE  lastMove' = Zero \/ raised'[d]
<1>1. BlockNext
  BY DEF blockVars
<1>2. ASSUME NEW e \in Driver, Leave(e), Halt PROVE lastMove' = Zero
  BY <1>2 DEF Halt
<1>3. ASSUME NEW e \in Driver, NEW ok \in BOOLEAN, Enter(e, ok) PROVE FALSE
  BY <1>3 DEF Enter, DriveInv, BlockTypeOK
<1>4. ASSUME NEW e \in Driver, MoverStep(e) \/ MoverTimer(e) \/ CancelLeaving(e) PROVE FALSE
  BY <1>4 DEF MoverStep, MoverMoves, MoverFails, MoverEnds, MoverTimer, CancelLeaving
<1>5. ASSUME NEW e \in Driver, StopMover(e) PROVE FALSE
  BY <1>5 DEF StopMover, DriveInv, BlockTypeOK
<1>6. ASSUME NEW e \in Driver, Raises(e) PROVE raised'[d]
  <2>1. block' = [block EXCEPT ![e] = "out"] /\ raised' = [raised EXCEPT ![e] = TRUE]
    BY <1>6 DEF Raises, Ends
  <2>2. d = e
    BY <2>1 DEF DriveInv, BlockTypeOK
  <2> QED BY <2>1, <2>2 DEF DriveInv, BlockTypeOK
<1> QED BY <1>1, <1>2, <1>3, <1>4, <1>5, <1>6
        DEF BlockNext, ExitBlock, CancelInside, PumpErrorRaised, Leave

----
(* The theorems.                                                           *)

\* Whatever coroutines enter, leave, fail and are cancelled, the strengthened
\* invariant holds.
THEOREM DriveInvariant == BlockSpec => []DriveInv
BY DriveInitInv, DriveStepInv, PTL DEF BlockSpec

\* A velocity is the last word of an open block only, or of one that ended with
\* an error and has no pump any more, for any number of coroutines
\* (client.py:398-410).
THEOREM PumpsEndWithBlocks == BlockSpec => []NoPumpOutlivesBlock
<1>1. DriveInv => NoPumpOutlivesBlock
  BY DEF DriveInv
<1> QED BY <1>1, DriveInvariant, PTL

\* Whoever leaves a block and is told of no error has halted, from wherever it
\* and its pump are when they are cancelled (client.py:404-410).
THEOREM SilentBlocksHalt == BlockSpec => SilentExitHalts
<1>1. DriveInv /\ [BlockNext]_blockVars =>
          [\A d \in Driver :
              block[d] # "out" /\ block'[d] = "out" /\ ~raised'[d] => lastMove' = Zero]_blockVars
  BY OutHaltsOrRaises
<1> QED BY <1>1, DriveInvariant, PTL DEF BlockSpec, SilentExitHalts
====
