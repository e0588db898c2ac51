----------------------------- MODULE AdcProofs ------------------------------
(***************************************************************************)
(* Proofs about the ADC state machine of Adc.tla, for every width, start-up*)
(* delay and behaviour of the pins.  The step lemmas are stated for an     *)
(* edge with any pins, so that CaptureProofs uses them for the composition.*)
(***************************************************************************)
EXTENDS Adc, TLAPS

\* The start-up counter stays within its register.
LEMMA NextWaitRange ==
  ASSUME NEW w \in 0 .. WaitMod - 1
  PROVE  NextWait(w) \in 0 .. WaitMod - 1
  BY WaitAssumption, SMT DEF NextWait

\* An address that has not reached the limit steps without wrapping.
LEMMA AddressStep ==
  ASSUME NEW a \in Address, NEW l \in Address, a < l
  PROVE  (a + 1) % Depth = a + 1 /\ a + 1 \in Address
  <1>1. Depth \in Nat \ {0} /\ a + 1 \in 0 .. Depth - 1
    BY DepthAssumption, SMT DEF Address
  <1>2. (a + 1) % Depth = a + 1
    BY <1>1, SMT
  <1> QED
    BY <1>1, <1>2 DEF Address

(***************************************************************************)
(* The inductive invariant: SampleGoesToItsAddress says nothing of RESET,  *)
(* from which the state machine enters its start-up wait without touching  *)
(* the count of samples.                                                   *)
(***************************************************************************)
AdcInv ==
  /\ AdcTypeOK
  /\ SampleGoesToItsAddress
  /\ adcState = "RESET" => samples = 0 /\ addr = 0

\* The reset values satisfy the invariant.
LEMMA AdcInitInv == AdcInit => AdcInv
<1> SUFFICES ASSUME AdcInit PROVE AdcInv
  OBVIOUS
<1>1. trig_1 \in BOOLEAN /\ trig \in BOOLEAN /\ done \in BOOLEAN
  BY Zenon DEF AdcInit
<1>2. 0 \in Address /\ 0 \in 0 .. WaitMod - 1 /\ 0 \in 0 .. Depth
  BY DepthAssumption, WaitAssumption, SMT DEF Address
<1> QED
  BY <1>1, <1>2, SMT
     DEF AdcInit, AdcInv, AdcTypeOK, SampleGoesToItsAddress, AdcStates

\* So does the state after an edge with the reset asserted.
LEMMA AdcResetInv == AdcResetEdge => AdcInv'
<1> SUFFICES ASSUME AdcResetEdge PROVE AdcInv'
  OBVIOUS
<1>1. trig_1' \in BOOLEAN /\ trig' \in BOOLEAN /\ done' \in BOOLEAN
  BY Zenon DEF AdcResetEdge
<1>2. 0 \in Address /\ 0 \in 0 .. WaitMod - 1 /\ 0 \in 0 .. Depth
  BY DepthAssumption, WaitAssumption, SMT DEF Address
<1> QED
  BY <1>1, <1>2, SMT
     DEF AdcResetEdge, AdcInv, AdcTypeOK, SampleGoesToItsAddress, AdcStates

\* Every edge keeps the invariant, whatever the pins show.
LEMMA AdcEdgeInv ==
  ASSUME NEW t \in BOOLEAN, NEW l \in Address, NEW dry \in BOOLEAN,
         AdcInv, AdcEdge(t, l, dry)
  PROVE  AdcInv'
<1> USE DEF AdcInv, AdcTypeOK, SampleGoesToItsAddress, AdcStates
<1>1. /\ trig_1' \in BOOLEAN /\ trig' \in BOOLEAN
      /\ limit_in_1' \in Address /\ limit_in' \in Address
  BY DEF AdcEdge, AdcSynchronise
<1>2. CASE AdcReset
  <2>1. done' \in BOOLEAN
    BY <1>2, Zenon DEF AdcReset
  <2> QED
    BY <1>1, <1>2, <2>1, WaitAssumption, SMT DEF AdcReset
<1>3. CASE AdcWaitBeforeStart
  BY <1>1, <1>3, NextWaitRange, SMT DEF AdcWaitBeforeStart
<1>4. CASE AdcIdle
  <2>1. CASE AdcTriggered
    <3>1. limit' = limit_in - 1 /\ limit_in # 0
      BY <1>4, <2>1 DEF AdcIdle, AdcTriggered
    <3>2. limit' \in Address
      BY <3>1, DepthAssumption, SMT DEF Address
    <3>3. done' \in BOOLEAN
      BY <1>4, <2>1, Zenon DEF AdcIdle
    <3> QED
      BY <1>1, <1>4, <2>1, <3>1, <3>2, <3>3, SMT DEF AdcIdle, Address
  <2>2. CASE ~AdcTriggered
    BY <1>1, <1>4, <2>2, SMT DEF AdcIdle
  <2> QED
    BY <2>1, <2>2
<1>5. CASE AdcTrigger
  BY <1>1, <1>5, DepthAssumption, SMT DEF AdcTrigger, Address
<1>6. CASE AdcReceive(dry)
  <2>1. CASE ~dry
    BY <1>1, <1>6, <2>1, SMT DEF AdcReceive
  <2>2. CASE dry /\ addr = limit
    BY <1>1, <1>6, <2>2, DepthAssumption, SMT DEF AdcReceive, Address
  <2>3. CASE dry /\ addr # limit
    <3>1. addr < limit
      BY <1>6, <2>3, DepthAssumption, SMT DEF AdcReceive, Address
    <3>2. (addr + 1) % Depth = addr + 1 /\ addr + 1 \in Address /\ addr + 1 <= limit
      BY <3>1, AddressStep, DepthAssumption, SMT DEF Address
    <3> QED
      BY <1>1, <1>6, <2>3, <3>2, SMT DEF AdcReceive
  <2> QED
    BY <2>1, <2>2, <2>3
<1> QED
  BY <1>2, <1>3, <1>4, <1>5, <1>6 DEF AdcEdge

\* The invariant mentions no variable but those of the block.
LEMMA AdcStutterInv == AdcInv /\ UNCHANGED adcVars => AdcInv'
  BY DEF AdcInv, AdcTypeOK, SampleGoesToItsAddress, adcVars

(***************************************************************************)
(* Sample n of a capture goes to address n and no capture runs past its    *)
(* limit, for every depth of the RAM, every converter and every trigger.   *)
(***************************************************************************)
THEOREM AdcCorrect == AdcSpec => [](AdcTypeOK /\ SampleGoesToItsAddress)
<1>1. AdcInv /\ [AdcNext]_adcVars => AdcInv'
  <2> SUFFICES ASSUME AdcInv, [AdcNext]_adcVars PROVE AdcInv'
    OBVIOUS
  <2>1. CASE AdcResetEdge
    BY <2>1, AdcResetInv
  <2>2. ASSUME NEW t \in BOOLEAN, NEW l \in Address, NEW dry \in DryValues,
               AdcEdge(t, l, dry)
        PROVE  AdcInv'
    <3>1. dry \in BOOLEAN
      BY DryAssumption
    <3> QED
      BY <2>2, <3>1, AdcEdgeInv
  <2>3. CASE UNCHANGED adcVars
    BY <2>3, AdcStutterInv
  <2> QED
    BY <2>1, <2>2, <2>3 DEF AdcNext
<1>2. AdcInv => AdcTypeOK /\ SampleGoesToItsAddress
  BY DEF AdcInv
<1> QED
  BY AdcInitInv, <1>1, <1>2, PTL DEF AdcSpec

=============================================================================
