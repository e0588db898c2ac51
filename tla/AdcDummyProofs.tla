--------------------------- MODULE AdcDummyProofs ---------------------------
(***************************************************************************)
(* Proofs about ADC_dummy: its counter is the address of the word, and it  *)
(* implements the state machine of adc.py with a converter that is always  *)
(* ready, for every depth of the RAM and every behaviour of the pins.      *)
(***************************************************************************)
EXTENDS AdcDummy, TLAPS

\* The start-up counter stays within its register.
LEMMA NextWaitRange ==
  ASSUME NEW w \in 0 .. WaitMod - 1
  PROVE  NextWait(w) \in 0 .. WaitMod - 1
  BY WaitAssumption, SMT DEF NextWait

\* An address below the limit steps without wrapping, and the wider counter
\* with it.
LEMMA AddressStep ==
  ASSUME NEW a \in Address, NEW l \in Address, a < l
  PROVE  /\ (a + 1) % Depth = a + 1 /\ (a + 1) % CounterMod = a + 1
         /\ a + 1 \in Address /\ a + 1 \in 0 .. CounterMod - 1
<1>1. /\ Depth \in Nat \ {0} /\ a + 1 \in 0 .. Depth - 1
      /\ CounterMod \in Nat \ {0} /\ a + 1 \in 0 .. CounterMod - 1
  BY DepthAssumption, CounterAssumption, SMT DEF Address
<1>2. (a + 1) % Depth = a + 1
  BY <1>1, SMT
<1>3. (a + 1) % CounterMod = a + 1
  BY <1>1, SMT
<1> QED
  BY <1>1, <1>2, <1>3 DEF Address

\* The inductive invariant: CounterIsAddress, and the address of RESET.
DummyInv ==
  /\ DummyTypeOK
  /\ CounterIsAddress
  /\ state = "RESET" => addr = 0

\* The reset values satisfy the invariant.
LEMMA DummyInitInv == DummyInit => DummyInv
<1> SUFFICES ASSUME DummyInit PROVE DummyInv
  OBVIOUS
<1>1. trig_1 \in BOOLEAN /\ trig \in BOOLEAN /\ done \in BOOLEAN
  BY Zenon DEF DummyInit
<1>2. 0 \in Address /\ 0 \in 0 .. WaitMod - 1 /\ 0 \in 0 .. CounterMod - 1
  BY DepthAssumption, WaitAssumption, CounterAssumption, SMT DEF Address
<1> QED
  BY <1>1, <1>2, SMT DEF DummyInit, DummyInv, DummyTypeOK, CounterIsAddress

\* So does the state after an edge with the reset asserted.
LEMMA DummyResetInv == DummyResetEdge => DummyInv'
<1> SUFFICES ASSUME DummyResetEdge PROVE DummyInv'
  OBVIOUS
<1>1. trig_1' \in BOOLEAN /\ trig' \in BOOLEAN /\ done' \in BOOLEAN
  BY Zenon DEF DummyResetEdge
<1>2. 0 \in Address /\ 0 \in 0 .. WaitMod - 1 /\ 0 \in 0 .. CounterMod - 1
  BY DepthAssumption, WaitAssumption, CounterAssumption, SMT DEF Address
<1> QED
  BY <1>1, <1>2, SMT DEF DummyResetEdge, DummyInv, DummyTypeOK, CounterIsAddress

\* Every edge keeps the invariant, whatever the pins show.
LEMMA DummyEdgeInv ==
  ASSUME NEW t \in BOOLEAN, NEW l \in Address, DummyInv, DummyEdge(t, l)
  PROVE  DummyInv'
<1> USE DEF DummyInv, DummyTypeOK, CounterIsAddress
<1>1. /\ trig_1' \in BOOLEAN /\ trig' \in BOOLEAN
      /\ limit_in_1' \in Address /\ limit_in' \in Address
  BY DEF DummyEdge, DummySynchronise
<1>2. CASE DummyReset
  <2>1. done' \in BOOLEAN
    BY <1>2, Zenon DEF DummyReset
  <2> QED
    BY <1>1, <1>2, <2>1, WaitAssumption, SMT DEF DummyReset
<1>3. CASE DummyWaitBeforeStart
  BY <1>1, <1>3, NextWaitRange, SMT DEF DummyWaitBeforeStart
<1>4. CASE DummyIdle
  <2>1. CASE trig /\ limit_in # 0
    <3>1. limit' = limit_in - 1
      BY <1>4, <2>1 DEF DummyIdle
    <3>2. limit' \in Address
      BY <2>1, <3>1, DepthAssumption, SMT DEF Address
    <3>3. done' \in BOOLEAN
      BY <1>4, <2>1, Zenon DEF DummyIdle
    <3> QED
      BY <1>1, <1>4, <2>1, <3>2, <3>3, SMT DEF DummyIdle, Address
  <2>2. CASE ~(trig /\ limit_in # 0)
    BY <1>1, <1>4, <2>2, SMT DEF DummyIdle
  <2> QED
    BY <2>1, <2>2
<1>5. CASE DummyTrigger
  BY <1>1, <1>5, SMT DEF DummyTrigger
<1>6. CASE DummyReceive
  <2>1. CASE addr = limit
    BY <1>1, <1>6, <2>1, DepthAssumption, CounterAssumption, SMT
       DEF DummyReceive, Address
  <2>2. CASE addr # limit
    <3>1. addr < limit
      BY <1>6, <2>2, DepthAssumption, SMT DEF DummyReceive, Address
    <3>2. /\ (addr + 1) % Depth = addr + 1 /\ (addr + 1) % CounterMod = addr + 1
          /\ addr + 1 \in Address /\ addr + 1 \in 0 .. CounterMod - 1
          /\ addr + 1 <= limit
      BY <3>1, AddressStep, DepthAssumption, SMT DEF Address
    <3> QED
      BY <1>1, <1>6, <2>2, <3>2, SMT DEF DummyReceive
  <2> QED
    BY <2>1, <2>2
<1> QED
  BY <1>2, <1>3, <1>4, <1>5, <1>6 DEF DummyEdge

\* Every step keeps the invariant.
LEMMA DummyStepInv == DummyInv /\ [DummyNext]_dummyVars => DummyInv'
<1> SUFFICES ASSUME DummyInv, [DummyNext]_dummyVars PROVE DummyInv'
  OBVIOUS
<1>1. CASE UNCHANGED dummyVars
  BY <1>1 DEF DummyInv, DummyTypeOK, CounterIsAddress, dummyVars
<1> QED
  BY <1>1, DummyEdgeInv, DummyResetInv DEF DummyNext

(***************************************************************************)
(* Word k of every capture is the number k, over any number of captures    *)
(* and resets, for every width of the counter that holds an address.       *)
(***************************************************************************)
THEOREM DummyCorrect == DummySpec => [](DummyTypeOK /\ CounterIsAddress)
<1>1. DummyInv => DummyTypeOK /\ CounterIsAddress
  BY DEF DummyInv
<1> QED
  BY DummyInitInv, DummyStepInv, <1>1, PTL DEF DummySpec

\* An edge of ADC_dummy is an edge of adc.py with dry high.
LEMMA DummyEdgeRefines ==
  ASSUME NEW t \in BOOLEAN, NEW l \in Address, DummyInv, DummyEdge(t, l)
  PROVE  A!AdcEdge(t, l, TRUE)
<1> USE DEF DummyInv, DummyTypeOK, CounterIsAddress
<1>1. A!AdcSynchronise(t, l)
  BY DEF DummyEdge, DummySynchronise, A!AdcSynchronise
<1>2. CASE DummyReset
  <2>1. A!AdcReset
    BY <1>2, SMT DEF DummyReset, A!AdcReset
  <2> QED
    BY <1>1, <2>1 DEF A!AdcEdge
<1>3. CASE DummyWaitBeforeStart
  <2>1. A!AdcWaitBeforeStart
    BY <1>3, SMT DEF DummyWaitBeforeStart, A!AdcWaitBeforeStart, NextWait, A!NextWait
  <2> QED
    BY <1>1, <2>1 DEF A!AdcEdge
<1>4. CASE DummyIdle
  <2>1. A!AdcIdle
    BY <1>4, SMT DEF DummyIdle, A!AdcIdle, A!AdcTriggered
  <2> QED
    BY <1>1, <2>1 DEF A!AdcEdge
<1>5. CASE DummyTrigger
  <2>1. A!AdcTrigger
    BY <1>5, SMT DEF DummyTrigger, A!AdcTrigger
  <2> QED
    BY <1>1, <2>1 DEF A!AdcEdge
<1>6. CASE DummyReceive
  <2>1. A!AdcReceive(TRUE)
    <3>1. CASE addr = limit
      BY <1>6, <3>1, SMT DEF DummyReceive, A!AdcReceive
    <3>2. CASE addr # limit
      <4>1. addr < limit
        BY <1>6, <3>2, DepthAssumption, SMT DEF DummyReceive, Address
      <4>2. (addr + 1) % CounterMod = addr + 1
        BY <4>1, AddressStep
      <4> QED
        BY <1>6, <3>2, <4>2, SMT DEF DummyReceive, A!AdcReceive
    <3> QED
      BY <3>1, <3>2
  <2> QED
    BY <1>1, <2>1 DEF A!AdcEdge
<1> QED
  BY <1>2, <1>3, <1>4, <1>5, <1>6 DEF DummyEdge

(***************************************************************************)
(* ADC_dummy implements adc.py with dry tied high: what holds of the state *)
(* machine for every converter holds of the block that is synthesised.     *)
(***************************************************************************)
THEOREM DummyRefines == DummySpec => ImplementsAdc
<1>1. DummyInit => A!AdcInit
  BY SMT DEF DummyInit, A!AdcInit
<1>2. DummyInv /\ [DummyNext]_dummyVars => [A!AdcNext]_A!adcVars
  <2> SUFFICES ASSUME DummyInv, [DummyNext]_dummyVars PROVE [A!AdcNext]_A!adcVars
    OBVIOUS
  <2>1. CASE UNCHANGED dummyVars
    BY <2>1 DEF dummyVars, A!adcVars
  <2>2. CASE DummyResetEdge
    <3>1. A!AdcResetEdge
      BY <2>2, SMT DEF DummyResetEdge, A!AdcResetEdge
    <3> QED
      BY <3>1 DEF A!AdcNext
  <2>3. ASSUME NEW t \in BOOLEAN, NEW l \in Address, DummyEdge(t, l)
        PROVE  A!AdcNext
    <3>1. A!AdcEdge(t, l, TRUE)
      BY <2>3, DummyEdgeRefines
    <3>2. TRUE \in {TRUE} /\ l \in A!Address
      BY DEF Address, A!Address
    <3> QED
      BY <3>1, <3>2 DEF A!AdcNext
  <2> QED
    BY <2>1, <2>2, <2>3 DEF DummyNext
<1> QED
  BY DummyInitInv, DummyStepInv, <1>1, <1>2, PTL
     DEF DummySpec, ImplementsAdc, A!AdcSpec

=============================================================================
