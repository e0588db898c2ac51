--------------------------- MODULE CaptureProofs ----------------------------
(***************************************************************************)
(* Proofs about the capture path of CaptureGateware.tla, for every width,  *)
(* clock ratio, converter, set of word counts and bound of the model.  Only*)
(* the last section is about the design that is synthesised: ADC_dummy and *)
(* the clocks of arrow_deca.py, with every width and wait.                 *)
(***************************************************************************)
EXTENDS CaptureGateware, AdcProofs

-----------------------------------------------------------------------------
(* Arithmetic of the answer. *)

\* The limit stays an address when the second byte gives its top bit, and
\* becomes what the service decodes the count to.
LEMMA TopBit ==
  ASSUME NEW l \in Address, NEW payload \in Nat
  PROVE  /\ SetTopBit(l, payload) \in Address
         /\ l < LowMod => SetTopBit(l, payload) = l + (payload % 2) * LowMod
<1>1. payload % 2 = 0 \/ payload % 2 = 1
  BY SMT
<1>2. CASE payload % 2 = 0
  BY <1>2, DepthAssumption, SMT DEF SetTopBit, Address
<1>3. CASE payload % 2 = 1
  BY <1>3, DepthAssumption, SMT DEF SetTopBit, Address
<1> QED
  BY <1>1, <1>2, <1>3

\* Byte n of an answer belongs to word n \div 2, and the two steps together.
LEMMA Halves ==
  ASSUME NEW n \in Nat
  PROVE  /\ n % 2 = 0 => (n + 1) % 2 = 1 /\ (n + 1) \div 2 = n \div 2
         /\ n % 2 = 1 => (n + 1) % 2 = 0 /\ (n + 1) \div 2 = n \div 2 + 1
         /\ n % 2 \in 0 .. 1 /\ n \div 2 \in Nat
         /\ \A l \in Nat : n < 2 * l => n \div 2 < l
  BY SMT

\* A byte that is not the last has a successor within the answer, and neither
\* the counter nor the read address wraps on the way to it.
LEMMA NextByte ==
  ASSUME NEW n \in Nat, NEW l \in Address, l # 0, n < 2 * l,
         ~(n # 0 /\ n = 2 * l - 1)
  PROVE  /\ n + 1 < 2 * l
         /\ (n + 1) % (2 * Depth) = n + 1
         /\ n + 1 \in 0 .. 2 * Depth - 1
         /\ n % 2 = 1 => (n \div 2 + 1) % Depth = (n + 1) \div 2
         /\ n % 2 # 1 => n \div 2 = (n + 1) \div 2
         /\ (n + 1) \div 2 \in Address
<1>1. n + 1 < 2 * l /\ l <= Depth - 1 /\ Depth \in Nat \ {0} /\ l \in Nat
  BY DepthAssumption, SMT DEF Address
<1>2. n + 1 \in 0 .. 2 * Depth - 1 /\ 2 * Depth \in Nat \ {0}
  BY <1>1, SMT
<1>3. (n + 1) % (2 * Depth) = n + 1
  BY <1>2, SMT
<1>4. (n + 1) \div 2 \in Nat /\ (n + 1) \div 2 < l
  BY <1>1, Halves, SMT
<1>5. (n + 1) \div 2 \in Address
  BY <1>1, <1>4, SMT DEF Address
<1>6. ((n + 1) \div 2) % Depth = (n + 1) \div 2
  BY <1>1, <1>4, SMT
<1>7. n % 2 = 1 => n \div 2 + 1 = (n + 1) \div 2
  BY Halves
<1>8. n % 2 # 1 => n \div 2 = (n + 1) \div 2
  BY Halves, SMT
<1> QED
  BY <1>1, <1>2, <1>3, <1>5, <1>6, <1>7, <1>8

-----------------------------------------------------------------------------
(* The answer side. *)

AnswerInv == InjTypeOK /\ AnswerInBounds

\* Every edge of InjectData keeps the counter and the read address together
\* and within the answer, whatever the pins show.
LEMMA InjEdgeInv ==
  ASSUME NEW d \in BOOLEAN, NEW v \in BOOLEAN, NEW z \in BOOLEAN,
         NEW p \in Nat, NEW r \in BOOLEAN,
         v /\ ~z => p \in Address,
         AnswerInv, InjEdge(d, v, z, p, r)
  PROVE  AnswerInv'
<1> USE DEF AnswerInv, InjTypeOK, InjStates, AnswerInBounds, Sending
<1>1. adc_done_in_1' \in BOOLEAN /\ adc_done_in' \in BOOLEAN
  BY DEF InjEdge, InjSynchronise
<1>2. CASE InjReset
  BY <1>1, <1>2, WaitAssumption, DepthAssumption, SMT DEF InjReset
<1>3. CASE InjWaitBeforeStart
  BY <1>1, <1>3, NextWaitRange, SMT DEF InjWaitBeforeStart
<1>4. CASE InjIdle(v)
  BY <1>1, <1>4, SMT DEF InjIdle
<1>5. CASE InjReceive(v, z, p)
  <2>1. CASE ~v
    BY <1>1, <1>5, <2>1, SMT DEF InjReceive
  <2>2. CASE v /\ ~z
    BY <1>1, <1>5, <2>2, SMT DEF InjReceive
  <2>3. CASE v /\ z
    <3>1. adc_trig' \in BOOLEAN
      BY <1>5, <2>3, Zenon DEF InjReceive
    <3> QED
      BY <1>1, <1>5, <2>3, <3>1, TopBit, SMT DEF InjReceive
  <2> QED
    BY <2>1, <2>2, <2>3
<1>6. CASE InjWaitForAdc
  <2>1. adc_trig' \in BOOLEAN
    BY <1>6, Zenon DEF InjWaitForAdc
  <2>2. counter = 0 /\ adc_mem_addr = 0 /\ 0 \div 2 = 0
    BY <1>6, SMT DEF InjWaitForAdc
  <2>3. adc_limit # 0 => counter < 2 * adc_limit
    BY <2>2, DepthAssumption, SMT DEF Address
  <2> QED
    BY <1>1, <1>6, <2>1, <2>2, <2>3, SMT DEF InjWaitForAdc
<1>7. CASE InjSend(r)
  <2>1. CASE ~r
    BY <1>1, <1>7, <2>1, SMT DEF InjSend
  <2>2. CASE r /\ InjLastByte
    BY <1>1, <1>7, <2>2, DepthAssumption, SMT DEF InjSend, Address
  <2>3. CASE r /\ ~InjLastByte
    <3>1. counter \in Nat /\ adc_limit # 0 /\ counter < 2 * adc_limit
          /\ adc_mem_addr = counter \div 2
      BY <1>7, SMT DEF InjSend
    <3>2. ~(counter # 0 /\ counter = 2 * adc_limit - 1)
      BY <2>3 DEF InjLastByte
    <3>3. /\ counter' = counter + 1
          /\ adc_mem_addr' = (counter + 1) \div 2
          /\ counter + 1 < 2 * adc_limit
          /\ counter' \in 0 .. 2 * Depth - 1
          /\ adc_mem_addr' \in Address
      BY <1>7, <2>3, <3>1, <3>2, NextByte DEF InjSend
    <3>4. UNCHANGED << injState, injWait, adc_limit, adc_trig >>
      BY <1>7, <2>3 DEF InjSend
    <3> QED
      BY <1>1, <1>7, <3>1, <3>3, <3>4 DEF InjSend
  <2> QED
    BY <2>1, <2>2, <2>3
<1> QED
  BY <1>2, <1>3, <1>4, <1>5, <1>6, <1>7 DEF InjEdge

\* The reset values satisfy the invariant.
LEMMA InjInitInv == InjInit => AnswerInv
<1> SUFFICES ASSUME InjInit PROVE AnswerInv
  OBVIOUS
<1>1. adc_done_in_1 \in BOOLEAN /\ adc_done_in \in BOOLEAN /\ adc_trig \in BOOLEAN
  BY Zenon DEF InjInit
<1>2. 0 \in Address /\ 0 \in 0 .. WaitMod - 1 /\ 0 \in 0 .. 2 * Depth - 1
  BY DepthAssumption, WaitAssumption, SMT DEF Address
<1> QED
  BY <1>1, <1>2, SMT DEF InjInit, AnswerInv, InjTypeOK, InjStates, AnswerInBounds, Sending

\* So does the state after an edge with the reset asserted.
LEMMA InjResetInv == InjResetEdge => AnswerInv'
<1> SUFFICES ASSUME InjResetEdge PROVE AnswerInv'
  OBVIOUS
<1>1. adc_done_in_1' \in BOOLEAN /\ adc_done_in' \in BOOLEAN /\ adc_trig' \in BOOLEAN
  BY Zenon DEF InjResetEdge
<1>2. 0 \in Address /\ 0 \in 0 .. WaitMod - 1 /\ 0 \in 0 .. 2 * Depth - 1
  BY DepthAssumption, WaitAssumption, SMT DEF Address
<1> QED
  BY <1>1, <1>2, SMT DEF InjResetEdge, AnswerInv, InjTypeOK, InjStates, AnswerInBounds, Sending

-----------------------------------------------------------------------------
(***************************************************************************)
(* The inductive invariant of the composition.  None of the properties is  *)
(* inductive: that the low byte is of its own word needs that each word of *)
(* the RAM is of the sample of its address (MemoryInv), and that in turn   *)
(* AdcInv; that done is over a complete capture needs the words written so *)
(* far (CaptureInv); and what the service promises needs the half-read     *)
(* packet (PacketInv).                                                     *)
(***************************************************************************)
WiresOK ==
  /\ since \in 0 .. MaxFast
  /\ button \in BOOLEAN
  /\ latched \subseteq Domains
  /\ presses \in 0 .. MaxPresses
  /\ out3 \in Seq(WordCounts)
  /\ nextByte \in 0 .. 1
  /\ issued \in Nat
  /\ capturing \in Nat
  /\ runs \in Nat
  /\ sent \in Nat
  /\ answered \in BOOLEAN

MemoryInv ==
  /\ RamTypeOK
  /\ \A a \in Address : ram[a].idx = a
  /\ LowByteOwnWord

CapturedSoFar ==
  adcState \in {"TRIGGER", "RECEIVE"} =>
    \A a \in 0 .. addr - 1 : ram[a] = [idx |-> a, cmd |-> capturing]

CaptureInv ==
  /\ done => adcState = "IDLE"
  /\ DoneMeansCaptured
  /\ CapturedSoFar

PacketInv ==
  /\ injState = "RECEIVE_DATA_FROM_USB" => out3 # << >>
  /\ nextByte = 1 => /\ injState = "RECEIVE_DATA_FROM_USB"
                     /\ adc_limit = Head(out3) % LowMod

IInv == WiresOK /\ AdcInv /\ AnswerInv /\ MemoryInv /\ CaptureInv /\ PacketInv

\* The reset values and the power-up contents of the RAM satisfy it.
LEMMA InitInv == Init => IInv
<1> SUFFICES ASSUME Init PROVE IInv
  OBVIOUS
<1>1. AdcInv
  BY AdcInitInv DEF Init
<1>2. AnswerInv
  BY InjInitInv DEF Init
<1>3. WiresOK
  <2>1. button \in BOOLEAN /\ answered \in BOOLEAN
    BY Zenon DEF Init
  <2>2. out3 \in Seq(WordCounts) /\ latched \subseteq Domains
    BY DEF Init
  <2> QED
    BY <2>1, <2>2, ClockAssumption, HostAssumption, SMT DEF Init, WiresOK
<1>4. MemoryInv
  <2>1. Address \subseteq Nat
    BY DepthAssumption, SMT DEF Address
  <2>2. RamTypeOK /\ \A a \in Address : ram[a].idx = a
    BY <2>1, SMT DEF Init, RamInit, RamTypeOK, Word
  <2>3. ~Sending
    BY SMT DEF Init, InjInit, Sending
  <2> QED
    BY <2>2, <2>3 DEF MemoryInv, LowByteOwnWord, LowByteNext
<1>5. CaptureInv
  BY SMT
     DEF Init, AdcInit, CaptureInv, DoneMeansCaptured, CapturedSoFar
<1>6. PacketInv
  BY SMT DEF Init, InjInit, PacketInv
<1> QED
  BY <1>1, <1>2, <1>3, <1>4, <1>5, <1>6 DEF IInv

\* The word written at an edge is of the sample its address belongs to.
LEMMA WriteEdge ==
  ASSUME NEW dry \in BOOLEAN, AdcInv, WiresOK, RamTypeOK,
         RamWriteEdge(DataReady(dry), addr, Sample)
  PROVE  /\ ram' \in [Address -> Word]
         /\ DataReady(dry) => ram' = [ram EXCEPT ![addr] = [idx |-> addr, cmd |-> capturing]]
         /\ ~DataReady(dry) => ram' = ram
<1>1. CASE DataReady(dry)
  <2>1. samples = addr + 1 /\ addr \in Nat /\ addr \in Address
    BY <1>1, DepthAssumption, SMT
       DEF DataReady, AdcInv, AdcTypeOK, SampleGoesToItsAddress, Address
  <2>2. samples - 1 = addr
    BY <2>1, SMT
  <2>3. Sample = [idx |-> addr, cmd |-> capturing] /\ Sample \in Word
    BY <2>1, <2>2, SMT DEF Sample, Word, WiresOK
  <2> QED
    BY <1>1, <2>1, <2>3 DEF RamWriteEdge, RamTypeOK
<1>2. CASE ~DataReady(dry)
  BY <1>2 DEF RamWriteEdge, RamTypeOK
<1> QED
  BY <1>1, <1>2

\* A fast edge keeps the invariant.
LEMMA FastEdgeInv ==
  ASSUME NEW dry \in BOOLEAN, IInv, FastEdge(dry)
  PROVE  IInv'
<1> USE DEF IInv
<1>1. AdcInv'
  <2>1. CASE FastReset
    BY <2>1, AdcResetInv DEF FastReset
  <2>2. CASE FastRun(dry)
    <3>1. AdcEdge(adc_trig, adc_limit, dry)
      BY <2>2 DEF FastRun
    <3>2. adc_trig \in BOOLEAN /\ adc_limit \in Address
      BY DEF AnswerInv, InjTypeOK
    <3> QED
      BY <3>1, <3>2, AdcEdgeInv
  <2> QED
    BY <2>1, <2>2 DEF FastEdge
<1>2. UNCHANGED << injVars, dob, button, presses, out3, nextByte, issued, sent, answered >>
  BY DEF FastEdge
<1>3. AnswerInv'
  BY <1>2 DEF AnswerInv, InjTypeOK, AnswerInBounds, Sending, injVars
<1>4. WiresOK'
  <2>1. since' \in 0 .. MaxFast
    BY ClockAssumption, SMT DEF FastEdge, WiresOK
  <2>2. latched' \subseteq Domains
    BY DEF FastEdge, FastReset, FastRun, WiresOK, Domains
  <2>3. capturing' \in Nat /\ runs' \in Nat
    <3>1. CASE FastReset
      BY <3>1 DEF FastReset, WiresOK
    <3>2. CASE FastRun(dry)
      BY <3>2, SMT DEF FastRun, WiresOK
    <3> QED
      BY <3>1, <3>2 DEF FastEdge
  <2> QED
    BY <1>2, <2>1, <2>2, <2>3 DEF WiresOK
<1>5. /\ ram' \in [Address -> Word]
      /\ DataReady(dry) => ram' = [ram EXCEPT ![addr] = [idx |-> addr, cmd |-> capturing]]
      /\ ~DataReady(dry) => ram' = ram
  BY WriteEdge DEF FastEdge, MemoryInv
<1>6. MemoryInv'
  <2>1. \A a \in Address : ram'[a].idx = a
    BY <1>5 DEF MemoryInv, RamTypeOK
  <2>2. LowByteOwnWord'
    BY <1>2 DEF MemoryInv, LowByteOwnWord, LowByteNext, Sending, injVars
  <2> QED
    BY <1>2, <1>5, <2>1, <2>2 DEF MemoryInv, RamTypeOK
<1>7. CaptureInv'
  <2>1. CASE FastReset
    BY <2>1, SMT
       DEF FastReset, AdcResetEdge, CaptureInv, DoneMeansCaptured, CapturedSoFar
  <2>2. CASE FastRun(dry)
    <3> USE DEF AdcInv, AdcTypeOK, SampleGoesToItsAddress, AdcStates
    <3>1. CASE AdcReset
      BY <3>1, SMT
     DEF AdcReset, CaptureInv, DoneMeansCaptured, CapturedSoFar
    <3>2. CASE AdcWaitBeforeStart
      BY <3>2, SMT
     DEF AdcWaitBeforeStart, CaptureInv, DoneMeansCaptured, CapturedSoFar
    <3>3. CASE AdcIdle
      <4>1. ram' = ram
        BY <3>3, <1>5 DEF AdcIdle, DataReady
      <4>2. CASE AdcTriggered
        BY <3>3, <4>2, SMT DEF AdcIdle, CaptureInv, DoneMeansCaptured, CapturedSoFar
      <4>3. CASE ~AdcTriggered
        <5>1. UNCHANGED << adcState, done, limit, addr, capturing >>
          BY <2>2, <3>3, <4>3 DEF AdcIdle, FastRun
        <5> QED
          BY <4>1, <5>1 DEF CaptureInv, DoneMeansCaptured, CapturedSoFar
      <4> QED
        BY <4>2, <4>3
    <3>4. CASE AdcTrigger
      <4>1. ram' = ram /\ UNCHANGED << limit, addr, done, capturing >>
        BY <2>2, <3>4, <1>5 DEF AdcTrigger, DataReady, FastRun
      <4> QED
        BY <3>4, <4>1 DEF AdcTrigger, CaptureInv, DoneMeansCaptured, CapturedSoFar
    <3>5. CASE AdcReceive(dry)
      <4>1. UNCHANGED << capturing, limit >>
        BY <2>2, <3>5 DEF AdcReceive, FastRun
      <4>2. CASE ~dry
        <5>1. ram' = ram /\ UNCHANGED << adcState, addr, done >>
          BY <3>5, <4>2, <1>5 DEF AdcReceive, DataReady
        <5> QED
          BY <4>1, <5>1 DEF CaptureInv, DoneMeansCaptured, CapturedSoFar
      <4>3. CASE dry
        <5>1. \A a \in 0 .. addr : ram'[a] = [idx |-> a, cmd |-> capturing]
          <6>1. ram' = [ram EXCEPT ![addr] = [idx |-> addr, cmd |-> capturing]]
            BY <3>5, <4>3, <1>5 DEF AdcReceive, DataReady
          <6>2. \A a \in 0 .. addr - 1 : ram[a] = [idx |-> a, cmd |-> capturing]
            BY <3>5 DEF AdcReceive, CaptureInv, CapturedSoFar
          <6>3. \A a \in 0 .. addr : a \in Address /\ (a = addr \/ a \in 0 .. addr - 1)
            BY DepthAssumption, SMT DEF Address
          <6> QED
            BY <6>1, <6>2, <6>3 DEF MemoryInv, RamTypeOK
        <5>2. done' => adcState' = "IDLE" /\ limit' = addr
          <6>1. ~done
            BY <3>5 DEF AdcReceive, CaptureInv
          <6>2. CASE addr = limit
            BY <3>5, <4>1, <4>3, <6>2 DEF AdcReceive
          <6>3. CASE addr # limit
            BY <3>5, <4>3, <6>1, <6>3 DEF AdcReceive
          <6> QED
            BY <6>2, <6>3
        <5>3. adcState' \in {"TRIGGER", "RECEIVE"} => addr' = addr + 1
          <6> SUFFICES ASSUME adcState' \in {"TRIGGER", "RECEIVE"}
                       PROVE  addr' = addr + 1
            OBVIOUS
          <6>1. addr # limit /\ addr' = (addr + 1) % Depth
            BY <3>5, <4>3 DEF AdcReceive
          <6>2. addr < limit
            BY <3>5, <6>1, DepthAssumption, SMT DEF AdcReceive, Address
          <6> QED
            BY <6>1, <6>2, AddressStep
        <5>4. 0 .. (addr + 1) - 1 = 0 .. addr
          BY DepthAssumption, SMT DEF Address
        <5>5. DoneMeansCaptured'
          BY <4>1, <5>1, <5>2 DEF DoneMeansCaptured
        <5>6. CapturedSoFar'
          BY <4>1, <5>1, <5>3, <5>4 DEF CapturedSoFar
        <5> QED
          BY <5>2, <5>5, <5>6 DEF CaptureInv
      <4> QED
        BY <4>2, <4>3
    <3> QED
      BY <2>2, <3>1, <3>2, <3>3, <3>4, <3>5 DEF FastRun, AdcEdge
  <2> QED
    BY <2>1, <2>2 DEF FastEdge
<1>8. PacketInv'
  BY <1>2 DEF PacketInv, injVars
<1> QED
  BY <1>1, <1>3, <1>4, <1>6, <1>7, <1>8

\* The bytes of a packet: the low byte is a value of the limit register.
LEMMA PayloadType ==
  ASSUME WiresOK
  PROVE  /\ Payload \in Nat
         /\ Valid => Head(out3) \in WordCounts /\ Head(out3) \in Nat
         /\ Valid /\ ~Last => Payload = Head(out3) % LowMod
         /\ Valid /\ Last => Payload = Head(out3) \div LowMod
         /\ ~Last => Payload \in Address
<1>1. Valid => Head(out3) \in WordCounts
  BY DEF Valid, WiresOK
<1>2. Valid => Head(out3) \in Nat
  <2>1. LowMod * LowMod - 1 \in Int
    BY DepthAssumption, SMT
  <2>2. 0 .. LowMod * LowMod - 1 \subseteq Nat
    BY <2>1, SMT
  <2> QED
    BY <1>1, <2>2, HostAssumption
<1>3. LowMod \in Nat \ {0}
  BY DepthAssumption
<1>4. \A n \in Nat : n % LowMod \in 0 .. LowMod - 1 /\ n \div LowMod \in Nat
  BY <1>3, SMT
<1>5. 0 .. LowMod - 1 \subseteq Address /\ 0 \in Address /\ Address \subseteq Nat
  BY DepthAssumption, SMT DEF Address
<1>6. /\ Valid /\ ~Last => Payload = Head(out3) % LowMod
      /\ Valid /\ Last => Payload = Head(out3) \div LowMod
      /\ ~Valid => Payload = 0
  BY DEF Payload
<1> QED
  BY <1>1, <1>2, <1>4, <1>5, <1>6

\* A usb edge keeps the invariant.
LEMMA UsbEdgeInv ==
  ASSUME NEW ready \in BOOLEAN, IInv, UsbEdge(ready)
  PROVE  IInv'
<1> USE DEF IInv
<1>1. UNCHANGED << adcVars, ram, button, presses, capturing >>
  BY DEF UsbEdge
<1>2. AdcInv'
  BY <1>1, AdcStutterInv
<1>3. CaptureInv'
  BY <1>1 DEF CaptureInv, DoneMeansCaptured, CapturedSoFar, adcVars
<1>4. AnswerInv'
  <2>1. CASE UsbReset
    BY <2>1, InjResetInv DEF UsbReset
  <2>2. CASE UsbRun(ready)
    <3>1. InjEdge(done, Valid, Last, Payload, ready)
      BY <2>2 DEF UsbRun
    <3>2. done \in BOOLEAN /\ Valid \in BOOLEAN /\ Last \in BOOLEAN
      BY DEF AdcInv, AdcTypeOK, Valid, Last
    <3>3. Payload \in Nat /\ (Valid /\ ~Last => Payload \in Address)
      BY PayloadType
    <3> QED
      BY <3>1, <3>2, <3>3, InjEdgeInv
  <2> QED
    BY <2>1, <2>2 DEF UsbEdge
<1>5. WiresOK'
  <2>1. since' \in 0 .. MaxFast
    BY ClockAssumption, SMT DEF UsbEdge
  <2>2. latched' \subseteq Domains
    BY DEF UsbEdge, UsbReset, UsbRun, WiresOK, Domains
  <2>3. answered' \in BOOLEAN
    BY Zenon DEF UsbEdge, UsbReset, UsbRun, WiresOK
  <2>5. sent' \in Nat
    BY SMT DEF UsbEdge, UsbReset, UsbRun, WiresOK
  <2>4. /\ out3' \in Seq(WordCounts) /\ nextByte' \in 0 .. 1
        /\ issued' \in Nat /\ runs' \in Nat
    <3>1. CASE UsbReset
      BY <3>1, SMT DEF UsbReset, WiresOK
    <3>2. CASE UsbRun(ready)
      <4>1. TakeByte
        BY <3>2 DEF UsbRun
      <4>2. CASE ~InjTakesByte(Valid)
        BY <4>1, <4>2, SMT DEF TakeByte, WiresOK
      <4>3. CASE InjTakesByte(Valid) /\ Last
        <5>1. Tail(out3) \in Seq(WordCounts)
          BY <4>3 DEF InjTakesByte, Valid, WiresOK
        <5> QED
          BY <4>1, <4>3, <5>1, SMT DEF TakeByte, WiresOK
      <4>4. CASE InjTakesByte(Valid) /\ ~Last
        BY <4>1, <4>4, SMT DEF TakeByte, WiresOK
      <4> QED
        BY <4>2, <4>3, <4>4
    <3> QED
      BY <3>1, <3>2 DEF UsbEdge
  <2> QED
    BY <1>1, <2>1, <2>2, <2>3, <2>4, <2>5 DEF WiresOK
<1>6. MemoryInv'
  <2>1. dob' = ram[adc_mem_addr]
    BY DEF UsbEdge, RamReadEdge
  <2>2. adc_mem_addr \in Address
    BY DEF AnswerInv, InjTypeOK
  <2>3. dob' \in Word /\ dob'.idx = adc_mem_addr
    BY <2>1, <2>2 DEF MemoryInv, RamTypeOK
  <2>4. LowByteOwnWord'
    <3> SUFFICES ASSUME LowByteNext' PROVE adc_mem_addr' = adc_mem_addr
      BY <2>3 DEF LowByteOwnWord
    <3>1. injState' = "SEND_DATA_TO_USB" /\ counter' % 2 = 1
      BY DEF LowByteNext, Sending
    <3>2. UsbRun(ready)
      BY <3>1, SMT DEF UsbEdge, UsbReset, InjResetEdge
    <3>3. CASE InjWaitForAdc
      BY <3>3 DEF InjWaitForAdc
    <3>4. CASE InjSend(ready)
      <4>1. CASE ~ready
        BY <3>4, <4>1 DEF InjSend
      <4>2. CASE ready /\ InjLastByte
        BY <3>1, <3>4, <4>2, SMT DEF InjSend
      <4>3. CASE ready /\ ~InjLastByte
        <5>1. /\ counter \in Nat /\ adc_limit \in Address /\ adc_limit # 0
              /\ counter < 2 * adc_limit
          BY <3>4, DepthAssumption, SMT
             DEF InjSend, AnswerInv, InjTypeOK, AnswerInBounds, Sending
        <5>2. counter' = counter + 1
          BY <3>4, <4>3, <5>1, NextByte DEF InjSend, InjLastByte
        <5>3. counter % 2 # 1
          BY <3>1, <5>1, <5>2, Halves, SMT
        <5> QED
          BY <3>4, <4>3, <5>3 DEF InjSend
      <4> QED
        BY <4>1, <4>2, <4>3
    <3>5. CASE InjReset
      BY <3>1, <3>5, SMT DEF InjReset
    <3>6. CASE InjWaitBeforeStart
      BY <3>6 DEF InjWaitBeforeStart
    <3>7. CASE InjIdle(Valid)
      BY <3>7 DEF InjIdle
    <3>8. CASE InjReceive(Valid, Last, Payload)
      BY <3>8 DEF InjReceive
    <3> QED
      BY <3>2, <3>3, <3>4, <3>5, <3>6, <3>7, <3>8 DEF UsbRun, InjEdge
  <2> QED
    BY <1>1, <2>3, <2>4 DEF MemoryInv, RamTypeOK, adcVars
<1>7. PacketInv'
  <2>1. CASE UsbReset
    BY <2>1, SMT DEF UsbReset, InjResetEdge, PacketInv
  <2>2. CASE UsbRun(ready)
    <3>1. TakeByte
      BY <2>2 DEF UsbRun
    <3>2. CASE InjReceive(Valid, Last, Payload)
      <4>1. CASE ~Valid
        BY <3>2, <4>1 DEF InjReceive, Valid, PacketInv
      <4>2. CASE Valid /\ ~Last
        <5>1. out3' = out3 /\ nextByte' = 1
          BY <3>1, <3>2, <4>2 DEF TakeByte, InjTakesByte, InjReceive
        <5>2. adc_limit' = Head(out3) % LowMod /\ injState' = "RECEIVE_DATA_FROM_USB"
          BY <3>2, <4>2, PayloadType DEF InjReceive
        <5> QED
          BY <4>2, <5>1, <5>2 DEF PacketInv, Valid
      <4>3. CASE Valid /\ Last
        <5>1. nextByte' = 0
          BY <3>1, <3>2, <4>3 DEF TakeByte, InjTakesByte, InjReceive
        <5>2. injState' = "WAIT_FOR_ADC"
          BY <3>2, <4>3 DEF InjReceive
        <5> QED
          BY <5>1, <5>2, SMT DEF PacketInv
      <4> QED
        BY <4>1, <4>2, <4>3
    <3>3. CASE injState # "RECEIVE_DATA_FROM_USB"
      <4>1. out3' = out3 /\ nextByte' = nextByte /\ nextByte # 1
        BY <3>1, <3>3 DEF TakeByte, InjTakesByte, PacketInv
      <4>2. injState' = "RECEIVE_DATA_FROM_USB" => Valid
        BY <2>2, <3>3, SMT
           DEF UsbRun, InjEdge, InjReset, InjWaitBeforeStart, InjIdle, InjReceive,
               InjWaitForAdc, InjSend
      <4>3. injState' = "RECEIVE_DATA_FROM_USB" => out3' # << >>
        BY <4>1, <4>2 DEF Valid
      <4>4. ~(nextByte' = 1)
        BY <4>1
      <4> QED
        BY <4>3, <4>4, Zenon DEF PacketInv
    <3>4. injState = "RECEIVE_DATA_FROM_USB" => InjReceive(Valid, Last, Payload)
      BY <2>2, SMT
         DEF UsbRun, InjEdge, InjReset, InjWaitBeforeStart, InjIdle, InjWaitForAdc, InjSend
    <3> QED
      BY <3>2, <3>3, <3>4
  <2> QED
    BY <2>1, <2>2 DEF UsbEdge
<1> QED
  BY <1>2, <1>3, <1>4, <1>5, <1>6, <1>7

\* A command that the USB core accepts goes behind a half-read packet.
LEMMA HostCommandInv ==
  ASSUME NEW w \in WordCounts, IInv, HostCommand(w)
  PROVE  IInv'
<1> USE DEF IInv
<1>1. out3' = Append(out3, w)
  BY DEF HostCommand
<1>2. UNCHANGED << adcVars, injVars, ramVars, since, button, latched, presses,
                   nextByte, historyVars >>
  BY DEF HostCommand
<1>3. AdcInv'
  BY <1>2, AdcStutterInv
<1>4. AnswerInv' /\ MemoryInv' /\ CaptureInv'
  BY <1>2
     DEF AnswerInv, InjTypeOK, AnswerInBounds, Sending, MemoryInv, RamTypeOK,
         LowByteOwnWord, LowByteNext, CaptureInv, DoneMeansCaptured, CapturedSoFar,
         adcVars, injVars, ramVars, historyVars
<1>5. out3 \in Seq(WordCounts) /\ out3' \in Seq(WordCounts) /\ out3' # << >>
  BY <1>1 DEF WiresOK
<1>6. out3 # << >> => Head(out3') = Head(out3)
  BY <1>1, <1>5
<1>7. WiresOK'
  BY <1>2, <1>5 DEF WiresOK, historyVars
<1>8. PacketInv'
  BY <1>2, <1>5, <1>6 DEF PacketInv, injVars
<1> QED
  BY <1>3, <1>4, <1>7, <1>8

\* The button by itself changes nothing of the machines.
LEMMA ButtonInv ==
  ASSUME IInv, PressButton \/ ReleaseButton
  PROVE  IInv'
<1> USE DEF IInv
<1>1. UNCHANGED << adcVars, injVars, ramVars, since, out3, nextByte, historyVars >>
  BY DEF PressButton, ReleaseButton
<1>2. AdcInv'
  BY <1>1, AdcStutterInv
<1>3. AnswerInv' /\ MemoryInv' /\ CaptureInv' /\ PacketInv'
  BY <1>1
     DEF AnswerInv, InjTypeOK, AnswerInBounds, Sending, MemoryInv, RamTypeOK,
         LowByteOwnWord, LowByteNext, CaptureInv, DoneMeansCaptured, CapturedSoFar,
         PacketInv, adcVars, injVars, ramVars, historyVars
<1>4. button' \in BOOLEAN
  BY Zenon DEF PressButton, ReleaseButton
<1>5. presses' \in 0 .. MaxPresses
  BY HostAssumption, SMT DEF PressButton, ReleaseButton, WiresOK
<1>6. latched' \subseteq Domains
  BY DEF PressButton, ReleaseButton, WiresOK
<1> QED
  BY <1>1, <1>2, <1>3, <1>4, <1>5, <1>6 DEF WiresOK, historyVars

\* Every step keeps the invariant.
LEMMA StepInv == IInv /\ [Next]_vars => IInv'
<1> SUFFICES ASSUME IInv, [Next]_vars PROVE IInv'
  OBVIOUS
<1>1. ASSUME NEW dry \in DryValues, FastEdge(dry) PROVE IInv'
  <2>1. dry \in BOOLEAN
    BY DryAssumption
  <2> QED
    BY <1>1, <2>1, FastEdgeInv
<1>2. ASSUME NEW ready \in BOOLEAN, UsbEdge(ready) PROVE IInv'
  BY <1>2, UsbEdgeInv
<1>3. ASSUME NEW w \in WordCounts, HostCommand(w) PROVE IInv'
  BY <1>3, HostCommandInv
<1>4. CASE PressButton \/ ReleaseButton
  BY <1>4, ButtonInv
<1>5. CASE UNCHANGED vars
  <2>1. AdcInv'
    BY <1>5, AdcStutterInv DEF IInv, vars
  <2>2. WiresOK' /\ AnswerInv' /\ MemoryInv' /\ CaptureInv' /\ PacketInv'
    BY <1>5
       DEF IInv, WiresOK, AnswerInv, InjTypeOK, AnswerInBounds, Sending, MemoryInv,
           RamTypeOK, LowByteOwnWord, LowByteNext, CaptureInv, DoneMeansCaptured,
           CapturedSoFar, PacketInv, vars, adcVars, injVars, ramVars, wireVars,
           historyVars
  <2> QED
    BY <2>1, <2>2 DEF IInv
<1> QED
  BY <1>1, <1>2, <1>3, <1>4, <1>5 DEF Next

LEMMA Invariance == Spec => []IInv
  BY InitInv, StepInv, PTL DEF Spec

(***************************************************************************)
(* The type invariant of the composition, for all widths, clock ratios,    *)
(* converters and hosts.                                                   *)
(***************************************************************************)
THEOREM TypeCorrect == Spec => []TypeOK
<1>1. IInv => TypeOK
  BY DEF IInv, TypeOK, WiresOK, AdcInv, AnswerInv, MemoryInv
<1> QED
  BY Invariance, <1>1, PTL

(***************************************************************************)
(* No answer runs past its last byte, reads a word it was not asked for or *)
(* leaves the read address where the next answer would start wrong.        *)
(***************************************************************************)
THEOREM AnswerBounded == Spec => []AnswerInBounds
<1>1. IInv => AnswerInBounds
  BY DEF IInv, AnswerInv
<1> QED
  BY Invariance, <1>1, PTL

(***************************************************************************)
(* The low byte of a word is of the sample of that word, whatever the      *)
(* ratio of the clocks and however the host stalls the answer.             *)
(***************************************************************************)
THEOREM LowByteCorrect == Spec => []LowByteOwnWord
<1>1. IInv => LowByteOwnWord
  BY DEF IInv, MemoryInv
<1> QED
  BY Invariance, <1>1, PTL

(***************************************************************************)
(* done is never set over an incomplete capture, and within a capture each *)
(* sample goes to its own address.                                         *)
(***************************************************************************)
THEOREM DoneIsComplete == Spec => [](DoneMeansCaptured /\ SampleGoesToItsAddress)
<1>1. IInv => DoneMeansCaptured /\ SampleGoesToItsAddress
  BY DEF IInv, CaptureInv, AdcInv
<1> QED
  BY Invariance, <1>1, PTL

-----------------------------------------------------------------------------
(* Refinement of CaptureService. *)

\* Taking the last byte of a packet begins the next answer, handing a byte to
\* endpoint 2 sends one, and nothing else InjectData does shows.
LEMMA UsbRunRefines ==
  ASSUME NEW ready \in BOOLEAN, IInv, UsbRun(ready)
  PROVE  [Service!Next]_Service!serviceVars
<1> USE DEF IInv
<1>1. InjEdge(done, Valid, Last, Payload, ready) /\ TakeByte
  BY DEF UsbRun
<1>2. /\ injState # "RECEIVE_DATA_FROM_USB" => out3' = out3
      /\ injState \notin {"RECEIVE_DATA_FROM_USB", "SEND_DATA_TO_USB"} => sent' = sent
  BY <1>1, SMT DEF TakeByte, InjTakesByte, UsbRun, HandsByte
<1>3. ASSUME out3' = out3, sent' = sent, BytesToSend' = BytesToSend
      PROVE  [Service!Next]_Service!serviceVars
  BY <1>3 DEF Service!serviceVars
<1>4. CASE InjReset
  <2>1. BytesToSend = 0 /\ BytesToSend' = 0
    BY <1>4, SMT DEF InjReset, BytesToSend
  <2> QED
    BY <1>2, <1>3, <1>4, <2>1 DEF InjReset
<1>5. CASE InjWaitBeforeStart
  <2>1. BytesToSend = 0 /\ BytesToSend' = 0
    BY <1>5, SMT DEF InjWaitBeforeStart, BytesToSend
  <2> QED
    BY <1>2, <1>3, <1>5, <2>1 DEF InjWaitBeforeStart
<1>6. CASE InjIdle(Valid)
  <2>1. BytesToSend = 0 /\ BytesToSend' = 0
    BY <1>6, SMT DEF InjIdle, BytesToSend
  <2> QED
    BY <1>2, <1>3, <1>6, <2>1 DEF InjIdle
<1>7. CASE InjReceive(Valid, Last, Payload)
  <2>1. BytesToSend = 0
    BY <1>7, SMT DEF InjReceive, BytesToSend
  <2>2. CASE ~(Valid /\ Last)
    <3>1. injState' = injState /\ out3' = out3 /\ sent' = sent
      BY <1>1, <1>7, <2>2, SMT
         DEF InjReceive, TakeByte, InjTakesByte, UsbRun, HandsByte
    <3>2. BytesToSend' = 0
      BY <1>7, <3>1, SMT DEF InjReceive, BytesToSend
    <3> QED
      BY <1>3, <2>1, <3>1, <3>2
  <2>3. CASE Valid /\ Last
    <3>1. out3' = Tail(out3) /\ out3 # << >> /\ sent' = 0
      BY <1>1, <1>7, <2>3 DEF TakeByte, InjTakesByte, InjReceive, Valid, UsbRun
    <3>2. adc_limit \in Address /\ adc_limit = Head(out3) % LowMod
      BY <2>3 DEF Last, PacketInv, AnswerInv, InjTypeOK
    <3>3. adc_limit < LowMod
      <4>1. LowMod \in Nat \ {0} /\ Head(out3) \in Int
        BY <2>3, PayloadType, DepthAssumption, SMT
      <4> QED
        BY <3>2, <4>1, SMT
    <3>4. Payload \in Nat /\ Payload = Head(out3) \div LowMod
      BY <2>3, PayloadType
    <3>5. adc_limit' = Service!Limit(Head(out3))
      <4>1. adc_limit' = SetTopBit(adc_limit, Payload)
        BY <1>7, <2>3 DEF InjReceive
      <4>2. SetTopBit(adc_limit, Payload) = adc_limit + (Payload % 2) * LowMod
        BY <3>2, <3>3, <3>4, TopBit
      <4> QED
        BY <3>2, <3>4, <4>1, <4>2 DEF Service!Limit
    <3>6. injState' = "WAIT_FOR_ADC"
      BY <1>7, <2>3 DEF InjReceive
    <3>7. BytesToSend' = 2 * Service!Limit(Head(out3))
      BY <3>5, <3>6 DEF BytesToSend
    <3> QED
      BY <2>1, <3>1, <3>7 DEF Service!Next, Service!Begin
  <2> QED
    BY <2>2, <2>3
<1>8. CASE InjWaitForAdc
  <2>1. counter = 0 /\ counter' = 0 /\ adc_limit' = adc_limit
    BY <1>8, SMT DEF InjWaitForAdc, AnswerInv, AnswerInBounds, Sending
  <2>2. BytesToSend = 2 * adc_limit
    BY <1>8 DEF InjWaitForAdc, BytesToSend
  <2>3. adc_limit \in Nat
    BY DepthAssumption, SMT DEF AnswerInv, InjTypeOK, Address
  <2>4. BytesToSend' = 2 * adc_limit
    <3>1. CASE adc_limit = 0
      BY <1>8, <3>1, SMT DEF InjWaitForAdc, BytesToSend
    <3>2. CASE adc_limit # 0 /\ adc_done_in
      <4>1. injState' = "SEND_DATA_TO_USB"
        BY <1>8, <3>2 DEF InjWaitForAdc
      <4> QED
        BY <2>1, <2>3, <4>1, SMT DEF BytesToSend
    <3>3. CASE adc_limit # 0 /\ ~adc_done_in
      <4>1. injState' = "WAIT_FOR_ADC"
        BY <1>8, <3>3 DEF InjWaitForAdc
      <4> QED
        BY <2>1, <4>1 DEF BytesToSend
    <3> QED
      BY <3>1, <3>2, <3>3
  <2> QED
    BY <1>2, <1>3, <1>8, <2>2, <2>4 DEF InjWaitForAdc
<1>9. CASE InjSend(ready)
  <2>1. out3' = out3
    BY <1>2, <1>9 DEF InjSend
  <2>2. /\ counter \in Nat /\ adc_limit \in Address /\ adc_limit \in Nat
        /\ adc_limit # 0 /\ counter < 2 * adc_limit
    BY <1>9, DepthAssumption, SMT
       DEF InjSend, AnswerInv, InjTypeOK, AnswerInBounds, Sending, Address
  <2>3. BytesToSend = 2 * adc_limit - counter
    BY <1>9, SMT DEF InjSend, BytesToSend
  <2>4. adc_limit' = adc_limit
    BY <1>9 DEF InjSend
  <2>5. sent' = IF ready THEN sent + 1 ELSE sent
    BY <1>9, SMT DEF InjSend, UsbRun, HandsByte, InjTakesByte
  <2>6. CASE ~ready
    <3>1. injState' = injState /\ counter' = counter /\ sent' = sent
      BY <1>9, <2>6, <2>5 DEF InjSend
    <3> QED
      BY <1>3, <2>1, <2>4, <3>1 DEF BytesToSend
  <2>7. CASE ready /\ InjLastByte
    <3>1. BytesToSend = 1
      BY <2>2, <2>3, <2>7, SMT DEF InjLastByte
    <3>2. BytesToSend' = 0
      BY <1>9, <2>7, SMT DEF InjSend, BytesToSend
    <3>3. sent' = sent + 1
      BY <2>7, <2>5
    <3> QED
      BY <2>1, <3>1, <3>2, <3>3, SMT DEF Service!Next, Service!SendByte
  <2>8. CASE ready /\ ~InjLastByte
    <3>1. counter' = counter + 1 /\ injState' = "SEND_DATA_TO_USB"
      BY <1>9, <2>2, <2>8, NextByte DEF InjSend, InjLastByte
    <3>2. BytesToSend' = 2 * adc_limit - (counter + 1)
      BY <2>4, <3>1, SMT DEF BytesToSend
    <3>3. BytesToSend > 0 /\ BytesToSend' = BytesToSend - 1
      BY <2>2, <2>3, <3>2, SMT
    <3>4. sent' = sent + 1
      BY <2>8, <2>5
    <3> QED
      BY <2>1, <3>3, <3>4 DEF Service!Next, Service!SendByte
  <2> QED
    BY <2>6, <2>7, <2>8
<1> QED
  BY <1>1, <1>4, <1>5, <1>6, <1>7, <1>8, <1>9 DEF InjEdge

(***************************************************************************)
(* The gateware implements CaptureService: commands are answered one at a  *)
(* time, in order, with exactly two bytes per word of the decoded limit,   *)
(* for every width, clock ratio, converter, host and number of resets.     *)
(***************************************************************************)
THEOREM Refinement == Spec => ImplementsService
<1>1. Init => Service!Init
  BY SMT DEF Init, InjInit, Service!Init, BytesToSend
<1>2. IInv /\ [Next]_vars => [Service!Next]_Service!serviceVars
  <2> SUFFICES ASSUME IInv, [Next]_vars
               PROVE  [Service!Next]_Service!serviceVars
    OBVIOUS
  <2>1. ASSUME out3' = out3, sent' = sent, UNCHANGED injVars
        PROVE  [Service!Next]_Service!serviceVars
    BY <2>1 DEF Service!serviceVars, BytesToSend, injVars
  <2>2. ASSUME NEW dry \in DryValues, FastEdge(dry)
        PROVE  [Service!Next]_Service!serviceVars
    BY <2>1, <2>2 DEF FastEdge
  <2>3. ASSUME NEW ready \in BOOLEAN, UsbEdge(ready)
        PROVE  [Service!Next]_Service!serviceVars
    <3>1. CASE UsbReset
      <4>1. out3' = << >> /\ BytesToSend' = 0 /\ sent' = 0
        BY <3>1, SMT DEF UsbReset, InjResetEdge, BytesToSend
      <4> QED
        BY <4>1 DEF Service!Next, Service!Restart
    <3>2. CASE UsbRun(ready)
      BY <3>2, UsbRunRefines
    <3> QED
      BY <2>3, <3>1, <3>2 DEF UsbEdge
  <2>4. ASSUME NEW w \in WordCounts, HostCommand(w)
        PROVE  [Service!Next]_Service!serviceVars
    <3>1. out3' = Append(out3, w) /\ sent' = sent /\ BytesToSend' = BytesToSend
      BY <2>4 DEF HostCommand, BytesToSend, injVars, historyVars
    <3> QED
      BY <3>1 DEF Service!Next, Service!Submit
  <2>5. CASE PressButton \/ ReleaseButton
    BY <2>1, <2>5 DEF PressButton, ReleaseButton, historyVars
  <2>6. CASE UNCHANGED vars
    BY <2>1, <2>6 DEF vars, wireVars, historyVars
  <2> QED
    BY <2>2, <2>3, <2>4, <2>5, <2>6 DEF Next
<1> QED
  BY Invariance, <1>1, <1>2, PTL DEF Spec, ImplementsService, Service!Spec

-----------------------------------------------------------------------------
(***************************************************************************)
(* The first answer.  Until a command with a limit is served, nothing is   *)
(* captured and no trigger with a limit is on its way (Quiet): that is what*)
(* synchronisers of equal depth for trigger and limit give.  While it is   *)
(* served, every capture is its own, and done, at either end of its        *)
(* synchroniser, is of such a capture (ServingFirst).  ResetInv is what    *)
(* either domain is while the button is held.                              *)
(***************************************************************************)
Captured == \A a \in 0 .. adc_limit - 1 : ram[a] = [idx |-> a, cmd |-> issued]

Serving == injState \in {"WAIT_FOR_ADC", "SEND_DATA_TO_USB"}

DoneOnItsWay == done \/ adc_done_in_1 \/ adc_done_in

Quiet ==
  /\ ~DoneOnItsWay
  /\ adcState \notin {"TRIGGER", "RECEIVE"}
  /\ trig_1 => limit_in_1 = 0
  /\ trig => limit_in = 0

ServingFirst ==
  /\ trig_1 => limit_in_1 \in {0, adc_limit}
  /\ trig => limit_in \in {0, adc_limit}
  /\ adcState \in {"TRIGGER", "RECEIVE"} => capturing = issued /\ limit = adc_limit - 1
  /\ DoneOnItsWay => adc_limit # 0 /\ Captured
  /\ Sending => Captured

ResetInv ==
  /\ "usb" \in latched => injState = "RESET" /\ ~adc_done_in_1 /\ ~adc_done_in
  /\ "fast" \in latched => adcState = "RESET" /\ ~done /\ ~trig_1 /\ ~trig

FirstInv ==
  /\ adc_trig => injState = "WAIT_FOR_ADC"
  /\ button => ResetInv
  /\ ~answered /\ ~Serving /\ ~button => Quiet
  /\ ~answered /\ Serving => ServingFirst

LEMMA InitFirst == Init => FirstInv
<1> SUFFICES ASSUME Init PROVE FirstInv
  OBVIOUS
<1>1. /\ ~adc_trig /\ ~button /\ injState = "RESET" /\ adcState = "RESET"
      /\ ~done /\ ~adc_done_in_1 /\ ~adc_done_in /\ ~trig_1 /\ ~trig
  BY Zenon DEF Init, AdcInit, InjInit
<1> QED
  BY <1>1 DEF FirstInv, Serving, Quiet, DoneOnItsWay

\* A fast edge: the ADC takes the pins into its synchronisers and starts,
\* continues or ends a capture.
LEMMA FastFirst ==
  ASSUME NEW dry \in BOOLEAN, IInv, IInv', FirstInv, FastEdge(dry)
  PROVE  FirstInv'
<1>1. UNCHANGED << injState, adc_done_in_1, adc_done_in, adc_limit, adc_trig, button, issued, answered >>
  BY DEF FastEdge, injVars
<1>2. (Serving' <=> Serving) /\ (Sending' <=> Sending)
  BY <1>1 DEF Serving, Sending
<1>3. CASE FastReset
  <2>1. /\ adcState' = "RESET" /\ ~done' /\ ~trig_1' /\ ~trig'
        /\ button /\ latched' = latched \union {"fast"}
    BY <1>3, Zenon DEF FastReset, AdcResetEdge
  <2>2. (button => ResetInv)'
    BY <1>1, <2>1 DEF FirstInv, ResetInv
  <2>3. ~answered /\ Serving => ServingFirst'
    <3> SUFFICES ASSUME ~answered, Serving
                 PROVE  ServingFirst'
      OBVIOUS
    <3>1. ServingFirst
      BY DEF FirstInv
    <3>2. Captured => Captured'
      <4>1. /\ DataReady(dry) => ram' = [ram EXCEPT ![addr] = [idx |-> addr, cmd |-> capturing]]
            /\ ~DataReady(dry) => ram' = ram
        BY WriteEdge DEF FastEdge, IInv, MemoryInv
      <4>2. DataReady(dry) => capturing = issued
        BY <3>1 DEF ServingFirst, DataReady
      <4>3. \A a \in Address : ram'[a] = ram[a] \/ ram'[a] = [idx |-> a, cmd |-> issued]
        BY <4>1, <4>2 DEF IInv, MemoryInv, RamTypeOK
      <4>4. \A a \in 0 .. adc_limit - 1 : a \in Address
        BY DepthAssumption, SMT DEF IInv, AnswerInv, InjTypeOK, Address
      <4> QED
        BY <1>1, <4>3, <4>4 DEF Captured
    <3> QED
      BY <1>1, <1>2, <2>1, <3>1, <3>2 DEF ServingFirst, DoneOnItsWay
  <2> QED
    BY <1>1, <1>2, <2>1, <2>2, <2>3 DEF FirstInv
<1>4. CASE FastRun(dry)
  <2>1. /\ ~button /\ latched' = latched
        /\ trig_1' = adc_trig /\ trig' = trig_1
        /\ limit_in_1' = adc_limit /\ limit_in' = limit_in_1
    BY <1>4 DEF FastRun, AdcEdge, AdcSynchronise
  <2>2. AdcReset \/ AdcWaitBeforeStart \/ AdcIdle \/ AdcTrigger \/ AdcReceive(dry)
    BY <1>4 DEF FastRun, AdcEdge
  <2>3. ~answered /\ ~Serving => Quiet'
    <3> SUFFICES ASSUME ~answered, ~Serving
                 PROVE  Quiet'
      OBVIOUS
    <3>1. Quiet /\ ~adc_trig
      BY <2>1 DEF FirstInv, Serving
    <3>2. ~AdcTriggered
      BY <3>1 DEF Quiet, AdcTriggered
    <3>3. ~done' /\ adcState' \notin {"TRIGGER", "RECEIVE"}
      BY <2>2, <3>1, <3>2
         DEF Quiet, DoneOnItsWay, AdcReset, AdcWaitBeforeStart, AdcIdle, AdcTrigger, AdcReceive
    <3> QED
      BY <1>1, <2>1, <3>1, <3>3 DEF Quiet, DoneOnItsWay
  <2>4. ~answered /\ Serving => ServingFirst'
    <3> SUFFICES ASSUME ~answered, Serving
                 PROVE  ServingFirst'
      OBVIOUS
    <3>1. ServingFirst
      BY DEF FirstInv
    <3>2. Captured => Captured'
      <4>1. /\ DataReady(dry) => ram' = [ram EXCEPT ![addr] = [idx |-> addr, cmd |-> capturing]]
            /\ ~DataReady(dry) => ram' = ram
        BY WriteEdge DEF FastEdge, IInv, MemoryInv
      <4>2. DataReady(dry) => capturing = issued
        BY <3>1 DEF ServingFirst, DataReady
      <4>3. \A a \in Address : ram'[a] = ram[a] \/ ram'[a] = [idx |-> a, cmd |-> issued]
        BY <4>1, <4>2 DEF IInv, MemoryInv, RamTypeOK
      <4>4. \A a \in 0 .. adc_limit - 1 : a \in Address
        BY DepthAssumption, SMT DEF IInv, AnswerInv, InjTypeOK, Address
      <4> QED
        BY <1>1, <4>3, <4>4 DEF Captured
    <3>3. adcState' \in {"TRIGGER", "RECEIVE"} => capturing' = issued /\ limit' = adc_limit - 1
      <4>1. CASE AdcIdle /\ AdcTriggered
        <5>1. limit_in = adc_limit
          BY <3>1, <4>1 DEF ServingFirst, AdcTriggered
        <5>2. capturing' = issued
          BY <1>4, <4>1 DEF FastRun, AdcIdle
        <5> QED
          BY <4>1, <5>1, <5>2 DEF AdcIdle
      <4>2. CASE ~(AdcIdle /\ AdcTriggered)
        <5>1. capturing' = capturing
          BY <1>4, <2>2, <4>2
             DEF FastRun, AdcReset, AdcWaitBeforeStart, AdcIdle, AdcTrigger, AdcReceive
        <5>2. adcState' \in {"TRIGGER", "RECEIVE"} => adcState \in {"TRIGGER", "RECEIVE"} /\ limit' = limit
          BY <2>2, <4>2 DEF AdcReset, AdcWaitBeforeStart, AdcIdle, AdcTrigger, AdcReceive
        <5> QED
          BY <3>1, <5>1, <5>2 DEF ServingFirst
      <4> QED
        BY <4>1, <4>2
    <3>4. done' /\ ~done => adc_limit # 0 /\ Captured'
      <4> SUFFICES ASSUME done', ~done
                   PROVE  adc_limit # 0 /\ Captured'
        OBVIOUS
      <4>1. AdcReceive(dry) /\ limit' = limit
        BY <2>2 DEF AdcReset, AdcWaitBeforeStart, AdcIdle, AdcTrigger, AdcReceive
      <4>2. adcState = "RECEIVE" /\ capturing' = capturing
        BY <1>4, <4>1 DEF AdcReceive, FastRun
      <4>3. capturing' = issued /\ limit' = adc_limit - 1
        BY <3>1, <4>1, <4>2 DEF ServingFirst
      <4>4. limit \in Address /\ adc_limit \in Address
        BY DEF IInv, AdcInv, AdcTypeOK, AnswerInv, InjTypeOK
      <4>5. adc_limit # 0
        BY <4>1, <4>3, <4>4, DepthAssumption, SMT DEF Address
      <4>6. \A a \in 0 .. limit' : ram'[a] = [idx |-> a, cmd |-> capturing']
        BY DEF IInv, CaptureInv, DoneMeansCaptured
      <4> QED
        BY <1>1, <4>3, <4>5, <4>6 DEF Captured
    <3>5. DoneOnItsWay' => adc_limit # 0 /\ Captured'
      BY <1>1, <3>1, <3>2, <3>4 DEF ServingFirst, DoneOnItsWay
    <3> QED
      BY <1>1, <1>2, <2>1, <3>1, <3>2, <3>3, <3>5 DEF ServingFirst
  <2> QED
    BY <1>1, <1>2, <2>1, <2>3, <2>4 DEF FirstInv
<1> QED
  BY <1>3, <1>4 DEF FastEdge

\* A usb edge: InjectData takes a command, waits for done or hands a byte over.
LEMMA UsbFirst ==
  ASSUME NEW ready \in BOOLEAN, IInv, FirstInv, UsbEdge(ready)
  PROVE  FirstInv'
<1>1. UNCHANGED << adcState, trig_1, trig, limit_in_1, limit_in, limit, done, ram, button, capturing >>
  BY DEF UsbEdge, adcVars
<1>2. CASE UsbReset
  <2>1. /\ button /\ latched' = latched \union {"usb"}
        /\ injState' = "RESET" /\ ~adc_done_in_1' /\ ~adc_done_in' /\ ~adc_trig'
    BY <1>2, Zenon DEF UsbReset, InjResetEdge
  <2> QED
    BY <1>1, <2>1 DEF FirstInv, ResetInv, Serving
<1>3. CASE UsbRun(ready)
  <2>1. /\ ~button /\ latched' = latched
        /\ adc_done_in_1' = done /\ adc_done_in' = adc_done_in_1
        /\ TakeByte
        /\ answered' = (answered \/ (HandsByte(ready) /\ InjLastByte))
    BY <1>3 DEF UsbRun, InjEdge, InjSynchronise
  <2>2. \/ InjReset \/ InjWaitBeforeStart \/ InjIdle(Valid) \/ InjReceive(Valid, Last, Payload)
        \/ InjWaitForAdc \/ InjSend(ready)
    BY <1>3 DEF UsbRun, InjEdge
  <2>3. adc_trig' => injState' = "WAIT_FOR_ADC"
    BY <2>2 DEF FirstInv, InjReset, InjWaitBeforeStart, InjIdle, InjReceive, InjWaitForAdc, InjSend
  <2>4. ~answered' => ~answered
    BY <2>1
  <2>5. CASE InjReset \/ InjWaitBeforeStart \/ InjIdle(Valid) \/ (InjReceive(Valid, Last, Payload) /\ ~Serving')
    <3>1. ~Serving /\ ~Serving'
      BY <2>5 DEF Serving, InjReset, InjWaitBeforeStart, InjIdle, InjReceive
    <3>2. ~answered => Quiet
      BY <2>1, <3>1 DEF FirstInv
    <3> QED
      BY <1>1, <2>1, <2>3, <2>4, <3>1, <3>2 DEF FirstInv, Quiet, DoneOnItsWay
  <2>6. CASE InjReceive(Valid, Last, Payload) /\ Serving'
    <3>1. ~Serving /\ ~Sending'
      BY <2>6 DEF Serving, Sending, InjReceive
    <3>2. ~answered => Quiet
      BY <2>1, <3>1 DEF FirstInv
    <3> QED
      BY <1>1, <2>1, <2>3, <2>4, <3>1, <3>2 DEF FirstInv, Quiet, ServingFirst, DoneOnItsWay
  <2>7. CASE InjWaitForAdc
    <3>1. injState = "WAIT_FOR_ADC" /\ Serving /\ adc_limit' = adc_limit /\ issued' = issued
      BY <2>1, <2>7 DEF InjWaitForAdc, Serving, TakeByte, InjTakesByte
    <3>2. ~answered => ServingFirst
      BY <3>1 DEF FirstInv
    <3>3. Captured' <=> Captured
      BY <1>1, <3>1 DEF Captured
    <3>4. CASE Serving'
      <4>1. ~answered => ServingFirst'
        <5>1. Sending' => adc_done_in
          BY <2>7, <3>4 DEF InjWaitForAdc, Sending, Serving
        <5> QED
          BY <1>1, <2>1, <3>1, <3>2, <3>3, <5>1 DEF ServingFirst, DoneOnItsWay
      <4> QED
        BY <2>1, <2>3, <2>4, <3>4, <4>1, <1>1 DEF FirstInv
    <3>5. CASE ~Serving'
      <4>1. adc_limit = 0
        BY <2>7, <3>5 DEF InjWaitForAdc, Serving
      <4>2. ~answered => Quiet
        <5>1. limit # adc_limit - 1
          BY <4>1, DepthAssumption, SMT DEF IInv, AdcInv, AdcTypeOK, Address
        <5> QED
          BY <3>2, <4>1, <5>1 DEF ServingFirst, Quiet
      <4> QED
        BY <1>1, <2>1, <2>3, <2>4, <3>5, <4>2 DEF FirstInv, Quiet, DoneOnItsWay
    <3> QED
      BY <3>4, <3>5
  <2>8. CASE InjSend(ready)
    <3>1. Sending /\ Serving /\ adc_limit' = adc_limit /\ issued' = issued
      BY <2>1, <2>8 DEF InjSend, Serving, Sending, TakeByte, InjTakesByte
    <3>2. ~answered => ServingFirst
      BY <3>1 DEF FirstInv
    <3>3. Captured' <=> Captured
      BY <1>1, <3>1 DEF Captured
    <3>4. ~answered' => Serving'
      BY <2>1, <2>8, <3>1 DEF InjSend, HandsByte, Sending, Serving
    <3>5. ~answered => ServingFirst'
      BY <1>1, <2>1, <3>1, <3>2, <3>3 DEF ServingFirst, DoneOnItsWay
    <3> QED
      BY <1>1, <2>1, <2>3, <2>4, <3>4, <3>5 DEF FirstInv
  <2> QED
    BY <2>2, <2>5, <2>6, <2>7, <2>8
<1> QED
  BY <1>2, <1>3 DEF UsbEdge

\* The button, and the host.
LEMMA ButtonFirst ==
  ASSUME FirstInv, PressButton \/ ReleaseButton \/ (\E w \in WordCounts : HostCommand(w))
  PROVE  FirstInv'
<1>1. UNCHANGED << adcState, trig_1, trig, limit_in_1, limit_in, limit, done, ram, capturing,
                   injState, adc_done_in_1, adc_done_in, adc_limit, adc_trig, issued, answered >>
  BY DEF PressButton, ReleaseButton, HostCommand, adcVars, injVars, ramVars, historyVars
<1>2. (Serving' <=> Serving) /\ (ServingFirst <=> ServingFirst') /\ (Quiet <=> Quiet')
  BY <1>1 DEF Serving, ServingFirst, Quiet, DoneOnItsWay, Captured, Sending
<1>3. CASE PressButton
  <2>1. latched' = {} /\ button'
    BY <1>3, Zenon DEF PressButton
  <2> QED
    BY <1>1, <1>2, <2>1 DEF FirstInv, ResetInv
<1>4. CASE ReleaseButton
  <2>1. button /\ ~button' /\ latched = Domains
    BY <1>4, Zenon DEF ReleaseButton
  <2>2. ResetInv /\ "usb" \in latched /\ "fast" \in latched
    BY <2>1 DEF FirstInv, Domains
  <2>3. Quiet
    BY <2>2 DEF ResetInv, Quiet, DoneOnItsWay
  <2> QED
    BY <1>1, <1>2, <2>1, <2>3 DEF FirstInv
<1>5. CASE \E w \in WordCounts : HostCommand(w)
  <2>1. UNCHANGED << button, latched >>
    BY <1>5 DEF HostCommand
  <2> QED
    BY <1>1, <1>2, <2>1 DEF FirstInv, ResetInv
<1> QED
  BY <1>3, <1>4, <1>5

LEMMA StepFirst == IInv /\ FirstInv /\ [Next]_vars => FirstInv'
<1> SUFFICES ASSUME IInv, FirstInv, [Next]_vars
             PROVE  FirstInv'
  OBVIOUS
<1>1. IInv'
  BY StepInv
<1>2. CASE UNCHANGED vars
  <2>1. UNCHANGED << adcVars, injVars, ramVars, wireVars, historyVars >>
    BY <1>2 DEF vars
  <2> QED
    BY <2>1 DEF adcVars, injVars, ramVars, wireVars, historyVars, FirstInv, ResetInv, Serving,
                ServingFirst, Quiet, DoneOnItsWay, Captured, Sending
<1>3. ASSUME NEW dry \in DryValues, FastEdge(dry)
      PROVE  FirstInv'
  BY <1>1, <1>3, FastFirst, DryAssumption
<1> QED
  BY <1>2, <1>3, UsbFirst, ButtonFirst DEF Next

(***************************************************************************)
(* The first answer after power-up or a reset waits for its capture: before*)
(* any of its bytes is sent every one of its words has been written by this*)
(* command (inject_data.py:87-93), whatever the ratio of the clocks, the   *)
(* converter and the commands without words that came before.              *)
(***************************************************************************)
THEOREM FirstAnswerCorrect == Spec => []FirstAnswerWaits
<1>1. FirstInv => FirstAnswerWaits
  BY DEF FirstInv, ServingFirst, Serving, Sending, Captured, FirstAnswerWaits
<1> QED
  BY Invariance, InitFirst, StepFirst, <1>1, PTL DEF Spec

-----------------------------------------------------------------------------
(***************************************************************************)
(* The synthesised design: ADC_dummy, and a fast clock that is 21/6 of the *)
(* usb clock (arrow_deca.py:27-45).  What follows holds for it only.  Time *)
(* is told by the state: while a capture runs, CaptureAge is the number of *)
(* fast edges since its command was complete, and the invariant compares it*)
(* with the least there can have been, three for each usb edge since and   *)
(* those since the last one.                                               *)
(***************************************************************************)
Synthesised == DryValues = {TRUE} /\ MinFast >= 3 /\ MaxFast <= 4

Capturing == adcState \in {"TRIGGER", "RECEIVE"}

Starting == injState \in {"RESET", "WAIT_BEFORE_START"}

\* A second capture starts three edges after the one word of the first.
CaptureAge ==
  (IF adcState = "TRIGGER" THEN 3 ELSE 4) + 2 * addr + (IF runs = 2 THEN 3 ELSE 0)

\* The wait counters.
WaitPart ==
  /\ adcState = "WAIT_BEFORE_START" =>
       adcWait <= WaitCycles /\ (Simulation => adcWait \in {0, WaitCycles})
  /\ injState = "WAIT_BEFORE_START" =>
       injWait <= WaitCycles /\ (Simulation => injWait \in {0, WaitCycles})

\* The ADC's start-up is not behind that of InjectData.
StartPart ==
  Starting =>
    /\ ~trig_1 /\ ~trig
    /\ adcState \in {"RESET", "WAIT_BEFORE_START", "IDLE"}
    /\ injState = "WAIT_BEFORE_START" =>
         \/ adcState = "IDLE"
         \/ adcState = "RESET" /\ injWait = 0 /\ since = 0
         \/ adcState = "WAIT_BEFORE_START" /\ adcWait + 1 >= injWait + since

\* The trigger on its way through the synchroniser, the limit beside it.
TriggerPart ==
  /\ adc_trig => (trig_1 <=> since >= 1) /\ (trig <=> since >= 2)
  /\ ~adc_trig => (trig_1 => since = 0) /\ (trig => since <= 1)
  /\ trig_1 => limit_in_1 = adc_limit
  /\ trig => limit_in = adc_limit
  /\ trig_1 \/ trig => /\ Serving \/ (injState = "IDLE" /\ adc_limit = 0)
                      /\ counter = 0

RestPart == injState \in {"IDLE", "RECEIVE_DATA_FROM_USB"} => adcState = "IDLE"

\* Up to the usb edge that lowers the trigger the capture is at the edge that
\* since counts.
TriggerUp ==
  /\ since < 3 => adcState = "IDLE" /\ runs = 0
  /\ since >= 3 => Capturing /\ runs = 1 /\ CaptureAge = since

\* After it, the capture is ahead of the answer, or complete.
TriggerDown ==
  /\ runs \in {1, 2}
  /\ Capturing => CaptureAge >= 3 * (1 + counter) + since
  /\ ~Capturing => /\ adcState = "IDLE" /\ done
                   /\ limit = adc_limit - 1 /\ capturing = issued
  /\ trig_1 => Capturing /\ runs = 1 /\ CaptureAge <= 4
  /\ ~Capturing /\ trig => adc_limit = 1 /\ runs = 1
  /\ runs = 2 => /\ adc_limit = 1 /\ ~trig_1 /\ ~trig
                 /\ ram[0] = [idx |-> 0, cmd |-> issued]

ServePart ==
  Serving =>
    /\ adc_limit = 0 => adcState = "IDLE"
    /\ adc_limit # 0 => IF adc_trig THEN TriggerUp ELSE TriggerDown
    /\ Capturing => capturing = issued /\ limit = adc_limit - 1

\* What stands while the button is held, too.
FrozenPart ==
  /\ Starting => adc_limit = 0
  /\ TriggerCaptured
  /\ LowByteFresh
  /\ HighByteLag

RatioInv ==
  /\ WaitPart
  /\ FrozenPart
  /\ ~button => StartPart /\ TriggerPart /\ RestPart /\ ServePart

LEMMA WaitStep ==
  ASSUME NEW w \in Nat, w <= WaitCycles
  PROVE  /\ w # WaitCycles => NextWait(w) \in w + 1 .. WaitCycles
         /\ Simulation /\ w # WaitCycles => NextWait(w) = WaitCycles
         /\ ~Simulation /\ w # WaitCycles => NextWait(w) = w + 1
<1>1. w # WaitCycles => (w + 1) % WaitMod = w + 1
  <2>1. w # WaitCycles => w + 1 \in 0 .. WaitMod - 1
    BY WaitAssumption, SMT
  <2> QED
    BY <2>1, WaitAssumption, SMT
<1>2. CASE w # WaitCycles /\ Simulation
  BY <1>2, WaitAssumption, SMT DEF NextWait
<1>3. CASE w # WaitCycles /\ ~Simulation
  BY <1>1, <1>3, WaitAssumption, SMT DEF NextWait
<1> QED
  BY <1>2, <1>3

LEMMA InitRatio == Init => RatioInv
<1> SUFFICES ASSUME Init PROVE RatioInv
  OBVIOUS
<1>1. /\ ~adc_trig /\ ~trig_1 /\ ~trig /\ injState = "RESET" /\ adcState = "RESET"
      /\ adc_limit = 0 /\ runs = 0
  BY Zenon DEF Init, AdcInit, InjInit
<1> QED
  BY <1>1
     DEF RatioInv, WaitPart, FrozenPart, StartPart, TriggerPart, RestPart, ServePart, Starting,
         Serving, TriggerCaptured, LowByteFresh, HighByteLag, LowByteNext, HighByteNext, Sending

\* The button, and the host.
LEMMA ButtonRatio ==
  ASSUME FirstInv, RatioInv,
         PressButton \/ ReleaseButton \/ (\E w \in WordCounts : HostCommand(w))
  PROVE  RatioInv'
<1>1. UNCHANGED << adcVars, injVars, ramVars, since, historyVars >>
  BY DEF PressButton, ReleaseButton, HostCommand
<1>2. UNCHANGED << adcState, adcWait, trig_1, trig, limit_in_1, limit_in, limit, addr, done,
                   injState, injWait, adc_limit, adc_trig, adc_mem_addr, counter, ram, dob,
                   since, issued, capturing, runs >>
  BY <1>1 DEF adcVars, injVars, ramVars, historyVars
<1>3. WaitPart' /\ FrozenPart'
  BY <1>2
     DEF RatioInv, WaitPart, FrozenPart, Starting, TriggerCaptured, LowByteFresh, HighByteLag,
         LowByteNext, HighByteNext, Sending
<1>4. CASE PressButton
  BY <1>3, <1>4, Zenon DEF PressButton, RatioInv
<1>5. CASE ReleaseButton
  <2>1. button /\ latched = Domains
    BY <1>5, Zenon DEF ReleaseButton
  <2>2. injState = "RESET" /\ adcState = "RESET" /\ ~trig_1 /\ ~trig /\ ~adc_trig
    BY <2>1 DEF FirstInv, ResetInv, Domains
  <2> QED
    BY <1>2, <1>3, <2>2
       DEF RatioInv, StartPart, TriggerPart, RestPart, ServePart, Starting, Serving
<1>6. CASE \E w \in WordCounts : HostCommand(w)
  <2>1. button' = button
    BY <1>6 DEF HostCommand
  <2> QED
    BY <1>2, <1>3, <2>1
       DEF RatioInv, StartPart, TriggerPart, RestPart, ServePart, Starting, Serving,
           TriggerUp, TriggerDown, CaptureAge, Capturing
<1> QED
  BY <1>4, <1>5, <1>6

\* What the types and the ADC's own invariant say of the registers used here.
LEMMA RatioTypes ==
  ASSUME IInv
  PROVE  /\ since \in Nat /\ addr \in Nat /\ limit \in Nat /\ adcWait \in Nat /\ injWait \in Nat
         /\ counter \in Nat /\ runs \in Nat /\ adc_limit \in Nat /\ limit_in \in Nat
         /\ adcState \in AdcStates /\ injState \in InjStates
         /\ Capturing => addr <= limit
         /\ Capturing /\ addr # limit => (addr + 1) % Depth = addr + 1
         /\ adcState \in {"WAIT_BEFORE_START", "IDLE"} => addr = 0
         /\ CaptureAge \in Nat
<1>1. /\ since \in Nat /\ addr \in Nat /\ limit \in Nat /\ adcWait \in Nat /\ injWait \in Nat
      /\ counter \in Nat /\ runs \in Nat /\ adc_limit \in Nat /\ limit_in \in Nat
  BY DepthAssumption, WaitAssumption, SMT
     DEF IInv, WiresOK, AdcInv, AdcTypeOK, AnswerInv, InjTypeOK, Address
<1>2. adcState \in AdcStates /\ injState \in InjStates
  BY DEF IInv, AdcInv, AdcTypeOK, AnswerInv, InjTypeOK
<1>3. Capturing => addr <= limit
  BY DEF IInv, AdcInv, SampleGoesToItsAddress, Capturing
<1>4. Capturing /\ addr # limit => (addr + 1) % Depth = addr + 1
  <2>1. addr \in Address /\ limit \in Address
    BY DEF IInv, AdcInv, AdcTypeOK
  <2>2. Capturing /\ addr # limit => addr < limit
    BY <1>1, <1>3, SMT
  <2> QED
    BY <2>1, <2>2, AddressStep
<1>5. CaptureAge \in Nat
  BY <1>1, SMT DEF CaptureAge
<1> QED
  BY <1>1, <1>2, <1>3, <1>4, <1>5 DEF IInv, AdcInv, SampleGoesToItsAddress

\* A trigger that the ADC takes up is that of the command being served.
LEMMA OwnTrigger ==
  ASSUME IInv, FirstInv, RatioInv, ~button, adcState = "IDLE", AdcTriggered
  PROVE  /\ Serving /\ adc_limit # 0 /\ limit_in = adc_limit /\ counter = 0
         /\ adc_trig => since >= 2 /\ runs = 0
         /\ ~adc_trig => since <= 1 /\ runs = 1 /\ adc_limit = 1 /\ ~trig_1
<1>1. trig /\ limit_in # 0 /\ limit_in = adc_limit /\ Serving /\ counter = 0
  BY DEF RatioInv, TriggerPart, AdcTriggered
<1>2. adc_trig => since >= 2 /\ runs = 0
  <2>1. adc_trig => since >= 2 /\ TriggerUp /\ ~Capturing /\ since \in Nat
    BY <1>1, RatioTypes DEF RatioInv, TriggerPart, ServePart, Capturing
  <2> QED
    BY <2>1, SMT DEF TriggerUp
<1>3. ~adc_trig => since <= 1 /\ runs = 1 /\ adc_limit = 1 /\ ~trig_1
  BY <1>1 DEF RatioInv, TriggerPart, ServePart, TriggerDown, Capturing
<1> QED
  BY <1>1, <1>2, <1>3

\* An edge of the fast clock brings a capture one edge on.
LEMMA AgeStep ==
  ASSUME IInv, Capturing, runs' = runs, AdcTrigger \/ AdcReceive(TRUE), Capturing'
  PROVE  CaptureAge' = CaptureAge + 1
<1>1. addr \in Nat /\ runs \in Nat
  BY RatioTypes
<1>2. CASE AdcTrigger
  BY <1>1, <1>2, SMT DEF AdcTrigger, CaptureAge
<1>3. CASE AdcReceive(TRUE)
  <2>1. addr # limit /\ adcState' = "TRIGGER" /\ addr' = (addr + 1) % Depth
    BY <1>3, SMT DEF AdcReceive, Capturing
  <2>2. addr' = addr + 1
    BY <2>1, RatioTypes
  <2> QED
    BY <1>1, <1>3, <2>1, <2>2, SMT DEF AdcReceive, CaptureAge
<1> QED
  BY <1>2, <1>3

LEMMA FastRatio ==
  ASSUME Synthesised, IInv, IInv', FirstInv, RatioInv, FastEdge(TRUE)
  PROVE  RatioInv'
<1>1. /\ UNCHANGED << injState, injWait, adc_limit, adc_trig, adc_mem_addr, counter >>
      /\ UNCHANGED << dob, button, issued >>
      /\ since' = since + 1 /\ since < 4
  BY ClockAssumption, RatioTypes, SMT DEF FastEdge, injVars, Synthesised
<1>2. LowByteFresh' /\ HighByteLag'
  BY <1>1
     DEF RatioInv, FrozenPart, LowByteFresh, HighByteLag, LowByteNext, HighByteNext, Sending
<1>3. CASE FastReset
  <2>1. adcState' = "RESET" /\ button' /\ runs' = runs
    BY <1>1, <1>3, Zenon DEF FastReset, AdcResetEdge
  <2>2. WaitPart' /\ FrozenPart'
    BY <1>1, <1>2, <2>1 DEF RatioInv, WaitPart, FrozenPart, Starting, TriggerCaptured
  <2> QED
    BY <2>1, <2>2 DEF RatioInv
<1>4. CASE FastRun(TRUE)
  <2>1. /\ ~button
        /\ trig_1' = adc_trig /\ trig' = trig_1
        /\ limit_in_1' = adc_limit /\ limit_in' = limit_in_1
    BY <1>4 DEF FastRun, AdcEdge, AdcSynchronise
  <2>2. AdcReset \/ AdcWaitBeforeStart \/ AdcIdle \/ AdcTrigger \/ AdcReceive(TRUE)
    BY <1>4 DEF FastRun, AdcEdge
  <2>3. TriggerPart'
    <3>1. TriggerPart /\ (adc_trig => Serving /\ counter = 0)
      BY <2>1 DEF RatioInv, FirstInv, Serving, IInv, AnswerInv, AnswerInBounds, Sending
    <3> QED
      BY <1>1, <2>1, <3>1, RatioTypes, SMT DEF TriggerPart, Serving
  <2>4. CASE adcState = "IDLE" /\ AdcTriggered
    <3>1. AdcIdle
      BY <2>2, <2>4 DEF AdcReset, AdcWaitBeforeStart, AdcTrigger, AdcReceive
    <3>2. /\ adcState' = "TRIGGER" /\ limit' = adc_limit - 1 /\ addr' = 0 /\ addr = 0
          /\ adcWait' = adcWait
      BY <2>1, <2>4, <3>1, OwnTrigger, RatioTypes DEF AdcIdle
    <3>3. capturing' = issued /\ runs' = runs + 1 /\ ram' = ram
      <4>1. ~DataReady(TRUE)
        BY <2>4 DEF DataReady
      <4> QED
        BY <1>4, <2>4, <4>1 DEF FastRun, FastEdge, RamWriteEdge
    <3>4. /\ Serving /\ adc_limit # 0 /\ counter = 0
          /\ adc_trig => since >= 2 /\ runs = 0
          /\ ~adc_trig => since <= 1 /\ runs = 1 /\ adc_limit = 1 /\ ~trig_1
      BY <2>1, <2>4, OwnTrigger
    <3>5. WaitPart' /\ StartPart' /\ RestPart'
      BY <1>1, <3>2, <3>4 DEF RatioInv, WaitPart, StartPart, RestPart, Starting, Serving
    <3>6. FrozenPart'
      BY <1>1, <1>2, <3>3, <3>4
         DEF RatioInv, FrozenPart, TriggerCaptured, Starting, Serving
    <3>7. CASE adc_trig
      <4>1. since = 2 /\ since' = 3 /\ runs' = 1
        <5>1. since < 3
          <6>1. TriggerUp /\ ~Capturing /\ since \in Nat
            BY <2>1, <2>4, <3>4, <3>7, RatioTypes DEF RatioInv, ServePart, Capturing
          <6> QED
            BY <6>1, SMT DEF TriggerUp
        <5> QED
          BY <1>1, <3>3, <3>4, <3>7, <5>1, RatioTypes, SMT
      <4>2. CaptureAge' = 3
        BY <3>2, <4>1, SMT DEF CaptureAge
      <4>3. TriggerUp'
        BY <3>2, <4>1, <4>2, SMT DEF TriggerUp, Capturing
      <4>4. ServePart'
        BY <1>1, <3>2, <3>3, <3>4, <3>7, <4>3 DEF ServePart
      <4> QED
        BY <2>3, <3>5, <3>6, <4>4 DEF RatioInv
    <3>8. CASE ~adc_trig
      <4>1. runs' = 2 /\ since' <= 2 /\ ~trig_1' /\ ~trig'
        BY <1>1, <2>1, <3>3, <3>4, <3>8, RatioTypes, SMT
      <4>2. CaptureAge' = 6 /\ 3 * (1 + counter') + since' <= 6
        BY <1>1, <3>2, <3>4, <4>1, RatioTypes, SMT DEF CaptureAge
      <4>3. ram'[0] = [idx |-> 0, cmd |-> issued']
        <5>1. TriggerDown /\ ~Capturing
          BY <2>1, <2>4, <3>4, <3>8 DEF RatioInv, ServePart, Capturing
        <5>2. done /\ limit = 0 /\ capturing = issued
          BY <3>4, <3>8, <5>1 DEF TriggerDown
        <5>3. \A a \in 0 .. 0 : ram[a] = [idx |-> a, cmd |-> issued]
          BY <5>2 DEF IInv, CaptureInv, DoneMeansCaptured
        <5> QED
          BY <1>1, <3>3, <5>3
      <4>4. TriggerDown'
        BY <1>1, <3>2, <3>4, <3>8, <4>1, <4>2, <4>3, SMT DEF TriggerDown, Capturing
      <4>5. ServePart'
        BY <1>1, <3>2, <3>3, <3>4, <3>8, <4>4 DEF ServePart
      <4> QED
        BY <2>3, <3>5, <3>6, <4>5 DEF RatioInv
    <3> QED
      BY <3>7, <3>8
  <2>5. CASE ~(adcState = "IDLE" /\ AdcTriggered)
    <3>1. UNCHANGED << capturing, runs >>
      BY <1>4, <2>5 DEF FastRun
    <3>2. WaitPart'
      <4>1. adcState' = "WAIT_BEFORE_START" =>
              adcWait' <= WaitCycles /\ (Simulation => adcWait' \in {0, WaitCycles})
        <5> SUFFICES ASSUME adcState' = "WAIT_BEFORE_START"
                     PROVE  adcWait' <= WaitCycles /\ (Simulation => adcWait' \in {0, WaitCycles})
          OBVIOUS
        <5>1. CASE AdcReset
          BY <5>1, WaitAssumption, SMT DEF AdcReset
        <5>2. CASE AdcWaitBeforeStart
          <6>1. adcWait # WaitCycles /\ adcWait <= WaitCycles /\ adcWait' = NextWait(adcWait)
            BY <5>2 DEF AdcWaitBeforeStart, RatioInv, WaitPart
          <6>2. adcWait' \in adcWait + 1 .. WaitCycles /\ (Simulation => adcWait' = WaitCycles)
            BY <6>1, WaitStep, RatioTypes
          <6> QED
            BY <6>2, RatioTypes, WaitAssumption, SMT
        <5> QED
          BY <2>2, <2>5, <5>1, <5>2 DEF AdcIdle, AdcTrigger, AdcReceive
      <4> QED
        BY <1>1, <4>1 DEF RatioInv, WaitPart
    <3>3. StartPart'
      <4> SUFFICES ASSUME Starting PROVE StartPart'
        BY <1>1 DEF StartPart, Starting
      <4>1. /\ ~trig_1' /\ ~trig' /\ StartPart
        BY <2>1 DEF FirstInv, Serving, Starting, RatioInv, StartPart
      <4>2. CASE AdcReset
        BY <1>1, <4>1, <4>2, RatioTypes, SMT DEF AdcReset, StartPart, Starting
      <4>3. CASE AdcWaitBeforeStart
        <5>1. adcWait # WaitCycles => adcWait' \in adcWait + 1 .. WaitCycles
          BY <4>3, WaitStep, RatioTypes DEF AdcWaitBeforeStart, RatioInv, WaitPart
        <5> QED
          BY <1>1, <4>1, <4>3, <5>1, RatioTypes, WaitAssumption, SMT
             DEF AdcWaitBeforeStart, StartPart, Starting
      <4>4. CASE AdcIdle
        BY <1>1, <2>5, <4>1, <4>4 DEF AdcIdle, StartPart, Starting
      <4> QED
        BY <2>2, <4>1, <4>2, <4>3, <4>4 DEF AdcTrigger, AdcReceive, StartPart, Starting
    <3>4. RestPart'
      BY <1>1, <2>1, <2>2, <2>5
         DEF RatioInv, RestPart, AdcReset, AdcWaitBeforeStart, AdcIdle, AdcTrigger, AdcReceive
    <3>5. FrozenPart'
      BY <1>1, <1>2, <3>1 DEF RatioInv, FrozenPart, Starting, TriggerCaptured
    <3>6. ServePart'
      <4> SUFFICES ASSUME Serving PROVE ServePart'
        BY <1>1 DEF ServePart, Serving
      <4>1. TriggerPart /\ ServePart
        BY <2>1 DEF RatioInv
      <4>2. Capturing =>
              /\ AdcTrigger \/ AdcReceive(TRUE)
              /\ limit' = limit
              /\ Capturing' \/ (adcState' = "IDLE" /\ done' /\ addr = limit /\ adcState = "RECEIVE")
        <5>1. Capturing => AdcTrigger \/ AdcReceive(TRUE)
          BY <2>2 DEF AdcReset, AdcWaitBeforeStart, AdcIdle, Capturing
        <5>2. AdcTrigger => limit' = limit /\ Capturing'
          BY DEF AdcTrigger, Capturing
        <5>3. AdcReceive(TRUE) =>
                /\ limit' = limit
                /\ Capturing' \/ (adcState' = "IDLE" /\ done' /\ addr = limit /\ adcState = "RECEIVE")
          BY Zenon DEF AdcReceive, Capturing
        <5> QED
          BY <5>1, <5>2, <5>3
      <4>3. adcState = "IDLE" => UNCHANGED << adcState, done, limit, addr >>
        BY <2>2, <2>5, RatioTypes
           DEF AdcReset, AdcWaitBeforeStart, AdcIdle, AdcTrigger, AdcReceive
      <4>4. Capturing' => Capturing /\ limit' = limit
        BY <2>2, <2>5, <4>2, <4>3
           DEF AdcReset, AdcWaitBeforeStart, AdcIdle, AdcTrigger, AdcReceive, Capturing
      <4>5. Capturing /\ Capturing' => CaptureAge' = CaptureAge + 1
        BY <3>1, <4>2, AgeStep
      <4>6. Capturing' => capturing' = issued' /\ limit' = adc_limit' - 1
        BY <1>1, <3>1, <4>1, <4>4 DEF ServePart
      <4>7. CASE adc_limit = 0
        <5>1. adcState = "IDLE"
          BY <4>1, <4>7 DEF ServePart
        <5> QED
          BY <1>1, <4>3, <4>6, <4>7, <5>1 DEF ServePart
      <4>8. CASE adc_limit # 0 /\ adc_trig
        <5>1. TriggerUp /\ TriggerPart
          BY <4>1, <4>8 DEF ServePart
        <5>2. TriggerUp'
          <6>1. CASE since < 3
            <7>1. since # 2
              BY <2>5, <4>1, <4>8, <5>1, <6>1 DEF TriggerUp, TriggerPart, AdcTriggered
            <7>2. since' < 3 /\ ~(since' >= 3) /\ adcState = "IDLE" /\ runs = 0
              BY <1>1, <5>1, <6>1, <7>1, RatioTypes, SMT DEF TriggerUp
            <7> QED
              BY <3>1, <4>3, <7>2 DEF TriggerUp
          <6>2. CASE since >= 3
            <7>1. since = 3 /\ since' = 4 /\ Capturing /\ runs = 1 /\ CaptureAge = 3
              BY <1>1, <5>1, <6>2, RatioTypes, SMT DEF TriggerUp
            <7>2. adcState = "TRIGGER"
              BY <7>1, RatioTypes, SMT DEF CaptureAge, Capturing
            <7>3. Capturing'
              BY <4>2, <7>1, <7>2
            <7> QED
              BY <3>1, <4>5, <7>1, <7>3, SMT DEF TriggerUp
          <6> QED
            BY <6>1, <6>2, RatioTypes, SMT
        <5> QED
          BY <1>1, <4>6, <4>8, <5>2 DEF ServePart
      <4>9. CASE adc_limit # 0 /\ ~adc_trig
        <5>1. TriggerDown
          BY <4>1, <4>9 DEF ServePart
        <5>2. ~trig_1'
          BY <2>1, <4>9
        <5>3. runs = 2 => ram'[0] = [idx |-> 0, cmd |-> issued]
          <6> SUFFICES ASSUME runs = 2 PROVE ram'[0] = [idx |-> 0, cmd |-> issued]
            OBVIOUS
          <6>1. ram[0] = [idx |-> 0, cmd |-> issued] /\ ram \in [Address -> Word]
            BY <5>1 DEF TriggerDown, IInv, MemoryInv, RamTypeOK
          <6>2. CASE DataReady(TRUE)
            <7>1. capturing = issued
              BY <4>1, <6>2 DEF ServePart, DataReady, Capturing
            <7>2. ram' = [ram EXCEPT ![addr] = [idx |-> addr, cmd |-> issued]]
              BY <6>2, <7>1, WriteEdge DEF IInv, MemoryInv, FastEdge
            <7> QED
              BY <6>1, <7>2
          <6>3. CASE ~DataReady(TRUE)
            BY <6>1, <6>3, WriteEdge DEF IInv, MemoryInv, FastEdge
          <6> QED
            BY <6>2, <6>3
        <5>4. ASSUME Capturing, Capturing' PROVE TriggerDown'
          <6>1. CaptureAge' >= 3 * (1 + counter') + since'
            BY <1>1, <4>5, <5>1, <5>4, RatioTypes, SMT DEF TriggerDown
          <6> QED
            BY <1>1, <2>1, <3>1, <5>1, <5>2, <5>3, <5>4, <6>1 DEF TriggerDown
        <5>5. ASSUME Capturing, ~Capturing' PROVE TriggerDown'
          <6>1. adcState' = "IDLE" /\ done' /\ addr = limit /\ adcState = "RECEIVE"
            BY <4>2, <5>5
          <6>2. capturing' = issued' /\ limit' = adc_limit' - 1
            BY <1>1, <3>1, <4>1, <4>2, <5>5 DEF ServePart
          <6>3. trig' => adc_limit = 1 /\ runs = 1
            <7> SUFFICES ASSUME trig' PROVE adc_limit = 1 /\ runs = 1
              OBVIOUS
            <7>1. runs = 1 /\ CaptureAge <= 4
              BY <2>1, <5>1 DEF TriggerDown
            <7>2. addr = 0
              BY <6>1, <7>1, RatioTypes, SMT DEF CaptureAge
            <7> QED
              BY <1>1, <4>2, <5>5, <6>1, <6>2, <7>1, <7>2, RatioTypes, SMT
          <6> QED
            BY <1>1, <2>1, <3>1, <5>1, <5>2, <5>3, <5>5, <6>1, <6>2, <6>3 DEF TriggerDown
        <5>6. ASSUME ~Capturing PROVE TriggerDown'
          <6>1. adcState = "IDLE" /\ done /\ limit = adc_limit - 1 /\ capturing = issued /\ ~trig_1
            BY <5>1, <5>6 DEF TriggerDown
          <6>2. ~Capturing' /\ adcState' = "IDLE" /\ done' /\ limit' = limit /\ ~trig'
            BY <2>1, <4>3, <6>1 DEF Capturing
          <6> QED
            BY <1>1, <3>1, <5>1, <5>2, <5>3, <6>1, <6>2 DEF TriggerDown
        <5>7. TriggerDown'
          BY <5>4, <5>5, <5>6
        <5> QED
          BY <1>1, <4>6, <4>9, <5>7 DEF ServePart
      <4> QED
        BY <4>7, <4>8, <4>9
    <3> QED
      BY <2>3, <3>2, <3>3, <3>4, <3>5, <3>6 DEF RatioInv
  <2> QED
    BY <2>4, <2>5
<1> QED
  BY <1>3, <1>4 DEF FastEdge

\* The word an answer is at has been written by the time it is looked up.
LEMMA WordReady ==
  ASSUME IInv, FirstInv, RatioInv, ~button, Sending, since >= 3
  PROVE  ram[adc_mem_addr] = [idx |-> adc_mem_addr, cmd |-> issued]
<1>1. /\ adc_limit # 0 /\ counter < 2 * adc_limit /\ adc_mem_addr = counter \div 2
      /\ adc_mem_addr \in Nat /\ adc_mem_addr < adc_limit
  BY Halves, RatioTypes DEF IInv, AnswerInv, AnswerInBounds
<1>2. ~adc_trig /\ Serving /\ TriggerDown /\ ServePart
  BY <1>1 DEF FirstInv, Sending, Serving, RatioInv, ServePart
<1>3. CASE ~Capturing
  <2>1. done /\ limit = adc_limit - 1 /\ capturing = issued
    BY <1>2, <1>3 DEF TriggerDown
  <2>2. adc_mem_addr \in 0 .. limit
    BY <1>1, <2>1, RatioTypes, SMT
  <2> QED
    BY <2>1, <2>2 DEF IInv, CaptureInv, DoneMeansCaptured
<1>4. CASE Capturing /\ runs = 1
  <2>1. CaptureAge >= 3 * (1 + counter) + since
    BY <1>2, <1>4 DEF TriggerDown
  <2>2. 2 * addr >= 2 + 3 * counter
    BY <1>4, <2>1, RatioTypes, SMT DEF CaptureAge
  <2>3. 2 * (counter \div 2) <= counter
    BY RatioTypes, SMT
  <2>4. adc_mem_addr \in 0 .. addr - 1
    BY <1>1, <2>2, <2>3, RatioTypes, SMT
  <2>5. capturing = issued
    BY <1>2, <1>4 DEF ServePart
  <2> QED
    BY <1>4, <2>4, <2>5 DEF IInv, CaptureInv, CapturedSoFar, Capturing
<1>5. CASE runs = 2
  <2>1. adc_limit = 1 /\ ram[0] = [idx |-> 0, cmd |-> issued]
    BY <1>2, <1>5 DEF TriggerDown
  <2>2. adc_mem_addr = 0
    BY <1>1, <2>1, SMT
  <2> QED
    BY <2>1, <2>2
<1> QED
  BY <1>2, <1>3, <1>4, <1>5 DEF TriggerDown

\* Nothing is captured any more when the last byte is sent.
LEMMA LastIsLate ==
  ASSUME IInv, FirstInv, RatioInv, ~button, Sending, since >= 3, InjLastByte
  PROVE  ~Capturing
<1> SUFFICES ASSUME Capturing PROVE FALSE
  OBVIOUS
<1>1. adc_limit # 0 /\ counter = 2 * adc_limit - 1
  BY DEF IInv, AnswerInv, AnswerInBounds, InjLastByte
<1>2. ~adc_trig /\ Serving /\ TriggerDown /\ limit = adc_limit - 1
  BY <1>1 DEF FirstInv, Sending, Serving, RatioInv, ServePart
<1>3. /\ CaptureAge >= 3 * (1 + counter) + since
      /\ runs = 2 => adc_limit = 1
  BY <1>2 DEF TriggerDown
<1>4. addr <= adc_limit - 1
  BY <1>2, RatioTypes
<1>5. CaptureAge <= 4 + 2 * addr + (IF runs = 2 THEN 3 ELSE 0)
  BY RatioTypes, SMT DEF CaptureAge
<1> QED
  BY <1>1, <1>3, <1>4, <1>5, RatioTypes, SMT

LEMMA UsbRatio ==
  ASSUME Synthesised, IInv, FirstInv, RatioInv, NEW ready \in BOOLEAN, UsbEdge(ready)
  PROVE  RatioInv'
<1>1. /\ UNCHANGED << adcState, adcWait, trig_1, trig, limit_in_1, limit_in, limit, addr, done >>
      /\ UNCHANGED << ram, button, capturing >>
      /\ since' = 0 /\ dob' = ram[adc_mem_addr]
  BY DEF UsbEdge, adcVars, RamReadEdge
<1>2. since >= 3 /\ since <= 4
  <2>1. since >= MinFast /\ since <= MaxFast
    BY ClockAssumption, SMT DEF UsbEdge, IInv, WiresOK
  <2> QED
    BY <2>1, ClockAssumption, RatioTypes, SMT DEF Synthesised
<1>3. CASE UsbReset
  <2>1. injState' = "RESET" /\ adc_limit' = 0 /\ runs' = runs /\ button'
    BY <1>1, <1>3, Zenon DEF UsbReset, InjResetEdge
  <2> QED
    BY <1>1, <2>1
       DEF RatioInv, WaitPart, FrozenPart, Starting, TriggerCaptured, LowByteFresh, HighByteLag,
           LowByteNext, HighByteNext, Sending
<1>4. CASE UsbRun(ready)
  <2>1. ~button /\ TakeByte /\ ~button'
    BY <1>1, <1>4 DEF UsbRun
  <2>2. \/ InjReset \/ InjWaitBeforeStart \/ InjIdle(Valid)
        \/ InjReceive(Valid, Last, Payload) \/ InjWaitForAdc \/ InjSend(ready)
    BY <1>4 DEF UsbRun, InjEdge
  <2>3. /\ WaitPart /\ FrozenPart /\ StartPart /\ TriggerPart /\ RestPart /\ ServePart
        /\ ~adc_trig => ~trig_1 /\ ~trig
    BY <1>2, <2>1, RatioTypes, SMT DEF RatioInv, TriggerPart
  <2>4. WaitPart' <=> (injState' = "WAIT_BEFORE_START" =>
          injWait' <= WaitCycles /\ (Simulation => injWait' \in {0, WaitCycles}))
    BY <1>1, <2>3 DEF WaitPart
  <2>5. injState # "RECEIVE_DATA_FROM_USB" => UNCHANGED << issued, runs >>
    BY <2>1 DEF TakeByte, InjTakesByte
  <2>6. injState' # "SEND_DATA_TO_USB" => LowByteFresh' /\ HighByteLag'
    BY DEF LowByteFresh, HighByteLag, LowByteNext, HighByteNext, Sending
  <2>7. CASE InjReset \/ InjWaitBeforeStart
    <3>1. /\ ~adc_trig /\ ~adc_trig' /\ Starting /\ adc_limit = 0 /\ adc_limit' = 0
          /\ injState' \in {"WAIT_BEFORE_START", "IDLE"} /\ runs' = runs
      BY <2>3, <2>5, <2>7
         DEF FirstInv, InjReset, InjWaitBeforeStart, Starting, FrozenPart
    <3>2. TriggerPart'
      BY <1>1, <2>3, <3>1 DEF TriggerPart
    <3>3. FrozenPart'
      BY <2>3, <2>6, <3>1 DEF FrozenPart, TriggerCaptured, Starting
    <3>4. ServePart'
      BY <3>1 DEF ServePart, Serving
    <3>5. CASE InjReset
      <4>1. injState' = "WAIT_BEFORE_START" /\ injWait' = 0
        BY <3>5 DEF InjReset
      <4>2. WaitPart'
        BY <2>4, <4>1, WaitAssumption, SMT
      <4>3. StartPart'
        BY <1>1, <2>3, <3>1, <4>1, RatioTypes, SMT DEF StartPart
      <4> QED
        BY <3>2, <3>3, <3>4, <4>1, <4>2, <4>3 DEF RatioInv, RestPart
    <3>6. CASE InjWaitBeforeStart /\ injWait = WaitCycles
      <4>1. injState' = "IDLE" /\ injState = "WAIT_BEFORE_START"
        BY <3>6 DEF InjWaitBeforeStart
      <4>2. adcState = "IDLE"
        BY <1>2, <2>3, <3>1, <3>6, <4>1, WaitAssumption, RatioTypes, SMT DEF StartPart, WaitPart
      <4> QED
        BY <1>1, <2>4, <3>2, <3>3, <3>4, <4>1, <4>2 DEF RatioInv, RestPart, StartPart, Starting
    <3>7. CASE InjWaitBeforeStart /\ injWait # WaitCycles
      <4>1. /\ injState' = "WAIT_BEFORE_START" /\ injState = "WAIT_BEFORE_START"
            /\ injWait' = NextWait(injWait)
        BY <3>7 DEF InjWaitBeforeStart
      <4>2. injWait <= WaitCycles /\ (Simulation => injWait = 0)
        BY <2>3, <3>7, <4>1 DEF WaitPart
      <4>3. /\ injWait' \in injWait + 1 .. WaitCycles
            /\ IF Simulation THEN injWait' = WaitCycles ELSE injWait' = injWait + 1
        BY <3>7, <4>1, <4>2, WaitStep, RatioTypes
      <4>4. WaitPart'
        BY <2>4, <4>3, WaitAssumption, RatioTypes, SMT
      <4>5. \/ adcState = "IDLE"
            \/ adcState = "WAIT_BEFORE_START" /\ adcWait >= injWait + 2
        BY <1>2, <2>3, <3>1, <4>1, RatioTypes, SMT DEF StartPart
      <4>6. adcState = "WAIT_BEFORE_START" => adcWait >= injWait'
        BY <2>3, <4>3, <4>5, WaitAssumption, RatioTypes, SMT DEF WaitPart
      <4>7. adcState = "WAIT_BEFORE_START" => adcWait + 1 >= injWait' + 0
        BY <4>3, <4>6, RatioTypes, SMT
      <4>8. StartPart'
        BY <1>1, <2>3, <3>1, <4>1, <4>5, <4>7 DEF StartPart
      <4> QED
        BY <3>2, <3>3, <3>4, <4>1, <4>4, <4>8 DEF RatioInv, RestPart
    <3> QED
      BY <2>7, <3>5, <3>6, <3>7
  <2>8. CASE InjIdle(Valid) \/ InjReceive(Valid, Last, Payload)
    <3>1. /\ injState \in {"IDLE", "RECEIVE_DATA_FROM_USB"} /\ adcState = "IDLE"
          /\ ~adc_trig /\ ~trig_1 /\ ~trig
      BY <2>3, <2>8 DEF FirstInv, InjIdle, InjReceive, RestPart
    <3>2. CASE injState = "RECEIVE_DATA_FROM_USB" /\ Valid /\ Last
      <4>1. injState' = "WAIT_FOR_ADC" /\ adc_trig' /\ runs' = 0
        <5>1. InjReceive(Valid, Last, Payload)
          BY <2>8, <3>2 DEF InjIdle
        <5> QED
          BY <2>1, <3>2, <5>1 DEF InjReceive, TakeByte, InjTakesByte
      <4>2. FrozenPart'
        BY <2>6, <4>1 DEF FrozenPart, TriggerCaptured, Starting
      <4>3. ServePart'
        BY <1>1, <3>1, <4>1 DEF ServePart, TriggerUp, Capturing
      <4> QED
        BY <1>1, <2>4, <3>1, <4>1, <4>2, <4>3
           DEF RatioInv, RestPart, StartPart, Starting, TriggerPart
    <3>3. CASE ~(injState = "RECEIVE_DATA_FROM_USB" /\ Valid /\ Last)
      <4>1. /\ injState' \in {"IDLE", "RECEIVE_DATA_FROM_USB"} /\ ~adc_trig' /\ runs' = runs
            /\ injState' = "IDLE" => injState = "IDLE" /\ adc_limit' = adc_limit
        BY <2>1, <2>8, <3>1, <3>3 DEF InjIdle, InjReceive, TakeByte, InjTakesByte
      <4>2. FrozenPart'
        BY <2>3, <2>6, <4>1 DEF FrozenPart, TriggerCaptured, Starting
      <4> QED
        BY <1>1, <2>4, <3>1, <4>1, <4>2
           DEF RatioInv, RestPart, StartPart, Starting, TriggerPart, ServePart, Serving
    <3> QED
      BY <3>2, <3>3
  <2>9. CASE InjWaitForAdc
    <3>1. /\ Serving /\ counter = 0 /\ counter' = 0 /\ adc_limit' = adc_limit /\ ~adc_trig'
          /\ UNCHANGED << issued, runs >>
      BY <2>5, <2>9
         DEF InjWaitForAdc, Serving, IInv, AnswerInv, AnswerInBounds, Sending
    <3>2. Serving' \/ (injState' = "IDLE" /\ adc_limit = 0)
      BY <2>9 DEF InjWaitForAdc, Serving
    <3>3. TriggerPart'
      BY <1>1, <2>3, <3>1, <3>2 DEF TriggerPart
    <3>4. RestPart' /\ StartPart' /\ WaitPart'
      BY <1>1, <2>3, <2>4, <3>1, <3>2
         DEF RestPart, StartPart, Starting, Serving, ServePart
    <3>5. FrozenPart'
      <4>1. LowByteFresh' /\ HighByteLag'
        BY <3>1, SMT DEF LowByteFresh, HighByteLag, LowByteNext, HighByteNext
      <4> QED
        BY <2>3, <3>1, <3>2, <4>1 DEF FrozenPart, TriggerCaptured, Starting, Serving
    <3>6. adc_limit # 0 => TriggerDown'
      <4> SUFFICES ASSUME adc_limit # 0 PROVE TriggerDown'
        OBVIOUS
      <4>1. CaptureAge' = CaptureAge /\ (Capturing' <=> Capturing)
        BY <1>1, <3>1 DEF CaptureAge, Capturing
      <4>2. CASE adc_trig
        <5>1. Capturing /\ runs = 1 /\ CaptureAge = since
          BY <1>2, <2>3, <3>1, <4>2 DEF ServePart, TriggerUp
        <5> QED
          BY <1>1, <1>2, <3>1, <4>1, <5>1, RatioTypes, SMT DEF TriggerDown
      <4>3. CASE ~adc_trig
        <5>1. TriggerDown
          BY <2>3, <3>1, <4>3 DEF ServePart
        <5>2. Capturing => CaptureAge' >= 3 * (1 + counter') + since'
          BY <1>1, <1>2, <3>1, <4>1, <5>1, RatioTypes, SMT DEF TriggerDown
        <5> QED
          BY <1>1, <2>3, <3>1, <4>1, <4>3, <5>1, <5>2 DEF TriggerDown
      <4> QED
        BY <4>2, <4>3
    <3>7. ServePart'
      BY <1>1, <2>3, <3>1, <3>6 DEF ServePart, Capturing
    <3> QED
      BY <3>3, <3>4, <3>5, <3>7 DEF RatioInv
  <2>10. CASE InjSend(ready)
    <3>1. /\ Sending /\ Serving /\ adc_limit' = adc_limit /\ ~adc_trig /\ ~adc_trig'
          /\ UNCHANGED << issued, runs >> /\ ~trig_1 /\ ~trig
      BY <2>3, <2>5, <2>10 DEF InjSend, Serving, Sending, FirstInv
    <3>2. /\ adc_limit # 0 /\ counter < 2 * adc_limit /\ adc_mem_addr = counter \div 2
          /\ adc_limit \in Address /\ adc_mem_addr \in Nat
      BY <3>1, Halves, RatioTypes DEF IInv, AnswerInv, InjTypeOK, AnswerInBounds
    <3>3. TriggerDown
      BY <2>3, <3>1, <3>2 DEF ServePart
    <3>4. dob' = [idx |-> adc_mem_addr, cmd |-> issued]
      BY <1>1, <1>2, <2>1, <3>1, WordReady
    <3>5. TriggerPart'
      BY <1>1, <3>1 DEF TriggerPart
    <3>6. CASE ready /\ InjLastByte
      <4>1. injState' = "IDLE"
        BY <2>10, <3>6 DEF InjSend
      <4>2. adcState = "IDLE"
        BY <1>2, <2>1, <3>1, <3>3, <3>6, LastIsLate DEF TriggerDown
      <4>3. FrozenPart'
        BY <2>6, <3>1, <3>3, <4>1, SMT DEF FrozenPart, TriggerCaptured, Starting, TriggerDown
      <4> QED
        BY <1>1, <2>4, <3>5, <4>1, <4>2, <4>3
           DEF RatioInv, RestPart, StartPart, Starting, ServePart, Serving
    <3>7. CASE ~(ready /\ InjLastByte)
      <4>1. Sending' /\ injState' = injState
        BY <2>10, <3>1, <3>7 DEF InjSend, Sending
      <4>2. \/ counter' = counter /\ adc_mem_addr' = adc_mem_addr
            \/ counter' = counter + 1 /\ adc_mem_addr' = (counter + 1) \div 2
        <5>1. CASE ~ready
          BY <2>10, <5>1 DEF InjSend
        <5>2. CASE ready /\ ~InjLastByte
          <6>1. /\ counter' = (counter + 1) % (2 * Depth)
                /\ adc_mem_addr' = IF counter % 2 = 1 THEN (adc_mem_addr + 1) % Depth
                                   ELSE adc_mem_addr
            BY <2>10, <5>2 DEF InjSend
          <6>2. /\ (counter + 1) % (2 * Depth) = counter + 1
                /\ counter % 2 = 1 => (counter \div 2 + 1) % Depth = (counter + 1) \div 2
                /\ counter % 2 # 1 => counter \div 2 = (counter + 1) \div 2
            BY <3>2, <5>2, NextByte, RatioTypes DEF InjLastByte
          <6> QED
            BY <3>2, <6>1, <6>2
        <5> QED
          BY <3>7, <5>1, <5>2
      <4>3. counter' <= counter + 1 /\ counter' \in Nat
        BY <4>2, RatioTypes, SMT
      <4>4. LowByteFresh'
        <5> SUFFICES ASSUME counter' % 2 = 1 PROVE adc_mem_addr' = adc_mem_addr
          BY <3>1, <3>4 DEF LowByteFresh, LowByteNext
        <5>1. counter \in Nat
          BY RatioTypes
        <5>2. counter % 2 # 0 => counter' = counter
          BY <4>2, <5>1, Halves
        <5>3. counter % 2 = 0 => (counter + 1) \div 2 = counter \div 2
          BY <5>1, Halves
        <5> QED
          BY <3>2, <4>2, <5>2, <5>3
      <4>5. HighByteLag'
        <5> SUFFICES ASSUME counter' % 2 = 0
                     PROVE  adc_mem_addr \in {adc_mem_addr' - 1, adc_mem_addr'}
          BY <3>1, <3>4 DEF HighByteLag, HighByteNext
        <5> QED
          BY <3>2, <4>2, Halves, RatioTypes, SMT
      <4>6. FrozenPart'
        BY <2>3, <3>1, <4>1, <4>4, <4>5 DEF FrozenPart, TriggerCaptured, Starting, Sending
      <4>7. TriggerDown'
        <5>1. CaptureAge' = CaptureAge /\ (Capturing' <=> Capturing)
          BY <1>1, <3>1 DEF CaptureAge, Capturing
        <5>2. Capturing => CaptureAge' >= 3 * (1 + counter') + since'
          BY <1>1, <1>2, <3>3, <4>3, <5>1, RatioTypes, SMT DEF TriggerDown
        <5> QED
          BY <1>1, <3>1, <3>3, <5>1, <5>2 DEF TriggerDown
      <4>8. ServePart'
        BY <1>1, <2>3, <3>1, <3>2, <4>7 DEF ServePart, Capturing
      <4> QED
        BY <1>1, <2>4, <3>1, <3>5, <4>1, <4>6, <4>8
           DEF RatioInv, RestPart, StartPart, Starting, Sending
    <3> QED
      BY <3>6, <3>7
  <2> QED
    BY <2>2, <2>7, <2>8, <2>9, <2>10
<1> QED
  BY <1>3, <1>4 DEF UsbEdge

LEMMA StepRatio ==
  Synthesised /\ IInv /\ FirstInv /\ RatioInv /\ [Next]_vars => RatioInv'
<1> SUFFICES ASSUME Synthesised, IInv, FirstInv, RatioInv, [Next]_vars
             PROVE  RatioInv'
  OBVIOUS
<1>1. IInv'
  BY StepInv
<1>2. CASE UNCHANGED vars
  <2>1. UNCHANGED << adcVars, injVars, ramVars, wireVars, historyVars >>
    BY <1>2 DEF vars
  <2> QED
    BY <2>1
       DEF adcVars, injVars, ramVars, wireVars, historyVars, RatioInv, WaitPart, FrozenPart,
           StartPart, TriggerPart, RestPart, ServePart, TriggerUp, TriggerDown, Starting,
           Serving, Capturing, CaptureAge, TriggerCaptured, LowByteFresh, HighByteLag,
           LowByteNext, HighByteNext, Sending
<1>3. ASSUME NEW dry \in DryValues, FastEdge(dry)
      PROVE  RatioInv'
  BY <1>1, <1>3, FastRatio DEF Synthesised
<1>4. ASSUME NEW ready \in BOOLEAN, UsbEdge(ready)
      PROVE  RatioInv'
  BY <1>4, UsbRatio
<1> QED
  BY <1>2, <1>3, <1>4, ButtonRatio DEF Next

LEMMA RatioInvariance ==
  ASSUME Synthesised
  PROVE  Spec => []RatioInv
<1>1. IInv /\ FirstInv /\ RatioInv /\ [Next]_vars => RatioInv'
  BY StepRatio
<1>2. Init => FirstInv
  BY InitFirst
<1>3. Init => RatioInv
  BY InitRatio
<1>4. IInv /\ FirstInv /\ [Next]_vars => FirstInv'
  BY StepFirst
<1> QED
  BY Invariance, <1>1, <1>2, <1>3, <1>4, PTL DEF Spec

(***************************************************************************)
(* The low byte sent is of the sample this command captured, at every word *)
(* of every answer, although done may be left over from the command before *)
(* when the answer begins: the capture stays ahead of the reader           *)
(* (adc.py:81-104 against inject_data.py:87-114).                          *)
(***************************************************************************)
THEOREM LowByteOfThisCommand ==
  ASSUME Synthesised
  PROVE  Spec => []LowByteFresh
<1>1. RatioInv => LowByteFresh
  BY DEF RatioInv, FrozenPart
<1> QED
  BY RatioInvariance, <1>1, PTL

(***************************************************************************)
(* A high byte after the first word is of this command's sample of its own *)
(* word or of the word before it: the RAM's output register                *)
(* (simple_dual_two_clocks.vhd:37-44) makes it late, never more than that. *)
(***************************************************************************)
THEOREM HighByteOneBehind ==
  ASSUME Synthesised
  PROVE  Spec => []HighByteLag
<1>1. RatioInv => HighByteLag
  BY DEF RatioInv, FrozenPart
<1> QED
  BY RatioInvariance, <1>1, PTL

(***************************************************************************)
(* The ADC is in IDLE whenever InjectData can take a command, after both   *)
(* start-up waits and after every answer, so the trigger finds it where it *)
(* looks at it (adc.py:81-87).                                             *)
(***************************************************************************)
THEOREM AdcIsReady ==
  ASSUME Synthesised
  PROVE  Spec => []AdcReadyForCommand
<1>1. RatioInv => AdcReadyForCommand
  BY DEF RatioInv, RestPart, AdcReadyForCommand
<1> QED
  BY RatioInvariance, <1>1, PTL

(***************************************************************************)
(* The one usb edge for which trig is raised is long enough for the ADC to *)
(* start a capture for every command with words, and short enough not to   *)
(* start a second one, unless the command is of one word.                  *)
(***************************************************************************)
THEOREM TriggerIsSeen ==
  ASSUME Synthesised
  PROVE  Spec => []TriggerCaptured
<1>1. RatioInv => TriggerCaptured
  BY DEF RatioInv, FrozenPart
<1> QED
  BY RatioInvariance, <1>1, PTL

(***************************************************************************)
(* Whatever the ADC captures is for the command being served, and of the   *)
(* length it asks for (adc.py:53-60): no limit of an earlier command is    *)
(* sampled, and no capture runs on into the next command.                  *)
(***************************************************************************)
THEOREM CaptureIsOfCommand ==
  ASSUME Synthesised
  PROVE  Spec => []CaptureMatchesCommand
<1>1. IInv /\ RatioInv => CaptureMatchesCommand
  <2> SUFFICES ASSUME IInv, RatioInv, ~button, Capturing
               PROVE  capturing = issued /\ limit = adc_limit - 1
    BY DEF CaptureMatchesCommand, Capturing
  <2>1. ~Starting
    BY DEF RatioInv, StartPart, Capturing
  <2>2. injState \notin {"IDLE", "RECEIVE_DATA_FROM_USB"}
    BY DEF RatioInv, RestPart, Capturing
  <2>3. Serving
    BY <2>1, <2>2, RatioTypes DEF InjStates, Serving, Starting
  <2> QED
    BY <2>3 DEF RatioInv, ServePart
<1> QED
  BY Invariance, RatioInvariance, <1>1, PTL

=============================================================================
