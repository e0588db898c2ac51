--------------------------- MODULE FirmwareProofs ---------------------------
(***************************************************************************)
(* Proofs about Firmware: a delay is exact, for any words and ticks; a read*)
(* over I2C returns the register meant, and what has been checked stays in *)
(* the chip, for every chip and every script that uses each register whole.*)
(***************************************************************************)
EXTENDS Firmware, Integers, TLAPS

-----------------------------------------------------------------------------
(* Arithmetic of words and ticks.                                          *)
LEMMA WordOnce ==
  ASSUME NEW m \in Nat \ {0}, NEW x \in 0 .. m - 1
  PROVE  x % m = x /\ x \div m = 0 /\ (x + m) % m = x
OBVIOUS

LEMMA OneLess ==
  ASSUME NEW k \in Nat, NEW t \in Nat, NEW s \in Nat, t < k
  PROVE  t * s + s <= k * s
OBVIOUS

LEMMA OneTick ==
  ASSUME NEW t \in Nat, NEW s \in Nat
  PROVE  (t + 1) * s = t * s + s
OBVIOUS

LEMMA FewerTicks ==
  ASSUME NEW k \in Nat, NEW t \in Nat, NEW s \in Nat \ {0}, t * s < k * s
  PROVE  t < k
OBVIOUS

LEMMA WholeTicks ==
  ASSUME NEW v \in Nat, NEW s \in Nat \ {0}, v % s = 0
  PROVE  \E k \in Nat : v = k * s
OBVIOUS

LEMMA TickOff ==
  ASSUME NEW v \in Nat \ {0}, NEW s \in Nat \ {0}, v % s = 0
  PROVE  v >= s /\ (v - s) % s = 0
<1>1. PICK k \in Nat : v = k * s
  BY WholeTicks
<1>2. k # 0
  BY <1>1
<1>3. k - 1 \in Nat /\ v - s = (k - 1) * s
  BY <1>1, <1>2
<1>4. \A n \in Nat : n * s \in Nat /\ (n * s) % s = 0
  OBVIOUS
<1> QED  BY <1>3, <1>4

LEMMA NoneGone ==
  ASSUME NEW t \in Nat, NEW s \in Nat
  PROVE  (IF 0 * s < t THEN t - 0 * s ELSE 0) = t
OBVIOUS

LEMMA Enough ==
  ASSUME NEW t \in Nat, NEW s \in Nat \ {0}
  PROVE  t * s >= t
OBVIOUS

-----------------------------------------------------------------------------
(* DelayExact, with the words while they are stored and loaded.  The high  *)
(* word is 0 throughout; the low word is what is left from its store on.   *)
DelayInv ==
  /\ delay_high = 0
  /\ delay_low \in Delays
  /\ target \in Delays
  /\ ticks \in 0 .. WordMod
  /\ waiting \in BOOLEAN
  /\ unstored \subseteq WordNames /\ zero \subseteq WordNames
  /\ waiting /\ "low" \notin unstored => delay_low = Left
  /\ ~waiting => delay_low = 0 /\ Left = 0 /\ unstored = {} /\ zero = {}
  /\ "low" \in zero => delay_low = 0
  /\ zero # {} => unstored = {}

Typed == /\ WordMod \in Nat \ {0} /\ Step \in Nat \ {0} /\ Step < WordMod

LEMMA ConstantsTyped == Typed
BY DelayAssumption DEF Typed

LEMMA ZeroIsWhole == 0 \in Delays /\ 0 * Step = 0 /\ 0 \in 0 .. WordMod
BY ConstantsTyped DEF Delays, Typed

\* A tick takes Step off a count, or leaves it at 0.
LEMMA CountDownLow ==
  ASSUME delay_high = 0, delay_low \in Delays, CountDown
  PROVE  /\ delay_high' = 0
         /\ delay_low' = IF delay_low = 0 THEN 0 ELSE delay_low - Step
         /\ delay_low' \in Delays
<1>1. Typed /\ delay_low \in 0 .. WordMod - 1 /\ delay_low % Step = 0
  BY ConstantsTyped DEF Delays
<1>2. delay_val = delay_low
  BY <1>1 DEF delay_val, Typed
<1>3. CASE delay_low = 0
  BY <1>2, <1>3 DEF CountDown
<1>4. CASE delay_low # 0
  <2> DEFINE m == WordMod * WordMod
             x == delay_low - Step
  <2>1. m \in Nat \ {0} /\ WordMod <= m
    BY <1>1 DEF Typed
  <2>2. x \in 0 .. WordMod - 1 /\ x % Step = 0
    <3>1. delay_low \in Nat \ {0} /\ Step \in Nat \ {0}
      BY <1>1, <1>4 DEF Typed
    <3>2. delay_low >= Step /\ x % Step = 0
      BY <1>1, <3>1, TickOff
    <3>3. delay_low <= WordMod - 1 /\ WordMod \in Nat
      BY <1>1 DEF Typed
    <3>4. x \in 0 .. WordMod - 1
      BY <3>1, <3>2, <3>3
    <3> QED  BY <3>2, <3>4
  <2>3. x \in 0 .. m - 1
    BY <1>1, <2>1, <2>2 DEF Typed
  <2>4. delay_val + m - Step = x + m
    BY <1>1, <1>2, <2>1 DEF Typed
  <2>5. (delay_val + m - Step) % m = x
    BY <2>1, <2>3, <2>4, WordOnce
  <2>6. x % WordMod = x /\ x \div WordMod = 0
    BY <1>1, <2>2, WordOnce DEF Typed
  <2>7. SetDelayVal(x)
    BY <1>2, <1>4, <2>5 DEF CountDown
  <2> QED  BY <1>4, <2>2, <2>6, <2>7 DEF SetDelayVal, Delays
<1> QED  BY <1>3, <1>4

\* What is left is a whole number of ticks, and a tick takes one off.
OneMoreTick == target' = target /\ ticks' = IF ticks < WordMod THEN ticks + 1 ELSE ticks

LEMMA LeftLess ==
  ASSUME target \in Delays, ticks \in 0 .. WordMod
  PROVE  OneMoreTick => Left' = IF Left = 0 THEN 0 ELSE Left - Step
<1>1. Typed
  BY ConstantsTyped
<1>2. target \in 0 .. WordMod - 1 /\ target % Step = 0
  BY DEF Delays
<1>3. PICK k \in Nat : target = k * Step
  <2>1. target \in Nat /\ Step \in Nat \ {0}
    BY <1>1, <1>2 DEF Typed
  <2> QED  BY <1>2, <2>1, WholeTicks
<1>4. /\ ticks \in Nat /\ ticks * Step \in Nat /\ (ticks + 1) * Step = ticks * Step + Step
      /\ ticks * Step < target => ticks * Step + Step <= target
  <2>1. ticks \in Nat /\ Step \in Nat \ {0}
    BY <1>1 DEF Typed
  <2>2. ticks * Step \in Nat /\ (ticks + 1) * Step = ticks * Step + Step
    BY <2>1, OneTick
  <2>3. ticks * Step < k * Step => ticks * Step + Step <= k * Step
    BY <2>1, FewerTicks, OneLess
  <2> QED  BY <1>3, <2>1, <2>2, <2>3
<1>5. ASSUME OneMoreTick
      PROVE  Left' = IF Left = 0 THEN 0 ELSE Left - Step
  <2>1. CASE ticks < WordMod
    BY <1>1, <1>2, <1>4, <1>5, <2>1 DEF Left, OneMoreTick, Typed
  <2>2. CASE ~(ticks < WordMod)
    <3>1. ticks * Step >= ticks
      BY <1>1, <1>4, Enough DEF Typed
    <3>2. ~(ticks * Step < target)
      BY <1>1, <1>2, <1>4, <2>2, <3>1 DEF Typed
    <3> QED  BY <1>5, <2>2, <3>2 DEF Left, OneMoreTick
  <2> QED  BY <2>1, <2>2
<1> QED  BY <1>5

-----------------------------------------------------------------------------
(* One step of the delays.                                                 *)
LEMMA CallInv ==
  ASSUME DelayInv, NEW value \in Delays, DelayCall(value)
  PROVE  DelayInv'
BY DEF DelayInv, DelayCall, WordNames

LEMMA StoreInv ==
  ASSUME DelayInv, NEW w \in WordNames, StoreWord(w)
  PROVE  DelayInv'
<1>1. /\ waiting /\ waiting' = waiting /\ target' = target /\ zero' = zero
      /\ unstored' = unstored \ {w} /\ w \in unstored
  BY DEF DelayInv, StoreWord
<1>2. zero = {}
  BY <1>1 DEF DelayInv
<1>3. CASE w = "low"
  <2>1. delay_low' = target /\ ticks' = 0 /\ delay_high' = delay_high
    BY <1>3 DEF StoreWord
  <2>2. Left' = target'
    <3>1. target' \in Delays /\ ticks' = 0
      BY <1>1, <2>1 DEF DelayInv
    <3>2. target' \in Nat /\ Step \in Nat
      BY <3>1, ConstantsTyped DEF Delays, Typed
    <3>3. (IF 0 * Step < target' THEN target' - 0 * Step ELSE 0) = target'
      BY <3>2, NoneGone
    <3> QED  BY <3>1, <3>3 DEF Left
  <2>3. target \in 0 .. WordMod - 1 /\ 0 \in 0 .. WordMod
    BY ConstantsTyped DEF DelayInv, Delays, Typed
  <2> QED  BY <1>1, <1>2, <2>1, <2>2, <2>3 DEF DelayInv
<1>4. CASE w = "high"
  <2>1. delay_low' = delay_low /\ ticks' = ticks /\ delay_high' = 0
    BY <1>4 DEF StoreWord
  <2>2. Left' = Left
    BY <1>1, <2>1 DEF Left
  <2>3. "low" \notin unstored' => "low" \notin unstored
    BY <1>1, <1>4
  <2> QED  BY <1>1, <1>2, <2>1, <2>2, <2>3 DEF DelayInv
<1> QED  BY <1>3, <1>4 DEF WordNames

LEMMA LoadInv ==
  ASSUME DelayInv, NEW w \in WordNames, LoadWord(w)
  PROVE  DelayInv'
<1>1. /\ waiting /\ unstored = {} /\ w \notin zero
      /\ UNCHANGED << delay_low, delay_high, target, unstored, ticks >>
  BY DEF LoadWord
<1>2. Left' = Left /\ delay_low = Left
  BY <1>1 DEF Left, DelayInv
<1>3. CASE zero' = {} /\ waiting' = waiting
  BY <1>1, <1>2, <1>3 DEF DelayInv
<1>4. CASE zero' = {w} /\ waiting' = waiting /\ (w = "low" => delay_low = 0)
  BY <1>1, <1>2, <1>4 DEF DelayInv
<1>5. CASE zero' = {} /\ waiting' = FALSE /\ zero # {} /\ (w = "low" => delay_low = 0)
  <2>1. w = "low" \/ "low" \in zero
    BY <1>1, <1>5 DEF DelayInv, WordNames
  <2>2. delay_low = 0
    BY <1>5, <2>1 DEF DelayInv
  <2> QED  BY <1>1, <1>2, <1>5, <2>2 DEF DelayInv
<1> QED  BY <1>3, <1>4, <1>5 DEF LoadWord

LEMMA TickInv ==
  ASSUME DelayInv, SysTick
  PROVE  DelayInv'
<1>1. /\ target' = target /\ waiting' = waiting
      /\ CountDown
      /\ ticks' = IF waiting /\ ticks < WordMod THEN ticks + 1 ELSE ticks
      /\ zero' \in {zero, {}}
      /\ unstored' = unstored \/ (unstored' = WordNames /\ zero = {}
                                  /\ (unstored \notin {{}, WordNames} \/ zero # {}))
  BY DEF SysTick
<1>2. ticks' \in 0 .. WordMod
  BY <1>1, ConstantsTyped DEF DelayInv, Typed
<1>3. CASE waiting /\ "low" \notin unstored
  <2>1. Left = delay_low
    BY <1>3 DEF DelayInv
  <2>2. /\ delay_high' = 0 /\ delay_low' \in Delays
        /\ delay_low' = IF delay_low = 0 THEN 0 ELSE delay_low - Step
    BY <1>1, CountDownLow DEF DelayInv
  <2>3. Left' = IF Left = 0 THEN 0 ELSE Left - Step
    BY <1>1, <1>3, LeftLess DEF DelayInv, OneMoreTick
  <2>4. delay_low' = Left'
    BY <2>1, <2>2, <2>3
  <2>5. unstored' \subseteq WordNames /\ zero' \subseteq WordNames
    BY <1>1 DEF DelayInv
  <2>6. "low" \in zero' => delay_low' = 0
    BY <1>1, <2>2 DEF DelayInv
  <2>7. zero' # {} => unstored' = {}
    BY <1>1 DEF DelayInv
  <2> QED  BY <1>1, <1>2, <1>3, <2>2, <2>4, <2>5, <2>6, <2>7 DEF DelayInv
<1>4. CASE waiting /\ "low" \in unstored
  <2>1. zero = {} /\ zero' = {}
    BY <1>1, <1>4 DEF DelayInv
  <2>2. "low" \in unstored' /\ unstored' \subseteq WordNames
    BY <1>1, <1>4 DEF DelayInv, WordNames
  <2>3. delay_low' \in Delays /\ delay_high' = 0
    BY <1>1, CountDownLow DEF DelayInv
  <2> QED  BY <1>1, <1>2, <1>4, <2>1, <2>2, <2>3 DEF DelayInv
<1>5. CASE ~waiting
  <2>1. delay_low = 0 /\ Left = 0 /\ unstored = {} /\ zero = {}
    BY <1>5 DEF DelayInv
  <2>2. delay_low' = 0 /\ delay_low' \in Delays /\ delay_high' = 0
    BY <1>1, <2>1, CountDownLow DEF DelayInv
  <2>3. Left' = Left
    BY <1>1, <1>5 DEF Left
  <2>4. unstored' = {} /\ zero' = {}
    BY <1>1, <2>1
  <2> QED  BY <1>1, <1>2, <1>5, <2>1, <2>2, <2>3, <2>4 DEF DelayInv
<1> QED  BY <1>3, <1>4, <1>5 DEF DelayInv

StepTyped == step \in Nat \ {0}

LEMMA NextStepTyped == StepTyped /\ [Next]_vars => StepTyped'
<1> SUFFICES ASSUME StepTyped, [Next]_vars
             PROVE  StepTyped'
  OBVIOUS
<1>1. step' = step \/ step' = step + 1
  <2>1. CASE Operation
    BY <2>1 DEF Operation, SendHeader, ReadBack, CheckRegister, ModifyRegister, WriteRegister,
                Wait, Returned, MainLoop, Compare, NextOp, fwVars
  <2>2. CASE UNCHANGED fwVars
    BY <2>2 DEF fwVars
  <2> QED  BY <2>1, <2>2 DEF Next, Program, Bus, Interrupt, vars
<1> QED  BY <1>1 DEF StepTyped

LEMMA NextDelayInv == DelayInv /\ StepTyped /\ [Next]_vars => DelayInv'
<1> SUFFICES ASSUME DelayInv, StepTyped, [Next]_vars
             PROVE  DelayInv'
  OBVIOUS
<1>1. CASE UNCHANGED delayVars
  <2>1. /\ UNCHANGED << delay_low, delay_high, target, unstored, zero, waiting, ticks >>
    BY <1>1 DEF delayVars
  <2>2. Left' = Left
    BY <2>1 DEF Left
  <2> QED  BY <2>1, <2>2 DEF DelayInv
<1>2. ASSUME NEW value \in Delays, DelayCall(value)
      PROVE  DelayInv'
  BY <1>2, CallInv
<1>3. CASE DelayStep
  BY <1>3, StoreInv, LoadInv DEF DelayStep
<1>4. CASE SysTick
  BY <1>4, TickInv
<1>5. CASE Wait
  <2>1. step <= Len(Script) /\ Op.op = "delay" /\ DelayCall(DelayMs(Op.ms))
    BY <1>5 DEF Wait, Doing, Op
  <2>2. DelayMs(Op.ms) \in Delays
    <3>1. step \in 1 .. Len(Script)
      BY <2>1 DEF StepTyped
    <3> QED  BY <2>1, <3>1, FirmwareAssumption DEF Op
  <2> QED  BY <1>2, <2>1, <2>2
<1>6. CASE MainLoop
  BY <1>2, <1>6, FirmwareAssumption DEF MainLoop
<1>7. CASE SendHeader \/ ReadBack \/ CheckRegister \/ ModifyRegister \/ WriteRegister \/ Returned
  BY <1>1, <1>7 DEF SendHeader, ReadBack, CheckRegister, ModifyRegister, WriteRegister, Returned
<1>8. CASE Program
  BY <1>1, <1>3, <1>5, <1>6, <1>7, <1>8 DEF Program, Operation
<1>9. CASE Bus
  BY <1>1, <1>9 DEF Bus
<1>10. CASE UNCHANGED vars
  BY <1>1, <1>10 DEF vars
<1> QED  BY <1>4, <1>8, <1>9, <1>10 DEF Next, Interrupt

LEMMA InitDelayInv == Init => DelayInv /\ StepTyped
<1> SUFFICES ASSUME Init
             PROVE  DelayInv /\ StepTyped
  OBVIOUS
<1>1. /\ delay_low = 0 /\ delay_high = 0 /\ target = 0 /\ ticks = 0
      /\ unstored = {} /\ zero = {} /\ waiting = FALSE /\ step = 1
  BY DEF Init, DelayInit
<1>2. Left = 0
  BY <1>1, ZeroIsWhole DEF Left
<1>3. delay_low \in Delays /\ target \in Delays /\ ticks \in 0 .. WordMod /\ delay_high = 0
  BY <1>1, ZeroIsWhole
<1>4. waiting \in BOOLEAN /\ ~waiting
  BY <1>1
<1>5. unstored \subseteq WordNames /\ zero \subseteq WordNames /\ "low" \notin zero
  BY <1>1
<1> QED  BY <1>1, <1>2, <1>3, <1>4, <1>5 DEF DelayInv, StepTyped

\* However the ticks of SysTick_Handler fall between the stores and loads of
\* the words of delay_val, a delay lasts exactly its whole ticks.
THEOREM DelayCorrect == Spec => []DelayExact
<1>2. DelayInv => DelayExact
  <2> SUFFICES ASSUME DelayInv
               PROVE  DelayExact
    OBVIOUS
  <2>1. delay_val = delay_low
    BY ConstantsTyped DEF delay_val, DelayInv, Delays, Typed
  <2> QED  BY <2>1 DEF DelayInv, DelayExact
<1> QED  BY <1>2, InitDelayInv, NextDelayInv, NextStepTyped, PTL DEF Spec

SplitTyped == split \in BOOLEAN

LEMMA NextSplit == SplitTyped /\ [Next]_vars => SplitTyped'
<1> SUFFICES ASSUME split \in BOOLEAN, [Next]_vars
             PROVE  split' \in BOOLEAN
  BY DEF SplitTyped
<1>1. CASE UNCHANGED delayVars
  BY <1>1 DEF delayVars
<1>2. CASE DelayStep
  BY <1>2 DEF DelayStep, StoreWord, LoadWord
<1>3. CASE SysTick
  BY <1>3 DEF SysTick
<1>4. CASE Operation
  <2>1. CASE Wait
    BY <2>1 DEF Wait, DelayCall
  <2>2. CASE MainLoop
    BY <2>2 DEF MainLoop, DelayCall
  <2>3. CASE ~Wait /\ ~MainLoop
    BY <1>1, <1>4, <2>3
       DEF Operation, SendHeader, ReadBack, CheckRegister, ModifyRegister, WriteRegister, Returned
  <2> QED  BY <2>1, <2>2, <2>3
<1> QED  BY <1>1, <1>2, <1>3, <1>4 DEF Next, Program, Bus, Interrupt, vars

\* The words of delay_val and what the program knows of them keep their types.
THEOREM DelayTypes == Spec => []DelayTypeOK
<1>1. Init => SplitTyped
  BY DEF Init, DelayInit, SplitTyped
<1>2. DelayInv /\ SplitTyped => DelayTypeOK
  BY ConstantsTyped DEF DelayInv, SplitTyped, DelayTypeOK, Delays, Typed
<1>3. Spec => [](DelayInv /\ StepTyped)
  BY InitDelayInv, NextDelayInv, NextStepTyped, PTL DEF Spec
<1>4. Spec => []SplitTyped
  BY <1>1, NextSplit, PTL DEF Spec
<1> QED  BY <1>2, <1>3, <1>4, PTL

-----------------------------------------------------------------------------
(***************************************************************************)
(* I2C, for every chip and every script that uses each register whole.     *)
(*                                                                         *)
(* BusInv says, for each loop of i2c.c the program may wait in, what the   *)
(* peripheral and the chip are at: a flag set, the byte under way that will*)
(* set it, or a byte refused and the flag never to come.  ScriptInv says   *)
(* which call of nm120_init that is, so that the register the chip was told*)
(* last is the one about to be read.                                       *)
(***************************************************************************)
HeaderOf(bytes) == SubSeq(bytes, 1, 2)

RegsPart ==
  /\ DOMAIN regs = DOMAIN RegBytes
  /\ \A r \in DOMAIN RegBytes : regs[r] \in Seq(Byte) /\ Len(regs[r]) = Len(RegBytes[r])
  /\ header \in DOMAIN RegBytes

\* What a function of i2c.c is called with.
GoodWrite(bytes) ==
  /\ bytes \in Seq(Byte)
  /\ HeaderOf(bytes) \in DOMAIN RegBytes
  /\ Len(bytes) \in {2, 2 + Len(RegBytes[HeaderOf(bytes)])}

CallPart ==
  /\ call.dir \in {"read", "write"}
  /\ call.dir = "read" => call.size = Len(RegBytes[header])
  /\ call.dir = "write" /\ at # "out" => GoodWrite(call.bytes)

\* Between two functions.
OutPart ==
  at = "out" =>
    /\ "START" \notin cr1 /\ sr1 = {} /\ wire = "none" /\ chip = "idle"
    /\ call.dir = "read" => buffer = regs[header] /\ sent = call.size

SbPart ==
  at = "SB" =>
    /\ "STOP" \notin cr1 /\ wire = "none" /\ chip = "idle" /\ i = 0 /\ buffer = << >>
    /\ call.dir = "read" => "ACK" \in cr1
    /\ \/ "START" \in cr1 /\ sr1 = {}
       \/ "START" \notin cr1 /\ sr1 = {"SB"} /\ msl

AddrPart ==
  at = "ADDR" =>
    /\ "START" \notin cr1 /\ "STOP" \notin cr1 /\ i = 0 /\ buffer = << >>
    /\ call.dir = "read" => "ACK" \in cr1
    /\ msl
    /\ \/ wire = "address" /\ sr1 = {} /\ dr = Address(call.dir)
       \/ wire = "none" /\ sr1 = {"ADDR"} /\ chip = call.dir /\ rx = << >> /\ sent = 0
       \/ wire = "none" /\ sr1 = {"AF"}

BtfPart ==
  at = "BTF" =>
    /\ call.dir = "write" /\ "START" \notin cr1 /\ "STOP" \notin cr1
    /\ i \in Nat /\ i < Len(call.bytes) /\ chip = "write" /\ msl
    /\ \/ wire = "tx" /\ sr1 = {} /\ rx = SubSeq(call.bytes, 1, i) /\ dr = call.bytes[i + 1]
       \/ wire = "none" /\ sr1 = {"BTF"} /\ rx = SubSeq(call.bytes, 1, i + 1)
       \/ wire = "none" /\ sr1 = {"AF"}

MslPart ==
  at = "MSL" =>
    /\ call.dir = "write" /\ wire = "none" /\ "START" \notin cr1 /\ sr1 = {}
    /\ msl => "STOP" \in cr1 /\ chip = "write" /\ rx = call.bytes
    /\ ~msl => chip = "idle" /\ header = HeaderOf(call.bytes)

RxnePart ==
  at = "RXNE" =>
    /\ call.dir = "read" /\ "START" \notin cr1
    /\ i \in Nat /\ i < call.size /\ buffer = SubSeq(regs[header], 1, i)
    /\ \/ sr1 = {} /\ wire = "rx" /\ chip = "read" /\ sent = i
       \/ /\ sr1 = {"RXNE"} /\ sent = i + 1 /\ dr = regs[header][i + 1]
          /\ i + 1 = call.size => wire = "none" /\ chip = "idle"
    /\ "ACK" \in cr1 <=> i + 1 < call.size
    /\ i + 1 < call.size => wire = "rx" /\ chip = "read" /\ "STOP" \notin cr1

BusInv ==
  /\ at \in {"out", "SB", "ADDR", "BTF", "MSL", "RXNE"}
  /\ RegsPart /\ CallPart
  /\ OutPart /\ SbPart /\ AddrPart /\ BtfPart /\ MslPart /\ RxnePart

Reads == Doing("expect") \/ Doing("check") \/ Doing("modify")
Writes == Doing("write") \/ Doing("modify")

ScriptInv ==
  /\ part \in {"begin", "header", "read", "write", "delay"}
  /\ part \in {"begin", "delay"} => at = "out"
  /\ part = "header" =>
       /\ Reads /\ call = [dir |-> "write", bytes |-> Op.reg]
       /\ at = "out" => header = Op.reg
  /\ part = "read" => Reads /\ call = [dir |-> "read", size |-> Op.size] /\ header = Op.reg
  /\ part = "write" =>
       /\ Writes /\ call = [dir |-> "write", bytes |-> Op.reg \o wanted]
       /\ wanted \in Seq(Byte) /\ Len(wanted) = Len(RegBytes[Op.reg])
       /\ Op.reg \notin DOMAIN kept
  /\ DOMAIN kept \subseteq DOMAIN RegBytes
  /\ CheckedIsKept

\* Sequences of bytes, as they grow on the bus.
LEMMA Prefixes ==
  ASSUME NEW S, NEW s \in Seq(S)
  PROVE  /\ SubSeq(s, 1, 0) = << >>
         /\ SubSeq(s, 1, Len(s)) = s
         /\ \A n \in Nat : n < Len(s) =>
              /\ Append(SubSeq(s, 1, n), s[n + 1]) = SubSeq(s, 1, n + 1)
              /\ s[n + 1] \in S
OBVIOUS

LEMMA Joined ==
  ASSUME NEW S, NEW s \in Seq(S), NEW t \in Seq(S)
  PROVE  s \o t \in Seq(S) /\ Len(s \o t) = Len(s) + Len(t)
OBVIOUS

\* A write is a header and the bytes for the register.
LEMMA HeaderAndBytes ==
  ASSUME NEW r \in DOMAIN RegBytes, NEW v \in Seq(Byte), Len(v) \in {0, Len(RegBytes[r])}
  PROVE  /\ HeaderOf(r) = r /\ GoodWrite(r)
         /\ HeaderOf(r \o v) = r /\ GoodWrite(r \o v) /\ Len(r \o v) = 2 + Len(v)
<1>1. r \in Seq(Byte) /\ Len(r) = 2 /\ Len(RegBytes[r]) \in Nat
  BY RegisterAssumption
<1>2. HeaderOf(r) = r
  BY <1>1 DEF HeaderOf
<1>3. HeaderOf(r \o v) = r /\ r \o v \in Seq(Byte) /\ Len(r \o v) = 2 + Len(v)
  <2> HIDE DEF Byte
  <2>1. r \o v \in Seq(Byte) /\ Len(r \o v) = 2 + Len(v)
    BY <1>1, Joined
  <2>2. SubSeq(r \o v, 1, 2) = r
    BY <1>1, <2>1
  <2> QED
    BY <2>1, <2>2 DEF HeaderOf
<1> QED
  BY <1>1, <1>2, <1>3 DEF GoodWrite

\* What the operations of the script are about.
LEMMA OpTypes ==
  ASSUME StepTyped
  PROVE  /\ Reads => Op.reg \in DOMAIN RegBytes /\ Op.size = Len(RegBytes[Op.reg])
         /\ Writes => Op.reg \in DOMAIN RegBytes
         /\ Doing("write") => Op.val \in Seq(Byte) /\ Len(Op.val) = Len(RegBytes[Op.reg])
         /\ Doing("modify") => Op.set \in Byte
<1>1. \A op : Doing(op) => step \in 1 .. Len(Script) /\ Script[step].op = op
  BY DEF Doing, StepTyped
<1> QED
  BY <1>1, ScriptAssumption DEF Reads, Writes, Op

LEMMA UnchangedBus == BusInv /\ UNCHANGED i2cVars => BusInv'
<1> SUFFICES ASSUME BusInv, UNCHANGED i2cVars PROVE BusInv'
  OBVIOUS
<1>1. /\ UNCHANGED << at, call, i, buffer, cr1, sr1, msl, dr, wire >>
      /\ UNCHANGED << chip, rx, header, sent, regs >>
  BY DEF i2cVars, cpuVars, chipVars
<1>2. RegsPart' /\ CallPart'
  BY <1>1 DEF BusInv, RegsPart, CallPart
<1>3. OutPart' /\ SbPart' /\ AddrPart'
  BY <1>1 DEF BusInv, OutPart, SbPart, AddrPart
<1>4. BtfPart' /\ MslPart' /\ RxnePart'
  BY <1>1 DEF BusInv, BtfPart, MslPart, RxnePart
<1> QED
  BY <1>1, <1>2, <1>3, <1>4 DEF BusInv

\* A call, from nothing under way on the bus.
LEMMA CallBus ==
  ASSUME BusInv, NEW c, I2cCall(c),
         \/ c.dir = "read" /\ c.size = Len(RegBytes[header])
         \/ c.dir = "write" /\ GoodWrite(c.bytes)
  PROVE  BusInv'
<1>1. /\ at = "out" /\ at' = "SB" /\ call' = c /\ i' = 0 /\ buffer' = << >>
      /\ cr1' = (cr1 \ {"STOP"}) \union {"START"} \union (IF c.dir = "read" THEN {"ACK"} ELSE {})
      /\ UNCHANGED << sr1, wire, chip, header, regs >>
  BY DEF I2cCall, chipVars
<1>2. RegsPart' /\ CallPart'
  BY <1>1 DEF BusInv, RegsPart, CallPart, GoodWrite, HeaderOf
<1>3. SbPart'
  BY <1>1 DEF BusInv, OutPart, SbPart
<1>4. OutPart' /\ AddrPart' /\ BtfPart' /\ MslPart' /\ RxnePart'
  BY <1>1 DEF OutPart, AddrPart, BtfPart, MslPart, RxnePart
<1> QED
  BY <1>1, <1>2, <1>3, <1>4 DEF BusInv

\* What the program does from one loop to the next does not reach the chip.
LEMMA CpuKeeps ==
  ASSUME BusInv, I2cStep, at # "out"
  PROVE  /\ UNCHANGED << call, header, regs, chip, rx, sent, msl >>
         /\ RegsPart' /\ CallPart'
<1>1. UNCHANGED << call, header, regs, chip, rx, sent, msl >>
  BY DEF I2cStep, StartSeen, AddrSeen, ByteGone, Stopped, ByteCame, chipVars
<1> QED
  BY <1>1 DEF BusInv, RegsPart, CallPart

LEMMA StartSeenBus ==
  ASSUME BusInv, StartSeen
  PROVE  BusInv'
<1>1. I2cStep /\ at = "SB" /\ at' = "ADDR" /\ UNCHANGED << i, buffer, cr1 >>
  BY DEF I2cStep, StartSeen
<1>2. /\ UNCHANGED << call, header, regs, chip, rx, sent, msl >>
      /\ RegsPart' /\ CallPart'
  BY <1>1, CpuKeeps
<1>3. AddrPart'
  BY <1>1, <1>2 DEF BusInv, SbPart, AddrPart, StartSeen
<1>4. OutPart' /\ SbPart' /\ BtfPart' /\ MslPart' /\ RxnePart'
  BY <1>1 DEF OutPart, SbPart, BtfPart, MslPart, RxnePart
<1> QED
  BY <1>1, <1>2, <1>3, <1>4 DEF BusInv

\* The next byte of a write, or its end.
LEMMA SendBus ==
  ASSUME BusInv, NEW n \in Nat, n <= Len(call.bytes), SendOrStop(n),
         call.dir = "write", GoodWrite(call.bytes),
         chip = "write", msl, wire = "none", sr1' = {}, i' = n,
         "START" \notin cr1, "STOP" \notin cr1, rx = SubSeq(call.bytes, 1, n),
         UNCHANGED << call, header, regs, chip, rx, sent, msl >>
  PROVE  BusInv'
<1>1. call.bytes \in Seq(Byte) /\ Size = Len(call.bytes)
  BY DEF GoodWrite, Size
<1>2. RegsPart' /\ CallPart'
  BY DEF BusInv, RegsPart, CallPart
<1>3. CASE n < Size
  <2>1. at' = "BTF" /\ wire' = "tx" /\ dr' = call.bytes[n + 1] /\ cr1' = cr1
    BY <1>3 DEF SendOrStop
  <2>2. BtfPart'
    BY <1>1, <1>3, <2>1 DEF BtfPart
  <2>3. OutPart' /\ SbPart' /\ AddrPart' /\ MslPart' /\ RxnePart'
    BY <2>1 DEF OutPart, SbPart, AddrPart, MslPart, RxnePart
  <2> QED
    BY <1>2, <2>1, <2>2, <2>3 DEF BusInv
<1>4. CASE ~(n < Size)
  <2>1. at' = "MSL" /\ wire' = wire /\ cr1' = cr1 \union {"STOP"}
    BY <1>4 DEF SendOrStop
  <2>2. n = Len(call.bytes)
    BY <1>1, <1>4
  <2>3. rx = call.bytes
    BY <1>1, <2>2, Prefixes
  <2>4. MslPart'
    BY <2>1, <2>3 DEF MslPart
  <2>5. OutPart' /\ SbPart' /\ AddrPart' /\ BtfPart' /\ RxnePart'
    BY <2>1 DEF OutPart, SbPart, AddrPart, BtfPart, RxnePart
  <2> QED
    BY <1>2, <2>1, <2>4, <2>5 DEF BusInv
<1> QED
  BY <1>3, <1>4

LEMMA AddrSeenBus ==
  ASSUME BusInv, AddrSeen
  PROVE  BusInv'
<1>1. /\ I2cStep /\ at = "ADDR" /\ "ADDR" \in sr1 /\ sr1' = sr1 \ {"ADDR"}
      /\ UNCHANGED << i, buffer >>
  BY DEF I2cStep, AddrSeen
<1>2. /\ UNCHANGED << call, header, regs, chip, rx, sent, msl >>
      /\ RegsPart' /\ CallPart'
  BY <1>1, CpuKeeps
<1>3. /\ "START" \notin cr1 /\ "STOP" \notin cr1 /\ i = 0 /\ buffer = << >> /\ msl
      /\ wire = "none" /\ sr1 = {"ADDR"} /\ chip = call.dir /\ rx = << >> /\ sent = 0
      /\ call.dir = "read" => "ACK" \in cr1
  BY <1>1 DEF BusInv, AddrPart
<1>4. CASE call.dir = "write"
  <2>1. GoodWrite(call.bytes) /\ call.bytes \in Seq(Byte)
    BY <1>1, <1>4 DEF BusInv, CallPart, GoodWrite
  <2>2. SendOrStop(0) /\ 0 <= Len(call.bytes) /\ rx = SubSeq(call.bytes, 1, 0) /\ sr1' = {}
    BY <1>1, <1>3, <1>4, <2>1, Prefixes DEF AddrSeen
  <2> QED
    BY <1>1, <1>2, <1>3, <1>4, <2>1, <2>2, SendBus
<1>5. CASE call.dir = "read"
  <2>1. Size = call.size /\ Size \in Nat \ {0} /\ regs[header] \in Seq(Byte)
    BY <1>5, RegisterAssumption DEF BusInv, CallPart, RegsPart, Size
  <2>2. /\ wire' = "rx" /\ at' = "RXNE" /\ sr1' = {}
        /\ IF Size = 1 THEN AskForLast ELSE UNCHANGED cr1
    BY <1>1, <1>3, <1>5, <2>1 DEF AddrSeen
  <2>3. buffer = SubSeq(regs[header], 1, 0)
    BY <1>3, <2>1, Prefixes
  <2>4. RxnePart'
    <3>1. CASE Size = 1
      <4>1. cr1' = (cr1 \ {"ACK"}) \union {"STOP"}
        BY <2>2, <3>1 DEF AskForLast
      <4> QED
        BY <1>1, <1>2, <1>3, <1>5, <2>1, <2>2, <2>3, <3>1, <4>1 DEF RxnePart
    <3>2. CASE Size # 1
      BY <1>1, <1>2, <1>3, <1>5, <2>1, <2>2, <2>3, <3>2 DEF RxnePart
    <3> QED
      BY <3>1, <3>2
  <2>5. OutPart' /\ SbPart' /\ AddrPart' /\ BtfPart' /\ MslPart'
    BY <2>2 DEF OutPart, SbPart, AddrPart, BtfPart, MslPart
  <2> QED
    BY <1>2, <2>2, <2>4, <2>5 DEF BusInv
<1> QED
  BY <1>4, <1>5 DEF BusInv, CallPart

LEMMA ByteGoneBus ==
  ASSUME BusInv, ByteGone
  PROVE  BusInv'
<1>1. I2cStep /\ at = "BTF" /\ "BTF" \in sr1 /\ sr1' = sr1 \ {"BTF"} /\ i' = i + 1
  BY DEF I2cStep, ByteGone
<1>2. UNCHANGED << call, header, regs, chip, rx, sent, msl >>
  BY <1>1, CpuKeeps
<1>3. /\ call.dir = "write" /\ "START" \notin cr1 /\ "STOP" \notin cr1
      /\ i \in Nat /\ i < Len(call.bytes) /\ chip = "write" /\ msl
      /\ wire = "none" /\ sr1 = {"BTF"} /\ rx = SubSeq(call.bytes, 1, i + 1)
  BY <1>1 DEF BusInv, BtfPart
<1>4. GoodWrite(call.bytes) /\ i + 1 \in Nat /\ i + 1 <= Len(call.bytes) /\ sr1' = {}
  BY <1>1, <1>3 DEF BusInv, CallPart, GoodWrite
<1>5. SendOrStop(i + 1)
  BY DEF ByteGone
<1> QED
  BY <1>1, <1>2, <1>3, <1>4, <1>5, SendBus

LEMMA StoppedBus ==
  ASSUME BusInv, Stopped
  PROVE  BusInv' /\ header = HeaderOf(call.bytes)
<1>1. I2cStep /\ at = "MSL" /\ at' = "out" /\ ~msl /\ UNCHANGED << cr1, sr1, wire >>
  BY DEF I2cStep, Stopped
<1>2. /\ UNCHANGED << call, header, regs, chip, rx, sent, msl >>
      /\ RegsPart' /\ CallPart'
  BY <1>1, CpuKeeps
<1>3. OutPart' /\ header = HeaderOf(call.bytes)
  BY <1>1, <1>2 DEF BusInv, MslPart, OutPart
<1>4. SbPart' /\ AddrPart' /\ BtfPart' /\ MslPart' /\ RxnePart'
  BY <1>1 DEF SbPart, AddrPart, BtfPart, MslPart, RxnePart
<1> QED
  BY <1>1, <1>2, <1>3, <1>4 DEF BusInv

LEMMA ByteCameBus ==
  ASSUME BusInv, ByteCame
  PROVE  BusInv'
<1>1. /\ I2cStep /\ at = "RXNE" /\ "RXNE" \in sr1 /\ sr1' = sr1 \ {"RXNE"} /\ i' = i + 1
      /\ buffer' = Append(buffer, dr) /\ wire' = wire
      /\ IF Size - i = 2 THEN AskForLast ELSE UNCHANGED cr1
      /\ at' = IF i + 1 = Size THEN "out" ELSE "RXNE"
  BY DEF I2cStep, ByteCame
<1>2. /\ UNCHANGED << call, header, regs, chip, rx, sent, msl >>
      /\ RegsPart' /\ CallPart'
  BY <1>1, CpuKeeps
<1>3. /\ call.dir = "read" /\ "START" \notin cr1 /\ i \in Nat /\ i < call.size
      /\ buffer = SubSeq(regs[header], 1, i)
      /\ sr1 = {"RXNE"} /\ sent = i + 1 /\ dr = regs[header][i + 1]
      /\ i + 1 = call.size => wire = "none" /\ chip = "idle"
      /\ "ACK" \in cr1 <=> i + 1 < call.size
      /\ i + 1 < call.size => wire = "rx" /\ chip = "read" /\ "STOP" \notin cr1
  BY <1>1 DEF BusInv, RxnePart
<1>4. /\ Size = call.size /\ call.size \in Nat /\ regs[header] \in Seq(Byte)
      /\ Len(regs[header]) = call.size
  BY <1>3, RegisterAssumption DEF BusInv, CallPart, RegsPart, Size
<1>5. buffer' = SubSeq(regs[header], 1, i + 1)
  BY <1>1, <1>3, <1>4, Prefixes
<1>6. CASE i + 1 = Size
  <2>1. at' = "out" /\ cr1' = cr1
    BY <1>1, <1>3, <1>4, <1>6
  <2>2. buffer' = regs[header]
    BY <1>4, <1>5, <1>6, Prefixes
  <2>3. OutPart'
    BY <1>1, <1>2, <1>3, <1>4, <1>6, <2>1, <2>2 DEF OutPart
  <2>4. SbPart' /\ AddrPart' /\ BtfPart' /\ MslPart' /\ RxnePart'
    BY <2>1 DEF SbPart, AddrPart, BtfPart, MslPart, RxnePart
  <2> QED
    BY <1>2, <2>1, <2>3, <2>4 DEF BusInv
<1>7. CASE i + 1 # Size
  <2>1. at' = "RXNE" /\ i + 1 < call.size /\ sr1' = {}
    BY <1>1, <1>3, <1>4, <1>7
  <2>2. /\ "START" \notin cr1'
        /\ "ACK" \in cr1' <=> i' + 1 < call.size
        /\ i' + 1 < call.size => "STOP" \notin cr1'
    <3>1. CASE Size - i = 2
      <4>1. cr1' = (cr1 \ {"ACK"}) \union {"STOP"}
        BY <1>1, <3>1 DEF AskForLast
      <4>2. ~(i' + 1 < call.size)
        BY <1>1, <1>3, <1>4, <3>1
      <4> QED
        BY <1>3, <4>1, <4>2
    <3>2. CASE Size - i # 2
      <4>1. i' + 1 < call.size /\ cr1' = cr1
        BY <1>1, <1>3, <1>4, <2>1, <3>2
      <4> QED
        BY <1>3, <2>1, <4>1
    <3> QED
      BY <3>1, <3>2
  <2>3. RxnePart'
    BY <1>1, <1>2, <1>3, <1>5, <2>1, <2>2 DEF RxnePart
  <2>4. OutPart' /\ SbPart' /\ AddrPart' /\ BtfPart' /\ MslPart'
    BY <2>1 DEF OutPart, SbPart, AddrPart, BtfPart, MslPart
  <2> QED
    BY <1>2, <2>1, <2>3, <2>4 DEF BusInv
<1> QED
  BY <1>6, <1>7

\* A write is of two bytes or more; in a read the chip sends, or is done.
LEMMA WriteLength ==
  ASSUME NEW bytes, GoodWrite(bytes)
  PROVE  /\ bytes \in Seq(Byte) /\ Len(bytes) \in Nat /\ Len(bytes) >= 2
         /\ Len(bytes) > 2 => Len(bytes) = 2 + Len(RegBytes[HeaderOf(bytes)])
<1>1. Len(RegBytes[HeaderOf(bytes)]) \in Nat
  BY RegisterAssumption DEF GoodWrite
<1>2. bytes \in Seq(Byte) /\ Len(bytes) \in {2, 2 + Len(RegBytes[HeaderOf(bytes)])}
  BY DEF GoodWrite
<1>3. Len(bytes) = 2 \/ Len(bytes) = 2 + Len(RegBytes[HeaderOf(bytes)])
  BY <1>2
<1>4. \A n, l \in Nat : n = 2 \/ n = 2 + l => n >= 2 /\ (n > 2 => n = 2 + l)
  OBVIOUS
<1>5. Len(bytes) \in Nat
  BY <1>1, <1>3
<1> QED
  BY <1>1, <1>2, <1>3, <1>4, <1>5, Zenon

LEMMA ReadUnderWay ==
  ASSUME BusInv, at = "RXNE"
  PROVE  wire \in {"rx", "none"} /\ chip \in {"read", "idle"}
<1>1. call.dir = "read" /\ call.size \in Nat
  BY RegisterAssumption DEF BusInv, RxnePart, CallPart, RegsPart
<1>2. i \in Nat /\ (i + 1 = call.size \/ i + 1 < call.size)
  BY <1>1 DEF BusInv, RxnePart
<1> QED
  BY <1>2 DEF BusInv, RxnePart

LEMMA StartSentBus ==
  ASSUME BusInv, StartSent
  PROVE  BusInv' /\ UNCHANGED << header, regs >>
<1>1. /\ UNCHANGED << at, call, i, buffer >>
      /\ UNCHANGED << dr, wire, rx, header, sent, regs >>
      /\ "START" \in cr1 /\ wire = "none"
      /\ cr1' = cr1 \ {"START"} /\ sr1' = sr1 \union {"SB"} /\ msl' = TRUE /\ chip' = "idle"
  BY DEF StartSent, cpuVars
<1>2. at = "SB"
  BY <1>1 DEF BusInv, OutPart, AddrPart, BtfPart, MslPart, RxnePart
<1>3. RegsPart' /\ CallPart'
  BY <1>1 DEF BusInv, RegsPart, CallPart
<1>4. SbPart'
  BY <1>1, <1>2 DEF BusInv, SbPart
<1>5. OutPart' /\ AddrPart' /\ BtfPart' /\ MslPart' /\ RxnePart'
  BY <1>1, <1>2 DEF OutPart, AddrPart, BtfPart, MslPart, RxnePart
<1> QED
  BY <1>1, <1>2, <1>3, <1>4, <1>5 DEF BusInv

LEMMA AddressSentBus ==
  ASSUME BusInv, AddressSent
  PROVE  BusInv' /\ UNCHANGED << header, regs >>
<1>1. /\ UNCHANGED << at, call, i, buffer >>
      /\ UNCHANGED << cr1, msl, dr, header, regs >>
      /\ wire = "address" /\ wire' = "none" /\ rx' = << >> /\ sent' = 0
      /\ chip' = IF "AF" \in sr1' THEN "idle" ELSE IF 0 \in dr THEN "read" ELSE "write"
      /\ sr1' \in {sr1 \union {"ADDR"}, sr1 \union {"AF"}}
  BY DEF AddressSent, Refuse, cpuVars
<1>2. at = "ADDR"
  BY <1>1, ReadUnderWay DEF BusInv, OutPart, SbPart, BtfPart, MslPart
<1>3. sr1 = {} /\ dr = Address(call.dir)
  BY <1>1, <1>2 DEF BusInv, AddrPart
<1>4. (0 \in dr) <=> (call.dir = "read")
  BY <1>3 DEF Address
<1>5. RegsPart' /\ CallPart'
  BY <1>1 DEF BusInv, RegsPart, CallPart
<1>6. call.dir \in {"read", "write"}
  BY DEF BusInv, CallPart
<1>7. AddrPart'
  BY <1>1, <1>2, <1>3, <1>4, <1>6 DEF BusInv, AddrPart
<1>8. OutPart' /\ SbPart' /\ BtfPart' /\ MslPart' /\ RxnePart'
  BY <1>1, <1>2 DEF OutPart, SbPart, BtfPart, MslPart, RxnePart
<1> QED
  BY <1>1, <1>2, <1>5, <1>7, <1>8 DEF BusInv

LEMMA ByteSentBus ==
  ASSUME BusInv, ByteSent
  PROVE  BusInv' /\ UNCHANGED << header, regs >>
<1>1. /\ UNCHANGED << at, call, i, buffer >>
      /\ UNCHANGED << cr1, msl, dr, chip, header, sent, regs >>
      /\ wire = "tx" /\ wire' = "none"
      /\ sr1' \in {sr1 \union {"BTF"}, sr1 \union {"AF"}}
      /\ rx' = IF "AF" \in sr1' THEN rx ELSE Append(rx, dr)
  BY DEF ByteSent, Refuse, cpuVars
<1>2. at = "BTF"
  BY <1>1, ReadUnderWay DEF BusInv, OutPart, SbPart, AddrPart, MslPart
<1>3. /\ call.dir = "write" /\ i \in Nat /\ i < Len(call.bytes)
      /\ sr1 = {} /\ rx = SubSeq(call.bytes, 1, i) /\ dr = call.bytes[i + 1]
  BY <1>1, <1>2 DEF BusInv, BtfPart
<1>4. call.bytes \in Seq(Byte)
  BY <1>2, <1>3 DEF BusInv, CallPart, GoodWrite
<1>5. Append(rx, dr) = SubSeq(call.bytes, 1, i + 1)
  BY <1>3, <1>4, Prefixes
<1>6. RegsPart' /\ CallPart'
  BY <1>1 DEF BusInv, RegsPart, CallPart
<1>7. BtfPart'
  BY <1>1, <1>2, <1>3, <1>5 DEF BusInv, BtfPart
<1>8. OutPart' /\ SbPart' /\ AddrPart' /\ MslPart' /\ RxnePart'
  BY <1>1, <1>2 DEF OutPart, SbPart, AddrPart, MslPart, RxnePart
<1> QED
  BY <1>1, <1>2, <1>6, <1>7, <1>8 DEF BusInv

LEMMA ByteReceivedBus ==
  ASSUME BusInv, ByteReceived
  PROVE  BusInv' /\ UNCHANGED << header, regs >>
<1>1. /\ UNCHANGED << at, call, i, buffer >>
      /\ UNCHANGED << cr1, msl, rx, header, regs >>
      /\ wire = "rx" /\ "RXNE" \notin sr1
      /\ dr' = IF sent < Len(regs[header]) THEN regs[header][sent + 1] ELSE {}
      /\ sr1' = sr1 \union {"RXNE"} /\ sent' = sent + 1
      /\ IF "ACK" \in cr1 THEN UNCHANGED << wire, chip >> ELSE wire' = "none" /\ chip' = "idle"
  BY DEF ByteReceived, cpuVars
<1>2. at = "RXNE"
  BY <1>1 DEF BusInv, OutPart, SbPart, AddrPart, BtfPart, MslPart
<1>3. /\ call.dir = "read" /\ i \in Nat /\ i < call.size /\ sr1 = {} /\ sent = i
      /\ chip = "read" /\ ("ACK" \in cr1 <=> i + 1 < call.size)
  BY <1>1, <1>2 DEF BusInv, RxnePart
<1>4. Len(regs[header]) = call.size /\ call.size \in Nat
  BY <1>3, RegisterAssumption DEF BusInv, CallPart, RegsPart
<1>5. dr' = regs[header][i + 1] /\ sent' = i + 1 /\ sr1' = {"RXNE"}
  BY <1>1, <1>3, <1>4
<1>6. /\ i + 1 = call.size => wire' = "none" /\ chip' = "idle"
      /\ i + 1 < call.size => wire' = "rx" /\ chip' = "read"
  BY <1>1, <1>3, <1>4
<1>7. RegsPart' /\ CallPart'
  BY <1>1 DEF BusInv, RegsPart, CallPart
<1>8. RxnePart'
  BY <1>1, <1>2, <1>3, <1>5, <1>6 DEF BusInv, RxnePart
<1>9. OutPart' /\ SbPart' /\ AddrPart' /\ BtfPart' /\ MslPart'
  BY <1>1, <1>2 DEF OutPart, SbPart, AddrPart, BtfPart, MslPart
<1> QED
  BY <1>1, <1>2, <1>7, <1>8, <1>9 DEF BusInv

\* The chip keeps a write, whole, or none of it; nothing else changes it.
Kept(bytes) ==
  \/ regs' = regs
  \/ Len(bytes) > 2 /\ regs' = [regs EXCEPT ![HeaderOf(bytes)] = SubSeq(bytes, 3, Len(bytes))]

LEMMA StopKeeps ==
  ASSUME BusInv, StopSent
  PROVE  \/ UNCHANGED << header, regs >> /\ (at = "MSL" => call.dir = "read")
         \/ /\ at = "MSL" /\ call.dir = "write" /\ GoodWrite(call.bytes)
            /\ header' = HeaderOf(call.bytes) /\ Kept(call.bytes)
<1>1. msl /\ at \in {"out", "SB", "ADDR", "BTF", "MSL", "RXNE"} /\ wire = "none" /\ "STOP" \in cr1
  BY DEF StopSent, BusInv
<1>2. CASE at = "MSL"
  <2>1. call.dir = "write" /\ chip = "write" /\ rx = call.bytes /\ GoodWrite(call.bytes)
    BY <1>1, <1>2 DEF BusInv, MslPart, CallPart
  <2>2. Len(call.bytes) > 1
    BY <2>1, WriteLength
  <2>3. Len(call.bytes) \in Nat
    BY <2>1, WriteLength
  <2>4. /\ header' = HeaderOf(call.bytes)
        /\ \/ regs' = IF Len(call.bytes) = 2 THEN regs
                      ELSE [regs EXCEPT ![HeaderOf(call.bytes)] =
                              SubSeq(call.bytes, 3, Len(call.bytes))]
           \/ regs' = regs
    BY <2>1, <2>2 DEF StopSent, HeaderOf
  <2>5. Kept(call.bytes)
    BY <2>2, <2>3, <2>4 DEF Kept
  <2> QED
    BY <1>2, <2>1, <2>4, <2>5
<1>3. CASE at # "MSL"
  <2>1. chip # "write"
    BY <1>1, <1>3, ReadUnderWay DEF BusInv, OutPart, SbPart, AddrPart, BtfPart
  <2> QED
    BY <1>3, <2>1 DEF StopSent
<1> QED
  BY <1>2, <1>3

LEMMA StopSentBus ==
  ASSUME BusInv, StopSent
  PROVE  BusInv'
<1>1. /\ UNCHANGED << at, call, i, buffer >>
      /\ UNCHANGED << sr1, dr, wire, rx, sent >>
      /\ "STOP" \in cr1 /\ wire = "none" /\ msl
      /\ cr1' = cr1 \ {"STOP"} /\ msl' = FALSE /\ chip' = "idle"
  BY DEF StopSent, cpuVars
<1>2. at \in {"out", "MSL", "RXNE"}
  BY <1>1 DEF BusInv, SbPart, AddrPart, BtfPart
<1>3. CASE at = "MSL"
  <2>1. /\ call.dir = "write" /\ GoodWrite(call.bytes)
        /\ header' = HeaderOf(call.bytes) /\ Kept(call.bytes)
    <3>1. call.dir = "write"
      BY <1>3 DEF BusInv, MslPart
    <3> QED
      BY <1>3, <3>1, StopKeeps
  <2>2. RegsPart'
    <3>1. CASE regs' = regs
      BY <2>1, <3>1 DEF BusInv, RegsPart, GoodWrite
    <3>2. CASE Len(call.bytes) > 2
               /\ regs' = [regs EXCEPT ![HeaderOf(call.bytes)] =
                             SubSeq(call.bytes, 3, Len(call.bytes))]
      <4> DEFINE h == HeaderOf(call.bytes)
                 v == SubSeq(call.bytes, 3, Len(call.bytes))
      <4>1. h \in DOMAIN RegBytes /\ Len(RegBytes[h]) \in Nat /\ call.bytes \in Seq(Byte)
        BY <2>1, RegisterAssumption DEF GoodWrite
      <4>2. Len(call.bytes) = 2 + Len(RegBytes[h])
        BY <2>1, <3>2, WriteLength
      <4>3. v \in Seq(Byte) /\ Len(v) = Len(RegBytes[h])
        <5> HIDE DEF Byte, h
        <5> QED
          BY <4>1, <4>2
      <4> HIDE DEF v, h
      <4>4. regs' = [regs EXCEPT ![h] = v]
        BY <3>2 DEF v, h
      <4>5. DOMAIN regs = DOMAIN RegBytes /\ DOMAIN regs' = DOMAIN RegBytes
        BY <4>4 DEF BusInv, RegsPart
      <4>6. \A r \in DOMAIN RegBytes :
              regs'[r] \in Seq(Byte) /\ Len(regs'[r]) = Len(RegBytes[r])
        BY <4>3, <4>4, <4>5 DEF BusInv, RegsPart
      <4>7. header' \in DOMAIN RegBytes
        BY <2>1, <4>1 DEF h
      <4> QED
        BY <4>5, <4>6, <4>7 DEF RegsPart
    <3> QED
      BY <2>1, <3>1, <3>2 DEF Kept
  <2>3. CallPart'
    BY <1>1, <1>3, <2>1 DEF CallPart, GoodWrite, BusInv
  <2>4. MslPart'
    BY <1>1, <1>3, <2>1 DEF BusInv, MslPart
  <2>5. OutPart' /\ SbPart' /\ AddrPart' /\ BtfPart' /\ RxnePart'
    BY <1>1, <1>3 DEF OutPart, SbPart, AddrPart, BtfPart, RxnePart
  <2> QED
    BY <1>1, <1>3, <2>2, <2>3, <2>4, <2>5 DEF BusInv
<1>4. CASE at # "MSL"
  <2>1. UNCHANGED << header, regs >>
    BY <1>4, StopKeeps
  <2>2. RegsPart' /\ CallPart'
    BY <1>1, <2>1 DEF BusInv, RegsPart, CallPart
  <2>3. OutPart'
    BY <1>1, <2>1 DEF BusInv, OutPart
  <2>4. RxnePart'
    BY <1>1, <2>1 DEF BusInv, RxnePart
  <2>5. SbPart' /\ AddrPart' /\ BtfPart' /\ MslPart'
    BY <1>1, <1>2, <1>4 DEF SbPart, AddrPart, BtfPart, MslPart
  <2> QED
    BY <1>1, <1>2, <2>2, <2>3, <2>4, <2>5 DEF BusInv
<1> QED
  BY <1>3, <1>4

\* Every step of i2c.c and of the bus keeps BusInv.
LEMMA I2cStepBus ==
  ASSUME BusInv, I2cStep
  PROVE  BusInv'
BY StartSeenBus, AddrSeenBus, ByteGoneBus, StoppedBus, ByteCameBus DEF I2cStep

LEMMA BusStepBus ==
  ASSUME BusInv, BusStep
  PROVE  BusInv'
BY StartSentBus, AddressSentBus, ByteSentBus, ByteReceivedBus, StopSentBus DEF BusStep

-----------------------------------------------------------------------------
(* The script.                                                             *)
LEMMA UnchangedScript == ScriptInv /\ UNCHANGED << i2cVars, fwVars >> => ScriptInv'
<1> SUFFICES ASSUME ScriptInv, UNCHANGED << i2cVars, fwVars >> PROVE ScriptInv'
  OBVIOUS
<1>1. /\ UNCHANGED << step, part, wanted, kept >>
      /\ UNCHANGED << at, call, header, regs >>
  BY DEF i2cVars, cpuVars, chipVars, fwVars
<1> QED
  BY <1>1 DEF ScriptInv, Reads, Writes, Doing, Op, CheckedIsKept

LEMMA SendHeaderInv ==
  ASSUME BusInv, ScriptInv, StepTyped, SendHeader
  PROVE  BusInv' /\ ScriptInv'
<1>1. /\ part = "begin" /\ at = "out" /\ Reads /\ WriteCall(Op.reg) /\ part' = "header"
      /\ UNCHANGED << step, wanted, kept >>
  BY DEF SendHeader, Reads, Free
<1>2. Op.reg \in DOMAIN RegBytes
  BY <1>1, OpTypes
<1>3. GoodWrite(Op.reg)
  <2>1. << >> \in Seq(Byte) /\ Len(<< >>) = 0
    OBVIOUS
  <2> QED
    BY <1>2, <2>1, HeaderAndBytes
<1>4. /\ I2cCall([dir |-> "write", bytes |-> Op.reg])
      /\ call' = [dir |-> "write", bytes |-> Op.reg] /\ at' = "SB" /\ UNCHANGED << header, regs >>
  BY <1>1 DEF WriteCall, I2cCall, chipVars
<1>5. BusInv'
  BY <1>3, <1>4, CallBus
<1>6. ScriptInv'
  BY <1>1, <1>4 DEF ScriptInv, Reads, Writes, Doing, Op, CheckedIsKept
<1> QED
  BY <1>5, <1>6

LEMMA ReadBackInv ==
  ASSUME BusInv, ScriptInv, StepTyped, ReadBack
  PROVE  BusInv' /\ ScriptInv'
<1>1. /\ part = "header" /\ at = "out" /\ ReadCall(Op.size) /\ part' = "read"
      /\ UNCHANGED << step, wanted, kept >>
  BY DEF ReadBack, Free
<1>2. Reads /\ header = Op.reg
  BY <1>1 DEF ScriptInv
<1>3. Op.size = Len(RegBytes[header])
  BY <1>2, OpTypes
<1>4. /\ I2cCall([dir |-> "read", size |-> Op.size])
      /\ call' = [dir |-> "read", size |-> Op.size] /\ at' = "SB" /\ UNCHANGED << header, regs >>
  BY <1>1 DEF ReadCall, I2cCall, chipVars
<1>5. BusInv'
  BY <1>3, <1>4, CallBus
<1>6. ScriptInv'
  BY <1>1, <1>2, <1>4 DEF ScriptInv, Reads, Writes, Doing, Op, CheckedIsKept
<1> QED
  BY <1>5, <1>6

\* When a read has returned, the program has the register that was asked for.
LEMMA BufferIsRegister ==
  ASSUME BusInv, ScriptInv, StepTyped, Free, part = "read"
  PROVE  /\ Op.reg \in DOMAIN RegBytes /\ buffer = regs[Op.reg]
         /\ buffer \in Seq(Byte) /\ Len(buffer) = Len(RegBytes[Op.reg])
<1>1. Reads /\ call.dir = "read" /\ header = Op.reg /\ at = "out"
  BY DEF ScriptInv, Free
<1>2. buffer = regs[header] /\ header \in DOMAIN RegBytes
  BY <1>1 DEF BusInv, OutPart, RegsPart
<1> QED
  BY <1>1, <1>2 DEF BusInv, RegsPart

LEMMA CompareKeeps ==
  ASSUME BusInv, ScriptInv, StepTyped, CheckRegister
  PROVE  /\ UNCHANGED i2cVars /\ wanted' = wanted
         /\ \/ UNCHANGED << step, part, kept >>
            \/ /\ part' = "begin"
               /\ \/ kept' = kept
                  \/ /\ DOMAIN kept' = DOMAIN kept \union {Op.reg} /\ Op.reg \in DOMAIN RegBytes
                     /\ \A r \in DOMAIN kept' :
                          kept'[r] = IF r = Op.reg THEN regs[r] ELSE kept[r]
<1>1. /\ UNCHANGED i2cVars /\ wanted' = wanted /\ Free /\ part = "read"
      /\ \E val : Compare(val)
  BY DEF CheckRegister
<1>2. PICK val : Compare(val)
  BY <1>1
<1>3. Op.reg \in DOMAIN RegBytes /\ buffer = regs[Op.reg]
  BY <1>1, BufferIsRegister
<1>4. CASE buffer = val /\ Doing("check")
  <2>1. /\ part' = "begin"
        /\ kept' = [r \in DOMAIN kept \union {Op.reg} |-> IF r = Op.reg THEN val ELSE kept[r]]
    BY <1>2, <1>4 DEF Compare, NextOp, Keep
  <2>2. /\ DOMAIN kept' = DOMAIN kept \union {Op.reg}
        /\ \A r \in DOMAIN kept' : kept'[r] = IF r = Op.reg THEN val ELSE kept[r]
    BY <2>1
  <2> QED
    BY <1>1, <1>3, <1>4, <2>1, <2>2
<1>5. CASE buffer = val /\ ~Doing("check")
  BY <1>1, <1>2, <1>5 DEF Compare, NextOp, Keep
<1>6. CASE buffer # val
  BY <1>1, <1>2, <1>6 DEF Compare
<1> QED
  BY <1>4, <1>5, <1>6

LEMMA CheckRegisterInv ==
  ASSUME BusInv, ScriptInv, StepTyped, CheckRegister
  PROVE  BusInv' /\ ScriptInv'
<1>1. UNCHANGED i2cVars /\ part = "read" /\ at = "out" /\ Free
  BY DEF CheckRegister, Free
<1>2. UNCHANGED << at, call, header, regs >>
  BY <1>1 DEF i2cVars, cpuVars, chipVars
<1>3. BusInv'
  BY <1>1, UnchangedBus
<1>4. CASE UNCHANGED << step, part, wanted, kept >>
  BY <1>2, <1>3, <1>4 DEF ScriptInv, Reads, Writes, Doing, Op, CheckedIsKept
<1>5. CASE /\ part' = "begin"
           /\ \/ kept' = kept
              \/ /\ DOMAIN kept' = DOMAIN kept \union {Op.reg} /\ Op.reg \in DOMAIN RegBytes
                 /\ \A r \in DOMAIN kept' : kept'[r] = IF r = Op.reg THEN regs[r] ELSE kept[r]
  <2>1. CheckedIsKept' /\ DOMAIN kept' \subseteq DOMAIN RegBytes
    BY <1>2, <1>5 DEF ScriptInv, CheckedIsKept
  <2> QED
    BY <1>1, <1>2, <1>3, <1>5, <2>1 DEF ScriptInv
<1> QED
  BY <1>4, <1>5, CompareKeeps

\* A write begins: its register is no longer among those checked.
LEMMA WriteInv ==
  ASSUME BusInv, ScriptInv, StepTyped, Writes,
         Op.reg \in DOMAIN RegBytes,
         wanted' \in Seq(Byte), Len(wanted') = Len(RegBytes[Op.reg]),
         WriteCall(Op.reg \o wanted'), at = "out",
         kept' = [r \in DOMAIN kept \ {Op.reg} |-> kept[r]],
         part' = "write", step' = step
  PROVE  BusInv' /\ ScriptInv'
<1> DEFINE b == Op.reg \o wanted'
<1>1. GoodWrite(b)
  BY HeaderAndBytes
<1>2. /\ I2cCall([dir |-> "write", bytes |-> b])
      /\ call' = [dir |-> "write", bytes |-> b] /\ at' = "SB" /\ UNCHANGED << header, regs >>
  BY DEF WriteCall, I2cCall, chipVars
<1>3. BusInv'
  <2> HIDE DEF b
  <2> QED
    BY <1>1, <1>2, CallBus
<1>4. DOMAIN kept' \subseteq DOMAIN RegBytes /\ CheckedIsKept' /\ Op.reg \notin DOMAIN kept'
  BY <1>2 DEF ScriptInv, CheckedIsKept
<1>5. Op' = Op /\ Writes'
  BY DEF Op, Writes, Doing
<1> QED
  BY <1>2, <1>3, <1>4, <1>5 DEF ScriptInv

LEMMA ModifyRegisterInv ==
  ASSUME BusInv, ScriptInv, StepTyped, ModifyRegister
  PROVE  BusInv' /\ ScriptInv'
<1>1. /\ Free /\ at = "out" /\ part = "read" /\ Doing("modify") /\ Writes
      /\ wanted' = [buffer EXCEPT ![1] = (@ \ Op.clear) \union Op.set]
      /\ WriteCall(Op.reg \o wanted')
      /\ kept' = [r \in DOMAIN kept \ {Op.reg} |-> kept[r]]
      /\ part' = "write" /\ step' = step
  BY DEF ModifyRegister, Free, Writes
<1>2. /\ Op.reg \in DOMAIN RegBytes
      /\ buffer \in Seq(Byte) /\ Len(buffer) = Len(RegBytes[Op.reg])
  BY <1>1, BufferIsRegister
<1>3. Op.set \in Byte
  BY <1>1, OpTypes
<1>4. Len(buffer) # 0 /\ buffer[1] \in Byte
  BY <1>2, RegisterAssumption
<1>5. (buffer[1] \ Op.clear) \union Op.set \in Byte
  BY <1>3, <1>4 DEF Byte
<1>6. wanted' \in Seq(Byte) /\ Len(wanted') = Len(buffer)
  <2> DEFINE v == (buffer[1] \ Op.clear) \union Op.set
  <2>1. wanted' = [buffer EXCEPT ![1] = v] /\ v \in Byte
    BY <1>1, <1>5
  <2> HIDE DEF v, Byte
  <2>2. wanted' \in [1 .. Len(buffer) -> Byte]
    <3>1. buffer \in [1 .. Len(buffer) -> Byte]
      BY <1>2
    <3> QED
      BY <2>1, <3>1
  <2>3. Len(buffer) \in Nat
    BY <1>2
  <2> QED
    BY <2>2, <2>3
<1> QED
  BY <1>1, <1>2, <1>6, WriteInv

LEMMA WriteRegisterInv ==
  ASSUME BusInv, ScriptInv, StepTyped, WriteRegister
  PROVE  BusInv' /\ ScriptInv'
<1>1. /\ at = "out" /\ Doing("write") /\ Writes
      /\ wanted' = Op.val
      /\ WriteCall(Op.reg \o wanted')
      /\ kept' = [r \in DOMAIN kept \ {Op.reg} |-> kept[r]]
      /\ part' = "write" /\ step' = step
  BY DEF WriteRegister, Free, Writes
<1>2. /\ Op.reg \in DOMAIN RegBytes
      /\ Op.val \in Seq(Byte) /\ Len(Op.val) = Len(RegBytes[Op.reg])
  BY <1>1, OpTypes
<1> QED
  BY <1>1, <1>2, WriteInv

LEMMA OtherOperationInv ==
  ASSUME BusInv, ScriptInv, Wait \/ Returned \/ MainLoop
  PROVE  BusInv' /\ ScriptInv'
<1>1. /\ UNCHANGED i2cVars /\ at = "out" /\ UNCHANGED << wanted, kept >>
      /\ \/ part' \in {"begin", "delay"}
         \/ UNCHANGED << step, part >>
  BY DEF Wait, Returned, MainLoop, NextOp, Free, fwVars
<1>2. UNCHANGED << at, call, header, regs >>
  BY <1>1 DEF i2cVars, cpuVars, chipVars
<1>3. BusInv'
  BY <1>1, UnchangedBus
<1>4. ScriptInv'
  BY <1>1, <1>2 DEF ScriptInv, Reads, Writes, Doing, Op, CheckedIsKept
<1> QED
  BY <1>3, <1>4

\* A function of i2c.c goes on: its call stays, and a write that is over has
\* told the chip its register.
LEMMA I2cStepScript ==
  ASSUME BusInv, ScriptInv, StepTyped, I2cStep, UNCHANGED fwVars
  PROVE  ScriptInv'
<1>1. at # "out" /\ UNCHANGED << step, part, wanted, kept >>
  BY DEF I2cStep, StartSeen, AddrSeen, ByteGone, Stopped, ByteCame, fwVars
<1>2. UNCHANGED << call, header, regs >>
  BY <1>1, CpuKeeps
<1>3. part = "header" /\ at' = "out" => header' = Op.reg
  <2> SUFFICES ASSUME part = "header", at' = "out" PROVE header' = Op.reg
    OBVIOUS
  <2>1. Reads /\ call.dir = "write" /\ call.bytes = Op.reg
    BY DEF ScriptInv
  <2>2. Stopped
    BY <2>1 DEF I2cStep, StartSeen, AddrSeen, ByteGone, ByteCame, SendOrStop, BusInv, RxnePart
  <2>3. header = HeaderOf(Op.reg)
    BY <2>1, <2>2, StoppedBus
  <2>4. << >> \in Seq(Byte) /\ Len(<< >>) = 0
    OBVIOUS
  <2>5. HeaderOf(Op.reg) = Op.reg
    BY <2>1, <2>4, OpTypes, HeaderAndBytes
  <2> QED
    BY <1>2, <2>3, <2>5
<1> QED
  BY <1>1, <1>2, <1>3 DEF ScriptInv, Reads, Writes, Doing, Op, CheckedIsKept

\* What the bus completes leaves the program where it is.
LEMMA BusKeeps ==
  ASSUME BusStep
  PROVE  UNCHANGED << at, call, i, buffer >>
BY DEF BusStep, StartSent, AddressSent, ByteSent, ByteReceived, StopSent, cpuVars

\* What it completes spoils no register that has been checked.
LEMMA BusStepScript ==
  ASSUME BusInv, ScriptInv, StepTyped, BusStep, UNCHANGED fwVars
  PROVE  ScriptInv'
<1>1. UNCHANGED << step, part, wanted, kept >> /\ UNCHANGED << at, call >>
  BY BusKeeps DEF fwVars
<1>2. CASE UNCHANGED << header, regs >>
  BY <1>1, <1>2 DEF ScriptInv, Reads, Writes, Doing, Op, CheckedIsKept
<1>3. CASE /\ at = "MSL" /\ call.dir = "write" /\ GoodWrite(call.bytes)
           /\ header' = HeaderOf(call.bytes) /\ Kept(call.bytes)
  <2>1. part \in {"header", "write"}
    BY <1>3 DEF ScriptInv
  <2>2. CheckedIsKept'
    <3>1. CASE part = "header"
      <4>1. call.bytes = Op.reg /\ Reads
        BY <3>1 DEF ScriptInv
      <4>2. Len(Op.reg) = 2
        BY <4>1, OpTypes, RegisterAssumption
      <4>3. regs' = regs
        BY <1>3, <4>1, <4>2 DEF Kept
      <4> QED
        BY <1>1, <4>3 DEF ScriptInv, CheckedIsKept
    <3>2. CASE part = "write"
      <4>1. /\ call.bytes = Op.reg \o wanted /\ Writes /\ wanted \in Seq(Byte)
            /\ Len(wanted) = Len(RegBytes[Op.reg]) /\ Op.reg \notin DOMAIN kept
        BY <3>2 DEF ScriptInv
      <4>2. HeaderOf(call.bytes) = Op.reg
        BY <4>1, OpTypes, HeaderAndBytes
      <4>3. \A r \in DOMAIN kept : regs'[r] = regs[r]
        BY <1>3, <4>1, <4>2 DEF Kept, ScriptInv, BusInv, RegsPart
      <4> QED
        BY <1>1, <4>3 DEF ScriptInv, CheckedIsKept
    <3> QED
      BY <2>1, <3>1, <3>2
  <2> QED
    BY <1>1, <1>3, <2>1, <2>2 DEF ScriptInv, Reads, Writes, Doing, Op
<1> QED
  BY <1>2, <1>3, StopKeeps, StartSentBus, AddressSentBus, ByteSentBus, ByteReceivedBus DEF BusStep

FirmwareInv == BusInv /\ ScriptInv

LEMMA InitFirmware == Init => FirmwareInv
<1> SUFFICES ASSUME Init PROVE FirmwareInv
  OBVIOUS
<1>1. /\ at = "out" /\ call = [dir |-> "write", bytes |-> << >>]
      /\ cr1 = {} /\ sr1 = {} /\ wire = "none" /\ chip = "idle"
      /\ header \in DOMAIN RegBytes /\ regs = RegBytes
      /\ part = "begin" /\ kept = << >>
  BY DEF Init, I2cInit
<1>2. RegsPart
  BY <1>1, RegisterAssumption DEF RegsPart
<1>3. CallPart /\ OutPart
  BY <1>1 DEF CallPart, OutPart
<1>4. SbPart /\ AddrPart /\ BtfPart /\ MslPart /\ RxnePart
  BY <1>1 DEF SbPart, AddrPart, BtfPart, MslPart, RxnePart
<1>5. DOMAIN kept = {}
  BY <1>1
<1>6. ScriptInv
  BY <1>1, <1>5 DEF ScriptInv, CheckedIsKept
<1> QED
  BY <1>1, <1>2, <1>3, <1>4, <1>6 DEF FirmwareInv, BusInv

LEMMA NextFirmware == FirmwareInv /\ StepTyped /\ [Next]_vars => FirmwareInv'
<1> SUFFICES ASSUME BusInv, ScriptInv, StepTyped, [Next]_vars
             PROVE  BusInv' /\ ScriptInv'
  BY DEF FirmwareInv
<1>1. CASE Operation
  BY <1>1, SendHeaderInv, ReadBackInv, CheckRegisterInv, ModifyRegisterInv, WriteRegisterInv,
     OtherOperationInv DEF Operation
<1>2. CASE UNCHANGED << i2cVars, fwVars >>
  BY <1>2, UnchangedBus, UnchangedScript
<1>3. CASE I2cStep /\ UNCHANGED fwVars
  BY <1>3, I2cStepBus, I2cStepScript
<1>4. CASE BusStep /\ UNCHANGED fwVars
  BY <1>4, BusStepBus, BusStepScript
<1> QED
  BY <1>1, <1>2, <1>3, <1>4 DEF Next, Program, Bus, Interrupt, vars

LEMMA FirmwareInvariance == Spec => []FirmwareInv
BY InitDelayInv, NextStepTyped, InitFirmware, NextFirmware, PTL DEF Spec

\* Every i2c_read of i2c.c returns the bytes of the register the chip was told
\* before, all and in order, with the chip off the bus and no byte left in the
\* data register: for a chip with any registers of any sizes, whatever writes
\* it ignores, and wherever a byte that it refuses leaves the program waiting.
THEOREM ReadCorrect == Spec => []ReadReturns
<1>1. FirmwareInv => ReadReturns
  <2> SUFFICES ASSUME BusInv, at = "out", call.dir = "read"
               PROVE  /\ buffer = SubSeq(regs[header], 1, Size)
                      /\ sent = Size /\ chip = "idle" /\ wire = "none"
                      /\ "RXNE" \notin sr1
    BY DEF FirmwareInv, ReadReturns
  <2>1. buffer = regs[header] /\ sent = call.size /\ sr1 = {} /\ chip = "idle" /\ wire = "none"
    BY DEF BusInv, OutPart
  <2>2. Size = call.size /\ regs[header] \in Seq(Byte) /\ Len(regs[header]) = call.size
    BY DEF BusInv, RegsPart, CallPart, Size
  <2> QED
    BY <2>1, <2>2, Prefixes
<1> QED
  BY <1>1, FirmwareInvariance, PTL

\* A register that nm120_init has written and read back has that value in the
\* chip for good: no later operation of the script, whole or cut short by a
\* refused byte or an ignored write, changes it but a new write of the same.
THEOREM CheckedCorrect == Spec => []CheckedIsKept
<1>1. FirmwareInv => CheckedIsKept
  BY DEF FirmwareInv, ScriptInv
<1> QED
  BY <1>1, FirmwareInvariance, PTL

=============================================================================
