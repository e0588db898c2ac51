------------------------------ MODULE Firmware ------------------------------
(***************************************************************************)
(* The firmware: nm120_init of nm120.c, which sets up the chip register by *)
(* register over I2C and reads back what it has written, and the loop of   *)
(* main.c, with the SysTick interrupt under both.  The list of registers is*)
(* a constant; a byte is the set of its bits.                              *)
(***************************************************************************)
EXTENDS Delay, I2c

CONSTANTS
  Script,    \* what nm120_init does, in order
  MainWaits  \* the delays the main loop may ask for

\* No delay the firmware asks for wraps, and all are whole ticks.
Delays == {value \in 0 .. WordMod - 1 : value % Step = 0}

ASSUME FirmwareAssumption ==
  /\ MainWaits \subseteq Delays
  /\ \A n \in 1 .. Len(Script) : Script[n].op = "delay" => DelayMs(Script[n].ms) \in Delays

\* Every operation is on a register of the chip, as a whole: _u8 or _u32 is
\* used of each, not now the one and now the other.
ASSUME ScriptAssumption ==
  \A n \in 1 .. Len(Script) :
    LET o == Script[n]
    IN /\ o.op \in {"expect", "check", "modify"} =>
            o.reg \in DOMAIN RegBytes /\ o.size = Len(RegBytes[o.reg])
       /\ o.op = "write" =>
            /\ o.reg \in DOMAIN RegBytes
            /\ o.val \in Seq(Byte) /\ Len(o.val) = Len(RegBytes[o.reg])
       /\ o.op = "modify" => o.set \in Byte

VARIABLES
  step,   \* the operation of Script that runs, past the end in the main loop
  part,   \* begin, header, read, write, delay
  wanted, \* the value last written, that a check compares with
  kept,   \* history: the values written and then checked
  failed  \* a check has failed: the green LED, and a loop without end

fwVars == << step, part, wanted, kept, failed >>
vars == << delayVars, i2cVars, fwVars >>

Init ==
  /\ DelayInit
  /\ I2cInit
  /\ step = 1
  /\ part = "begin"
  /\ wanted = << >>
  /\ kept = << >>
  /\ failed = FALSE

-----------------------------------------------------------------------------
Free == at = "out" /\ ~waiting /\ ~failed
Doing(op) == step <= Len(Script) /\ Script[step].op = op
Op == Script[step]

NextOp == step' = step + 1 /\ part' = "begin"
WriteCall(bytes) == I2cCall([dir |-> "write", bytes |-> bytes])
ReadCall(size) == I2cCall([dir |-> "read", size |-> size])

\* nm120_i2c_read_u8 and _u32: the header is written, then the bytes read.
SendHeader ==
  /\ Free /\ part = "begin"
  /\ Doing("expect") \/ Doing("check") \/ Doing("modify")
  /\ WriteCall(Op.reg)
  /\ part' = "header"
  /\ UNCHANGED << step, wanted, kept, failed, delayVars >>

ReadBack ==
  /\ Free /\ part = "header"
  /\ ReadCall(Op.size)
  /\ part' = "read"
  /\ UNCHANGED << step, wanted, kept, failed, delayVars >>

\* What has been read back is in the history from then on.
Keep(val) ==
  kept' = IF ~Doing("check") THEN kept
          ELSE [r \in DOMAIN kept \union {Op.reg} |-> IF r = Op.reg THEN val ELSE kept[r]]

\* Faulty variant: what is read back is not looked at.
CompareNever(val) == NextOp /\ UNCHANGED failed /\ Keep(val)

\* check_reg_u8, check_reg_u32, and the comparison of the chip's id.
Compare(val) ==
  IF buffer = val
    THEN NextOp /\ UNCHANGED failed /\ Keep(val)
    ELSE failed' = TRUE /\ UNCHANGED << step, part, kept >>

CheckRegister ==
  /\ Free /\ part = "read"
  /\ \/ Doing("expect") /\ Compare(Op.val)
     \/ Doing("check") /\ Compare(wanted)
  /\ UNCHANGED << wanted, delayVars, i2cVars >>

\* A register read and written back with bits of its lowest byte changed.
ModifyRegister ==
  /\ Free /\ part = "read" /\ Doing("modify")
  /\ wanted' = [buffer EXCEPT ![1] = (@ \ Op.clear) \union Op.set]
  /\ WriteCall(Op.reg \o wanted')
  /\ kept' = [r \in DOMAIN kept \ {Op.reg} |-> kept[r]]
  /\ part' = "write"
  /\ UNCHANGED << step, failed, delayVars >>

\* nm120_i2c_write_u8 and _u32.
WriteRegister ==
  /\ Free /\ part = "begin" /\ Doing("write")
  /\ wanted' = Op.val
  /\ WriteCall(Op.reg \o Op.val)
  /\ kept' = [r \in DOMAIN kept \ {Op.reg} |-> kept[r]]
  /\ part' = "write"
  /\ UNCHANGED << step, failed, delayVars >>

Wait ==
  /\ Free /\ part = "begin" /\ Doing("delay")
  /\ DelayCall(DelayMs(Op.ms))
  /\ part' = "delay"
  /\ UNCHANGED << step, wanted, kept, failed, i2cVars >>

Returned ==
  /\ Free /\ part \in {"write", "delay"}
  /\ NextOp
  /\ UNCHANGED << wanted, kept, failed, delayVars, i2cVars >>

\* The loop of main; what it does to the blue LED has no other effect.
MainLoop ==
  /\ Free /\ step > Len(Script)
  /\ \E value \in MainWaits : DelayCall(value)
  /\ UNCHANGED << fwVars, i2cVars >>

Operation ==
  \/ SendHeader \/ ReadBack \/ CheckRegister \/ ModifyRegister \/ WriteRegister
  \/ Wait \/ Returned \/ MainLoop

Program ==
  \/ Operation
  \/ DelayStep /\ UNCHANGED << i2cVars, fwVars >>
  \/ I2cStep /\ UNCHANGED << delayVars, fwVars >>
Bus == BusStep /\ UNCHANGED << delayVars, fwVars >>
Interrupt == SysTick /\ UNCHANGED << i2cVars, fwVars >>

Next == Program \/ Bus \/ Interrupt

Spec == Init /\ [][Next]_vars

\* The processor runs, the timer ticks and the bus goes on.
FairSpec == Spec /\ WF_vars(Program) /\ WF_vars(Bus) /\ WF_vars(Interrupt)

-----------------------------------------------------------------------------
(***************************************************************************)
(* What has been written and read back is in the chip, and stays, although *)
(* the chip may ignore any write: no later operation spoils a register.    *)
(***************************************************************************)
CheckedIsKept == \A r \in DOMAIN kept : regs[r] = kept[r]

(***************************************************************************)
(* nm120_init comes to its end or to a failed check, unless the chip does  *)
(* not acknowledge a byte: then a loop of i2c.c waits for its flag for ever*)
(***************************************************************************)
SetUpEnds == <>(step > Len(Script) \/ failed \/ "AF" \in sr1)

=============================================================================
