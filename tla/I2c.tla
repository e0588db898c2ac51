-------------------------------- MODULE I2c ---------------------------------
(***************************************************************************)
(* i2c.c: the I2C1 peripheral driven by waiting for its flags, with no     *)
(* timeout, and the chip at the other end of the bus.                      *)
(*                                                                         *)
(* `at` is the loop the program waits in, and an action of the program is  *)
(* what it does from one loop to the next.  A byte on the bus takes over   *)
(* 2000 cycles, what the program does between two loops less than 100:     *)
(* nothing is completed on the bus in between.  The peripheral and the chip*)
(* are external, as the reference manual has them.                         *)
(***************************************************************************)
EXTENDS Naturals, Sequences

CONSTANTS
  RegBytes,   \* the chip's registers when it starts: header -> bytes
  MaxNacks,   \* bound of the model: bytes the chip does not acknowledge
  MaxDropped  \* bound of the model: writes the chip ignores

Byte == SUBSET (0 .. 7)

\* A register is told by two bytes and has some (nm120_i2c_read_u8, _u32).
ASSUME RegisterAssumption ==
  \A r \in DOMAIN RegBytes :
    /\ r \in Seq(Byte) /\ Len(r) = 2
    /\ RegBytes[r] \in Seq(Byte) /\ RegBytes[r] # << >>

VARIABLES
  at,      \* out, or the flag waited for: SB, ADDR, BTF, MSL, RXNE
  call,    \* the function called: direction, bytes to write or size to read
  i,       \* its loop counter
  buffer,  \* the bytes read
  cr1, sr1,\* the bits set in the registers CR1 and SR1
  msl,     \* SR2.MSL: the peripheral is the master of the bus
  dr,      \* the data register; a byte is the set of its bits
  wire,    \* what is on the bus: none, address, tx, rx
  chip,    \* what the chip takes part in: idle, write, read
  rx,      \* the bytes the chip has got in a write
  header,  \* the register the chip was last told
  sent,    \* bytes it has sent in this read
  regs,    \* its registers
  nacks, dropped  \* counts of what is bounded

cpuVars == << at, call, i, buffer >>
chipVars == << chip, rx, header, sent, regs, nacks, dropped >>
i2cVars == << cpuVars, cr1, sr1, msl, dr, wire, chipVars >>

Size == IF call.dir = "write" THEN Len(call.bytes) ELSE call.size

I2cInit ==
  /\ at = "out"
  /\ call = [dir |-> "write", bytes |-> << >>]
  /\ i = 0
  /\ buffer = << >>
  /\ cr1 = {} /\ sr1 = {}
  /\ msl = FALSE
  /\ dr = {} /\ wire = "none"
  /\ chip = "idle"
  /\ rx = << >>
  /\ header \in DOMAIN RegBytes
  /\ sent = 0
  /\ regs = RegBytes
  /\ nacks = 0 /\ dropped = 0

-----------------------------------------------------------------------------
\* nm120.c: ADDR, 0xCE, and 1 for a read.
Address(dir) == {1, 2, 3, 6, 7} \union (IF dir = "read" THEN {0} ELSE {})

\* i2c_start, to the first loop.  A stop still to come is taken back.
I2cCall(c) ==
  /\ at = "out"
  /\ call' = c
  /\ i' = 0
  /\ buffer' = << >>
  /\ cr1' = (cr1 \ {"STOP"}) \union {"START"} \union (IF c.dir = "read" THEN {"ACK"} ELSE {})
  /\ at' = "SB"
  /\ UNCHANGED << sr1, msl, dr, wire, chipVars >>

StartSeen ==
  /\ at = "SB" /\ "SB" \in sr1
  /\ dr' = Address(call.dir)
  /\ sr1' = sr1 \ {"SB"}
  /\ wire' = "address"
  /\ at' = "ADDR"
  /\ UNCHANGED << call, i, buffer, cr1, msl, chipVars >>

\* Faulty variant: the stop is forgotten.
SendOnly(n) ==
  IF n < Size
    THEN /\ dr' = call.bytes[n + 1]
         /\ wire' = "tx"
         /\ at' = "BTF"
         /\ UNCHANGED cr1
    ELSE /\ at' = "MSL"
         /\ UNCHANGED << cr1, dr, wire >>

SendOrStop(n) ==
  IF n < Size
    THEN /\ dr' = call.bytes[n + 1]
         /\ wire' = "tx"
         /\ at' = "BTF"
         /\ UNCHANGED cr1
    ELSE /\ cr1' = cr1 \union {"STOP"}
         /\ at' = "MSL"
         /\ UNCHANGED << dr, wire >>

\* The last byte read is the one the peripheral is to refuse.
AskForLast == cr1' = (cr1 \ {"ACK"}) \union {"STOP"}

AddrSeen ==
  /\ at = "ADDR" /\ "ADDR" \in sr1 /\ msl
  /\ sr1' = sr1 \ {"ADDR"}
  /\ IF call.dir = "write" THEN SendOrStop(0)
     ELSE /\ IF Size = 1 THEN AskForLast ELSE UNCHANGED cr1
          /\ wire' = "rx"
          /\ at' = IF Size = 0 THEN "out" ELSE "RXNE"
          /\ UNCHANGED dr
  /\ UNCHANGED << call, i, buffer, msl, chipVars >>

\* BTF, and TXE with it.
ByteGone ==
  /\ at = "BTF" /\ "BTF" \in sr1
  /\ sr1' = sr1 \ {"BTF"}
  /\ i' = i + 1
  /\ SendOrStop(i + 1)
  /\ UNCHANGED << call, buffer, msl, chipVars >>

Stopped ==
  /\ at = "MSL" /\ ~msl
  /\ at' = "out"
  /\ UNCHANGED << call, i, buffer, cr1, sr1, msl, dr, wire, chipVars >>

\* Faulty variant: the end is asked for one byte late.
ByteCameLate ==
  /\ at = "RXNE" /\ "RXNE" \in sr1
  /\ sr1' = sr1 \ {"RXNE"}
  /\ buffer' = Append(buffer, dr)
  /\ i' = i + 1
  /\ IF Size - i = 1 THEN AskForLast ELSE UNCHANGED cr1
  /\ at' = IF i + 1 = Size THEN "out" ELSE "RXNE"
  /\ UNCHANGED << call, msl, dr, wire, chipVars >>

\* With one byte to come after this one, the end is asked for.
ByteCame ==
  /\ at = "RXNE" /\ "RXNE" \in sr1
  /\ sr1' = sr1 \ {"RXNE"}
  /\ buffer' = Append(buffer, dr)
  /\ i' = i + 1
  /\ IF Size - i = 2 THEN AskForLast ELSE UNCHANGED cr1
  /\ at' = IF i + 1 = Size THEN "out" ELSE "RXNE"
  /\ UNCHANGED << call, msl, dr, wire, chipVars >>

I2cStep == StartSeen \/ AddrSeen \/ ByteGone \/ Stopped \/ ByteCame

-----------------------------------------------------------------------------
\* The peripheral and the chip.
StartSent ==
  /\ "START" \in cr1 /\ wire = "none"
  /\ cr1' = cr1 \ {"START"}
  /\ sr1' = sr1 \union {"SB"}
  /\ msl' = TRUE
  /\ chip' = "idle"
  /\ UNCHANGED << cpuVars, dr, wire, rx, header, sent, regs, nacks, dropped >>

\* The chip takes a byte, or refuses it: then nothing sets the flag.
Refuse(flag) ==
  \/ sr1' = sr1 \union {flag} /\ UNCHANGED nacks
  \/ nacks < MaxNacks /\ nacks' = nacks + 1 /\ sr1' = sr1 \union {"AF"}

AddressSent ==
  /\ wire = "address"
  /\ wire' = "none"
  /\ Refuse("ADDR")
  /\ chip' = IF "AF" \in sr1' THEN "idle" ELSE IF 0 \in dr THEN "read" ELSE "write"
  /\ rx' = << >>
  /\ sent' = 0
  /\ UNCHANGED << cpuVars, cr1, msl, dr, header, regs, dropped >>

ByteSent ==
  /\ wire = "tx"
  /\ wire' = "none"
  /\ Refuse("BTF")
  /\ rx' = IF "AF" \in sr1' THEN rx ELSE Append(rx, dr)
  /\ UNCHANGED << cpuVars, cr1, msl, dr, chip, header, sent, regs, dropped >>

\* The clock is held while the byte before has not been read.
ByteReceived ==
  /\ wire = "rx" /\ "RXNE" \notin sr1
  /\ dr' = IF sent < Len(regs[header]) THEN regs[header][sent + 1] ELSE {}
  /\ sr1' = sr1 \union {"RXNE"}
  /\ sent' = sent + 1
  /\ IF "ACK" \in cr1 THEN UNCHANGED << wire, chip >> ELSE wire' = "none" /\ chip' = "idle"
  /\ UNCHANGED << cpuVars, cr1, msl, rx, header, regs, nacks, dropped >>

\* With the stop the chip keeps what was written, or ignores it.
StopSent ==
  /\ "STOP" \in cr1 /\ wire = "none" /\ msl
  /\ cr1' = cr1 \ {"STOP"}
  /\ msl' = FALSE
  /\ chip' = "idle"
  /\ IF chip = "write" /\ Len(rx) > 1
       THEN /\ header' = SubSeq(rx, 1, 2)
            /\ \/ /\ regs' = IF Len(rx) = 2 THEN regs
                             ELSE [regs EXCEPT ![SubSeq(rx, 1, 2)] = SubSeq(rx, 3, Len(rx))]
                  /\ UNCHANGED dropped
               \/ /\ Len(rx) > 2 /\ dropped < MaxDropped
                  /\ dropped' = dropped + 1 /\ UNCHANGED regs
       ELSE UNCHANGED << header, regs, dropped >>
  /\ UNCHANGED << cpuVars, sr1, dr, wire, rx, sent, nacks >>

BusStep == StartSent \/ AddressSent \/ ByteSent \/ ByteReceived \/ StopSent

-----------------------------------------------------------------------------
(***************************************************************************)
(* When i2c_read returns, the buffer has the bytes of the register the chip*)
(* was told before, in order; the chip has sent as many as were asked for  *)
(* and has been refused the next, so that it lets go of the bus; and no    *)
(* byte is left in the data register for the next read to take.            *)
(***************************************************************************)
ReadReturns ==
  at = "out" /\ call.dir = "read" =>
    /\ buffer = SubSeq(regs[header], 1, Size)
    /\ sent = Size /\ chip = "idle" /\ wire = "none"
    /\ "RXNE" \notin sr1

=============================================================================
