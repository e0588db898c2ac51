--------------------------- MODULE CaptureParams ---------------------------
(***************************************************************************)
(* The widths and the start-up delay shared by the capture blocks of the   *)
(* gateware (adc.py, adc_dummy.py, inject_data.py and the dual-port RAM).  *)
(* The code has LowMod = 2^8 (a byte of the USB stream), Depth = 2^9 (the  *)
(* 9-bit addresses and limits), WaitCycles = 30000000 and WaitMod = 2^26.  *)
(***************************************************************************)
EXTENDS Integers

CONSTANTS
  Depth,       \* words of the capture RAM; addresses and limits are 0..Depth-1
  LowMod,      \* values of one byte of the USB stream
  WaitCycles,  \* cycles a state machine waits after reset
  WaitMod,     \* values of the wait_counter register
  Simulation   \* the "simulation" argument of the benches: skip the wait

ASSUME DepthAssumption ==
  /\ LowMod \in Nat \ {0}
  /\ Depth = 2 * LowMod

\* The wait counter must be able to hold the value it is compared with.
ASSUME WaitAssumption ==
  /\ WaitMod \in Nat \ {0}
  /\ WaitCycles \in 0 .. WaitMod - 1
  /\ Simulation \in BOOLEAN

Address == 0 .. Depth - 1

\* wait_counter.eq(wait_counter + 1), which the simulation flag overrides and
\* which the transition to IDLE clears.
NextWait(w) ==
  IF w = WaitCycles THEN 0
  ELSE IF Simulation THEN WaitCycles
  ELSE (w + 1) % WaitMod

=============================================================================
