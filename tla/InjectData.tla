---------------------------- MODULE InjectData -----------------------------
(***************************************************************************)
(* The command and answer state machine of gateware/inject_data.py, in the *)
(* "usb" clock domain.  InjEdge is one rising edge; its parameters are the *)
(* pins: the ADC's done, the head of the stream from endpoint 3 (valid,    *)
(* last, payload) and whether endpoint 2 is ready for a byte.              *)
(*                                                                         *)
(* The stream outputs are functions of the state: in SEND_DATA_TO_USB with *)
(* ready, valid is 1, and the payload is the high half of the RAM's output *)
(* register when counter is even and its low half when counter is odd.     *)
(* payload (a Signal(32)) and debug_byte are never read and are left out.  *)
(***************************************************************************)
EXTENDS CaptureParams

VARIABLES
  injState,        \* the m.FSM state
  injWait,         \* wait_counter
  adc_done_in_1,   \* synchroniser of the ADC's done
  adc_done_in,
  adc_limit,       \* words asked for; drives the ADC's limit pin
  adc_trig,        \* drives the ADC's trig pin
  adc_mem_addr,    \* drives the read address of the RAM
  counter          \* bytes of the answer sent so far

injVars == << injState, injWait, adc_done_in_1, adc_done_in, adc_limit,
              adc_trig, adc_mem_addr, counter >>

InjStates == {"RESET", "WAIT_BEFORE_START", "IDLE", "RECEIVE_DATA_FROM_USB",
              "WAIT_FOR_ADC", "SEND_DATA_TO_USB"}

InjInit ==
  /\ injState = "RESET"
  /\ injWait = 0
  /\ adc_done_in_1 = FALSE /\ adc_done_in = FALSE
  /\ adc_limit = 0
  /\ adc_trig = FALSE
  /\ adc_mem_addr = 0
  /\ counter = 0

InjSynchronise(donePin) ==
  /\ adc_done_in_1' = donePin
  /\ adc_done_in' = adc_done_in_1

InjReset ==
  /\ injState = "RESET"
  /\ injState' = "WAIT_BEFORE_START"
  /\ counter' = 0
  /\ injWait' = 0
  /\ UNCHANGED << adc_limit, adc_trig, adc_mem_addr >>

InjWaitBeforeStart ==
  /\ injState = "WAIT_BEFORE_START"
  /\ injWait' = NextWait(injWait)
  /\ injState' = IF injWait = WaitCycles THEN "IDLE" ELSE injState
  /\ UNCHANGED << adc_limit, adc_trig, adc_mem_addr, counter >>

InjIdle(valid) ==
  /\ injState = "IDLE"
  /\ injState' = IF valid THEN "RECEIVE_DATA_FROM_USB" ELSE injState
  /\ UNCHANGED << injWait, adc_limit, adc_trig, adc_mem_addr, counter >>

\* usb_stream_in.ready: a byte is taken at this edge.
InjTakesByte(valid) == injState = "RECEIVE_DATA_FROM_USB" /\ valid

\* Faulty variant: the second byte of the count is ignored.
SetTopBitNever(l, payload) == l

\* adc_limit | ((payload & 1) << 8)
SetTopBit(l, payload) ==
  IF l >= LowMod THEN l ELSE l + (payload % 2) * LowMod

\* Every byte but the last overwrites the limit; the last one gives its top
\* bit and raises the trigger.
InjReceive(valid, last, payload) ==
  /\ injState = "RECEIVE_DATA_FROM_USB"
  /\ IF ~valid THEN UNCHANGED << injState, adc_limit, adc_trig >>
     ELSE IF ~last
       THEN /\ adc_limit' = payload
            /\ UNCHANGED << injState, adc_trig >>
       ELSE /\ adc_limit' = SetTopBit(adc_limit, payload)
            /\ injState' = "WAIT_FOR_ADC"
            /\ adc_trig' = TRUE
  /\ UNCHANGED << injWait, adc_mem_addr, counter >>

\* Faulty variant: the trigger is not lowered.
InjWaitForAdcKeepsTrig ==
  /\ injState = "WAIT_FOR_ADC"
  /\ injState' = IF adc_limit = 0 THEN "IDLE"
                 ELSE IF adc_done_in THEN "SEND_DATA_TO_USB"
                 ELSE injState
  /\ UNCHANGED << injWait, adc_trig, adc_limit, adc_mem_addr, counter >>

\* Faulty variant: an empty command waits for the ADC too.
InjWaitForAdcNoEmpty ==
  /\ injState = "WAIT_FOR_ADC"
  /\ adc_trig' = FALSE
  /\ injState' = IF adc_done_in THEN "SEND_DATA_TO_USB" ELSE injState
  /\ UNCHANGED << injWait, adc_limit, adc_mem_addr, counter >>

\* Faulty variant: the answer does not wait for done.
InjWaitForAdcNoDone ==
  /\ injState = "WAIT_FOR_ADC"
  /\ adc_trig' = FALSE
  /\ injState' = IF adc_limit = 0 THEN "IDLE" ELSE "SEND_DATA_TO_USB"
  /\ UNCHANGED << injWait, adc_limit, adc_mem_addr, counter >>

InjWaitForAdc ==
  /\ injState = "WAIT_FOR_ADC"
  /\ adc_trig' = FALSE
  /\ injState' = IF adc_limit = 0 THEN "IDLE"
                 ELSE IF adc_done_in THEN "SEND_DATA_TO_USB"
                 ELSE injState
  /\ UNCHANGED << injWait, adc_limit, adc_mem_addr, counter >>

\* Faulty variant: one byte too many.
InjLastByteLate == counter # 0 /\ counter = 2 * adc_limit

\* The byte that carries usb_stream_out.last.
InjLastByte == counter # 0 /\ counter = 2 * adc_limit - 1

\* Faulty variant: the read address is not cleared after the last byte.
InjSendKeepsAddress(ready) ==
  /\ injState = "SEND_DATA_TO_USB"
  /\ IF ~ready THEN UNCHANGED << injState, counter, adc_mem_addr >>
     ELSE /\ adc_mem_addr' = IF counter % 2 = 1 THEN (adc_mem_addr + 1) % Depth
                             ELSE adc_mem_addr
          /\ counter' = IF InjLastByte THEN 0 ELSE counter + 1
          /\ injState' = IF InjLastByte THEN "IDLE" ELSE injState
  /\ UNCHANGED << injWait, adc_limit, adc_trig >>

\* Faulty variant: the read address steps with the high byte.
InjSendStepsEarly(ready) ==
  /\ injState = "SEND_DATA_TO_USB"
  /\ IF ~ready THEN UNCHANGED << injState, counter, adc_mem_addr >>
     ELSE /\ adc_mem_addr' = IF InjLastByte THEN 0
                             ELSE IF counter % 2 = 0 THEN (adc_mem_addr + 1) % Depth
                             ELSE adc_mem_addr
          /\ counter' = IF InjLastByte THEN 0 ELSE counter + 1
          /\ injState' = IF InjLastByte THEN "IDLE" ELSE injState
  /\ UNCHANGED << injWait, adc_limit, adc_trig >>

InjSend(ready) ==
  /\ injState = "SEND_DATA_TO_USB"
  /\ IF ~ready THEN UNCHANGED << injState, counter, adc_mem_addr >>
     ELSE IF InjLastByte
       THEN /\ counter' = 0
            /\ adc_mem_addr' = 0
            /\ injState' = "IDLE"
       ELSE /\ counter' = (counter + 1) % (2 * Depth)
            /\ adc_mem_addr' = IF counter % 2 = 1 THEN (adc_mem_addr + 1) % Depth
                               ELSE adc_mem_addr
            /\ UNCHANGED injState
  /\ UNCHANGED << injWait, adc_limit, adc_trig >>

InjEdge(donePin, valid, last, payload, ready) ==
  /\ InjSynchronise(donePin)
  /\ \/ InjReset
     \/ InjWaitBeforeStart
     \/ InjIdle(valid)
     \/ InjReceive(valid, last, payload)
     \/ InjWaitForAdc
     \/ InjSend(ready)

\* An edge with the domain's reset asserted loads every reset value.
InjResetEdge ==
  /\ injState' = "RESET"
  /\ injWait' = 0
  /\ adc_done_in_1' = FALSE /\ adc_done_in' = FALSE
  /\ adc_limit' = 0
  /\ adc_trig' = FALSE
  /\ adc_mem_addr' = 0
  /\ counter' = 0

InjTypeOK ==
  /\ injState \in InjStates
  /\ injWait \in 0 .. WaitMod - 1
  /\ adc_done_in_1 \in BOOLEAN /\ adc_done_in \in BOOLEAN
  /\ adc_limit \in Address
  /\ adc_trig \in BOOLEAN
  /\ adc_mem_addr \in Address
  /\ counter \in 0 .. 2 * Depth - 1

=============================================================================
