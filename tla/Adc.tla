-------------------------------- MODULE Adc --------------------------------
(***************************************************************************)
(* The capture state machine of gateware/adc.py, in the "fast" clock       *)
(* domain.  It is synchronous hardware: AdcEdge is one rising edge of the  *)
(* clock, and every register is loaded from the values before the edge.    *)
(* The input pins are parameters of the edge: the trigger and the limit    *)
(* that InjectData drives, and the converter's "data ready" strobe dry.    *)
(*                                                                         *)
(* encode[0] is high exactly in TRIGGER and data_ready exactly in RECEIVE  *)
(* with dry, so neither is a variable.  samples is a history variable: the *)
(* conversions started (encode pulses) in the current capture.             *)
(***************************************************************************)
EXTENDS CaptureParams

CONSTANT DryValues   \* what the dry pin may show at an edge

ASSUME DryAssumption == DryValues \in {{TRUE}, BOOLEAN}

VARIABLES
  adcState,                 \* the m.FSM state
  adcWait,                  \* wait_counter
  trig_1, trig,             \* synchroniser of the trigger
  limit_in_1, limit_in,     \* synchroniser of the limit
  limit,                    \* last address of the running capture
  addr,                     \* address the next word is written to
  done,                     \* the last capture is complete
  samples                   \* history: conversions started in this capture

adcVars == << adcState, adcWait, trig_1, trig, limit_in_1, limit_in,
              limit, addr, done, samples >>

AdcStates == {"RESET", "WAIT_BEFORE_START", "IDLE", "TRIGGER", "RECEIVE"}

AdcInit ==
  /\ adcState = "RESET"
  /\ adcWait = 0
  /\ trig_1 = FALSE /\ trig = FALSE
  /\ limit_in_1 = 0 /\ limit_in = 0
  /\ limit = 0
  /\ addr = 0
  /\ done = FALSE
  /\ samples = 0

\* Faulty variant: the trigger is synchronised by one stage, the limit by two.
AdcSynchroniseTrigFast(trigPin, limitPin) ==
  /\ trig_1' = trigPin
  /\ trig' = trigPin
  /\ limit_in_1' = limitPin
  /\ limit_in' = limit_in_1

\* The two-stage synchronisers shift on every edge.
AdcSynchronise(trigPin, limitPin) ==
  /\ trig_1' = trigPin
  /\ trig' = trig_1
  /\ limit_in_1' = limitPin
  /\ limit_in' = limit_in_1

AdcReset ==
  /\ adcState = "RESET"
  /\ adcState' = "WAIT_BEFORE_START"
  /\ done' = FALSE
  /\ addr' = 0
  /\ adcWait' = 0
  /\ UNCHANGED << limit, samples >>

AdcWaitBeforeStart ==
  /\ adcState = "WAIT_BEFORE_START"
  /\ adcWait' = NextWait(adcWait)
  /\ adcState' = IF adcWait = WaitCycles THEN "IDLE" ELSE adcState
  /\ UNCHANGED << limit, addr, done, samples >>

\* Faulty variant: an empty command starts a capture.
AdcTriggeredOnZero == trig

AdcTriggered == trig /\ limit_in # 0

\* Faulty variant: done stays set when a capture starts.
AdcIdleKeepsDone ==
  /\ adcState = "IDLE"
  /\ IF AdcTriggered
       THEN adcState' = "TRIGGER" /\ limit' = limit_in - 1
       ELSE UNCHANGED << adcState, limit >>
  /\ UNCHANGED << adcWait, addr, done, samples >>

AdcIdle ==
  /\ adcState = "IDLE"
  /\ IF AdcTriggered
       THEN /\ adcState' = "TRIGGER"
            /\ done' = FALSE
            /\ limit' = limit_in - 1
       ELSE UNCHANGED << adcState, done, limit >>
  /\ UNCHANGED << adcWait, addr, samples >>

AdcTrigger ==
  /\ adcState = "TRIGGER"
  /\ adcState' = "RECEIVE"
  /\ samples' = samples + 1
  /\ UNCHANGED << adcWait, limit, addr, done >>

\* The write enable of the capture RAM.
DataReady(dry) == adcState = "RECEIVE" /\ dry

\* Faulty variant: the address is not cleared at the end of a capture.
AdcReceiveKeepsAddress(dry) ==
  /\ adcState = "RECEIVE"
  /\ IF ~dry THEN UNCHANGED << adcState, addr, done, samples >>
     ELSE /\ addr' = (addr + 1) % Depth
          /\ IF addr = limit
               THEN adcState' = "IDLE" /\ done' = TRUE /\ samples' = 0
               ELSE adcState' = "TRIGGER" /\ UNCHANGED << done, samples >>
  /\ UNCHANGED << adcWait, limit >>

AdcReceive(dry) ==
  /\ adcState = "RECEIVE"
  /\ IF ~dry THEN UNCHANGED << adcState, addr, done, samples >>
     ELSE IF addr = limit
       THEN /\ adcState' = "IDLE"
            /\ addr' = 0
            /\ done' = TRUE
            /\ samples' = 0
       ELSE /\ adcState' = "TRIGGER"
            /\ addr' = (addr + 1) % Depth
            /\ UNCHANGED << done, samples >>
  /\ UNCHANGED << adcWait, limit >>

AdcEdge(trigPin, limitPin, dry) ==
  /\ AdcSynchronise(trigPin, limitPin)
  /\ \/ AdcReset
     \/ AdcWaitBeforeStart
     \/ AdcIdle
     \/ AdcTrigger
     \/ AdcReceive(dry)

\* An edge with the domain's reset asserted loads every reset value.
AdcResetEdge ==
  /\ adcState' = "RESET"
  /\ adcWait' = 0
  /\ trig_1' = FALSE /\ trig' = FALSE
  /\ limit_in_1' = 0 /\ limit_in' = 0
  /\ limit' = 0
  /\ addr' = 0
  /\ done' = FALSE
  /\ samples' = 0

\* The block by itself, its pins free at every edge.
AdcNext ==
  \/ \E t \in BOOLEAN, l \in Address, dry \in DryValues : AdcEdge(t, l, dry)
  \/ AdcResetEdge

AdcSpec == AdcInit /\ [][AdcNext]_adcVars

AdcTypeOK ==
  /\ adcState \in AdcStates
  /\ adcWait \in 0 .. WaitMod - 1
  /\ trig_1 \in BOOLEAN /\ trig \in BOOLEAN
  /\ limit_in_1 \in Address /\ limit_in \in Address
  /\ limit \in Address
  /\ addr \in Address
  /\ done \in BOOLEAN
  /\ samples \in 0 .. Depth

(***************************************************************************)
(* The conversion that is running belongs to the address it will be        *)
(* written to, and no capture runs past its limit: whatever the pins do,   *)
(* sample n of a capture goes to address n, the address register never     *)
(* wraps (adc.py:99-105) and is back at 0 before the next trigger.         *)
(***************************************************************************)
SampleGoesToItsAddress ==
  /\ adcState = "TRIGGER" => samples = addr /\ addr <= limit
  /\ adcState = "RECEIVE" => samples = addr + 1 /\ addr <= limit
  /\ adcState \in {"WAIT_BEFORE_START", "IDLE"} => samples = 0 /\ addr = 0

=============================================================================
