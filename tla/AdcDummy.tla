------------------------------ MODULE AdcDummy ------------------------------
(***************************************************************************)
(* gateware/adc_dummy.py, the ADC block that deca_usb2_adc.py synthesises: *)
(* the state machine of adc.py without the wait for dry, whose data is a   *)
(* counter instead of the converter's output.  One rising edge of the fast *)
(* clock is DummyEdge.                                                     *)
(***************************************************************************)
EXTENDS CaptureParams

CONSTANT CounterMod   \* values of the counter register: 2^14

ASSUME CounterAssumption == CounterMod \in Nat /\ CounterMod >= Depth

VARIABLES
  state, wait_counter, trig_1, trig, limit_in_1, limit_in, limit, addr, done,
  counter   \* the data of the word being received

dummyVars == << state, wait_counter, trig_1, trig, limit_in_1, limit_in,
                limit, addr, done, counter >>

DummyInit ==
  /\ state = "RESET"
  /\ wait_counter = 0
  /\ trig_1 = FALSE /\ trig = FALSE
  /\ limit_in_1 = 0 /\ limit_in = 0
  /\ limit = 0
  /\ addr = 0
  /\ done = FALSE
  /\ counter = 0

DummySynchronise(trigPin, limitPin) ==
  /\ trig_1' = trigPin
  /\ trig' = trig_1
  /\ limit_in_1' = limitPin
  /\ limit_in' = limit_in_1

DummyReset ==
  /\ state = "RESET"
  /\ state' = "WAIT_BEFORE_START"
  /\ done' = FALSE
  /\ addr' = 0
  /\ wait_counter' = 0
  /\ UNCHANGED << limit, counter >>

DummyWaitBeforeStart ==
  /\ state = "WAIT_BEFORE_START"
  /\ wait_counter' = NextWait(wait_counter)
  /\ state' = IF wait_counter = WaitCycles THEN "IDLE" ELSE state
  /\ UNCHANGED << limit, addr, done, counter >>

\* Faulty variant: done stays set when a capture starts.
DummyIdleKeepsDone ==
  /\ state = "IDLE"
  /\ IF trig /\ limit_in # 0
       THEN state' = "TRIGGER" /\ limit' = limit_in - 1
       ELSE UNCHANGED << state, limit >>
  /\ UNCHANGED << wait_counter, addr, done, counter >>

DummyIdle ==
  /\ state = "IDLE"
  /\ IF trig /\ limit_in # 0
       THEN /\ state' = "TRIGGER"
            /\ done' = FALSE
            /\ limit' = limit_in - 1
       ELSE UNCHANGED << state, done, limit >>
  /\ UNCHANGED << wait_counter, addr, counter >>

DummyTrigger ==
  /\ state = "TRIGGER"
  /\ state' = "RECEIVE"
  /\ UNCHANGED << wait_counter, limit, addr, done, counter >>

\* Faulty variant: the counter runs on after a capture.
DummyReceiveKeepsCounter ==
  /\ state = "RECEIVE"
  /\ counter' = (counter + 1) % CounterMod
  /\ IF addr = limit
       THEN state' = "IDLE" /\ addr' = 0 /\ done' = TRUE
       ELSE state' = "TRIGGER" /\ addr' = (addr + 1) % Depth /\ UNCHANGED done
  /\ UNCHANGED << wait_counter, limit >>

DummyReceive ==
  /\ state = "RECEIVE"
  /\ IF addr = limit
       THEN /\ state' = "IDLE"
            /\ addr' = 0
            /\ done' = TRUE
            /\ counter' = 0
       ELSE /\ state' = "TRIGGER"
            /\ addr' = (addr + 1) % Depth
            /\ counter' = (counter + 1) % CounterMod
            /\ UNCHANGED done
  /\ UNCHANGED << wait_counter, limit >>

DummyEdge(trigPin, limitPin) ==
  /\ DummySynchronise(trigPin, limitPin)
  /\ \/ DummyReset
     \/ DummyWaitBeforeStart
     \/ DummyIdle
     \/ DummyTrigger
     \/ DummyReceive

\* An edge with the domain's reset asserted loads every reset value.
DummyResetEdge ==
  /\ state' = "RESET"
  /\ wait_counter' = 0
  /\ trig_1' = FALSE /\ trig' = FALSE
  /\ limit_in_1' = 0 /\ limit_in' = 0
  /\ limit' = 0
  /\ addr' = 0
  /\ done' = FALSE
  /\ counter' = 0

DummyNext ==
  \/ \E t \in BOOLEAN, l \in Address : DummyEdge(t, l)
  \/ DummyResetEdge

DummySpec == DummyInit /\ [][DummyNext]_dummyVars

DummyTypeOK ==
  /\ state \in {"RESET", "WAIT_BEFORE_START", "IDLE", "TRIGGER", "RECEIVE"}
  /\ wait_counter \in 0 .. WaitMod - 1
  /\ trig_1 \in BOOLEAN /\ trig \in BOOLEAN
  /\ limit_in_1 \in Address /\ limit_in \in Address
  /\ limit \in Address
  /\ addr \in Address
  /\ done \in BOOLEAN
  /\ counter \in 0 .. CounterMod - 1

(***************************************************************************)
(* Word k of every capture is the number k: the counter and the address    *)
(* never part, over any number of captures and resets, and no capture runs *)
(* past its limit (adc_dummy.py:97-107).                                   *)
(***************************************************************************)
CounterIsAddress ==
  /\ counter = addr
  /\ state \in {"TRIGGER", "RECEIVE"} => addr <= limit
  /\ state \in {"WAIT_BEFORE_START", "IDLE"} => addr = 0

\* The block implements adc.py with a converter that is always ready and
\* whose samples are numbered by the counter.
A == INSTANCE Adc WITH
  DryValues <- {TRUE},
  adcState <- state,
  adcWait <- wait_counter,
  samples <- IF state = "RECEIVE" THEN counter + 1 ELSE counter

(***************************************************************************)
(* Refinement: every behaviour of ADC_dummy is one of ADC with dry tied    *)
(* high, so what is shown of adc.py for every converter holds for the      *)
(* block that is synthesised.                                              *)
(***************************************************************************)
ImplementsAdc == A!AdcSpec

=============================================================================
