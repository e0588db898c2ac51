-------------------------- MODULE CaptureGateware --------------------------
(***************************************************************************)
(* The capture path of the FPGA as gateware/deca_usb2_adc.py wires it: the *)
(* ADC state machine on the fast clock, InjectData on the USB clock, the   *)
(* dual-clock RAM between them, the FIFO of USB endpoint 3 in front and    *)
(* endpoint 2 behind, and the push button that resets both domains.        *)
(*                                                                         *)
(* Clocks.  arrow_deca.py makes both clocks from one PLL: usb is the 60 MHz*)
(* input, fast is 21/6 of it, 3.5 fast edges per usb edge, and the phase   *)
(* shift keeps the edges apart.  So edges of the two domains interleave,   *)
(* with MinFast = 3 to MaxFast = 4 fast edges between two usb edges.       *)
(*                                                                         *)
(* The ADC block is Adc.tla with any dry behaviour in DryValues; the block *)
(* that is synthesised, ADC_dummy, is the case {TRUE} (see AdcDummy.tla).  *)
(***************************************************************************)
EXTENDS Adc, InjectData, DualPortRam, Sequences

CONSTANTS
  MinFast, MaxFast,  \* fast edges between two usb edges
  WordCounts,        \* the 16-bit word counts the host sends
  FifoCommands,      \* two-byte packets endpoint 3 holds
  MaxCommands,       \* bound of the model: commands of a behaviour
  MaxPresses         \* bound of the model: presses of the reset button

ASSUME ClockAssumption ==
  /\ MinFast \in Nat \ {0}
  /\ MaxFast \in Nat
  /\ MinFast <= MaxFast

ASSUME HostAssumption ==
  /\ WordCounts \subseteq 0 .. LowMod * LowMod - 1
  /\ FifoCommands \in Nat
  /\ MaxCommands \in Nat
  /\ MaxPresses \in Nat

VARIABLES
  since,      \* fast edges since the last usb edge
  button,     \* the reset button is held
  latched,    \* the domains that have had an edge since it was pressed
  presses,    \* presses so far
  out3,       \* endpoint 3: the packets, each the word count it encodes
  nextByte,   \* bytes of the head packet already taken
  issued,     \* history: commands InjectData has triggered
  capturing,  \* history: the command the ADC's last capture serves
  runs,       \* history: captures started for the last command
  sent,       \* history: bytes handed to endpoint 2 for the last command
  answered    \* history: an answer was completed since the last reset

wireVars == << since, button, latched, presses, out3, nextByte >>
historyVars == << issued, capturing, runs, sent, answered >>
vars == << adcVars, injVars, ramVars, wireVars, historyVars >>

Domains == {"fast", "usb"}

Init ==
  /\ AdcInit
  /\ InjInit
  /\ RamInit
  /\ since = 0
  /\ button = FALSE
  /\ latched = {}
  /\ presses = 0
  /\ out3 = << >>
  /\ nextByte = 0
  /\ issued = 0
  /\ capturing = 0
  /\ runs = 0
  /\ sent = 0
  /\ answered = FALSE

-----------------------------------------------------------------------------
\* The word the ADC puts on the RAM's data input.
Sample == [idx |-> samples - 1, cmd |-> capturing]

FastReset ==
  /\ button
  /\ AdcResetEdge
  /\ latched' = latched \union {"fast"}
  /\ UNCHANGED << capturing, runs >>

FastRun(dry) ==
  /\ ~button
  /\ AdcEdge(adc_trig, adc_limit, dry)
  /\ IF adcState = "IDLE" /\ AdcTriggered
       THEN capturing' = issued /\ runs' = runs + 1
       ELSE UNCHANGED << capturing, runs >>
  /\ UNCHANGED latched

FastEdge(dry) ==
  /\ since < MaxFast
  /\ since' = since + 1
  /\ RamWriteEdge(DataReady(dry), addr, Sample)
  /\ FastReset \/ FastRun(dry)
  /\ UNCHANGED << injVars, dob, button, presses, out3, nextByte,
                  issued, sent, answered >>

-----------------------------------------------------------------------------
\* The head of the stream out of endpoint 3: low byte first, then the high
\* byte, which carries last (deca_write sends the count little-endian).
Valid == out3 # << >>
Last == nextByte = 1
Payload == IF ~Valid THEN 0
           ELSE IF Last THEN Head(out3) \div LowMod
           ELSE Head(out3) % LowMod

\* The USB device core is in the usb domain: its buffers are reset too.
UsbReset ==
  /\ button
  /\ InjResetEdge
  /\ latched' = latched \union {"usb"}
  /\ out3' = << >>
  /\ nextByte' = 0
  /\ sent' = 0
  /\ answered' = FALSE
  /\ UNCHANGED << issued, runs >>

TakeByte ==
  IF ~InjTakesByte(Valid) THEN UNCHANGED << out3, nextByte, issued, runs >>
  ELSE IF Last
    THEN /\ out3' = Tail(out3)
         /\ nextByte' = 0
         /\ issued' = issued + 1
         /\ runs' = 0
    ELSE /\ nextByte' = 1
         /\ UNCHANGED << out3, issued, runs >>

\* usb_stream_out.valid: a byte is handed to endpoint 2 at this edge.
HandsByte(ready) == injState = "SEND_DATA_TO_USB" /\ ready

UsbRun(ready) ==
  /\ ~button
  /\ InjEdge(done, Valid, Last, Payload, ready)
  /\ TakeByte
  /\ sent' = IF InjTakesByte(Valid) /\ Last THEN 0
             ELSE IF HandsByte(ready) THEN sent + 1
             ELSE sent
  /\ answered' = (answered \/ (HandsByte(ready) /\ InjLastByte))
  /\ UNCHANGED latched

\* Faulty variant: the PLL does not keep the fast clock the faster one.
UsbEdgeAnyRatio(ready) ==
  /\ since' = 0
  /\ RamReadEdge(adc_mem_addr)
  /\ UsbReset \/ UsbRun(ready)
  /\ UNCHANGED << adcVars, ram, button, presses, capturing >>

UsbEdge(ready) ==
  /\ since >= MinFast
  /\ since' = 0
  /\ RamReadEdge(adc_mem_addr)
  /\ UsbReset \/ UsbRun(ready)
  /\ UNCHANGED << adcVars, ram, button, presses, capturing >>

-----------------------------------------------------------------------------
\* The USB core accepts a two-byte packet; it refuses (NAKs) when it is full.
HostCommand(w) ==
  /\ ~button
  /\ Len(out3) < FifoCommands
  /\ issued + Len(out3) < MaxCommands
  /\ out3' = Append(out3, w)
  /\ UNCHANGED << adcVars, injVars, ramVars, since, button, latched, presses,
                  nextByte, historyVars >>

\* ResetSignal("usb") and ResetSignal("fast") follow the button; a press is
\* long against both clocks, so each domain sees it.
PressButton ==
  /\ ~button
  /\ presses < MaxPresses
  /\ button' = TRUE
  /\ latched' = {}
  /\ presses' = presses + 1
  /\ UNCHANGED << adcVars, injVars, ramVars, since, out3, nextByte, historyVars >>

ReleaseButton ==
  /\ button
  /\ latched = Domains
  /\ button' = FALSE
  /\ UNCHANGED << adcVars, injVars, ramVars, since, latched, presses, out3,
                  nextByte, historyVars >>

Next ==
  \/ \E dry \in DryValues : FastEdge(dry)
  \/ \E ready \in BOOLEAN : UsbEdge(ready)
  \/ \E w \in WordCounts : HostCommand(w)
  \/ PressButton
  \/ ReleaseButton

Spec == Init /\ [][Next]_vars

\* The clocks run, the converter finishes a conversion, the host goes on
\* polling endpoint 2, and a pressed button is let go.
Fairness ==
  /\ SF_vars(FastEdge(TRUE))
  /\ SF_vars(UsbEdge(TRUE))
  /\ WF_vars(ReleaseButton)

FairSpec == Spec /\ Fairness

-----------------------------------------------------------------------------
TypeOK ==
  /\ AdcTypeOK
  /\ InjTypeOK
  /\ RamTypeOK
  /\ since \in 0 .. MaxFast
  /\ button \in BOOLEAN
  /\ latched \subseteq Domains
  /\ presses \in 0 .. MaxPresses
  /\ out3 \in Seq(WordCounts)
  /\ nextByte \in 0 .. 1
  /\ issued \in Nat
  /\ capturing \in Nat
  /\ runs \in Nat
  /\ sent \in Nat
  /\ answered \in BOOLEAN

Sending == injState = "SEND_DATA_TO_USB"
LowByteNext == Sending /\ counter % 2 = 1
HighByteNext == Sending /\ counter % 2 = 0

(***************************************************************************)
(* While an answer is sent the read address is the word the counter stands *)
(* at and the counter is within the 2 * adc_limit bytes of the answer      *)
(* (inject_data.py:95-114); outside it both are 0, so that the next answer *)
(* starts with its first word.                                             *)
(***************************************************************************)
AnswerInBounds ==
  /\ Sending => /\ adc_limit # 0
                /\ counter < 2 * adc_limit
                /\ adc_mem_addr = counter \div 2
  /\ ~Sending => counter = 0 /\ adc_mem_addr = 0

(***************************************************************************)
(* The low byte of word k is taken from sample k: the RAM's output is one  *)
(* usb edge behind the address (simple_dual_two_clocks.vhd:37-44), but     *)
(* between the step of the address and the low byte there is always the    *)
(* edge of the high byte.  Holds for both ADC blocks and any clock ratio.  *)
(***************************************************************************)
LowByteOwnWord == LowByteNext => dob.idx = adc_mem_addr

(***************************************************************************)
(* With the synthesised ADC block, the low byte sent is of the sample the  *)
(* current command captured, although done may still be set from the       *)
(* previous capture when InjectData looks at it: the capture is started    *)
(* early enough and runs faster than the bytes are sent.                   *)
(***************************************************************************)
LowByteFresh == LowByteNext => dob = [idx |-> adc_mem_addr, cmd |-> issued]

(***************************************************************************)
(* What a high byte can be of, with the synthesised block: after the first *)
(* word, this capture's sample of the same word or of the word before it.  *)
(***************************************************************************)
HighByteLag ==
  HighByteNext /\ counter # 0 =>
    /\ dob.cmd = issued
    /\ dob.idx \in {adc_mem_addr - 1, adc_mem_addr}

(***************************************************************************)
(* With the synthesised block the ADC waits in IDLE whenever InjectData can*)
(* take a command, after start-up and after every reset, so that no trigger*)
(* falls into a state that ignores it (adc.py:81-87 looks at trig in IDLE  *)
(* only).  While the button is held the domains are reset one by one.      *)
(***************************************************************************)
AdcReadyForCommand ==
  ~button /\ injState \in {"IDLE", "RECEIVE_DATA_FROM_USB"} => adcState = "IDLE"

(***************************************************************************)
(* Every non-zero command has led to a capture by the time InjectData is   *)
(* done with it, and only a one-word command can lead to a second one (its *)
(* capture ends before the synchronised trigger pulse does).               *)
(***************************************************************************)
TriggerCaptured ==
  /\ injState = "IDLE" /\ adc_limit # 0 => runs >= 1
  /\ runs <= 2
  /\ runs = 2 /\ injState \in {"WAIT_FOR_ADC", "SEND_DATA_TO_USB"} => adc_limit = 1

(***************************************************************************)
(* A capture for the current command has the length the command asks for:  *)
(* trigger and limit reach the ADC through synchronisers of equal depth.   *)
(***************************************************************************)
CaptureMatchesCommand ==
  ~button /\ adcState \in {"TRIGGER", "RECEIVE"} =>
    capturing = issued /\ limit = adc_limit - 1

(***************************************************************************)
(* done is never set over an incomplete capture: all the words the capture *)
(* asked for are in the RAM, each at its address.                          *)
(***************************************************************************)
DoneMeansCaptured ==
  done => \A a \in 0 .. limit : ram[a] = [idx |-> a, cmd |-> capturing]

(***************************************************************************)
(* The first answer after power-up or a reset does wait for its capture:   *)
(* not a byte is sent before every word of it has been written.            *)
(***************************************************************************)
FirstAnswerWaits ==
  Sending /\ ~answered =>
    \A a \in 0 .. adc_limit - 1 : ram[a] = [idx |-> a, cmd |-> issued]

(***************************************************************************)
(* Every command accepted is answered or found empty: InjectData is never  *)
(* left waiting for the ADC, whatever resets do to either side of the      *)
(* handshake.                                                              *)
(***************************************************************************)
NeverStuckWaiting == (injState = "WAIT_FOR_ADC") ~> (injState = "IDLE")

-----------------------------------------------------------------------------
\* Bytes of the answer under way that have not been handed to endpoint 2.
BytesToSend ==
  CASE injState = "WAIT_FOR_ADC" -> 2 * adc_limit
    [] injState = "SEND_DATA_TO_USB" -> 2 * adc_limit - counter
    [] OTHER -> 0

Service == INSTANCE CaptureService WITH queue <- out3, remaining <- BytesToSend

(***************************************************************************)
(* Refinement: with both clock domains, the handshakes and the resets, the *)
(* gateware answers commands one at a time, in the order accepted, with    *)
(* exactly two bytes per word of the decoded limit.                        *)
(***************************************************************************)
ImplementsService == Service!Spec

(***************************************************************************)
(* And under the fairness of the clocks, the converter and the host, every *)
(* accepted command is begun and every byte of its answer is sent, unless  *)
(* a reset forgets it.                                                     *)
(***************************************************************************)
ServesEveryCommand == Service!FairSpec

-----------------------------------------------------------------------------
(***************************************************************************)
(* Disagreements with what the repository says; each is checked by a run   *)
(* of its own that exhibits a violation.                                   *)
(***************************************************************************)

\* inject_data.py:87 names the state WAIT_FOR_ADC: nothing is sent before the
\* ADC has captured the words of this command.
SendsOnlyCaptured ==
  Sending => \A a \in 0 .. adc_limit - 1 : ram[a] = [idx |-> a, cmd |-> issued]

\* adc_test.c:60-61 prints each two bytes received as one word: both halves of
\* a word are of the same sample.
WordsWhole == HighByteNext => dob.idx = adc_mem_addr

=============================================================================
