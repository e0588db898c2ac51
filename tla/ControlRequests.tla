--------------------------- MODULE ControlRequests --------------------------
(***************************************************************************)
(* Control transfers to the request handlers of                            *)
(* gateware/requesthandlers.py, attached to endpoint 0 as                  *)
(* gateware/deca_usb2_adc.py does.  The block attached is "vendor" in the  *)
(* design; "uac2" is the audio handler of the same file, which takes the   *)
(* place of the vendor handler and of the blacklisted SET_INTERFACE.       *)
(*                                                                         *)
(* The host sends SETUP, then the packets of the data and status stages,   *)
(* each up to MaxTries times.  Any of them, and any handshake, may be lost *)
(* and a data packet may be corrupted.  LUNA is external: it acknowledges  *)
(* SETUP, shows its fields to all handlers until the next one, raises      *)
(* data_requested and status_requested, passes received bytes on as they   *)
(* come and raises rx_ready_for_response only for a packet found good.     *)
(***************************************************************************)
EXTENDS Naturals, Sequences

CONSTANTS
  Setups,       \* the SETUP packets the host may send
  Payloads,     \* the data packets of its writes
  MaxTries,     \* tries of a packet before the host gives up, 3 in USB
  MaxTransfers, \* bound of the model: transfers begun
  MaxLost,      \* bound of the model: packets or handshakes lost
  MaxCorrupted  \* bound of the model: data packets corrupted

Types == {"STANDARD", "CLASS", "VENDOR", "RESERVED"}

\* The fields of a SETUP packet the handlers look at.
SetupPackets == [type : Types, request : Nat, in : BOOLEAN, interface : BOOLEAN,
                 value : Nat, index : Nat, length : Nat]

ASSUME ControlAssumption ==
  /\ Setups \subseteq SetupPackets
  /\ MaxTries \in Nat \ {0}
  /\ MaxTransfers \in Nat /\ MaxLost \in Nat /\ MaxCorrupted \in Nat
  /\ Payloads \subseteq Seq(Nat)

VARIABLES
  block,      \* the handlers attached
  stage,      \* what the host sends next: idle, data_in, data_out, status_*
  setup,      \* the fields of the last SETUP packet
  payload,    \* the data packet of the transfer, for a write
  tries,      \* tries of the current packet
  outcome,    \* how the last transfer ended
  got,        \* bytes the host has read in it
  leds,       \* VendorRequestHandlers.leds
  out_alt, in_alt, \* UAC2: altsettings of the interfaces 1 and 2
  changed,    \* UAC2: interface_settings_changed
  acked,      \* history: the writes received good since the last reset
  lastSet,    \* history: the last SET_INTERFACE since then, as <<setup>>
  transfers, lost, corrupted   \* counts of what is bounded

deviceVars == << leds, out_alt, in_alt, changed, acked, lastSet >>
hostVars == << stage, setup, payload, tries, outcome, got, transfers >>
faultVars == << lost, corrupted >>
vars == << block, deviceVars, hostVars, faultVars >>

\* bRequest codes; those of different types overlap.
SET_INTERFACE == 11
REGISTER == 5
CUR == 1
RANGE == 2

Stages == {"idle", "data_in", "data_out", "status_in", "status_out"}
Outcomes == {"none", "done", "stalled", "failed", "abandoned"}

MinOf(a, b) == IF a < b THEN a ELSE b

NoSetup == [type |-> "STANDARD", request |-> 0, in |-> FALSE, interface |-> FALSE,
            value |-> 0, index |-> 0, length |-> 0]

Init ==
  /\ block \in {"vendor", "uac2"}
  /\ stage = "idle"
  /\ setup = NoSetup
  /\ payload = << >>
  /\ tries = 0
  /\ outcome = "none"
  /\ got = 0
  /\ leds = 0
  /\ out_alt = 0 /\ in_alt = 0
  /\ changed = FALSE
  /\ acked = << >>
  /\ lastSet = << >>
  /\ transfers = 0 /\ lost = 0 /\ corrupted = 0

-----------------------------------------------------------------------------
(* The handlers: what the device sends for a packet of the stage.  A data  *)
(* reply is the number of bytes; LUNA's StreamSerializer sends none at all *)
(* when its max_length is 0.                                               *)
Data(bytes) == IF bytes = 0 THEN [kind |-> "nothing", bytes |-> 0]
               ELSE [kind |-> "data", bytes |-> bytes]
Reply(kind) == [kind |-> kind, bytes |-> 0]
Nothing == Reply("nothing")

\* Faulty variant: every vendor read is answered as the register is.
VendorAnyRequest(s, at) ==
  IF s.type # "VENDOR" THEN Nothing
  ELSE CASE s.in /\ at = "data_in" -> Data(MinOf(1, s.length % 2))
         [] s.in /\ at = "status_out" -> Reply("ack")
         [] ~s.in /\ at = "data_out" -> Reply("ack")
         [] ~s.in /\ at = "status_in" -> Reply("zlp")
         [] OTHER -> Nothing

\* VendorRequestHandlers: max_length is one bit wide, so only the lowest bit
\* of wLength reaches it.
VendorReply(s, at) ==
  IF ~(s.type = "VENDOR" /\ s.request = REGISTER) THEN Nothing
  ELSE CASE s.in /\ at = "data_in" -> Data(MinOf(1, s.length % 2))
         [] s.in /\ at = "status_out" -> Reply("ack")
         [] ~s.in /\ at = "data_out" -> Reply("ack")
         [] ~s.in /\ at = "status_in" -> Reply("zlp")
         [] OTHER -> Nothing

IsSetInterface(s) ==
  s.type = "STANDARD" /\ s.interface /\ s.request = SET_INTERFACE

ClockFrequency(s) == s.value = 256 /\ s.index = 256

\* Faulty variant: the whole of the clock's RANGE block is sent.
RangeBytesWhole(s) == 14

\* 14 bytes: a count and one triple of 32-bit values.  max_length has 14 bits.
RangeBytes(s) == MinOf(14, s.length % 16384)

\* UAC2RequestHandlers.  A read's status stage is acknowledged; a write of the
\* clock frequency gets neither its data nor its status answered rightly, as
\* the direction is not looked at.
Uac2Reply(s, at) ==
  CASE IsSetInterface(s) ->
         CASE at = "data_out" -> Reply("ack")
           [] at = "status_in" -> Reply("zlp")
           [] OTHER -> Nothing
    [] s.type = "CLASS" /\ s.request \in {RANGE, CUR} ->
         IF ~ClockFrequency(s) \/ (s.request = CUR /\ s.length # 4) THEN Reply("stall")
         ELSE CASE at = "data_in" -> Data(IF s.request = RANGE THEN RangeBytes(s) ELSE 4)
                [] at \in {"status_in", "status_out"} -> Reply("ack")
                [] OTHER -> Nothing
    [] s.type = "CLASS" /\ s.request \notin {RANGE, CUR} ->
         IF at = "data_out" THEN Nothing ELSE Reply("stall")
    [] OTHER -> Nothing

\* StallOnlyRequestHandler (LUNA) with the design's condition.
StallReply(s, at) ==
  IF s.type = "RESERVED" /\ at # "data_out" THEN Reply("stall") ELSE Nothing

\* The standard handlers (LUNA) answer every standard request the blacklist
\* leaves them.
StandardReply(s, at) ==
  IF s.type # "STANDARD" \/ s.request = SET_INTERFACE THEN Nothing
  ELSE CASE at = "data_in" -> Data(s.length)
         [] at = "status_in" -> Reply("zlp")
         [] at = "data_out" -> Reply("ack")
         [] OTHER -> Reply("ack")

\* All handlers see the packet; their conditions exclude one another.
DeviceReply(at) ==
  LET replies == { StandardReply(setup, at), StallReply(setup, at),
                   IF block = "vendor" THEN VendorReply(setup, at)
                                       ELSE Uac2Reply(setup, at) } \ {Nothing}
  IN IF replies = {} THEN Nothing ELSE CHOOSE r \in replies : TRUE

-----------------------------------------------------------------------------
\* Faulty variant: the register of an interface is only set, never cleared.
SetAltsKeepsOther(s) ==
  IF IsSetInterface(s)
    THEN /\ out_alt' = IF s.index = 1 THEN s.value % 8 ELSE out_alt
         /\ in_alt' = IF s.index = 2 THEN s.value % 8 ELSE in_alt
         /\ lastSet' = << s >>
    ELSE UNCHANGED << out_alt, in_alt, lastSet >>

\* Both altsettings are cleared and the one of wIndex is set, as long as the
\* SETUP fields show the request.
SetAlts(s) ==
  IF IsSetInterface(s)
    THEN /\ out_alt' = IF s.index = 1 THEN s.value % 8 ELSE 0
         /\ in_alt' = IF s.index = 2 THEN s.value % 8 ELSE 0
         /\ lastSet' = << s >>
    ELSE UNCHANGED << out_alt, in_alt, lastSet >>

FirstStage(s) ==
  IF s.length = 0 THEN "status_in" ELSE IF s.in THEN "data_in" ELSE "data_out"

\* A SETUP packet begins a transfer, and ends one the host has given up.
BeginTransfer(s, data) ==
  /\ transfers < MaxTransfers
  /\ transfers' = transfers + 1
  /\ s.in \/ s.length = 0 => data = << >>
  /\ ~s.in /\ s.length > 0 => Len(data) = s.length
  /\ setup' = s
  /\ payload' = data
  /\ stage' = FirstStage(s)
  /\ tries' = 0
  /\ got' = 0
  /\ outcome' = IF stage = "idle" THEN "none" ELSE "abandoned"
  /\ IF block = "uac2"
       THEN SetAlts(s) /\ changed' = IsSetInterface(s)
       ELSE UNCHANGED << out_alt, in_alt, lastSet, changed >>
  /\ UNCHANGED << block, leds, acked, faultVars >>

EndTransfer(how) ==
  /\ stage' = "idle"
  /\ outcome' = how
  /\ UNCHANGED tries

\* The host has heard nothing it can use.
TryAgain ==
  /\ tries' = tries + 1
  /\ IF tries + 1 = MaxTries THEN stage' = "idle" /\ outcome' = "failed"
                             ELSE UNCHANGED << stage, outcome >>

NextStage(s) ==
  /\ stage' = s
  /\ tries' = 0
  /\ UNCHANGED outcome

\* An IN token of the data stage, and what comes back.
DataIn ==
  /\ stage = "data_in"
  /\ LET reply == DeviceReply("data_in")
     IN \/ reply.kind = "data" /\ NextStage("status_out") /\ got' = reply.bytes
        \/ reply.kind = "stall" /\ EndTransfer("stalled") /\ UNCHANGED got
        \/ reply.kind \notin {"data", "stall"} /\ TryAgain /\ UNCHANGED got
  /\ UNCHANGED << block, setup, payload, transfers, deviceVars, faultVars >>

\* The first byte that is not 0, or 0.
Nonzero(data) == {i \in 1 .. Len(data) : data[i] # 0}

FirstByte(data) ==
  IF Nonzero(data) = {} THEN 0
  ELSE data[CHOOSE i \in Nonzero(data) : \A j \in Nonzero(data) : i <= j]

\* Faulty variant: the byte is stored whenever one comes.
LatchLedsAlways(current, data) == IF FirstByte(data) = 0 THEN current ELSE FirstByte(data)

\* The first byte that is not 0 stays until a reset.
LatchLeds(current, data) == IF current # 0 THEN current ELSE FirstByte(data)

IsRegisterWrite == setup.type = "VENDOR" /\ setup.request = REGISTER /\ ~setup.in

\* The bytes of an OUT packet as they pass the handler, good or not.
ReceiveBytes(data) ==
  leds' = IF block = "vendor" /\ IsRegisterWrite THEN LatchLeds(leds, data) ELSE leds

\* A data packet that arrives good; the handshake may be lost on its way.
DataOut(handshakeLost) ==
  /\ stage = "data_out"
  /\ ReceiveBytes(payload)
  /\ acked' = IF block = "vendor" /\ IsRegisterWrite THEN Append(acked, payload) ELSE acked
  /\ IF handshakeLost
       THEN lost < MaxLost /\ lost' = lost + 1 /\ TryAgain
       ELSE /\ UNCHANGED lost
            /\ \/ DeviceReply("data_out").kind = "ack" /\ NextStage("status_in")
               \/ DeviceReply("data_out").kind = "stall" /\ EndTransfer("stalled")
               \/ DeviceReply("data_out").kind \notin {"ack", "stall"} /\ TryAgain
  /\ UNCHANGED << block, setup, payload, got, transfers, out_alt, in_alt, changed,
                  lastSet, corrupted >>

\* A data packet whose CRC fails: the bytes have passed, no handshake is asked.
DataCorrupted(seen) ==
  /\ stage = "data_out"
  /\ corrupted < MaxCorrupted
  /\ corrupted' = corrupted + 1
  /\ Len(seen) = Len(payload)
  /\ ReceiveBytes(seen)
  /\ TryAgain
  /\ UNCHANGED << block, setup, payload, got, transfers, out_alt, in_alt, changed,
                  acked, lastSet, lost >>

StatusIn ==
  /\ stage = "status_in"
  /\ LET kind == DeviceReply("status_in").kind
     IN \/ kind = "zlp" /\ EndTransfer("done")
        \/ kind = "stall" /\ EndTransfer("stalled")
        \/ kind \notin {"zlp", "stall"} /\ TryAgain
  /\ UNCHANGED << block, setup, payload, got, transfers, deviceVars, faultVars >>

StatusOut ==
  /\ stage = "status_out"
  /\ LET kind == DeviceReply("status_out").kind
     IN \/ kind = "ack" /\ EndTransfer("done")
        \/ kind = "stall" /\ EndTransfer("stalled")
        \/ kind \notin {"ack", "stall"} /\ TryAgain
  /\ UNCHANGED << block, setup, payload, got, transfers, deviceVars, faultVars >>

\* A packet of any stage, or what answers it, is lost.
PacketLost ==
  /\ stage # "idle"
  /\ lost < MaxLost
  /\ lost' = lost + 1
  /\ TryAgain
  /\ UNCHANGED << block, setup, payload, got, transfers, deviceVars, corrupted >>

\* The button resets the usb domain, USB core and handlers alike.
ResetButton ==
  /\ leds' = 0
  /\ out_alt' = 0 /\ in_alt' = 0
  /\ changed' = FALSE
  /\ acked' = << >> /\ lastSet' = << >>
  /\ setup' = NoSetup
  /\ stage' = "idle"
  /\ outcome' = IF stage = "idle" THEN "none" ELSE "abandoned"
  /\ UNCHANGED << block, payload, tries, got, transfers, faultVars >>

Next ==
  \/ \E s \in Setups, data \in Payloads \union {<< >>} : BeginTransfer(s, data)
  \/ DataIn
  \/ \E handshakeLost \in BOOLEAN : DataOut(handshakeLost)
  \/ \E seen \in Payloads : DataCorrupted(seen)
  \/ StatusIn
  \/ StatusOut
  \/ PacketLost
  \/ ResetButton

Spec == Init /\ [][Next]_vars

-----------------------------------------------------------------------------
TypeOK ==
  /\ block \in {"vendor", "uac2"}
  /\ stage \in Stages
  /\ setup \in SetupPackets
  /\ payload \in Seq(Nat)
  /\ tries \in 0 .. MaxTries
  /\ outcome \in Outcomes
  /\ got \in Nat
  /\ leds \in Nat
  /\ out_alt \in 0 .. 7 /\ in_alt \in 0 .. 7
  /\ changed \in BOOLEAN
  /\ acked \in Seq(Seq(Nat))
  /\ lastSet \in {<< >>} \union {<< s >> : s \in SetupPackets}
  /\ transfers \in 0 .. MaxTransfers
  /\ lost \in 0 .. MaxLost
  /\ corrupted \in 0 .. MaxCorrupted

(***************************************************************************)
(* The requests that are never answered, so that the host gives them up    *)
(* after MaxTries.  With the vendor handler: SET_INTERFACE, blacklisted for*)
(* a handler that is not there; class requests, as only reserved ones are  *)
(* stalled; other vendor requests; and register reads of an even length,   *)
(* whose length has lost its upper bits.  With the audio handler: vendor   *)
(* requests, SET_INTERFACE to what is not an interface, and writes, of the *)
(* clock frequency above all.  With either: reserved writes, whose data    *)
(* nobody answers.                                                         *)
(***************************************************************************)
IsWrite(s) == ~s.in /\ s.length > 0

Blacklisted(s) == s.type = "STANDARD" /\ s.request = SET_INTERFACE

UnansweredByVendor(s) ==
  \/ Blacklisted(s)
  \/ s.type = "CLASS"
  \/ s.type = "VENDOR" /\ (s.request = REGISTER => s.in /\ s.length % 2 = 0)

UnansweredByUac2(s) ==
  \/ Blacklisted(s) /\ (s.interface => s.in /\ s.length > 0)
  \/ s.type = "VENDOR"
  \/ s.type = "CLASS" /\ IF s.request \notin {RANGE, CUR} THEN IsWrite(s)
         ELSE /\ ClockFrequency(s)
              /\ s.request = CUR => s.length = 4
              /\ ~s.in \/ s.length % 16384 = 0

Unanswered(s) ==
  \/ s.type = "RESERVED" /\ IsWrite(s)
  \/ IF block = "vendor" THEN UnansweredByVendor(s) ELSE UnansweredByUac2(s)

(***************************************************************************)
(* Those and no others fail, unless as many packets are lost as the host   *)
(* has tries; and none of those is ever completed or stalled.              *)
(***************************************************************************)
FailsAsListed ==
  /\ outcome = "failed" => Unanswered(setup) \/ lost + corrupted >= MaxTries
  /\ outcome \in {"done", "stalled"} => ~Unanswered(setup)

(***************************************************************************)
(* A read that completes has given the host as much as it asked for, or all*)
(* there is: 1 byte of the register, 14 of RANGE, 4 of CUR.  (A RANGE read *)
(* of 16385 bytes or more is cut to what the lower 14 bits say.)           *)
(***************************************************************************)
Available(s) ==
  CASE s.type = "VENDOR" -> 1
    [] s.type = "CLASS" -> IF s.request = RANGE THEN 14 ELSE 4
    [] OTHER -> s.length

ReadIsWhole ==
  stage = "status_out" /\ setup.length < 16384 =>
    got = MinOf(setup.length, Available(setup))

(***************************************************************************)
(* While no packet is corrupted, the leds are the first byte other than 0  *)
(* that was acknowledged since the reset, however often packets and        *)
(* handshakes are lost and writes repeated, replaced or given up.  (A      *)
(* corrupted packet is latched before its CRC is known, and then stays.)   *)
(***************************************************************************)
Full(packets) == {i \in 1 .. Len(packets) : Nonzero(packets[i]) # {}}

FirstWritten(packets) ==
  IF Full(packets) = {} THEN 0
  ELSE FirstByte(packets[CHOOSE i \in Full(packets) : \A k \in Full(packets) : i <= k])

LedsFirstWritten == corrupted = 0 => leds = FirstWritten(acked)

(***************************************************************************)
(* Selecting an altsetting of one interface clears that of the other, so at*)
(* most one of the two streams; and what is selected is what the last      *)
(* SET_INTERFACE asked for, completed or not.                              *)
(***************************************************************************)
AltSettingOfLast ==
  /\ out_alt = 0 \/ in_alt = 0
  /\ lastSet # << >> /\ block = "uac2" =>
       /\ lastSet[1].index = 1 => out_alt = lastSet[1].value % 8
       /\ lastSet[1].index = 2 => in_alt = lastSet[1].value % 8

=============================================================================
