# Verification of the NM120 / DECA capture system

An Arrow DECA board (MAX 10 FPGA) captures words from an ADC and hands them over
USB 2 to a Linux driver and a small user program; an STM32F100 sets up the NM120
tuner chip over I2C. This directory holds TLA+ modules of the parts with state
and concurrency, the TLC configurations that check them, and TLAPS proofs.
`PROJECT.json` lists components, runs, mutants, source lines of every definition,
findings, hazards and theorems.

A capture goes like this: `adc_test` writes a 16-bit word count to
`/dev/deca_adc`; `deca_write` sends it as two bytes to endpoint 3; InjectData
(`usb` clock) decodes it to a 9-bit limit and raises a trigger; the ADC block
(`fast` clock) writes that many words to a dual-clock RAM and sets `done`;
InjectData sends two bytes per word to endpoint 2; the driver's read URB
completes and sets `ready`; a second later the program reads the words.

## Inventory

| component (source) | state | operations | interaction | what is hard | what makes it correct |
|---|---|---|---|---|---|
| ADC block (`gateware/adc.py`; synthesised: `adc_dummy.py`) | FSM, wait counter, synchronisers, limit, address, done | one clock edge; reset | trigger and limit in, done out, RAM write port | pulse and level signals from another clock domain | word n goes to address n, never past the limit; done only over a complete capture |
| InjectData (`inject_data.py`) | FSM, wait counter, synchroniser, limit, trigger, read address, byte counter | one clock edge; reset | stream from endpoint 3, RAM read port, stream to endpoint 2 | `done` is a level, the RAM answers one edge late, the host stalls at will | two bytes per word of the limit, in order, of this capture |
| dual-clock RAM (`simple_dual_two_clocks.vhd`) | words, output register | write edge, read edge | between the two | registered output | - |
| top level (`deca_usb2_adc.py`, `arrow_deca.py`) | clocks, reset button, endpoint FIFOs | wiring | everything above | two clocks, resets at any point | nothing lost but by a reset, nothing stuck |
| driver, data path (`deca_adc_interface.c`) | `ready`, `word_count`, two URBs, `data` | write, read, two callbacks | URBs to the device, calls from users | no lock; no status checked; submission errors dropped | what is read is the answer to the last write |
| driver, life cycle (same file) | globals `deca_g`, `data`, class, major number | probe, error path, disconnect, open | USB core, open files | partial failures, files that outlive the device | nothing used after it is freed, a device can come back |
| user program (`adc_test.c`) | - | write, sleep, read | driver | a sleep instead of waiting | asks for counts the rest can answer |
| Wishbone bridge and RAM (`simple_ports_to_wb.py`, `memory.py`) | FSM, bus registers, ack, words | one clock edge; reset | each other; not part of the top level | held strobes, an ack that comes an edge late, `err` not looked at | each request performed once and answered with its own word |
| request handlers (`requesthandlers.py`) | `leds`, two altsettings | one packet of a control transfer | endpoint 0 (LUNA) | lost and corrupted packets, retries, transfers given up | a read is whole, a repeated write changes nothing, what is not handled is refused |
| firmware delay (`stupid_delay.c`) | 64-bit `delay_val` | delay calls, SysTick interrupt | main program and interrupt | a two-word variable shared with an interrupt | waits as long as asked and ends |
| firmware I2C, NM120 (`i2c.c`, `nm120.c`) | peripheral registers, chip's registers | call, flag seen; read, write, check of a register | I2C slave | flag loops without timeout, ACK and STOP against the byte under way, ignored writes | bytes in order, bus released, a checked register stays |
| SPI, flash, UART, bit-banged I2C | peripheral registers | register programming | - | - | - |

## Modules

| module | models | notes |
|---|---|---|
| `CaptureParams` | widths and start-up wait | `LowMod` = 2^8, `Depth` = 2^9 in the code; `Depth = 2 * LowMod` is assumed |
| `Adc` | `adc.py` | `AdcEdge(trig, limit, dry)` is one edge of the clock, one operator per FSM state |
| `AdcDummy` | `adc_dummy.py` | the block the top level instantiates; its data counter is kept |
| `DualPortRam` | the VHDL RAM | `RamWriteEdge`, `RamReadEdge` |
| `InjectData` | `inject_data.py` | `InjEdge(done, valid, last, payload, ready)`, one operator per FSM state |
| `CaptureGateware` | the wiring: both blocks, RAM, endpoint 3, button | actions `FastEdge`, `UsbEdge`, `HostCommand`, `PressButton`, `ReleaseButton` |
| `CaptureService` | abstract: commands served in order, 2 bytes per word | refined by `CaptureGateware`; the device of `DecaDriver` |
| `DecaDriver` | the driver's data path with a user like `adc_test` | one action per access that another context can see |
| `DriverLifecycle` | probe, error path, disconnect, open files with their reads and writes, URBs | one action per allocation or release, and per step of a read or a write |
| `SimplePortsToWb` | the bridge | `BridgeEdge(p, ack, dat_r)`, one operator per FSM state |
| `WishboneRam` | `memory.py` | `RamEdge(bus)`: both ports and `ack`; the image of the constructor |
| `WishboneBridge` | bridge, RAM and a user of the ports on one bus | the user waits as the bench does, or is free |
| `WishboneMemory` | abstract: a memory that takes one request at a time | refined by `WishboneBridge` |
| `ControlRequests` | both request handlers, endpoint 0 and a host that retries | one action per packet |
| `Delay` | `stupid_delay.c` | one action per access to a word of `delay_val`, and `SysTick` |
| `I2c` | `i2c.c`, the peripheral and a chip | what the program does from one flag loop to the next, and one action per event on the bus |
| `Firmware` | `nm120.c`, `main.c` over `Delay` and `I2c` | the list of registers is the constant `Script` |
| `MCCaptureGateware`, `MCDecaDriver`, `MCWishboneBridge`, `MCControlRequests`, `MCFirmware` | constants for TLC | |
| `AdcProofs`, `AdcDummyProofs`, `CaptureProofs`, `WishboneBridgeProofs`, `ControlRequestsProofs`, `FirmwareProofs`, `DecaDriverProofs`, `DriverLifecycleProofs` | theorems | |

**Gateware: how state and steps correspond.** A register of the HDL is a variable
of the same name, a rising clock edge is an action, and all registers of a domain
are loaded from the values before the edge. Synchroniser stages (`FFSynchronizer`
and the `_1` registers) are variables. Outputs that are a function of the state
(`encode`, `data_ready`, the stream's valid, last and payload) are operators. A
word of the RAM is represented by its origin: the sample's index in its capture
and the command it was captured for; the conversion data itself does not matter
to any property. History variables (`issued`, `capturing`, `runs`, `sent`,
`answered`, `samples`) record origins and influence no step.

**Clocks.** One PLL makes `fast` 21/6 of `usb` (`arrow_deca.py:27-45`). The model
lets 3 or 4 fast edges fall between two usb edges, in any pattern; 3.5 is the case
that alternates. The phase shift keeps edges apart, so no edge is simultaneous
with another.

**What is assumed of what is not in `src/`.** LUNA's stream endpoints hand over a
two-byte packet in order, with `last` on the second byte, and refuse a packet when
full; `ready` of endpoint 2 is free at every edge, which covers a host that stalls
and both of its buffers; zero-length packets carry no byte. A button press is long
against both clocks, so each domain has a reset edge before it is released. The
nine bits of the limit are sampled together (see *Not modelled*).

**Driver: how state and steps correspond.** `deca_write` is `Write`,
`SetWordCount`, `SendWordCount`; `deca_read` is `Read`, `CheckLength`,
`CopyToUser`, `ClearReady`, `ClearWordCount`; the callbacks are `WriteBulkCallback`
and `ReadBulkCallback` with `SetReady`. They interleave in every way. A URB is
`idle`, `submitted` or `done` (transferred, callback not run); submitting one that
is not idle fails, which the code only logs. `TxTransfer` sends `word_count` in
place, as the code passes `&deca->word_count` to the URB. The user is patient: it
writes when what it did before has come to rest (`Settled`), as `adc_test` sleeps
a second, and reads whenever it likes. `Settled` takes it that the second is long
enough: a callback that is still to run at the next write, and an answer that
comes after it, are left out, so `AnswerInStep`, `BufferAtRest` and `CountStable`
say nothing of them.

In `DriverLifecycle` the calls on a file are cut where another context can come
between: `deca_read` into `ReadCheck`, `ReadCopy` (`copy_to_user` begins, with the
buffer `data` points to by then) and `ReadDone`, `deca_write` into `WriteCall`
(its checks, then `get_user`, which may sleep), `WriteStore` and `WriteSubmit`. No
step needs a live structure: a call goes on after `kfree(deca)`, may pass a check
or not, as what it finds there is arbitrary, and what it stores there is lost,
since freed memory is not handed out again in the model. The USB core disables the
endpoints and ends the transfers before it calls `disconnect`; a driver with
`suspend` and no `resume` is unbound over a sleep, so `suspend` itself is never
called and a sleep is `Unbind` followed by `Probe`.

**Bridge: how state and steps correspond.** An edge loads bridge, RAM and user at
once. The ports are free inputs of every edge; the bench user
(`simple_ports_to_wb-bench.py`) strobes for one edge and strobes again only after
`op_rdy_out`. amaranth's `Memory` is external: its write port stores the enabled
bytes at the edge, its read port is transparent, and neither is reset. The
bridge's `leds` shows the state and is left out, `err` is never looked at.
`WishboneROM` is the case `read_only`; as written it cannot be constructed, since
it does not pass the required argument `simulate`.

**Control requests: how state and steps correspond.** The host sends SETUP, then
the packets of data and status stage, each up to three times; any packet or
handshake may be lost, a data packet corrupted, a transfer given up for the next.
LUNA is external: it acknowledges SETUP, shows its fields until the next SETUP,
passes received bytes on before their CRC is known, asks for a handshake only
after a good packet, and its serializer sends nothing for a length of 0. Handlers
whose conditions do not hold drive nothing, and a packet no handler answers times
out at the host. `max_length` is one bit wide in the vendor handler and 14 in the
audio handler, so `wLength` is cut. `m.Case()` without a pattern is the default.
The design attaches the vendor handler; the audio handler is checked in its place.

**Firmware: how state and steps correspond.** A byte on the bus takes over 2000
processor cycles and the program under 100 from one flag loop to the next, so an
`I2c` action is the whole of that way. `delay_val` is stored and loaded in words:
the build is `-O0`, and a tick (every 240 cycles) may fall between them, or make
`strd` and `ldrd` begin again; at most one falls into a pair. Peripheral and chip
are external, after the reference manual: flags are set by bus events, ACK
decides whether the chip goes on sending, STOP ends a transfer; the chip may fail
to acknowledge a byte (`AF`, which no loop looks at) or ignore a write.
`Delays` are those the firmware asks for: whole ticks below 2^32. `delay_ms`
above 4 294 967 ms wraps, `delay_us` rounds down to tens and below 10 us does not
wait at all; no caller depends on either.

## Runs

| run | what it shows | bounds | distinct states |
|---|---|---|---|
| `capture_any_converter` | both domains, `adc.py` with a converter of any speed, host that stalls at will, reset at any point: addresses, bounds, the word of each low byte, `done`, the first answer, `ImplementsService`; under fairness no command is left waiting (`NeverStuckWaiting`) and the service is as fair as promised (`ServesEveryCommand`) | 8 words, 2-bit bytes, counts 0, 1, 2, 5, 8, three commands, one press | 225 000 |
| `capture_dummy` | the synthesised design: what holds only because the capture outruns the answer - fresh low bytes, high bytes at most a word behind, ADC idle whenever a command can come, every trigger captured, trigger and limit together | same, `dry` high | 109 000 |
| `adc_dummy` | ADC_dummy with free pins: data is the address, and it implements `Adc` | 8 words | 17 000 |
| `driver` | every interleaving of calls and callbacks; what is read is the answer to the last write, from a buffer at rest; the count does not change under `tx_urb`; backlog at most one per failed `rx_urb`; writes are answered | counts 0, 1, 2, 5, four writes, two failed `tx_urb`, one failed `rx_urb` | 22 000 |
| `lifecycle` | one device that goes and comes back, files left open and their calls under way meanwhile, transfers under way, any allocation failing: what is bound is whole, transfers use live memory, a read past its checks has its own buffer until the last `kfree`, every probe succeeds until something has failed, nothing is left behind or freed twice | two probes, two files | 457 000 |
| `bridge` | a bench user and a free one, both byte orders, read-only or not, reset at any edge: acknowledges match transfers, a waiting user gets its own answer, a read-only RAM keeps its image, every strobe is answered, and the pair is a memory | two words of two one-bit bytes, an address beyond the RAM, one reset | 48 000 |
| `requests` | every kind of request to both handlers: which are never answered, what a read brings, what `leds` and the altsettings hold | three transfers of three tries, two packets lost, one corrupted | 162 000 |
| `firmware` | a short `nm120_init` with ticks between any two accesses: delays are exact, reads in order, a checked register stays, the set-up ends | nine operations on registers of one and four bytes, one NACK, one ignored write, 5-bit words | 16 000 |
| `stale_done`, `torn_word`, `count_kept`, `open_file` | findings, below | | |

Why the bounds are enough. Three commands: the state that passes from one command
to the next (`done`, `adc_limit`, the RAM's output register, the words in the RAM)
is rewritten by each, so the third command meets nothing the second did not. Eight
words with 2-bit bytes keep the relations of 512 and 8 bits (`Depth = 2 * LowMod`,
a count whose second byte sets the top bit, a count equal to `Depth` that decodes
to 0); what could depend on the width is proved for all of them. The start-up wait
is 2 cycles in place of 30 000 000. One press meets every state of every command,
and its two reset edges fall in any order. Four writes are one more than is
needed to see an answer that is one write late. Two probes are a device and
its return, after a disconnect or after a failed probe, so that a file of the first
meets the structure and buffer of the second; with two files, calls on both are
under way at once. Two words and two bytes tell a word from its
neighbour and a lane from the other, and the second image ends inside a word.
Three transfers are a write, its repetition and what comes after; the lost packets
are one less than the host has tries, plus a corrupted one that makes it fail. Of
the firmware's registers the script has each kind of access once, and the word is
wide enough for five ticks and no more, so a wrapped count shows at once.

`CHECK_DEADLOCK FALSE` is set where users or a bounded number of probes may rest;
the gateware runs check deadlock, since clocks never stop.

**Fairness.** `CaptureGateware`: the two clocks tick (strong fairness, since each
can only tick a bounded number of times without the other), the converter finishes
a conversion and the host goes on polling endpoint 2 (the edges that are fair are
those with `dry` and `ready` true), and a pressed button is let go (weak). Without
the third and fourth an answer may rightly wait for ever. Commands and presses are
not fair. `DecaDriver`: a call in progress runs on, and the bus and the interrupts
are served; nobody has to call, and no transfer has to fail. `WishboneBridge`: the
clock ticks. `Firmware`: the processor runs, the timer ticks and the bus goes on;
all weak, and none of them is fair to a particular choice of the chip.

## Findings

| run | disagreement |
|---|---|
| `stale_done` | `WAIT_FOR_ADC` sees `done` of the previous capture, so every answer but the first starts before its own capture. With ADC_dummy the low bytes are nevertheless fresh (`LowByteFresh`); with a slower converter they would not be. |
| `torn_word` | The high byte is taken at the edge after the address has stepped, when the RAM still shows the previous word. With endpoint 2 ready every cycle the halves of a word are of different samples. |
| `count_kept` | `get_user(x, buf)` with `char *buf` takes one byte. Counts above 255 are cut, though `adc_test` accepts up to 512; the read then fails on its length. |
| `open_file` | `disconnect` frees the structure that open files still refer to, and the check `if (!deca)` cannot notice: a read or a write that comes after it works on freed memory, and so does one that it overtakes, past its checks or asleep in `get_user`, since there is no lock. (A failed `device_create` frees it too and leaves the major number registered, so that `open` hands it out; the run is for no failed allocation.) |

Met on the way, shown by the conditions of properties that hold: a failed
`rx_urb` leaves every later answer one write late (`AnswerInStep` is for no
failed `rx_urb`, `BacklogBounded` says how late); the error path of probe undoes
neither the class nor the major number, so no later probe succeeds
(`NothingLeft`, `ReplugBinds`); 512 decodes to limit 0 and would be dropped
without an answer (`CaptureService!Limit`); the trigger is up for four fast edges
and a one-word capture takes fewer, so `IDLE` may see it again and capture the
same word twice, which costs the data nothing (`TriggerCaptured` allows it);
`unlink_all_urbs` kills `rx_urb`, then `tx_urb`, whose callback submits `rx_urb`
again, which outlives `kfree(deca)` only where a failed `device_create` has left
the structure open to files (excluded by the condition of `TransfersLive`); a byte
of a register write is latched before its CRC is known and only while `leds` is 0,
so that a corrupted try stays and the good retry changes nothing (excluded by the
condition of `LedsFirstWritten`); a vendor or class request without a handler is
never answered instead of stalled, and so are even lengths of the register and every write of the clock frequency (`FailsAsListed`); a strobe
held until `op_rdy_out` is seen is taken twice, and of two strobes at once the
write is lost (`AnswerIsOwn` is for the user that waits as the bench does); a NACK
hangs the firmware (`SetUpEnds`).

## Proofs

All theorems are for every value of the constants that satisfies the named
assumptions of their modules: every width, clock ratio, converter, host, script,
number of commands, resets, writes, probes, losses and failures. Only the five
that depend on the ratio of the clocks are for the one that is synthesised.

| theorem | says |
|---|---|
| `AdcCorrect` | `Adc` by itself, any pins: types and `SampleGoesToItsAddress` |
| `DummyCorrect` | ADC_dummy: types and `CounterIsAddress` |
| `DummyRefines` | ADC_dummy implements `Adc` with `dry` tied high |
| `TypeCorrect`, `AnswerBounded`, `LowByteCorrect` | `TypeOK`, `AnswerInBounds`, `LowByteOwnWord` of the composed system |
| `DoneIsComplete` | `DoneMeansCaptured` and `SampleGoesToItsAddress` |
| `FirstAnswerCorrect` | `FirstAnswerWaits` |
| `LowByteOfThisCommand`, `HighByteOneBehind`, `AdcIsReady`, `TriggerIsSeen`, `CaptureIsOfCommand` | `LowByteFresh`, `HighByteLag`, `AdcReadyForCommand`, `TriggerCaptured`, `CaptureMatchesCommand`, for the synthesised clocks and ADC_dummy |
| `Refinement` | `CaptureGateware` implements `CaptureService!Spec` |
| `BridgeCorrect`, `HandshakeCorrect`, `ReadyCorrect` | types and `AnswerIsOwn`; `AckMatchesTransfer`; answer and `op_rdy_out` are up for one edge |
| `ImageCorrect` | `ImageKept`, for images of any length |
| `BridgeRefines` | bridge and RAM implement `WishboneMemory` (`ServesMemory`) |
| `RequestsFail`, `ReadsWhole`, `AltSettingCorrect`, `LedsCorrect` | the four properties of `ControlRequests` |
| `DelayCorrect` | `DelayExact` of the whole firmware |
| `ReadCorrect`, `CheckedCorrect` | `ReadReturns` and `CheckedIsKept` of the whole firmware |
| `BacklogCorrect`, `AnswerCorrect`, `BufferCorrect`, `CountCorrect` | the four invariants of `DecaDriver`, for one user |
| `BoundCorrect`, `TransfersCorrect`, `ReadsCorrect`, `GoneCorrect`, `ReplugCorrect`, `FreeCorrect` | the six properties of `DriverLifecycle`, for one device |

The argument for the composed capture system is the inductive invariant `IInv` of
`CaptureProofs`, by a lemma for each of the four kinds of step (`FastEdgeInv`,
`UsbEdgeInv`, `HostCommandInv`, `ButtonInv`):

- `AdcInv`, `AnswerInv`: each state machine's own invariant, proved once for any
  values of its pins (`AdcEdgeInv`, `InjEdgeInv`), so the composition only shows
  that the pins are of their types.
- `MemoryInv`: every word of the RAM is at the address of its index. Without it
  `LowByteOwnWord` is not inductive: it says what the output register holds, and
  the register is loaded from the RAM.
- `CaptureInv`: `DoneMeansCaptured` speaks of the end of a capture only;
  `CapturedSoFar` is its version for the middle of one, and `done` is up in `IDLE`
  only, so a later write cannot spoil it.
- `PacketInv`: after the first byte of a packet the limit is that byte. Needed for
  the refinement: `Begin` of the service decodes the count at once, the gateware
  in two steps.

The refinement maps the service's queue to the packets of endpoint 3 and its
`remaining` to `BytesToSend`; an edge that takes the second byte is `Begin`, one
that hands over a byte is `SendByte`, a reset edge is `Restart`, and all others
stutter.

`FirstAnswerWaits` needs `FirstInv`, which follows a command through the
synchronisers. Until a command is taken the ADC is out of a capture and nothing
of `done` is on its way (`Quiet`). Once it is, every stage of the trigger carries
the same stage of the limit, since both cross through as many flip-flops, and
`done` anywhere on its way means that this capture is complete (`ServingFirst`).
While the button is pressed a domain that has seen it has all of this cleared
(`ResetInv`). No clock ratio enters.

*Clock ratio.* The other five properties of the capture hold because the capture
outruns the answer. Their hypothesis `Synthesised` is that `dry` is always high,
as ADC_dummy has it, and that three or four fast edges fall into a period of the
usb clock: 21/6 times its frequency (`arrow_deca.py:27-45`). `RatioInv` needs no
clock to say so. Time is read off the state: while a capture runs, `CaptureAge` is
the number of fast edges since its command was complete, from the FSM state and
`addr`; the answer has taken at least `1 + counter` usb edges; and the one is at
least three times the other, plus the edges since the last usb edge (`ServePart`).
An answer takes at least two usb edges to a word, six fast ones, and a capture two
fast ones, so `addr` stays ahead (`WordReady`) and the capture is over before the
answer ends (`LastIsLate`, `RestPart`).
`TriggerPart` follows the one usb period of the trigger through the flip-flops.
After a reset both start-up waits run (`WaitPart`, `StartPart`); while the button
is pressed what has been sampled is frozen (`FrozenPart`).

*Bridge.* `AckMatchesTransfer`, `AnswerIsOwn` and what they need of each other:
the bus is quiet and `ack` down in `IDLE`, and the bridge works on what the user
waits for (`WorksOnAsked`). The refinement maps the edge that takes a strobe to
`Accept`, the one at which the RAM raises `ack` to `Perform`, the one at which the
bridge sees it to `Answer`; the second edge with the write enables up stores the
same bytes and stutters. `ImageKept` says where each byte of an image is found;
`ImageInv` says that a read-only memory is the one the constructor made, and the
lemma on quotient and remainder of a byte's place (`WordOfByte`, `ByteOfWord`)
that the chunks of the constructor put it there, in a last chunk that is short too
(`PlaceInChunk`).

*Control requests.* A request that is not answered never leaves its first stage,
and one that is answered is only tried again for a loss (`Safe`), by the lemma
that one handler at most replies (`OneHandler`); the data stage brings what is
there (`ReadIsWhole`). `LedsInv` and `AltInv` are independent of both: appending a
packet does not change which full packet is the first.

*Delay.* `DelayInv`: the high word is always 0, since no delay reaches 2^32; the
low word is what is left from its store on and a whole number of ticks, so it
never passes 0; and a low word found 0 stays 0 while the high word is loaded.

*I2C and set-up.* `BusInv` says for each flag loop of `i2c.c` what peripheral and
chip are at: the flag set, the event under way that will set it, or a refused byte
and a flag that never comes; with how much of the call has gone over the bus
(`BtfPart`, `RxnePart`), and ACK up exactly as long as another byte is to come.
`ReadReturns` and `CheckedIsKept` need each other's caller: the size of a read is
that of the register last told, and a write that is under way is of a register that
is not among those checked (`ScriptInv`). Assumed of chip and script: a register is
told by two bytes and has some (`RegisterAssumption`), and is accessed as a whole
(`ScriptAssumption`): `nm120.c` uses the `_u8` functions for registers below 0x100
and the `_u32` functions for the others.

*Driver.* The backlog rests on `Held`, commands and answers in the device: it is
bounded by failed transfers of `rx_urb`, with one more while an answer is
fetched, and if a user writes under a `tx_urb` that is still submitted, the device
is full and will stay so (`Stuck`). `StepInv` says that before any failure there is
one thing going on at a time: a write finds everything at rest, its command and
its answer are the only ones under way, and `ready` is up only over an answer to
the last write. `OneUser` is assumed: without a lock two users share
`word_count`, and the code promises nothing.

*Life cycle.* `LifeInv` says for each point of probe, error path and disconnect
what the globals are (`OwnPart`), which structure and URBs exist (`StructPart`),
whose the buffer is (`BufferPart`), what is registered and why a probe is undone
(`RegisteredPart`), who can use the structure and what is under way
(`TransferPart`), and what a call has before it: a read past its checks has an
answer in the structure's own buffer, from before `ready` was set until the
structure is gone, which is before the buffer (`CallPart`). `OneDevice` is assumed: `deca_g` and `data` are globals.

Only model-checked: liveness under fairness (`NeverStuckWaiting`,
`ServesEveryCommand`, `WriteAnswered`, `StrobeAnswered`, `SetUpEnds`), which is
out of the prover's reach, as are ENABLED, induction over data and RECURSIVE
operators (the modules have none). Every safety property of the passing runs is a
theorem.

## Not modelled

- Bits of the limit that settle in different cycles at the synchroniser
  (`adc.py:59`): the limit is sampled whole.
- A reset of the device under the driver: `DecaDriver` uses the service without
  `Restart`. On the bus a device that is reset is a new device, which is the
  unbinding and probe of `DriverLifecycle`.
- Two users of the driver at once: there is no lock and no promise. `Users` is a
  constant; the run has one.
- Callbacks and answers that come later than the second for which the user
  sleeps, and how a user that does not wait gets on (`Settled`, above).
- Freed memory that is handed out again, to another part of the kernel or to the
  next probe: a call that goes on after `kfree` is seen to do so, but not what it
  overwrites. Nor an `open` that has found the file operations before
  `unregister_chrdev` and runs after it.
- A strobe of the Wishbone ports held longer than an edge, or two at once: the free
  user drives them, but only types, handshake and refinement are claimed of it.
- Two devices: `Devices` is a constant of `DriverLifecycle`; the globals admit one.
- The USB core and PHY (LUNA), amaranth's memory, the I2C peripheral and the chip:
  external, as far as the code in `src/` uses them.
- Descriptors, pins and LEDs: without state that anything depends on. The vendor
  handler's `leds` are modelled; the top level does not connect them.
- SPI, flash and UART program registers and keep no state; `i2c_bitbang.c` is not
  built.
- The benches but `simple_ports_to_wb-bench.py`: stimulus of fixed length for
  blocks that are modelled with free inputs. `inject_data-bench.py` drives ports
  `InjectData` no longer has and cannot run.

## Plan

Done: the capture path and its refinement; the driver's data path on top of its
service and its life cycle; bridge and RAM with theirs; the request handlers; the
firmware's delay, I2C and set-up; proofs of all their safety properties.

1. `CaptureSkew`: bits of the limit and the trigger arriving in different cycles.
2. `CaptureSystem`: the driver over a device that restarts.
