---------------------------- MODULE WishboneRam -----------------------------
(***************************************************************************)
(* gateware/memory.py: WishboneRAM, a RAM with byte selects that answers   *)
(* each bus cycle one edge later.  amaranth's Memory is external: its write*)
(* port stores the enabled bytes at the edge, its read port registers the  *)
(* word of the address and is transparent (shows what is written at the    *)
(* same edge); neither is reset.                                           *)
(***************************************************************************)
EXTENDS Naturals, Sequences

CONSTANTS
  Depth,     \* 2 ** local_addr_width
  LaneCount, \* bytes_per_word
  Bytes      \* values of a byte

ASSUME RamAssumption ==
  /\ Depth \in Nat \ {0}
  /\ LaneCount \in Nat \ {0}
  /\ 0 \in Bytes

VARIABLES
  config,  \* the arguments of the constructor: init, byteorder, read_only
  memory,  \* the words
  dat_r,   \* output register of the read port
  ack      \* registered acknowledge

ramVars == << config, memory, dat_r, ack >>

Lanes == 0 .. LaneCount - 1
Words == [Lanes -> Bytes]
Zero == [lane \in Lanes |-> 0]
Addresses == 0 .. Depth - 1

\* The bus carries more address bits than the memory has: adr[:local_addr_width].
LocalAddress(adr) == adr % Depth

\* Faulty variant: a short last chunk is aligned like a full one.
BytePlacePadded(k, length, byteorder) ==
  IF byteorder = "little" THEN k % LaneCount ELSE LaneCount - 1 - (k % LaneCount)

\* Byte k of the image lies in this lane: int.from_bytes of the chunk it is in,
\* and a big-endian chunk that is not full ends at lane 0 all the same.
BytePlace(k, length, byteorder) ==
  LET first == k - (k % LaneCount)
      chunk == IF length - first < LaneCount THEN length - first ELSE LaneCount
  IN IF byteorder = "little" THEN k % LaneCount ELSE chunk - 1 - (k % LaneCount)

\* _initialization_value: the image in chunks of a word, zeros behind it.
InitialMemory(init, byteorder) ==
  [a \in Addresses |-> [lane \in Lanes |->
    LET here == {k \in 0 .. Len(init) - 1 :
                   k \div LaneCount = a /\ BytePlace(k, Len(init), byteorder) = lane}
    IN IF here = {} THEN 0 ELSE init[1 + CHOOSE k \in here : TRUE]]]

RamInit(images) ==
  /\ config \in [init : images, byteorder : {"little", "big"}, read_only : BOOLEAN]
  /\ memory = InitialMemory(config.init, config.byteorder)
  /\ dat_r = Zero
  /\ ack = FALSE

\* Faulty variant: the select lines do not reach the write enables.
WriteEnableWholeWord(bus, lane) ==
  ~config.read_only /\ bus.cyc /\ bus.stb /\ bus.we

WriteEnable(bus, lane) ==
  ~config.read_only /\ bus.cyc /\ bus.stb /\ bus.we /\ lane \in bus.sel

\* The two ports at an edge of the clock.
RamPorts(bus) ==
  LET adr == LocalAddress(bus.adr)
  IN /\ memory' = [memory EXCEPT ![adr] = [lane \in Lanes |->
                     IF WriteEnable(bus, lane) THEN bus.dat_w[lane] ELSE @[lane]]]
     /\ dat_r' = memory'[adr]
     /\ UNCHANGED config

\* Faulty variant: a cycle that writes is not acknowledged.
AckNextReads(bus) == bus.cyc /\ bus.stb /\ ~ack /\ ~bus.we

AckNext(bus) == bus.cyc /\ bus.stb /\ ~ack

RamEdge(bus) == RamPorts(bus) /\ ack' = AckNext(bus)

RamResetEdge(bus) == RamPorts(bus) /\ ack' = FALSE

=============================================================================
