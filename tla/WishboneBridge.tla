--------------------------- MODULE WishboneBridge ---------------------------
(***************************************************************************)
(* The two Wishbone blocks of the gateware joined by their bus: the bridge *)
(* of simple_ports_to_wb.py as master, the RAM of memory.py as slave, both *)
(* in one clock domain, and a user of the bridge's ports.  The bench user  *)
(* follows simple_ports_to_wb-bench.py: a strobe for one edge, and no other*)
(* strobe before op_rdy_out.  A free user drives the ports as it likes.    *)
(***************************************************************************)
EXTENDS WishboneRam

CONSTANTS
  BusAddresses,  \* values of address_in; more than the RAM has words
  Images,        \* the images a RAM may be initialised with
  None,          \* the user waits for no answer
  MaxResets      \* bound of the model: resets of the clock domain

VARIABLES
  fsm, bus, data_out, op_rdy_out,   \* the bridge
  user,     \* which user drives the ports
  asked,    \* the bench user: the strobe it waits for an answer to
  resets    \* resets so far

Bridge == INSTANCE SimplePortsToWb
            WITH BusWords <- Words, NoData <- Zero, Selects <- SUBSET Lanes

ASSUME BridgeAssumption ==
  /\ BusAddresses \subseteq Nat /\ 0 \in BusAddresses
  /\ Images \subseteq Seq(Bytes)
  /\ MaxResets \in Nat
  /\ None \notin Words \union Bridge!Ports

vars == << ramVars, Bridge!bridgeVars, user, asked, resets >>

Ports == Bridge!Ports
Strobe(p) == p.rd_strb \/ p.wr_strb

Init ==
  /\ RamInit(Images)
  /\ Bridge!BridgeInit
  /\ user \in {"bench", "free"}
  /\ asked = None
  /\ resets = 0

\* What the user sees and drives at the edge.
UserEdge(p) ==
  \/ user = "free" /\ UNCHANGED asked
  \/ /\ user = "bench"
     /\ asked = None
     /\ ~(p.rd_strb /\ p.wr_strb)
     /\ asked' = IF Strobe(p) THEN p ELSE None
  \/ /\ user = "bench"
     /\ asked # None
     /\ ~Strobe(p)
     /\ asked' = IF op_rdy_out THEN None ELSE asked

Edge(p) ==
  /\ Bridge!BridgeEdge(p, ack, dat_r)
  /\ RamEdge(bus)
  /\ UserEdge(p)
  /\ UNCHANGED << user, resets >>

\* The domain's reset is synchronous and reaches bridge, RAM and user alike;
\* the write port still stores what its enables say at that edge.
ResetEdge ==
  /\ resets < MaxResets
  /\ resets' = resets + 1
  /\ Bridge!BridgeResetEdge
  /\ RamResetEdge(bus)
  /\ asked' = None
  /\ UNCHANGED user

Next == (\E p \in Ports : Edge(p)) \/ ResetEdge

Spec == Init /\ [][Next]_vars

\* The clock runs.
FairSpec == Spec /\ WF_vars(\E p \in Ports : Edge(p))

-----------------------------------------------------------------------------
TypeOK ==
  /\ config \in [init : Images, byteorder : {"little", "big"}, read_only : BOOLEAN]
  /\ memory \in [Addresses -> Words]
  /\ dat_r \in Words
  /\ ack \in BOOLEAN
  /\ fsm \in Bridge!FsmStates
  /\ bus \in Bridge!BusState
  /\ data_out \in Words
  /\ op_rdy_out \in BOOLEAN
  /\ user \in {"bench", "free"}
  /\ asked \in Ports \union {None}
  /\ resets \in 0 .. MaxResets

BusWord == memory[LocalAddress(bus.adr)]

\* The selected bytes of the word on the bus are in the memory.
Written == ~config.read_only => \A lane \in bus.sel : BusWord[lane] = bus.dat_w[lane]

(***************************************************************************)
(* The handshake over the bus (simple_ports_to_wb.py:55-76 against         *)
(* memory.py:133-137): no bus cycle is open and no acknowledge pending when*)
(* the bridge is idle, so no ack is taken for that of a later transfer, and*)
(* when an ack is up the word is read, or stored.                          *)
(***************************************************************************)
AckMatchesTransfer ==
  /\ fsm = "IDLE" => bus = Bridge!QuietBus /\ ~ack
  /\ fsm # "IDLE" => bus.cyc /\ bus.stb /\ bus.we = (fsm = "WRITE") /\ ~op_rdy_out
  /\ fsm = "READ" => bus.dat_w = Zero
  /\ fsm = "READ" /\ ack => dat_r = BusWord
  /\ fsm = "WRITE" /\ ack => Written

(***************************************************************************)
(* The answer is on the ports for the one edge of op_rdy_out only, the word*)
(* with it: a user that samples data_out later reads 0.                    *)
(***************************************************************************)
AnswerOneEdge == (op_rdy_out => fsm = "IDLE") /\ (data_out # Zero => op_rdy_out)
ReadyOneEdge == [][op_rdy_out => ~op_rdy_out']_vars

(***************************************************************************)
(* A user that strobes once and waits, as the bench does, gets an answer   *)
(* that is its own: the word now at its address for a read, and for a write*)
(* the selected bytes are stored.  (A strobe held until op_rdy_out is seen *)
(* is taken a second time, and the answer to that may be mistaken for one  *)
(* to the next request: that user is a free one.)                          *)
(***************************************************************************)
AskedWord == memory[LocalAddress(asked.address)]

AnswerIsOwn ==
  user = "bench" /\ op_rdy_out =>
    /\ asked # None
    /\ asked.rd_strb => data_out = AskedWord
    /\ asked.wr_strb /\ ~config.read_only =>
         \A lane \in asked.sel : AskedWord[lane] = asked.data[lane]

\* What the bridge works on is what the bench user waits for.
WorksOnAsked ==
  user = "bench" =>
    /\ asked = None => fsm = "IDLE" /\ ~op_rdy_out
    /\ asked # None => asked.rd_strb = ~asked.wr_strb
    /\ asked # None /\ ~op_rdy_out => fsm = (IF asked.rd_strb THEN "READ" ELSE "WRITE")
    /\ fsm # "IDLE" => bus.adr = asked.address /\ bus.sel = asked.sel
    /\ fsm = "WRITE" => bus.dat_w = asked.data

(***************************************************************************)
(* A read-only RAM holds its image for ever: byte k of it is in word       *)
(* k \div LaneCount, at the place the byte order gives it                  *)
(* (memory.py:36-39, 115-129).                                             *)
(***************************************************************************)
Numeral(bytes, byteorder) ==
  [lane \in Lanes |->
     IF lane >= Len(bytes) THEN 0
     ELSE bytes[IF byteorder = "little" THEN lane + 1 ELSE Len(bytes) - lane]]

Chunk(a) ==
  LET from == a * LaneCount + 1
      to == IF from + LaneCount - 1 < Len(config.init) THEN from + LaneCount - 1
                                                        ELSE Len(config.init)
  IN SubSeq(config.init, from, to)

ImageKept ==
  config.read_only =>
    \A a \in Addresses : memory[a] = Numeral(Chunk(a), config.byteorder)

(***************************************************************************)
(* Every strobe of the bench user is answered, unless a reset forgets it:  *)
(* the bridge waits for ack without a limit and does not look at err, so   *)
(* this rests on the RAM.                                                  *)
(***************************************************************************)
StrobeAnswered == (asked # None) ~> (asked = None)

-----------------------------------------------------------------------------
Busy == fsm # "IDLE"

Memory == INSTANCE WishboneMemory WITH
  read_only <- config.read_only,
  request <- IF Busy THEN [op |-> fsm, adr |-> LocalAddress(bus.adr),
                           dat |-> bus.dat_w, sel |-> bus.sel]
             ELSE None,
  performed <- Busy /\ ack,
  reply <- IF op_rdy_out THEN data_out ELSE None

ASSUME NoneAssumption == None \notin Memory!Requests

(***************************************************************************)
(* Refinement: whatever the user does, bridge and RAM together are a memory*)
(* that takes requests one at a time, performs each once and answers it.   *)
(* The RAM's write enables are up at two edges of a transfer; the second   *)
(* stores the same bytes again and is no step of the memory.               *)
(***************************************************************************)
ServesMemory == Memory!MemSpec

=============================================================================
