------------------------ MODULE WishboneBridgeProofs ------------------------
(***************************************************************************)
(* Proofs about WishboneBridge, for memories of every size and width, every*)
(* user and any number of resets: the handshake over the bus, that each    *)
(* answer is the user's own, that bridge and RAM implement WishboneMemory, *)
(* and that a read-only RAM holds its image.                               *)
(***************************************************************************)
EXTENDS WishboneBridge, TLAPS

USE DEF Bridge!FsmStates

IInv == TypeOK /\ AckMatchesTransfer /\ AnswerOneEdge /\ WorksOnAsked /\ AnswerIsOwn

(***************************************************************************)
(* The address within the memory is one of its words.                      *)
(***************************************************************************)
LEMMA LocalAddressType ==
  ASSUME NEW a \in BusAddresses
  PROVE  LocalAddress(a) \in Addresses
BY RamAssumption, BridgeAssumption DEF LocalAddress, Addresses

\* The word 0 is a word, and the quiet bus a state of the bus.
LEMMA QuietTypes == Zero \in Words /\ Bridge!QuietBus \in Bridge!BusState
<1>1. Zero \in Words
  BY RamAssumption DEF Zero, Words
<1> QED
  BY <1>1, BridgeAssumption DEF Bridge!QuietBus, Bridge!BusState

\* The initial states satisfy the invariant.
LEMMA InitInv == Init => IInv
<1> SUFFICES ASSUME Init PROVE IInv
  OBVIOUS
<1> USE DEF Init, RamInit, Bridge!BridgeInit
<1> USE DEF Addresses, Words, Lanes
<1>1. memory \in [Addresses -> Words]
  <2>1. ASSUME NEW a \in Addresses, NEW lane \in Lanes
        PROVE  memory[a][lane] \in Bytes
    <3> DEFINE here == {k \in 0 .. Len(config.init) - 1 :
                  k \div LaneCount = a /\ BytePlace(k, Len(config.init), config.byteorder) = lane}
    <3>1. memory[a][lane] = IF here = {} THEN 0 ELSE config.init[1 + CHOOSE k \in here : TRUE]
      BY DEF InitialMemory
    <3>2. config.init \in Seq(Bytes)
      BY BridgeAssumption
    <3>3. CASE here = {}
      BY <3>1, <3>3, RamAssumption
    <3>4. CASE here # {}
      <4>1. PICK k \in here : k = CHOOSE j \in here : TRUE
        BY <3>4
      <4>2. 1 + k \in 1 .. Len(config.init)
        BY <4>1, <3>2
      <4> QED
        BY <4>1, <4>2, <3>1, <3>2, <3>4
    <3> QED
      BY <3>3, <3>4
  <2>2. memory = [a \in Addresses |-> [lane \in Lanes |-> memory[a][lane]]]
    BY DEF InitialMemory
  <2> QED
    BY <2>1, <2>2
<1>2. TypeOK
  <2>1. ack \in BOOLEAN /\ op_rdy_out \in BOOLEAN
    BY Zenon
  <2>2. Zero \in Words /\ bus \in Bridge!BusState
    BY QuietTypes
  <2>3. 0 \in 0 .. MaxResets
    BY BridgeAssumption
  <2> QED
    BY <1>1, <2>1, <2>2, <2>3 DEF TypeOK
<1>3. AckMatchesTransfer /\ AnswerOneEdge
  BY DEF AckMatchesTransfer, AnswerOneEdge
<1>4. WorksOnAsked /\ AnswerIsOwn
  BY DEF WorksOnAsked, AnswerIsOwn
<1> QED
  BY <1>2, <1>3, <1>4 DEF IInv

(***************************************************************************)
(* The RAM at an edge, whatever is on the bus: types, what is stored, and  *)
(* that without a write enable nothing changes.                            *)
(***************************************************************************)
LEMMA RamPortsStore ==
  ASSUME TypeOK, RamPorts(bus)
  PROVE  /\ memory' \in [Addresses -> Words]
         /\ dat_r' \in Words
         /\ config' = config
         /\ dat_r' = memory'[LocalAddress(bus.adr)]
         /\ (~bus.we \/ ~bus.cyc \/ config.read_only) => memory' = memory
         /\ bus.we /\ bus.cyc /\ bus.stb /\ ~config.read_only =>
              /\ \A lane \in bus.sel :
                   memory'[LocalAddress(bus.adr)][lane] = bus.dat_w[lane]
              /\ memory' = Memory!Stored(memory, LocalAddress(bus.adr), bus.dat_w, bus.sel)
<1> DEFINE adr == LocalAddress(bus.adr)
<1>1. adr \in Addresses /\ bus.dat_w \in Words /\ bus.sel \subseteq Lanes
  BY LocalAddressType DEF TypeOK, Bridge!BusState
<1> USE DEF Words
<1>2. memory' = [memory EXCEPT ![adr] = [lane \in Lanes |->
                  IF WriteEnable(bus, lane) THEN bus.dat_w[lane] ELSE memory[adr][lane]]]
  BY DEF RamPorts
<1>3. memory' \in [Addresses -> Words]
  BY <1>1, <1>2 DEF TypeOK
<1>4. dat_r' = memory'[adr] /\ config' = config
  BY DEF RamPorts
<1>5. ASSUME ~bus.we \/ ~bus.cyc \/ config.read_only
      PROVE  memory' = memory
  <2>1. \A lane \in Lanes : ~WriteEnable(bus, lane)
    BY <1>5 DEF WriteEnable
  <2> QED
    BY <2>1, <1>1, <1>2 DEF TypeOK
<1>6. ASSUME bus.we, bus.cyc, bus.stb, ~config.read_only
      PROVE  /\ \A lane \in bus.sel : memory'[adr][lane] = bus.dat_w[lane]
             /\ memory' = Memory!Stored(memory, adr, bus.dat_w, bus.sel)
  <2>1. \A lane \in Lanes : WriteEnable(bus, lane) <=> lane \in bus.sel
    BY <1>6 DEF WriteEnable
  <2> QED
    BY <2>1, <1>1, <1>2 DEF TypeOK, Memory!Stored
<1> QED
  BY <1>1, <1>3, <1>4, <1>5, <1>6

\* The registers of the bus, given one by one.
LEMMA BusRecord ==
  ASSUME NEW a \in BusAddresses, NEW d \in Words, NEW w \in BOOLEAN,
         NEW l \in SUBSET Lanes
  PROVE  [adr |-> a, dat_w |-> d, we |-> w, sel |-> l, cyc |-> TRUE, stb |-> TRUE]
           \in Bridge!BusState
BY Zenon DEF Bridge!BusState

(***************************************************************************)
(* The bridge at an edge, in terms of the transfer it begins or ends.      *)
(***************************************************************************)
LEMMA BridgeTypes ==
  ASSUME TypeOK, NEW p \in Ports, Bridge!BridgeEdge(p, ack, dat_r)
  PROVE  /\ fsm' \in Bridge!FsmStates
         /\ bus' \in Bridge!BusState
         /\ data_out' \in Words
         /\ op_rdy_out' \in BOOLEAN
<1> USE DEF TypeOK
<1>0. \A b \in Bridge!BusState : [Bridge!QuietBus EXCEPT !.dat_w = b.dat_w] \in Bridge!BusState
  BY QuietTypes DEF Bridge!BusState
<1>1. CASE Bridge!Idle(p)
  <2>1. op_rdy_out' \in BOOLEAN
    BY <1>1, Zenon DEF Bridge!Idle
  <2>2. data_out' \in Words
    BY <1>1, QuietTypes DEF Bridge!Idle
  <2>3. fsm' \in Bridge!FsmStates /\ bus' \in Bridge!BusState
    <3>1. /\ p.address \in BusAddresses /\ p.data \in Words /\ p.sel \in SUBSET Lanes
          /\ bus \in Bridge!BusState /\ bus.dat_w \in Words
      BY DEF Ports, Bridge!Ports, Bridge!BusState
    <3>2. CASE p.rd_strb
      <4>1. [adr |-> p.address, dat_w |-> bus.dat_w, we |-> FALSE, sel |-> p.sel,
             cyc |-> TRUE, stb |-> TRUE] \in Bridge!BusState
        BY <3>1, BusRecord, Zenon
      <4> QED
        BY <1>1, <3>2, <4>1, Zenon DEF Bridge!Idle, Bridge!StartTransfer
    <3>3. CASE ~p.rd_strb /\ p.wr_strb
      <4>1. [adr |-> p.address, dat_w |-> p.data, we |-> TRUE, sel |-> p.sel,
             cyc |-> TRUE, stb |-> TRUE] \in Bridge!BusState
        BY <3>1, BusRecord, Zenon
      <4> QED
        BY <1>1, <3>3, <4>1, Zenon DEF Bridge!Idle, Bridge!StartTransfer
    <3>4. CASE ~p.rd_strb /\ ~p.wr_strb
      BY <1>1, <3>1, <3>4 DEF Bridge!Idle, Bridge!StartTransfer
    <3> QED
      BY <3>2, <3>3, <3>4
  <2> QED
    BY <2>1, <2>2, <2>3
<1>2. CASE Bridge!Read(ack, dat_r)
  <2>1. op_rdy_out' \in BOOLEAN
    BY <1>2, Zenon DEF Bridge!Read, Bridge!bridgeVars
  <2>2. data_out' \in Words /\ fsm' \in Bridge!FsmStates /\ bus' \in Bridge!BusState
    BY <1>0, <1>2 DEF Bridge!Read, Bridge!bridgeVars
  <2> QED
    BY <2>1, <2>2
<1>3. CASE Bridge!Write(ack)
  <2>1. op_rdy_out' \in BOOLEAN
    BY <1>3, Zenon DEF Bridge!Write, Bridge!bridgeVars
  <2>2. data_out' \in Words /\ fsm' \in Bridge!FsmStates /\ bus' \in Bridge!BusState
    BY <1>3, QuietTypes DEF Bridge!Write, Bridge!bridgeVars
  <2> QED
    BY <2>1, <2>2
<1> QED
  BY <1>1, <1>2, <1>3 DEF Bridge!BridgeEdge

\* Types are kept by an edge that is not a reset.
LEMMA EdgeTypes ==
  ASSUME TypeOK, NEW p \in Ports, Edge(p)
  PROVE  TypeOK'
<1>1. RamPorts(bus) /\ ack' = AckNext(bus)
  BY DEF Edge, RamEdge
<1>2. memory' \in [Addresses -> Words] /\ dat_r' \in Words /\ config' = config
  BY <1>1, RamPortsStore
<1>3. ack' \in BOOLEAN
  BY <1>1, Zenon DEF AckNext, TypeOK
<1>4. /\ fsm' \in Bridge!FsmStates /\ bus' \in Bridge!BusState
      /\ data_out' \in Words /\ op_rdy_out' \in BOOLEAN
  BY BridgeTypes DEF Edge
<1>5. asked' \in Ports \union {None} /\ user' = user /\ resets' = resets
  BY DEF Edge, UserEdge, TypeOK
<1> QED
  BY <1>2, <1>3, <1>4, <1>5 DEF TypeOK

(***************************************************************************)
(* An edge in IDLE: the bus was quiet, so the RAM neither stores nor       *)
(* acknowledges, and a strobe puts the user's request on the bus.          *)
(***************************************************************************)
LEMMA IdleInv ==
  ASSUME IInv, TypeOK', NEW p \in Ports, Edge(p), Bridge!Idle(p)
  PROVE  IInv'
<1> USE DEF IInv
<1>1. bus = Bridge!QuietBus /\ ~ack /\ fsm = "IDLE"
  BY DEF Bridge!Idle, AckMatchesTransfer
<1>2. ~ack'
  BY <1>1 DEF Edge, RamEdge, AckNext, Bridge!QuietBus
<1>3. ~op_rdy_out' /\ data_out' = Zero
  BY DEF Bridge!Idle
<1>4. AckMatchesTransfer'
  <2>1. CASE p.rd_strb
    <3>1. fsm' = "READ" /\ bus'.cyc /\ bus'.stb /\ bus'.dat_w = Zero
      BY <1>1, <2>1 DEF Bridge!Idle, Bridge!StartTransfer, Bridge!QuietBus
    <3>2. bus'.we = FALSE
      BY <1>1, <2>1 DEF Bridge!Idle, Bridge!StartTransfer
    <3>3. bus'.we = (fsm' = "WRITE")
      BY <3>1, <3>2
    <3> QED
      BY <1>2, <1>3, <3>1, <3>3 DEF AckMatchesTransfer
  <2>2. CASE ~p.rd_strb /\ p.wr_strb
    <3>1. fsm' = "WRITE" /\ bus'.cyc /\ bus'.stb
      BY <1>1, <2>2 DEF Bridge!Idle, Bridge!StartTransfer
    <3>2. bus'.we = TRUE
      BY <1>1, <2>2 DEF Bridge!Idle, Bridge!StartTransfer
    <3>3. bus'.we = (fsm' = "WRITE")
      BY <3>1, <3>2
    <3> QED
      BY <1>2, <1>3, <3>1, <3>3 DEF AckMatchesTransfer
  <2>3. CASE ~p.rd_strb /\ ~p.wr_strb
    BY <1>1, <1>2, <1>3, <2>3
       DEF AckMatchesTransfer, Bridge!Idle, Bridge!StartTransfer
  <2> QED
    BY <2>1, <2>2, <2>3
<1>5. AnswerOneEdge' /\ AnswerIsOwn'
  BY <1>3 DEF AnswerOneEdge, AnswerIsOwn
<1>6. WorksOnAsked'
  BY <1>1, <1>3, BridgeAssumption
     DEF WorksOnAsked, Bridge!Idle, Bridge!StartTransfer, Edge, UserEdge, TypeOK,
         Strobe, Ports, Bridge!Ports
<1> QED
  BY <1>4, <1>5, <1>6

(***************************************************************************)
(* An edge in READ or WRITE.  Before ack the RAM stores or fetches and     *)
(* acknowledges; with ack the transfer ends, and storing the same bytes a  *)
(* second time changes nothing.                                            *)
(***************************************************************************)
LEMMA BusyInv ==
  ASSUME IInv, TypeOK', NEW p \in Ports, Edge(p),
         Bridge!Read(ack, dat_r) \/ Bridge!Write(ack)
  PROVE  IInv'
<1> USE DEF IInv
<1>1. fsm # "IDLE" /\ bus.cyc /\ bus.stb /\ bus.we = (fsm = "WRITE") /\ ~op_rdy_out
  BY DEF AckMatchesTransfer, Bridge!Read, Bridge!Write
<1>2. RamPorts(bus) /\ ack' = ~ack
  BY <1>1 DEF Edge, RamEdge, AckNext
<1>3. data_out = Zero
  BY <1>1 DEF AnswerOneEdge
<1>4. user' = user /\ (user = "bench" => asked' = asked)
  <2>1. user = "bench" => asked # None
    BY <1>1 DEF WorksOnAsked
  <2> QED
    BY <1>1, <2>1 DEF Edge, UserEdge
<1>5. /\ dat_r' = memory'[LocalAddress(bus.adr)] /\ config' = config
      /\ fsm = "READ" => memory' = memory
      /\ fsm = "WRITE" /\ ~config.read_only =>
           \A lane \in bus.sel : memory'[LocalAddress(bus.adr)][lane] = bus.dat_w[lane]
  BY <1>1, <1>2, RamPortsStore
<1>6. CASE ~ack
  <2>1. UNCHANGED << fsm, bus, data_out, op_rdy_out >>
    BY <1>6 DEF Bridge!Read, Bridge!Write, Bridge!bridgeVars
  <2>2. AckMatchesTransfer'
    BY <1>1, <1>2, <1>5, <1>6, <2>1 DEF AckMatchesTransfer, Written, BusWord
  <2>3. AnswerOneEdge' /\ AnswerIsOwn'
    BY <1>1, <1>3, <2>1 DEF AnswerOneEdge, AnswerIsOwn
  <2>4. WorksOnAsked'
    BY <1>4, <2>1 DEF WorksOnAsked
  <2> QED
    BY <2>2, <2>3, <2>4
<1>7. CASE ack
  <2>1. fsm' = "IDLE" /\ op_rdy_out' /\ ~ack'
    BY <1>2, <1>7 DEF Bridge!Read, Bridge!Write
  <2>2. bus' = Bridge!QuietBus
    <3>1. CASE Bridge!Write(ack)
      BY <1>7, <3>1 DEF Bridge!Write
    <3>2. CASE Bridge!Read(ack, dat_r)
      BY <1>7, <3>2 DEF Bridge!Read, AckMatchesTransfer, Bridge!QuietBus
    <3> QED
      BY <3>1, <3>2
  <2>3. AckMatchesTransfer' /\ AnswerOneEdge'
    BY <2>1, <2>2 DEF AckMatchesTransfer, AnswerOneEdge
  <2>4. WorksOnAsked'
    BY <1>1, <1>4, <2>1 DEF WorksOnAsked
  <2>5. AnswerIsOwn'
    <3> SUFFICES ASSUME user = "bench" PROVE AnswerIsOwn'
      BY <1>4 DEF AnswerIsOwn
    <3>1. /\ asked # None /\ asked' = asked
          /\ asked.rd_strb = ~asked.wr_strb
          /\ fsm = (IF asked.rd_strb THEN "READ" ELSE "WRITE")
          /\ bus.adr = asked.address /\ bus.sel = asked.sel
          /\ fsm = "WRITE" => bus.dat_w = asked.data
      BY <1>1, <1>4 DEF WorksOnAsked
    <3>2. AskedWord' = memory'[LocalAddress(bus.adr)]
      BY <3>1 DEF AskedWord
    <3>3. CASE fsm = "READ"
      <4>1. data_out' = BusWord /\ memory' = memory
        BY <1>5, <1>7, <3>3 DEF Bridge!Read, Bridge!Write, AckMatchesTransfer
      <4>2. data_out' = AskedWord' /\ ~asked.wr_strb
        BY <3>1, <3>2, <3>3, <4>1 DEF BusWord
      <4> QED
        BY <3>1, <4>2 DEF AnswerIsOwn
    <3>4. CASE fsm = "WRITE"
      <4>1. ~asked.rd_strb
        BY <3>1, <3>4
      <4>2. ~config.read_only =>
              \A lane \in asked.sel : AskedWord'[lane] = asked.data[lane]
        BY <1>5, <3>1, <3>2, <3>4
      <4> QED
        BY <1>5, <3>1, <4>1, <4>2 DEF AnswerIsOwn
    <3> QED
      BY <3>1, <3>3, <3>4
  <2> QED
    BY <2>3, <2>4, <2>5
<1> QED
  BY <1>6, <1>7

\* A reset edge leads to a quiet bus with nothing asked and nothing shown.
LEMMA ResetInv ==
  ASSUME IInv, ResetEdge
  PROVE  IInv'
<1> USE DEF IInv, ResetEdge, Bridge!BridgeResetEdge, RamResetEdge
<1>1. memory' \in [Addresses -> Words] /\ dat_r' \in Words /\ config' = config
  BY RamPortsStore
<1>2. ack' \in BOOLEAN /\ op_rdy_out' \in BOOLEAN
  BY Zenon
<1>3. resets' \in 0 .. MaxResets
  BY BridgeAssumption DEF TypeOK
<1>4. TypeOK'
  BY <1>1, <1>2, <1>3, QuietTypes DEF TypeOK
<1>5. AckMatchesTransfer' /\ AnswerOneEdge' /\ WorksOnAsked' /\ AnswerIsOwn'
  BY DEF AckMatchesTransfer, AnswerOneEdge, WorksOnAsked, AnswerIsOwn
<1> QED
  BY <1>4, <1>5

\* Every step keeps the invariant.
LEMMA NextInv == IInv /\ [Next]_vars => IInv'
<1> SUFFICES ASSUME IInv, [Next]_vars PROVE IInv'
  OBVIOUS
<1>1. ASSUME NEW p \in Ports, Edge(p) PROVE IInv'
  <2>1. TypeOK'
    BY <1>1, EdgeTypes DEF IInv
  <2> QED
    BY <1>1, <2>1, IdleInv, BusyInv DEF Edge, Bridge!BridgeEdge
<1>2. CASE ResetEdge
  BY <1>2, ResetInv
<1>3. CASE UNCHANGED vars
  BY <1>3 DEF vars, ramVars, Bridge!bridgeVars, IInv, TypeOK, AckMatchesTransfer,
              AnswerOneEdge, WorksOnAsked, AnswerIsOwn, AskedWord, BusWord, Written
<1> QED
  BY <1>1, <1>2, <1>3 DEF Next

(***************************************************************************)
(* The handshake over the bus: no ack is taken for that of a later         *)
(* transfer, and when it is up the word is read, or stored; the answer is  *)
(* shown for its one edge (simple_ports_to_wb.py:55-76, memory.py:133-137).*)
(***************************************************************************)
THEOREM HandshakeCorrect == Spec => [](AckMatchesTransfer /\ AnswerOneEdge)
<1>1. IInv => AckMatchesTransfer /\ AnswerOneEdge
  BY DEF IInv
<1> QED
  BY InitInv, NextInv, <1>1, PTL DEF Spec

(***************************************************************************)
(* The answers on the ports, for every size of memory: those of a user that*)
(* strobes once and waits are its own.                                     *)
(***************************************************************************)
THEOREM BridgeCorrect == Spec => [](TypeOK /\ AnswerIsOwn)
<1>1. IInv => TypeOK /\ AnswerIsOwn
  BY DEF IInv
<1> QED
  BY InitInv, NextInv, <1>1, PTL DEF Spec

(***************************************************************************)
(* op_rdy_out is up for one edge only: a user that counts edges with it up *)
(* counts transfers (simple_ports_to_wb.py:37).                            *)
(***************************************************************************)
THEOREM ReadyCorrect == Spec => ReadyOneEdge
<1>1. IInv /\ [Next]_vars => [op_rdy_out => ~op_rdy_out']_vars
  <2> SUFFICES ASSUME IInv, Next, op_rdy_out PROVE ~op_rdy_out'
    OBVIOUS
  <2>1. fsm = "IDLE"
    BY DEF IInv, AnswerOneEdge
  <2> QED
    BY <2>1 DEF Next, Edge, Bridge!BridgeEdge, Bridge!Idle, Bridge!Read, Bridge!Write,
                ResetEdge, Bridge!BridgeResetEdge
<1> QED
  BY <1>1, InitInv, NextInv, PTL DEF Spec, ReadyOneEdge

-----------------------------------------------------------------------------
\* The variables of WishboneMemory under the refinement mapping.
Request == IF Busy THEN [op |-> fsm, adr |-> LocalAddress(bus.adr),
                         dat |-> bus.dat_w, sel |-> bus.sel]
           ELSE None
Performed == Busy /\ ack
Reply == IF op_rdy_out THEN data_out ELSE None

\* A transfer under way is a request of the memory.
LEMMA RequestType ==
  ASSUME NEW f \in {"READ", "WRITE"}, NEW b \in Bridge!BusState
  PROVE  /\ [op |-> f, adr |-> LocalAddress(b.adr), dat |-> b.dat_w, sel |-> b.sel]
              \in Memory!Requests
         /\ [op |-> f, adr |-> LocalAddress(b.adr), dat |-> b.dat_w, sel |-> b.sel]
              # None
<1>1. /\ LocalAddress(b.adr) \in Addresses
      /\ b.dat_w \in Words /\ b.sel \in SUBSET Lanes
  BY LocalAddressType DEF Bridge!BusState
<1> QED
  BY <1>1, NoneAssumption DEF Memory!Requests, Memory!Addresses, Memory!Words, Addresses, Words

LEMMA RequestUnderWay ==
  ASSUME TypeOK, fsm # "IDLE"
  PROVE  /\ Request = [op |-> fsm, adr |-> LocalAddress(bus.adr),
                       dat |-> bus.dat_w, sel |-> bus.sel]
         /\ Request # None
BY RequestType DEF TypeOK, Request, Busy

\* Initial states are initial states of the memory.
LEMMA RefineInit == Init => Memory!MemInit
<1> SUFFICES ASSUME Init PROVE Memory!MemInit
  OBVIOUS
<1>1. TypeOK
  BY InitInv DEF IInv
<1>2. memory \in [Memory!Addresses -> Memory!Words] /\ config.read_only \in BOOLEAN
  BY <1>1 DEF TypeOK, Memory!Addresses, Memory!Words, Addresses, Words
<1> QED
  BY <1>2 DEF Init, Bridge!BridgeInit, Memory!MemInit, Busy

(***************************************************************************)
(* An edge in IDLE accepts the request of the strobe, withdraws the answer *)
(* shown so far, or is no step of the memory.                              *)
(***************************************************************************)
LEMMA RefineIdle ==
  ASSUME IInv, IInv', NEW p \in Ports, Edge(p), Bridge!Idle(p)
  PROVE  Memory!MemNext \/ UNCHANGED Memory!memVars
<1>1. bus = Bridge!QuietBus /\ ~ack /\ fsm = "IDLE"
  BY DEF Bridge!Idle, AckMatchesTransfer, IInv
<1>2. memory' = memory /\ config' = config
  BY <1>1, RamPortsStore DEF Edge, RamEdge, IInv, Bridge!QuietBus
<1>3. ~ack' /\ ~op_rdy_out'
  BY <1>1 DEF Edge, RamEdge, AckNext, Bridge!Idle, Bridge!QuietBus
<1>4. Request = None /\ Performed = FALSE /\ Performed' = FALSE /\ Reply' = None
  BY <1>1, <1>3 DEF Request, Performed, Reply, Busy
<1>5. CASE fsm' = "IDLE"
  <2>1. Request' = None
    BY <1>5 DEF Request, Busy
  <2> QED
    BY <1>2, <1>4, <2>1
       DEF Memory!MemNext, Memory!Withdraw, Memory!memVars, Request, Performed, Reply
<1>6. CASE fsm' # "IDLE"
  <2>1. Request' \in Memory!Requests
    BY <1>6, RequestType DEF IInv, TypeOK, Request, Busy
  <2>2. Memory!Accept(Request')
    BY <1>2, <1>4 DEF Memory!Accept, Request, Performed, Reply
  <2> QED
    BY <1>2, <2>1, <2>2 DEF Memory!MemNext
<1> QED
  BY <1>5, <1>6

(***************************************************************************)
(* An edge of a transfer before its ack performs the request, the edge     *)
(* with ack answers it.                                                    *)
(***************************************************************************)
LEMMA RefineBusy ==
  ASSUME IInv, IInv', NEW p \in Ports, Edge(p),
         Bridge!Read(ack, dat_r) \/ Bridge!Write(ack)
  PROVE  Memory!MemNext
<1>1. /\ fsm \in {"READ", "WRITE"} /\ bus.cyc /\ bus.stb
      /\ bus.we = (fsm = "WRITE") /\ ~op_rdy_out
  BY DEF AckMatchesTransfer, Bridge!Read, Bridge!Write, IInv
<1>2. RamPorts(bus) /\ ack' = ~ack
  BY <1>1 DEF Edge, RamEdge, AckNext
<1>3. /\ config' = config
      /\ fsm = "READ" \/ config.read_only => memory' = memory
      /\ fsm = "WRITE" /\ ~config.read_only =>
           memory' = Memory!Stored(memory, LocalAddress(bus.adr), bus.dat_w, bus.sel)
  BY <1>1, <1>2, RamPortsStore DEF IInv
<1>4. /\ Request # None /\ Request.op = fsm /\ Request.adr = LocalAddress(bus.adr)
      /\ Request.dat = bus.dat_w /\ Request.sel = bus.sel /\ Reply = None
  BY <1>1, RequestUnderWay DEF Reply, IInv
<1>5. CASE ~ack
  <2>1. UNCHANGED << fsm, bus, data_out, op_rdy_out >>
    BY <1>5 DEF Bridge!Read, Bridge!Write, Bridge!bridgeVars
  <2>2. Request' = Request /\ Reply' = Reply /\ ~Performed /\ Performed' = TRUE
    BY <1>1, <1>2, <1>5, <2>1 DEF Request, Reply, Performed, Busy
  <2>3. memory' = IF Request.op = "WRITE" /\ ~config.read_only
                    THEN Memory!Stored(memory, Request.adr, Request.dat, Request.sel)
                    ELSE memory
    BY <1>1, <1>3, <1>4
  <2>4. Memory!Perform
    BY <1>4, <2>2, <2>3 DEF Memory!Perform, Memory!AfterRequest, Request, Reply, Performed
  <2> QED
    BY <1>3, <2>4 DEF Memory!MemNext
<1>6. CASE ack
  <2>1. fsm' = "IDLE" /\ op_rdy_out'
    BY <1>6 DEF Bridge!Read, Bridge!Write
  <2>2. Request' = None /\ Performed /\ Performed' = FALSE /\ Reply' = data_out'
    BY <1>1, <1>6, <2>1 DEF Request, Reply, Performed, Busy
  <2>3. memory' = memory
    <3>1. CASE fsm = "WRITE" /\ ~config.read_only
      <4>1. \A lane \in bus.sel : memory[LocalAddress(bus.adr)][lane] = bus.dat_w[lane]
        BY <1>6, <3>1 DEF IInv, AckMatchesTransfer, Written, BusWord
      <4>2. /\ memory \in [Addresses -> Words]
            /\ LocalAddress(bus.adr) \in Addresses
        BY LocalAddressType DEF IInv, TypeOK, Bridge!BusState
      <4> QED
        BY <1>3, <3>1, <4>1, <4>2 DEF Memory!Stored, Words
    <3> QED
      BY <1>1, <1>3, <3>1
  <2>4. data_out' = IF Request.op = "READ" THEN memory[Request.adr] ELSE Zero
    <3>1. CASE fsm = "READ"
      BY <1>4, <1>6, <3>1 DEF Bridge!Read, Bridge!Write, IInv, AckMatchesTransfer, BusWord
    <3>2. CASE fsm = "WRITE"
      BY <1>1, <1>4, <1>6, <3>2 DEF Bridge!Read, Bridge!Write, IInv, AnswerOneEdge
    <3> QED
      BY <1>1, <3>1, <3>2
  <2>5. Memory!Answer
    BY <1>4, <2>2, <2>3, <2>4
       DEF Memory!Answer, Memory!Zero, Zero, Request, Reply, Performed
  <2> QED
    BY <1>3, <2>5 DEF Memory!MemNext
<1> QED
  BY <1>5, <1>6

(***************************************************************************)
(* A reset forgets the request; the RAM may have stored it at that edge.   *)
(***************************************************************************)
LEMMA RefineReset ==
  ASSUME IInv, ResetEdge
  PROVE  Memory!MemNext
<1>1. RamPorts(bus) /\ fsm' = "IDLE" /\ ~op_rdy_out'
  BY DEF ResetEdge, RamResetEdge, Bridge!BridgeResetEdge
<1>2. Request' = None /\ Performed' = FALSE /\ Reply' = None
  BY <1>1 DEF Request, Performed, Reply, Busy
<1>3. config' = config
  BY <1>1, RamPortsStore DEF IInv
<1>4. memory' = memory \/ (Request # None /\ memory' = Memory!AfterRequest)
  <2>1. CASE fsm = "WRITE" /\ ~config.read_only
    <3>1. /\ Request = [op |-> fsm, adr |-> LocalAddress(bus.adr),
                        dat |-> bus.dat_w, sel |-> bus.sel]
          /\ Request # None
      BY <2>1, RequestUnderWay DEF IInv
    <3>2. bus.we /\ bus.cyc /\ bus.stb
      BY <2>1 DEF IInv, AckMatchesTransfer
    <3>3. memory' = Memory!Stored(memory, LocalAddress(bus.adr), bus.dat_w, bus.sel)
      BY <1>1, <2>1, <3>2, RamPortsStore DEF IInv
    <3> QED
      BY <2>1, <3>1, <3>3 DEF Memory!AfterRequest, Request
  <2>2. CASE ~(fsm = "WRITE" /\ ~config.read_only)
    <3>1. ~bus.we \/ config.read_only
      BY <2>2 DEF IInv, TypeOK, AckMatchesTransfer, Bridge!QuietBus
    <3> QED
      BY <1>1, <3>1, RamPortsStore DEF IInv
  <2> QED
    BY <2>1, <2>2
<1> QED
  BY <1>2, <1>3, <1>4
     DEF Memory!MemNext, Memory!Forget, Request, Performed, Reply

(***************************************************************************)
(* Bridge and RAM together implement the memory, whatever the user does,   *)
(* through resets at any edge.                                             *)
(***************************************************************************)
THEOREM BridgeRefines == Spec => ServesMemory
<1>1. IInv /\ IInv' /\ [Next]_vars => [Memory!MemNext]_(Memory!memVars)
  <2> SUFFICES ASSUME IInv, IInv', [Next]_vars
               PROVE  Memory!MemNext \/ UNCHANGED Memory!memVars
    OBVIOUS
  <2>1. ASSUME NEW p \in Ports, Edge(p)
        PROVE  Memory!MemNext \/ UNCHANGED Memory!memVars
    BY <2>1, RefineIdle, RefineBusy DEF Edge, Bridge!BridgeEdge
  <2>2. CASE ResetEdge
    BY <2>2, RefineReset
  <2>3. CASE UNCHANGED vars
    BY <2>3 DEF vars, ramVars, Bridge!bridgeVars, Memory!memVars, Busy
  <2> QED
    BY <2>1, <2>2, <2>3 DEF Next
<1> QED
  BY <1>1, InitInv, NextInv, RefineInit, PTL DEF Spec, ServesMemory, Memory!MemSpec

-----------------------------------------------------------------------------
(***************************************************************************)
(* The image.  A byte of it lies in the word and lane that its number      *)
(* gives (InitialMemory); ImageKept cuts the image into chunks and reads   *)
(* each as a number.  They agree because the quotient and the remainder    *)
(* are the only pair that make the number up again.                        *)
(***************************************************************************)
LEMMA WordOfByte ==
  ASSUME NEW c \in Nat \ {0}, NEW k \in Nat
  PROVE  /\ k = (k \div c) * c + (k % c)
         /\ k % c \in 0 .. c - 1 /\ k \div c \in Nat
OBVIOUS

LEMMA ByteOfWord ==
  ASSUME NEW c \in Nat \ {0}, NEW a \in Nat, NEW r \in 0 .. c - 1
  PROVE  (a * c + r) \div c = a /\ (a * c + r) % c = r
<1>1. a * c \in Nat
  OBVIOUS
<1> DEFINE k == a * c + r
<1>2. k \in Nat
  BY <1>1
<1>3. k = (k \div c) * c + (k % c) /\ k % c \in 0 .. c - 1 /\ k \div c \in Nat
  BY <1>2, WordOfByte
<1>4. \A q \in Nat : q < a => (q + 1) * c <= a * c
  OBVIOUS
<1>5. \A q \in Nat : q > a => (a + 1) * c <= q * c
  OBVIOUS
<1>6. (a + 1) * c = a * c + c /\ \A q \in Nat : (q + 1) * c = q * c + c
  OBVIOUS
<1> QED
  BY <1>1, <1>2, <1>3, <1>4, <1>5, <1>6


\* The bytes of word a are those from a * LaneCount on.
LEMMA BytesOfWord ==
  ASSUME NEW a \in Nat, NEW k \in Nat
  PROVE  /\ a * LaneCount \in Nat
         /\ k \div LaneCount = a <=> k - a * LaneCount \in 0 .. LaneCount - 1
         /\ k \div LaneCount = a => k % LaneCount = k - a * LaneCount
<1> DEFINE p == a * LaneCount
<1>1. LaneCount \in Nat \ {0} /\ p \in Nat
  BY RamAssumption
<1>2. ASSUME k \div LaneCount = a
      PROVE  k = p + (k % LaneCount) /\ k % LaneCount \in 0 .. LaneCount - 1
  BY <1>1, <1>2, WordOfByte
<1>3. ASSUME k - p \in 0 .. LaneCount - 1
      PROVE  k \div LaneCount = a
  <2> DEFINE r == k - p
  <2>1. k = p + r
    BY <1>1
  <2> HIDE DEF r
  <2>2. r \in 0 .. LaneCount - 1
    BY <1>3 DEF r
  <2> QED
    BY <1>1, <2>1, <2>2, ByteOfWord
<1> HIDE DEF p
<1>4. k \div LaneCount = a => k - p \in 0 .. LaneCount - 1 /\ k % LaneCount = k - p
  BY <1>1, <1>2
<1> QED
  BY <1>1, <1>3, <1>4 DEF p

\* The bytes of a part of a sequence.
LEMMA PartOf ==
  ASSUME NEW S, NEW s \in Seq(S), NEW p \in Nat, NEW m \in Nat, p + m <= Len(s)
  PROVE  /\ Len(SubSeq(s, p + 1, p + m)) = m
         /\ \A j \in 1 .. m : SubSeq(s, p + 1, p + m)[j] = s[p + j]
OBVIOUS

\* Where a chunk of n bytes that begins with byte p has byte k.
LEMMA PlaceInChunk ==
  ASSUME NEW L \in Nat, NEW p \in Nat, NEW k \in 0 .. L - 1, NEW lane \in Lanes,
         NEW n \in 0 .. LaneCount,
         p < L => n = IF L - p < LaneCount THEN L - p ELSE LaneCount,
         p >= L => n = 0
  PROVE  /\ k - p \in 0 .. LaneCount - 1 =>
              /\ p < L
              /\ k - p = lane <=> lane < n /\ k = p + lane
              /\ n - 1 - (k - p) = lane <=> lane < n /\ k = p + (n - 1 - lane)
         /\ lane < n /\ k \in {p + lane, p + (n - 1 - lane)} => k - p \in 0 .. LaneCount - 1
BY RamAssumption DEF Lanes

(***************************************************************************)
(* InitialMemory, byte by byte, is the chunk of each word as a number.     *)
(***************************************************************************)
LEMMA ImageWord ==
  ASSUME TypeOK, NEW a \in Addresses
  PROVE  InitialMemory(config.init, config.byteorder)[a] = Numeral(Chunk(a), config.byteorder)
<1> DEFINE init == config.init
           L == Len(init)
           little == config.byteorder = "little"
           p == a * LaneCount
           n == IF p >= L THEN 0 ELSE IF L - p < LaneCount THEN L - p ELSE LaneCount
           at(lane) == IF little THEN lane ELSE n - 1 - lane
           here(lane) == {k \in 0 .. L - 1 :
                            k \div LaneCount = a
                              /\ BytePlace(k, L, config.byteorder) = lane}
<1>1. init \in Seq(Bytes) /\ L \in Nat /\ a \in Nat /\ LaneCount \in Nat \ {0}
  BY RamAssumption, BridgeAssumption DEF TypeOK, Addresses
<1>2. /\ p \in Nat
      /\ \A k \in Nat : k \div LaneCount = a <=> k - p \in 0 .. LaneCount - 1
      /\ \A k \in Nat : k \div LaneCount = a => k % LaneCount = k - p
  BY <1>1, BytesOfWord
<1>3. Chunk(a) = SubSeq(init, p + 1, IF p + 1 + LaneCount - 1 < L THEN p + 1 + LaneCount - 1 ELSE L)
  BY DEF Chunk
<1>4. InitialMemory(config.init, config.byteorder)[a]
        = [lane \in Lanes |-> IF here(lane) = {} THEN 0
                              ELSE init[1 + CHOOSE k \in here(lane) : TRUE]]
  BY DEF InitialMemory
<1>5. L = Len(init)
  OBVIOUS
<1> HIDE DEF p, L, init
<1>6. /\ n \in 0 .. LaneCount /\ n \in Nat
      /\ n > 0 => p < L
      /\ p < L => n = IF L - p < LaneCount THEN L - p ELSE LaneCount
      /\ p < L => p + n <= L
      /\ p >= L => n = 0
  BY <1>1, <1>2
<1>7. Len(Chunk(a)) = n /\ \A j \in 1 .. n : Chunk(a)[j] = init[p + j]
  <2>1. CASE p < L
    <3>1. Chunk(a) = SubSeq(init, p + 1, p + n)
      <4>1. (IF p + 1 + LaneCount - 1 < L THEN p + 1 + LaneCount - 1 ELSE L) = p + n
        BY <1>1, <1>2, <1>6, <2>1
      <4> QED
        BY <1>3, <4>1
    <3>2. init \in Seq(Bytes) /\ p \in Nat /\ n \in Nat /\ p + n <= Len(init)
      BY <1>1, <1>2, <1>5, <1>6, <2>1
    <3>3. /\ Len(SubSeq(init, p + 1, p + n)) = n
          /\ \A j \in 1 .. n : SubSeq(init, p + 1, p + n)[j] = init[p + j]
      <4> HIDE DEF n
      <4> QED
        BY <3>2, PartOf, Zenon
    <3> QED
      BY <3>1, <3>3, Zenon
  <2>2. CASE p >= L
    <3>1. Chunk(a) = SubSeq(init, p + 1, L) /\ n = 0
      <4>1. (IF p + 1 + LaneCount - 1 < L THEN p + 1 + LaneCount - 1 ELSE L) = L
        BY <1>1, <1>2, <2>2
      <4> QED
        BY <1>3, <1>6, <2>2, <4>1
    <3> HIDE DEF n
    <3> QED
      BY <1>1, <1>2, <1>5, <2>2, <3>1
  <2>3. p < L \/ p >= L
    BY <1>1, <1>2
  <2> QED
    BY <2>1, <2>2, <2>3, Zenon
<1> HIDE DEF n
<1>8. ASSUME NEW lane \in Lanes, NEW k \in 0 .. L - 1
      PROVE  k \in here(lane) <=> lane < n /\ k = p + at(lane)
  <2>1. k \in Nat /\ little \in BOOLEAN /\ p \in Nat
    BY <1>1, <1>2
  <2>2. /\ k - p \in 0 .. LaneCount - 1 =>
             /\ p < L
             /\ (IF little THEN k - p ELSE n - 1 - (k - p)) = lane
                  <=> lane < n /\ k = p + at(lane)
        /\ lane < n /\ k = p + at(lane) => k - p \in 0 .. LaneCount - 1
    BY <1>1, <1>6, <2>1, PlaceInChunk DEF at
  <2>3. CASE k \div LaneCount = a
    <3>1. k % LaneCount = k - p /\ k - p \in 0 .. LaneCount - 1
      BY <1>2, <2>1, <2>3, Zenon
    <3>2. k - (k - p) = p
      BY <2>1
    <3>3. BytePlace(k, L, config.byteorder) = IF little THEN k - p ELSE n - 1 - (k - p)
      BY <1>6, <2>2, <3>1, <3>2 DEF BytePlace
    <3> QED
      BY <2>2, <2>3, <3>1, <3>3
  <2>4. CASE k \div LaneCount # a
    BY <1>2, <2>1, <2>2, <2>4
  <2> QED
    BY <2>3, <2>4
<1>9. ASSUME NEW lane \in Lanes
      PROVE  (IF here(lane) = {} THEN 0 ELSE init[1 + CHOOSE k \in here(lane) : TRUE])
               = Numeral(Chunk(a), config.byteorder)[lane]
  <2>1. lane \in Nat /\ lane < LaneCount
    BY <1>1 DEF Lanes
  <2>2. CASE lane < n
    <3>1. p + at(lane) \in 0 .. L - 1 /\ at(lane) + 1 \in 1 .. n
      BY <1>1, <1>2, <1>6, <2>1, <2>2
    <3>2. at(lane) + 1 = (IF little THEN lane + 1 ELSE n - lane) /\ ~(lane >= n)
          /\ 1 + (p + at(lane)) = p + (at(lane) + 1)
      BY <1>1, <1>2, <1>6, <2>1, <2>2
    <3> HIDE DEF at
    <3>3. here(lane) = {p + at(lane)}
      BY <1>8, <2>2, <3>1
    <3>4. (CHOOSE k \in here(lane) : TRUE) = p + at(lane)
      BY <3>3
    <3>5. Numeral(Chunk(a), config.byteorder)[lane] = Chunk(a)[at(lane) + 1]
      BY <1>7, <3>2 DEF Numeral
    <3> QED
      BY <1>7, <3>1, <3>2, <3>3, <3>4, <3>5
  <2>3. CASE ~(lane < n)
    <3> HIDE DEF at
    <3>1. here(lane) = {}
      BY <1>8, <2>3
    <3>2. lane >= Len(Chunk(a))
      BY <1>6, <1>7, <2>1, <2>3
    <3> QED
      BY <3>1, <3>2 DEF Numeral
  <2> QED
    BY <2>2, <2>3
<1> HIDE DEF here, at, little
<1> QED
  BY <1>4, <1>9 DEF Numeral

(***************************************************************************)
(* A read-only RAM, the ROM, holds its image for ever, each byte at the    *)
(* place the byte order gives it, a short last word included, whatever the *)
(* user writes and whenever the domain is reset (memory.py:36-39, 115-129).*)
(***************************************************************************)
ImageInv == config.read_only => memory = InitialMemory(config.init, config.byteorder)

THEOREM ImageCorrect == Spec => []ImageKept
<1>1. Init => ImageInv
  BY DEF Init, RamInit, ImageInv
<1>2. IInv /\ ImageInv /\ [Next]_vars => ImageInv'
  <2> SUFFICES ASSUME IInv, ImageInv, [Next]_vars PROVE ImageInv'
    OBVIOUS
  <2>1. CASE RamPorts(bus)
    BY <2>1, RamPortsStore DEF IInv, ImageInv
  <2>2. CASE UNCHANGED vars
    BY <2>2 DEF vars, ramVars, ImageInv
  <2> QED
    BY <2>1, <2>2 DEF Next, Edge, RamEdge, ResetEdge, RamResetEdge
<1>3. IInv /\ ImageInv => ImageKept
  BY ImageWord DEF IInv, ImageInv, ImageKept
<1> QED
  BY <1>1, <1>2, <1>3, InitInv, NextInv, PTL DEF Spec

=============================================================================
