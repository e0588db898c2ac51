-------------------------- MODULE SimplePortsToWb ---------------------------
(***************************************************************************)
(* gateware/simple_ports_to_wb.py: a bus master that turns a strobe on its *)
(* simple ports into one Wishbone cycle.  An edge of the clock loads every *)
(* register from the values before it.  leds only shows the state and is   *)
(* left out; err is declared on the bus and never looked at.               *)
(***************************************************************************)
CONSTANTS
  BusAddresses, \* values of address_in and of the bus address, 0 among them
  BusWords,     \* values of data_in, data_out, dat_w and dat_r
  NoData,       \* the word 0
  Selects       \* values of sel_in, {} among them

VARIABLES
  fsm,       \* state of the FSM
  bus,       \* the registers adr, dat_w, we, sel, cyc and stb
  data_out,  \* the word read
  op_rdy_out \* the transfer is complete

bridgeVars == << fsm, bus, data_out, op_rdy_out >>

FsmStates == {"IDLE", "READ", "WRITE"}
BusState == [adr : BusAddresses, dat_w : BusWords, we : BOOLEAN,
             sel : Selects, cyc : BOOLEAN, stb : BOOLEAN]

\* What a user of the ports drives at an edge.
Ports == [rd_strb : BOOLEAN, wr_strb : BOOLEAN, address : BusAddresses,
          data : BusWords, sel : Selects]

QuietBus == [adr |-> 0, dat_w |-> NoData, we |-> FALSE, sel |-> {},
             cyc |-> FALSE, stb |-> FALSE]

BridgeInit ==
  /\ fsm = "IDLE"
  /\ bus = QuietBus
  /\ data_out = NoData
  /\ op_rdy_out = FALSE

\* A read strobe goes before a write strobe, which is then lost.
StartTransfer(p) ==
  \/ /\ p.rd_strb
     /\ bus' = [adr |-> p.address, dat_w |-> bus.dat_w, we |-> FALSE,
                sel |-> p.sel, cyc |-> TRUE, stb |-> TRUE]
     /\ fsm' = "READ"
  \/ /\ ~p.rd_strb /\ p.wr_strb
     /\ bus' = [adr |-> p.address, dat_w |-> p.data, we |-> TRUE,
                sel |-> p.sel, cyc |-> TRUE, stb |-> TRUE]
     /\ fsm' = "WRITE"
  \/ /\ ~p.rd_strb /\ ~p.wr_strb
     /\ UNCHANGED << bus, fsm >>

Idle(p) ==
  /\ fsm = "IDLE"
  /\ op_rdy_out' = FALSE
  /\ data_out' = NoData
  /\ StartTransfer(p)

\* Faulty variant: the answer is taken at once, without waiting for ack.
ReadNoWait(ack, dat_r) ==
  /\ fsm = "READ"
  /\ data_out' = dat_r
  /\ op_rdy_out' = TRUE
  /\ bus' = [QuietBus EXCEPT !.dat_w = bus.dat_w]
  /\ fsm' = "IDLE"

Read(ack, dat_r) ==
  /\ fsm = "READ"
  /\ IF ack
       THEN /\ data_out' = dat_r
            /\ op_rdy_out' = TRUE
            /\ bus' = [QuietBus EXCEPT !.dat_w = bus.dat_w]
            /\ fsm' = "IDLE"
       ELSE UNCHANGED bridgeVars

\* Faulty variant: the bus cycle is not ended with the transfer.
WriteKeepsCycle(ack) ==
  /\ fsm = "WRITE"
  /\ IF ack
       THEN /\ op_rdy_out' = TRUE
            /\ bus' = [QuietBus EXCEPT !.cyc = TRUE, !.stb = TRUE]
            /\ fsm' = "IDLE"
            /\ UNCHANGED data_out
       ELSE UNCHANGED bridgeVars

Write(ack) ==
  /\ fsm = "WRITE"
  /\ IF ack
       THEN /\ op_rdy_out' = TRUE
            /\ bus' = QuietBus
            /\ fsm' = "IDLE"
            /\ UNCHANGED data_out
       ELSE UNCHANGED bridgeVars

BridgeEdge(p, ack, dat_r) == Idle(p) \/ Read(ack, dat_r) \/ Write(ack)

BridgeResetEdge ==
  /\ fsm' = "IDLE"
  /\ bus' = QuietBus
  /\ data_out' = NoData
  /\ op_rdy_out' = FALSE

=============================================================================
