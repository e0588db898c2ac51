---------------------------- MODULE DualPortRam ----------------------------
(***************************************************************************)
(* The dual-clock block RAM of gateware/simple_dual_two_clocks.vhd: port A *)
(* writes on clka (the fast clock), port B reads on clkb (the USB clock)   *)
(* through the register dob.  ena and enb are tied to 1 in                 *)
(* deca_usb2_adc.py.  Neither the array nor dob has a reset.               *)
(*                                                                         *)
(* A stored word is abstracted to its origin: idx, the sample of the       *)
(* capture it is, and cmd, the command that capture was triggered by (0    *)
(* for the contents at power-up).                                          *)
(***************************************************************************)
EXTENDS CaptureParams

VARIABLES
  ram,   \* the array
  dob    \* the registered output of port B

ramVars == << ram, dob >>

Word == [idx : Nat, cmd : Nat]

RamInit ==
  /\ ram = [a \in Address |-> [idx |-> a, cmd |-> 0]]
  /\ dob = [idx |-> 0, cmd |-> 0]

\* process(clka)
RamWriteEdge(wea, addra, dia) ==
  ram' = IF wea THEN [ram EXCEPT ![addra] = dia] ELSE ram

\* process(clkb)
RamReadEdge(addrb) == dob' = ram[addrb]

RamTypeOK ==
  /\ ram \in [Address -> Word]
  /\ dob \in Word

=============================================================================
