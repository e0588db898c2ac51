------------------------- MODULE MCControlRequests --------------------------
(* The requests a host sends to such a device, each kind in one or two of   *)
(* its lengths, and writes of one or two bytes.                             *)
EXTENDS ControlRequests

S(type, request, in, interface, value, index, length) ==
  [type |-> type, request |-> request, in |-> in, interface |-> interface,
   value |-> value, index |-> index, length |-> length]

HostSetups ==
       {S("STANDARD", 0, TRUE, FALSE, 0, 0, 2), S("STANDARD", SET_INTERFACE, FALSE, FALSE, 1, 1, 0),
        S("STANDARD", SET_INTERFACE, TRUE, TRUE, 1, 1, 1)}
  \union {S("RESERVED", 0, in, FALSE, 0, 0, 1) : in \in BOOLEAN}
  \union {S("STANDARD", SET_INTERFACE, FALSE, TRUE, alt, n, 0) : alt \in {0, 1, 9}, n \in {0, 1, 2}}
  \union {S("CLASS", RANGE, TRUE, TRUE, 256, 256, len) : len \in {2, 64, 16384, 16390}}
  \union {S("CLASS", CUR, in, TRUE, 256, 256, 4) : in \in BOOLEAN}
  \union {S("CLASS", CUR, TRUE, TRUE, 256, 256, 1), S("CLASS", RANGE, TRUE, TRUE, 512, 256, 14),
          S("CLASS", 3, TRUE, TRUE, 256, 256, 4), S("CLASS", 3, FALSE, TRUE, 256, 256, 1)}
  \union {S("VENDOR", REGISTER, TRUE, FALSE, 0, 0, len) : len \in {1, 2}}
  \union {S("VENDOR", REGISTER, FALSE, FALSE, 0, 0, len) : len \in {0, 1, 2}}
  \union {S("VENDOR", 6, TRUE, FALSE, 0, 0, 1)}

HostPayloads == {<<0>>, <<1>>, <<0, 2>>, <<3, 1>>, <<0, 0, 0, 1>>}

=============================================================================
