---------------------------- MODULE MCDecaDriver ----------------------------
(* One user or two, bytes of 2 bits.                                        *)
EXTENDS DecaDriver

\* An empty command, two lengths of answer, and a count that needs both bytes.
Counts == {0, 1, 2, 5}

=============================================================================
