------------------------- MODULE MCCaptureGateware --------------------------
(* Small widths for model checking: bytes of 2 bits, a RAM of 8 words.      *)
EXTENDS CaptureGateware

\* ADC_dummy, and a converter that takes any time over a conversion.
DummyDry == {TRUE}
AnyDry == BOOLEAN

\* None, the shortest answers, one that fills several words, one that sets
\* the top bit of the limit, and Depth itself (the 512 of the 9-bit limit).
Counts == {0, 1, 2, 5, 8}

=============================================================================
