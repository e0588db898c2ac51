---------------------------- MODULE MCFirmware ------------------------------
(* A short nm120_init: the id, registers of one and four bytes, one of them *)
(* after a delay, one modified; words of 5 bits, ticks of 6, 6 to the ms.   *)
EXTENDS Firmware, TLC

\* Registers 0x03fc, 0x01c0, 0x0006 and 0x0104.
Id == << {0, 1}, 2 .. 7 >>
Wide == << {0}, {6, 7} >>
Plain == << {}, {1, 2} >>
Open == << {0}, {2} >>

\* The id is 0x120b0.
ChipRegs ==
  (Id :> << {4, 5, 7}, {5}, {0}, {} >>) @@ (Plain :> << {} >>) @@
  (Wide :> << {}, {}, {}, {} >>) @@ (Open :> << {4}, {5}, {6}, {7} >>)

ShortScript == <<
  [op |-> "expect", reg |-> Id, size |-> 4, val |-> ChipRegs[Id]],
  [op |-> "write", reg |-> Plain, val |-> << {3, 6, 7} >>],
  [op |-> "check", reg |-> Plain, size |-> 1],
  [op |-> "write", reg |-> Wide, val |-> << {0, 1}, {0}, {2, 3}, {} >>],
  [op |-> "delay", ms |-> 2],
  [op |-> "check", reg |-> Wide, size |-> 4],
  [op |-> "modify", reg |-> Open, size |-> 4, clear |-> {}, set |-> {0}],
  [op |-> "modify", reg |-> Plain, size |-> 1, clear |-> {7}, set |-> {6}],
  [op |-> "check", reg |-> Plain, size |-> 1] >>

\* Waits in both units: exact ones, one to be rounded and one below a tick.
Waits == {DelayMs(ms) : ms \in {1, 5}} \union {DelayUs(us) : us \in {5, 13}}

=============================================================================
