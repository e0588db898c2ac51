--------------------------- MODULE CaptureService ---------------------------
(***************************************************************************)
(* What the capture gateware promises the host, with nothing of its two    *)
(* clocks, its state machines and its RAM: the accepted commands are served*)
(* one at a time and in order, and each is answered with two bytes per     *)
(* word of the limit its count decodes to, and with nothing if that is 0.  *)
(***************************************************************************)
EXTENDS Integers, Sequences

CONSTANTS
  LowMod,      \* values of a byte
  WordCounts   \* the counts a command may carry

VARIABLES
  queue,       \* commands accepted and not begun
  remaining,   \* bytes of the current answer still to be sent
  sent         \* bytes of it that have been sent

serviceVars == << queue, remaining, sent >>

\* The low byte and the lowest bit of the high byte of the count.
Limit(w) == (w % LowMod) + ((w \div LowMod) % 2) * LowMod

Init ==
  /\ queue = << >>
  /\ remaining = 0
  /\ sent = 0

Submit(w) ==
  /\ queue' = Append(queue, w)
  /\ UNCHANGED << remaining, sent >>

Begin ==
  /\ remaining = 0
  /\ queue # << >>
  /\ queue' = Tail(queue)
  /\ remaining' = 2 * Limit(Head(queue))
  /\ sent' = 0

SendByte ==
  /\ remaining > 0
  /\ remaining' = remaining - 1
  /\ sent' = sent + 1
  /\ UNCHANGED queue

\* A reset forgets what was accepted and what was being sent.
Restart ==
  /\ queue' = << >>
  /\ remaining' = 0
  /\ sent' = 0

Next ==
  \/ \E w \in WordCounts : Submit(w)
  \/ Begin
  \/ SendByte
  \/ Restart

Spec == Init /\ [][Next]_serviceVars

\* Served as long as the host listens.
FairSpec == Spec /\ WF_serviceVars(Begin) /\ WF_serviceVars(SendByte)

=============================================================================
