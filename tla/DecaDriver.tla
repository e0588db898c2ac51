----------------------------- MODULE DecaDriver -----------------------------
(***************************************************************************)
(* The data path of driver/deca_adc_interface.c: deca_write and deca_read  *)
(* in process context, the two URBs and their completion callbacks in      *)
(* interrupt context, and the device behind them, which is CaptureService  *)
(* (the gateware is shown to implement it in CaptureGateware).             *)
(*                                                                         *)
(* No lock protects the fields of struct deca_adcintf, so each access of   *)
(* deca_write, deca_read and read_bulk_callback that another context can   *)
(* see is a step of its own.  A URB is busy from its submission until its  *)
(* callback runs; submitting a busy URB fails with -EBUSY, and completions *)
(* are given back in the order of the transfers.                           *)
(*                                                                         *)
(* The users are of the kind of adc_test.c: a user writes when what it did *)
(* before has come to rest (it sleeps), and reads whenever it likes.       *)
(***************************************************************************)
EXTENDS Integers, Sequences

CONSTANTS
  Users,         \* the processes that have the device open
  LowMod,        \* values of a byte
  WordCounts,    \* the counts users write
  FifoCommands,  \* commands the device accepts ahead
  MaxWrites,     \* bound of the model: calls of deca_write
  MaxTxFailures, \* bounds of the model: transfers of each URB that fail
  MaxRxFailures

ASSUME DriverAssumption ==
  /\ LowMod \in Nat \ {0}
  /\ WordCounts \subseteq 0 .. LowMod * LowMod - 1
  /\ FifoCommands \in Nat \ {0}
  /\ MaxWrites \in Nat
  /\ MaxTxFailures \in Nat /\ MaxRxFailures \in Nat

VARIABLES
  ready, word_count,         \* fields of struct deca_adcintf
  tx, rx,                    \* tx_urb, rx_urb: idle, submitted or done
  mapped,                    \* word_count when tx_urb was submitted
  actual_length,             \* of rx_urb
  completions,               \* URBs whose callback has not run, in order
  matched,                   \* read_bulk_callback is past its length check
  pc, arg,                   \* where each user is in a call, and its argument
  queue, remaining, sent,    \* the device, as in CaptureService
  asked,      \* history: writes that have set word_count
  wanted,     \* history: the count the last of them was called with
  tickets,    \* history: for each command in queue, the write it is of
  serving,    \* history: the write the device is answering
  filled,     \* history: the write whose answer was last put in the buffer
  txFailures, \* history: transfers of each URB that failed
  rxFailures

structVars == << ready, word_count >>
urbVars == << tx, rx, mapped, actual_length, completions, matched >>
userVars == << pc, arg >>
deviceVars == << queue, remaining, sent, tickets, serving >>
historyVars == << asked, wanted, filled, txFailures, rxFailures >>
failureVars == << txFailures, rxFailures >>
vars == << structVars, urbVars, userVars, deviceVars, historyVars >>

Device == INSTANCE CaptureService

Init ==
  /\ ready = FALSE /\ word_count = 0
  /\ tx = "idle" /\ rx = "idle"
  /\ mapped = 0 /\ actual_length = 0
  /\ completions = << >>
  /\ matched = FALSE
  /\ pc = [u \in Users |-> "user"] /\ arg = [u \in Users |-> 0]
  /\ Device!Init
  /\ asked = 0 /\ wanted = 0
  /\ tickets = << >> /\ serving = 0
  /\ filled = 0
  /\ txFailures = 0 /\ rxFailures = 0

Goto(u, label) == pc' = [pc EXCEPT ![u] = label]

-----------------------------------------------------------------------------
\* Faulty variant: the user does not wait for the answer.
SettledTooSoon == tx = "idle"

\* Nothing moves by itself: the second that adc_test.c sleeps is enough.
Settled ==
  /\ tx = "idle" \/ (tx = "submitted" /\ Len(queue) = FifoCommands)
  /\ completions = << >> /\ ~matched
  /\ ~(remaining = 0 /\ queue # << >>)
  /\ ~(rx = "submitted" /\ remaining > 0)

\* Faulty variant: a write does not withdraw the answer that is ready.
WriteKeepsReady(u, w) ==
  /\ pc[u] = "user"
  /\ Settled
  /\ asked < MaxWrites
  /\ arg' = [arg EXCEPT ![u] = w % LowMod]
  /\ wanted' = w
  /\ Goto(u, "set_word_count")
  /\ UNCHANGED << structVars, urbVars, deviceVars, asked, filled, failureVars >>

\* deca_write.  get_user reads through a char pointer: one byte.
Write(u, w) ==
  /\ pc[u] = "user"
  /\ Settled
  /\ asked < MaxWrites
  /\ arg' = [arg EXCEPT ![u] = w % LowMod]
  /\ wanted' = w
  /\ ready' = FALSE
  /\ Goto(u, "set_word_count")
  /\ UNCHANGED << word_count, urbVars, deviceVars, asked, filled, failureVars >>

SetWordCount(u) ==
  /\ pc[u] = "set_word_count"
  /\ word_count' = arg[u]
  /\ asked' = asked + 1
  /\ Goto(u, "send_word_count")
  /\ UNCHANGED << ready, urbVars, arg, deviceVars, wanted, filled, failureVars >>

\* An error of the submission is logged and forgotten.
SendWordCount(u) ==
  /\ pc[u] = "send_word_count"
  /\ IF tx = "idle" THEN tx' = "submitted" /\ mapped' = word_count
     ELSE UNCHANGED << tx, mapped >>
  /\ Goto(u, "user")
  /\ UNCHANGED << structVars, rx, actual_length, completions, matched, arg,
                  deviceVars, historyVars >>

-----------------------------------------------------------------------------
\* Faulty variant: a read does not look at ready.
ReadNotReady(u, len) ==
  /\ pc[u] = "user"
  /\ arg' = [arg EXCEPT ![u] = len]
  /\ Goto(u, "check_length")
  /\ UNCHANGED << structVars, urbVars, deviceVars, historyVars >>

\* deca_read.  A call that finds ready clear returns at once and changes
\* nothing, and so does one whose length is not that of the answer.
Read(u, len) ==
  /\ pc[u] = "user"
  /\ ready
  /\ arg' = [arg EXCEPT ![u] = len]
  /\ Goto(u, "check_length")
  /\ UNCHANGED << structVars, urbVars, deviceVars, historyVars >>

CheckLength(u) ==
  /\ pc[u] = "check_length"
  /\ Goto(u, IF arg[u] = 2 * word_count THEN "copy" ELSE "user")
  /\ UNCHANGED << structVars, urbVars, arg, deviceVars, historyVars >>

\* copy_to_user may fault, which leaves the answer to be read again.
CopyToUser(u) ==
  /\ pc[u] = "copy"
  /\ Goto(u, "clear_ready") \/ Goto(u, "user")
  /\ UNCHANGED << structVars, urbVars, arg, deviceVars, historyVars >>

ClearReady(u) ==
  /\ pc[u] = "clear_ready"
  /\ ready' = FALSE
  /\ Goto(u, "clear_word_count")
  /\ UNCHANGED << word_count, urbVars, arg, deviceVars, historyVars >>

ClearWordCount(u) ==
  /\ pc[u] = "clear_word_count"
  /\ word_count' = 0
  /\ Goto(u, "user")
  /\ UNCHANGED << ready, urbVars, arg, deviceVars, historyVars >>

-----------------------------------------------------------------------------
\* The host controller sends the two bytes of word_count in place: what it had
\* mapped, or what they are by now.
TxTransfer ==
  /\ tx = "submitted"
  /\ Len(queue) < FifoCommands
  /\ \E w \in {mapped, word_count} : Device!Submit(w)
  /\ tickets' = Append(tickets, asked)
  /\ tx' = "done"
  /\ completions' = Append(completions, "tx")
  /\ UNCHANGED << structVars, rx, mapped, actual_length, matched, userVars,
                  serving, historyVars >>

\* The device turns to the next command.
Begin ==
  /\ Device!Begin
  /\ serving' = Head(tickets)
  /\ tickets' = Tail(tickets)
  /\ UNCHANGED << structVars, urbVars, userVars, historyVars >>

RxTransfer ==
  /\ rx = "submitted"
  /\ Device!SendByte
  /\ actual_length' = actual_length + 1
  /\ filled' = serving
  /\ IF remaining = 1
       THEN rx' = "done" /\ completions' = Append(completions, "rx")
       ELSE UNCHANGED << rx, completions >>
  /\ UNCHANGED << structVars, tx, mapped, matched, userVars, tickets, serving,
                  asked, wanted, failureVars >>

\* A transfer that fails completes all the same, with an error status.
TxFails ==
  /\ tx = "submitted"
  /\ txFailures < MaxTxFailures
  /\ txFailures' = txFailures + 1
  /\ tx' = "done"
  /\ completions' = Append(completions, "tx")
  /\ UNCHANGED << structVars, rx, mapped, actual_length, matched, userVars,
                  deviceVars, asked, wanted, filled, rxFailures >>

RxFails ==
  /\ rx = "submitted"
  /\ rxFailures < MaxRxFailures
  /\ rxFailures' = rxFailures + 1
  /\ rx' = "done"
  /\ completions' = Append(completions, "rx")
  /\ UNCHANGED << structVars, tx, mapped, actual_length, matched, userVars,
                  deviceVars, asked, wanted, filled, txFailures >>

-----------------------------------------------------------------------------
\* Callbacks run one at a time.
NextCallback(urb) ==
  /\ ~matched
  /\ completions # << >> /\ Head(completions) = urb
  /\ completions' = Tail(completions)

\* Faulty variant: the answer is not asked for.
WriteBulkCallbackForgets ==
  /\ NextCallback("tx")
  /\ tx' = "idle"
  /\ UNCHANGED << structVars, rx, actual_length, mapped, matched, userVars,
                  deviceVars, historyVars >>

\* write_bulk_callback looks at no status: it asks for the answer in any case,
\* unless rx_urb is still busy.
WriteBulkCallback ==
  /\ NextCallback("tx")
  /\ tx' = "idle"
  /\ IF rx = "idle" THEN rx' = "submitted" /\ actual_length' = 0
     ELSE UNCHANGED << rx, actual_length >>
  /\ UNCHANGED << structVars, mapped, matched, userVars, deviceVars, historyVars >>

\* read_bulk_callback: the length check, and then ready.
ReadBulkCallback ==
  /\ NextCallback("rx")
  /\ rx' = "idle"
  /\ matched' = (actual_length = 2 * word_count)
  /\ UNCHANGED << structVars, tx, mapped, actual_length, userVars, deviceVars,
                  historyVars >>

SetReady ==
  /\ matched
  /\ matched' = FALSE
  /\ ready' = TRUE
  /\ UNCHANGED << word_count, tx, rx, mapped, actual_length, completions, userVars,
                  deviceVars, historyVars >>

-----------------------------------------------------------------------------
UserStep(u) ==
  \/ SetWordCount(u)
  \/ SendWordCount(u)
  \/ CheckLength(u)
  \/ CopyToUser(u)
  \/ ClearReady(u)
  \/ ClearWordCount(u)

Bus ==
  \/ TxTransfer
  \/ Begin
  \/ RxTransfer
  \/ WriteBulkCallback
  \/ ReadBulkCallback
  \/ SetReady

Next ==
  \/ \E u \in Users, w \in WordCounts : Write(u, w) \/ Read(u, 2 * w)
  \/ \E u \in Users : UserStep(u)
  \/ Bus
  \/ TxFails
  \/ RxFails

Spec == Init /\ [][Next]_vars

\* A call runs to its end, and the bus and the interrupts are served; that
\* users call and that transfers fail is not assumed.
Fairness ==
  /\ \A u \in Users : WF_vars(UserStep(u))
  /\ WF_vars(Bus)

FairSpec == Spec /\ Fairness

-----------------------------------------------------------------------------
Labels == {"user", "set_word_count", "send_word_count", "check_length", "copy",
           "clear_ready", "clear_word_count"}

\* Each URB completes at most once before its callback runs.
Completions == {<< >>, << "tx" >>, << "rx" >>, << "tx", "rx" >>, << "rx", "tx" >>}

TypeOK ==
  /\ ready \in BOOLEAN /\ matched \in BOOLEAN
  /\ word_count \in 0 .. LowMod - 1 /\ mapped \in 0 .. LowMod - 1
  /\ tx \in {"idle", "submitted", "done"} /\ rx \in {"idle", "submitted", "done"}
  /\ actual_length \in Nat
  /\ completions \in Completions
  /\ pc \in [Users -> Labels] /\ arg \in [Users -> Nat]
  /\ queue \in Seq(0 .. LowMod - 1) /\ remaining \in Nat /\ sent \in Nat
  /\ tickets \in Seq(Nat) /\ Len(tickets) = Len(queue)
  /\ asked \in Nat /\ serving \in Nat /\ filled \in Nat /\ wanted \in Nat
  /\ txFailures \in Nat /\ rxFailures \in Nat

Copying == word_count # 0 /\ \E u \in Users : pc[u] = "copy"

(***************************************************************************)
(* What a user reads is the answer to the last write, whatever transfers of*)
(* tx_urb fail: write_bulk_callback submits rx_urb all the same, and the   *)
(* answer of the next write ends that.  A failed transfer of rx_urb is     *)
(* another matter: it leaves its answer in the device.                     *)
(***************************************************************************)
AnswerInStep == Copying /\ rxFailures = 0 => filled = asked

(***************************************************************************)
(* The buffer that copy_to_user reads is whole and at rest: it is of the   *)
(* length asked for, and no transfer into it is under way or can begin.    *)
(***************************************************************************)
BufferAtRest ==
  Copying /\ rxFailures = 0 =>
    /\ rx = "idle" /\ tx = "idle" /\ completions = << >>
    /\ actual_length = 2 * word_count

(***************************************************************************)
(* The bytes that the controller sends in place are those of the write:    *)
(* nobody changes word_count while tx_urb is submitted.                    *)
(***************************************************************************)
CountStable == tx = "submitted" /\ rxFailures = 0 => word_count = mapped

(***************************************************************************)
(* Answers never pile up in the device faster than transfers of rx_urb     *)
(* fail: at rest it holds at most one command or answer per failure, which *)
(* is how many writes late the answers are from then on.                   *)
(***************************************************************************)
BacklogBounded ==
  Settled => Len(queue) + (IF remaining > 0 THEN 1 ELSE 0) <= rxFailures

(***************************************************************************)
(* A write of a count other than 0 makes its answer ready, unless a        *)
(* transfer fails.                                                         *)
(***************************************************************************)
Waiting == word_count # 0 /\ \E u \in Users : pc[u] = "send_word_count"
WriteAnswered ==
  (Waiting /\ failureVars = << 0, 0 >>) ~> (ready \/ failureVars # << 0, 0 >>)

\* adc_test.c:32-33 accepts 1 to 512 words: deca_write keeps the count it was
\* called with.
CountKept == \A u \in Users : pc[u] = "send_word_count" => word_count = wanted

=============================================================================
