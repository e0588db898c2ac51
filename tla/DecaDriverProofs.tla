-------------------------- MODULE DecaDriverProofs --------------------------
(***************************************************************************)
(* Proofs about the driver's data path, for any counts, any device that    *)
(* accepts commands ahead, any number of writes and of failures.  What is  *)
(* said of answers is for one user: there is no lock for two.              *)
(***************************************************************************)
EXTENDS DecaDriver, SequenceTheorems, TLAPS

OneUser == \E u : Users = {u}

-----------------------------------------------------------------------------
(* Types: the URBs that are done are those whose callback has not run, and *)
(* the argument of a write is a byte.                                      *)
TypeInv ==
  /\ TypeOK
  /\ tx = "done" <=> completions \in {<< "tx" >>, << "tx", "rx" >>, << "rx", "tx" >>}
  /\ rx = "done" <=> completions \in {<< "rx" >>, << "tx", "rx" >>, << "rx", "tx" >>}
  /\ \A u \in Users : pc[u] = "set_word_count" => arg[u] < LowMod

-----------------------------------------------------------------------------
(* The backlog.  Fetching: an answer will be, or is being, taken.  Stuck: a*)
(* command waits for a device that is full and answers into nothing.       *)
Held == Len(queue) + (IF remaining > 0 THEN 1 ELSE 0)

Fetching == rx = "submitted" \/ completions \in {<< "tx" >>, << "rx", "tx" >>}

Writing == \E u \in Users : pc[u] \in {"set_word_count", "send_word_count"}

Stuck ==
  /\ tx = "submitted" /\ Len(queue) = FifoCommands /\ remaining > 0
  /\ rx = "idle" /\ completions = << >>

BacklogInv ==
  /\ Held <= rxFailures + (IF Fetching THEN 1 ELSE 0)
  /\ tx = "submitted" \/ Writing => Held <= rxFailures
  /\ Writing /\ tx = "submitted" => Stuck

-----------------------------------------------------------------------------
(* While no transfer of rx_urb has failed: a write finds everything at     *)
(* rest, its command and its answer are the only ones under way, nobody is *)
(* ready meanwhile, and a reader again finds everything at rest.           *)
AtRest == tx = "idle" /\ completions = << >> /\ ~matched /\ Held = 0

UnderWay == tx # "idle" \/ Held > 0 \/ rx = "done"

Reading ==
  \E u \in Users : pc[u] \in {"check_length", "copy", "clear_ready", "clear_word_count"}

StepInv ==
  /\ Writing => AtRest /\ ~ready
  /\ Reading => AtRest /\ rx = "idle"
  /\ \A u \in Users : pc[u] \in {"check_length", "copy", "clear_ready"} => ready
  /\ \A u \in Users : pc[u] = "clear_word_count" => ~ready
  /\ UnderWay => ~Writing /\ ~Reading /\ ~ready /\ ~matched
  /\ tx = "submitted" => completions = << >> /\ word_count = mapped
  /\ completions # << "rx", "tx" >>
  /\ \A i \in 1 .. Len(tickets) : tickets[i] = asked
  /\ remaining > 0 => serving = asked
  /\ rx = "done" => Held = 0 /\ filled = asked
  /\ matched => /\ ~Writing /\ ~Reading /\ ~ready
                /\ rx = "idle" /\ filled = asked /\ actual_length = 2 * word_count
  /\ ready => AtRest /\ rx = "idle" /\ filled = asked /\ actual_length = 2 * word_count

StepsInv == rxFailures = 0 => StepInv

-----------------------------------------------------------------------------
\* How the queue of callbacks grows and shrinks.
LEMMA Completed ==
  /\ Append(<< >>, "tx") = << "tx" >> /\ Append(<< >>, "rx") = << "rx" >>
  /\ Append(<< "rx" >>, "tx") = << "rx", "tx" >> /\ Append(<< "tx" >>, "rx") = << "tx", "rx" >>
<1>1. \A e : Append(<< >>, e) = << e >>
  OBVIOUS
<1>2. ASSUME NEW d, NEW e
      PROVE  Append(<< d >>, e) = << d, e >>
  <2> DEFINE more == Append(<< d >>, e)
  <2>1. /\ << d >> \in Seq({d, e}) /\ << d, e >> \in Seq({d, e})
        /\ Len(<< d >>) = 1 /\ Len(<< d, e >>) = 2 /\ << d >>[1] = d
    OBVIOUS
  <2>2. more \in Seq({d, e}) /\ Len(more) = 2 /\ more[1] = d /\ more[2] = e
    BY <2>1, AppendProperties
  <2> HIDE DEF more
  <2>3. \A i \in 1 .. 2 : more[i] = << d, e >>[i]
    BY <2>2
  <2> QED  BY <2>1, <2>2, <2>3, SeqEqual DEF more
<1> QED  BY <1>1, <1>2

LEMMA CalledBack ==
  /\ Head(<< "tx" >>) = "tx" /\ Tail(<< "tx" >>) = << >>
  /\ Head(<< "rx" >>) = "rx" /\ Tail(<< "rx" >>) = << >>
  /\ Head(<< "tx", "rx" >>) = "tx" /\ Tail(<< "tx", "rx" >>) = << "rx" >>
  /\ Head(<< "rx", "tx" >>) = "rx" /\ Tail(<< "rx", "tx" >>) = << "tx" >>
<1>1. Tail(<< "tx" >>) = << >> /\ Tail(<< "rx" >>) = << >>
  OBVIOUS
<1>2. Tail(<< "tx", "rx" >>) = << "rx" >>
  OBVIOUS
<1>3. Tail(<< "rx", "tx" >>) = << "tx" >>
  OBVIOUS
<1>4. /\ Head(<< "tx" >>) = "tx" /\ Head(<< "rx" >>) = "rx"
      /\ Head(<< "tx", "rx" >>) = "tx" /\ Head(<< "rx", "tx" >>) = "rx"
  OBVIOUS
<1> QED  BY <1>1, <1>2, <1>3, <1>4

LEMMA Different ==
  /\ << >> # << "tx" >> /\ << >> # << "rx" >> /\ << "tx" >> # << "rx" >>
  /\ << >> # << "tx", "rx" >> /\ << >> # << "rx", "tx" >>
  /\ << "tx" >> # << "tx", "rx" >> /\ << "tx" >> # << "rx", "tx" >>
  /\ << "rx" >> # << "tx", "rx" >> /\ << "rx" >> # << "rx", "tx" >>
  /\ << "tx", "rx" >> # << "rx", "tx" >>
OBVIOUS

\* What the gateware makes of a command is a number of bytes.
LEMMA LimitTyped ==
  ASSUME NEW w \in 0 .. LowMod - 1
  PROVE  2 * Device!Limit(w) \in Nat
<1>1. LowMod \in Nat \ {0} /\ w \in Nat
  BY DriverAssumption
<1>2. w % LowMod \in Nat /\ (w \div LowMod) % 2 \in Nat
  BY <1>1
<1>3. ((w \div LowMod) % 2) * LowMod \in Nat
  BY <1>1, <1>2
<1> QED  BY <1>1, <1>2, <1>3 DEF Device!Limit

LEMMA InitTypeInv == Init => TypeInv
<1> SUFFICES ASSUME Init
             PROVE  TypeInv
  OBVIOUS
<1>1. LowMod \in Nat \ {0}
  BY DriverAssumption
<1>2. /\ ready = FALSE /\ matched = FALSE /\ word_count = 0 /\ mapped = 0
      /\ tx = "idle" /\ rx = "idle" /\ actual_length = 0 /\ completions = << >>
      /\ pc = [u \in Users |-> "user"] /\ arg = [u \in Users |-> 0]
      /\ queue = << >> /\ remaining = 0 /\ sent = 0 /\ tickets = << >>
      /\ asked = 0 /\ serving = 0 /\ filled = 0 /\ wanted = 0
      /\ txFailures = 0 /\ rxFailures = 0
  BY DEF Init, Device!Init
<1>3. pc \in [Users -> Labels] /\ arg \in [Users -> Nat]
  BY <1>2 DEF Labels
<1>4. queue \in Seq(0 .. LowMod - 1) /\ tickets \in Seq(Nat) /\ Len(tickets) = Len(queue)
  BY <1>2
<1>5. TypeOK
  <2>1. 0 \in Nat /\ 0 \in 0 .. LowMod - 1 /\ completions \in Completions
    BY <1>1, <1>2 DEF Completions
  <2> QED  BY <1>2, <1>3, <1>4, <2>1 DEF TypeOK
<1>6. \A u \in Users : pc[u] # "set_word_count"
  BY <1>2
<1> QED  BY <1>2, <1>5, <1>6 DEF TypeInv

\* The steps of a user in a call.
LEMMA CallTypes ==
  ASSUME TypeInv, NEW u \in Users,
         UserStep(u) \/ (\E w \in WordCounts : Write(u, w) \/ Read(u, 2 * w))
  PROVE  TypeInv'
<1>1. /\ LowMod \in Nat \ {0}
      /\ \A w \in WordCounts : w \in Nat /\ 2 * w \in Nat /\ w % LowMod \in 0 .. LowMod - 1
  BY DriverAssumption
<1>2. /\ UNCHANGED << rx, completions, matched, actual_length, queue, remaining, sent,
                      tickets, serving, filled, txFailures, rxFailures >>
      /\ pc \in [Users -> Labels] /\ arg \in [Users -> Nat]
  BY DEF TypeInv, TypeOK, UserStep, Write, Read, SetWordCount, SendWordCount, CheckLength,
         CopyToUser, ClearReady, ClearWordCount, urbVars, structVars, deviceVars,
         historyVars, failureVars
<1> DEFINE Called ==
             /\ pc' \in [Users -> Labels] /\ arg' \in [Users -> Nat]
             /\ \A v \in Users : pc'[v] = "set_word_count" => arg'[v] < LowMod
           Rest ==
             /\ ready' \in BOOLEAN
             /\ word_count' \in 0 .. LowMod - 1 /\ mapped' \in 0 .. LowMod - 1
             /\ asked' \in Nat /\ wanted' \in Nat
             /\ tx' \in {"idle", "submitted", "done"} /\ (tx' = "done" <=> tx = "done")
<1>3. ASSUME NEW w \in WordCounts, Write(u, w)
      PROVE  Called /\ Rest
  <2>1. /\ pc' = [pc EXCEPT ![u] = "set_word_count"]
        /\ arg' = [arg EXCEPT ![u] = w % LowMod]
        /\ ready' = FALSE /\ wanted' = w
        /\ UNCHANGED << word_count, tx, mapped, asked >>
    BY <1>3 DEF Write, Goto, urbVars
  <2>2. w % LowMod \in Nat /\ w % LowMod < LowMod
    BY <1>1
  <2>3. Called
    BY <1>2, <2>1, <2>2 DEF TypeInv, Labels
  <2> QED  BY <1>1, <2>1, <2>3 DEF TypeInv, TypeOK
<1>4. ASSUME NEW w \in WordCounts, Read(u, 2 * w)
      PROVE  Called /\ Rest
  <2>1. /\ pc' = [pc EXCEPT ![u] = "check_length"]
        /\ arg' = [arg EXCEPT ![u] = 2 * w]
        /\ UNCHANGED << ready, word_count, tx, mapped, asked, wanted >>
    BY <1>4 DEF Read, Goto, structVars, urbVars, historyVars
  <2>2. Called
    BY <1>1, <1>2, <2>1 DEF TypeInv, Labels
  <2> QED  BY <2>1, <2>2 DEF TypeInv, TypeOK
<1>5. ASSUME UserStep(u)
      PROVE  Called /\ Rest
  <2>1. /\ \E label \in Labels \ {"set_word_count"} : pc' = [pc EXCEPT ![u] = label]
        /\ arg' = arg
    BY <1>5 DEF UserStep, SetWordCount, SendWordCount, CheckLength, CopyToUser, ClearReady,
                ClearWordCount, Goto, Labels
  <2>2. Called
    BY <1>2, <2>1 DEF TypeInv
  <2>3. CASE SetWordCount(u)
    <3>1. arg[u] \in 0 .. LowMod - 1
      BY <1>1, <1>2, <2>3 DEF SetWordCount, TypeInv
    <3> QED  BY <2>2, <2>3, <3>1 DEF SetWordCount, TypeInv, TypeOK, urbVars
  <2>4. CASE SendWordCount(u)
    BY <2>2, <2>4 DEF SendWordCount, TypeInv, TypeOK, structVars, historyVars
  <2>5. CASE CheckLength(u) \/ CopyToUser(u)
    BY <2>2, <2>5 DEF CheckLength, CopyToUser, TypeInv, TypeOK, structVars, urbVars, historyVars
  <2>6. CASE ClearReady(u)
    BY <2>2, <2>6 DEF ClearReady, TypeInv, TypeOK, urbVars, historyVars
  <2>7. CASE ClearWordCount(u)
    BY <1>1, <2>2, <2>7 DEF ClearWordCount, TypeInv, TypeOK, urbVars, historyVars
  <2> QED  BY <1>5, <2>3, <2>4, <2>5, <2>6, <2>7 DEF UserStep
<1>6. Called /\ Rest
  BY <1>3, <1>4, <1>5
<1> QED  BY <1>2, <1>6 DEF TypeInv, TypeOK


\* The steps of the bus and of the callbacks.
LEMMA UrbTypes ==
  ASSUME TypeInv, Bus \/ TxFails \/ RxFails
  PROVE  TypeInv'
<1> DEFINE Urbs(t, r, c) ==
             /\ t \in {"idle", "submitted", "done"} /\ r \in {"idle", "submitted", "done"}
             /\ c \in Completions
             /\ t = "done" <=> c \in {<< "tx" >>, << "tx", "rx" >>, << "rx", "tx" >>}
             /\ r = "done" <=> c \in {<< "rx" >>, << "tx", "rx" >>, << "rx", "tx" >>}
           Device1 ==
             /\ queue' \in Seq(0 .. LowMod - 1) /\ remaining' \in Nat /\ sent' \in Nat
             /\ tickets' \in Seq(Nat) /\ Len(tickets') = Len(queue')
             /\ serving' \in Nat /\ filled' \in Nat
           Rest ==
             /\ ready' \in BOOLEAN /\ matched' \in BOOLEAN /\ actual_length' \in Nat
             /\ txFailures' \in Nat /\ rxFailures' \in Nat
<1>1. /\ UNCHANGED << word_count, mapped, pc, arg, asked, wanted >>
  BY DEF Bus, TxTransfer, Begin, RxTransfer, TxFails, RxFails, WriteBulkCallback,
         ReadBulkCallback, SetReady, structVars, urbVars, userVars, deviceVars, historyVars,
         failureVars
<1>2. Urbs(tx, rx, completions)
  BY DEF TypeInv, TypeOK
<1>3. /\ queue \in Seq(0 .. LowMod - 1) /\ remaining \in Nat /\ sent \in Nat
      /\ tickets \in Seq(Nat) /\ Len(tickets) = Len(queue)
      /\ serving \in Nat /\ filled \in Nat /\ asked \in Nat
      /\ word_count \in 0 .. LowMod - 1 /\ mapped \in 0 .. LowMod - 1
      /\ ready \in BOOLEAN /\ matched \in BOOLEAN /\ actual_length \in Nat
      /\ txFailures \in Nat /\ rxFailures \in Nat
  BY DEF TypeInv, TypeOK
<1>4. tx = "submitted" => Urbs("done", rx, Append(completions, "tx"))
  BY <1>2, Completed, Different DEF Completions
<1>5. rx = "submitted" => Urbs(tx, "done", Append(completions, "rx"))
  BY <1>2, Completed, Different DEF Completions
<1>6. ASSUME completions # << >>, Head(completions) = "tx"
      PROVE  /\ Urbs("idle", rx, Tail(completions))
             /\ rx = "idle" => Urbs("idle", "submitted", Tail(completions))
  BY <1>2, <1>6, CalledBack, Different DEF Completions
<1>7. ASSUME completions # << >>, Head(completions) = "rx"
      PROVE  Urbs(tx, "idle", Tail(completions))
  BY <1>2, <1>7, CalledBack, Different DEF Completions
<1> HIDE DEF Urbs
<1>8. CASE TxTransfer
  <2>1. /\ tx = "submitted" /\ tx' = "done" /\ rx' = rx
        /\ completions' = Append(completions, "tx")
        /\ tickets' = Append(tickets, asked)
        /\ UNCHANGED << ready, matched, actual_length, serving, filled, txFailures, rxFailures >>
        /\ \E w \in {mapped, word_count} :
             queue' = Append(queue, w) /\ UNCHANGED << remaining, sent >>
    BY <1>8 DEF TxTransfer, Device!Submit, structVars, historyVars
  <2>2. Device1
    BY <1>3, <2>1
  <2>3. Urbs(tx', rx', completions')
    BY <1>4, <2>1
  <2> QED  BY <1>1, <1>3, <2>1, <2>2, <2>3 DEF Urbs, TypeInv, TypeOK
<1>9. CASE Begin
  <2>1. /\ queue # << >> /\ queue' = Tail(queue)
        /\ remaining' = 2 * Device!Limit(Head(queue)) /\ sent' = 0
        /\ serving' = Head(tickets) /\ tickets' = Tail(tickets)
        /\ UNCHANGED << ready, matched, actual_length, filled, txFailures, rxFailures,
                        tx, rx, completions >>
    BY <1>9 DEF Begin, Device!Begin, structVars, urbVars, historyVars
  <2>2. tickets # << >>
    BY <1>3, <2>1
  <2>3. Head(queue) \in 0 .. LowMod - 1 /\ Head(tickets) \in Nat
    BY <1>3, <2>1, <2>2, HeadTailProperties
  <2>4. remaining' \in Nat
    BY <2>1, <2>3, LimitTyped
  <2>5. Tail(queue) \in Seq(0 .. LowMod - 1) /\ Tail(tickets) \in Seq(Nat)
        /\ Len(Tail(tickets)) = Len(Tail(queue))
    <3>1. Len(Tail(queue)) = Len(queue) - 1 /\ Tail(queue) \in Seq(0 .. LowMod - 1)
      BY <1>3, <2>1
    <3>2. Len(Tail(tickets)) = Len(tickets) - 1 /\ Tail(tickets) \in Seq(Nat)
      BY <1>3, <2>2
    <3> QED  BY <1>3, <3>1, <3>2
  <2>6. Device1
    BY <1>3, <2>1, <2>3, <2>4, <2>5
  <2>7. Urbs(tx', rx', completions')
    BY <1>2, <2>1
  <2> QED  BY <1>1, <1>3, <2>1, <2>6, <2>7 DEF Urbs, TypeInv, TypeOK
<1>10. CASE RxTransfer
  <2>1. /\ rx = "submitted" /\ tx' = tx /\ remaining > 0
        /\ \/ rx' = "done" /\ completions' = Append(completions, "rx")
           \/ UNCHANGED << rx, completions >>
        /\ remaining' = remaining - 1 /\ sent' = sent + 1 /\ queue' = queue
        /\ actual_length' = actual_length + 1 /\ filled' = serving
        /\ UNCHANGED << ready, matched, tickets, serving, txFailures, rxFailures >>
    BY <1>10 DEF RxTransfer, Device!SendByte, structVars, failureVars
  <2>2. Device1
    BY <1>3, <2>1
  <2>3. Urbs(tx', rx', completions')
    BY <1>2, <1>5, <2>1
  <2>4. actual_length' \in Nat
    BY <1>3, <2>1
  <2> QED  BY <1>1, <1>3, <2>1, <2>2, <2>3, <2>4 DEF Urbs, TypeInv, TypeOK
<1>11. CASE TxFails
  <2>1. /\ tx = "submitted" /\ tx' = "done" /\ rx' = rx
        /\ completions' = Append(completions, "tx")
        /\ txFailures' = txFailures + 1
        /\ UNCHANGED << ready, matched, actual_length, filled, rxFailures >>
        /\ UNCHANGED << queue, remaining, sent, tickets, serving >>
    BY <1>11 DEF TxFails, structVars, deviceVars
  <2>2. Urbs(tx', rx', completions') /\ txFailures' \in Nat
    BY <1>3, <1>4, <2>1
  <2> QED  BY <1>1, <1>3, <2>1, <2>2 DEF Urbs, TypeInv, TypeOK
<1>12. CASE RxFails
  <2>1. /\ rx = "submitted" /\ rx' = "done" /\ tx' = tx
        /\ completions' = Append(completions, "rx")
        /\ rxFailures' = rxFailures + 1
        /\ UNCHANGED << ready, matched, actual_length, filled, txFailures >>
        /\ UNCHANGED << queue, remaining, sent, tickets, serving >>
    BY <1>12 DEF RxFails, structVars, deviceVars
  <2>2. Urbs(tx', rx', completions') /\ rxFailures' \in Nat
    BY <1>3, <1>5, <2>1
  <2> QED  BY <1>1, <1>3, <2>1, <2>2 DEF Urbs, TypeInv, TypeOK
<1>13. CASE WriteBulkCallback
  <2>1. /\ completions # << >> /\ Head(completions) = "tx" /\ completions' = Tail(completions)
        /\ tx' = "idle"
        /\ \/ rx = "idle" /\ rx' = "submitted" /\ actual_length' = 0
           \/ UNCHANGED << rx, actual_length >>
        /\ UNCHANGED << ready, matched, filled, txFailures, rxFailures >>
        /\ UNCHANGED << queue, remaining, sent, tickets, serving >>
    BY <1>13 DEF WriteBulkCallback, NextCallback, structVars, deviceVars, historyVars
  <2>2. Urbs(tx', rx', completions') /\ actual_length' \in Nat
    BY <1>3, <1>6, <2>1
  <2> QED  BY <1>1, <1>3, <2>1, <2>2 DEF Urbs, TypeInv, TypeOK
<1>14. CASE ReadBulkCallback
  <2>1. /\ completions # << >> /\ Head(completions) = "rx" /\ completions' = Tail(completions)
        /\ rx' = "idle" /\ tx' = tx
        /\ matched' = (actual_length = 2 * word_count)
        /\ UNCHANGED << ready, actual_length, filled, txFailures, rxFailures >>
        /\ UNCHANGED << queue, remaining, sent, tickets, serving >>
    BY <1>14 DEF ReadBulkCallback, NextCallback, structVars, deviceVars, historyVars
  <2>2. matched' \in BOOLEAN
    BY <2>1
  <2>3. Urbs(tx', rx', completions')
    BY <1>7, <2>1
  <2> QED  BY <1>1, <1>3, <2>1, <2>2, <2>3 DEF Urbs, TypeInv, TypeOK
<1>15. CASE SetReady
  <2>1. /\ matched' = FALSE /\ ready' = TRUE
        /\ UNCHANGED << tx, rx, completions, actual_length, filled, txFailures, rxFailures >>
        /\ UNCHANGED << queue, remaining, sent, tickets, serving >>
    BY <1>15 DEF SetReady, deviceVars, historyVars
  <2>2. Urbs(tx', rx', completions')
    BY <1>2, <2>1
  <2> QED  BY <1>1, <1>3, <2>1, <2>2 DEF Urbs, TypeInv, TypeOK
<1> QED  BY <1>8, <1>9, <1>10, <1>11, <1>12, <1>13, <1>14, <1>15 DEF Bus

LEMMA NextTypeInv == TypeInv /\ [Next]_vars => TypeInv'
<1> SUFFICES ASSUME TypeInv, [Next]_vars
             PROVE  TypeInv'
  OBVIOUS
<1>1. CASE UNCHANGED vars
  BY <1>1 DEF vars, structVars, urbVars, userVars, deviceVars, historyVars, TypeInv, TypeOK
<1> QED  BY <1>1, CallTypes, UrbTypes DEF Next

\* The variables of the data path keep their types, whoever calls and
\* whatever fails.
THEOREM DriverTypes == Spec => []TypeOK
<1>1. TypeInv => TypeOK
  BY DEF TypeInv
<1> QED  BY <1>1, InitTypeInv, NextTypeInv, PTL DEF Spec

-----------------------------------------------------------------------------
(* One step of the backlog.                                                *)
LEMMA HeldTyped ==
  ASSUME TypeInv
  PROVE  Held \in Nat /\ rxFailures \in Nat /\ remaining \in Nat /\ Len(queue) \in Nat
BY DEF TypeInv, TypeOK, Held

LEMMA WriteFromRest ==
  ASSUME TypeInv, BacklogInv, Settled
  PROVE  /\ Held <= rxFailures
         /\ tx = "submitted" => Stuck
<1>1. /\ Held \in Nat /\ rxFailures \in Nat /\ remaining \in Nat /\ Len(queue) \in Nat
      /\ queue = << >> <=> Len(queue) = 0
  BY HeldTyped DEF TypeInv, TypeOK
<1>2. /\ tx = "idle" \/ (tx = "submitted" /\ Len(queue) = FifoCommands)
      /\ completions = << >> /\ ~matched
      /\ remaining > 0 \/ queue = << >>
      /\ rx # "submitted" \/ remaining = 0
  BY <1>1 DEF Settled
<1>3. Held <= rxFailures
  <2>1. CASE Fetching
    <3>1. rx = "submitted"
      BY <1>2, <2>1, Different DEF Fetching
    <3>2. Held = 0
      BY <1>1, <1>2, <3>1 DEF Held
    <3> QED  BY <1>1, <3>2
  <2>2. CASE ~Fetching
    BY <1>1, <2>2 DEF BacklogInv
  <2> QED  BY <2>1, <2>2
<1>4. tx = "submitted" => Stuck
  <2> SUFFICES ASSUME tx = "submitted"
               PROVE  Stuck
    OBVIOUS
  <2>1. Len(queue) = FifoCommands /\ FifoCommands # 0
    BY <1>2, DriverAssumption
  <2>2. remaining > 0 /\ rx # "submitted"
    BY <1>1, <1>2, <2>1
  <2>3. rx = "idle"
    BY <1>2, <2>2, Different DEF TypeInv, TypeOK
  <2> QED  BY <1>2, <2>1, <2>2, <2>3 DEF Stuck
<1> QED  BY <1>3, <1>4

LEMMA CallBacklog ==
  ASSUME OneUser, TypeInv, BacklogInv, NEW u \in Users,
         UserStep(u) \/ (\E w \in WordCounts : Write(u, w) \/ Read(u, 2 * w))
  PROVE  BacklogInv'
<1>1. Users = {u} /\ pc \in [Users -> Labels]
  BY DEF OneUser, TypeInv, TypeOK
<1>2. /\ UNCHANGED << rx, completions, queue, remaining, rxFailures >>
  BY DEF UserStep, Write, Read, SetWordCount, SendWordCount, CheckLength, CopyToUser,
         ClearReady, ClearWordCount, urbVars, structVars, deviceVars, historyVars, failureVars
<1>3. Held' = Held /\ (Fetching' <=> Fetching)
  BY <1>2 DEF Held, Fetching
<1>4. /\ Writing <=> pc[u] \in {"set_word_count", "send_word_count"}
      /\ Writing' <=> pc'[u] \in {"set_word_count", "send_word_count"}
  BY <1>1 DEF Writing
<1>5. CASE \E w \in WordCounts : Write(u, w)
  <2>1. Settled /\ tx' = tx
    BY <1>5 DEF Write, urbVars
  <2>2. Held <= rxFailures /\ (tx = "submitted" => Stuck)
    BY <2>1, WriteFromRest
  <2>3. tx' = "submitted" => Stuck'
    BY <1>2, <2>1, <2>2 DEF Stuck
  <2> QED  BY <1>2, <1>3, <2>2, <2>3 DEF BacklogInv
<1>6. CASE SetWordCount(u)
  <2>1. Writing /\ tx' = tx
    BY <1>4, <1>6 DEF SetWordCount, urbVars
  <2>2. tx' = "submitted" => Stuck'
    BY <1>2, <2>1 DEF BacklogInv, Stuck
  <2> QED  BY <1>2, <1>3, <2>1, <2>2 DEF BacklogInv
<1>7. CASE SendWordCount(u)
  <2>1. Writing /\ ~Writing'
    BY <1>1, <1>4, <1>7 DEF SendWordCount, Goto
  <2> QED  BY <1>2, <1>3, <2>1 DEF BacklogInv
<1>8. CASE \/ \E w \in WordCounts : Read(u, 2 * w)
           \/ CheckLength(u) \/ CopyToUser(u) \/ ClearReady(u) \/ ClearWordCount(u)
  <2>1. ~Writing' /\ tx' = tx
    BY <1>1, <1>4, <1>8 DEF Read, CheckLength, CopyToUser, ClearReady, ClearWordCount, Goto, urbVars
  <2> QED  BY <1>2, <1>3, <2>1 DEF BacklogInv
<1> QED  BY <1>5, <1>6, <1>7, <1>8 DEF UserStep

LEMMA UrbBacklog ==
  ASSUME TypeInv, BacklogInv, Bus \/ TxFails \/ RxFails
  PROVE  BacklogInv'
<1>1. /\ Held \in Nat /\ rxFailures \in Nat /\ remaining \in Nat /\ Len(queue) \in Nat
      /\ completions \in Completions /\ queue \in Seq(0 .. LowMod - 1)
  BY HeldTyped DEF TypeInv, TypeOK
<1>2. pc' = pc
  BY DEF Bus, TxTransfer, Begin, RxTransfer, TxFails, RxFails, WriteBulkCallback,
         ReadBulkCallback, SetReady, userVars
<1>3. Writing' <=> Writing
  BY <1>2 DEF Writing
<1>4. /\ tx = "done" <=> completions \in {<< "tx" >>, << "tx", "rx" >>, << "rx", "tx" >>}
      /\ rx = "done" <=> completions \in {<< "rx" >>, << "tx", "rx" >>, << "rx", "tx" >>}
      /\ tx = "submitted" => completions \in {<< >>, << "rx" >>}
  BY <1>1 DEF TypeInv, Completions
<1>5. CASE TxTransfer
  <2>1. /\ tx = "submitted" /\ tx' = "done" /\ rx' = rx
        /\ Len(queue) < FifoCommands
        /\ completions' = Append(completions, "tx")
        /\ remaining' = remaining /\ rxFailures' = rxFailures
        /\ \E w \in {mapped, word_count} : queue' = Append(queue, w)
    BY <1>5 DEF TxTransfer, Device!Submit, structVars, historyVars
  <2>2. ~Writing
    BY <1>1, <2>1 DEF BacklogInv, Stuck
  <2>3. Len(queue') = Len(queue) + 1
    BY <1>1, <2>1
  <2>4. Held' = Held + 1
    BY <1>1, <2>1, <2>3 DEF Held
  <2>5. Fetching'
    BY <1>4, <2>1, Completed DEF Fetching
  <2>6. Held <= rxFailures
    BY <2>1 DEF BacklogInv
  <2>7. Held' <= rxFailures' + 1
    BY <1>1, <2>1, <2>4, <2>6
  <2> QED  BY <1>3, <2>1, <2>2, <2>5, <2>7 DEF BacklogInv
<1>6. CASE Begin
  <2>1. /\ remaining = 0 /\ queue # << >> /\ queue' = Tail(queue)
        /\ UNCHANGED << tx, rx, completions, rxFailures >>
    BY <1>6 DEF Begin, Device!Begin, urbVars, historyVars
  <2>2. Len(queue') = Len(queue) - 1
    BY <1>1, <2>1, HeadTailProperties
  <2>3. Held = Len(queue) /\ Held' \in {Len(queue) - 1, Len(queue)}
    <3>1. Held = Len(queue) + 0
      BY <2>1 DEF Held
    <3>2. CASE remaining' > 0
      BY <1>1, <2>2, <3>1, <3>2 DEF Held
    <3>3. CASE ~(remaining' > 0)
      BY <1>1, <2>2, <3>1, <3>3 DEF Held
    <3> QED  BY <3>2, <3>3
  <2>4. Held' <= Held /\ Held' \in Int
    BY <1>1, <2>3
  <2>5. ~(Writing /\ tx = "submitted")
    BY <2>1 DEF BacklogInv, Stuck
  <2>6. Fetching' <=> Fetching
    BY <2>1 DEF Fetching
  <2>7. \A n \in Nat : Held <= n => Held' <= n
    BY <1>1, <2>4
  <2>8. rxFailures' = rxFailures /\ rxFailures + 1 \in Nat /\ rxFailures + 0 \in Nat
    BY <1>1, <2>1
  <2> QED  BY <1>1, <1>3, <2>1, <2>5, <2>6, <2>7, <2>8 DEF BacklogInv
<1>7. CASE RxTransfer
  <2>1. /\ rx = "submitted" /\ remaining > 0 /\ remaining' = remaining - 1
        /\ \/ remaining = 1 /\ rx' = "done"
           \/ remaining # 1 /\ rx' = rx /\ completions' = completions
        /\ UNCHANGED << tx, queue, rxFailures >>
    BY <1>7 DEF RxTransfer, Device!SendByte, failureVars
  <2>2. ~(Writing /\ tx = "submitted") /\ Fetching
    BY <2>1 DEF BacklogInv, Stuck, Fetching
  <2>3. CASE remaining = 1 /\ rx' = "done"
    <3>1. Held' = Held - 1
      BY <1>1, <2>1, <2>3 DEF Held
    <3>2. Held' <= rxFailures'
      BY <1>1, <2>1, <2>2, <3>1 DEF BacklogInv
    <3>3. Held' <= rxFailures' + (IF Fetching' THEN 1 ELSE 0)
      BY <1>1, <2>1, <3>1, <3>2
    <3> QED  BY <1>3, <2>1, <2>2, <3>2, <3>3 DEF BacklogInv
  <2>4. CASE remaining # 1 /\ rx' = rx /\ completions' = completions
    <3>1. Held' = Held
      BY <1>1, <2>1, <2>4 DEF Held
    <3>2. Fetching'
      BY <2>1, <2>4 DEF Fetching
    <3> QED  BY <1>3, <2>1, <2>2, <3>1, <3>2 DEF BacklogInv
  <2> QED  BY <2>1, <2>3, <2>4
<1>8. CASE TxFails
  <2>1. /\ tx = "submitted" /\ tx' = "done"
        /\ UNCHANGED << rx, queue, remaining, rxFailures >>
    BY <1>8 DEF TxFails, deviceVars
  <2>2. Held' = Held
    BY <2>1 DEF Held
  <2>3. Held <= rxFailures
    BY <2>1 DEF BacklogInv
  <2>4. Held' <= rxFailures' + (IF Fetching' THEN 1 ELSE 0)
    BY <1>1, <2>1, <2>2, <2>3
  <2> QED  BY <1>3, <2>1, <2>2, <2>3, <2>4 DEF BacklogInv
<1>9. CASE RxFails
  <2>1. /\ rx = "submitted" /\ rx' = "done" /\ rxFailures' = rxFailures + 1
        /\ UNCHANGED << tx, queue, remaining >>
    BY <1>9 DEF RxFails, deviceVars
  <2>2. Held' = Held /\ Fetching
    BY <2>1 DEF Held, Fetching
  <2>3. Held' <= rxFailures'
    BY <1>1, <2>1, <2>2 DEF BacklogInv
  <2>4. Held' <= rxFailures' + (IF Fetching' THEN 1 ELSE 0)
    BY <1>1, <2>1, <2>2, <2>3
  <2>5. ~(Writing /\ tx = "submitted")
    BY <2>1 DEF BacklogInv, Stuck
  <2> QED  BY <1>3, <2>1, <2>3, <2>4, <2>5 DEF BacklogInv
<1>10. CASE WriteBulkCallback
  <2>1. /\ completions # << >> /\ Head(completions) = "tx" /\ completions' = Tail(completions)
        /\ tx' = "idle" /\ (rx = "idle" => rx' = "submitted") /\ (rx # "idle" => rx' = rx)
        /\ UNCHANGED << queue, remaining, rxFailures >>
    BY <1>10 DEF WriteBulkCallback, NextCallback, deviceVars, historyVars
  <2>2. Held' = Held
    BY <2>1 DEF Held
  <2>3. completions = << "tx" >> \/ completions = << "tx", "rx" >>
    BY <1>1, <2>1, CalledBack DEF Completions
  <2>4. Fetching => Fetching'
    <3>1. CASE completions = << "tx" >>
      <4>1. rx # "done"
        BY <1>4, <3>1, Different
      <4>2. rx' = "submitted"
        BY <2>1, <4>1 DEF TypeInv, TypeOK
      <4> QED  BY <4>2 DEF Fetching
    <3>2. CASE completions = << "tx", "rx" >>
      BY <1>4, <2>1, <3>2, Different DEF Fetching
    <3> QED  BY <2>3, <3>1, <3>2
  <2> QED  BY <1>1, <1>3, <2>1, <2>2, <2>4 DEF BacklogInv
<1>11. CASE ReadBulkCallback
  <2>1. /\ completions # << >> /\ Head(completions) = "rx" /\ completions' = Tail(completions)
        /\ UNCHANGED << tx, queue, remaining, rxFailures >>
    BY <1>11 DEF ReadBulkCallback, NextCallback, deviceVars, historyVars
  <2>2. Held' = Held
    BY <2>1 DEF Held
  <2>3. completions = << "rx" >> \/ completions = << "rx", "tx" >>
    BY <1>1, <2>1, CalledBack DEF Completions
  <2>4. rx = "done"
    BY <1>4, <2>3
  <2>5. Fetching => Fetching'
    BY <2>1, <2>3, <2>4, CalledBack, Different DEF Fetching
  <2>6. ~(Writing /\ tx = "submitted")
    BY <2>1 DEF BacklogInv, Stuck
  <2> QED  BY <1>1, <1>3, <2>1, <2>2, <2>5, <2>6 DEF BacklogInv
<1>12. CASE SetReady
  <2>1. UNCHANGED << tx, rx, completions, queue, remaining, rxFailures >>
    BY <1>12 DEF SetReady, deviceVars, historyVars
  <2> QED  BY <1>3, <2>1 DEF BacklogInv, Held, Fetching, Stuck
<1> QED  BY <1>5, <1>6, <1>7, <1>8, <1>9, <1>10, <1>11, <1>12 DEF Bus

LEMMA InitBacklog == Init => BacklogInv
<1> SUFFICES ASSUME Init
             PROVE  BacklogInv
  OBVIOUS
<1>1. /\ queue = << >> /\ remaining = 0 /\ rxFailures = 0 /\ tx = "idle"
      /\ \A u \in Users : pc[u] = "user"
  BY DEF Init, Device!Init
<1>2. Held = 0 /\ ~Writing
  BY <1>1 DEF Held, Writing
<1> QED  BY <1>1, <1>2 DEF BacklogInv

LEMMA NextBacklog ==
  ASSUME OneUser
  PROVE  TypeInv /\ BacklogInv /\ [Next]_vars => BacklogInv'
<1> SUFFICES ASSUME TypeInv, BacklogInv, [Next]_vars
             PROVE  BacklogInv'
  OBVIOUS
<1>1. CASE UNCHANGED vars
  <2>1. UNCHANGED << tx, rx, completions, queue, remaining, rxFailures, pc >>
    BY <1>1 DEF vars, structVars, urbVars, userVars, deviceVars, historyVars
  <2> QED  BY <2>1 DEF BacklogInv, Held, Fetching, Stuck, Writing
<1> QED  BY <1>1, CallBacklog, UrbBacklog DEF Next

\* At rest the device holds at most one command or answer for each transfer of
\* rx_urb that failed (write_bulk_callback and read_bulk_callback look at no
\* status), for one user, however many writes and failures there are.
THEOREM BacklogCorrect ==
  ASSUME OneUser
  PROVE  Spec => []BacklogBounded
<1>1. TypeInv /\ BacklogInv => BacklogBounded
  BY WriteFromRest DEF BacklogBounded, Held
<1> QED  BY <1>1, InitTypeInv, NextTypeInv, InitBacklog, NextBacklog, PTL DEF Spec

-----------------------------------------------------------------------------
\* What is known of the URBs while a step of StepInv is proved.
LEMMA RestTyped ==
  ASSUME TypeInv
  PROVE  /\ Held = 0 <=> queue = << >> /\ remaining = 0
         /\ Held > 0 <=> Held # 0
         /\ queue = << >> <=> tickets = << >>
         /\ completions = << >> <=> tx # "done" /\ rx # "done"
         /\ tx # "done" /\ rx = "done" => completions = << "rx" >>
         /\ tx = "done" /\ rx # "done" => completions = << "tx" >>
         /\ completions \in Completions
         /\ tx \in {"idle", "submitted", "done"} /\ rx \in {"idle", "submitted", "done"}
<1>1. /\ Held \in Nat /\ remaining \in Nat /\ Len(queue) \in Nat
      /\ queue \in Seq(0 .. LowMod - 1) /\ tickets \in Seq(Nat) /\ Len(tickets) = Len(queue)
  BY HeldTyped DEF TypeInv, TypeOK
<1>2. /\ queue = << >> <=> Len(queue) = 0
      /\ tickets = << >> <=> Len(tickets) = 0
  BY <1>1
<1>3. Held = 0 <=> queue = << >> /\ remaining = 0
  BY <1>1, <1>2 DEF Held
<1>4. /\ tx = "done" <=> completions \in {<< "tx" >>, << "tx", "rx" >>, << "rx", "tx" >>}
      /\ rx = "done" <=> completions \in {<< "rx" >>, << "tx", "rx" >>, << "rx", "tx" >>}
      /\ completions \in Completions
      /\ tx \in {"idle", "submitted", "done"} /\ rx \in {"idle", "submitted", "done"}
  BY DEF TypeInv, TypeOK
<1>5. /\ completions = << >> <=> tx # "done" /\ rx # "done"
      /\ tx # "done" /\ rx = "done" => completions = << "rx" >>
      /\ tx = "done" /\ rx # "done" => completions = << "tx" >>
  BY <1>4, Different DEF Completions
<1>6. Held > 0 <=> Held # 0
  BY <1>1
<1> QED  BY <1>1, <1>2, <1>3, <1>4, <1>5, <1>6

LEMMA CallStep ==
  ASSUME OneUser, TypeInv, BacklogInv, rxFailures = 0, StepInv, NEW u \in Users,
         UserStep(u) \/ (\E w \in WordCounts : Write(u, w) \/ Read(u, 2 * w))
  PROVE  StepInv'
<1>1. Users = {u} /\ pc \in [Users -> Labels]
  BY DEF OneUser, TypeInv, TypeOK
<1>2. UNCHANGED << rx, completions, matched, actual_length, queue, remaining, tickets, serving, filled >>
  BY DEF UserStep, Write, Read, SetWordCount, SendWordCount, CheckLength, CopyToUser,
         ClearReady, ClearWordCount, urbVars, structVars, deviceVars, historyVars, failureVars
<1>3. Held' = Held
  BY <1>2 DEF Held
<1>4. /\ Writing <=> pc[u] \in {"set_word_count", "send_word_count"}
      /\ Writing' <=> pc'[u] \in {"set_word_count", "send_word_count"}
      /\ Reading <=> pc[u] \in {"check_length", "copy", "clear_ready", "clear_word_count"}
      /\ Reading' <=> pc'[u] \in {"check_length", "copy", "clear_ready", "clear_word_count"}
  BY <1>1 DEF Writing, Reading
<1>5. /\ Held = 0 => tickets = << >> /\ remaining = 0
      /\ completions = << >> => tx # "done" /\ rx # "done"
      /\ \A i \in 1 .. Len(<< >>) : FALSE
  BY RestTyped
<1>6. AtRest => /\ ~UnderWay /\ completions # << "rx", "tx" >>
                /\ Len(tickets) = 0 /\ ~(remaining > 0) /\ rx # "done" /\ ~matched
  BY <1>5, Different, RestTyped DEF AtRest, UnderWay
<1>7. CASE \E w \in WordCounts : Write(u, w)
  <2>1. /\ Settled /\ pc'[u] = "set_word_count" /\ ~ready' /\ UNCHANGED << tx, word_count, mapped, asked >>
    BY <1>1, <1>7 DEF Write, Goto, urbVars
  <2>2. Held <= 0 /\ (tx = "submitted" => Stuck)
    BY <2>1, WriteFromRest
  <2>3. Held = 0
    BY <2>2, HeldTyped
  <2>4. tx # "submitted"
    BY <1>5, <2>2, <2>3 DEF Stuck
  <2>5. AtRest
    BY <2>1, <2>3, <2>4 DEF AtRest, Settled
  <2>6. AtRest' /\ ~UnderWay'
    BY <1>2, <1>3, <1>6, <2>1, <2>5 DEF AtRest, UnderWay
  <2> QED  BY <1>1, <1>2, <1>4, <1>6, <2>1, <2>5, <2>6 DEF StepInv, AtRest
<1>8. CASE SetWordCount(u)
  <2>1. pc[u] = "set_word_count" /\ pc'[u] = "send_word_count" /\ UNCHANGED << tx, ready, mapped >>
    BY <1>1, <1>8 DEF SetWordCount, Goto, urbVars
  <2>2. AtRest /\ ~ready
    BY <1>4, <2>1 DEF StepInv
  <2>3. AtRest' /\ ~UnderWay'
    BY <1>2, <1>3, <1>6, <2>1, <2>2 DEF AtRest, UnderWay
  <2> QED  BY <1>1, <1>2, <1>4, <1>6, <2>1, <2>2, <2>3 DEF StepInv, AtRest
<1>9. CASE SendWordCount(u)
  <2>1. /\ pc[u] = "send_word_count" /\ pc'[u] = "user" /\ UNCHANGED << ready, word_count, asked >>
        /\ tx = "idle" => tx' = "submitted" /\ mapped' = word_count
    BY <1>1, <1>9 DEF SendWordCount, Goto, structVars, historyVars
  <2>2. AtRest /\ ~ready
    BY <1>4, <2>1 DEF StepInv
  <2> QED  BY <1>1, <1>2, <1>4, <1>6, <2>1, <2>2 DEF StepInv, AtRest
<1>10. CASE \E w \in WordCounts : Read(u, 2 * w)
  <2>1. ready /\ pc'[u] = "check_length" /\ UNCHANGED << tx, ready, word_count, mapped, asked >>
    BY <1>1, <1>10 DEF Read, Goto, urbVars, structVars, historyVars
  <2>2. AtRest /\ rx = "idle" /\ filled = asked /\ actual_length = 2 * word_count
    BY <2>1 DEF StepInv
  <2>3. AtRest' /\ ~UnderWay'
    BY <1>2, <1>3, <1>6, <2>1, <2>2 DEF AtRest, UnderWay
  <2> QED  BY <1>1, <1>2, <1>4, <1>6, <2>1, <2>2, <2>3 DEF StepInv, AtRest
<1>11. CASE CheckLength(u) \/ CopyToUser(u)
  <2>1. /\ pc[u] \in {"check_length", "copy"} /\ pc'[u] \in {"copy", "clear_ready", "user"}
        /\ UNCHANGED << tx, ready, word_count, mapped, asked >>
    BY <1>1, <1>11 DEF CheckLength, CopyToUser, Goto, urbVars, structVars, historyVars
  <2>2. AtRest /\ rx = "idle" /\ ready /\ filled = asked /\ actual_length = 2 * word_count
    BY <1>4, <2>1 DEF StepInv
  <2>3. AtRest' /\ ~UnderWay'
    BY <1>2, <1>3, <1>6, <2>1, <2>2 DEF AtRest, UnderWay
  <2> QED  BY <1>1, <1>2, <1>4, <1>6, <2>1, <2>2, <2>3 DEF StepInv, AtRest
<1>12. CASE ClearReady(u)
  <2>1. /\ pc[u] = "clear_ready" /\ pc'[u] = "clear_word_count" /\ ~ready'
        /\ UNCHANGED << tx, word_count, mapped, asked >>
    BY <1>1, <1>12 DEF ClearReady, Goto, urbVars, historyVars
  <2>2. AtRest /\ rx = "idle"
    BY <1>4, <2>1 DEF StepInv
  <2>3. AtRest' /\ ~UnderWay'
    BY <1>2, <1>3, <1>6, <2>1, <2>2 DEF AtRest, UnderWay
  <2> QED  BY <1>1, <1>2, <1>4, <1>6, <2>1, <2>2, <2>3 DEF StepInv, AtRest
<1>13. CASE ClearWordCount(u)
  <2>1. /\ pc[u] = "clear_word_count" /\ pc'[u] = "user" /\ UNCHANGED << tx, ready, mapped, asked >>
    BY <1>1, <1>13 DEF ClearWordCount, Goto, urbVars, historyVars
  <2>2. AtRest /\ rx = "idle" /\ ~ready
    BY <1>4, <2>1 DEF StepInv
  <2>3. AtRest' /\ ~UnderWay'
    BY <1>2, <1>3, <1>6, <2>1, <2>2 DEF AtRest, UnderWay
  <2> QED  BY <1>1, <1>2, <1>4, <1>6, <2>1, <2>2, <2>3 DEF StepInv, AtRest
<1> QED  BY <1>7, <1>8, <1>9, <1>10, <1>11, <1>12, <1>13 DEF UserStep

LEMMA UrbStep ==
  ASSUME OneUser, TypeInv, BacklogInv, rxFailures = 0, StepInv,
         Bus \/ TxFails
  PROVE  StepInv'
<1>1. /\ Held \in Nat /\ remaining \in Nat /\ Len(queue) \in Nat /\ asked \in Nat
      /\ completions \in Completions /\ queue \in Seq(0 .. LowMod - 1)
      /\ tickets \in Seq(Nat) /\ Len(tickets) = Len(queue) /\ Len(tickets) \in Nat
  BY HeldTyped DEF TypeInv, TypeOK
<1>2. UNCHANGED << pc, word_count, mapped, asked >>
  BY DEF Bus, TxTransfer, Begin, RxTransfer, TxFails, WriteBulkCallback,
         ReadBulkCallback, SetReady, userVars, structVars, urbVars, historyVars
<1>3. (Writing' <=> Writing) /\ (Reading' <=> Reading)
  BY <1>2 DEF Writing, Reading
<1>4. /\ Held > 0 => UnderWay
      /\ tx # "idle" => UnderWay
      /\ rx = "done" => UnderWay
  BY DEF UnderWay
<1>5. CASE TxTransfer
  <2>1. /\ tx = "submitted" /\ tx' = "done" /\ completions' = Append(completions, "tx")
        /\ tickets' = Append(tickets, asked)
        /\ UNCHANGED << ready, rx, actual_length, matched, remaining, serving, filled >>
    BY <1>5 DEF TxTransfer, Device!Submit, structVars, historyVars
  <2>2. completions = << >> /\ completions' = << "tx" >> /\ ~Writing /\ ~Reading /\ ~ready /\ ~matched
    BY <1>4, <2>1, Completed DEF StepInv
  <2>3. rx # "done"
    BY <2>2, RestTyped
  <2>4. \A i \in 1 .. Len(tickets') : tickets'[i] = asked
    BY <1>1, <2>1 DEF StepInv
  <2>5. \A u \in Users : pc[u] \notin {"check_length", "copy", "clear_ready", "clear_word_count"}
    BY <2>2 DEF Reading
  <2> QED  BY <1>2, <1>3, <2>1, <2>2, <2>3, <2>4, <2>5, Different DEF StepInv
<1>6. CASE Begin
  <2>1. /\ remaining = 0 /\ queue # << >> /\ serving' = Head(tickets) /\ tickets' = Tail(tickets)
        /\ UNCHANGED << ready, tx, rx, completions, actual_length, matched, filled >>
    BY <1>6 DEF Begin, Device!Begin, urbVars, structVars, historyVars
  <2>2. Held # 0 /\ Held > 0 /\ tickets # << >>
    BY <2>1, RestTyped
  <2>3. ~Writing /\ ~Reading /\ ~ready /\ ~matched /\ rx # "done"
    BY <1>4, <2>2 DEF StepInv
  <2>4. serving' = asked
    BY <1>1, <2>1, <2>2 DEF StepInv
  <2>5. \A i \in 1 .. Len(tickets') : tickets'[i] = asked
    BY <1>1, <2>1, <2>2 DEF StepInv
  <2>6. \A u \in Users : pc[u] \notin {"check_length", "copy", "clear_ready", "clear_word_count"}
    BY <2>3 DEF Reading
  <2> QED  BY <1>2, <1>3, <2>1, <2>3, <2>4, <2>5, <2>6 DEF StepInv
<1>7. CASE RxTransfer
  <2>1. /\ rx = "submitted" /\ remaining > 0 /\ filled' = serving
        /\ \/ remaining = 1 /\ rx' = "done" /\ completions' = Append(completions, "rx")
           \/ remaining # 1 /\ rx' = rx /\ completions' = completions
        /\ remaining' = remaining - 1
        /\ UNCHANGED << ready, tx, matched, queue, tickets, serving >>
    BY <1>7 DEF RxTransfer, Device!SendByte, structVars
  <2>2. Held = Len(queue) + 1 /\ Held > 0
    BY <1>1, <2>1 DEF Held
  <2>3. ~Writing /\ ~Reading /\ ~ready /\ ~matched
    BY <1>4, <2>2 DEF StepInv
  <2>4. tx # "submitted" /\ Len(queue) = 0
    BY <1>1, <2>2 DEF BacklogInv
  <2>5. completions \in {<< >>, << "tx" >>} /\ rx # "done"
    BY <2>1, RestTyped
  <2>6. serving = asked
    BY <2>1 DEF StepInv
  <2>7. \A u \in Users : pc[u] \notin {"check_length", "copy", "clear_ready", "clear_word_count"}
    BY <2>3 DEF Reading
  <2>8. CASE remaining = 1 /\ rx' = "done" /\ completions' = Append(completions, "rx")
    <3>1. remaining' = 0 /\ ~(remaining' > 0)
      BY <2>1, <2>8
    <3>2. Held' = 0
      BY <2>1, <2>4, <3>1 DEF Held
    <3>3. completions' \in {<< "rx" >>, << "tx", "rx" >>}
      BY <2>5, <2>8, Completed
    <3> QED  BY <1>2, <1>3, <2>1, <2>3, <2>4, <2>6, <2>7, <2>8, <3>1, <3>2, <3>3, Different DEF StepInv
  <2>9. CASE remaining # 1 /\ rx' = rx /\ completions' = completions
    <3> QED  BY <1>2, <1>3, <2>1, <2>3, <2>4, <2>5, <2>6, <2>7, <2>9, Different DEF StepInv
  <2> QED  BY <2>1, <2>8, <2>9
<1>8. CASE TxFails
  <2>1. /\ tx = "submitted" /\ tx' = "done" /\ completions' = Append(completions, "tx")
        /\ UNCHANGED << ready, rx, actual_length, matched, queue, tickets, remaining, serving, filled >>
    BY <1>8 DEF TxFails, structVars, deviceVars
  <2>2. completions = << >> /\ completions' = << "tx" >> /\ ~Writing /\ ~Reading /\ ~ready /\ ~matched
    BY <1>4, <2>1, Completed DEF StepInv
  <2>3. rx # "done"
    BY <2>2, RestTyped
  <2>4. \A u \in Users : pc[u] \notin {"check_length", "copy", "clear_ready", "clear_word_count"}
    BY <2>2 DEF Reading
  <2> QED  BY <1>2, <1>3, <2>1, <2>2, <2>3, <2>4, Different DEF StepInv
<1>9. CASE WriteBulkCallback
  <2>1. /\ completions # << >> /\ Head(completions) = "tx" /\ completions' = Tail(completions)
        /\ tx' = "idle" /\ (rx = "idle" => rx' = "submitted") /\ (rx # "idle" => rx' = rx)
        /\ UNCHANGED << ready, matched, queue, tickets, remaining, serving, filled >>
    BY <1>9 DEF WriteBulkCallback, NextCallback, structVars, deviceVars, historyVars
  <2>2. completions = << "tx" >> \/ completions = << "tx", "rx" >>
    BY <1>1, <2>1, CalledBack DEF Completions
  <2>3. tx = "done" /\ completions' \in {<< >>, << "rx" >>}
    BY <2>1, <2>2, CalledBack DEF TypeInv
  <2>4. ~Writing /\ ~Reading /\ ~ready /\ ~matched
    BY <1>4, <2>3 DEF StepInv
  <2>5. Held' = Held /\ (rx' = "done" => rx = "done")
    BY <2>1 DEF Held
  <2>6. \A u \in Users : pc[u] \notin {"check_length", "copy", "clear_ready", "clear_word_count"}
    BY <2>4 DEF Reading
  <2> QED  BY <1>2, <1>3, <2>1, <2>3, <2>4, <2>5, <2>6, Different DEF StepInv
<1>10. CASE ReadBulkCallback
  <2>1. /\ completions # << >> /\ Head(completions) = "rx" /\ completions' = Tail(completions)
        /\ rx' = "idle" /\ matched' = (actual_length = 2 * word_count)
        /\ UNCHANGED << ready, tx, actual_length, queue, tickets, remaining, serving, filled >>
    BY <1>10 DEF ReadBulkCallback, NextCallback, structVars, deviceVars, historyVars
  <2>2. completions = << "rx" >> \/ completions = << "rx", "tx" >>
    BY <1>1, <2>1, CalledBack DEF Completions
  <2>3. completions = << "rx" >> /\ rx = "done"
    BY <2>2 DEF StepInv, TypeInv
  <2>4. completions' = << >> /\ tx = "idle"
    BY <2>1, <2>3, CalledBack, Different DEF StepInv, TypeInv, TypeOK
  <2>5. ~Writing /\ ~Reading /\ ~ready /\ Held = 0 /\ filled = asked
    BY <1>4, <2>3 DEF StepInv
  <2>6. ~UnderWay'
    BY <2>1, <2>4, <2>5 DEF UnderWay, Held
  <2>7. \A u \in Users : pc[u] \notin {"check_length", "copy", "clear_ready", "clear_word_count"}
    BY <2>5 DEF Reading
  <2> QED  BY <1>2, <1>3, <2>1, <2>4, <2>5, <2>6, <2>7, Different DEF StepInv
<1>11. CASE SetReady
  <2>1. /\ matched /\ ~matched' /\ ready'
        /\ UNCHANGED << tx, rx, completions, actual_length, queue, tickets, remaining, serving, filled >>
    BY <1>11 DEF SetReady, deviceVars, historyVars
  <2>2. ~Writing /\ ~Reading /\ rx = "idle" /\ filled = asked /\ actual_length = 2 * word_count
    BY <2>1 DEF StepInv
  <2>3. ~UnderWay
    BY <2>1 DEF StepInv
  <2>4. tx = "idle" /\ completions = << >> /\ Held = 0
    BY <1>1, <2>3, RestTyped DEF UnderWay
  <2>5. AtRest' /\ ~UnderWay'
    BY <2>1, <2>2, <2>4 DEF AtRest, UnderWay, Held
  <2>6. \A u \in Users : pc[u] \notin {"check_length", "copy", "clear_ready", "clear_word_count"}
    BY <2>2 DEF Reading
  <2> QED  BY <1>2, <1>3, <2>1, <2>2, <2>4, <2>5, <2>6, Different DEF StepInv
<1> QED  BY <1>5, <1>6, <1>7, <1>8, <1>9, <1>10, <1>11 DEF Bus

LEMMA InitSteps == Init => StepsInv
<1> SUFFICES ASSUME Init
             PROVE  StepInv
  BY DEF StepsInv
<1>1. /\ queue = << >> /\ remaining = 0 /\ tickets = << >> /\ completions = << >>
      /\ tx = "idle" /\ rx = "idle" /\ ~ready /\ ~matched
      /\ \A u \in Users : pc[u] = "user"
  BY DEF Init, Device!Init
<1>2. ~Writing /\ ~Reading /\ ~UnderWay /\ Len(tickets) = 0
  BY <1>1 DEF Writing, Reading, UnderWay, Held
<1> QED  BY <1>1, <1>2, Different DEF StepInv

LEMMA NextSteps ==
  ASSUME OneUser
  PROVE  TypeInv /\ BacklogInv /\ StepsInv /\ [Next]_vars => StepsInv'
<1> SUFFICES ASSUME TypeInv, BacklogInv, StepsInv, [Next]_vars, rxFailures' = 0
             PROVE  StepInv'
  BY DEF StepsInv
<1>1. rxFailures \in Nat
  BY DEF TypeInv, TypeOK
<1>2. ~RxFails
  BY <1>1 DEF RxFails
<1>3. rxFailures' = rxFailures
  BY <1>2 DEF Next, Write, Read, UserStep, SetWordCount, SendWordCount, CheckLength, CopyToUser,
         ClearReady, ClearWordCount, Bus, TxTransfer, Begin, RxTransfer, TxFails,
         WriteBulkCallback, ReadBulkCallback, SetReady, vars, historyVars, failureVars
<1>4. rxFailures = 0 /\ StepInv
  BY <1>3 DEF StepsInv
<1>5. CASE UNCHANGED vars
  <2>1. /\ UNCHANGED << tx, rx, completions, queue, tickets, remaining, serving, filled, asked, pc >>
        /\ UNCHANGED << ready, matched, word_count, mapped, actual_length >>
    BY <1>5 DEF vars, structVars, urbVars, userVars, deviceVars, historyVars
  <2> QED  BY <1>4, <2>1 DEF StepInv, AtRest, UnderWay, Writing, Reading, Held
<1> QED  BY <1>2, <1>4, <1>5, CallStep, UrbStep DEF Next

LEMMA StepsKept ==
  ASSUME OneUser
  PROVE  Spec => [](TypeInv /\ StepsInv)
BY InitTypeInv, NextTypeInv, InitBacklog, NextBacklog, InitSteps, NextSteps, PTL DEF Spec

\* What deca_read copies to the user is the answer to the last deca_write, for
\* one user, while no transfer of rx_urb has failed: any number of writes, of
\* transfers of tx_urb that fail and of reads that come too early.
THEOREM AnswerCorrect ==
  ASSUME OneUser
  PROVE  Spec => []AnswerInStep
<1>1. TypeInv /\ StepsInv => AnswerInStep
  BY DEF AnswerInStep, Copying, StepsInv, StepInv
<1> QED  BY <1>1, StepsKept, PTL

\* The buffer that copy_to_user reads is of the length asked for, and no
\* transfer into it is under way or can begin.
THEOREM BufferCorrect ==
  ASSUME OneUser
  PROVE  Spec => []BufferAtRest
<1>1. TypeInv /\ StepsInv => BufferAtRest
  BY DEF BufferAtRest, Copying, StepsInv, StepInv, AtRest
<1> QED  BY <1>1, StepsKept, PTL

\* The bytes of word_count that the controller sends in place are those that
\* deca_write submitted.
THEOREM CountCorrect ==
  ASSUME OneUser
  PROVE  Spec => []CountStable
<1>1. TypeInv /\ StepsInv => CountStable
  BY DEF CountStable, StepsInv, StepInv
<1> QED  BY <1>1, StepsKept, PTL

=============================================================================
