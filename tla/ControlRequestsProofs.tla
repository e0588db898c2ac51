----------------------- MODULE ControlRequestsProofs ------------------------
(***************************************************************************)
(* Proofs about ControlRequests, for any SETUP packets, payloads, tries,   *)
(* losses and corruptions.                                                 *)
(***************************************************************************)
EXTENDS ControlRequests, WellFoundedInduction, TLAPS

-----------------------------------------------------------------------------
(* The stage agrees with the request, and a request that is not answered   *)
(* never leaves its first stage.                                           *)
StageFits ==
  stage # "idle" =>
    \/ stage = FirstStage(setup)
    \/ /\ ~Unanswered(setup)
       /\ setup.length > 0
       /\ stage = IF setup.in THEN "status_out" ELSE "status_in"

\* An answered request is only tried again for a loss or a corruption.
TriesCounted ==
  stage # "idle" /\ ~Unanswered(setup) => tries <= lost + corrupted

\* The types these rest on.
CoreTypes ==
  /\ block \in {"vendor", "uac2"}
  /\ stage \in Stages
  /\ setup \in SetupPackets
  /\ tries \in Nat /\ lost \in Nat /\ corrupted \in Nat
  /\ outcome \in Outcomes

-----------------------------------------------------------------------------
(* What the device sends: exactly one handler has a reply to a type.       *)
HandlerReply(at) ==
  CASE setup.type = "STANDARD" -> IF block = "uac2" /\ IsSetInterface(setup)
                                    THEN Uac2Reply(setup, at) ELSE StandardReply(setup, at)
    [] setup.type = "RESERVED" -> StallReply(setup, at)
    [] setup.type = "VENDOR" -> IF block = "vendor" THEN VendorReply(setup, at) ELSE Nothing
    [] setup.type = "CLASS" -> IF block = "uac2" THEN Uac2Reply(setup, at) ELSE Nothing

LEMMA OneHandler ==
  ASSUME CoreTypes, NEW at \in Stages
  PROVE  DeviceReply(at) = HandlerReply(at)
<1> DEFINE std == StandardReply(setup, at)
           stall == StallReply(setup, at)
           own == IF block = "vendor" THEN VendorReply(setup, at) ELSE Uac2Reply(setup, at)
           replies == {std, stall, own} \ {Nothing}
<1>1. DeviceReply(at) = IF replies = {} THEN Nothing ELSE CHOOSE r \in replies : TRUE
  BY DEF DeviceReply
<1>2. setup.type \in Types /\ block \in {"vendor", "uac2"}
  BY DEF CoreTypes, SetupPackets
<1>3. CASE setup.type = "STANDARD"
  <2>1. stall = Nothing
    BY <1>3 DEF StallReply
  <2>2. CASE block = "uac2" /\ IsSetInterface(setup)
    <3>1. std = Nothing
      BY <2>2 DEF StandardReply, IsSetInterface
    <3>2. own = Uac2Reply(setup, at) /\ HandlerReply(at) = own
      BY <1>2, <1>3, <2>2 DEF HandlerReply
    <3> QED  BY <1>1, <2>1, <3>1, <3>2
  <2>3. CASE ~(block = "uac2" /\ IsSetInterface(setup))
    <3>1. own = Nothing
      BY <1>2, <1>3, <2>3 DEF VendorReply, Uac2Reply, IsSetInterface
    <3>2. HandlerReply(at) = std
      BY <1>3, <2>3 DEF HandlerReply
    <3> QED  BY <1>1, <2>1, <3>1, <3>2
  <2> QED  BY <2>2, <2>3
<1>4. CASE setup.type = "RESERVED"
  <2>1. std = Nothing /\ own = Nothing
    BY <1>2, <1>4 DEF StandardReply, VendorReply, Uac2Reply, IsSetInterface
  <2>2. HandlerReply(at) = stall
    BY <1>4 DEF HandlerReply
  <2> QED  BY <1>1, <2>1, <2>2
<1>5. CASE setup.type \in {"VENDOR", "CLASS"}
  <2>1. std = Nothing /\ stall = Nothing
    BY <1>5 DEF StandardReply, StallReply
  <2>2. HandlerReply(at) = own
    BY <1>2, <1>5 DEF HandlerReply, VendorReply, Uac2Reply, IsSetInterface
  <2> QED  BY <1>1, <2>1, <2>2
<1> QED  BY <1>2, <1>3, <1>4, <1>5 DEF Types

\* The audio handler stalls a class request for anything but the clock
\* frequency, and one for its current value that is not of 4 bytes.
LEMMA ClassStalled ==
  ASSUME CoreTypes, NEW at \in Stages, setup.type = "CLASS",
         setup.request \in {RANGE, CUR},
         ~ClockFrequency(setup) \/ (setup.request = CUR /\ setup.length # 4)
  PROVE  Uac2Reply(setup, at) = Reply("stall")
<1>1. ~IsSetInterface(setup)
  BY DEF IsSetInterface
<1> QED  BY <1>1 DEF Uac2Reply

LEMMA AnsweredStages ==
  ASSUME CoreTypes, StageFits, ~Unanswered(setup)
  PROVE  /\ stage = "data_in" => DeviceReply("data_in").kind \in {"data", "stall"}
         /\ stage = "data_out" => DeviceReply("data_out").kind \in {"ack", "stall"}
         /\ stage = "status_in" => DeviceReply("status_in").kind \in {"zlp", "stall"}
         /\ stage = "status_out" => DeviceReply("status_out").kind \in {"ack", "stall"}
<1>1. \A at \in Stages : DeviceReply(at) = HandlerReply(at)
  BY OneHandler
<1>2. /\ setup.type \in Types /\ block \in {"vendor", "uac2"}
      /\ setup.request \in Nat /\ setup.length \in Nat
      /\ setup.in \in BOOLEAN /\ setup.interface \in BOOLEAN
  BY DEF CoreTypes, SetupPackets
<1>3. stage # "idle" =>
        \/ stage = FirstStage(setup)
        \/ setup.length > 0 /\ stage = IF setup.in THEN "status_out" ELSE "status_in"
  BY DEF StageFits
<1> USE DEF HandlerReply, StandardReply, StallReply, VendorReply, Uac2Reply, IsSetInterface,
            Nothing, Reply, Data, Unanswered, UnansweredByVendor, UnansweredByUac2,
            Blacklisted, IsWrite, FirstStage, Types, Stages, RangeBytes, MinOf,
            SET_INTERFACE, REGISTER, CUR, RANGE
<1>4. stage = "data_in" => DeviceReply("data_in").kind \in {"data", "stall"}
  <2>1. CASE setup.type = "STANDARD"
    BY <1>1, <1>2, <1>3, <2>1
  <2>2. CASE setup.type = "VENDOR"
    BY <1>1, <1>2, <1>3, <2>2
  <2>3. CASE setup.type = "CLASS"
    <3>1. CASE block = "vendor"
      BY <1>2, <2>3, <3>1
    <3>2. CASE block = "uac2" /\ setup.request \notin {RANGE, CUR}
      BY <1>1, <1>2, <1>3, <2>3, <3>2
    <3>3. CASE block = "uac2" /\ setup.request = CUR
      <4>1. HandlerReply("data_in") = Uac2Reply(setup, "data_in")
        BY <2>3, <3>3
      <4>2. CASE ~ClockFrequency(setup) \/ setup.length # 4
        <5>1. Uac2Reply(setup, "data_in") = Reply("stall")
          BY <2>3, <3>3, <4>2, ClassStalled
        <5> QED  BY <1>1, <4>1, <5>1
      <4>3. CASE ClockFrequency(setup) /\ setup.length = 4
        <5>1. setup.in
          BY <1>2, <2>3, <3>3, <4>3
        <5> QED  BY <1>1, <1>2, <1>3, <2>3, <3>3, <4>1, <4>3, <5>1
      <4> QED  BY <4>2, <4>3
    <3>4. CASE block = "uac2" /\ setup.request = RANGE
      <4>1. HandlerReply("data_in") = Uac2Reply(setup, "data_in")
        BY <2>3, <3>4
      <4>2. CASE ~ClockFrequency(setup)
        <5>1. Uac2Reply(setup, "data_in") = Reply("stall")
          BY <2>3, <3>4, <4>2, ClassStalled
        <5> QED  BY <1>1, <4>1, <5>1
      <4>3. CASE ClockFrequency(setup)
        <5>1. setup.in /\ setup.length % 16384 # 0
          BY <1>2, <2>3, <3>4, <4>3
        <5> QED  BY <1>1, <1>2, <1>3, <2>3, <3>4, <4>1, <4>3, <5>1
      <4> QED  BY <4>2, <4>3
    <3> QED  BY <1>2, <3>1, <3>2, <3>3, <3>4
  <2>4. CASE setup.type = "RESERVED"
    BY <1>1, <1>2, <1>3, <2>4
  <2> QED  BY <1>2, <2>1, <2>2, <2>3, <2>4
<1>5. stage = "data_out" => DeviceReply("data_out").kind \in {"ack", "stall"}
  BY <1>1, <1>2, <1>3
<1>6. stage = "status_in" => DeviceReply("status_in").kind \in {"zlp", "stall"}
  <2>1. CASE setup.type = "STANDARD"
    BY <1>1, <1>2, <1>3, <2>1
  <2>2. CASE setup.type = "VENDOR"
    BY <1>1, <1>2, <1>3, <2>2
  <2>3. CASE setup.type = "CLASS"
    <3>1. CASE block = "vendor"
      BY <1>2, <2>3, <3>1
    <3>2. CASE block = "uac2" /\ setup.request \notin {RANGE, CUR}
      BY <1>1, <1>2, <1>3, <2>3, <3>2
    <3>3. CASE block = "uac2" /\ setup.request = CUR
      <4>1. HandlerReply("status_in") = Uac2Reply(setup, "status_in")
        BY <2>3, <3>3
      <4>2. CASE ~ClockFrequency(setup) \/ setup.length # 4
        <5>1. Uac2Reply(setup, "status_in") = Reply("stall")
          BY <2>3, <3>3, <4>2, ClassStalled
        <5> QED  BY <1>1, <4>1, <5>1
      <4>3. CASE ClockFrequency(setup) /\ setup.length = 4
        <5>1. setup.in
          BY <1>2, <2>3, <3>3, <4>3
        <5> QED  BY <1>1, <1>2, <1>3, <2>3, <3>3, <4>1, <4>3, <5>1
      <4> QED  BY <4>2, <4>3
    <3>4. CASE block = "uac2" /\ setup.request = RANGE
      <4>1. HandlerReply("status_in") = Uac2Reply(setup, "status_in")
        BY <2>3, <3>4
      <4>2. CASE ~ClockFrequency(setup)
        <5>1. Uac2Reply(setup, "status_in") = Reply("stall")
          BY <2>3, <3>4, <4>2, ClassStalled
        <5> QED  BY <1>1, <4>1, <5>1
      <4>3. CASE ClockFrequency(setup)
        <5>1. setup.in /\ setup.length % 16384 # 0
          BY <1>2, <2>3, <3>4, <4>3
        <5> QED  BY <1>1, <1>2, <1>3, <2>3, <3>4, <4>1, <4>3, <5>1
      <4> QED  BY <4>2, <4>3
    <3> QED  BY <1>2, <3>1, <3>2, <3>3, <3>4
  <2>4. CASE setup.type = "RESERVED"
    BY <1>1, <1>2, <1>3, <2>4
  <2> QED  BY <1>2, <2>1, <2>2, <2>3, <2>4
<1>7. stage = "status_out" => DeviceReply("status_out").kind \in {"ack", "stall"}
  BY <1>1, <1>2, <1>3
<1> QED  BY <1>4, <1>5, <1>6, <1>7

LEMMA UnansweredStages ==
  ASSUME CoreTypes, StageFits, Unanswered(setup)
  PROVE  /\ stage # "status_out"
         /\ stage = "data_in" => DeviceReply("data_in").kind \notin {"data", "stall"}
         /\ stage = "data_out" => DeviceReply("data_out").kind \notin {"ack", "stall"}
         /\ stage = "status_in" => DeviceReply("status_in").kind \notin {"zlp", "stall"}
<1>1. \A at \in Stages : DeviceReply(at) = HandlerReply(at)
  BY OneHandler
<1>2. /\ setup.type \in Types /\ block \in {"vendor", "uac2"}
      /\ setup.request \in Nat /\ setup.length \in Nat
      /\ setup.in \in BOOLEAN /\ setup.interface \in BOOLEAN
  BY DEF CoreTypes, SetupPackets
<1>3. stage # "idle" => stage = FirstStage(setup)
  BY DEF StageFits
<1> USE DEF HandlerReply, StandardReply, StallReply, VendorReply, Uac2Reply, IsSetInterface,
            Nothing, Reply, Data, Unanswered, UnansweredByVendor, UnansweredByUac2,
            Blacklisted, IsWrite, FirstStage, Types, Stages, RangeBytes, MinOf,
            SET_INTERFACE, REGISTER, CUR, RANGE
<1>4. stage = "data_in" => DeviceReply("data_in").kind \notin {"data", "stall"}
  BY <1>1, <1>2, <1>3
<1>5. stage = "data_out" => DeviceReply("data_out").kind \notin {"ack", "stall"}
  BY <1>1, <1>2, <1>3
<1>6. stage = "status_in" => DeviceReply("status_in").kind \notin {"zlp", "stall"}
  BY <1>1, <1>2, <1>3
<1>7. stage # "status_out"
  BY <1>3
<1> QED  BY <1>4, <1>5, <1>6, <1>7

-----------------------------------------------------------------------------
(* What a completed, a repeated and a new packet do to the invariant.      *)
RequestDefs == << block, setup >>

Safe == CoreTypes /\ StageFits /\ TriesCounted /\ FailsAsListed

LEMMA SameRequest ==
  ASSUME UNCHANGED RequestDefs
  PROVE  /\ Unanswered(setup)' <=> Unanswered(setup)
         /\ Available(setup)' = Available(setup)
         /\ FirstStage(setup)' = FirstStage(setup)
BY DEF RequestDefs, Unanswered, UnansweredByVendor, UnansweredByUac2, Blacklisted, IsWrite,
       ClockFrequency, Available, FirstStage

LEMMA OneMore ==
  ASSUME NEW t \in Nat, NEW l \in Nat, NEW c \in Nat, NEW m \in Nat, NEW n \in Nat,
         t <= l + c, m + n > l + c
  PROVE  t + 1 <= m + n
OBVIOUS

LEMMA StillEnough ==
  ASSUME NEW t \in Nat, NEW l \in Nat, NEW c \in Nat, NEW m \in Nat, NEW n \in Nat,
         l + c >= t, m + n >= l + c
  PROVE  m + n >= t
OBVIOUS

LEMMA Retried ==
  ASSUME Safe, stage # "idle", TryAgain, UNCHANGED RequestDefs,
         lost' \in Nat, corrupted' \in Nat, lost' + corrupted' >= lost + corrupted,
         Unanswered(setup) \/ lost' + corrupted' > lost + corrupted
  PROVE  Safe'
<1>1. /\ Unanswered(setup)' <=> Unanswered(setup)
      /\ FirstStage(setup)' = FirstStage(setup)
      /\ block' = block /\ setup' = setup
  BY SameRequest DEF RequestDefs
<1>2. /\ tries' = tries + 1 /\ tries \in Nat
      /\ lost \in Nat /\ corrupted \in Nat /\ MaxTries \in Nat
      /\ \/ tries + 1 = MaxTries /\ stage' = "idle" /\ outcome' = "failed"
         \/ stage' = stage /\ outcome' = outcome
  BY ControlAssumption DEF TryAgain, Safe, CoreTypes
<1>3. CoreTypes'
  BY <1>1, <1>2 DEF Safe, CoreTypes, Stages, Outcomes
<1>4. StageFits'
  BY <1>1, <1>2 DEF Safe, StageFits
<1>5. ASSUME ~Unanswered(setup)
      PROVE  tries' <= lost' + corrupted'
  <2>1. tries <= lost + corrupted
    BY <1>5 DEF Safe, TriesCounted
  <2>2. lost' + corrupted' > lost + corrupted
    BY <1>5
  <2>3. tries + 1 <= lost' + corrupted'
    BY <1>2, <2>1, <2>2, OneMore
  <2> QED  BY <1>2, <2>3
<1>6. TriesCounted'
  BY <1>1, <1>5 DEF TriesCounted
<1>7. FailsAsListed'
  <2>1. CASE tries + 1 = MaxTries /\ stage' = "idle" /\ outcome' = "failed"
    <3>1. Unanswered(setup)' \/ lost' + corrupted' >= MaxTries
      BY <1>1, <1>2, <1>5, <2>1
    <3> QED  BY <2>1, <3>1 DEF FailsAsListed
  <2>2. CASE outcome' = outcome
    <3>1. lost + corrupted >= MaxTries => lost' + corrupted' >= MaxTries
      BY <1>2, StillEnough
    <3> QED  BY <1>1, <2>2, <3>1 DEF Safe, FailsAsListed
  <2> QED  BY <1>2, <2>1, <2>2
<1> QED  BY <1>3, <1>4, <1>6, <1>7 DEF Safe

LEMMA Ended ==
  ASSUME Safe, NEW how \in {"done", "stalled"}, EndTransfer(how), ~Unanswered(setup),
         UNCHANGED RequestDefs, UNCHANGED << lost, corrupted >>
  PROVE  Safe'
<1>1. /\ ~Unanswered(setup)' /\ block' = block /\ setup' = setup
  BY SameRequest DEF RequestDefs
<1>2. stage' = "idle" /\ outcome' = how /\ tries' = tries
  BY DEF EndTransfer
<1> QED
  BY <1>1, <1>2 DEF Safe, CoreTypes, StageFits, TriesCounted, FailsAsListed, Stages, Outcomes

LEMMA Advanced ==
  ASSUME Safe, NEW s, s = (IF setup.in THEN "status_out" ELSE "status_in"), NextStage(s),
         ~Unanswered(setup), setup.length > 0,
         UNCHANGED RequestDefs, UNCHANGED << lost, corrupted >>
  PROVE  Safe'
<1>1. ~Unanswered(setup)' /\ block' = block /\ setup' = setup
  BY SameRequest DEF RequestDefs
<1>2. stage' = s /\ tries' = 0 /\ outcome' = outcome
  BY DEF NextStage
<1>3. CoreTypes'
  BY <1>1, <1>2 DEF Safe, CoreTypes, Stages
<1>4. StageFits'
  BY <1>1, <1>2 DEF StageFits
<1>5. TriesCounted'
  BY <1>2 DEF Safe, CoreTypes, TriesCounted
<1>6. FailsAsListed'
  BY <1>1, <1>2 DEF Safe, FailsAsListed
<1> QED  BY <1>3, <1>4, <1>5, <1>6 DEF Safe

\* The bytes a read is answered with.
LEMMA ReadBytes ==
  ASSUME CoreTypes, StageFits, stage = "data_in", setup.length < 16384,
         DeviceReply("data_in").kind = "data"
  PROVE  DeviceReply("data_in").bytes = MinOf(setup.length, Available(setup))
<1>1. DeviceReply("data_in") = HandlerReply("data_in")
  BY OneHandler DEF Stages
<1>2. /\ setup.type \in Types /\ block \in {"vendor", "uac2"}
      /\ setup.request \in Nat /\ setup.length \in Nat
      /\ setup.in \in BOOLEAN /\ setup.interface \in BOOLEAN
  BY DEF CoreTypes, SetupPackets
<1>3. setup.in /\ setup.length > 0
  BY <1>2 DEF StageFits, FirstStage
<1>4. setup.length % 16384 = setup.length
  BY <1>2
<1> USE DEF HandlerReply, StallReply, Nothing, Reply, Data, MinOf, Types
<1>5. CASE setup.type = "STANDARD"
  <2>1. CASE block = "uac2" /\ IsSetInterface(setup)
    <3>1. Uac2Reply(setup, "data_in").kind = "nothing"
      BY <1>5, <2>1 DEF Uac2Reply
    <3> QED  BY <1>1, <1>5, <2>1, <3>1
  <2>2. CASE ~(block = "uac2" /\ IsSetInterface(setup))
    BY <1>1, <1>2, <1>5, <2>2 DEF StandardReply, Available
  <2> QED  BY <2>1, <2>2
<1>6. CASE setup.type = "VENDOR"
  BY <1>1, <1>2, <1>3, <1>6 DEF VendorReply, Available
<1>7. CASE setup.type = "RESERVED"
  BY <1>1, <1>7
<1>8. CASE setup.type = "CLASS"
  <2>1. CASE block = "vendor"
    BY <1>1, <1>8, <2>1
  <2>2. CASE block = "uac2"
    <3>1. DeviceReply("data_in") = Uac2Reply(setup, "data_in")
      BY <1>1, <1>8, <2>2
    <3>2. ~IsSetInterface(setup)
      BY <1>8 DEF IsSetInterface
    <3>3. CASE setup.request \notin {RANGE, CUR}
      <4>1. Uac2Reply(setup, "data_in") = Reply("stall")
        BY <1>8, <3>2, <3>3 DEF Uac2Reply
      <4> QED  BY <3>1, <4>1
    <3>4. CASE setup.request \in {RANGE, CUR}
      <4>1. ~(~ClockFrequency(setup) \/ (setup.request = CUR /\ setup.length # 4))
        BY <1>8, <3>1, <3>4, ClassStalled DEF Stages
      <4>2. Uac2Reply(setup, "data_in") =
              Data(IF setup.request = RANGE THEN RangeBytes(setup) ELSE 4)
        BY <1>8, <3>2, <3>4, <4>1 DEF Uac2Reply
      <4>3. setup.request # RANGE => setup.length = 4
        BY <3>4, <4>1
      <4> QED  BY <1>2, <1>3, <1>4, <1>8, <3>1, <4>2, <4>3 DEF RangeBytes, Available
    <3> QED  BY <3>3, <3>4
  <2> QED  BY <1>2, <2>1, <2>2
<1> QED  BY <1>2, <1>5, <1>6, <1>7, <1>8

-----------------------------------------------------------------------------
(* One step: the requests that fail, and what a read gives.                *)
IInv == Safe /\ ReadIsWhole

LEMMA InitIInv == Init => IInv
BY ControlAssumption
   DEF Init, NoSetup, SetupPackets, Types, IInv, Safe, CoreTypes, StageFits, TriesCounted,
       FailsAsListed, ReadIsWhole, Stages, Outcomes

\* A step that keeps the request and does not begin the status stage of a read.
LEMMA StillWhole ==
  ASSUME ReadIsWhole, UNCHANGED << RequestDefs, got >>,
         stage' \in {stage, "idle", "status_in"}
  PROVE  ReadIsWhole'
BY SameRequest DEF RequestDefs, ReadIsWhole, MinOf

LEMMA BeginInv ==
  ASSUME IInv, NEW s \in Setups, NEW data, BeginTransfer(s, data)
  PROVE  IInv'
<1>1. /\ setup' = s /\ stage' = FirstStage(s) /\ tries' = 0 /\ block' = block
      /\ outcome' \in {"none", "abandoned"}
      /\ lost' = lost /\ corrupted' = corrupted
  BY DEF BeginTransfer, faultVars
<1>2. s \in SetupPackets
  BY ControlAssumption
<1>3. FirstStage(s) \in {"status_in", "data_in", "data_out"}
  BY DEF FirstStage
<1>4. CoreTypes'
  BY <1>1, <1>2, <1>3 DEF IInv, Safe, CoreTypes, Stages, Outcomes
<1>5. StageFits' /\ FailsAsListed' /\ ReadIsWhole'
  BY <1>1, <1>3 DEF StageFits, FailsAsListed, ReadIsWhole, FirstStage
<1>6. TriesCounted'
  BY <1>1, <1>4 DEF CoreTypes, TriesCounted
<1> QED  BY <1>4, <1>5, <1>6 DEF IInv, Safe

LEMMA DataInInv ==
  ASSUME IInv, DataIn
  PROVE  IInv'
<1> DEFINE reply == DeviceReply("data_in")
<1>1. /\ stage = "data_in" /\ UNCHANGED RequestDefs /\ UNCHANGED << lost, corrupted >>
      /\ \/ reply.kind = "data" /\ NextStage("status_out") /\ got' = reply.bytes
         \/ reply.kind = "stall" /\ EndTransfer("stalled") /\ UNCHANGED got
         \/ reply.kind \notin {"data", "stall"} /\ TryAgain /\ UNCHANGED got
  BY DEF DataIn, faultVars, RequestDefs
<1>2. /\ lost \in Nat /\ corrupted \in Nat
      /\ setup.length \in Nat /\ setup.in \in BOOLEAN
  BY DEF IInv, Safe, CoreTypes, SetupPackets
<1>3. setup.in /\ setup.length > 0
  BY <1>1, <1>2 DEF IInv, Safe, StageFits, FirstStage
<1>4. reply.kind \in {"data", "stall"} <=> ~Unanswered(setup)
  BY <1>1, AnsweredStages, UnansweredStages DEF IInv, Safe
<1> HIDE DEF reply
<1>5. CASE reply.kind = "data" /\ NextStage("status_out") /\ got' = reply.bytes
  <2>1. Safe'
    BY <1>1, <1>3, <1>4, <1>5, Advanced DEF IInv
  <2>2. setup.length < 16384 => reply.bytes = MinOf(setup.length, Available(setup))
    BY <1>1, <1>5, ReadBytes DEF IInv, Safe, reply
  <2>3. ReadIsWhole'
    BY <1>1, <1>5, <2>2, SameRequest DEF RequestDefs, ReadIsWhole, MinOf
  <2> QED  BY <2>1, <2>3 DEF IInv
<1>6. CASE reply.kind = "stall" /\ EndTransfer("stalled") /\ UNCHANGED got
  <2>1. Safe'
    BY <1>1, <1>4, <1>6, Ended DEF IInv
  <2>2. ReadIsWhole'
    BY <1>1, <1>6, StillWhole DEF IInv, EndTransfer
  <2> QED  BY <2>1, <2>2 DEF IInv
<1>7. CASE reply.kind \notin {"data", "stall"} /\ TryAgain /\ UNCHANGED got
  <2>1. lost' \in Nat /\ corrupted' \in Nat /\ lost' + corrupted' >= lost + corrupted
    BY <1>1, <1>2
  <2>2. Safe'
    BY <1>1, <1>4, <1>7, <2>1, Retried DEF IInv
  <2>3. ReadIsWhole'
    BY <1>1, <1>7, StillWhole DEF IInv, TryAgain
  <2> QED  BY <2>2, <2>3 DEF IInv
<1> QED  BY <1>1, <1>5, <1>6, <1>7

LEMMA DataOutInv ==
  ASSUME IInv, NEW handshakeLost \in BOOLEAN, DataOut(handshakeLost)
  PROVE  IInv'
<1> DEFINE kind == DeviceReply("data_out").kind
<1>1. /\ stage = "data_out" /\ UNCHANGED << RequestDefs, got >> /\ UNCHANGED corrupted
      /\ \/ lost' = lost + 1 /\ TryAgain
         \/ /\ UNCHANGED lost
            /\ \/ kind = "ack" /\ NextStage("status_in")
               \/ kind = "stall" /\ EndTransfer("stalled")
               \/ kind \notin {"ack", "stall"} /\ TryAgain
  BY DEF DataOut, RequestDefs
<1>2. /\ lost \in Nat /\ corrupted \in Nat
      /\ setup.length \in Nat /\ setup.in \in BOOLEAN
  BY DEF IInv, Safe, CoreTypes, SetupPackets
<1>3. ~setup.in /\ setup.length > 0
  BY <1>1, <1>2 DEF IInv, Safe, StageFits, FirstStage
<1>4. kind \in {"ack", "stall"} <=> ~Unanswered(setup)
  BY <1>1, AnsweredStages, UnansweredStages DEF IInv, Safe
<1> HIDE DEF kind
<1>5. ReadIsWhole'
  <2>1. stage' \in {stage, "idle", "status_in"}
    BY <1>1 DEF TryAgain, NextStage, EndTransfer
  <2> QED  BY <1>1, <2>1, StillWhole DEF IInv
<1>6. CASE lost' = lost + 1 /\ TryAgain
  <2>1. /\ lost' \in Nat /\ corrupted' \in Nat
        /\ lost' + corrupted' > lost + corrupted /\ lost' + corrupted' >= lost + corrupted
    BY <1>1, <1>2, <1>6
  <2>2. Safe'
    BY <1>1, <1>6, <2>1, Retried DEF IInv
  <2> QED  BY <1>5, <2>2 DEF IInv
<1>7. CASE UNCHANGED lost /\ kind = "ack" /\ NextStage("status_in")
  BY <1>1, <1>3, <1>4, <1>5, <1>7, Advanced DEF IInv
<1>8. CASE UNCHANGED lost /\ kind = "stall" /\ EndTransfer("stalled")
  BY <1>1, <1>4, <1>5, <1>8, Ended DEF IInv
<1>9. CASE UNCHANGED lost /\ kind \notin {"ack", "stall"} /\ TryAgain
  <2>1. lost' \in Nat /\ corrupted' \in Nat /\ lost' + corrupted' >= lost + corrupted
    BY <1>1, <1>2, <1>9
  <2>2. Safe'
    BY <1>1, <1>4, <1>9, <2>1, Retried DEF IInv
  <2> QED  BY <1>5, <2>2 DEF IInv
<1> QED  BY <1>1, <1>6, <1>7, <1>8, <1>9

LEMMA StatusInv ==
  ASSUME IInv, StatusIn \/ StatusOut
  PROVE  IInv'
<1> DEFINE kind == DeviceReply(stage).kind
<1>1. /\ stage \in {"status_in", "status_out"}
      /\ UNCHANGED << RequestDefs, got >> /\ UNCHANGED << lost, corrupted >>
      /\ \/ kind \in {"zlp", "ack"} /\ kind = (IF stage = "status_in" THEN "zlp" ELSE "ack")
            /\ EndTransfer("done")
         \/ kind = "stall" /\ EndTransfer("stalled")
         \/ kind \notin {"stall", IF stage = "status_in" THEN "zlp" ELSE "ack"} /\ TryAgain
  BY DEF StatusIn, StatusOut, faultVars, RequestDefs
<1>2. /\ lost \in Nat /\ corrupted \in Nat
  BY DEF IInv, Safe, CoreTypes
<1>3. kind \in {"stall", IF stage = "status_in" THEN "zlp" ELSE "ack"} <=> ~Unanswered(setup)
  <2>1. CASE stage = "status_in"
    BY <2>1, AnsweredStages, UnansweredStages DEF IInv, Safe
  <2>2. CASE stage = "status_out"
    BY <2>2, AnsweredStages, UnansweredStages DEF IInv, Safe
  <2> QED  BY <1>1, <2>1, <2>2
<1> HIDE DEF kind
<1>4. ReadIsWhole'
  <2>1. stage' \in {stage, "idle", "status_in"}
    BY <1>1 DEF TryAgain, EndTransfer
  <2> QED  BY <1>1, <2>1, StillWhole DEF IInv
<1>5. CASE kind = (IF stage = "status_in" THEN "zlp" ELSE "ack") /\ EndTransfer("done")
  <2>1. ~Unanswered(setup)
    BY <1>3, <1>5
  <2> QED  BY <1>1, <1>4, <1>5, <2>1, Ended DEF IInv
<1>6. CASE kind = "stall" /\ EndTransfer("stalled")
  <2>1. ~Unanswered(setup)
    BY <1>3, <1>6
  <2> QED  BY <1>1, <1>4, <1>6, <2>1, Ended DEF IInv
<1>7. CASE kind \notin {"stall", IF stage = "status_in" THEN "zlp" ELSE "ack"} /\ TryAgain
  <2>1. lost' \in Nat /\ corrupted' \in Nat /\ lost' + corrupted' >= lost + corrupted
    BY <1>1, <1>2
  <2>2. stage # "idle" /\ Unanswered(setup)
    BY <1>1, <1>3, <1>7
  <2>3. Safe'
    BY <1>1, <1>7, <2>1, <2>2, Retried DEF IInv
  <2> QED  BY <1>4, <2>3 DEF IInv
<1> QED  BY <1>1, <1>5, <1>6, <1>7

LEMMA LossInv ==
  ASSUME IInv, PacketLost \/ (\E seen \in Payloads : DataCorrupted(seen))
  PROVE  IInv'
<1>1. /\ stage # "idle" /\ TryAgain /\ UNCHANGED << RequestDefs, got >>
      /\ \/ lost' = lost + 1 /\ UNCHANGED corrupted
         \/ corrupted' = corrupted + 1 /\ UNCHANGED lost
  BY DEF PacketLost, DataCorrupted, RequestDefs
<1>2. lost \in Nat /\ corrupted \in Nat
  BY DEF IInv, Safe, CoreTypes
<1>3. /\ lost' \in Nat /\ corrupted' \in Nat
      /\ lost' + corrupted' > lost + corrupted /\ lost' + corrupted' >= lost + corrupted
  BY <1>1, <1>2
<1>4. Safe'
  BY <1>1, <1>3, Retried DEF IInv
<1>5. ReadIsWhole'
  BY <1>1, StillWhole DEF IInv, TryAgain
<1> QED  BY <1>4, <1>5 DEF IInv

LEMMA ResetInv ==
  ASSUME IInv, ResetButton
  PROVE  IInv'
<1>1. /\ setup' = NoSetup /\ stage' = "idle" /\ block' = block /\ tries' = tries
      /\ outcome' \in {"none", "abandoned"} /\ lost' = lost /\ corrupted' = corrupted
  BY DEF ResetButton, faultVars
<1>2. NoSetup \in SetupPackets
  BY DEF NoSetup, SetupPackets, Types
<1>3. CoreTypes'
  BY <1>1, <1>2 DEF IInv, Safe, CoreTypes, Stages, Outcomes
<1> QED
  BY <1>1, <1>3 DEF IInv, Safe, StageFits, TriesCounted, FailsAsListed, ReadIsWhole

LEMMA NextIInv == IInv /\ [Next]_vars => IInv'
<1> SUFFICES ASSUME IInv, [Next]_vars
             PROVE  IInv'
  OBVIOUS
<1>1. CASE \E s \in Setups, data \in Payloads \union {<< >>} : BeginTransfer(s, data)
  BY <1>1, BeginInv
<1>2. CASE DataIn
  BY <1>2, DataInInv
<1>3. CASE \E handshakeLost \in BOOLEAN : DataOut(handshakeLost)
  BY <1>3, DataOutInv
<1>4. CASE StatusIn \/ StatusOut
  BY <1>4, StatusInv
<1>5. CASE PacketLost \/ (\E seen \in Payloads : DataCorrupted(seen))
  BY <1>5, LossInv
<1>6. CASE ResetButton
  BY <1>6, ResetInv
<1>7. CASE UNCHANGED vars
  <2>1. /\ UNCHANGED RequestDefs
        /\ UNCHANGED << stage, tries, outcome, got, lost, corrupted >>
    BY <1>7 DEF vars, hostVars, faultVars, RequestDefs
  <2>2. /\ Unanswered(setup)' <=> Unanswered(setup)
        /\ FirstStage(setup)' = FirstStage(setup)
    BY <2>1, SameRequest
  <2>3. ReadIsWhole'
    BY <2>1, StillWhole DEF IInv
  <2>4. block' = block /\ setup' = setup
    BY <2>1 DEF RequestDefs
  <2>5. CoreTypes'
    BY <2>1, <2>4 DEF IInv, Safe, CoreTypes
  <2>6. StageFits'
    BY <2>1, <2>2, <2>4 DEF IInv, Safe, StageFits
  <2>7. TriesCounted' /\ FailsAsListed'
    BY <2>1, <2>2 DEF IInv, Safe, TriesCounted, FailsAsListed
  <2> QED  BY <2>3, <2>5, <2>6, <2>7 DEF IInv, Safe
<1> QED  BY <1>1, <1>2, <1>3, <1>4, <1>5, <1>6, <1>7 DEF Next

\* Whatever is lost or corrupted, a request that is answered fails only when
\* as many packets were lost as the host has tries, and one that is not is
\* never completed or stalled (the handlers of requesthandlers.py and the
\* blacklist of deca_usb2_adc.py).
THEOREM RequestsFail == Spec => []FailsAsListed
<1>1. Spec => []IInv
  BY InitIInv, NextIInv, PTL DEF Spec
<1>2. IInv => FailsAsListed
  BY DEF IInv, Safe
<1> QED  BY <1>1, <1>2, PTL

\* A read that completes gave the host what it asked for, or all there is
\* (the max_length of the handlers' serializers).
THEOREM ReadsWhole == Spec => []ReadIsWhole
<1>1. Spec => []IInv
  BY InitIInv, NextIInv, PTL DEF Spec
<1>2. IInv => ReadIsWhole
  BY DEF IInv
<1> QED  BY <1>1, <1>2, PTL

-----------------------------------------------------------------------------
(* The altsettings: inductive with the type of lastSet.                    *)
AltInv ==
  /\ block \in {"vendor", "uac2"}
  /\ lastSet = << >> \/ \E s \in SetupPackets : lastSet = << s >>
  /\ AltSettingOfLast

LEMMA InitAltInv == Init => AltInv
BY DEF Init, AltInv, AltSettingOfLast

LEMMA NextAltInv == AltInv /\ [Next]_vars => AltInv'
<1> SUFFICES ASSUME AltInv, [Next]_vars
             PROVE  AltInv'
  OBVIOUS
<1>1. ASSUME UNCHANGED << block, out_alt, in_alt, lastSet >>
      PROVE  AltInv'
  BY <1>1 DEF AltInv, AltSettingOfLast
<1>2. ASSUME NEW s \in Setups, NEW data, BeginTransfer(s, data)
      PROVE  AltInv'
  <2>1. block' = block /\ s \in SetupPackets
    BY <1>2, ControlAssumption DEF BeginTransfer
  <2>2. CASE UNCHANGED << out_alt, in_alt, lastSet >>
    BY <1>1, <2>1, <2>2
  <2>3. CASE ~ UNCHANGED << out_alt, in_alt, lastSet >>
    <3>1. /\ out_alt' = IF s.index = 1 THEN s.value % 8 ELSE 0
          /\ in_alt' = IF s.index = 2 THEN s.value % 8 ELSE 0
          /\ lastSet' = << s >>
      BY <1>2, <2>3 DEF BeginTransfer, SetAlts
    <3>2. lastSet'[1] = s
      BY <3>1
    <3>3. AltSettingOfLast'
      BY <3>1, <3>2 DEF AltSettingOfLast
    <3> QED  BY <2>1, <3>1, <3>3 DEF AltInv
  <2> QED  BY <2>2, <2>3
<1>3. ASSUME ResetButton
      PROVE  AltInv'
  BY <1>3 DEF ResetButton, AltInv, AltSettingOfLast
<1>4. ASSUME DataIn \/ StatusIn \/ StatusOut \/ PacketLost \/ UNCHANGED vars
      PROVE  AltInv'
  BY <1>1, <1>4 DEF DataIn, StatusIn, StatusOut, PacketLost, deviceVars, vars
<1>5. ASSUME NEW handshakeLost \in BOOLEAN, DataOut(handshakeLost)
      PROVE  AltInv'
  BY <1>1, <1>5 DEF DataOut
<1>6. ASSUME NEW seen \in Payloads, DataCorrupted(seen)
      PROVE  AltInv'
  BY <1>1, <1>6 DEF DataCorrupted
<1> QED  BY <1>2, <1>3, <1>4, <1>5, <1>6 DEF Next

\* At most one of the two streams is selected, and it is the one the last
\* SET_INTERFACE asked for (UAC2RequestHandlers).
THEOREM AltSettingCorrect == Spec => []AltSettingOfLast
<1>2. AltInv => AltSettingOfLast
  BY DEF AltInv
<1> QED  BY <1>2, InitAltInv, NextAltInv, PTL DEF Spec

-----------------------------------------------------------------------------
(* The leds: the first byte other than 0 of a packet, and of the packets   *)
(* acknowledged.                                                           *)
LEMMA Leftmost ==
  ASSUME NEW n \in Nat, NEW T, T \subseteq 1 .. n, T # {}
  PROVE  LET m == CHOOSE i \in T : \A j \in T : i <= j
         IN m \in T /\ \A j \in T : m <= j
<1>1. T \in SUBSET Nat /\ T # {}
  OBVIOUS
<1>2. \E i \in T : \A j \in T : ~(<< j, i >> \in OpToRel(<, Nat))
  BY <1>1, NatLessThanWellFounded, WFMin
<1>3. \A i, j \in Nat : << j, i >> \in OpToRel(<, Nat) <=> j < i
  BY DEF OpToRel
<1>4. \E i \in T : \A j \in T : i <= j
  <2>1. PICK i \in T : \A j \in T : ~(<< j, i >> \in OpToRel(<, Nat))
    BY <1>2
  <2>2. \A j \in T : i \in Nat /\ j \in Nat /\ ~(j < i)
    BY <1>1, <1>3, <2>1, Zenon
  <2>3. \A j \in T : i <= j
    BY <2>2
  <2> QED  BY <2>1, <2>3
<1> QED  BY <1>4

LEMMA FirstByteType ==
  ASSUME NEW data \in Seq(Nat)
  PROVE  /\ FirstByte(data) \in Nat
         /\ FirstByte(data) = 0 <=> Nonzero(data) = {}
<1>1. Len(data) \in Nat /\ Nonzero(data) \subseteq 1 .. Len(data)
  BY DEF Nonzero
<1>2. CASE Nonzero(data) # {}
  <2> DEFINE m == CHOOSE i \in Nonzero(data) : \A j \in Nonzero(data) : i <= j
  <2>1. m \in Nonzero(data)
    BY <1>1, <1>2, Leftmost
  <2>2. m \in 1 .. Len(data) /\ data[m] # 0 /\ data[m] \in Nat
    BY <2>1 DEF Nonzero
  <2>3. FirstByte(data) = data[m]
    BY <1>2 DEF FirstByte
  <2> QED  BY <1>2, <2>2, <2>3
<1> QED  BY <1>2 DEF FirstByte

LEMMA FirstWrittenType ==
  ASSUME NEW packets \in Seq(Seq(Nat))
  PROVE  /\ FirstWritten(packets) \in Nat
         /\ FirstWritten(packets) = 0 <=> Full(packets) = {}
<1>1. Len(packets) \in Nat /\ Full(packets) \subseteq 1 .. Len(packets)
  BY DEF Full
<1>2. CASE Full(packets) # {}
  <2> DEFINE m == CHOOSE i \in Full(packets) : \A k \in Full(packets) : i <= k
  <2>1. m \in Full(packets)
    BY <1>1, <1>2, Leftmost
  <2> HIDE DEF m
  <2>2. m \in 1 .. Len(packets) /\ Nonzero(packets[m]) # {}
    BY <2>1 DEF Full
  <2>4. packets[m] \in Seq(Nat)
    BY <2>2
  <2>3. FirstWritten(packets) = FirstByte(packets[m])
    BY <1>2 DEF FirstWritten, m
  <2> QED  BY <1>2, <2>2, <2>3, <2>4, FirstByteType
<1> QED  BY <1>2 DEF FirstWritten

\* One more packet matters only when all before it were of zeros.
LEMMA FirstWrittenAppend ==
  ASSUME NEW packets \in Seq(Seq(Nat)), NEW data \in Seq(Nat)
  PROVE  FirstWritten(Append(packets, data)) =
           IF FirstWritten(packets) # 0 THEN FirstWritten(packets) ELSE FirstByte(data)
<1> DEFINE more == Append(packets, data)
           n == Len(packets)
           m == CHOOSE i \in Full(more) : \A k \in Full(more) : i <= k
           o == CHOOSE i \in Full(packets) : \A k \in Full(packets) : i <= k
<1>1. /\ more \in Seq(Seq(Nat)) /\ Len(more) = n + 1 /\ n \in Nat
      /\ \A i \in 1 .. n : more[i] = packets[i]
      /\ more[n + 1] = data
  OBVIOUS
<1>2. \A i : i \in Full(more) <=> i \in Full(packets) \/ (i = n + 1 /\ Nonzero(data) # {})
  <2>1. \A i \in 1 .. n : Nonzero(more[i]) = Nonzero(packets[i])
    BY <1>1
  <2>2. Nonzero(more[n + 1]) = Nonzero(data)
    BY <1>1
  <2>3. \A i : i \in 1 .. (n + 1) <=> i \in 1 .. n \/ i = n + 1
    BY <1>1
  <2>4. \A i : i \in 1 .. n => i # n + 1
    BY <1>1
  <2> HIDE DEF more, n
  <2> QED  BY <1>1, <2>1, <2>2, <2>3, <2>4 DEF Full, n
<1>3. Full(packets) \subseteq 1 .. n /\ Full(more) \subseteq 1 .. (n + 1)
  BY <1>1 DEF Full
<1> HIDE DEF more, n
<1>4. CASE Full(packets) # {}
  <2>1. o \in Full(packets) /\ \A k \in Full(packets) : o <= k
    BY <1>1, <1>3, <1>4, Leftmost
  <2>2. Full(more) # {}
    BY <1>2, <1>4
  <2>3. m \in Full(more) /\ \A k \in Full(more) : m <= k
    <3>1. n + 1 \in Nat /\ Full(more) \subseteq 1 .. (n + 1)
      BY <1>1, <1>3
    <3> QED  BY <2>2, <3>1, Leftmost
  <2> HIDE DEF m, o
  <2>4. m <= o /\ m \in 1 .. (n + 1) /\ o \in 1 .. n
    BY <1>2, <1>3, <2>1, <2>3
  <2>5. m \in Full(packets)
    BY <1>1, <1>2, <2>3, <2>4
  <2>6. m = o
    BY <1>1, <2>1, <2>4, <2>5
  <2>7. FirstWritten(more) = FirstByte(more[m]) /\ FirstWritten(packets) = FirstByte(packets[o])
    BY <1>4, <2>2 DEF FirstWritten, m, o
  <2>8. FirstWritten(more) = FirstWritten(packets)
    BY <1>1, <2>4, <2>6, <2>7
  <2>9. FirstWritten(packets) # 0
    BY <1>4, FirstWrittenType
  <2> QED  BY <2>8, <2>9 DEF more
<1>5. CASE Full(packets) = {}
  <2>1. FirstWritten(packets) = 0
    BY <1>5 DEF FirstWritten
  <2>2. CASE Nonzero(data) = {}
    <3>1. Full(more) = {}
      BY <1>2, <1>5, <2>2
    <3> QED  BY <2>1, <2>2, <3>1 DEF FirstWritten, FirstByte, more
  <2>3. CASE Nonzero(data) # {}
    <3>1. Full(more) = {n + 1}
      BY <1>2, <1>5, <2>3
    <3>2. m = n + 1
      BY <1>1, <1>3, <3>1, Leftmost
    <3>3. FirstWritten(more) = FirstByte(more[m])
      BY <3>1 DEF FirstWritten
    <3> QED  BY <1>1, <2>1, <3>2, <3>3 DEF more
  <2> QED  BY <2>2, <2>3
<1> QED  BY <1>4, <1>5

-----------------------------------------------------------------------------
(* One step: the leds hold the first byte acknowledged.                    *)
LedsInv ==
  /\ payload \in Seq(Nat)
  /\ acked \in Seq(Seq(Nat))
  /\ leds \in Nat
  /\ corrupted \in Nat
  /\ LedsFirstWritten

LEMMA LatchIsFirstByte ==
  ASSUME NEW current, NEW data
  PROVE  LatchLeds(current, data) = IF current # 0 THEN current ELSE FirstByte(data)
BY DEF LatchLeds

LEMMA LedsUnchanged ==
  ASSUME LedsInv, UNCHANGED << payload, acked, leds, corrupted >>
  PROVE  LedsInv'
BY DEF LedsInv, LedsFirstWritten

LEMMA DataOutLeds ==
  ASSUME LedsInv, NEW handshakeLost \in BOOLEAN, DataOut(handshakeLost)
  PROVE  LedsInv'
<1>1. UNCHANGED << payload, corrupted >>
  BY DEF DataOut
<1>2. CASE block = "vendor" /\ IsRegisterWrite
  <2>1. /\ leds' = IF leds # 0 THEN leds ELSE FirstByte(payload)
        /\ acked' = Append(acked, payload)
    BY <1>2, LatchIsFirstByte DEF DataOut, ReceiveBytes
  <2>2. leds' \in Nat /\ acked' \in Seq(Seq(Nat))
    BY <2>1, FirstByteType DEF LedsInv
  <2>3. FirstWritten(acked') = IF FirstWritten(acked) # 0 THEN FirstWritten(acked) ELSE FirstByte(payload)
    BY <2>1, FirstWrittenAppend DEF LedsInv
  <2>5. LedsFirstWritten'
    BY <1>1, <2>1, <2>3 DEF LedsInv, LedsFirstWritten
  <2> QED  BY <1>1, <2>2, <2>5 DEF LedsInv
<1>3. CASE ~(block = "vendor" /\ IsRegisterWrite)
  BY <1>1, <1>3, LedsUnchanged DEF DataOut, ReceiveBytes
<1> QED  BY <1>2, <1>3

LEMMA InitLedsInv == Init => LedsInv
<1> SUFFICES ASSUME Init
             PROVE  LedsInv
  OBVIOUS
<1>1. acked = << >> /\ leds = 0 /\ payload = << >> /\ corrupted = 0
  BY DEF Init
<1>2. FirstWritten(acked) = 0
  BY <1>1 DEF FirstWritten, Full
<1> QED  BY <1>1, <1>2 DEF LedsInv, LedsFirstWritten

LEMMA NextLedsInv == LedsInv /\ [Next]_vars => LedsInv'
<1> SUFFICES ASSUME LedsInv, [Next]_vars
             PROVE  LedsInv'
  OBVIOUS
<1>1. ASSUME NEW s \in Setups, NEW data \in Payloads \union {<< >>}, BeginTransfer(s, data)
      PROVE  LedsInv'
  <2>1. UNCHANGED << leds, acked, corrupted >> /\ payload' = data
    BY <1>1 DEF BeginTransfer, faultVars
  <2>2. data \in Seq(Nat)
    <3>1. << >> \in Seq(Nat) /\ Payloads \subseteq Seq(Nat)
      BY ControlAssumption
    <3> QED  BY <3>1, Zenon
  <2> QED  BY <2>1, <2>2 DEF LedsInv, LedsFirstWritten
<1>2. ASSUME NEW handshakeLost \in BOOLEAN, DataOut(handshakeLost)
      PROVE  LedsInv'
  BY <1>2, DataOutLeds
<1>3. ASSUME NEW seen \in Payloads, DataCorrupted(seen)
      PROVE  LedsInv'
  <2>1. seen \in Seq(Nat)
    BY ControlAssumption
  <2>2. LatchLeds(leds, seen) \in Nat
    BY <2>1, LatchIsFirstByte, FirstByteType DEF LedsInv
  <2>3. leds' \in Nat
    BY <1>3, <2>2 DEF DataCorrupted, ReceiveBytes, LedsInv
  <2>4. UNCHANGED << payload, acked >> /\ corrupted' = corrupted + 1
    BY <1>3 DEF DataCorrupted
  <2> QED  BY <2>3, <2>4 DEF LedsInv, LedsFirstWritten
<1>4. ASSUME ResetButton
      PROVE  LedsInv'
  <2>1. /\ leds' = 0 /\ acked' = << >>
        /\ UNCHANGED << payload, corrupted >>
    BY <1>4 DEF ResetButton, faultVars
  <2>2. FirstWritten(acked)' = 0
    BY <2>1 DEF FirstWritten, Full
  <2> QED  BY <2>1, <2>2 DEF LedsInv, LedsFirstWritten
<1>5. ASSUME DataIn \/ StatusIn \/ StatusOut \/ PacketLost \/ UNCHANGED vars
      PROVE  LedsInv'
  <2>1. UNCHANGED << payload, acked, leds, corrupted >>
    BY <1>5 DEF DataIn, StatusIn, StatusOut, PacketLost, deviceVars, hostVars, faultVars, vars
  <2> QED  BY <2>1, LedsUnchanged
<1> QED  BY <1>1, <1>2, <1>3, <1>4, <1>5 DEF Next

\* While no packet is corrupted the leds hold the first byte other than 0 that
\* was acknowledged, whatever is lost and repeated (VendorRequestHandlers).
THEOREM LedsCorrect == Spec => []LedsFirstWritten
<1>2. LedsInv => LedsFirstWritten
  BY DEF LedsInv
<1> QED  BY <1>2, InitLedsInv, NextLedsInv, PTL DEF Spec

-----------------------------------------------------------------------------
(* Types: with the bounds of tries while a packet is tried.                *)
TypeInv == IInv /\ LedsInv /\ AltInv /\ TypeOK /\ (stage # "idle" => tries < MaxTries)

LEMMA ReplyTyped ==
  ASSUME CoreTypes, NEW at \in Stages
  PROVE  DeviceReply(at).bytes \in Nat
<1>1. DeviceReply(at) = HandlerReply(at)
  BY OneHandler
<1>2. setup.type \in Types /\ setup.length \in Nat /\ block \in {"vendor", "uac2"}
  BY DEF CoreTypes, SetupPackets
<1>3. \A n \in Nat : Data(n).bytes \in Nat
  BY DEF Data
<1>4. \A kind : Reply(kind).bytes \in Nat
  BY DEF Reply
<1>5. Nothing.bytes \in Nat
  BY DEF Nothing, Reply
<1>6. MinOf(1, setup.length % 2) \in Nat /\ RangeBytes(setup) \in Nat /\ 4 \in Nat
  BY <1>2 DEF MinOf, RangeBytes
<1>7. StandardReply(setup, at).bytes \in Nat
  BY <1>2, <1>3, <1>4, <1>5 DEF StandardReply
<1>8. StallReply(setup, at).bytes \in Nat
  BY <1>4, <1>5 DEF StallReply
<1>9. VendorReply(setup, at).bytes \in Nat
  BY <1>3, <1>4, <1>5, <1>6 DEF VendorReply
<1>10. Uac2Reply(setup, at).bytes \in Nat
  <2>1. CASE IsSetInterface(setup)
    BY <1>4, <1>5, <2>1 DEF Uac2Reply, IsSetInterface
  <2>2. CASE ~IsSetInterface(setup)
    BY <1>3, <1>4, <1>5, <1>6, <2>2 DEF Uac2Reply
  <2> QED  BY <2>1, <2>2
<1> QED  BY <1>1, <1>2, <1>5, <1>7, <1>8, <1>9, <1>10 DEF HandlerReply, Types

LEMMA TriesTyped ==
  ASSUME stage # "idle", tries \in 0 .. MaxTries, tries < MaxTries, TryAgain
  PROVE  tries' \in 0 .. MaxTries /\ (stage' # "idle" => tries' < MaxTries)
BY ControlAssumption DEF TryAgain

LEMMA NextTypeInv == TypeInv /\ [Next]_vars => TypeInv'
<1> SUFFICES ASSUME TypeInv, [Next]_vars
             PROVE  TypeInv'
  OBVIOUS
<1> DEFINE Trying == stage # "idle" => tries < MaxTries
           Rest == /\ tries \in 0 .. MaxTries /\ got \in Nat
                   /\ out_alt \in 0 .. 7 /\ in_alt \in 0 .. 7 /\ changed \in BOOLEAN
                   /\ transfers \in 0 .. MaxTransfers
                   /\ lost \in 0 .. MaxLost /\ corrupted \in 0 .. MaxCorrupted
                   /\ Trying
<1>1. IInv' /\ LedsInv' /\ AltInv'
  BY NextIInv, NextLedsInv, NextAltInv DEF TypeInv
<1>2. Rest
  BY DEF TypeInv, TypeOK
<1>3. MaxTries \in Nat \ {0} /\ MaxTransfers \in Nat /\ MaxLost \in Nat /\ MaxCorrupted \in Nat
  BY ControlAssumption
<1>4. CoreTypes
  BY DEF TypeInv, IInv, Safe
<1>5. ASSUME NEW s \in Setups, NEW data, BeginTransfer(s, data)
      PROVE  Rest'
  <2>1. /\ tries' = 0 /\ got' = 0 /\ transfers' \in 0 .. MaxTransfers
        /\ UNCHANGED << lost, corrupted >>
    BY <1>2, <1>3, <1>5 DEF BeginTransfer, faultVars
  <2>2. s.value \in Nat
    BY ControlAssumption DEF SetupPackets
  <2>3. out_alt' \in 0 .. 7 /\ in_alt' \in 0 .. 7
    BY <1>2, <1>5, <2>2 DEF BeginTransfer, SetAlts
  <2>4. changed' \in BOOLEAN
    BY <1>2, <1>5 DEF BeginTransfer, IsSetInterface
  <2> QED  BY <1>2, <1>3, <2>1, <2>3, <2>4
<1>6. ASSUME DataIn
      PROVE  Rest'
  <2>1. /\ stage = "data_in" /\ UNCHANGED << transfers, out_alt, in_alt, changed, lost, corrupted >>
    BY <1>6 DEF DataIn, deviceVars, faultVars
  <2>2. got' \in Nat
    BY <1>2, <1>4, <1>6, ReplyTyped DEF DataIn, Stages
  <2>3. tries' \in 0 .. MaxTries /\ Trying'
    BY <1>2, <1>3, <1>6, <2>1, TriesTyped DEF DataIn, NextStage, EndTransfer
  <2> QED  BY <1>2, <2>1, <2>2, <2>3
<1>7. ASSUME NEW handshakeLost \in BOOLEAN, DataOut(handshakeLost)
      PROVE  Rest'
  <2>1. /\ stage = "data_out" /\ UNCHANGED << transfers, out_alt, in_alt, changed, got, corrupted >>
    BY <1>7 DEF DataOut
  <2>2. lost' \in 0 .. MaxLost
    BY <1>2, <1>3, <1>7 DEF DataOut
  <2>3. tries' \in 0 .. MaxTries /\ Trying'
    BY <1>2, <1>3, <1>7, <2>1, TriesTyped DEF DataOut, NextStage, EndTransfer
  <2> QED  BY <1>2, <2>1, <2>2, <2>3
<1>8. ASSUME StatusIn \/ StatusOut
      PROVE  Rest'
  <2>1. /\ stage # "idle"
        /\ UNCHANGED << transfers, out_alt, in_alt, changed, got, lost, corrupted >>
        /\ TryAgain \/ (\E how \in {"done", "stalled"} : EndTransfer(how))
    BY <1>8 DEF StatusIn, StatusOut, deviceVars, faultVars
  <2>2. tries' \in 0 .. MaxTries /\ Trying'
    BY <1>2, <1>3, <2>1, TriesTyped DEF EndTransfer
  <2> QED  BY <1>2, <2>1, <2>2
<1>9. ASSUME PacketLost \/ (\E seen \in Payloads : DataCorrupted(seen))
      PROVE  Rest'
  <2>1. /\ stage # "idle" /\ TryAgain
        /\ UNCHANGED << transfers, out_alt, in_alt, changed, got >>
        /\ \/ lost < MaxLost /\ lost' = lost + 1 /\ UNCHANGED corrupted
           \/ corrupted < MaxCorrupted /\ corrupted' = corrupted + 1 /\ UNCHANGED lost
    BY <1>9 DEF PacketLost, DataCorrupted, deviceVars
  <2>2. tries' \in 0 .. MaxTries /\ Trying'
    BY <1>2, <2>1, TriesTyped
  <2>3. lost' \in 0 .. MaxLost /\ corrupted' \in 0 .. MaxCorrupted
    BY <1>2, <1>3, <2>1
  <2> QED  BY <1>2, <2>1, <2>2, <2>3
<1>10. ASSUME ResetButton
       PROVE  Rest'
  <2>1. /\ out_alt' = 0 /\ in_alt' = 0 /\ changed' = FALSE /\ stage' = "idle"
        /\ UNCHANGED << tries, got, transfers, lost, corrupted >>
    BY <1>10 DEF ResetButton, faultVars
  <2>2. out_alt' \in 0 .. 7 /\ in_alt' \in 0 .. 7
    BY <2>1
  <2> QED  BY <1>2, <2>1, <2>2
<1>11. ASSUME UNCHANGED vars
       PROVE  Rest'
  BY <1>2, <1>11 DEF vars, deviceVars, hostVars, faultVars
<1>12. Rest'
  BY <1>5, <1>6, <1>7, <1>8, <1>9, <1>10, <1>11 DEF Next
<1>13. lastSet' \in {<< >>} \union {<< s >> : s \in SetupPackets}
  BY <1>1 DEF AltInv
<1>14. /\ block' \in {"vendor", "uac2"} /\ stage' \in Stages /\ setup' \in SetupPackets
       /\ outcome' \in Outcomes
       /\ payload' \in Seq(Nat) /\ leds' \in Nat /\ acked' \in Seq(Seq(Nat))
  BY <1>1 DEF IInv, Safe, CoreTypes, LedsInv
<1>15. TypeOK'
  BY <1>12, <1>13, <1>14 DEF TypeOK
<1> QED  BY <1>1, <1>12, <1>15 DEF TypeInv

\* The variables keep their types; in particular the host tries no packet
\* more often than MaxTries.
THEOREM RequestTypes == Spec => []TypeOK
<1>1. Init => TypeInv
  <2> SUFFICES ASSUME Init
               PROVE  TypeInv
    OBVIOUS
  <2>1. IInv /\ LedsInv /\ AltInv
    BY InitIInv, InitLedsInv, InitAltInv
  <2>2. TypeOK
    <3>1. /\ tries \in 0 .. MaxTries /\ transfers \in 0 .. MaxTransfers
          /\ lost \in 0 .. MaxLost /\ corrupted \in 0 .. MaxCorrupted
          /\ got \in Nat /\ out_alt \in 0 .. 7 /\ in_alt \in 0 .. 7
      BY ControlAssumption DEF Init
    <3>2. changed \in BOOLEAN /\ lastSet = << >>
      BY DEF Init
    <3> QED  BY <2>1, <3>1, <3>2 DEF TypeOK, IInv, Safe, CoreTypes, LedsInv
  <2> QED  BY <2>1, <2>2 DEF Init, TypeInv
<1>2. TypeInv => TypeOK
  BY DEF TypeInv
<1> QED  BY <1>1, <1>2, NextTypeInv, PTL DEF Spec

=============================================================================
