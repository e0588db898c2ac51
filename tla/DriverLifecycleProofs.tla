------------------------ MODULE DriverLifecycleProofs ------------------------
(***************************************************************************)
(* Proofs about the driver's probe, error path, disconnect and files, for  *)
(* any number of open files, of probes and of allocations that fail.  They *)
(* are for one device: deca_g and data are global, and a second probe      *)
(* replaces them.                                                          *)
(***************************************************************************)
EXTENDS DriverLifecycle, TLAPS

OneDevice == \E d : Devices = {d}

-----------------------------------------------------------------------------
(* The places of pc, by what is there at each of them.                     *)
Active == Probing \union Unwinding \union Disconnecting \union {"bound"}
StructThere == Active \ {"free_data"}
BufferTried == Active \ {"alloc_buffer"}
UrbsThere == StructThere \ {"alloc_buffer", "alloc_urbs"}
ClassThere == {"chrdev", "device", "bound", "unregister_chrdev", "unregister_class"}
ChrdevThere == {"device", "bound", "unregister_chrdev"}
FilesThere == {"device", "bound"} \union Disconnecting

-----------------------------------------------------------------------------
(* The parts of the invariant, each for the one device d.                  *)

\* The globals are its own, and what no probe has taken yet is untouched.
OwnPart(d) ==
  /\ pc[d] = "gone" => own[d] = NULL
  /\ pc[d] \in Active => own[d] # NULL /\ deca_g = own[d]
  /\ own[d] <= probes /\ deca_g <= probes
  /\ \A s \in Ids : s > probes => structs[s] = NoStruct /\ buffers[s] = "none"
  /\ \A f \in Files : files[f] <= probes

\* The structure and its URBs are there when used, and no others.
StructPart(d) ==
  /\ pc[d] \in StructThere => structs[own[d]].memory = "live"
  /\ pc[d] = "free_data" => structs[own[d]].memory = "freed"
  /\ pc[d] \in UrbsThere => structs[own[d]].urbs
  /\ \A s \in Ids : structs[s].urbs => s = own[d] /\ pc[d] \in UrbsThere
  /\ \A s \in Ids : structs[s].memory = "live" =>
       "urbs" \in failed \/ (s = own[d] /\ pc[d] \in StructThere)

\* So is the buffer, unless kmalloc failed.
BufferPart(d) ==
  /\ pc[d] = "alloc_buffer" => buffers[own[d]] = "none"
  /\ pc[d] \in BufferTried =>
       \/ data = own[d] /\ buffers[own[d]] = "live"
       \/ data = NULL /\ "buffer" \in failed /\ buffers[own[d]] = "none"
  /\ \A b \in Ids : buffers[b] = "live" =>
       \/ failed \intersect {"urbs", "class", "chrdev", "device"} # {}
       \/ b = own[d] /\ pc[d] \in BufferTried

\* What is registered, and why a probe is undone.
RegisteredPart(d) ==
  /\ pc[d] \in ClassThere => class
  /\ class => pc[d] \in ClassThere \/ failed \intersect {"chrdev", "device"} # {}
  /\ pc[d] \in ChrdevThere => chrdev
  /\ chrdev => pc[d] \in ChrdevThere \/ "device" \in failed
  /\ pc[d] \in Unwinding => failed \intersect {"class", "chrdev", "device"} # {}
  /\ pc[d] = "failed" => failed # {}

\* Who can use the structure, and what is under way.
TransferPart(d) ==
  /\ \A f \in Files : files[f] = own[d] /\ own[d] # NULL =>
       pc[d] \in FilesThere \/ "device" \in failed
  /\ \A s \in Ids : UnderWay(s) =>
       (s = own[d] /\ pc[d] \in {"device", "bound"}) \/ "device" \in failed
  /\ pc[d] \in {"alloc_buffer", "alloc_urbs"} =>
       /\ structs[own[d]].rx = "idle" /\ structs[own[d]].tx = "idle"
       /\ ~structs[own[d]].ready
  /\ pc[d] \in UrbsThere /\ (structs[own[d]].rx = "submitted" \/ structs[own[d]].ready) =>
       structs[own[d]].target = data

\* What a read that is past its checks has before it.
CallPart(d) ==
  /\ \A f \in Files : call[f] # "none" => files[f] # NULL
  /\ \A f \in Files : call[f] \in Reading /\ files[f] = own[d] /\ own[d] # NULL =>
       /\ pc[d] \notin {"alloc_buffer", "alloc_urbs"}
       /\ pc[d] # "failed" =>
            Source(f) = data /\ (Live(own[d]) => structs[own[d]].target = data)

LifeInv ==
  \A d \in Devices :
    /\ OwnPart(d) /\ StructPart(d) /\ BufferPart(d) /\ RegisteredPart(d)
    /\ TransferPart(d) /\ CallPart(d)

-----------------------------------------------------------------------------
\* The places at which an operation of the driver can be are typed.
LEMMA PlacesTyped ==
  /\ Active \subseteq Places
  /\ "gone" \notin Active /\ "failed" \notin Active
  /\ StructThere \subseteq Active /\ BufferTried \subseteq Active /\ UrbsThere \subseteq StructThere
<1>1. Active \subseteq Places
  BY DEF Active, Places
<1>2. "gone" \notin Active /\ "failed" \notin Active
  BY DEF Active, Probing, Unwinding, Disconnecting
<1>3. StructThere \subseteq Active /\ BufferTried \subseteq Active /\ UrbsThere \subseteq StructThere
  BY DEF StructThere, BufferTried, UrbsThere
<1> QED  BY <1>1, <1>2, <1>3

\* Numbers of probes.
LEMMA IdsTyped ==
  /\ MaxProbes \in Nat /\ NULL \notin Ids /\ Ids \subseteq Nat
  /\ \A n \in Nat : n < MaxProbes => n + 1 \in Ids
BY LifecycleAssumption DEF Ids, NULL

LEMMA CallbacksTyped ==
  ASSUME TypeOK, NEW s \in Ids
  PROVE  /\ TxCallback(s) \in Structs
         /\ RxCallbacks(s) \subseteq Structs
<1>1. structs[s] \in Structs /\ data \in {NULL} \union Ids
  BY DEF TypeOK
<1>2. TxCallback(s) \in Structs
  <2>1. CASE EndpointsEnabled(s) /\ structs[s].rx = "idle"
    BY <1>1, <2>1 DEF Structs, TxCallback
  <2>2. CASE ~(EndpointsEnabled(s) /\ structs[s].rx = "idle")
    BY <1>1, <2>2 DEF Structs, TxCallback
  <2> QED  BY <2>1, <2>2
<1>3. \A r \in BOOLEAN : [structs[s] EXCEPT !.rx = "idle", !.ready = r] \in Structs
  BY <1>1 DEF Structs
<1>4. structs[s].ready \in BOOLEAN
  BY <1>1 DEF Structs
<1> QED  BY <1>2, <1>3, <1>4 DEF RxCallbacks

LEMMA InitLife == Init => TypeOK /\ LifeInv
<1> SUFFICES ASSUME Init
             PROVE  TypeOK /\ LifeInv
  OBVIOUS
<1>1. \A d \in Devices : pc[d] = "gone" /\ own[d] = NULL
  BY DEF Init
<1>2. /\ deca_g = NULL /\ data = NULL /\ probes = 0 /\ class = FALSE /\ chrdev = FALSE /\ failed = {}
      /\ \A s \in Ids : structs[s] = NoStruct /\ buffers[s] = "none"
      /\ \A f \in Files : files[f] = NULL
  BY DEF Init
<1>3. NoStruct \in Structs
  BY DEF NoStruct, Structs
<1>4. TypeOK
  <2>1. /\ pc \in [Devices -> Places]
        /\ own \in [Devices -> {NULL} \union Ids] /\ structs \in [Ids -> Structs]
    BY <1>3 DEF Init, Places
  <2>2. buffers \in [Ids -> {"none", "live", "freed"}] /\ files \in [Files -> {NULL} \union Ids]
    BY DEF Init
  <2>3. probes \in 0 .. MaxProbes
    BY <1>2, IdsTyped
  <2>4. call \in [Files -> Stages] /\ from \in [Files -> {NULL} \union Ids]
    BY DEF Init, Stages
  <2> QED  BY <1>2, <2>1, <2>2, <2>3, <2>4 DEF TypeOK
<1>5. ASSUME NEW d \in Devices
      PROVE  /\ OwnPart(d) /\ StructPart(d) /\ BufferPart(d) /\ RegisteredPart(d)
             /\ TransferPart(d) /\ CallPart(d)
  <2>1. OwnPart(d)
    BY <1>1, <1>2, <1>5, PlacesTyped DEF OwnPart, NULL
  <2>2. StructPart(d)
    BY <1>1, <1>2, <1>5, PlacesTyped DEF StructPart, NoStruct
  <2>3. BufferPart(d)
    BY <1>1, <1>2, <1>5, PlacesTyped DEF BufferPart
  <2>4. RegisteredPart(d)
    BY <1>1, <1>2, <1>5 DEF RegisteredPart, ClassThere, ChrdevThere, Unwinding
  <2>5. TransferPart(d)
    BY <1>1, <1>2, <1>5, PlacesTyped DEF TransferPart, NoStruct, UnderWay
  <2>6. CallPart(d)
    BY DEF Init, CallPart, Reading
  <2> QED  BY <2>1, <2>2, <2>3, <2>4, <2>5, <2>6
<1> QED  BY <1>4, <1>5 DEF LifeInv

LEMMA OneLife ==
  ASSUME NEW d, Devices = {d}
  PROVE  /\ LifeInv <=> (OwnPart(d) /\ StructPart(d) /\ BufferPart(d) /\ RegisteredPart(d)
                          /\ TransferPart(d) /\ CallPart(d))
         /\ LifeInv' <=> (OwnPart(d) /\ StructPart(d) /\ BufferPart(d) /\ RegisteredPart(d)
                          /\ TransferPart(d) /\ CallPart(d))'
BY DEF LifeInv

-----------------------------------------------------------------------------
(* Types *)

\* While the driver is at work on a device, it has a structure of its own.
LEMMA ActiveOwns ==
  ASSUME TypeOK, NEW d \in Devices, OwnPart(d), pc[d] \in Active
  PROVE  /\ own[d] \in Ids /\ structs[own[d]] \in Structs
         /\ TxCallback(own[d]) \in Structs /\ RxCallbacks(own[d]) \subseteq Structs
<1>1. own[d] \in Ids
  BY DEF TypeOK, OwnPart
<1> QED  BY <1>1, CallbacksTyped DEF TypeOK

LEMMA ProbeTypes ==
  ASSUME TypeOK, NEW d \in Devices, OwnPart(d), ProbeStep(d)
  PROVE  TypeOK'
<1>1. probes \in Nat /\ MaxProbes \in Nat
  BY IdsTyped DEF TypeOK
<1>2. CASE Probe(d)
  <2>1. probes' \in 0 .. MaxProbes /\ probes' \in Ids
    BY <1>1, <1>2 DEF Probe, Ids
  <2>2. structs' \in [Ids -> Structs] /\ own' \in [Devices -> {NULL} \union Ids]
        /\ deca_g' \in {NULL} \union Ids
    <3>1. [structs[probes'] EXCEPT !.memory = "live"] \in Structs
      BY <2>1 DEF TypeOK, Structs
    <3> QED  BY <1>2, <2>1, <3>1 DEF Probe, TypeOK
  <2>3. pc' \in [Devices -> Places] /\ failed' \subseteq Points
    BY <1>2 DEF Probe, TypeOK, Goto, Fails, Places, Probing, Points
  <2> QED  BY <1>2, <2>1, <2>2, <2>3 DEF Probe, TypeOK, calls, registered
<1>3. CASE AllocBuffer(d)
  <2>1. own[d] \in Ids
    BY <1>3, ActiveOwns DEF AllocBuffer, Active, Probing
  <2>2. pc' \in [Devices -> Places] /\ failed' \subseteq Points
    BY <1>3 DEF AllocBuffer, TypeOK, Goto, Fails, Places, Probing, Points
  <2>3. buffers' \in [Ids -> {"none", "live", "freed"}] /\ data' \in {NULL} \union Ids
    BY <1>3, <2>1 DEF AllocBuffer, TypeOK
  <2> QED  BY <1>3, <2>2, <2>3 DEF AllocBuffer, TypeOK, calls, registered
<1>4. CASE AllocUrbs(d)
  <2>1. own[d] \in Ids /\ structs[own[d]] \in Structs
    BY <1>4, ActiveOwns DEF AllocUrbs, Active, Probing
  <2>2. pc' \in [Devices -> Places] /\ failed' \subseteq Points
    BY <1>4 DEF AllocUrbs, TypeOK, Goto, Fails, Places, Probing, Points
  <2>3. [structs[own[d]] EXCEPT !.urbs = TRUE] \in Structs
    BY <2>1 DEF Structs
  <2>4. structs' \in [Ids -> Structs]
    BY <1>4, <2>1, <2>3 DEF AllocUrbs, TypeOK
  <2> QED  BY <1>4, <2>2, <2>4 DEF AllocUrbs, TypeOK, calls, registered, pointers
<1>5. CASE RegisterClass(d)
  <2>1. pc' \in [Devices -> Places] /\ failed' \subseteq Points /\ class' \in BOOLEAN
    BY <1>5 DEF RegisterClass, TypeOK, Goto, Fails, Places, Probing, Unwinding, Points
  <2> QED  BY <1>5, <2>1 DEF RegisterClass, TypeOK, calls, heap, pointers
<1>6. CASE RegisterChrdev(d)
  <2>1. pc' \in [Devices -> Places] /\ failed' \subseteq Points /\ chrdev' \in BOOLEAN
    BY <1>6 DEF RegisterChrdev, TypeOK, Goto, Fails, Places, Probing, Unwinding, Points
  <2> QED  BY <1>6, <2>1 DEF RegisterChrdev, TypeOK, calls, heap, pointers
<1>7. CASE CreateDevice(d)
  <2>1. pc' \in [Devices -> Places] /\ failed' \subseteq Points
    BY <1>7 DEF CreateDevice, TypeOK, Goto, Fails, Places, Unwinding, Points
  <2> QED  BY <1>7, <2>1 DEF CreateDevice, TypeOK, calls, heap, pointers, registered
<1> QED  BY <1>2, <1>3, <1>4, <1>5, <1>6, <1>7 DEF ProbeStep

LEMMA UnwindTypes ==
  ASSUME TypeOK, NEW d \in Devices, OwnPart(d), UnwindStep(d)
  PROVE  TypeOK'
<1>1. pc[d] \in Active /\ pc' \in [Devices -> Places]
  BY DEF UnwindStep, KillRx, KillTx, FreeStruct, TypeOK, Goto, Places, Active, Unwinding, Disconnecting
<1>2. own[d] \in Ids /\ structs[own[d]] \in Structs
      /\ TxCallback(own[d]) \in Structs /\ RxCallbacks(own[d]) \subseteq Structs
  BY <1>1, ActiveOwns
<1>3. structs' \in [Ids -> Structs]
  <2>1. CASE KillRx(d)
    BY <1>2, <2>1 DEF KillRx, TypeOK
  <2>2. CASE KillTx(d)
    BY <1>2, <2>2 DEF KillTx, TypeOK
  <2>3. CASE FreeStruct(d)
    <3>1. [structs[own[d]] EXCEPT !.memory = "freed", !.urbs = FALSE] \in Structs
      BY <1>2 DEF Structs
    <3> DEFINE st == [structs EXCEPT ![own[d]] = [structs[own[d]] EXCEPT !.memory = "freed", !.urbs = FALSE]]
    <3>2. structs' = st
      BY <2>3, <1>2 DEF FreeStruct, TypeOK
    <3> QED  BY <1>2, <3>1, <3>2 DEF TypeOK
  <2> QED  BY <2>1, <2>2, <2>3 DEF UnwindStep
<1>4. UNCHANGED << own, deca_g, data, buffers, class, chrdev, files, call, from, probes, failed >>
  BY DEF UnwindStep, KillRx, KillTx, FreeStruct, pointers, registered, calls, history
<1> QED  BY <1>1, <1>3, <1>4 DEF TypeOK

LEMMA DisconnectTypes ==
  ASSUME TypeOK, NEW d \in Devices, OwnPart(d), DisconnectStep(d)
  PROVE  TypeOK'
<1>1. pc' \in [Devices -> Places]
  BY DEF DisconnectStep, Unbind, UnregisterChrdev, UnregisterClass, FreeData, Unplug,
         TypeOK, Goto, Places, Disconnecting
<1>2. CASE Unbind(d)
  <2>1. own[d] \in Ids /\ structs[own[d]] \in Structs /\ RxCallbacks(own[d]) \subseteq Structs
    BY <1>2, ActiveOwns DEF Unbind, Active
  <2>2. PICK st \in Structs : structs' = [structs EXCEPT ![own[d]] = [st EXCEPT !.tx = "idle", !.rx = "idle"]]
    BY <1>2, <2>1 DEF Unbind
  <2>3. [st EXCEPT !.tx = "idle", !.rx = "idle"] \in Structs
    BY DEF Structs
  <2>4. structs' \in [Ids -> Structs]
    BY <2>1, <2>2, <2>3 DEF TypeOK
  <2> QED  BY <1>1, <1>2, <2>4 DEF Unbind, TypeOK, calls, pointers, registered, history
<1>3. CASE UnregisterChrdev(d)
  BY <1>1, <1>3 DEF UnregisterChrdev, TypeOK, calls, pointers, heap, history
<1>4. CASE UnregisterClass(d)
  BY <1>1, <1>4 DEF UnregisterClass, TypeOK, calls, pointers, heap, history
<1>5. CASE FreeData(d)
  <2>1. /\ buffers' \in [Ids -> {"none", "live", "freed"}]
        /\ own' \in [Devices -> {NULL} \union Ids]
    BY <1>5 DEF FreeData, TypeOK
  <2> QED  BY <1>1, <1>5, <2>1 DEF FreeData, TypeOK, calls, registered, history
<1>6. CASE Unplug(d)
  <2>1. own' \in [Devices -> {NULL} \union Ids]
    BY <1>6 DEF Unplug, TypeOK
  <2> QED  BY <1>1, <1>6, <2>1 DEF Unplug, TypeOK, calls, heap, registered, history
<1> QED  BY <1>2, <1>3, <1>4, <1>5, <1>6 DEF DisconnectStep

LEMMA UseTypes ==
  ASSUME TypeOK, (\E f \in Files : FileCall(f)) \/ (\E s \in Ids : TxDone(s) \/ RxDone(s))
  PROVE  TypeOK'
<1>1. UNCHANGED << pc, own, deca_g, data, buffers, class, chrdev, probes, failed >>
  BY DEF FileCall, Open, Close, Write, WriteCall, WriteStore, WriteSubmit,
         Read, ReadCheck, ReadCopy, ReadDone, TxDone, RxDone, pointers, heap, registered, history
<1>2. ASSUME NEW f \in Files, Open(f) \/ Close(f)
      PROVE  TypeOK'
  <2>1. structs' = structs /\ UNCHANGED << call, from >>
    BY <1>2 DEF Open, Close, heap, calls
  <2>2. files' \in [Files -> {NULL} \union Ids]
    BY <1>2 DEF Open, Close, TypeOK
  <2> QED  BY <1>1, <2>1, <2>2 DEF TypeOK
<1>3. ASSUME NEW f \in Files, Read(f) \/ Write(f)
      PROVE  TypeOK'
  <2>1. /\ call' \in [Files -> Stages] /\ from' \in [Files -> {NULL} \union Ids] /\ files' = files
    BY <1>3 DEF Read, ReadCheck, ReadCopy, ReadDone, Write, WriteCall, WriteStore, WriteSubmit,
                Enter, Stages, Reading, TypeOK
  <2>2. structs' = structs \/ ClearReady(files[f]) \/ WriteSubmit(f)
    BY <1>3 DEF Read, ReadCheck, ReadCopy, ReadDone, Write, WriteCall, WriteStore, heap
  <2>3. structs' \in [Ids -> Structs]
    <3>1. CASE structs' = structs
      BY <3>1 DEF TypeOK
    <3>2. CASE structs' # structs
      <4>1. files[f] \in Ids /\ structs[files[f]] \in Structs
        BY <2>2, <3>2 DEF ClearReady, WriteSubmit, Usable, Live, TypeOK
      <4>2. /\ [structs[files[f]] EXCEPT !.ready = FALSE] \in Structs
            /\ [structs[files[f]] EXCEPT !.tx = "submitted"] \in Structs
        BY <4>1 DEF Structs
      <4> QED  BY <2>2, <3>2, <4>1, <4>2 DEF ClearReady, WriteSubmit, TypeOK
    <3> QED  BY <3>1, <3>2
  <2> QED  BY <1>1, <2>1, <2>3 DEF TypeOK
<1>4. ASSUME NEW s \in Ids, TxDone(s) \/ RxDone(s)
      PROVE  TypeOK'
  <2>1. structs' \in [Ids -> Structs] /\ UNCHANGED << files, call, from >>
    BY <1>4, CallbacksTyped DEF TxDone, RxDone, TypeOK, calls
  <2> QED  BY <1>1, <2>1 DEF TypeOK
<1> QED  BY <1>2, <1>3, <1>4 DEF FileCall

-----------------------------------------------------------------------------
(* The invariant *)

LEMMA ProbeLife ==
  ASSUME NEW d, Devices = {d}, TypeOK, LifeInv, Probe(d)
  PROVE  LifeInv'
<1>1. /\ OwnPart(d) /\ StructPart(d) /\ BufferPart(d) /\ RegisteredPart(d)
      /\ TransferPart(d) /\ CallPart(d)
  BY OneLife
<1>2. /\ probes \in Nat /\ probes' = probes + 1 /\ probes' \in Ids /\ probes' # NULL
      /\ pc[d] = "gone" /\ own[d] = NULL
      /\ UNCHANGED << data, buffers, class, chrdev, files, call, from >>
  BY <1>1, IdsTyped DEF Probe, OwnPart, TypeOK, registered, calls
<1>5. /\ NULL \in Nat /\ NULL <= probes' /\ deca_g \in Nat /\ \A f \in Files : files[f] \in Nat
      /\ \A n \in Nat : n <= probes => n <= probes'
      /\ \A s \in Ids : s > probes' => s > probes /\ s # probes'
  <2>1. deca_g \in Nat /\ \A f \in Files : files[f] \in Nat
    <3>1. {NULL} \union Ids \subseteq Nat
      BY IdsTyped DEF NULL
    <3> QED  BY <3>1 DEF TypeOK
  <2>2. NULL \in Nat /\ NULL <= probes'
    BY <1>2 DEF NULL
  <2>3. \A n \in Nat : (n <= probes => n <= probes') /\ (n > probes' => n > probes /\ n # probes')
    BY <1>2
  <2> QED  BY <2>1, <2>2, <2>3, IdsTyped
<1>3. CASE pc'[d] = "failed"
  <2>1. /\ own'[d] = NULL /\ failed' = failed \union {"struct"}
        /\ UNCHANGED << structs, deca_g >>
    BY <1>2, <1>3 DEF Probe, Goto, Fails, TypeOK
  <2>2. OwnPart(d)'
    BY <1>1, <1>2, <1>5, <1>3, <2>1, PlacesTyped DEF OwnPart
  <2>3. StructPart(d)'
    BY <1>1, <1>2, <1>3, <2>1, PlacesTyped DEF StructPart
  <2>4. BufferPart(d)'
    BY <1>1, <1>2, <1>3, <2>1, PlacesTyped DEF BufferPart
  <2>5. RegisteredPart(d)'
    BY <1>1, <1>2, <1>3, <2>1 DEF RegisteredPart, ClassThere, ChrdevThere, Unwinding
  <2>6. TransferPart(d)'
    BY <1>1, <1>2, <1>3, <2>1, PlacesTyped DEF TransferPart, UnderWay
  <2>7. CallPart(d)'
    BY <1>1, <1>2, <2>1 DEF CallPart
  <2> QED  BY <2>2, <2>3, <2>4, <2>5, <2>6, <2>7, OneLife
<1>4. CASE pc'[d] # "failed"
  <2>1. /\ pc'[d] = "alloc_buffer" /\ own'[d] = probes' /\ deca_g' = probes' /\ failed' = failed
        /\ structs' = [structs EXCEPT ![probes'].memory = "live"]
    BY <1>2, <1>4 DEF Probe, Goto, TypeOK
  <2>2. /\ structs[probes'] = NoStruct /\ buffers[probes'] = "none"
        /\ \A f \in Files : files[f] # probes' /\ files[f] \in {NULL} \union Ids
    BY <1>1, <1>2, IdsTyped DEF OwnPart, TypeOK
  <2>3. /\ structs'[probes'] = [NoStruct EXCEPT !.memory = "live"]
        /\ \A s \in Ids : s # probes' => structs'[s] = structs[s]
    BY <1>2, <2>1, <2>2 DEF TypeOK
  <2>4. /\ structs'[probes'].memory = "live" /\ ~structs'[probes'].urbs /\ ~structs'[probes'].ready
        /\ structs'[probes'].tx = "idle" /\ structs'[probes'].rx = "idle"
    BY <2>3 DEF NoStruct
  <2>5. pc'[d] \in StructThere /\ pc'[d] \notin BufferTried /\ pc'[d] \notin UrbsThere
    BY <2>1 DEF StructThere, BufferTried, UrbsThere, Active, Probing
  <2>6. OwnPart(d)'
    BY <1>1, <1>2, <1>5, <2>1, <2>2, <2>3 DEF OwnPart
  <2>7. StructPart(d)'
    BY <1>1, <1>2, <2>1, <2>3, <2>4, <2>5, PlacesTyped DEF StructPart
  <2>8. BufferPart(d)'
    BY <1>1, <1>2, <2>1, <2>2, <2>5, PlacesTyped DEF BufferPart
  <2>9. RegisteredPart(d)'
    BY <1>1, <1>2, <2>1 DEF RegisteredPart, ClassThere, ChrdevThere, Unwinding
  <2>10. TransferPart(d)'
    BY <1>1, <1>2, <2>1, <2>2, <2>3, <2>4, <2>5 DEF TransferPart, UnderWay
  <2>11. CallPart(d)'
    BY <1>1, <1>2, <2>1, <2>2 DEF CallPart
  <2> QED  BY <2>6, <2>7, <2>8, <2>9, <2>10, <2>11, OneLife
<1> QED  BY <1>3, <1>4

LEMMA AllocLife ==
  ASSUME NEW d, Devices = {d}, TypeOK, LifeInv, AllocBuffer(d) \/ AllocUrbs(d)
  PROVE  LifeInv'
<1>1. /\ OwnPart(d) /\ StructPart(d) /\ BufferPart(d) /\ RegisteredPart(d)
      /\ TransferPart(d) /\ CallPart(d)
  BY OneLife
<1>2. /\ pc[d] \in {"alloc_buffer", "alloc_urbs"} /\ pc[d] \in Active
      /\ UNCHANGED << own, deca_g, class, chrdev, files, call, from, probes >>
  BY DEF AllocBuffer, AllocUrbs, pointers, registered, calls, Active, Probing
<1>3. own[d] \in Ids /\ own[d] # NULL /\ structs[own[d]] \in Structs /\ own[d] <= probes /\ probes \in Nat
  BY <1>1, <1>2, ActiveOwns, IdsTyped DEF OwnPart, TypeOK
<1>4. CASE AllocBuffer(d)
  <2>1. /\ pc[d] = "alloc_buffer" /\ pc'[d] = "alloc_urbs" /\ structs' = structs
        /\ \/ data' = own[d] /\ buffers'[own[d]] = "live" /\ failed' = failed
           \/ data' = NULL /\ buffers'[own[d]] = "none" /\ failed' = failed \union {"buffer"}
        /\ \A b \in Ids : b # own[d] => buffers'[b] = buffers[b]
    BY <1>1, <1>3, <1>4 DEF AllocBuffer, Goto, Fails, TypeOK, BufferPart
  <2>2. /\ pc[d] \in StructThere /\ pc[d] \notin UrbsThere /\ pc[d] \notin BufferTried
        /\ pc'[d] \in StructThere /\ pc'[d] \notin UrbsThere /\ pc'[d] \in BufferTried
        /\ pc'[d] \in Active
    BY <2>1 DEF StructThere, BufferTried, UrbsThere, Active, Probing
  <2>3. OwnPart(d)'
    BY <1>1, <1>2, <1>3, <2>1, <2>2, IdsTyped DEF OwnPart, TypeOK
  <2>4. StructPart(d)'
    BY <1>1, <1>2, <2>1, <2>2 DEF StructPart
  <2>5. BufferPart(d)'
    BY <1>1, <1>2, <1>3, <2>1, <2>2 DEF BufferPart
  <2>6. RegisteredPart(d)'
    BY <1>1, <1>2, <2>1 DEF RegisteredPart, ClassThere, ChrdevThere, Unwinding
  <2>7. TransferPart(d)'
    BY <1>1, <1>2, <2>1, <2>2 DEF TransferPart, UnderWay, FilesThere, Disconnecting
  <2>8. CallPart(d)'
    BY <1>1, <1>2, <2>1 DEF CallPart
  <2> QED  BY <2>3, <2>4, <2>5, <2>6, <2>7, <2>8, OneLife
<1>5. CASE AllocUrbs(d) /\ pc'[d] = "class"
  <2>1. /\ pc[d] = "alloc_urbs" /\ structs' = [structs EXCEPT ![own[d]].urbs = TRUE]
        /\ UNCHANGED << data, buffers, failed >>
    BY <1>2, <1>5 DEF AllocUrbs, Goto, pointers, TypeOK
  <2>2. structs'[own[d]] = [structs[own[d]] EXCEPT !.urbs = TRUE]
    BY <1>3, <2>1 DEF TypeOK
  <2>3. /\ structs'[own[d]].memory = structs[own[d]].memory /\ structs'[own[d]].urbs
        /\ structs'[own[d]].tx = structs[own[d]].tx /\ structs'[own[d]].rx = structs[own[d]].rx
        /\ structs'[own[d]].ready = structs[own[d]].ready
        /\ \A s \in Ids : s # own[d] => structs'[s] = structs[s]
    BY <1>3, <2>1, <2>2 DEF TypeOK, Structs
  <2>4. /\ pc[d] \in StructThere /\ pc[d] \notin UrbsThere /\ pc[d] \in BufferTried
        /\ pc'[d] \in StructThere /\ pc'[d] \in UrbsThere /\ pc'[d] \in BufferTried
        /\ pc'[d] \in Active
    BY <1>5, <2>1 DEF StructThere, BufferTried, UrbsThere, Active, Probing
  <2>5. OwnPart(d)'
    BY <1>1, <1>2, <1>3, <1>5, <2>1, <2>3, <2>4, IdsTyped DEF OwnPart, TypeOK
  <2>6. StructPart(d)'
    BY <1>1, <1>2, <1>5, <2>1, <2>3, <2>4 DEF StructPart
  <2>7. BufferPart(d)'
    BY <1>1, <1>2, <1>5, <2>1, <2>4 DEF BufferPart
  <2>8. RegisteredPart(d)'
    BY <1>1, <1>2, <1>5, <2>1 DEF RegisteredPart, ClassThere, ChrdevThere, Unwinding
  <2>9. TransferPart(d)'
    BY <1>1, <1>2, <1>5, <2>1, <2>3, <2>4 DEF TransferPart, UnderWay, FilesThere, Disconnecting
  <2>10. CallPart(d)'
    BY <1>1, <1>2, <2>1 DEF CallPart
  <2> QED  BY <2>5, <2>6, <2>7, <2>8, <2>9, <2>10, OneLife
<1>6. CASE AllocUrbs(d) /\ pc'[d] # "class"
  <2>1. /\ pc[d] = "alloc_urbs" /\ pc'[d] = "failed" /\ failed' = failed \union {"urbs"}
        /\ UNCHANGED << data, buffers, structs >>
    BY <1>2, <1>6 DEF AllocUrbs, Goto, Fails, pointers, TypeOK
  <2>2. /\ pc[d] \notin UrbsThere /\ pc'[d] \notin Active
        /\ pc'[d] \notin StructThere /\ pc'[d] \notin UrbsThere /\ pc'[d] \notin BufferTried
    BY <2>1, PlacesTyped DEF UrbsThere
  <2>3. OwnPart(d)'
    BY <1>1, <1>2, <1>3, <2>1, <2>2 DEF OwnPart
  <2>4. StructPart(d)'
    BY <1>1, <1>2, <2>1, <2>2 DEF StructPart
  <2>5. BufferPart(d)'
    BY <1>1, <1>2, <2>1, <2>2 DEF BufferPart
  <2>6. RegisteredPart(d)'
    BY <1>1, <1>2, <2>1 DEF RegisteredPart, ClassThere, ChrdevThere, Unwinding
  <2>7. TransferPart(d)'
    BY <1>1, <1>2, <2>1, <2>2 DEF TransferPart, UnderWay, FilesThere, Disconnecting
  <2>8. CallPart(d)'
    BY <1>1, <1>2, <2>1 DEF CallPart
  <2> QED  BY <2>3, <2>4, <2>5, <2>6, <2>7, <2>8, OneLife
<1> QED  BY <1>4, <1>5, <1>6

LEMMA RegisterLife ==
  ASSUME NEW d, Devices = {d}, TypeOK, LifeInv,
         RegisterClass(d) \/ RegisterChrdev(d) \/ CreateDevice(d)
  PROVE  LifeInv'
<1>1. /\ OwnPart(d) /\ StructPart(d) /\ BufferPart(d) /\ RegisteredPart(d)
      /\ TransferPart(d) /\ CallPart(d)
  BY OneLife
<1>2. /\ UNCHANGED << own, deca_g, data, structs, buffers, files, call, from, probes >>
      /\ \/ pc[d] = "class" /\ RegisterClass(d)
         \/ pc[d] = "chrdev" /\ RegisterChrdev(d)
         \/ pc[d] = "device" /\ CreateDevice(d)
  BY DEF RegisterClass, RegisterChrdev, CreateDevice, pointers, heap, calls
<1>3. /\ pc[d] \in {"class", "chrdev", "device"}
      /\ pc'[d] \in {"chrdev", "device", "bound", "err_rx"}
      /\ failed \subseteq failed'
  BY <1>2 DEF RegisterClass, RegisterChrdev, CreateDevice, Goto, Fails, TypeOK
<1>4. /\ pc[d] \in Active /\ pc[d] \in StructThere /\ pc[d] \in UrbsThere /\ pc[d] \in BufferTried
      /\ pc'[d] \in Active /\ pc'[d] \in StructThere /\ pc'[d] \in UrbsThere /\ pc'[d] \in BufferTried
  BY <1>3 DEF Active, StructThere, UrbsThere, BufferTried, Probing, Unwinding
<1>5. OwnPart(d)'
  BY <1>1, <1>2, <1>3, <1>4 DEF OwnPart
<1>6. StructPart(d)'
  BY <1>1, <1>2, <1>3, <1>4 DEF StructPart
<1>7. BufferPart(d)'
  BY <1>1, <1>2, <1>3, <1>4 DEF BufferPart
<1>8. RegisteredPart(d)'
  <2>1. CASE pc[d] = "class" /\ RegisterClass(d)
    BY <1>1, <2>1 DEF RegisterClass, Goto, Fails, TypeOK, RegisteredPart, ClassThere, ChrdevThere, Unwinding
  <2>2. CASE pc[d] = "chrdev" /\ RegisterChrdev(d)
    BY <1>1, <2>2 DEF RegisterChrdev, Goto, Fails, TypeOK, RegisteredPart, ClassThere, ChrdevThere, Unwinding
  <2>3. CASE pc[d] = "device" /\ CreateDevice(d)
    BY <1>1, <2>3 DEF CreateDevice, Goto, Fails, TypeOK, RegisteredPart, ClassThere, ChrdevThere, Unwinding,
                      registered
  <2> QED  BY <1>2, <2>1, <2>2, <2>3
<1>9. TransferPart(d)'
  <2>1. /\ pc[d] \in FilesThere => pc'[d] \in FilesThere \/ "device" \in failed'
        /\ pc[d] \in {"device", "bound"} => pc'[d] \in {"device", "bound"} \/ "device" \in failed'
    BY <1>2, <1>3 DEF CreateDevice, Goto, Fails, TypeOK, FilesThere, Disconnecting
  <2> QED  BY <1>1, <1>2, <1>3, <1>4, <2>1 DEF TransferPart, UnderWay
<1>10. CallPart(d)'
  BY <1>1, <1>2, <1>3 DEF CallPart, Source, Live
<1> QED  BY <1>5, <1>6, <1>7, <1>8, <1>9, <1>10, OneLife

\* A transfer of one structure starts or ends, which it may do while probe is
\* undone and disconnect goes on.
LEMMA UpdateLife ==
  ASSUME NEW d, Devices = {d}, TypeOK, LifeInv,
         NEW s \in Ids, NEW st \in Structs, structs' = [structs EXCEPT ![s] = st],
         UNCHANGED << own, deca_g, data, buffers, class, chrdev, files, probes, failed >>,
         \A f \in Files :
           \/ call'[f] = call[f] /\ from'[f] = from[f]
           \/ call'[f] \notin Reading /\ call[f] # "none",
         s = own[d] => st.target \in {structs[s].target, data},
         structs[s].memory = "live", st.memory = "live", st.urbs = structs[s].urbs,
         pc' = pc \/ (s = own[d] /\ << pc[d], pc'[d] >> \in
                        {<< "err_rx", "err_tx" >>, << "err_tx", "err_free" >>, << "kill_rx", "kill_tx" >>,
                         << "kill_tx", "free_struct" >>, << "bound", "unregister_chrdev" >>}),
         s = own[d] => pc[d] \notin {"alloc_buffer", "alloc_urbs"},
         st.tx = "submitted" \/ st.rx = "submitted" =>
           (s = own[d] /\ pc'[d] \in {"device", "bound"}) \/ "device" \in failed,
         (s = own[d] /\ pc[d] \in UrbsThere /\ (st.rx = "submitted" \/ st.ready)) => st.target = data
  PROVE  LifeInv'
<1>1. /\ OwnPart(d) /\ StructPart(d) /\ BufferPart(d) /\ RegisteredPart(d)
      /\ TransferPart(d) /\ CallPart(d)
  BY OneLife
<1>2. structs'[s] = st /\ \A t \in Ids : t # s => structs'[t] = structs[t]
  BY DEF TypeOK
<1>5. ASSUME pc'[d] \notin {"alloc_buffer", "alloc_urbs"} \/ pc' = pc, pc'[d] = "failed" => pc[d] = "failed"
      PROVE  CallPart(d)'
  <2>1. \A f \in Files : call'[f] # "none" => files'[f] # NULL
    BY <1>1 DEF CallPart
  <2>2. ASSUME NEW f \in Files, call'[f] \in Reading, files[f] = own[d], own[d] # NULL
        PROVE  /\ pc[d] \notin {"alloc_buffer", "alloc_urbs"}
               /\ pc[d] # "failed" =>
                    Source(f)' = data /\ (Live(own[d])' => structs'[own[d]].target = data)
    <3>1. call'[f] = call[f] /\ from'[f] = from[f]
      BY <2>2
    <3>2. /\ pc[d] \notin {"alloc_buffer", "alloc_urbs"}
          /\ pc[d] # "failed" =>
               Source(f) = data /\ (Live(own[d]) => structs[own[d]].target = data)
      BY <1>1, <2>2, <3>1 DEF CallPart
    <3>3. Source(f)' = Source(f)
      BY <3>1 DEF Source
    <3>4. Live(own[d])' => Live(own[d]) /\ structs'[own[d]].target \in {structs[own[d]].target, data}
      <4>1. own[d] \in Ids
        BY <2>2 DEF TypeOK
      <4> QED  BY <1>2, <4>1 DEF Live
    <3> QED  BY <3>2, <3>3, <3>4
  <2> QED  BY <1>5, <2>1, <2>2 DEF CallPart
<1>3. CASE pc' = pc
  <2>1. OwnPart(d)'
    <3>1. ~(s > probes)
      BY <1>1 DEF OwnPart, NoStruct
    <3> QED  BY <1>1, <1>2, <1>3, <3>1 DEF OwnPart
  <2>2. StructPart(d)'
    BY <1>1, <1>2, <1>3 DEF StructPart
  <2>3. BufferPart(d)'
    BY <1>1, <1>3 DEF BufferPart
  <2>4. RegisteredPart(d)'
    BY <1>1, <1>3 DEF RegisteredPart
  <2>5. TransferPart(d)'
    BY <1>1, <1>2, <1>3 DEF TransferPart, UnderWay
  <2>6. CallPart(d)'
    BY <1>3, <1>5
  <2> QED  BY <2>1, <2>2, <2>3, <2>4, <2>5, <2>6, OneLife
<1>4. CASE pc' # pc
  <2>1. /\ s = own[d]
        /\ \/ pc[d] = "err_rx" /\ pc'[d] = "err_tx"
           \/ pc[d] = "err_tx" /\ pc'[d] = "err_free"
           \/ pc[d] = "kill_rx" /\ pc'[d] = "kill_tx"
           \/ pc[d] = "kill_tx" /\ pc'[d] = "free_struct"
           \/ pc[d] = "bound" /\ pc'[d] = "unregister_chrdev"
    BY <1>4
  <2>2. /\ pc[d] \in Active /\ pc[d] \in StructThere /\ pc[d] \in UrbsThere /\ pc[d] \in BufferTried
        /\ pc'[d] \in Active /\ pc'[d] \in StructThere /\ pc'[d] \in UrbsThere /\ pc'[d] \in BufferTried
    BY <2>1 DEF Active, StructThere, UrbsThere, BufferTried, Unwinding, Disconnecting
  <2>3. OwnPart(d)'
    <3>1. ~(s > probes)
      BY <1>1 DEF OwnPart, NoStruct
    <3> QED  BY <1>1, <1>2, <2>1, <2>2, <3>1 DEF OwnPart
  <2>4. StructPart(d)'
    BY <1>1, <1>2, <2>1, <2>2 DEF StructPart
  <2>5. BufferPart(d)'
    BY <1>1, <2>1, <2>2 DEF BufferPart
  <2>6. RegisteredPart(d)'
    BY <1>1, <2>1 DEF RegisteredPart, ClassThere, ChrdevThere, Unwinding
  <2>7. TransferPart(d)'
    <3>1. pc[d] \in FilesThere => pc'[d] \in FilesThere
      BY <2>1 DEF FilesThere, Disconnecting
    <3> QED  BY <1>1, <1>2, <2>1, <2>2, <3>1 DEF TransferPart, UnderWay
  <2>8. CallPart(d)'
    BY <1>5, <2>1
  <2> QED  BY <2>3, <2>4, <2>5, <2>6, <2>7, <2>8, OneLife
<1> QED  BY <1>3, <1>4

\* What the callbacks leave of a structure.
LEMMA CallbackFields ==
  ASSUME TypeOK, NEW s \in Ids
  PROVE  /\ TxCallback(s) \in Structs
         /\ TxCallback(s).memory = structs[s].memory /\ TxCallback(s).urbs = structs[s].urbs
         /\ TxCallback(s).ready = structs[s].ready /\ TxCallback(s).tx = "idle"
         /\ \/ TxCallback(s).rx = structs[s].rx /\ TxCallback(s).target = structs[s].target
            \/ EndpointsEnabled(s) /\ TxCallback(s).rx = "submitted" /\ TxCallback(s).target = data
         /\ \A st \in RxCallbacks(s) :
              /\ st \in Structs /\ st.memory = structs[s].memory /\ st.urbs = structs[s].urbs
              /\ st.tx = structs[s].tx /\ st.rx = "idle" /\ st.target = structs[s].target
<1>1. structs[s] \in Structs
  BY DEF TypeOK
<1>2. \A st \in RxCallbacks(s) :
        /\ st \in Structs /\ st.memory = structs[s].memory /\ st.urbs = structs[s].urbs
        /\ st.tx = structs[s].tx /\ st.rx = "idle" /\ st.target = structs[s].target
  <2> SUFFICES ASSUME NEW r \in {structs[s].ready, TRUE}
               PROVE  LET st == [structs[s] EXCEPT !.rx = "idle", !.ready = r] IN
                        /\ st \in Structs /\ st.memory = structs[s].memory /\ st.urbs = structs[s].urbs
                        /\ st.tx = structs[s].tx /\ st.rx = "idle" /\ st.target = structs[s].target
    BY DEF RxCallbacks
  <2> QED  BY <1>1 DEF Structs
<1>3. CASE EndpointsEnabled(s) /\ structs[s].rx = "idle"
  <2>1. TxCallback(s) = [structs[s] EXCEPT !.tx = "idle", !.rx = "submitted", !.target = data]
    BY <1>3 DEF TxCallback
  <2>2. /\ TxCallback(s).memory = structs[s].memory /\ TxCallback(s).urbs = structs[s].urbs
        /\ TxCallback(s).ready = structs[s].ready /\ TxCallback(s).tx = "idle"
        /\ TxCallback(s).rx = "submitted" /\ TxCallback(s).target = data
    BY <1>1, <2>1 DEF Structs
  <2> QED  BY <1>3, <1>2, <2>2, CallbacksTyped
<1>4. CASE ~(EndpointsEnabled(s) /\ structs[s].rx = "idle")
  <2>1. TxCallback(s) = [structs[s] EXCEPT !.tx = "idle"]
    BY <1>4 DEF TxCallback
  <2>2. /\ TxCallback(s).memory = structs[s].memory /\ TxCallback(s).urbs = structs[s].urbs
        /\ TxCallback(s).ready = structs[s].ready /\ TxCallback(s).tx = "idle"
        /\ TxCallback(s).rx = structs[s].rx /\ TxCallback(s).target = structs[s].target
    BY <1>1, <2>1 DEF Structs
  <2> QED  BY <1>2, <2>2, CallbacksTyped
<1> QED  BY <1>3, <1>4

LEMMA KillLife ==
  ASSUME NEW d, Devices = {d}, TypeOK, LifeInv, KillRx(d) \/ KillTx(d) \/ Unbind(d)
  PROVE  LifeInv'
<1>1. /\ OwnPart(d) /\ StructPart(d) /\ BufferPart(d) /\ RegisteredPart(d)
      /\ TransferPart(d) /\ CallPart(d)
  BY OneLife
<1>2. /\ UNCHANGED << own, deca_g, data, buffers, class, chrdev, files, call, from, probes, failed >>
      /\ pc[d] \in {"err_rx", "err_tx", "kill_rx", "kill_tx", "bound"}
  BY DEF KillRx, KillTx, Unbind, pointers, registered, calls, history
<1>3. /\ pc[d] \in Active /\ pc[d] \in StructThere /\ pc[d] \in UrbsThere
      /\ pc[d] \notin {"alloc_buffer", "alloc_urbs"}
  BY <1>2 DEF Active, StructThere, UrbsThere, Unwinding, Disconnecting
<1>4. /\ own[d] \in Ids /\ structs[own[d]] \in Structs /\ structs[own[d]].memory = "live"
  BY <1>1, <1>3, ActiveOwns DEF StructPart
<1>5. << pc[d], pc'[d] >> \in
        {<< "err_rx", "err_tx" >>, << "err_tx", "err_free" >>, << "kill_rx", "kill_tx" >>,
         << "kill_tx", "free_struct" >>, << "bound", "unregister_chrdev" >>}
  BY DEF KillRx, KillTx, Unbind, Goto, TypeOK
<1>6. pc[d] # "bound" /\ UnderWay(own[d]) => "device" \in failed
  BY <1>1, <1>2, <1>4 DEF TransferPart
<1>7. structs[own[d]].rx = "submitted" \/ structs[own[d]].ready => structs[own[d]].target = data
  BY <1>1, <1>3 DEF TransferPart
<1>8. structs' = structs => structs' = [structs EXCEPT ![own[d]] = structs[own[d]]]
  BY <1>4 DEF TypeOK
<1>9. CASE structs' = structs /\ ~Unbind(d)
  <2>1. pc[d] # "bound"
    BY <1>9 DEF KillRx, KillTx
  <2> QED  BY <1>2, <1>3, <1>4, <1>5, <1>6, <1>7, <1>8, <1>9, <2>1, UpdateLife DEF UnderWay
<1>10. CASE KillRx(d) /\ structs[own[d]].rx = "submitted"
  <2>1. PICK st \in RxCallbacks(own[d]) : structs' = [structs EXCEPT ![own[d]] = st]
    BY <1>10 DEF KillRx
  <2>2. pc[d] # "bound"
    BY <1>10 DEF KillRx
  <2>3. /\ st \in Structs /\ st.memory = "live" /\ st.urbs = structs[own[d]].urbs
        /\ st.tx = structs[own[d]].tx /\ st.rx = "idle" /\ st.target = data
    BY <1>4, <1>7, <1>10, CallbackFields
  <2>4. st.tx = "submitted" \/ st.rx = "submitted" => "device" \in failed
    BY <1>6, <2>2, <2>3 DEF UnderWay
  <2> QED  BY <1>2, <1>3, <1>4, <1>5, <2>1, <2>3, <2>4, UpdateLife
<1>11. CASE KillTx(d) /\ structs[own[d]].tx = "submitted"
  <2> DEFINE st == TxCallback(own[d])
  <2>1. structs' = [structs EXCEPT ![own[d]] = st] /\ pc[d] # "bound"
    BY <1>11 DEF KillTx
  <2>2. /\ st \in Structs /\ st.memory = "live" /\ st.urbs = structs[own[d]].urbs
        /\ st.rx = "submitted" \/ st.ready => st.target = data
        /\ st.target \in {structs[own[d]].target, data}
    BY <1>4, <1>7, CallbackFields
  <2>3. "device" \in failed
    BY <1>6, <1>11, <2>1 DEF UnderWay
  <2> HIDE DEF st
  <2> QED  BY <1>2, <1>3, <1>4, <1>5, <2>1, <2>2, <2>3, UpdateLife
<1>12. CASE Unbind(d)
  <2>1. PICK st0 \in {structs[own[d]]} \union
                     (IF structs[own[d]].rx = "submitted" THEN RxCallbacks(own[d]) ELSE {}) :
          structs' = [structs EXCEPT ![own[d]] = [st0 EXCEPT !.tx = "idle", !.rx = "idle"]]
    BY <1>12 DEF Unbind
  <2>2. /\ st0 \in Structs /\ st0.memory = "live" /\ st0.urbs = structs[own[d]].urbs
        /\ st0.ready => st0.target = data
        /\ st0.target \in {structs[own[d]].target, data}
    BY <1>4, <1>7, CallbackFields
  <2> DEFINE st == [st0 EXCEPT !.tx = "idle", !.rx = "idle"]
  <2>3. /\ st \in Structs /\ st.memory = "live" /\ st.urbs = structs[own[d]].urbs
        /\ st.ready => st.target = data
        /\ st.target \in {structs[own[d]].target, data}
        /\ st.tx = "idle" /\ st.rx = "idle"
    BY <2>2 DEF Structs
  <2>4. structs' = [structs EXCEPT ![own[d]] = st]
    BY <2>1
  <2> HIDE DEF st
  <2> QED  BY <1>2, <1>3, <1>4, <1>5, <2>3, <2>4, UpdateLife
<1> QED  BY <1>9, <1>10, <1>11, <1>12 DEF KillRx, KillTx

LEMMA FreeStructLife ==
  ASSUME NEW d, Devices = {d}, TypeOK, LifeInv, FreeStruct(d)
  PROVE  LifeInv'
<1>1. /\ OwnPart(d) /\ StructPart(d) /\ BufferPart(d) /\ RegisteredPart(d)
      /\ TransferPart(d) /\ CallPart(d)
  BY OneLife
<1>2. /\ UNCHANGED << own, deca_g, data, buffers, class, chrdev, files, call, from, probes, failed >>
      /\ \/ pc[d] = "err_free" /\ pc'[d] = "failed"
         \/ pc[d] = "free_struct" /\ pc'[d] = "free_data"
  BY DEF FreeStruct, pointers, registered, calls, history, Goto, TypeOK
<1>3. /\ pc[d] \in Active /\ pc[d] \in StructThere /\ pc[d] \in UrbsThere /\ pc[d] \in BufferTried
      /\ pc'[d] \notin StructThere /\ pc'[d] \notin UrbsThere
      /\ pc'[d] \in Active <=> pc'[d] = "free_data"
      /\ pc'[d] \in BufferTried <=> pc'[d] = "free_data"
  BY <1>2 DEF Active, StructThere, UrbsThere, BufferTried, Probing, Unwinding, Disconnecting
<1>4. /\ own[d] \in Ids /\ structs[own[d]] \in Structs /\ structs[own[d]].memory = "live"
  BY <1>1, <1>3, ActiveOwns DEF StructPart
<1>5. /\ structs'[own[d]] = [structs[own[d]] EXCEPT !.memory = "freed", !.urbs = FALSE]
      /\ \A s \in Ids : s # own[d] => structs'[s] = structs[s]
  BY <1>4 DEF FreeStruct, TypeOK
<1>6. /\ structs'[own[d]].memory = "freed" /\ ~structs'[own[d]].urbs
      /\ structs'[own[d]].tx = structs[own[d]].tx /\ structs'[own[d]].rx = structs[own[d]].rx
  BY <1>4, <1>5 DEF Structs
<1>7. OwnPart(d)'
  <2>1. ~(own[d] > probes)
    BY <1>1, <1>4 DEF OwnPart, NoStruct
  <2> QED  BY <1>1, <1>2, <1>3, <1>5, <2>1 DEF OwnPart
<1>8. StructPart(d)'
  BY <1>1, <1>2, <1>3, <1>5, <1>6 DEF StructPart
<1>9. RegisteredPart(d)'
  BY <1>1, <1>2 DEF RegisteredPart, ClassThere, ChrdevThere, Unwinding
<1>10. BufferPart(d)'
  <2>1. pc'[d] # "free_data" => failed \intersect {"urbs", "class", "chrdev", "device"} # {}
    BY <1>1, <1>2 DEF RegisteredPart, Unwinding
  <2> QED  BY <1>1, <1>2, <1>3, <2>1 DEF BufferPart
<1>11. TransferPart(d)'
  BY <1>1, <1>2, <1>3, <1>5, <1>6 DEF TransferPart, UnderWay, FilesThere, Disconnecting
<1>12. CallPart(d)'
  <2>1. ~Live(own[d])'
    BY <1>2, <1>6 DEF Live
  <2> QED  BY <1>1, <1>2, <2>1 DEF CallPart, Source
<1> QED  BY <1>7, <1>8, <1>9, <1>10, <1>11, <1>12, OneLife

LEMMA UnregisterLife ==
  ASSUME NEW d, Devices = {d}, TypeOK, LifeInv, UnregisterChrdev(d) \/ UnregisterClass(d)
  PROVE  LifeInv'
<1>1. /\ OwnPart(d) /\ StructPart(d) /\ BufferPart(d) /\ RegisteredPart(d)
      /\ TransferPart(d) /\ CallPart(d)
  BY OneLife
<1>2. /\ UNCHANGED << own, deca_g, data, structs, buffers, files, call, from, probes, failed >>
      /\ \/ /\ pc[d] = "unregister_chrdev" /\ pc'[d] = "unregister_class"
            /\ chrdev' = FALSE /\ class' = class
         \/ /\ pc[d] = "unregister_class" /\ pc'[d] = "kill_rx"
            /\ class' = FALSE /\ chrdev' = chrdev
  BY DEF UnregisterChrdev, UnregisterClass, pointers, heap, calls, history, Goto, TypeOK
<1>3. /\ pc[d] \in Active /\ pc[d] \in StructThere /\ pc[d] \in UrbsThere /\ pc[d] \in BufferTried
      /\ pc'[d] \in Active /\ pc'[d] \in StructThere /\ pc'[d] \in UrbsThere /\ pc'[d] \in BufferTried
  BY <1>2 DEF Active, StructThere, UrbsThere, BufferTried, Disconnecting
<1>4. OwnPart(d)'
  BY <1>1, <1>2, <1>3 DEF OwnPart
<1>5. StructPart(d)'
  BY <1>1, <1>2, <1>3 DEF StructPart
<1>6. BufferPart(d)'
  BY <1>1, <1>2, <1>3 DEF BufferPart
<1>7. RegisteredPart(d)'
  BY <1>1, <1>2 DEF RegisteredPart, ClassThere, ChrdevThere, Unwinding
<1>8. TransferPart(d)'
  <2>1. pc'[d] \in FilesThere /\ pc[d] \notin {"device", "bound"}
    BY <1>2 DEF FilesThere, Disconnecting
  <2> QED  BY <1>1, <1>2, <1>3, <2>1 DEF TransferPart, UnderWay
<1>9. CallPart(d)'
  BY <1>1, <1>2 DEF CallPart, Source, Live
<1> QED  BY <1>4, <1>5, <1>6, <1>7, <1>8, <1>9, OneLife

LEMMA GoneLife ==
  ASSUME NEW d, Devices = {d}, TypeOK, LifeInv, FreeData(d) \/ Unplug(d)
  PROVE  LifeInv'
<1>1. /\ OwnPart(d) /\ StructPart(d) /\ BufferPart(d) /\ RegisteredPart(d)
      /\ TransferPart(d) /\ CallPart(d)
  BY OneLife
<1>2. /\ UNCHANGED << deca_g, data, structs, class, chrdev, files, call, from, probes, failed >>
      /\ pc'[d] = "gone" /\ own'[d] = NULL
      /\ \/ pc[d] = "free_data" /\ \A b \in Ids : buffers'[b] = IF b = data THEN "freed" ELSE buffers[b]
         \/ pc[d] = "failed" /\ buffers' = buffers
  BY DEF FreeData, Unplug, pointers, heap, registered, calls, history, Goto, TypeOK
<1>3. /\ pc[d] \notin StructThere /\ pc[d] \notin UrbsThere
      /\ pc[d] = "free_data" => pc[d] \in Active /\ pc[d] \in BufferTried
      /\ pc[d] = "failed" => pc[d] \notin BufferTried
      /\ pc'[d] \notin Active /\ pc'[d] \notin StructThere /\ pc'[d] \notin UrbsThere
      /\ pc'[d] \notin BufferTried
  BY <1>2, PlacesTyped DEF Active, StructThere, UrbsThere, BufferTried, Disconnecting
<1>4. NULL <= probes /\ \A s \in Ids : s > probes => s # data \/ pc[d] # "free_data"
  <2>1. probes \in Nat
    BY DEF TypeOK
  <2>2. NULL <= probes
    BY <2>1 DEF NULL
  <2> QED  BY <1>1, <1>3, <2>1, <2>2, IdsTyped DEF OwnPart, BufferPart
<1>5. OwnPart(d)'
  BY <1>1, <1>2, <1>3, <1>4 DEF OwnPart
<1>6. StructPart(d)'
  BY <1>1, <1>2, <1>3 DEF StructPart
<1>7. BufferPart(d)'
  BY <1>1, <1>2, <1>3 DEF BufferPart
<1>8. RegisteredPart(d)'
  BY <1>1, <1>2 DEF RegisteredPart, ClassThere, ChrdevThere, Unwinding
<1>9. TransferPart(d)'
  BY <1>1, <1>2, <1>3 DEF TransferPart, UnderWay
<1>10. CallPart(d)'
  BY <1>1, <1>2 DEF CallPart
<1> QED  BY <1>5, <1>6, <1>7, <1>8, <1>9, <1>10, OneLife

LEMMA FileLife ==
  ASSUME NEW d, Devices = {d}, TypeOK, LifeInv, NEW f \in Files, Open(f) \/ Close(f)
  PROVE  LifeInv'
<1>1. /\ OwnPart(d) /\ StructPart(d) /\ BufferPart(d) /\ RegisteredPart(d)
      /\ TransferPart(d) /\ CallPart(d)
  BY OneLife
<1>2. /\ UNCHANGED << pc, own, deca_g, data, structs, buffers, class, chrdev, call, from, probes, failed >>
      /\ \A g \in Files : g # f => files'[g] = files[g]
      /\ \/ chrdev /\ files'[f] = deca_g
         \/ files'[f] = NULL
      /\ call[f] = "none"
  BY <1>1 DEF Open, Close, CallPart, pointers, heap, registered, calls, history, TypeOK
<1>3. NULL <= probes
  BY DEF TypeOK, NULL
<1>4. OwnPart(d)'
  BY <1>1, <1>2, <1>3 DEF OwnPart
<1>5. StructPart(d)' /\ BufferPart(d)' /\ RegisteredPart(d)'
  BY <1>1, <1>2 DEF StructPart, BufferPart, RegisteredPart
<1>6. TransferPart(d)'
  <2>1. chrdev => pc[d] \in FilesThere \/ "device" \in failed
    BY <1>1 DEF RegisteredPart, ChrdevThere, FilesThere, Disconnecting
  <2> QED  BY <1>1, <1>2, <2>1 DEF TransferPart, UnderWay
<1>7. CallPart(d)'
  BY <1>1, <1>2 DEF CallPart, Source, Live, Reading
<1> QED  BY <1>4, <1>5, <1>6, <1>7, OneLife

\* A call on a file begins, or goes on to the copy.
LEMMA CallLife ==
  ASSUME NEW d, Devices = {d}, TypeOK, LifeInv, NEW f \in Files,
         ReadCheck(f) \/ ReadCopy(f) \/ WriteCall(f)
  PROVE  LifeInv'
<1>1. /\ OwnPart(d) /\ StructPart(d) /\ BufferPart(d) /\ RegisteredPart(d)
      /\ TransferPart(d) /\ CallPart(d)
  BY OneLife
<1>2. /\ UNCHANGED << pc, own, deca_g, data, structs, buffers, class, chrdev, files, probes, failed >>
      /\ \A g \in Files : g # f => call'[g] = call[g] /\ from'[g] = from[g]
      /\ files[f] # NULL
  BY <1>1 DEF ReadCheck, ReadCopy, WriteCall, Enter, CallPart, TypeOK, pointers, heap, registered, history
<1>3. /\ OwnPart(d)' /\ StructPart(d)' /\ BufferPart(d)' /\ RegisteredPart(d)' /\ TransferPart(d)'
  BY <1>1, <1>2 DEF OwnPart, StructPart, BufferPart, RegisteredPart, TransferPart, UnderWay
<1>4. CASE ReadCheck(f)
  <2>1. call'[f] = "checked" /\ (Live(files[f]) => structs[files[f]].ready)
    BY <1>4 DEF ReadCheck, Enter, TypeOK
  <2>2. ASSUME files[f] = own[d], own[d] # NULL
        PROVE  /\ pc[d] \notin {"alloc_buffer", "alloc_urbs"}
               /\ pc[d] # "failed" => (Live(own[d]) => structs[own[d]].target = data)
    <3>1. own[d] \in Ids
      BY <2>2 DEF TypeOK
    <3>2. pc[d] \notin {"alloc_buffer", "alloc_urbs"}
      <4>1. pc[d] \in {"alloc_buffer", "alloc_urbs"} => pc[d] \in StructThere
        BY DEF StructThere, Active, Probing
      <4> QED  BY <1>1, <2>1, <2>2, <4>1 DEF StructPart, TransferPart, Live
    <3>3. ASSUME pc[d] # "failed", Live(own[d])
          PROVE  structs[own[d]].target = data
      <4>1. pc[d] \in Active
        <5>1. pc[d] \in Places
          BY DEF TypeOK
        <5> QED  BY <1>1, <2>2, <3>3, <5>1 DEF OwnPart, Places, Active
      <4>2. pc[d] # "free_data"
        BY <1>1, <2>1, <2>2, <3>1, <3>3, <4>1 DEF TransferPart, Live, StructPart
      <4>3. pc[d] \in UrbsThere
        BY <3>2, <4>1, <4>2 DEF UrbsThere, StructThere
      <4> QED  BY <1>1, <2>1, <2>2, <3>3, <4>3 DEF TransferPart
    <3> QED  BY <3>2, <3>3
  <2>3. CallPart(d)'
    BY <1>1, <1>2, <2>1, <2>2 DEF CallPart, Source, Live
  <2> QED  BY <1>3, <2>3, OneLife
<1>5. CASE ReadCopy(f)
  <2>1. call[f] = "checked" /\ call'[f] = "copying" /\ from'[f] = data
    BY <1>5 DEF ReadCopy, Enter, TypeOK
  <2>2. CallPart(d)'
    BY <1>1, <1>2, <2>1 DEF CallPart, Source, Live, Reading
  <2> QED  BY <1>3, <2>2, OneLife
<1>6. CASE WriteCall(f)
  <2>1. call'[f] = "get_user"
    BY <1>6 DEF WriteCall, Enter, TypeOK
  <2>2. CallPart(d)'
    BY <1>1, <1>2, <2>1 DEF CallPart, Source, Live, Reading
  <2> QED  BY <1>3, <2>2, OneLife
<1> QED  BY <1>4, <1>5, <1>6

\* A call ends, or a write has its count.
LEMMA UseLife ==
  ASSUME NEW d, Devices = {d}, TypeOK, LifeInv, NEW f \in Files,
         ReadDone(f) \/ WriteStore(f) \/ WriteSubmit(f)
  PROVE  LifeInv'
<1>1. /\ OwnPart(d) /\ StructPart(d) /\ BufferPart(d) /\ RegisteredPart(d)
      /\ TransferPart(d) /\ CallPart(d)
  BY OneLife
<1>2. UNCHANGED << pc, own, deca_g, data, buffers, class, chrdev, files, probes, failed >>
  BY DEF ReadDone, WriteStore, WriteSubmit, pointers, registered, history
<1>3. \A g \in Files :
        \/ call'[g] = call[g] /\ from'[g] = from[g]
        \/ call'[g] \notin Reading /\ call[g] # "none"
  BY DEF ReadDone, WriteStore, WriteSubmit, Enter, Reading, TypeOK
<1>4. CASE structs' = structs
  <2>1. /\ OwnPart(d)' /\ StructPart(d)' /\ BufferPart(d)' /\ RegisteredPart(d)' /\ TransferPart(d)'
    BY <1>1, <1>2, <1>4 DEF OwnPart, StructPart, BufferPart, RegisteredPart, TransferPart, UnderWay
  <2>2. CallPart(d)'
    BY <1>1, <1>2, <1>3, <1>4 DEF CallPart, Source, Live
  <2> QED  BY <2>1, <2>2, OneLife
<1>5. CASE structs' # structs
  <2> DEFINE s == files[f]
  <2>1. /\ s \in Ids /\ structs[s] \in Structs /\ structs[s].memory = "live"
        /\ \/ structs' = [structs EXCEPT ![s] = [structs[s] EXCEPT !.ready = FALSE]]
           \/ /\ structs' = [structs EXCEPT ![s] = [structs[s] EXCEPT !.tx = "submitted"]]
              /\ structs[s].urbs /\ EndpointsEnabled(s)
    BY <1>5 DEF ReadDone, WriteStore, WriteSubmit, ClearReady, Usable, Live, TypeOK
  <2>2. s = own[d] /\ (structs[s].urbs \/ structs[s].ready) => pc[d] \notin {"alloc_buffer", "alloc_urbs"}
    <3>1. "alloc_buffer" \notin UrbsThere /\ "alloc_urbs" \notin UrbsThere
      BY DEF UrbsThere
    <3> QED  BY <1>1, <2>1, <3>1 DEF StructPart, TransferPart
  <2>3. UnderWay(s) => (s = own[d] /\ pc[d] \in {"device", "bound"}) \/ "device" \in failed
    BY <1>1, <2>1 DEF TransferPart
  <2>4. s = own[d] /\ pc[d] \in UrbsThere /\ (structs[s].rx = "submitted" \/ structs[s].ready) =>
          structs[s].target = data
    BY <1>1 DEF TransferPart
  <2>5. CASE structs' = [structs EXCEPT ![s] = [structs[s] EXCEPT !.ready = FALSE]]
    <3> DEFINE st == [structs[s] EXCEPT !.ready = FALSE]
    <3>1. /\ st \in Structs /\ st.memory = "live" /\ st.urbs = structs[s].urbs /\ ~st.ready
          /\ st.tx = structs[s].tx /\ st.rx = structs[s].rx /\ st.target = structs[s].target
      BY <2>1 DEF Structs
    <3>2. structs[s].ready
      <4>1. ~structs[s].ready => st = structs[s]
        BY <2>1 DEF Structs
      <4>2. structs' = [structs EXCEPT ![s] = structs[s]] => structs' = structs
        BY <2>1 DEF TypeOK
      <4> QED  BY <1>5, <2>5, <4>1, <4>2
    <3>3. structs' = [structs EXCEPT ![s] = st]
      BY <2>5
    <3> HIDE DEF st, s
    <3>4. st.tx = "submitted" \/ st.rx = "submitted" =>
            (s = own[d] /\ pc'[d] \in {"device", "bound"}) \/ "device" \in failed
      BY <1>2, <2>3, <3>1 DEF UnderWay
    <3> QED  BY <1>2, <1>3, <2>1, <2>2, <2>4, <3>1, <3>2, <3>3, <3>4, UpdateLife
  <2>6. CASE /\ structs' = [structs EXCEPT ![s] = [structs[s] EXCEPT !.tx = "submitted"]]
             /\ structs[s].urbs /\ EndpointsEnabled(s)
    <3> DEFINE st == [structs[s] EXCEPT !.tx = "submitted"]
    <3>1. /\ st \in Structs /\ st.memory = "live" /\ st.urbs = structs[s].urbs
          /\ st.ready = structs[s].ready
          /\ st.rx = structs[s].rx /\ st.target = structs[s].target
      BY <2>1 DEF Structs
    <3>2. s = own[d] /\ own[d] # NULL
      BY <1>1, <2>1, <2>6, IdsTyped DEF StructPart
    <3>3. pc[d] \in {"device", "bound"} \/ "device" \in failed
      <4>1. pc[d] \in Probing \union Unwinding \union {"bound"}
        BY <2>6, <3>2 DEF EndpointsEnabled
      <4>2. pc[d] \in FilesThere \/ "device" \in failed
        BY <1>1, <3>2 DEF TransferPart
      <4> QED  BY <4>1, <4>2 DEF FilesThere, Probing, Unwinding, Disconnecting
    <3>4. structs' = [structs EXCEPT ![s] = st]
      BY <2>6
    <3> HIDE DEF st, s
    <3>5. (s = own[d] /\ pc'[d] \in {"device", "bound"}) \/ "device" \in failed
      BY <1>2, <3>2, <3>3
    <3>6. pc[d] \notin {"alloc_buffer", "alloc_urbs"}
      BY <2>2, <2>6, <3>2
    <3> QED  BY <1>2, <1>3, <2>1, <2>4, <3>1, <3>4, <3>5, <3>6, UpdateLife
  <2> QED  BY <2>1, <2>5, <2>6
<1> QED  BY <1>4, <1>5

LEMMA DoneLife ==
  ASSUME NEW d, Devices = {d}, TypeOK, LifeInv, NEW s \in Ids, TxDone(s) \/ RxDone(s)
  PROVE  LifeInv'
<1>1. /\ OwnPart(d) /\ StructPart(d) /\ BufferPart(d) /\ RegisteredPart(d)
      /\ TransferPart(d) /\ CallPart(d)
  BY OneLife
<1>2. /\ UNCHANGED << pc, own, deca_g, data, buffers, class, chrdev, files, call, from, probes, failed >>
      /\ structs[s].memory = "live" /\ UnderWay(s)
  BY DEF TxDone, RxDone, Live, UnderWay, pointers, registered, calls, history
<1>3. (s = own[d] /\ pc[d] \in {"device", "bound"}) \/ "device" \in failed
  BY <1>1, <1>2 DEF TransferPart
<1>4. s = own[d] => pc[d] \notin {"alloc_buffer", "alloc_urbs"}
  BY <1>1, <1>2 DEF TransferPart, UnderWay
<1>5. s = own[d] /\ pc[d] \in UrbsThere /\ (structs[s].rx = "submitted" \/ structs[s].ready) =>
        structs[s].target = data
  BY <1>1 DEF TransferPart
<1>6. CASE TxDone(s)
  <2> DEFINE st == TxCallback(s)
  <2>1. /\ structs' = [structs EXCEPT ![s] = st]
        /\ st \in Structs /\ st.memory = "live" /\ st.urbs = structs[s].urbs
        /\ st.target \in {structs[s].target, data}
        /\ s = own[d] /\ pc[d] \in UrbsThere /\ (st.rx = "submitted" \/ st.ready) => st.target = data
    BY <1>2, <1>5, <1>6, CallbackFields DEF TxDone
  <2> HIDE DEF st
  <2> QED  BY <1>2, <1>3, <1>4, <2>1, UpdateLife
<1>7. CASE RxDone(s)
  <2>1. PICK st \in RxCallbacks(s) : structs' = [structs EXCEPT ![s] = st]
    BY <1>7 DEF RxDone
  <2>2. /\ st \in Structs /\ st.memory = "live" /\ st.urbs = structs[s].urbs
        /\ st.rx = "idle" /\ st.target = structs[s].target
    BY <1>2, CallbackFields
  <2>3. structs[s].rx = "submitted"
    BY <1>7 DEF RxDone
  <2> QED  BY <1>2, <1>3, <1>4, <1>5, <2>1, <2>2, <2>3, UpdateLife
<1> QED  BY <1>6, <1>7

LEMMA NextLife ==
  ASSUME OneDevice
  PROVE  TypeOK /\ LifeInv /\ [Next]_vars => TypeOK' /\ LifeInv'
<1> SUFFICES ASSUME TypeOK, LifeInv, [Next]_vars
             PROVE  TypeOK' /\ LifeInv'
  OBVIOUS
<1>1. PICK d : Devices = {d}
  BY DEF OneDevice
<1>2. d \in Devices /\ OwnPart(d)
  BY <1>1, OneLife
<1>3. CASE UNCHANGED vars
  <2>1. UNCHANGED << pc, own, deca_g, data, structs, buffers, class, chrdev, files, call, from, probes, failed >>
    BY <1>3 DEF vars, pointers, heap, registered, calls, history
  <2> QED  BY <2>1 DEF TypeOK, LifeInv, OwnPart, StructPart, BufferPart, RegisteredPart,
                       TransferPart, UnderWay, CallPart, Source, Live
<1>4. CASE ProbeStep(d)
  BY <1>1, <1>2, <1>4, ProbeTypes, ProbeLife, AllocLife, RegisterLife DEF ProbeStep
<1>5. CASE UnwindStep(d)
  BY <1>1, <1>2, <1>5, UnwindTypes, KillLife, FreeStructLife DEF UnwindStep
<1>6. CASE DisconnectStep(d)
  BY <1>1, <1>2, <1>6, DisconnectTypes, KillLife, UnregisterLife, GoneLife DEF DisconnectStep
<1>7. CASE \E f \in Files : FileCall(f)
  BY <1>1, <1>7, UseTypes, FileLife, CallLife, UseLife DEF FileCall, Read, Write
<1>8. CASE \E s \in Ids : TxDone(s) \/ RxDone(s)
  BY <1>1, <1>8, UseTypes, DoneLife
<1> QED  BY <1>1, <1>3, <1>4, <1>5, <1>6, <1>7, <1>8 DEF Next

LEMMA LifeKept ==
  ASSUME OneDevice
  PROVE  Spec => [](TypeOK /\ LifeInv)
BY InitLife, NextLife, PTL DEF Spec

-----------------------------------------------------------------------------
\* While the device is bound, deca_g and data are its own, open hands out its
\* live structure, and the class and the major number are registered, whatever
\* probes have failed before and whatever files are open.
THEOREM BoundCorrect ==
  ASSUME OneDevice
  PROVE  Spec => []BoundIntact
<1>1. ASSUME TypeOK, LifeInv, NEW d \in Devices, pc[d] = "bound"
      PROVE  /\ class /\ chrdev /\ deca_g = own[d] /\ Usable(own[d])
             /\ \/ data = own[d] /\ buffers[data] = "live"
                \/ data = NULL /\ "buffer" \in failed
  <2>1. pc[d] \in Active /\ pc[d] \in StructThere /\ pc[d] \in UrbsThere /\ pc[d] \in BufferTried
        /\ pc[d] \in ClassThere /\ pc[d] \in ChrdevThere
    BY <1>1 DEF Active, StructThere, UrbsThere, BufferTried, ClassThere, ChrdevThere
  <2>2. OwnPart(d) /\ StructPart(d) /\ BufferPart(d) /\ RegisteredPart(d)
    BY <1>1 DEF LifeInv
  <2> QED  BY <2>1, <2>2 DEF OwnPart, StructPart, BufferPart, RegisteredPart, Usable, Live
<1>2. TypeOK /\ LifeInv => BoundIntact
  BY <1>1 DEF BoundIntact
<1> QED  BY <1>2, LifeKept, PTL

\* A transfer under way is of a live structure and into a live buffer, unless
\* device_create failed after a file was opened.
THEOREM TransfersCorrect ==
  ASSUME OneDevice
  PROVE  Spec => []TransfersLive
<1>1. ASSUME TypeOK, LifeInv, OneDevice, failed \intersect {"buffer", "device"} = {},
             NEW s \in Ids, UnderWay(s)
      PROVE  Usable(s) /\ (structs[s].rx = "submitted" => buffers[structs[s].target] = "live")
  <2>1. PICK d : Devices = {d}
    BY <1>1 DEF OneDevice
  <2>2. OwnPart(d) /\ StructPart(d) /\ BufferPart(d) /\ TransferPart(d)
    BY <1>1, <2>1, OneLife
  <2>3. s = own[d] /\ pc[d] \in {"device", "bound"} /\ "buffer" \notin failed
    BY <1>1, <2>2 DEF TransferPart
  <2>4. pc[d] \in StructThere /\ pc[d] \in UrbsThere /\ pc[d] \in BufferTried
    BY <2>3 DEF Active, StructThere, UrbsThere, BufferTried, Probing
  <2>5. Usable(s)
    BY <2>2, <2>3, <2>4, IdsTyped DEF StructPart, Usable, Live
  <2>6. structs[s].rx = "submitted" => buffers[structs[s].target] = "live"
    BY <2>2, <2>3, <2>4 DEF BufferPart, TransferPart
  <2> QED  BY <2>5, <2>6
<1>2. OneDevice /\ TypeOK /\ LifeInv => TransfersLive
  BY <1>1 DEF TransfersLive, UnderWay
<1> QED  BY <1>2, LifeKept, PTL

\* A deca_read that is past its checks, whether or not its copy_to_user has
\* begun, copies from the buffer of its structure, to which the answer was
\* written and which is there until the last kfree of disconnect.
THEOREM ReadsCorrect ==
  ASSUME OneDevice
  PROVE  Spec => []ReadsOwnAnswer
<1>1. ASSUME TypeOK, LifeInv, OneDevice, "buffer" \notin failed,
             NEW f \in Files, NEW d \in Devices, call[f] \in Reading,
             files[f] = own[d], own[d] # NULL, pc[d] # "failed"
      PROVE  /\ Source(f) = own[d] /\ buffers[own[d]] = "live"
             /\ Live(own[d]) => structs[own[d]].target = own[d]
  <2>1. Devices = {d}
    BY <1>1 DEF OneDevice
  <2>2. OwnPart(d) /\ BufferPart(d) /\ CallPart(d)
    BY <1>1, <2>1, OneLife
  <2>3. pc[d] \in BufferTried
    <3>1. pc[d] \in Places /\ pc[d] # "gone"
      BY <1>1, <2>2 DEF TypeOK, OwnPart
    <3> QED  BY <1>1, <2>2, <3>1 DEF CallPart, Places, Active, BufferTried
  <2> QED  BY <1>1, <2>2, <2>3 DEF BufferPart, CallPart
<1>2. OneDevice /\ TypeOK /\ LifeInv => ReadsOwnAnswer
  BY <1>1 DEF ReadsOwnAnswer
<1> QED  BY <1>2, LifeKept, PTL

\* Once the device is gone, nothing is left allocated or registered but what
\* the error path of deca_adcintf_probe does not undo.
THEOREM GoneCorrect ==
  ASSUME OneDevice
  PROVE  Spec => []NothingLeft
<1>1. ASSUME TypeOK, LifeInv, OneDevice, \A d \in Devices : pc[d] = "gone"
      PROVE  /\ (\E s \in Ids : structs[s].memory = "live") => "urbs" \in failed
             /\ (\E b \in Ids : buffers[b] = "live") =>
                  failed \intersect {"urbs", "class", "chrdev", "device"} # {}
             /\ class => failed \intersect {"chrdev", "device"} # {}
             /\ chrdev => "device" \in failed
  <2>1. PICK d : Devices = {d}
    BY <1>1 DEF OneDevice
  <2>2. StructPart(d) /\ BufferPart(d) /\ RegisteredPart(d)
    BY <1>1, <2>1, OneLife
  <2>3. pc[d] \notin StructThere /\ pc[d] \notin BufferTried /\ pc[d] \notin ClassThere
        /\ pc[d] \notin ChrdevThere
    BY <1>1, <2>1, PlacesTyped DEF ClassThere, ChrdevThere
  <2> QED  BY <2>2, <2>3 DEF StructPart, BufferPart, RegisteredPart
<1>2. OneDevice /\ TypeOK /\ LifeInv => NothingLeft
  BY <1>1 DEF NothingLeft
<1> QED  BY <1>2, LifeKept, PTL

\* As long as no allocation fails every probe succeeds, however often the
\* device is unplugged and whatever files are still open.
THEOREM ReplugCorrect ==
  ASSUME OneDevice
  PROVE  Spec => []ReplugBinds
<1>1. LifeInv => ReplugBinds
  BY DEF LifeInv, RegisteredPart, ReplugBinds
<1> QED  BY <1>1, LifeKept, PTL

\* deca_adcintf_disconnect frees a buffer that has not been freed.
THEOREM FreeCorrect ==
  ASSUME OneDevice
  PROVE  Spec => FreedOnce
<1>1. ASSUME LifeInv, NEW d \in Devices, FreeData(d)
      PROVE  data = NULL \/ buffers[data] = "live"
  <2>1. pc[d] = "free_data"
    BY <1>1 DEF FreeData
  <2>2. pc[d] \in BufferTried
    BY <2>1 DEF BufferTried, Active, Disconnecting
  <2> QED  BY <1>1, <2>2 DEF LifeInv, BufferPart
<1>2. TypeOK /\ LifeInv /\ [Next]_vars =>
        [\A d \in Devices : FreeData(d) => data = NULL \/ buffers[data] = "live"]_vars
  BY <1>1
<1> QED  BY <1>2, LifeKept, PTL DEF Spec, FreedOnce

\* The types of all that probe, disconnect, the files and the callbacks change.
THEOREM LifecycleTypes ==
  ASSUME OneDevice
  PROVE  Spec => []TypeOK
BY LifeKept, PTL

=============================================================================
