-------------------------- MODULE DriverLifecycle --------------------------
(***************************************************************************)
(* The life of the objects of driver/deca_adc_interface.c: probe, its error*)
(* path, disconnect, and the files, URBs and callbacks that use what they  *)
(* allocate.  The pointers deca_g and data are global, the class and the   *)
(* major number are the driver's, so devices and open files share them.    *)
(*                                                                         *)
(* A probe, a disconnect, a read and a write are sequences of steps, which *)
(* interleave with each other and with the callbacks: the driver takes no  *)
(* lock, and copy_to_user and get_user may sleep.  A call on a file goes on*)
(* on a structure that has been freed under it, what it finds there is     *)
(* arbitrary, and what it stores there is lost: freed memory is not handed *)
(* out again here.  The contents of a transfer are the subject of          *)
(* DecaDriver.                                                             *)
(*                                                                         *)
(* The driver has no resume method, so the USB core does not call suspend: *)
(* over a sleep of the system it unbinds the interface and binds it again, *)
(* which is Unbind and Probe here.                                         *)
(***************************************************************************)
EXTENDS Integers

CONSTANTS
  Devices,    \* ports with a device of the driver's id table
  Files,      \* open files, each used by one thread at a time
  MaxProbes   \* bound of the model: calls of deca_adcintf_probe

ASSUME LifecycleAssumption == MaxProbes \in Nat

VARIABLES
  pc,         \* where each device is in probe or disconnect
  own,        \* the structure its probe allocated, the local variable deca
  deca_g,     \* the global pointers
  data,
  structs,    \* struct deca_adcintf with its URBs, one for each probe
  buffers,    \* the buffers, one for each probe
  class,      \* deca_class is registered
  chrdev,     \* the major number is registered
  files,      \* private_data of each open file
  call,       \* where each open file is in a read or a write
  from,       \* the buffer that a read copies from
  probes,     \* probes so far
  failed      \* history: the allocations that have failed

pointers == << own, deca_g, data >>
heap == << structs, buffers >>
registered == << class, chrdev >>
calls == << call, from >>
history == << probes, failed >>
vars == << pc, pointers, heap, registered, files, calls, history >>

NULL == 0
Ids == 1 .. MaxProbes

\* The places at which a probe can run out of something.
Points == {"struct", "buffer", "urbs", "class", "chrdev", "device"}

Unwinding == {"err_rx", "err_tx", "err_free"}
Probing == {"alloc_buffer", "alloc_urbs", "class", "chrdev", "device"}
Disconnecting == {"unregister_chrdev", "unregister_class", "kill_rx", "kill_tx",
                  "free_struct", "free_data"}

\* kzalloc: the URB pointers are NULL, nothing is under way.
NoStruct == [memory |-> "none", urbs |-> FALSE, tx |-> "idle", rx |-> "idle",
             target |-> NULL, ready |-> FALSE]

Init ==
  /\ pc = [d \in Devices |-> "gone"]
  /\ own = [d \in Devices |-> NULL]
  /\ deca_g = NULL /\ data = NULL
  /\ structs = [s \in Ids |-> NoStruct]
  /\ buffers = [b \in Ids |-> "none"]
  /\ class = FALSE /\ chrdev = FALSE
  /\ files = [f \in Files |-> NULL]
  /\ call = [f \in Files |-> "none"]
  /\ from = [f \in Files |-> NULL]
  /\ probes = 0
  /\ failed = {}

Goto(d, label) == pc' = [pc EXCEPT ![d] = label]
Fails(point) == failed' = failed \union {point}

-----------------------------------------------------------------------------
(* deca_adcintf_probe *)

Probe(d) ==
  /\ pc[d] = "gone"
  /\ probes < MaxProbes
  /\ probes' = probes + 1
  /\ \/ /\ structs' = [structs EXCEPT ![probes'].memory = "live"]
        /\ own' = [own EXCEPT ![d] = probes']
        /\ deca_g' = probes'
        /\ Goto(d, "alloc_buffer")
        /\ UNCHANGED failed
     \/ /\ Fails("struct") /\ Goto(d, "failed")
        /\ UNCHANGED << structs, own, deca_g >>
  /\ UNCHANGED << data, buffers, registered, files, calls >>

\* Faulty variant: a failed allocation leaves the pointer as it was.
AllocBufferKeepsOld(d) ==
  /\ pc[d] = "alloc_buffer"
  /\ \/ /\ buffers' = [buffers EXCEPT ![own[d]] = "live"]
        /\ data' = own[d]
        /\ UNCHANGED failed
     \/ Fails("buffer") /\ UNCHANGED << data, buffers >>
  /\ Goto(d, "alloc_urbs")
  /\ UNCHANGED << own, deca_g, structs, registered, files, calls, probes >>

\* The result of kmalloc is not looked at.
AllocBuffer(d) ==
  /\ pc[d] = "alloc_buffer"
  /\ \/ /\ buffers' = [buffers EXCEPT ![own[d]] = "live"]
        /\ data' = own[d]
        /\ UNCHANGED failed
     \/ Fails("buffer") /\ data' = NULL /\ UNCHANGED buffers
  /\ Goto(d, "alloc_urbs")
  /\ UNCHANGED << own, deca_g, structs, registered, files, calls, probes >>

\* alloc_all_urbs, which frees what it has if it cannot have all; the probe
\* then returns and keeps the structure and the buffer.
AllocUrbs(d) ==
  /\ pc[d] = "alloc_urbs"
  /\ \/ /\ structs' = [structs EXCEPT ![own[d]].urbs = TRUE]
        /\ Goto(d, "class")
        /\ UNCHANGED failed
     \/ Fails("urbs") /\ Goto(d, "failed") /\ UNCHANGED structs
  /\ UNCHANGED << pointers, buffers, registered, files, calls, probes >>

\* A class, and a major number, can be registered once.
RegisterClass(d) ==
  /\ pc[d] = "class"
  /\ \/ ~class /\ class' = TRUE /\ Goto(d, "chrdev") /\ UNCHANGED failed
     \/ class /\ Goto(d, "err_rx") /\ UNCHANGED << class, failed >>
     \/ Fails("class") /\ Goto(d, "err_rx") /\ UNCHANGED class
  /\ UNCHANGED << pointers, heap, chrdev, files, calls, probes >>

\* Faulty variant: the result is not looked at.
RegisterChrdevUnchecked(d) ==
  /\ pc[d] = "chrdev"
  /\ \/ chrdev' = TRUE /\ UNCHANGED failed
     \/ Fails("chrdev") /\ UNCHANGED chrdev
  /\ Goto(d, "device")
  /\ UNCHANGED << pointers, heap, class, files, calls, probes >>

RegisterChrdev(d) ==
  /\ pc[d] = "chrdev"
  /\ \/ ~chrdev /\ chrdev' = TRUE /\ Goto(d, "device") /\ UNCHANGED failed
     \/ chrdev /\ Goto(d, "err_rx") /\ UNCHANGED << chrdev, failed >>
     \/ Fails("chrdev") /\ Goto(d, "err_rx") /\ UNCHANGED chrdev
  /\ UNCHANGED << pointers, heap, class, files, calls, probes >>

CreateDevice(d) ==
  /\ pc[d] = "device"
  /\ \/ Goto(d, "bound") /\ UNCHANGED failed
     \/ Fails("device") /\ Goto(d, "err_rx")
  /\ UNCHANGED << pointers, heap, registered, files, calls, probes >>

-----------------------------------------------------------------------------
(* Transfers.  A URB can be submitted while the USB core has not disabled   *)
(* the endpoints, which it does before it calls disconnect.                 *)

\* Faulty variant: soft_unbind is set, which leaves the endpoints enabled.
EndpointsSoftUnbind(s) ==
  \E d \in Devices : own[d] = s /\ pc[d] # "failed"

EndpointsEnabled(s) ==
  \E d \in Devices : own[d] = s /\ pc[d] \in Probing \union Unwinding \union {"bound"}

\* What tx_urb's callback makes of a structure: rx_urb is submitted, into the
\* buffer data points to.
TxCallback(s) ==
  IF EndpointsEnabled(s) /\ structs[s].rx = "idle"
    THEN [structs[s] EXCEPT !.tx = "idle", !.rx = "submitted", !.target = data]
    ELSE [structs[s] EXCEPT !.tx = "idle"]

\* And rx_urb's: ready is set if the length is as expected.
RxCallbacks(s) ==
  {[structs[s] EXCEPT !.rx = "idle", !.ready = r] : r \in {structs[s].ready, TRUE}}

Live(s) == s # NULL /\ structs[s].memory = "live"

TxDone(s) ==
  /\ Live(s) /\ structs[s].tx = "submitted"
  /\ structs' = [structs EXCEPT ![s] = TxCallback(s)]
  /\ UNCHANGED << pc, pointers, buffers, registered, files, calls, history >>

RxDone(s) ==
  /\ Live(s) /\ structs[s].rx = "submitted"
  /\ \E st \in RxCallbacks(s) : structs' = [structs EXCEPT ![s] = st]
  /\ UNCHANGED << pc, pointers, buffers, registered, files, calls, history >>

-----------------------------------------------------------------------------
(* unlink_all_urbs: usb_kill_urb ends a transfer and waits for its callback;*)
(* rx_urb comes first.  In the error path of probe, then in disconnect.     *)

KillRx(d) ==
  /\ pc[d] \in {"err_rx", "kill_rx"}
  /\ Goto(d, IF pc[d] = "err_rx" THEN "err_tx" ELSE "kill_tx")
  /\ IF structs[own[d]].rx = "submitted"
       THEN \E st \in RxCallbacks(own[d]) : structs' = [structs EXCEPT ![own[d]] = st]
       ELSE UNCHANGED structs
  /\ UNCHANGED << pointers, buffers, registered, files, calls, history >>

KillTx(d) ==
  /\ pc[d] \in {"err_tx", "kill_tx"}
  /\ Goto(d, IF pc[d] = "err_tx" THEN "err_free" ELSE "free_struct")
  /\ IF structs[own[d]].tx = "submitted"
       THEN structs' = [structs EXCEPT ![own[d]] = TxCallback(own[d])]
       ELSE UNCHANGED structs
  /\ UNCHANGED << pointers, buffers, registered, files, calls, history >>

\* Faulty variant: the buffer goes, and the structure stays.
FreeStructFreesData(d) ==
  /\ pc[d] \in {"err_free", "free_struct"}
  /\ buffers' = [b \in Ids |-> IF b = data THEN "freed" ELSE buffers[b]]
  /\ Goto(d, IF pc[d] = "err_free" THEN "failed" ELSE "free_data")
  /\ UNCHANGED << pointers, structs, registered, files, calls, history >>

\* free_all_urbs and kfree(deca).
FreeStruct(d) ==
  /\ pc[d] \in {"err_free", "free_struct"}
  /\ structs' = [structs EXCEPT ![own[d]].memory = "freed", ![own[d]].urbs = FALSE]
  /\ Goto(d, IF pc[d] = "err_free" THEN "failed" ELSE "free_data")
  /\ UNCHANGED << pointers, buffers, registered, files, calls, history >>

-----------------------------------------------------------------------------
(* deca_adcintf_disconnect *)

\* The device is unplugged or the system goes to sleep.  The USB core ends the
\* transfers of a driver and refuses new ones before it calls disconnect.
Unbind(d) ==
  /\ pc[d] = "bound"
  /\ Goto(d, "unregister_chrdev")
  /\ \E st \in {structs[own[d]]} \union
               (IF structs[own[d]].rx = "submitted" THEN RxCallbacks(own[d]) ELSE {}) :
       structs' = [structs EXCEPT ![own[d]] = [st EXCEPT !.tx = "idle", !.rx = "idle"]]
  /\ UNCHANGED << pointers, buffers, registered, files, calls, history >>

\* Faulty variant: the major number is kept.
UnregisterChrdevForgets(d) ==
  /\ pc[d] = "unregister_chrdev"
  /\ Goto(d, "unregister_class")
  /\ UNCHANGED << pointers, heap, registered, files, calls, history >>

\* device_destroy takes away the node, which open does not depend on.
UnregisterChrdev(d) ==
  /\ pc[d] = "unregister_chrdev"
  /\ chrdev' = FALSE
  /\ Goto(d, "unregister_class")
  /\ UNCHANGED << pointers, heap, class, files, calls, history >>

UnregisterClass(d) ==
  /\ pc[d] = "unregister_class"
  /\ class' = FALSE
  /\ Goto(d, "kill_rx")
  /\ UNCHANGED << pointers, heap, chrdev, files, calls, history >>

\* Faulty variant: the buffer is kept.
FreeDataForgets(d) ==
  /\ pc[d] = "free_data"
  /\ Goto(d, "gone")
  /\ own' = [own EXCEPT ![d] = NULL]
  /\ UNCHANGED << deca_g, data, heap, registered, files, calls, history >>

FreeData(d) ==
  /\ pc[d] = "free_data"
  /\ buffers' = [b \in Ids |-> IF b = data THEN "freed" ELSE buffers[b]]
  /\ Goto(d, "gone")
  /\ own' = [own EXCEPT ![d] = NULL]
  /\ UNCHANGED << deca_g, data, structs, registered, files, calls, history >>

\* A device whose probe failed has no driver: nothing is called.
Unplug(d) ==
  /\ pc[d] = "failed"
  /\ Goto(d, "gone")
  /\ own' = [own EXCEPT ![d] = NULL]
  /\ UNCHANGED << deca_g, data, heap, registered, files, calls, history >>

-----------------------------------------------------------------------------
(* The file operations *)

Open(f) ==
  /\ files[f] = NULL
  /\ chrdev
  /\ files' = [files EXCEPT ![f] = deca_g]
  /\ UNCHANGED << pc, pointers, heap, registered, calls, history >>

\* release waits for the calls on the file.
Close(f) ==
  /\ files[f] # NULL /\ call[f] = "none"
  /\ files' = [files EXCEPT ![f] = NULL]
  /\ UNCHANGED << pc, pointers, heap, registered, calls, history >>

Enter(f, stage) == call' = [call EXCEPT ![f] = stage]

Usable(s) == Live(s) /\ structs[s].urbs

ClearReady(s) ==
  structs' = IF Live(s) THEN [structs EXCEPT ![s].ready = FALSE] ELSE structs

-----------------------------------------------------------------------------
(* deca_read *)

\* The checks.  What a freed structure says of ready is arbitrary.
ReadCheck(f) ==
  /\ files[f] # NULL /\ call[f] = "none"
  /\ Live(files[f]) => structs[files[f]].ready
  /\ Enter(f, "checked")
  /\ UNCHANGED << pc, pointers, heap, registered, files, from, history >>

\* copy_to_user begins, with the buffer data points to by now.
ReadCopy(f) ==
  /\ call[f] = "checked"
  /\ Enter(f, "copying")
  /\ from' = [from EXCEPT ![f] = data]
  /\ UNCHANGED << pc, pointers, heap, registered, files, history >>

\* It ends; on -EFAULT the answer stays.
ReadDone(f) ==
  /\ call[f] = "copying"
  /\ Enter(f, "none")
  /\ from' = [from EXCEPT ![f] = NULL]
  /\ ClearReady(files[f]) \/ UNCHANGED structs
  /\ UNCHANGED << pc, pointers, buffers, registered, files, history >>

-----------------------------------------------------------------------------
(* deca_write *)

\* The checks, then get_user.
WriteCall(f) ==
  /\ files[f] # NULL /\ call[f] = "none"
  /\ Enter(f, "get_user")
  /\ UNCHANGED << pc, pointers, heap, registered, files, from, history >>

\* get_user has the count, or -EFAULT is returned.
WriteStore(f) ==
  /\ call[f] = "get_user"
  /\ \/ Enter(f, "sending") /\ ClearReady(files[f])
     \/ Enter(f, "none") /\ UNCHANGED structs
  /\ UNCHANGED << pc, pointers, buffers, registered, files, from, history >>

\* send_word_count.
WriteSubmit(f) ==
  /\ call[f] = "sending"
  /\ Enter(f, "none")
  /\ structs' = IF Usable(files[f]) /\ EndpointsEnabled(files[f])
                  THEN [structs EXCEPT ![files[f]].tx = "submitted"]
                  ELSE structs
  /\ UNCHANGED << pc, pointers, buffers, registered, files, from, history >>

-----------------------------------------------------------------------------
ProbeStep(d) ==
  \/ Probe(d)
  \/ AllocBuffer(d)
  \/ AllocUrbs(d)
  \/ RegisterClass(d)
  \/ RegisterChrdev(d)
  \/ CreateDevice(d)

DisconnectStep(d) ==
  \/ Unbind(d)
  \/ UnregisterChrdev(d)
  \/ UnregisterClass(d)
  \/ FreeData(d)
  \/ Unplug(d)

UnwindStep(d) == KillRx(d) \/ KillTx(d) \/ FreeStruct(d)

Read(f) == ReadCheck(f) \/ ReadCopy(f) \/ ReadDone(f)

Write(f) == WriteCall(f) \/ WriteStore(f) \/ WriteSubmit(f)

FileCall(f) == Open(f) \/ Close(f) \/ Read(f) \/ Write(f)

Next ==
  \/ \E d \in Devices : ProbeStep(d) \/ UnwindStep(d) \/ DisconnectStep(d)
  \/ \E f \in Files : FileCall(f)
  \/ \E s \in Ids : TxDone(s) \/ RxDone(s)

Spec == Init /\ [][Next]_vars

-----------------------------------------------------------------------------
Structs ==
  [memory : {"none", "live", "freed"}, urbs : BOOLEAN, tx : {"idle", "submitted"},
   rx : {"idle", "submitted"}, target : {NULL} \union Ids, ready : BOOLEAN]

Places == {"gone", "failed", "bound"} \union Probing \union Unwinding \union Disconnecting

Reading == {"checked", "copying"}

Stages == {"none", "get_user", "sending"} \union Reading

TypeOK ==
  /\ pc \in [Devices -> Places]
  /\ own \in [Devices -> {NULL} \union Ids]
  /\ deca_g \in {NULL} \union Ids /\ data \in {NULL} \union Ids
  /\ structs \in [Ids -> Structs]
  /\ buffers \in [Ids -> {"none", "live", "freed"}]
  /\ class \in BOOLEAN /\ chrdev \in BOOLEAN
  /\ files \in [Files -> {NULL} \union Ids]
  /\ call \in [Files -> Stages]
  /\ from \in [Files -> {NULL} \union Ids]
  /\ probes \in 0 .. MaxProbes
  /\ failed \subseteq Points

(***************************************************************************)
(* With one device, whatever probes have failed before: while it is bound, *)
(* the globals are its own, what open hands out is its live structure, the *)
(* class and the major number are registered, and the buffer is live unless*)
(* kmalloc failed.                                                         *)
(***************************************************************************)
BoundIntact ==
  \A d \in Devices : pc[d] = "bound" =>
    /\ class /\ chrdev
    /\ deca_g = own[d] /\ Usable(own[d])
    /\ \/ data = own[d] /\ buffers[data] = "live"
       \/ data = NULL /\ "buffer" \in failed

(***************************************************************************)
(* With one device: a transfer that is under way is of a live structure,   *)
(* which its callback uses, and into a live buffer; unless the device node *)
(* could not be created, when a file may have been opened before the probe *)
(* was undone.                                                             *)
(***************************************************************************)
UnderWay(s) == structs[s].tx = "submitted" \/ structs[s].rx = "submitted"
TransfersLive ==
  failed \intersect {"buffer", "device"} = {} =>
    \A s \in Ids :
      /\ UnderWay(s) => Usable(s)
      /\ structs[s].rx = "submitted" => buffers[structs[s].target] = "live"

(***************************************************************************)
(* With one device: a read that is past its checks, also one that sleeps in*)
(* copy_to_user, has the structure's own buffer before it, to which the    *)
(* answer was written, and the buffer is there up to the last kfree of a   *)
(* disconnect; unless kmalloc failed.                                      *)
(***************************************************************************)
Source(f) == IF call[f] = "copying" THEN from[f] ELSE data
ReadsOwnAnswer ==
  "buffer" \notin failed =>
    \A f \in Files, d \in Devices :
      /\ call[f] \in Reading
      /\ files[f] = own[d] /\ own[d] # NULL /\ pc[d] # "failed"
      => /\ Source(f) = own[d] /\ buffers[own[d]] = "live"
         /\ Live(own[d]) => structs[own[d]].target = own[d]

(***************************************************************************)
(* Once every device is gone, nothing is left but what the error path of   *)
(* probe does not undo.                                                    *)
(***************************************************************************)
NothingLeft ==
  (\A d \in Devices : pc[d] = "gone") =>
    /\ (\E s \in Ids : structs[s].memory = "live") => "urbs" \in failed
    /\ (\E b \in Ids : buffers[b] = "live") =>
         failed \intersect {"urbs", "class", "chrdev", "device"} # {}
    /\ class => failed \intersect {"chrdev", "device"} # {}
    /\ chrdev => "device" \in failed

(***************************************************************************)
(* With one device: as long as no allocation fails, every probe succeeds,  *)
(* whatever files are still open from before.                              *)
(***************************************************************************)
ReplugBinds ==
  failed = {} => \A d \in Devices : pc[d] \notin Unwinding \union {"failed"}

(***************************************************************************)
(* With one device: the buffer that disconnect frees has not been freed.   *)
(***************************************************************************)
FreedOnce ==
  [][\A d \in Devices : FreeData(d) => data = NULL \/ buffers[data] = "live"]_vars

-----------------------------------------------------------------------------
(* A disagreement with what the code expects of itself.                     *)

\* deca_read and deca_write refuse to run without a structure: a call that is
\* under way has one, as long as no allocation has failed.
CallsLive == failed = {} => \A f \in Files : call[f] # "none" => Live(files[f])

=============================================================================
