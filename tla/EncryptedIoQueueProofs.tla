------------------------ MODULE EncryptedIoQueueProofs ------------------------
(***************************************************************************)
(* Proofs about the encrypted I/O queue (EncryptedIoQueue), for a device   *)
(* of any size, any requests, any number of IRPs in flight, of pool        *)
(* buffers and of work items.                                              *)
(*                                                                         *)
(* The inductive invariant IInv follows an IRP on its way: which thread    *)
(* has it, that its fragments come one after the other and the one that    *)
(* completes it last (OrderInv, BeforeMainInv), who has a fragment buffer  *)
(* or a pool buffer, that each counter is the number of what it counts,    *)
(* and what the device, the fragments and the sender's data contain.       *)
(*                                                                         *)
(* The last section is about refinement: the queue implements a plain disk.*)
(***************************************************************************)
EXTENDS EncryptedIoQueue, FiniteSetTheorems, TLAPS

-----------------------------------------------------------------------------
(* The inductive invariant, in parts.                                      *)

IrpStates == {"free", "counted", "accepted", "queued", "item", "completed"}
MainPcs == {"wait", "next", "exited", "taken", "held", "item", "itemWait", "start",
            "request", "getRequest", "requestWait", "queueFlush", "queueFragment",
            "complete"}
IoPcs == {"wait", "next", "exited", "perform", "finish", "complete", "release",
          "readAhead", "readAheadDone"}
CompletionPcs == {"wait", "next", "exited", "decrypt", "complete", "release"}
WorkPcs == {"free", "completeItem", "completeIrp", "decrement", "signal", "return"}
HoldPcs == {"idle", "check", "wait", "recheck", "suspend", "verify", "held",
            "encrypted", "decrypted", "done"}
StopPcs == {"idle", "drain", "waitIdle", "stopMain", "joinMain", "stopIo", "joinIo",
            "stopCompletion", "joinCompletion", "resetActive", "testActive",
            "waitActive", "freed"}

Kinds == {"read", "write", "flush", "misaligned", "invalid"}
Sector == [value : Values \cup {NoValue}, layer : Int]
IrpRecord == [state : IrpStates, op : Ops, status : {"ok", "error"},
              data : [Sectors -> Sector], seen : [Sectors -> Values \cup {NoValue}]]

\* The shape of each variable, with no bound on a number.
IrpType == irp \in [Irps -> IrpRecord]
GateType ==
  gate \in [outstanding : Int, suspendPending : BOOLEAN, stopPending : BOOLEAN,
            suspended : BOOLEAN, noOutstandingIo : BOOLEAN, queueResumed : BOOLEAN,
            threadExit : BOOLEAN]
MainType ==
  main \in [queue : Seq(Irps), notEmpty : BOOLEAN, pc : MainPcs, irp : Irps \cup {NoIrp},
            sector : Sectors, buffer : Buffers, request : Requests]
IoType ==
  io \in [queue : Seq(Requests), notEmpty : BOOLEAN, pc : IoPcs, request : Requests,
          pending : Int]
CompletionType ==
  completion \in [queue : Seq(Requests), notEmpty : BOOLEAN, pc : CompletionPcs,
                  request : Requests]
PoolType == pool \in [items : Int, requests : Int, freed : BOOLEAN]
FragmentType == fragment \in [Buffers -> [free : BOOLEAN, content : Sector]]
CacheType == cache \in [valid : BOOLEAN, sector : Sectors, content : Sector]
WorkType == work \in [WorkItems -> [pc : WorkPcs, irp : Irps \cup {NoIrp}]]
ActiveType == active \in [count : Int, none : BOOLEAN, returning : Int]
DeviceType == device \in [Sectors -> Sector]
EndType == encryptedEnd \in {-1} \cup Sectors
HoldType == hold \in HoldPcs
StopType == stop \in StopPcs

Types ==
  /\ IrpType /\ GateType /\ MainType /\ IoType /\ CompletionType /\ PoolType
  /\ FragmentType /\ CacheType /\ WorkType /\ ActiveType /\ DeviceType /\ EndType
  /\ HoldType /\ StopType

-----------------------------------------------------------------------------

\* The flags of the queue and the control points that set them.
Stopped == {"stopMain", "joinMain", "stopIo", "joinIo", "stopCompletion",
            "joinCompletion", "resetActive", "testActive", "waitActive", "freed"}

GateInv ==
  /\ gate.suspended <=> IsHeld \/ hold = "verify"
  /\ gate.suspended => ~gate.queueResumed
  /\ hold # "idle" => ~gate.stopPending
  /\ gate.stopPending <=> stop # "idle"
  /\ gate.threadExit <=> stop \in Stopped
  /\ main.pc = "exited" => gate.threadExit
  /\ io.pc = "exited" => gate.threadExit
  /\ completion.pc = "exited" => gate.threadExit

\* What the holder converts is at the end of the area.
EndInv ==
  /\ hold = "encrypted" => encryptedEnd + 1 \in Sectors
  /\ hold = "decrypted" => encryptedEnd # -1

-----------------------------------------------------------------------------

\* An IRP with an item that is not handed to a work item yet.
InProgress(i) ==
  /\ i \in Irps /\ irp[i].state = "item"
  /\ \A k \in WorkItems : Completing(k) => work[k].irp # i

Kind(i) == irp[i].op.kind

IoBusy == io.pc \in {"perform", "finish", "complete"}
CompletionBusy == completion.pc \in {"decrypt", "complete"}
MainQueued == main.pc \in {"taken", "held", "item", "itemWait"}
MainRequesting ==
  main.pc \in {"request", "getRequest", "requestWait", "queueFlush", "queueFragment"}
MainHasItem == MainRequesting \/ main.pc \in {"start", "complete"}

\* The main thread: what it has in its hands and in its queue.
MainInv ==
  /\ ~(MainQueued \/ MainHasItem) => main.irp = NoIrp
  /\ MainQueued => main.irp \in Irps /\ irp[main.irp].state = "queued"
  /\ MainHasItem => InProgress(main.irp)
  /\ MainRequesting => Kind(main.irp) \in {"read", "write", "flush"}
  /\ MainRequesting /\ Kind(main.irp) # "flush" => main.sector \in irp[main.irp].op.sectors
  /\ main.pc = "queueFlush" => Kind(main.irp) = "flush"
  /\ main.pc = "queueFragment" => Kind(main.irp) # "flush"
  /\ \A n \in 1 .. Len(main.queue) :
       /\ irp[main.queue[n]].state = "queued"
       /\ MainQueued => main.queue[n] # main.irp
       /\ \A m \in 1 .. Len(main.queue) : main.queue[m] = main.queue[n] => m = n

\* The request the main thread is about to hand to the I/O thread.
RequestInv ==
  /\ main.pc = "queueFlush" =>
       main.request = [irp |-> main.irp, sector |-> 0, last |-> TRUE,
                       buffer |-> NoBuffer, encrypted |-> FALSE]
  /\ main.pc = "queueFragment" =>
       /\ main.request.buffer \in Buffers
       /\ main.request =
            [irp |-> main.irp, sector |-> main.sector,
             last |-> IsLast(main.sector, irp[main.irp].op.sectors),
             buffer |-> main.request.buffer,
             encrypted |-> InEncryptedArea(main.sector)]

\* A request that a thread is going to serve.
IoRequest(r) ==
  /\ InProgress(r.irp)
  /\ Kind(r.irp) \in {"read", "write", "flush"}
  /\ Kind(r.irp) = "flush" => r.last /\ r.buffer = NoBuffer
  /\ Kind(r.irp) # "flush" =>
       /\ r.buffer \in Buffers /\ r.sector \in irp[r.irp].op.sectors
       /\ r.encrypted = InEncryptedArea(r.sector)

CompletionRequest(r) == InProgress(r.irp) /\ Kind(r.irp) = "read"

\* The I/O thread and the completion thread serve IRPs that are in progress.
ServedInv ==
  /\ \A n \in 1 .. Len(io.queue) : IoRequest(io.queue[n])
  /\ IoBusy => IoRequest(io.request)
  /\ io.pc = "finish" => Kind(io.request.irp) # "flush"
  /\ io.pc = "complete" => io.request.last /\ Kind(io.request.irp) # "read"
  /\ \A n \in 1 .. Len(completion.queue) : CompletionRequest(completion.queue[n])
  /\ CompletionBusy => CompletionRequest(completion.request)
  /\ completion.pc = "complete" => completion.request.last

\* A work item completes an IRP that no other work item completes.
WorkInv ==
  \A k \in WorkItems : Completing(k) =>
    /\ work[k].irp \in Irps /\ irp[work[k].irp].state = "item"
    /\ \A j \in WorkItems : Completing(j) /\ work[j].irp = work[k].irp => j = k

-----------------------------------------------------------------------------

\* The fragments of an IRP follow each other, the one that completes it last.
Precedes(a, b) == a.irp = b.irp => ~a.last /\ a.sector < b.sector
InOrder(q) == \A m, n \in 1 .. Len(q) : m < n => Precedes(q[m], q[n])
PrecedesAll(a, q) == \A n \in 1 .. Len(q) : Precedes(a, q[n])

\* Whether the main thread is still to cut fragments that follow a.
BeforeMain(a) ==
  a.irp = main.irp => MainRequesting /\ ~a.last /\ a.sector < main.sector

OrderInv ==
  /\ InOrder(io.queue)
  /\ IoBusy => PrecedesAll(io.request, io.queue)
  /\ InOrder(completion.queue)
  /\ \A m \in 1 .. Len(completion.queue) :
       /\ PrecedesAll(completion.queue[m], io.queue)
       /\ IoBusy => Precedes(completion.queue[m], io.request)
  /\ CompletionBusy =>
       /\ PrecedesAll(completion.request, completion.queue)
       /\ PrecedesAll(completion.request, io.queue)
       /\ IoBusy => Precedes(completion.request, io.request)

BeforeMainInv ==
  /\ \A n \in 1 .. Len(io.queue) : BeforeMain(io.queue[n])
  /\ IoBusy => BeforeMain(io.request)
  /\ \A n \in 1 .. Len(completion.queue) : BeforeMain(completion.queue[n])
  /\ CompletionBusy => BeforeMain(completion.request)

-----------------------------------------------------------------------------

\* A fragment buffer is taken exactly while one request uses it.
IoHasBuffer == io.pc \in {"perform", "finish"}

BufferInv ==
  /\ \A n \in 1 .. Len(io.queue) :
       io.queue[n].buffer \in Buffers => ~fragment[io.queue[n].buffer].free
  /\ \A m, n \in 1 .. Len(io.queue) :
       io.queue[m].buffer \in Buffers /\ io.queue[m].buffer = io.queue[n].buffer => m = n
  /\ IoHasBuffer /\ io.request.buffer \in Buffers =>
       /\ ~fragment[io.request.buffer].free
       /\ \A n \in 1 .. Len(io.queue) : io.queue[n].buffer # io.request.buffer
  /\ \A b \in Buffers : ~fragment[b].free =>
       \/ IoHasBuffer /\ io.request.buffer = b
       \/ \E n \in 1 .. Len(io.queue) : io.queue[n].buffer = b

-----------------------------------------------------------------------------
(* The counters.                                                           *)

One(p) == IF p THEN 1 ELSE 0

\* IRPs that OutstandingIoCount counts.
IsCounted(i) ==
  \/ irp[i].state \in {"counted", "accepted", "queued"}
  \/ /\ irp[i].state = "item"
     /\ \A k \in WorkItems : work[k].pc = "completeIrp" => work[k].irp # i
Counted == {i \in Irps : IsCounted(i)}

ReadsAhead == One(io.pc \in {"readAhead", "readAheadDone"})
OutstandingInv == gate.outstanding = Cardinality(Counted) + ReadsAhead

IsActive(k) == work[k].pc \in {"completeItem", "completeIrp", "decrement"}
ActiveWork == {k \in WorkItems : IsActive(k)}
ActiveInv == active.count = Cardinality(ActiveWork)

MainCounts == One(main.pc \in {"getRequest", "requestWait", "queueFlush", "queueFragment"})
PendingInv == io.pending = Len(io.queue) + MainCounts

MainHolds == One(main.pc \in {"queueFlush", "queueFragment"})
IoHolds == One(IoBusy \/ io.pc = "release")
CompletionHolds == One(CompletionBusy \/ completion.pc = "release")
RequestPoolInv ==
  /\ pool.requests >= 0
  /\ RequestCount = pool.requests + Len(io.queue) + Len(completion.queue)
                      + MainHolds + IoHolds + CompletionHolds

ItemIrps == {i \in Irps : irp[i].state = "item"}
LateWork == {k \in WorkItems : work[k].pc \in {"decrement", "signal", "return"}}
ItemPoolInv ==
  /\ pool.items >= 0 /\ active.returning >= 0
  /\ ItemCount = pool.items + Cardinality(ItemIrps) + Cardinality(LateWork)
                   + active.returning

-----------------------------------------------------------------------------

\* Once the threads are told to exit only IRPs are left that AddIrp is about to
\* reject or whose completion routine runs; those are done when all is freed.
StopInv ==
  /\ gate.threadExit => \A i \in Counted : irp[i].state = "counted"
  /\ stop = "freed" => active.count = 0

-----------------------------------------------------------------------------
(* The contents.                                                           *)

Layer(s) == IF InEncryptedArea(s) THEN 1 ELSE 0

\* A write's fragment holds what is to be on the device.
WriteInv ==
  /\ \A n \in 1 .. Len(io.queue) : Kind(io.queue[n].irp) = "write" =>
       fragment[io.queue[n].buffer].content =
         [value |-> irp[io.queue[n].irp].op.value, layer |-> Layer(io.queue[n].sector)]
  /\ io.pc = "perform" /\ Kind(io.request.irp) = "write" =>
       fragment[io.request.buffer].content =
         [value |-> irp[io.request.irp].op.value, layer |-> Layer(io.request.sector)]

\* The read-ahead buffer agrees with the device until a write is finished.
CacheInv ==
  cache.valid =>
    \/ cache.content = device[cache.sector]
    \/ io.pc = "finish" /\ Kind(io.request.irp) = "write"

\* What the sender of IRP i will find where sector s was not decrypted too often.
Shows(i, s) == irp[i].data[s] = [value |-> irp[i].seen[s], layer |-> 0]

Fetched(r) ==
  irp[r.irp].data[r.sector] =
    [value |-> irp[r.irp].seen[r.sector], layer |-> One(r.encrypted)]

\* A sector that IRP i read is in a fragment, on its way through the completion
\* thread, or decrypted as often as it was encrypted.
ReadInv ==
  /\ io.pc = "finish" /\ Kind(io.request.irp) = "read"
       /\ irp[io.request.irp].status = "ok" =>
       fragment[io.request.buffer].content =
         [value |-> irp[io.request.irp].seen[io.request.sector],
          layer |-> One(io.request.encrypted)]
  /\ \A n \in 1 .. Len(completion.queue) :
       irp[completion.queue[n].irp].status = "ok" => Fetched(completion.queue[n])
  /\ completion.pc = "decrypt" /\ irp[completion.request.irp].status = "ok" =>
       Fetched(completion.request)
  /\ \A i \in Irps, s \in Sectors :
       irp[i].status = "ok" /\ Kind(i) \in {"read", "misaligned"} =>
         \/ Shows(i, s)
         \/ io.pc = "finish" /\ io.request.irp = i /\ io.request.sector = s
         \/ \E n \in 1 .. Len(completion.queue) :
              completion.queue[n].irp = i /\ completion.queue[n].sector = s
         \/ completion.pc = "decrypt" /\ completion.request.irp = i
              /\ completion.request.sector = s

\* The main thread is still to cut the fragment of sector s.
MainAhead(s) == main.pc = "start" \/ (MainRequesting /\ s >= main.sector)

\* A sector of IRP i that was not accessed yet is still to come.
AccessInv ==
  /\ \A n \in 1 .. Len(io.queue) :
       Kind(io.queue[n].irp) # "flush" =>
         irp[io.queue[n].irp].seen[io.queue[n].sector] = NoValue
  /\ io.pc = "perform" /\ Kind(io.request.irp) # "flush" =>
       irp[io.request.irp].seen[io.request.sector] = NoValue
  /\ \A s \in Sectors : MainAhead(s) => irp[main.irp].seen[s] = NoValue
  /\ \A i \in Irps, s \in Sectors :
       irp[i].state = "item" /\ irp[i].status = "ok" /\ s \in irp[i].op.sectors =>
         \/ irp[i].seen[s] # NoValue
         \/ MainAhead(s) /\ main.irp = i
         \/ io.pc = "perform" /\ io.request.irp = i /\ io.request.sector = s
         \/ \E n \in 1 .. Len(io.queue) : io.queue[n].irp = i /\ io.queue[n].sector = s

\* An IRP that nobody has sent, or that is not served yet, has no data.
FreshInv ==
  \A i \in Irps :
    /\ irp[i].state \in {"free", "counted", "accepted", "queued"} =>
         \A s \in Sectors : irp[i].seen[s] = NoValue /\ irp[i].data[s] = NoContent
    /\ irp[i].state \in {"counted", "accepted", "queued"} => irp[i].status = "ok"

\* A sector has a value and is encrypted once or not at all, wherever it is.
Content(c) == c.layer \in {0, 1}
ContentInv ==
  /\ \A s \in Sectors : device[s].value \in Values
  /\ \A b \in Buffers : Content(fragment[b].content)
  /\ Content(cache.content)
  /\ \A i \in Irps, s \in Sectors : Content(irp[i].data[s])

IInv ==
  /\ Types /\ GateInv /\ EndInv /\ MainInv /\ RequestInv /\ ServedInv /\ WorkInv
  /\ OrderInv /\ BeforeMainInv /\ BufferInv
  /\ OutstandingInv /\ ActiveInv /\ PendingInv /\ RequestPoolInv /\ ItemPoolInv
  /\ StopInv /\ HeldQueueIsQuiet /\ DiskMatchesArea
  /\ WriteInv /\ CacheInv /\ ReadInv /\ AccessInv /\ FreshInv /\ ContentInv

-----------------------------------------------------------------------------
(* Sequences.                                                              *)

\* The first element of a queue and the rest of it.
LEMMA HeadTail ==
  ASSUME NEW S, NEW q \in Seq(S), q # <<>>
  PROVE  /\ Head(q) \in S /\ Tail(q) \in Seq(S)
         /\ Len(q) \in Nat /\ Len(q) > 0 /\ Head(q) = q[1]
         /\ Len(Tail(q)) = Len(q) - 1
         /\ \A n \in 1 .. Len(Tail(q)) : n + 1 \in 1 .. Len(q) /\ Tail(q)[n] = q[n + 1]
  OBVIOUS

\* A queue with one more element at its end.
LEMMA AppendLast ==
  ASSUME NEW S, NEW q \in Seq(S), NEW e \in S
  PROVE  /\ Append(q, e) \in Seq(S) /\ Append(q, e) # <<>>
         /\ Len(q) \in Nat /\ Len(Append(q, e)) = Len(q) + 1
         /\ Append(q, e)[Len(q) + 1] = e
         /\ \A n \in 1 .. Len(q) : Append(q, e)[n] = q[n]
  OBVIOUS

LEMMA ElementType ==
  ASSUME NEW S, NEW q \in Seq(S), NEW n \in 1 .. Len(q)
  PROVE  q[n] \in S
  OBVIOUS

LEMMA SectorsAreIntegers == \A s \in Sectors : s \in Int /\ s >= 0
<1>1. PICK n \in Nat : Cardinality(Sectors) = n
  BY SectorsAssumption, FS_CardinalityType
<1> QED BY <1>1, SectorsAssumption

LEMMA OpFields ==
  ASSUME NEW o \in Ops
  PROVE  /\ o.sectors \subseteq Sectors /\ o.value \in Values
         /\ o.kind \in {"read", "write"} =>
              \E first, last \in Sectors : first <= last /\ o.sectors = first .. last
         /\ o.kind = "flush" => o.sectors = {}
<1>1. o \in [kind : {"read", "write", "flush", "misaligned", "invalid"},
             sectors : SUBSET Sectors, value : Values]
  BY OpsAssumption
<1> QED BY <1>1, OpsAssumption


-----------------------------------------------------------------------------
(* What the steps do to the IRPs, field by field.                          *)

\* A change of one IRP.
LEMMA IrpUpdate ==
  ASSUME IrpType, NEW i \in Irps, NEW x \in IrpRecord, irp' = [irp EXCEPT ![i] = x]
  PROVE  IrpType' /\ irp'[i] = x /\ \A j \in Irps : j # i => irp'[j] = irp[j]
  BY DEF IrpType

LEMMA IrpFields ==
  ASSUME IrpType, NEW i \in Irps
  PROVE  /\ irp[i] \in IrpRecord
         /\ irp[i].state \in IrpStates /\ irp[i].op \in Ops
         /\ irp[i].status \in {"ok", "error"}
         /\ irp[i].data \in [Sectors -> Sector]
         /\ irp[i].seen \in [Sectors -> Values \cup {NoValue}]
         /\ irp[i] = [state |-> irp[i].state, op |-> irp[i].op, status |-> irp[i].status,
                      data |-> irp[i].data, seen |-> irp[i].seen]
  BY DEF IrpType, IrpRecord

LEMMA NoContentType == NoContent \in Sector
  BY DEF NoContent, Sector

LEMMA FreshIrpType ==
  ASSUME NEW o \in Ops
  PROVE  FreshIrp(o) \in IrpRecord
  BY NoContentType DEF FreshIrp, IrpRecord, IrpStates

LEMMA FreeIrpFields ==
  /\ FreeIrp \in IrpRecord
  /\ FreeIrp.state = "free" /\ FreeIrp.status = "ok"
  /\ FreeIrp.data = [s \in Sectors |-> NoContent]
  /\ FreeIrp.seen = [s \in Sectors |-> NoValue]
<1> DEFINE o == CHOOSE o \in Ops : TRUE
<1>1. o \in Ops
  BY OpsAssumption
<1> HIDE DEF o
<1>2. FreeIrp = FreshIrp(o)
  BY DEF FreeIrp, o
<1> QED BY <1>1, <1>2, FreshIrpType DEF FreshIrp

LEMMA AddIrpEffect ==
  ASSUME Types, NEW i \in Irps, NEW o \in Ops, AddIrp(i, o)
  PROVE  /\ IrpType' /\ irp[i].state = "free"
         /\ \A j \in Irps : j # i => irp'[j] = irp[j]
         /\ irp'[i].state = "counted" /\ irp'[i].op = o /\ irp'[i].status = "ok"
         /\ irp'[i].data = [s \in Sectors |-> NoContent]
         /\ irp'[i].seen = [s \in Sectors |-> NoValue]
<1> DEFINE x == [FreshIrp(o) EXCEPT !.state = "counted"]
<1>1. x \in IrpRecord
  BY FreshIrpType DEF IrpRecord, IrpStates
<1>2. /\ x.state = "counted" /\ x.op = o /\ x.status = "ok"
      /\ x.data = [s \in Sectors |-> NoContent] /\ x.seen = [s \in Sectors |-> NoValue]
  BY DEF FreshIrp
<1>3. irp' = [irp EXCEPT ![i] = x] /\ irp[i].state = "free"
  BY DEF AddIrp
<1> HIDE DEF x
<1> QED BY <1>1, <1>2, <1>3, IrpUpdate DEF Types

\* A step that changes only the state and the status of an IRP.
LEMMA StateUpdate ==
  ASSUME IrpType, NEW i \in Irps, NEW st \in IrpStates, NEW res \in {"ok", "error"},
         irp' = [irp EXCEPT ![i].state = st, ![i].status = res]
  PROVE  /\ IrpType'
         /\ \A j \in Irps : j # i => irp'[j] = irp[j]
         /\ irp'[i].state = st /\ irp'[i].status = res /\ irp'[i].op = irp[i].op
         /\ irp'[i].data = irp[i].data /\ irp'[i].seen = irp[i].seen
<1> DEFINE x == [irp[i] EXCEPT !.state = st, !.status = res]
<1>1. irp[i] \in IrpRecord
  BY DEF IrpType
<1>2. x \in IrpRecord
  BY <1>1 DEF IrpRecord
<1>3. /\ x.state = st /\ x.status = res /\ x.op = irp[i].op /\ x.data = irp[i].data
      /\ x.seen = irp[i].seen
  BY <1>1 DEF IrpRecord
<1>4. irp' = [irp EXCEPT ![i] = x]
  BY DEF IrpType
<1> HIDE DEF x
<1> QED BY <1>2, <1>3, <1>4, IrpUpdate

\* The same where one of the two stays.
LEMMA OnlyState ==
  ASSUME IrpType, NEW i \in Irps, NEW st \in IrpStates, irp' = [irp EXCEPT ![i].state = st]
  PROVE  /\ IrpType'
         /\ \A j \in Irps : j # i => irp'[j] = irp[j]
         /\ irp'[i].state = st /\ irp'[i].status = irp[i].status /\ irp'[i].op = irp[i].op
         /\ irp'[i].data = irp[i].data /\ irp'[i].seen = irp[i].seen
<1>1. irp[i] \in IrpRecord
  BY DEF IrpType
<1>2. irp' = [irp EXCEPT ![i].state = st, ![i].status = irp[i].status]
  BY <1>1 DEF IrpType, IrpRecord
<1> QED BY <1>1, <1>2, StateUpdate, ZenonT(60) DEF IrpRecord

LEMMA OnlyStatus ==
  ASSUME IrpType, NEW i \in Irps, NEW res \in {"ok", "error"}, SetStatus(i, res)
  PROVE  /\ IrpType'
         /\ \A j \in Irps : j # i => irp'[j] = irp[j]
         /\ irp'[i].state = irp[i].state /\ irp'[i].status = res /\ irp'[i].op = irp[i].op
         /\ irp'[i].data = irp[i].data /\ irp'[i].seen = irp[i].seen
<1>1. irp[i] \in IrpRecord
  BY DEF IrpType
<1>2. irp' = [irp EXCEPT ![i].state = irp[i].state, ![i].status = res]
  BY <1>1 DEF IrpType, IrpRecord, SetStatus
<1> QED BY <1>1, <1>2, StateUpdate DEF IrpRecord

\* A step that changes only what IRP i holds and what it saw.
LEMMA DataUpdate ==
  ASSUME IrpType, NEW i \in Irps, NEW x,
         x = [irp[i] EXCEPT !.data = x.data, !.seen = x.seen],
         x.data \in [Sectors -> Sector], x.seen \in [Sectors -> Values \cup {NoValue}],
         irp' = [irp EXCEPT ![i] = x]
  PROVE  /\ IrpType'
         /\ \A j \in Irps : j # i => irp'[j] = irp[j]
         /\ irp'[i].state = irp[i].state /\ irp'[i].status = irp[i].status
         /\ irp'[i].op = irp[i].op /\ irp'[i].data = x.data /\ irp'[i].seen = x.seen
<1>1. irp[i] \in IrpRecord
  BY DEF IrpType
<1>2. x \in IrpRecord
  BY <1>1 DEF IrpRecord
<1>3. x.state = irp[i].state /\ x.status = irp[i].status /\ x.op = irp[i].op
  BY <1>1 DEF IrpRecord
<1> QED BY <1>2, <1>3, IrpUpdate

LEMMA SeenUpdate ==
  ASSUME IrpType, NEW i \in Irps, NEW s \in Sectors, NEW v \in Values \cup {NoValue},
         irp' = [irp EXCEPT ![i].seen[s] = v]
  PROVE  /\ IrpType'
         /\ \A j \in Irps : j # i => irp'[j] = irp[j]
         /\ irp'[i].state = irp[i].state /\ irp'[i].status = irp[i].status
         /\ irp'[i].op = irp[i].op /\ irp'[i].data = irp[i].data
         /\ irp'[i].seen = [irp[i].seen EXCEPT ![s] = v]
<1> DEFINE w == [irp[i].seen EXCEPT ![s] = v]
<1>1. irp[i] \in IrpRecord
  BY DEF IrpType
<1>2. irp[i].data \in [Sectors -> Sector] /\ w \in [Sectors -> Values \cup {NoValue}]
  BY <1>1 DEF IrpRecord
<1> DEFINE x == [irp[i] EXCEPT !.seen = w]
<1>3. irp' = [irp EXCEPT ![i] = x]
  BY <1>1 DEF IrpType, IrpRecord
<1>5. x.data = irp[i].data /\ x.seen = w /\ x = [irp[i] EXCEPT !.data = x.data, !.seen = x.seen]
  BY <1>1 DEF IrpRecord
<1> HIDE DEF w, x
<1>4. /\ IrpType' /\ irp'[i].seen = w
      /\ \A j \in Irps : j # i => irp'[j] = irp[j]
      /\ irp'[i].state = irp[i].state /\ irp'[i].status = irp[i].status
      /\ irp'[i].op = irp[i].op /\ irp'[i].data = irp[i].data
  BY <1>2, <1>3, <1>5, DataUpdate, ZenonT(60)
<1> QED BY <1>4 DEF w

LEMMA DataAtUpdate ==
  ASSUME IrpType, NEW i \in Irps, NEW s \in Sectors, NEW c \in Sector,
         irp' = [irp EXCEPT ![i].data[s] = c]
  PROVE  /\ IrpType'
         /\ \A j \in Irps : j # i => irp'[j] = irp[j]
         /\ irp'[i].state = irp[i].state /\ irp'[i].status = irp[i].status
         /\ irp'[i].op = irp[i].op /\ irp'[i].seen = irp[i].seen
         /\ irp'[i].data = [irp[i].data EXCEPT ![s] = c]
<1> DEFINE d == [irp[i].data EXCEPT ![s] = c]
<1>1. irp[i] \in IrpRecord
  BY DEF IrpType
<1>2. d \in [Sectors -> Sector] /\ irp[i].seen \in [Sectors -> Values \cup {NoValue}]
  BY <1>1 DEF IrpRecord
<1> DEFINE x == [irp[i] EXCEPT !.data = d]
<1>3. irp' = [irp EXCEPT ![i] = x]
  BY <1>1 DEF IrpType, IrpRecord
<1>5. x.seen = irp[i].seen /\ x.data = d /\ x = [irp[i] EXCEPT !.data = x.data, !.seen = x.seen]
  BY <1>1 DEF IrpRecord
<1> HIDE DEF d, x
<1>4. /\ IrpType' /\ irp'[i].data = d
      /\ \A j \in Irps : j # i => irp'[j] = irp[j]
      /\ irp'[i].state = irp[i].state /\ irp'[i].status = irp[i].status
      /\ irp'[i].op = irp[i].op /\ irp'[i].seen = irp[i].seen
  BY <1>2, <1>3, <1>5, DataUpdate
<1> QED BY <1>4 DEF d

\* Encrypting and decrypting a sector change its layers.
LEMMA Layers ==
  ASSUME NEW c \in Sector
  PROVE  /\ c.value \in Values \cup {NoValue} /\ c.layer \in Int
         /\ c = [value |-> c.value, layer |-> c.layer]
         /\ Encrypt(c) = [value |-> c.value, layer |-> c.layer + 1] /\ Encrypt(c) \in Sector
         /\ Decrypt(c) = [value |-> c.value, layer |-> c.layer - 1] /\ Decrypt(c) \in Sector
<1>1. c.value \in Values \cup {NoValue} /\ c.layer \in Int
      /\ c = [value |-> c.value, layer |-> c.layer]
  BY DEF Sector
<1>2. PICK n \in Int : n = c.layer + 1
  BY <1>1
<1>3. PICK m \in Int : m = c.layer - 1
  BY <1>1
<1>4. Encrypt(c) = [c EXCEPT !.layer = n] /\ Decrypt(c) = [c EXCEPT !.layer = m]
  BY <1>2, <1>3 DEF Encrypt, Decrypt
<1>5. [c EXCEPT !.layer = n] = [value |-> c.value, layer |-> n]
  BY DEF Sector
<1>6. [c EXCEPT !.layer = m] = [value |-> c.value, layer |-> m]
  BY DEF Sector
<1>7. [value |-> c.value, layer |-> n] \in Sector /\ [value |-> c.value, layer |-> m] \in Sector
  BY <1>1 DEF Sector
<1> QED BY <1>1, <1>2, <1>3, <1>4, <1>5, <1>6, <1>7

\* What a read of the device finds when it is decrypted as the area says.
MisalignedData(i) ==
  [s \in Sectors |-> IF s \notin irp[i].op.sectors THEN NoContent
                     ELSE IF InEncryptedArea(s) THEN Decrypt(device[s]) ELSE device[s]]
MisalignedSeen(i) ==
  [s \in Sectors |-> IF s \in irp[i].op.sectors THEN device[s].value ELSE NoValue]

LEMMA MainReadMisalignedEffect ==
  ASSUME Types, MainInv, MainReadMisaligned
  PROVE  LET i == main.irp IN
         /\ IrpType' /\ i \in Irps
         /\ \A j \in Irps : j # i => irp'[j] = irp[j]
         /\ irp'[i].state = irp[i].state /\ irp'[i].status = irp[i].status
         /\ irp'[i].op = irp[i].op /\ irp'[i].data = MisalignedData(i)
         /\ irp'[i].seen = MisalignedSeen(i)
<1> DEFINE i == main.irp
           d == MisalignedData(i)
           v == MisalignedSeen(i)
<1>1. i \in Irps
  BY DEF MainInv, MainReadMisaligned, MainHasItem, InProgress
<1>2. \A s \in Sectors : device[s] \in Sector
  BY DEF Types, DeviceType
<1>3. d \in [Sectors -> Sector]
  BY <1>2, Layers, NoContentType DEF MisalignedData
<1>4. v \in [Sectors -> Values \cup {NoValue}]
  BY <1>2, Layers DEF MisalignedSeen
<1> DEFINE x == [irp[i] EXCEPT !.data = d, !.seen = v]
<1>5. irp' = [irp EXCEPT ![i] = x]
  BY DEF MainReadMisaligned, MisalignedData, MisalignedSeen
<1> HIDE DEF d, v
<1>7. x.data = d /\ x.seen = v /\ x = [irp[i] EXCEPT !.data = x.data, !.seen = x.seen]
  BY <1>1 DEF IrpRecord, Types, IrpType
<1> HIDE DEF x, i
<1>6. /\ IrpType'
      /\ \A j \in Irps : j # i => irp'[j] = irp[j]
      /\ irp'[i].state = irp[i].state /\ irp'[i].status = irp[i].status
      /\ irp'[i].op = irp[i].op /\ irp'[i].data = d /\ irp'[i].seen = v
  BY <1>1, <1>3, <1>4, <1>5, <1>7, DataUpdate DEF Types
<1> QED BY <1>1, <1>6 DEF d, v, i

\* The fields of a request, and of the request in the hands of a busy thread.
LEMMA RequestFields ==
  ASSUME NEW r \in Requests
  PROVE  /\ r.irp \in Irps \cup {NoIrp} /\ r.sector \in Sectors /\ r.last \in BOOLEAN
         /\ r.buffer \in Buffers \cup {NoBuffer} /\ r.encrypted \in BOOLEAN
  BY DEF Requests

LEMMA BusyIrps ==
  ASSUME Types, ServedInv
  PROVE  /\ io.request \in Requests /\ completion.request \in Requests
         /\ IoBusy => io.request.irp \in Irps
         /\ CompletionBusy => completion.request.irp \in Irps
  BY DEF Types, ServedInv, IoType, CompletionType, IoRequest, CompletionRequest, InProgress

LEMMA IoWriteEffect ==
  ASSUME Types, ServedInv, IoWrite
  PROVE  LET i == io.request.irp IN
         /\ IrpType' /\ i \in Irps
         /\ \A j \in Irps : j # i => irp'[j] = irp[j]
         /\ irp'[i].state = irp[i].state /\ irp'[i].status = irp[i].status
         /\ irp'[i].op = irp[i].op /\ irp'[i].data = irp[i].data
         /\ irp'[i].seen = [irp[i].seen EXCEPT ![io.request.sector] = irp[i].op.value]
<1>1. io.request.irp \in Irps /\ io.request.sector \in Sectors
  BY BusyIrps, RequestFields DEF IoWrite, IoBusy
<1>2. irp[io.request.irp].op.value \in Values \cup {NoValue}
  BY <1>1, IrpFields, OpFields DEF Types
<1>3. irp' = [irp EXCEPT ![io.request.irp].seen[io.request.sector] =
                irp[io.request.irp].op.value]
  BY DEF IoWrite
<1> DEFINE i == io.request.irp
           s == io.request.sector
           v == irp[i].op.value
<1>4. IrpType /\ i \in Irps /\ s \in Sectors /\ v \in Values \cup {NoValue}
      /\ irp' = [irp EXCEPT ![i].seen[s] = v]
  BY <1>1, <1>2, <1>3 DEF Types
<1> HIDE DEF s, v
<1>5. /\ IrpType'
      /\ \A j \in Irps : j # i => irp'[j] = irp[j]
      /\ irp'[i].state = irp[i].state /\ irp'[i].status = irp[i].status
      /\ irp'[i].op = irp[i].op /\ irp'[i].data = irp[i].data
      /\ irp'[i].seen = [irp[i].seen EXCEPT ![s] = v]
  <2> HIDE DEF i
  <2> QED BY <1>4, SeenUpdate
<1> QED BY <1>4, <1>5 DEF s, v

LEMMA IoReadEffect ==
  ASSUME Types, ServedInv, IoRead
  PROVE  LET i == io.request.irp IN
         /\ IrpType' /\ i \in Irps
         /\ \A j \in Irps : j # i => irp'[j] = irp[j]
         /\ irp'[i].state = irp[i].state /\ irp'[i].status = irp[i].status
         /\ irp'[i].op = irp[i].op /\ irp'[i].data = irp[i].data
         /\ irp'[i].seen =
              [irp[i].seen EXCEPT ![io.request.sector] = device[io.request.sector].value]
<1>1. io.request.irp \in Irps /\ io.request.sector \in Sectors
  BY BusyIrps, RequestFields DEF IoRead, IoBusy
<1>2. device[io.request.sector].value \in Values \cup {NoValue}
  BY <1>1, Layers DEF Types, DeviceType
<1>3. irp' = [irp EXCEPT ![io.request.irp].seen[io.request.sector] =
                device[io.request.sector].value]
  BY DEF IoRead
<1> DEFINE i == io.request.irp
           s == io.request.sector
           v == device[s].value
<1>4. IrpType /\ i \in Irps /\ s \in Sectors /\ v \in Values \cup {NoValue}
      /\ irp' = [irp EXCEPT ![i].seen[s] = v]
  BY <1>1, <1>2, <1>3 DEF Types
<1> HIDE DEF s, v
<1>5. /\ IrpType'
      /\ \A j \in Irps : j # i => irp'[j] = irp[j]
      /\ irp'[i].state = irp[i].state /\ irp'[i].status = irp[i].status
      /\ irp'[i].op = irp[i].op /\ irp'[i].data = irp[i].data
      /\ irp'[i].seen = [irp[i].seen EXCEPT ![s] = v]
  <2> HIDE DEF i
  <2> QED BY <1>4, SeenUpdate
<1> QED BY <1>4, <1>5 DEF s, v

LEMMA IoFinishReadEffect ==
  ASSUME Types, ServedInv, BufferInv, IoFinishRead
  PROVE  LET i == io.request.irp IN
         /\ IrpType' /\ i \in Irps
         /\ \A j \in Irps : j # i => irp'[j] = irp[j]
         /\ irp'[i].state = irp[i].state /\ irp'[i].status = irp[i].status
         /\ irp'[i].op = irp[i].op /\ irp'[i].seen = irp[i].seen
         /\ irp'[i].data =
              IF irp[i].status = "ok"
              THEN [irp[i].data EXCEPT ![io.request.sector] =
                      fragment[io.request.buffer].content]
              ELSE irp[i].data
<1>1. io.request.irp \in Irps /\ io.request.sector \in Sectors
  BY BusyIrps, RequestFields DEF IoFinishRead, IoBusy
<1>2. io.request.buffer \in Buffers
  BY <1>1 DEF ServedInv, IoRequest, IoFinishRead, IoBusy, IoKind, Kind
<1>3. fragment[io.request.buffer].content \in Sector
  BY <1>2 DEF Types, FragmentType
<1>4. CASE irp[io.request.irp].status = "ok"
  <2>1. irp' = [irp EXCEPT ![io.request.irp].data[io.request.sector] =
                  fragment[io.request.buffer].content]
    BY <1>4 DEF IoFinishRead
  <2>2. PICK c \in Sector : c = fragment[io.request.buffer].content
    BY <1>3
  <2>3. irp' = [irp EXCEPT ![io.request.irp].data[io.request.sector] = c]
    BY <2>1, <2>2
  <2> DEFINE i == io.request.irp
             s == io.request.sector
  <2> HIDE DEF i, s
  <2>4. /\ IrpType'
        /\ \A j \in Irps : j # i => irp'[j] = irp[j]
        /\ irp'[i].state = irp[i].state /\ irp'[i].status = irp[i].status
        /\ irp'[i].op = irp[i].op /\ irp'[i].seen = irp[i].seen
        /\ irp'[i].data = [irp[i].data EXCEPT ![s] = c]
    BY <1>1, <2>3, DataAtUpdate DEF Types, i, s
  <2> QED BY <1>1, <1>4, <2>2, <2>4 DEF i, s
<1>5. CASE irp[io.request.irp].status # "ok"
  <2>1. irp' = irp
    BY <1>5 DEF IoFinishRead
  <2> QED BY <1>1, <1>5, <2>1 DEF Types, IrpType
<1> QED BY <1>4, <1>5

LEMMA CompletionDecryptEffect ==
  ASSUME Types, ServedInv, CompletionDecrypt
  PROVE  LET i == completion.request.irp
             s == completion.request.sector
         IN
         /\ IrpType' /\ i \in Irps
         /\ \A j \in Irps : j # i => irp'[j] = irp[j]
         /\ irp'[i].state = irp[i].state /\ irp'[i].status = irp[i].status
         /\ irp'[i].op = irp[i].op /\ irp'[i].seen = irp[i].seen
         /\ irp'[i].data =
              IF completion.request.encrypted /\ irp[i].status = "ok"
              THEN [irp[i].data EXCEPT ![s] = Decrypt(irp[i].data[s])]
              ELSE irp[i].data
<1> DEFINE i == completion.request.irp
           s == completion.request.sector
<1>1. i \in Irps /\ s \in Sectors
  BY BusyIrps, RequestFields DEF CompletionDecrypt, CompletionBusy
<1>2. irp[i].data[s] \in Sector
  BY <1>1, IrpFields DEF Types
<1>3. PICK c \in Sector : c = Decrypt(irp[i].data[s])
  BY <1>2, Layers
<1>4. CASE completion.request.encrypted /\ irp[i].status = "ok"
  <2>1. irp' = [irp EXCEPT ![i].data[s] = c]
    BY <1>4, <1>3 DEF CompletionDecrypt
  <2> HIDE DEF i, s
  <2>2. /\ IrpType'
        /\ \A j \in Irps : j # i => irp'[j] = irp[j]
        /\ irp'[i].state = irp[i].state /\ irp'[i].status = irp[i].status
        /\ irp'[i].op = irp[i].op /\ irp'[i].seen = irp[i].seen
        /\ irp'[i].data = [irp[i].data EXCEPT ![s] = c]
    BY <1>1, <2>1, DataAtUpdate DEF Types
  <2> QED BY <1>1, <1>3, <1>4, <2>2 DEF i, s
<1>5. CASE ~(completion.request.encrypted /\ irp[i].status = "ok")
  <2>1. irp' = irp
    BY <1>5 DEF CompletionDecrypt
  <2> QED BY <1>1, <1>5, <2>1 DEF Types, IrpType
<1> QED BY <1>4, <1>5

-----------------------------------------------------------------------------
(* What the parts that several handlers share do, field by field.          *)

SameFlags ==
  /\ gate'.suspendPending = gate.suspendPending /\ gate'.stopPending = gate.stopPending
  /\ gate'.suspended = gate.suspended /\ gate'.queueResumed = gate.queueResumed
  /\ gate'.threadExit = gate.threadExit

LEMMA DecrementEffect ==
  ASSUME GateType, DecrementOutstandingIoCount
  PROVE  GateType' /\ SameFlags /\ gate'.outstanding = gate.outstanding - 1
<1>1. PICK n \in Int : n = gate.outstanding - 1
  BY DEF GateType
<1>2. PICK b \in BOOLEAN :
        b = (gate.noOutstandingIo \/ (gate.outstanding = 1
                                      /\ (gate.suspendPending \/ gate.stopPending)))
  OBVIOUS
<1>3. gate' = [gate EXCEPT !.outstanding = n, !.noOutstandingIo = b]
  BY <1>1, <1>2 DEF DecrementOutstandingIoCount
<1> QED BY <1>1, <1>3 DEF GateType, SameFlags

LEMMA IncrementEffect ==
  ASSUME GateType, gate' = CountReadAhead
  PROVE  /\ GateType' /\ SameFlags /\ gate'.outstanding = gate.outstanding + 1
         /\ gate'.noOutstandingIo = gate.noOutstandingIo
<1>1. PICK n \in Int : n = gate.outstanding + 1
  BY DEF GateType
<1>2. gate' = [gate EXCEPT !.outstanding = n]
  BY <1>1 DEF CountReadAhead
<1> QED BY <1>1, <1>2 DEF GateType, SameFlags

LEMMA QueueEffect ==
  ASSUME WorkType, ActiveType, NEW i \in Irps, QueueIrpCompletion(i)
  PROVE  /\ WorkType' /\ ActiveType'
         /\ \E k \in WorkItems :
              /\ work[k].pc = "free" /\ work'[k].pc = "completeItem" /\ work'[k].irp = i
              /\ \A j \in WorkItems : j # k => work'[j] = work[j]
         /\ active'.count = active.count + 1 /\ active'.returning = active.returning
<1>1. PICK k \in WorkItems :
        work[k].pc = "free" /\ work' = [work EXCEPT ![k] = [pc |-> "completeItem", irp |-> i]]
  BY DEF QueueIrpCompletion
<1>2. WorkType' /\ work'[k] = [pc |-> "completeItem", irp |-> i]
      /\ \A j \in WorkItems : j # k => work'[j] = work[j]
  BY <1>1 DEF WorkType, WorkPcs
<1>3. PICK n \in Int : n = active.count + 1
  BY DEF ActiveType
<1>4. active' = [active EXCEPT !.count = n, !.none = FALSE]
  BY <1>3 DEF QueueIrpCompletion
<1>5. ActiveType' /\ active'.count = n /\ active'.returning = active.returning
  BY <1>3, <1>4 DEF ActiveType
<1> QED BY <1>1, <1>2, <1>3, <1>5

LEMMA ReleaseEffect ==
  ASSUME PoolType, ReleaseRequest
  PROVE  PoolType' /\ pool'.requests = pool.requests + 1 /\ pool'.items = pool.items
<1>1. PICK n \in Int : n = pool.requests + 1
  BY DEF PoolType
<1>2. pool' = [pool EXCEPT !.requests = n, !.freed = TRUE]
  BY <1>1 DEF ReleaseRequest
<1> QED BY <1>1, <1>2 DEF PoolType

LEMMA ReleaseItemEffect ==
  ASSUME Types, WorkReleaseItem
  PROVE  /\ PoolType' /\ pool'.items = pool.items + 1 /\ pool'.requests = pool.requests
         /\ ActiveType' /\ active'.returning = active.returning - 1
         /\ active'.count = active.count /\ active.returning > 0
<1>1. PICK n \in Int : n = pool.items + 1
  BY DEF PoolType, Types
<1>2. pool' = [pool EXCEPT !.items = n, !.freed = TRUE]
  BY <1>1 DEF WorkReleaseItem
<1>3. PICK m \in Int : m = active.returning - 1
  BY DEF ActiveType, Types
<1>4. active' = [active EXCEPT !.returning = m] /\ active.returning > 0
  BY <1>3 DEF WorkReleaseItem
<1> QED BY <1>1, <1>2, <1>3, <1>4 DEF PoolType, ActiveType, Types

LEMMA NoRequestType == NoRequest \in Requests /\ 0 \in Sectors
<1>1. PICK n \in Nat : Cardinality(Sectors) = n
  BY SectorsAssumption, FS_CardinalityType
<1>2. 0 \in Sectors
  BY <1>1, SectorsAssumption
<1> QED BY <1>2 DEF NoRequest, Requests

\* The main thread is done with an IRP that it cut into requests.
LEMMA MainIdleEffect ==
  ASSUME MainType, main' = MainIdle
  PROVE  /\ MainType' /\ main'.pc = "next" /\ main'.irp = NoIrp
         /\ main'.queue = main.queue /\ main'.buffer = main.buffer
         /\ main'.notEmpty = main.notEmpty
<1>1. PICK z \in Sectors : z = 0
  BY NoRequestType
<1>2. main' = [main EXCEPT !.pc = "next", !.irp = NoIrp, !.sector = z, !.request = NoRequest]
  BY <1>1 DEF MainIdle
<1> QED BY <1>2, NoRequestType DEF MainType, MainPcs

LEMMA IoIdleEffect ==
  ASSUME IoType, io' = IoIdle
  PROVE  /\ IoType' /\ io'.pc = "next" /\ io'.queue = io.queue /\ io'.pending = io.pending
         /\ io'.notEmpty = io.notEmpty
  BY NoRequestType DEF IoType, IoPcs, IoIdle

LEMMA EnqueueRequestEffect ==
  ASSUME Types, EnqueueRequest
  PROVE  /\ IoType' /\ io'.queue = Append(io.queue, main.request) /\ io'.pc = io.pc
         /\ io'.request = io.request /\ io'.pending = io.pending
         /\ main.request \in Requests /\ io.queue \in Seq(Requests)
<1>1. main.request \in Requests /\ io.queue \in Seq(Requests)
  BY DEF Types, MainType, IoType
<1>2. PICK q \in Seq(Requests) : q = Append(io.queue, main.request)
  BY <1>1, AppendLast
<1>3. io' = [io EXCEPT !.queue = q, !.notEmpty = TRUE]
  BY <1>2 DEF EnqueueRequest
<1> QED BY <1>1, <1>2, <1>3 DEF Types, IoType

LEMMA FreeFragmentEffect ==
  ASSUME FragmentType, NEW b \in Buffers, fragment' = FreeFragment(b)
  PROVE  /\ FragmentType' /\ fragment'[b].free
         /\ \A c \in Buffers : c # b => fragment'[c] = fragment[c]
  BY NoContentType DEF FragmentType, FreeFragment

\* The other fragment buffer is one of the two.
LEMMA OtherBufferType ==
  ASSUME Types
  PROVE  OtherBuffer \in Buffers /\ OtherBuffer # main.buffer
<1>1. main.buffer \in Buffers
  BY DEF Types, MainType
<1>2. CASE \E b \in Buffers : b # main.buffer
  BY <1>2 DEF OtherBuffer
<1>3. CASE \A b \in Buffers : b = main.buffer
  <2>1. Buffers = {main.buffer}
    BY <1>1, <1>3
  <2>2. Cardinality({main.buffer}) = 1
    BY FS_Singleton
  <2> QED BY <2>1, <2>2, BuffersAssumption
<1> QED BY <1>2, <1>3

-----------------------------------------------------------------------------
(* What the steps that move IRPs and requests do, field by field.          *)

LEMMA EnqueueIrpEffect ==
  ASSUME Types, NEW i \in Irps, EnqueueIrp(i)
  PROVE  /\ MainType' /\ main'.queue = Append(main.queue, i) /\ main'.pc = main.pc
         /\ main'.irp = main.irp /\ main'.sector = main.sector
         /\ main'.request = main.request /\ main'.buffer = main.buffer
         /\ main.queue \in Seq(Irps)
<1>1. main.queue \in Seq(Irps)
  BY DEF Types, MainType
<1>2. PICK q \in Seq(Irps) : q = Append(main.queue, i)
  BY <1>1, AppendLast
<1>3. main' = [main EXCEPT !.queue = q, !.notEmpty = TRUE]
  BY <1>2 DEF EnqueueIrp
<1> QED BY <1>1, <1>2, <1>3 DEF Types, MainType

\* The main thread takes the IRP that has waited longest.
LEMMA MainNextEffect ==
  ASSUME Types, MainNext
  PROVE  /\ MainType'
         /\ main'.request = main.request /\ main'.sector = main.sector
         /\ \/ /\ main.queue = <<>> /\ main'.queue = main.queue /\ main'.irp = main.irp
               /\ main'.pc = IF gate.threadExit THEN "exited" ELSE "wait"
            \/ /\ main.queue # <<>> /\ main'.queue = Tail(main.queue)
               /\ main'.irp = Head(main.queue) /\ main'.pc = "taken"
               /\ main'.irp \in Irps
<1>1. main.queue \in Seq(Irps)
  BY DEF Types, MainType
<1>2. CASE main.queue = <<>>
  <2>1. PICK p \in {"exited", "wait"} : p = IF gate.threadExit THEN "exited" ELSE "wait"
    OBVIOUS
  <2>2. main' = [main EXCEPT !.pc = p]
    BY <1>2, <2>1 DEF MainNext
  <2> QED BY <1>2, <2>1, <2>2 DEF Types, MainType, MainPcs
<1>3. CASE main.queue # <<>>
  <2>1. PICK q \in Seq(Irps), i \in Irps : q = Tail(main.queue) /\ i = Head(main.queue)
    BY <1>1, <1>3, HeadTail
  <2>2. main' = [main EXCEPT !.queue = q, !.irp = i, !.pc = "taken"]
    BY <1>3, <2>1 DEF MainNext
  <2> QED BY <1>3, <2>1, <2>2 DEF Types, MainType, MainPcs
<1> QED BY <1>2, <1>3

LEMMA IoNextEffect ==
  ASSUME Types, IoNext
  PROVE  /\ IoType' /\ io.queue \in Seq(Requests)
         /\ \/ /\ io.queue = <<>> /\ io'.queue = io.queue /\ io'.request = io.request
               /\ io'.pending = io.pending
               /\ io'.pc = IF gate.threadExit THEN "exited" ELSE "wait"
            \/ /\ io.queue # <<>> /\ io'.queue = Tail(io.queue)
               /\ io'.request = Head(io.queue) /\ io'.pc = "perform"
               /\ io'.pending = io.pending - 1
<1>1. io.queue \in Seq(Requests)
  BY DEF Types, IoType
<1>2. CASE io.queue = <<>>
  <2>1. PICK p \in {"exited", "wait"} : p = IF gate.threadExit THEN "exited" ELSE "wait"
    OBVIOUS
  <2>2. io' = [io EXCEPT !.pc = p]
    BY <1>2, <2>1 DEF IoNext
  <2> QED BY <1>1, <1>2, <2>1, <2>2 DEF Types, IoType, IoPcs
<1>3. CASE io.queue # <<>>
  <2>1. PICK q \in Seq(Requests), r \in Requests : q = Tail(io.queue) /\ r = Head(io.queue)
    BY <1>1, <1>3, HeadTail
  <2>2. PICK n \in Int : n = io.pending - 1
    BY DEF Types, IoType
  <2>3. io' = [io EXCEPT !.queue = q, !.request = r, !.pending = n, !.pc = "perform"]
    BY <1>3, <2>1, <2>2 DEF IoNext
  <2> QED BY <1>1, <1>3, <2>1, <2>2, <2>3 DEF Types, IoType, IoPcs
<1> QED BY <1>2, <1>3

LEMMA CompletionNextEffect ==
  ASSUME Types, CompletionNext
  PROVE  /\ CompletionType' /\ completion.queue \in Seq(Requests)
         /\ \/ /\ completion.queue = <<>> /\ completion'.queue = completion.queue
               /\ completion'.request = completion.request
               /\ completion'.pc = IF gate.threadExit THEN "exited" ELSE "wait"
            \/ /\ completion.queue # <<>> /\ completion'.queue = Tail(completion.queue)
               /\ completion'.request = Head(completion.queue) /\ completion'.pc = "decrypt"
<1>1. completion.queue \in Seq(Requests)
  BY DEF Types, CompletionType
<1>2. CASE completion.queue = <<>>
  <2>1. PICK p \in {"exited", "wait"} : p = IF gate.threadExit THEN "exited" ELSE "wait"
    OBVIOUS
  <2>2. completion' = [completion EXCEPT !.pc = p]
    BY <1>2, <2>1 DEF CompletionNext
  <2> QED BY <1>1, <1>2, <2>1, <2>2 DEF Types, CompletionType, CompletionPcs
<1>3. CASE completion.queue # <<>>
  <2>1. PICK q \in Seq(Requests), r \in Requests :
          q = Tail(completion.queue) /\ r = Head(completion.queue)
    BY <1>1, <1>3, HeadTail
  <2>2. completion' = [completion EXCEPT !.queue = q, !.request = r, !.pc = "decrypt"]
    BY <1>3, <2>1 DEF CompletionNext
  <2> QED BY <1>1, <1>3, <2>1, <2>2 DEF Types, CompletionType, CompletionPcs
<1> QED BY <1>2, <1>3

\* A read or a write starts at the first of its sectors.
LEMMA FirstSector ==
  ASSUME NEW o \in Ops, o.kind \in {"read", "write"}
  PROVE  /\ First(o.sectors) \in o.sectors /\ o.sectors \subseteq Sectors
         /\ \A s \in o.sectors : First(o.sectors) <= s
<1>1. PICK a, b \in Sectors : a <= b /\ o.sectors = a .. b
  BY OpFields
<1>2. a \in Int /\ b \in Int /\ o.sectors \subseteq Sectors
  BY SectorsAreIntegers, OpFields
<1>3. \E s \in o.sectors : \A t \in o.sectors : s <= t
  BY <1>1, <1>2
<1> QED BY <1>2, <1>3 DEF First

\* The sectors between two of a request's sectors are its own.
LEMMA NextSector ==
  ASSUME NEW o \in Ops, o.kind \in {"read", "write"}, NEW s \in o.sectors,
         ~IsLast(s, o.sectors)
  PROVE  s + 1 \in o.sectors /\ s + 1 \in Sectors /\ s \in Int
<1>1. PICK a, b \in Sectors : a <= b /\ o.sectors = a .. b
  BY OpFields
<1>2. a \in Int /\ b \in Int /\ o.sectors \subseteq Sectors
  BY SectorsAreIntegers, OpFields
<1> QED BY <1>1, <1>2 DEF IsLast

LEMMA MainStartEffect ==
  ASSUME Types, MainInv, MainStart
  PROVE  LET o == irp[main.irp].op IN
         /\ MainType' /\ main.irp \in Irps /\ o \in Ops
         /\ o.kind \in {"read", "write", "flush"}
         /\ main'.pc = "request" /\ main'.irp = main.irp /\ main'.queue = main.queue
         /\ main'.request = main.request
         /\ o.kind # "flush" => /\ main'.sector \in o.sectors
                                /\ \A s \in o.sectors : main'.sector <= s
         /\ o.kind = "flush" => o.sectors = {} /\ main'.sector = 0
<1> DEFINE o == irp[main.irp].op
<1>1. main.irp \in Irps /\ o \in Ops /\ main.pc = "start"
      /\ o.kind \in {"read", "write", "flush"}
  BY IrpFields DEF Types, MainInv, MainStart, MainHasItem, InProgress
<1>2. PICK z : z = IF o.sectors = {} THEN 0 ELSE First(o.sectors)
  OBVIOUS
<1>3. main' = [main EXCEPT !.pc = "request", !.sector = z]
  BY <1>2 DEF MainStart
<1>4. o.kind = "flush" => o.sectors = {} /\ z = 0
  BY <1>1, <1>2, OpsAssumption
<1>5. o.kind # "flush" => z \in o.sectors /\ z \in Sectors /\ \A s \in o.sectors : z <= s
  BY <1>1, <1>2, FirstSector
<1>6. z \in Sectors
  BY <1>1, <1>4, <1>5, NoRequestType
<1> HIDE DEF o
<1>7. /\ MainType' /\ main'.pc = "request" /\ main'.irp = main.irp
      /\ main'.queue = main.queue /\ main'.request = main.request /\ main'.sector = z
  BY <1>3, <1>6 DEF Types, MainType, MainPcs
<1> QED BY <1>1, <1>4, <1>5, <1>7 DEF o

LEMMA CountRequestEffect ==
  ASSUME Types, MainCountRequest
  PROVE  /\ MainType' /\ main.pc = "request" /\ main'.pc = "getRequest"
         /\ main'.irp = main.irp /\ main'.queue = main.queue
         /\ main'.sector = main.sector /\ main'.request = main.request
         /\ IoType' /\ io'.pending = io.pending + 1 /\ io'.queue = io.queue
         /\ io'.pc = io.pc /\ io'.request = io.request
<1>1. PICK n \in Int : n = io.pending + 1
  BY DEF Types, IoType
<1>2. io' = [io EXCEPT !.pending = n]
  BY <1>1 DEF MainCountRequest
<1> QED BY <1>1, <1>2 DEF Types, IoType, MainType, MainPcs, MainCountRequest

LEMMA GetRequestEffect ==
  ASSUME Types, MainInv, MainGetRequest
  PROVE  LET o == irp[main.irp].op IN
         /\ MainType' /\ main.pc = "getRequest" /\ main.irp \in Irps
         /\ main'.irp = main.irp /\ main'.queue = main.queue /\ main'.sector = main.sector
         /\ \/ /\ o.kind = "flush" /\ main'.pc = "queueFlush"
               /\ main'.request = [irp |-> main.irp, sector |-> 0, last |-> TRUE,
                                   buffer |-> NoBuffer, encrypted |-> FALSE]
            \/ /\ o.kind # "flush" /\ main'.pc = "queueFragment"
               /\ main'.request.buffer \in Buffers
               /\ main'.request = [irp |-> main.irp, sector |-> main.sector,
                                   last |-> IsLast(main.sector, o.sectors),
                                   buffer |-> main'.request.buffer,
                                   encrypted |-> InEncryptedArea(main.sector)]
         /\ PoolType' /\ pool.requests > 0 /\ pool'.requests = pool.requests - 1
         /\ pool'.items = pool.items
<1> DEFINE o == irp[main.irp].op
<1>1. main.pc = "getRequest" /\ main.irp \in Irps
  BY DEF MainInv, MainGetRequest, MainHasItem, MainRequesting, InProgress
<1>2. PICK n \in Int : n = pool.requests - 1
  BY DEF Types, PoolType
<1>3. pool' = [pool EXCEPT !.requests = n] /\ pool.requests > 0
  BY <1>2 DEF MainGetRequest
<1>4. PoolType' /\ pool'.requests = n /\ pool'.items = pool.items
  BY <1>2, <1>3 DEF Types, PoolType
<1>5. CASE o.kind = "flush"
  <2>1. PICK r : r = [NoRequest EXCEPT !.irp = main.irp, !.last = TRUE]
    OBVIOUS
  <2>2. r = [irp |-> main.irp, sector |-> 0, last |-> TRUE, buffer |-> NoBuffer,
             encrypted |-> FALSE]
    BY <2>1 DEF NoRequest
  <2>3. r \in Requests
    BY <2>2, <1>1, NoRequestType DEF Requests
  <2>4. main' = [main EXCEPT !.request = r, !.pc = "queueFlush"]
    BY <1>5, <2>1 DEF MainGetRequest
  <2>5. /\ MainType' /\ main'.irp = main.irp /\ main'.queue = main.queue
        /\ main'.sector = main.sector /\ main'.pc = "queueFlush" /\ main'.request = r
    BY <2>3, <2>4 DEF Types, MainType, MainPcs
  <2> QED BY <1>1, <1>2, <1>3, <1>4, <1>5, <2>2, <2>5
<1>6. CASE o.kind # "flush"
  <2>1. PICK b \in Buffers : b = OtherBuffer
    BY OtherBufferType
  <2>2. PICK e \in BOOLEAN : e = InEncryptedArea(main.sector)
    BY DEF InEncryptedArea
  <2>3. PICK l \in BOOLEAN : l = IsLast(main.sector, o.sectors)
    BY DEF IsLast
  <2>4. PICK r : r = [irp |-> main.irp, sector |-> main.sector, last |-> l, buffer |-> b,
                      encrypted |-> e]
    OBVIOUS
  <2>5. r \in Requests /\ r.buffer = b
    BY <2>4, <1>1 DEF Requests, Types, MainType
  <2>6. main' = [main EXCEPT !.request = r, !.buffer = b, !.pc = "queueFragment"]
    BY <1>6, <2>1, <2>2, <2>3, <2>4 DEF MainGetRequest
  <2> HIDE DEF o
  <2>7. /\ MainType' /\ main'.irp = main.irp /\ main'.queue = main.queue
        /\ main'.sector = main.sector /\ main'.pc = "queueFragment" /\ main'.request = r
    BY <2>5, <2>6 DEF Types, MainType, MainPcs
  <2> QED BY <1>1, <1>2, <1>3, <1>4, <1>6, <2>2, <2>3, <2>4, <2>5, <2>7 DEF o
<1> QED BY <1>5, <1>6

LEMMA QueueFragmentEffect ==
  ASSUME Types, MainInv, RequestInv, MainQueueFragment
  PROVE  LET r == main.request IN
         /\ main.pc = "queueFragment" /\ main.irp \in Irps
         /\ r.irp = main.irp /\ r.sector = main.sector /\ r.buffer \in Buffers
         /\ r.last = IsLast(main.sector, irp[main.irp].op.sectors)
         /\ r.encrypted = InEncryptedArea(main.sector)
         /\ fragment[r.buffer].free
         /\ MainType' /\ main'.queue = main.queue
         /\ \/ r.last /\ main'.pc = "next" /\ main'.irp = NoIrp
            \/ ~r.last /\ main'.pc = "request" /\ main'.irp = main.irp
               /\ main'.sector = main.sector + 1
               /\ main'.sector \in irp[main.irp].op.sectors
         /\ FragmentType' /\ ~fragment'[r.buffer].free
         /\ \A b \in Buffers : b # r.buffer => fragment'[b] = fragment[b]
         /\ Kind(main.irp) = "write" =>
              fragment'[r.buffer].content =
                [value |-> irp[main.irp].op.value, layer |-> One(r.encrypted)]
<1> DEFINE r == main.request
           o == irp[main.irp].op
<1>1. /\ main.pc = "queueFragment" /\ main.irp \in Irps
      /\ o \in Ops /\ o.kind \in {"read", "write"} /\ main.sector \in o.sectors
  BY IrpFields
     DEF Types, MainInv, MainQueueFragment, MainHasItem, MainRequesting, InProgress, Kind
<1>2. /\ r.irp = main.irp /\ r.sector = main.sector /\ r.buffer \in Buffers
      /\ r.last = IsLast(main.sector, o.sectors)
      /\ r.encrypted = InEncryptedArea(main.sector) /\ r.encrypted \in BOOLEAN
      /\ r.last \in BOOLEAN
  <2>1. PICK e \in BOOLEAN : e = InEncryptedArea(main.sector)
    BY DEF InEncryptedArea
  <2>2. PICK l \in BOOLEAN : l = IsLast(main.sector, o.sectors)
    BY DEF IsLast
  <2>3. /\ r.buffer \in Buffers
        /\ r = [irp |-> main.irp, sector |-> main.sector, last |-> l, buffer |-> r.buffer,
                encrypted |-> e]
    BY <1>1, <2>1, <2>2 DEF RequestInv
  <2> HIDE DEF r, o
  <2> QED BY <2>1, <2>2, <2>3
<1>3. fragment[r.buffer].free
  BY DEF MainQueueFragment, BufferIsFree
<1> DEFINE plain == [value |-> o.value, layer |-> 0]
           c == IF o.kind = "read" THEN fragment[r.buffer].content
                ELSE IF r.encrypted THEN Encrypt(plain) ELSE plain
<1>4. plain \in Sector /\ plain.value = o.value /\ plain.layer = 0
  BY <1>1, OpFields DEF Sector
<1>5. Encrypt(plain) = [value |-> o.value, layer |-> 1] /\ Encrypt(plain) \in Sector
  <2>1. PICK p \in Sector : p = plain
    BY <1>4
  <2>2. /\ Encrypt(p) = [value |-> p.value, layer |-> p.layer + 1]
        /\ Encrypt(p) \in Sector
    BY <2>1, Layers
  <2> QED BY <1>4, <2>1, <2>2
<1>6. c \in Sector
  BY <1>2, <1>4, <1>5 DEF Types, FragmentType
<1>7. o.kind = "write" => c = [value |-> o.value, layer |-> One(r.encrypted)]
  BY <1>5, <1>2 DEF One
<1>8. fragment' = [fragment EXCEPT ![r.buffer] = [free |-> FALSE, content |-> c]]
  BY DEF MainQueueFragment
<1> HIDE DEF c
<1>9. /\ FragmentType' /\ ~fragment'[r.buffer].free /\ fragment'[r.buffer].content = c
      /\ \A b \in Buffers : b # r.buffer => fragment'[b] = fragment[b]
  BY <1>2, <1>6, <1>8 DEF Types, FragmentType
<1>10. CASE r.last
  <2>1. main' = MainIdle
    BY <1>10 DEF MainQueueFragment
  <2> QED BY <1>1, <1>2, <1>3, <1>7, <1>9, <1>10, <2>1, MainIdleEffect DEF Types, Kind
<1>11. CASE ~r.last
  <2>1. main.sector + 1 \in o.sectors /\ main.sector + 1 \in Sectors
    BY <1>1, <1>2, <1>11, NextSector
  <2>2. PICK t \in Sectors : t = main.sector + 1
    BY <2>1
  <2>3. main' = [main EXCEPT !.pc = "request", !.sector = t]
    BY <2>2, <1>11 DEF MainQueueFragment
  <2>4. /\ MainType' /\ main'.queue = main.queue /\ main'.pc = "request"
        /\ main'.irp = main.irp /\ main'.sector = t
    BY <2>3 DEF Types, MainType, MainPcs
  <2> QED BY <1>1, <1>2, <1>3, <1>7, <1>9, <1>11, <2>1, <2>2, <2>4 DEF Kind
<1> QED BY <1>2, <1>10, <1>11

LEMMA IoFinishReadMoves ==
  ASSUME Types, ServedInv, IoFinishRead
  PROVE  LET r == io.request IN
         /\ io.pc = "finish" /\ r \in Requests /\ r.irp \in Irps /\ r.buffer \in Buffers
         /\ Kind(r.irp) = "read"
         /\ CompletionType' /\ completion.queue \in Seq(Requests)
         /\ completion'.queue = Append(completion.queue, r)
         /\ completion'.pc = completion.pc /\ completion'.request = completion.request
         /\ FragmentType' /\ fragment'[r.buffer].free
         /\ \A b \in Buffers : b # r.buffer => fragment'[b] = fragment[b]
         /\ IoType' /\ io'.queue = io.queue /\ io'.pending = io.pending
         /\ GateType' /\ SameFlags
         /\ \/ io'.pc = "readAhead" /\ io'.request = io.request
               /\ gate'.outstanding = gate.outstanding + 1
            \/ io'.pc = "next" /\ gate'.outstanding = gate.outstanding
<1> DEFINE r == io.request
<1>1. io.pc = "finish" /\ r \in Requests /\ r.irp \in Irps /\ Kind(r.irp) = "read"
  BY BusyIrps DEF IoFinishRead, IoBusy, IoKind, Kind
<1>2. r.buffer \in Buffers
  BY <1>1 DEF ServedInv, IoRequest, IoBusy
<1>3. completion.queue \in Seq(Requests)
  BY DEF Types, CompletionType
<1>4. PICK q \in Seq(Requests) : q = Append(completion.queue, r)
  BY <1>1, <1>3, AppendLast
<1>5. completion' = [completion EXCEPT !.queue = q, !.notEmpty = TRUE]
  BY <1>4 DEF IoFinishRead
<1>6. /\ CompletionType' /\ completion'.queue = q /\ completion'.pc = completion.pc
      /\ completion'.request = completion.request
  BY <1>5 DEF Types, CompletionType
<1>7. /\ FragmentType' /\ fragment'[r.buffer].free
      /\ \A b \in Buffers : b # r.buffer => fragment'[b] = fragment[b]
  BY <1>2, FreeFragmentEffect DEF IoFinishRead, Types
<1> DEFINE ahead == r.last /\ irp[r.irp].status = "ok" /\ io.pending = 0
<1>8. CASE ahead
  <2>1. io' = [io EXCEPT !.pc = "readAhead"] /\ gate' = CountReadAhead
    BY <1>8 DEF IoFinishRead
  <2>2. /\ IoType' /\ io'.queue = io.queue /\ io'.pending = io.pending
        /\ io'.pc = "readAhead" /\ io'.request = io.request
    BY <2>1 DEF Types, IoType, IoPcs
  <2>3. GateType' /\ SameFlags /\ gate'.outstanding = gate.outstanding + 1
    BY <2>1, IncrementEffect DEF Types
  <2> QED BY <1>1, <1>2, <1>3, <1>4, <1>6, <1>7, <2>2, <2>3
<1>9. CASE ~ahead
  <2>1. io' = IoIdle /\ gate' = gate
    BY <1>9 DEF IoFinishRead
  <2>2. /\ IoType' /\ io'.queue = io.queue /\ io'.pending = io.pending /\ io'.pc = "next"
    BY <2>1, IoIdleEffect DEF Types
  <2>3. GateType' /\ SameFlags /\ gate'.outstanding = gate.outstanding
    BY <2>1 DEF Types, SameFlags, GateType
  <2> QED BY <1>1, <1>2, <1>3, <1>4, <1>6, <1>7, <2>2, <2>3
<1> QED BY <1>8, <1>9

LEMMA IoReadFragment ==
  ASSUME Types, ServedInv, IoRead
  PROVE  LET r == io.request IN
         /\ r.buffer \in Buffers /\ FragmentType' /\ r.sector \in Sectors
         /\ \A b \in Buffers : b # r.buffer => fragment'[b] = fragment[b]
         /\ fragment'[r.buffer].free = fragment[r.buffer].free
         /\ fragment'[r.buffer].content =
              IF cache.valid /\ cache.sector = r.sector THEN cache.content
              ELSE device[r.sector]
<1> DEFINE r == io.request
<1>1. r.buffer \in Buffers /\ r.sector \in Sectors
  BY BusyIrps, RequestFields DEF IoRead, IoBusy, IoKind, Kind, ServedInv, IoRequest
<1>2. PICK c \in Sector :
        c = IF cache.valid /\ cache.sector = r.sector THEN cache.content ELSE device[r.sector]
  BY <1>1 DEF Types, CacheType, DeviceType
<1>3. fragment' = [fragment EXCEPT ![r.buffer].content = c]
  BY <1>2 DEF IoRead
<1>4. /\ FragmentType' /\ fragment'[r.buffer].free = fragment[r.buffer].free
      /\ fragment'[r.buffer].content = c
      /\ \A b \in Buffers : b # r.buffer => fragment'[b] = fragment[b]
  BY <1>1, <1>3 DEF Types, FragmentType
<1> QED BY <1>1, <1>2, <1>4
LEMMA IrpChanges ==
  ASSUME [Next]_vars
  PROVE  \/ irp' = irp
         \/ \E i \in Irps, o \in Ops : AddIrp(i, o)
         \/ \E i \in Irps : RejectIrp(i) \/ AcceptIrp(i) \/ EnqueueIrp(i) \/ Collect(i)
         \/ \E k \in WorkItems : WorkCompleteIrp(k)
         \/ MainGetItem \/ MainRefuse \/ MainReadMisaligned \/ IoFlush \/ IoFail \/ IoWrite
         \/ IoRead \/ IoFinishRead \/ CompletionDecrypt
  BY DEF Next, Submit, MainThreadProc, IoThreadProc, CompletionThreadProc,
      CompleteIrpWorkItemRoutine, HoldWhenIdle, Stop, vars, MainWait, MainNext, MainTestSuspended,
      MainResumed, MainPoolEmpty, MainPoolWait, MainStart, MainComplete, MainCountRequest,
      MainGetRequest, MainQueueFlush, MainQueueFragment, IoWait, IoNext, IoSkip, IoFinishWrite,
      IoReadAhead, IoReadAheadDone, IoComplete, IoRelease, CompletionWait, CompletionNext,
      CompletionComplete, CompletionRelease, WorkCompleteItem, WorkDecrement, WorkSignal,
      WorkReturn, WorkReleaseItem, HoldBegin, HoldCheck, HoldWoken, HoldFail, HoldRecheck,
      HoldSuspend, HoldUndo, HoldSucceed, HolderConvert, HolderMoveEnd, ResumeFromHold, StopBegin,
      StopDrain, StopWoken, StopThread, StopJoin, StopResetActive, StopTestActive, StopWaitActive

LEMMA GateChanges ==
  ASSUME [Next]_vars
  PROVE  \/ gate' = gate
         \/ \E i \in Irps, o \in Ops : AddIrp(i, o)
         \/ \E i \in Irps : RejectIrp(i)
         \/ \E k \in WorkItems : WorkCompleteItem(k)
         \/ MainResumed \/ IoFinishRead \/ IoReadAheadDone \/ HoldBegin \/ HoldWoken \/ HoldFail
         \/ HoldSuspend \/ HoldUndo \/ HoldSucceed \/ ResumeFromHold \/ StopBegin \/ StopDrain
         \/ StopWoken
  BY DEF Next, Submit, MainThreadProc, IoThreadProc, CompletionThreadProc,
      CompleteIrpWorkItemRoutine, HoldWhenIdle, Stop, vars, AcceptIrp, EnqueueIrp, Collect,
      MainWait, MainNext, MainTestSuspended, MainPoolEmpty, MainPoolWait, MainGetItem, MainRefuse,
      MainStart, MainReadMisaligned, MainComplete, MainCountRequest, MainGetRequest,
      MainQueueFlush, MainQueueFragment, IoWait, IoNext, IoFlush, IoSkip, IoFail, IoWrite, IoRead,
      IoFinishWrite, IoReadAhead, IoComplete, IoRelease, CompletionWait, CompletionNext,
      CompletionDecrypt, CompletionComplete, CompletionRelease, WorkCompleteIrp, WorkDecrement,
      WorkSignal, WorkReturn, WorkReleaseItem, HoldCheck, HoldRecheck, HolderConvert,
      HolderMoveEnd, StopThread, StopJoin, StopResetActive, StopTestActive, StopWaitActive

LEMMA MainChanges ==
  ASSUME [Next]_vars
  PROVE  \/ main' = main
         \/ \E i \in Irps : EnqueueIrp(i)
         \/ MainWait \/ MainNext \/ MainTestSuspended \/ MainResumed
         \/ MainPoolEmpty("item", pool.items, "itemWait") \/ MainPoolWait("itemWait", "item")
         \/ MainGetItem \/ MainRefuse \/ MainStart \/ MainReadMisaligned \/ MainComplete
         \/ MainCountRequest \/ MainPoolEmpty("getRequest", pool.requests, "requestWait")
         \/ MainPoolWait("requestWait", "getRequest") \/ MainGetRequest \/ MainQueueFlush
         \/ MainQueueFragment \/ StopThread
  BY DEF Next, Submit, MainThreadProc, IoThreadProc, CompletionThreadProc,
      CompleteIrpWorkItemRoutine, HoldWhenIdle, Stop, vars, AddIrp, RejectIrp, AcceptIrp, Collect,
      IoWait, IoNext, IoFlush, IoSkip, IoFail, IoWrite, IoRead, IoFinishWrite, IoFinishRead,
      IoReadAhead, IoReadAheadDone, IoComplete, IoRelease, CompletionWait, CompletionNext,
      CompletionDecrypt, CompletionComplete, CompletionRelease, WorkCompleteItem, WorkCompleteIrp,
      WorkDecrement, WorkSignal, WorkReturn, WorkReleaseItem, HoldBegin, HoldCheck, HoldWoken,
      HoldFail, HoldRecheck, HoldSuspend, HoldUndo, HoldSucceed, HolderConvert, HolderMoveEnd,
      ResumeFromHold, StopBegin, StopDrain, StopWoken, StopJoin, StopResetActive, StopTestActive,
      StopWaitActive

LEMMA IoChanges ==
  ASSUME [Next]_vars
  PROVE  \/ io' = io
         \/ MainCountRequest \/ MainQueueFlush \/ MainQueueFragment \/ IoWait \/ IoNext \/ IoFlush
         \/ IoSkip \/ IoFail \/ IoWrite \/ IoRead \/ IoFinishWrite \/ IoFinishRead \/ IoReadAhead
         \/ IoReadAheadDone \/ IoComplete \/ IoRelease \/ StopThread
  BY DEF Next, Submit, MainThreadProc, IoThreadProc, CompletionThreadProc,
      CompleteIrpWorkItemRoutine, HoldWhenIdle, Stop, vars, AddIrp, RejectIrp, AcceptIrp,
      EnqueueIrp, Collect, MainWait, MainNext, MainTestSuspended, MainResumed, MainPoolEmpty,
      MainPoolWait, MainGetItem, MainRefuse, MainStart, MainReadMisaligned, MainComplete,
      MainGetRequest, CompletionWait, CompletionNext, CompletionDecrypt, CompletionComplete,
      CompletionRelease, WorkCompleteItem, WorkCompleteIrp, WorkDecrement, WorkSignal, WorkReturn,
      WorkReleaseItem, HoldBegin, HoldCheck, HoldWoken, HoldFail, HoldRecheck, HoldSuspend,
      HoldUndo, HoldSucceed, HolderConvert, HolderMoveEnd, ResumeFromHold, StopBegin, StopDrain,
      StopWoken, StopJoin, StopResetActive, StopTestActive, StopWaitActive

LEMMA CompletionChanges ==
  ASSUME [Next]_vars
  PROVE  \/ completion' = completion
         \/ IoFinishRead \/ CompletionWait \/ CompletionNext \/ CompletionDecrypt
         \/ CompletionComplete \/ CompletionRelease \/ StopThread
  BY DEF Next, Submit, MainThreadProc, IoThreadProc, CompletionThreadProc,
      CompleteIrpWorkItemRoutine, HoldWhenIdle, Stop, vars, AddIrp, RejectIrp, AcceptIrp,
      EnqueueIrp, Collect, MainWait, MainNext, MainTestSuspended, MainResumed, MainPoolEmpty,
      MainPoolWait, MainGetItem, MainRefuse, MainStart, MainReadMisaligned, MainComplete,
      MainCountRequest, MainGetRequest, MainQueueFlush, MainQueueFragment, IoWait, IoNext,
      IoFlush, IoSkip, IoFail, IoWrite, IoRead, IoFinishWrite, IoReadAhead, IoReadAheadDone,
      IoComplete, IoRelease, WorkCompleteItem, WorkCompleteIrp, WorkDecrement, WorkSignal,
      WorkReturn, WorkReleaseItem, HoldBegin, HoldCheck, HoldWoken, HoldFail, HoldRecheck,
      HoldSuspend, HoldUndo, HoldSucceed, HolderConvert, HolderMoveEnd, ResumeFromHold, StopBegin,
      StopDrain, StopWoken, StopJoin, StopResetActive, StopTestActive, StopWaitActive

LEMMA PoolChanges ==
  ASSUME [Next]_vars
  PROVE  \/ pool' = pool
         \/ MainPoolWait("itemWait", "item") \/ MainGetItem
         \/ MainPoolWait("requestWait", "getRequest") \/ MainGetRequest \/ IoRelease
         \/ CompletionRelease \/ WorkReleaseItem
  BY DEF Next, Submit, MainThreadProc, IoThreadProc, CompletionThreadProc,
      CompleteIrpWorkItemRoutine, HoldWhenIdle, Stop, vars, AddIrp, RejectIrp, AcceptIrp,
      EnqueueIrp, Collect, MainWait, MainNext, MainTestSuspended, MainResumed, MainPoolEmpty,
      MainRefuse, MainStart, MainReadMisaligned, MainComplete, MainCountRequest, MainQueueFlush,
      MainQueueFragment, IoWait, IoNext, IoFlush, IoSkip, IoFail, IoWrite, IoRead, IoFinishWrite,
      IoFinishRead, IoReadAhead, IoReadAheadDone, IoComplete, CompletionWait, CompletionNext,
      CompletionDecrypt, CompletionComplete, WorkCompleteItem, WorkCompleteIrp, WorkDecrement,
      WorkSignal, WorkReturn, HoldBegin, HoldCheck, HoldWoken, HoldFail, HoldRecheck, HoldSuspend,
      HoldUndo, HoldSucceed, HolderConvert, HolderMoveEnd, ResumeFromHold, StopBegin, StopDrain,
      StopWoken, StopThread, StopJoin, StopResetActive, StopTestActive, StopWaitActive

LEMMA FragmentChanges ==
  ASSUME [Next]_vars
  PROVE  \/ fragment' = fragment
         \/ MainQueueFragment \/ IoRead \/ IoFinishWrite \/ IoFinishRead
  BY DEF Next, Submit, MainThreadProc, IoThreadProc, CompletionThreadProc,
      CompleteIrpWorkItemRoutine, HoldWhenIdle, Stop, vars, AddIrp, RejectIrp, AcceptIrp,
      EnqueueIrp, Collect, MainWait, MainNext, MainTestSuspended, MainResumed, MainPoolEmpty,
      MainPoolWait, MainGetItem, MainRefuse, MainStart, MainReadMisaligned, MainComplete,
      MainCountRequest, MainGetRequest, MainQueueFlush, IoWait, IoNext, IoFlush, IoSkip, IoFail,
      IoWrite, IoReadAhead, IoReadAheadDone, IoComplete, IoRelease, CompletionWait,
      CompletionNext, CompletionDecrypt, CompletionComplete, CompletionRelease, WorkCompleteItem,
      WorkCompleteIrp, WorkDecrement, WorkSignal, WorkReturn, WorkReleaseItem, HoldBegin,
      HoldCheck, HoldWoken, HoldFail, HoldRecheck, HoldSuspend, HoldUndo, HoldSucceed,
      HolderConvert, HolderMoveEnd, ResumeFromHold, StopBegin, StopDrain, StopWoken, StopThread,
      StopJoin, StopResetActive, StopTestActive, StopWaitActive

LEMMA CacheChanges ==
  ASSUME [Next]_vars
  PROVE  \/ cache' = cache
         \/ IoFinishWrite \/ IoReadAhead \/ HoldSucceed
  BY DEF Next, Submit, MainThreadProc, IoThreadProc, CompletionThreadProc,
      CompleteIrpWorkItemRoutine, HoldWhenIdle, Stop, vars, AddIrp, RejectIrp, AcceptIrp,
      EnqueueIrp, Collect, MainWait, MainNext, MainTestSuspended, MainResumed, MainPoolEmpty,
      MainPoolWait, MainGetItem, MainRefuse, MainStart, MainReadMisaligned, MainComplete,
      MainCountRequest, MainGetRequest, MainQueueFlush, MainQueueFragment, IoWait, IoNext,
      IoFlush, IoSkip, IoFail, IoWrite, IoRead, IoFinishRead, IoReadAheadDone, IoComplete,
      IoRelease, CompletionWait, CompletionNext, CompletionDecrypt, CompletionComplete,
      CompletionRelease, WorkCompleteItem, WorkCompleteIrp, WorkDecrement, WorkSignal, WorkReturn,
      WorkReleaseItem, HoldBegin, HoldCheck, HoldWoken, HoldFail, HoldRecheck, HoldSuspend,
      HoldUndo, HolderConvert, HolderMoveEnd, ResumeFromHold, StopBegin, StopDrain, StopWoken,
      StopThread, StopJoin, StopResetActive, StopTestActive, StopWaitActive

LEMMA WorkChanges ==
  ASSUME [Next]_vars
  PROVE  \/ work' = work
         \/ \E k \in WorkItems :
              \/ WorkCompleteItem(k) \/ WorkCompleteIrp(k) \/ WorkDecrement(k)
              \/ WorkSignal(k) \/ WorkReturn(k)
         \/ MainComplete \/ IoComplete \/ CompletionComplete
  BY DEF Next, Submit, MainThreadProc, IoThreadProc, CompletionThreadProc,
      CompleteIrpWorkItemRoutine, HoldWhenIdle, Stop, vars, AddIrp, RejectIrp, AcceptIrp,
      EnqueueIrp, Collect, MainWait, MainNext, MainTestSuspended, MainResumed, MainPoolEmpty,
      MainPoolWait, MainGetItem, MainRefuse, MainStart, MainReadMisaligned, MainCountRequest,
      MainGetRequest, MainQueueFlush, MainQueueFragment, IoWait, IoNext, IoFlush, IoSkip, IoFail,
      IoWrite, IoRead, IoFinishWrite, IoFinishRead, IoReadAhead, IoReadAheadDone, IoRelease,
      CompletionWait, CompletionNext, CompletionDecrypt, CompletionRelease, WorkReleaseItem,
      HoldBegin, HoldCheck, HoldWoken, HoldFail, HoldRecheck, HoldSuspend, HoldUndo, HoldSucceed,
      HolderConvert, HolderMoveEnd, ResumeFromHold, StopBegin, StopDrain, StopWoken, StopThread,
      StopJoin, StopResetActive, StopTestActive, StopWaitActive

LEMMA ActiveChanges ==
  ASSUME [Next]_vars
  PROVE  \/ active' = active
         \/ \E k \in WorkItems : WorkDecrement(k) \/ WorkSignal(k) \/ WorkReturn(k)
         \/ MainComplete \/ IoComplete \/ CompletionComplete \/ WorkReleaseItem \/ StopResetActive
  BY DEF Next, Submit, MainThreadProc, IoThreadProc, CompletionThreadProc,
      CompleteIrpWorkItemRoutine, HoldWhenIdle, Stop, vars, AddIrp, RejectIrp, AcceptIrp,
      EnqueueIrp, Collect, MainWait, MainNext, MainTestSuspended, MainResumed, MainPoolEmpty,
      MainPoolWait, MainGetItem, MainRefuse, MainStart, MainReadMisaligned, MainCountRequest,
      MainGetRequest, MainQueueFlush, MainQueueFragment, IoWait, IoNext, IoFlush, IoSkip, IoFail,
      IoWrite, IoRead, IoFinishWrite, IoFinishRead, IoReadAhead, IoReadAheadDone, IoRelease,
      CompletionWait, CompletionNext, CompletionDecrypt, CompletionRelease, WorkCompleteItem,
      WorkCompleteIrp, HoldBegin, HoldCheck, HoldWoken, HoldFail, HoldRecheck, HoldSuspend,
      HoldUndo, HoldSucceed, HolderConvert, HolderMoveEnd, ResumeFromHold, StopBegin, StopDrain,
      StopWoken, StopThread, StopJoin, StopTestActive, StopWaitActive

LEMMA DeviceChanges ==
  ASSUME [Next]_vars
  PROVE  \/ device' = device
         \/ IoWrite \/ HolderConvert
  BY DEF Next, Submit, MainThreadProc, IoThreadProc, CompletionThreadProc,
      CompleteIrpWorkItemRoutine, HoldWhenIdle, Stop, vars, AddIrp, RejectIrp, AcceptIrp,
      EnqueueIrp, Collect, MainWait, MainNext, MainTestSuspended, MainResumed, MainPoolEmpty,
      MainPoolWait, MainGetItem, MainRefuse, MainStart, MainReadMisaligned, MainComplete,
      MainCountRequest, MainGetRequest, MainQueueFlush, MainQueueFragment, IoWait, IoNext,
      IoFlush, IoSkip, IoFail, IoRead, IoFinishWrite, IoFinishRead, IoReadAhead, IoReadAheadDone,
      IoComplete, IoRelease, CompletionWait, CompletionNext, CompletionDecrypt,
      CompletionComplete, CompletionRelease, WorkCompleteItem, WorkCompleteIrp, WorkDecrement,
      WorkSignal, WorkReturn, WorkReleaseItem, HoldBegin, HoldCheck, HoldWoken, HoldFail,
      HoldRecheck, HoldSuspend, HoldUndo, HoldSucceed, HolderMoveEnd, ResumeFromHold, StopBegin,
      StopDrain, StopWoken, StopThread, StopJoin, StopResetActive, StopTestActive, StopWaitActive

LEMMA EndChanges ==
  ASSUME [Next]_vars
  PROVE  \/ encryptedEnd' = encryptedEnd
         \/ HolderMoveEnd
  BY DEF Next, Submit, MainThreadProc, IoThreadProc, CompletionThreadProc,
      CompleteIrpWorkItemRoutine, HoldWhenIdle, Stop, vars, AddIrp, RejectIrp, AcceptIrp,
      EnqueueIrp, Collect, MainWait, MainNext, MainTestSuspended, MainResumed, MainPoolEmpty,
      MainPoolWait, MainGetItem, MainRefuse, MainStart, MainReadMisaligned, MainComplete,
      MainCountRequest, MainGetRequest, MainQueueFlush, MainQueueFragment, IoWait, IoNext,
      IoFlush, IoSkip, IoFail, IoWrite, IoRead, IoFinishWrite, IoFinishRead, IoReadAhead,
      IoReadAheadDone, IoComplete, IoRelease, CompletionWait, CompletionNext, CompletionDecrypt,
      CompletionComplete, CompletionRelease, WorkCompleteItem, WorkCompleteIrp, WorkDecrement,
      WorkSignal, WorkReturn, WorkReleaseItem, HoldBegin, HoldCheck, HoldWoken, HoldFail,
      HoldRecheck, HoldSuspend, HoldUndo, HoldSucceed, HolderConvert, ResumeFromHold, StopBegin,
      StopDrain, StopWoken, StopThread, StopJoin, StopResetActive, StopTestActive, StopWaitActive

LEMMA HoldChanges ==
  ASSUME [Next]_vars
  PROVE  \/ hold' = hold
         \/ HoldBegin \/ HoldCheck \/ HoldWoken \/ HoldFail \/ HoldRecheck \/ HoldSuspend
         \/ HoldUndo \/ HoldSucceed \/ HolderConvert \/ HolderMoveEnd \/ ResumeFromHold
  BY DEF Next, Submit, MainThreadProc, IoThreadProc, CompletionThreadProc,
      CompleteIrpWorkItemRoutine, HoldWhenIdle, Stop, vars, AddIrp, RejectIrp, AcceptIrp,
      EnqueueIrp, Collect, MainWait, MainNext, MainTestSuspended, MainResumed, MainPoolEmpty,
      MainPoolWait, MainGetItem, MainRefuse, MainStart, MainReadMisaligned, MainComplete,
      MainCountRequest, MainGetRequest, MainQueueFlush, MainQueueFragment, IoWait, IoNext,
      IoFlush, IoSkip, IoFail, IoWrite, IoRead, IoFinishWrite, IoFinishRead, IoReadAhead,
      IoReadAheadDone, IoComplete, IoRelease, CompletionWait, CompletionNext, CompletionDecrypt,
      CompletionComplete, CompletionRelease, WorkCompleteItem, WorkCompleteIrp, WorkDecrement,
      WorkSignal, WorkReturn, WorkReleaseItem, StopBegin, StopDrain, StopWoken, StopThread,
      StopJoin, StopResetActive, StopTestActive, StopWaitActive

LEMMA StopChanges ==
  ASSUME [Next]_vars
  PROVE  \/ stop' = stop
         \/ StopBegin \/ StopDrain \/ StopWoken \/ StopThread \/ StopJoin \/ StopResetActive
         \/ StopTestActive \/ StopWaitActive
  BY DEF Next, Submit, MainThreadProc, IoThreadProc, CompletionThreadProc,
      CompleteIrpWorkItemRoutine, HoldWhenIdle, Stop, vars, AddIrp, RejectIrp, AcceptIrp,
      EnqueueIrp, Collect, MainWait, MainNext, MainTestSuspended, MainResumed, MainPoolEmpty,
      MainPoolWait, MainGetItem, MainRefuse, MainStart, MainReadMisaligned, MainComplete,
      MainCountRequest, MainGetRequest, MainQueueFlush, MainQueueFragment, IoWait, IoNext,
      IoFlush, IoSkip, IoFail, IoWrite, IoRead, IoFinishWrite, IoFinishRead, IoReadAhead,
      IoReadAheadDone, IoComplete, IoRelease, CompletionWait, CompletionNext, CompletionDecrypt,
      CompletionComplete, CompletionRelease, WorkCompleteItem, WorkCompleteIrp, WorkDecrement,
      WorkSignal, WorkReturn, WorkReleaseItem, HoldBegin, HoldCheck, HoldWoken, HoldFail,
      HoldRecheck, HoldSuspend, HoldUndo, HoldSucceed, HolderConvert, HolderMoveEnd,
      ResumeFromHold


-----------------------------------------------------------------------------
(* The shape of the state.                                                 *)

\* The IRPs in the hands of the main thread and of a work item.
LEMMA MainIrp ==
  ASSUME MainInv, MainQueued \/ MainHasItem
  PROVE  main.irp \in Irps
  BY DEF MainInv, InProgress

LEMMA WorkIrp ==
  ASSUME WorkInv, NEW k \in WorkItems, Completing(k)
  PROVE  work[k].irp \in Irps /\ irp[work[k].irp].state = "item"
  BY DEF WorkInv

LEMMA NoCacheType == NoCache \in [valid : BOOLEAN, sector : Sectors, content : Sector]
  BY NoRequestType, NoContentType DEF NoCache

LEMMA IoSector ==
  ASSUME Types
  PROVE  io.request.sector \in Sectors /\ io.request.sector \in Int
  BY RequestFields, SectorsAreIntegers DEF Types, IoType

\* The buffer of a request for a fragment.
LEMMA FinishBuffer ==
  ASSUME ServedInv, io.pc = "finish"
  PROVE  io.request.buffer \in Buffers
  BY DEF ServedInv, IoRequest, IoBusy

LEMMA WriteBuffer ==
  ASSUME ServedInv, io.pc = "perform", IoKind = "write"
  PROVE  io.request.buffer \in Buffers
  BY DEF ServedInv, IoRequest, IoBusy, IoKind, Kind

\* The end of the encrypted area moves within the device.
LEMMA HolderEnd ==
  ASSUME Types, EndInv, HolderMoveEnd
  PROVE  EndType'
<1>1. encryptedEnd \in {-1} \cup Sectors
  BY DEF Types, EndType
<1>2. CASE hold = "encrypted"
  BY <1>2 DEF EndInv, HolderMoveEnd, EndType
<1>3. CASE hold = "decrypted"
  <2>1. PICK n \in Nat : Cardinality(Sectors) = n
    BY SectorsAssumption, FS_CardinalityType
  <2>2. encryptedEnd \in Sectors /\ encryptedEnd' = encryptedEnd - 1
    BY <1>1, <1>3 DEF EndInv, HolderMoveEnd
  <2>3. encryptedEnd - 1 \in {-1} \cup Sectors
    BY <2>1, <2>2, SectorsAssumption
  <2> QED BY <2>2, <2>3 DEF EndType
<1> QED BY <1>2, <1>3 DEF HolderMoveEnd


LEMMA IrpTypeStep ==
  ASSUME IInv, [Next]_vars
  PROVE  IrpType'
<1>1. ASSUME NEW i \in Irps, NEW o \in Ops, AddIrp(i, o)
      PROVE  IrpType'
  BY <1>1, AddIrpEffect DEF IInv, Types
<1>2. ASSUME NEW i \in Irps, RejectIrp(i)
      PROVE  IrpType'
  BY <1>2, StateUpdate DEF IInv, Types, RejectIrp, IrpStates
<1>3. ASSUME NEW i \in Irps, AcceptIrp(i)
      PROVE  IrpType'
  BY <1>3, OnlyState DEF IInv, Types, AcceptIrp, IrpStates
<1>4. ASSUME NEW i \in Irps, EnqueueIrp(i)
      PROVE  IrpType'
  BY <1>4, OnlyState DEF IInv, Types, EnqueueIrp, IrpStates
<1>5. ASSUME NEW i \in Irps, Collect(i)
      PROVE  IrpType'
  BY <1>5, IrpUpdate, FreeIrpFields DEF IInv, Types, Collect
<1>6. CASE MainGetItem
  BY <1>6, MainIrp, OnlyState DEF IInv, Types, MainGetItem, MainQueued, IrpStates
<1>7. CASE MainRefuse
  BY <1>7, MainIrp, OnlyStatus DEF IInv, Types, MainRefuse, MainHasItem
<1>8. CASE MainReadMisaligned
  BY <1>8, MainReadMisalignedEffect DEF IInv, Types
<1>9. CASE IoFlush
  BY <1>9, BusyIrps, OnlyStatus DEF IInv, Types, IoFlush, Outcomes, IoBusy
<1>10. CASE IoFail
  BY <1>10, BusyIrps, OnlyStatus DEF IInv, Types, IoFail, IoBusy
<1>11. CASE IoWrite
  BY <1>11, IoWriteEffect DEF IInv, Types
<1>12. CASE IoRead
  BY <1>12, IoReadEffect DEF IInv, Types
<1>13. CASE IoFinishRead
  BY <1>13, IoFinishReadEffect DEF IInv, Types
<1>14. CASE CompletionDecrypt
  BY <1>14, CompletionDecryptEffect DEF IInv, Types
<1>15. ASSUME NEW k \in WorkItems, WorkCompleteIrp(k)
      PROVE  IrpType'
  BY <1>15, WorkIrp, OnlyState DEF IInv, Types, WorkCompleteIrp, MoveWork, Completing, IrpStates
<1>16. CASE irp' = irp
  BY <1>16 DEF IInv, Types, IrpType
<1> QED
  BY <1>1, <1>2, <1>3, <1>4, <1>5, <1>6, <1>7, <1>8, <1>9, <1>10, <1>11, <1>12, <1>13, <1>14,
      <1>15, <1>16, IrpChanges

LEMMA GateTypeStep ==
  ASSUME IInv, [Next]_vars
  PROVE  GateType'
<1>1. ASSUME NEW i \in Irps, NEW o \in Ops, AddIrp(i, o)
      PROVE  GateType'
  BY <1>1 DEF IInv, Types, AddIrp, FreshIrp, GateType
<1>2. ASSUME NEW i \in Irps, RejectIrp(i)
      PROVE  GateType'
  BY <1>2, DecrementEffect DEF IInv, Types, RejectIrp
<1>3. CASE MainResumed
  BY <1>3 DEF IInv, Types, MainResumed, GateType
<1>4. CASE IoFinishRead
  BY <1>4, IoFinishReadMoves DEF IInv, Types
<1>5. CASE IoReadAheadDone
  BY <1>5, DecrementEffect DEF IInv, Types, IoReadAheadDone
<1>6. ASSUME NEW k \in WorkItems, WorkCompleteItem(k)
      PROVE  GateType'
  BY <1>6, DecrementEffect DEF IInv, Types, WorkCompleteItem
<1>7. CASE HoldBegin
  BY <1>7 DEF IInv, Types, HoldBegin, MoveHold, GateType
<1>8. CASE HoldWoken
  BY <1>8 DEF IInv, Types, HoldWoken, MoveHold, GateType
<1>9. CASE HoldFail
  BY <1>9 DEF IInv, Types, HoldFail, GateType
<1>10. CASE HoldSuspend
  BY <1>10 DEF IInv, Types, HoldSuspend, MoveHold, GateType
<1>11. CASE HoldUndo
  BY <1>11 DEF IInv, Types, HoldUndo, MoveHold, GateType
<1>12. CASE HoldSucceed
  BY <1>12 DEF IInv, Types, HoldSucceed, MoveHold, GateType
<1>13. CASE ResumeFromHold
  BY <1>13 DEF IInv, Types, ResumeFromHold, GateType
<1>14. CASE StopBegin
  BY <1>14 DEF IInv, Types, StopBegin, MoveStop, GateType
<1>15. CASE StopDrain
  BY <1>15 DEF IInv, Types, StopDrain, MoveStop, GateType
<1>16. CASE StopWoken
  BY <1>16 DEF IInv, Types, StopWoken, MoveStop, GateType
<1>17. CASE gate' = gate
  BY <1>17 DEF IInv, Types, GateType
<1> QED
  BY <1>1, <1>2, <1>3, <1>4, <1>5, <1>6, <1>7, <1>8, <1>9, <1>10, <1>11, <1>12, <1>13, <1>14,
      <1>15, <1>16, <1>17, GateChanges

LEMMA MainTypeStep ==
  ASSUME IInv, [Next]_vars
  PROVE  MainType'
<1>1. ASSUME NEW i \in Irps, EnqueueIrp(i)
      PROVE  MainType'
  BY <1>1, EnqueueIrpEffect DEF IInv, Types
<1>2. CASE MainWait
  BY <1>2 DEF IInv, Types, MainWait, MainType, MainPcs
<1>3. CASE MainNext
  BY <1>3, MainNextEffect DEF IInv, Types
<1>4. CASE MainTestSuspended
  BY <1>4 DEF IInv, Types, MainTestSuspended, MainType, MainPcs
<1>5. CASE MainResumed
  BY <1>5 DEF IInv, Types, MainResumed, MainType, MainPcs
<1>6. CASE MainPoolEmpty("item", pool.items, "itemWait")
  BY <1>6 DEF IInv, Types, MainPoolEmpty, MainType, MainPcs
<1>7. CASE MainPoolWait("itemWait", "item")
  BY <1>7 DEF IInv, Types, MainPoolWait, MainType, MainPcs
<1>8. CASE MainGetItem
  BY <1>8 DEF IInv, Types, MainGetItem, MainType, MainPcs
<1>9. CASE MainRefuse
  BY <1>9 DEF IInv, Types, MainRefuse, SetStatus, MainType, MainPcs
<1>10. CASE MainStart
  BY <1>10, MainStartEffect DEF IInv, Types
<1>11. CASE MainReadMisaligned
  BY <1>11 DEF IInv, Types, MainReadMisaligned, Decrypt, MainType, MainPcs
<1>12. CASE MainComplete
  BY <1>12 DEF IInv, Types, MainComplete, QueueIrpCompletion, MainType, MainPcs
<1>13. CASE MainCountRequest
  BY <1>13, CountRequestEffect DEF IInv, Types
<1>14. CASE MainPoolEmpty("getRequest", pool.requests, "requestWait")
  BY <1>14 DEF IInv, Types, MainPoolEmpty, MainType, MainPcs
<1>15. CASE MainPoolWait("requestWait", "getRequest")
  BY <1>15 DEF IInv, Types, MainPoolWait, MainType, MainPcs
<1>16. CASE MainGetRequest
  BY <1>16, GetRequestEffect DEF IInv, Types
<1>17. CASE MainQueueFlush
  BY <1>17, MainIdleEffect DEF IInv, Types, MainQueueFlush
<1>18. CASE MainQueueFragment
  BY <1>18, QueueFragmentEffect DEF IInv, Types
<1>19. CASE StopThread
  BY <1>19 DEF IInv, Types, StopThread, MoveStop, MainType, MainPcs
<1>20. CASE main' = main
  BY <1>20 DEF IInv, Types, MainType
<1> QED
  BY <1>1, <1>2, <1>3, <1>4, <1>5, <1>6, <1>7, <1>8, <1>9, <1>10, <1>11, <1>12, <1>13, <1>14,
      <1>15, <1>16, <1>17, <1>18, <1>19, <1>20, MainChanges

LEMMA IoTypeStep ==
  ASSUME IInv, [Next]_vars
  PROVE  IoType'
<1>1. CASE MainCountRequest
  BY <1>1, CountRequestEffect DEF IInv, Types
<1>2. CASE MainQueueFlush
  BY <1>2, EnqueueRequestEffect DEF IInv, Types, MainQueueFlush
<1>3. CASE MainQueueFragment
  BY <1>3, EnqueueRequestEffect DEF IInv, Types, MainQueueFragment
<1>4. CASE IoWait
  BY <1>4 DEF IInv, Types, IoWait, IoType, IoPcs
<1>5. CASE IoNext
  BY <1>5, IoNextEffect DEF IInv, Types
<1>6. CASE IoFlush
  BY <1>6 DEF IInv, Types, IoFlush, SetStatus, Outcomes, IoKind, IoType, IoPcs
<1>7. CASE IoSkip
  BY <1>7 DEF IInv, Types, IoSkip, IoKind, IoType, IoPcs
<1>8. CASE IoFail
  BY <1>8 DEF IInv, Types, IoFail, SetStatus, IoKind, IoType, IoPcs
<1>9. CASE IoWrite
  BY <1>9 DEF IInv, Types, IoWrite, IoKind, IoType, IoPcs
<1>10. CASE IoRead
  BY <1>10 DEF IInv, Types, IoRead, IoKind, IoType, IoPcs
<1>11. CASE IoFinishWrite
  BY <1>11 DEF IInv, Types, IoFinishWrite, IoKind, FreeFragment, IoType, IoPcs
<1>12. CASE IoFinishRead
  BY <1>12, IoFinishReadMoves DEF IInv, Types
<1>13. CASE IoReadAhead
  BY <1>13 DEF IInv, Types, IoReadAhead, Outcomes, IoType, IoPcs
<1>14. CASE IoReadAheadDone
  BY <1>14, IoIdleEffect DEF IInv, Types, IoReadAheadDone
<1>15. CASE IoComplete
  BY <1>15 DEF IInv, Types, IoComplete, QueueIrpCompletion, IoType, IoPcs
<1>16. CASE IoRelease
  BY <1>16, IoIdleEffect DEF IInv, Types, IoRelease
<1>17. CASE StopThread
  BY <1>17 DEF IInv, Types, StopThread, MoveStop, IoType, IoPcs
<1>18. CASE io' = io
  BY <1>18 DEF IInv, Types, IoType
<1> QED
  BY <1>1, <1>2, <1>3, <1>4, <1>5, <1>6, <1>7, <1>8, <1>9, <1>10, <1>11, <1>12, <1>13, <1>14,
      <1>15, <1>16, <1>17, <1>18, IoChanges

LEMMA CompletionTypeStep ==
  ASSUME IInv, [Next]_vars
  PROVE  CompletionType'
<1>1. CASE IoFinishRead
  BY <1>1, IoFinishReadMoves DEF IInv, Types
<1>2. CASE CompletionWait
  BY <1>2 DEF IInv, Types, CompletionWait, CompletionType, CompletionPcs
<1>3. CASE CompletionNext
  BY <1>3, CompletionNextEffect DEF IInv, Types
<1>4. CASE CompletionDecrypt
  BY <1>4 DEF IInv, Types, CompletionDecrypt, Decrypt, CompletionType, CompletionPcs
<1>5. CASE CompletionComplete
  BY <1>5 DEF IInv, Types, CompletionComplete, QueueIrpCompletion, CompletionType, CompletionPcs
<1>6. CASE CompletionRelease
  BY <1>6, NoRequestType DEF IInv, Types, CompletionRelease, CompletionType, CompletionPcs
<1>7. CASE StopThread
  BY <1>7 DEF IInv, Types, StopThread, MoveStop, CompletionType, CompletionPcs
<1>8. CASE completion' = completion
  BY <1>8 DEF IInv, Types, CompletionType
<1> QED
  BY <1>1, <1>2, <1>3, <1>4, <1>5, <1>6, <1>7, <1>8, CompletionChanges

LEMMA PoolTypeStep ==
  ASSUME IInv, [Next]_vars
  PROVE  PoolType'
<1>1. CASE MainPoolWait("itemWait", "item")
  BY <1>1 DEF IInv, Types, MainPoolWait, PoolType
<1>2. CASE MainGetItem
  BY <1>2 DEF IInv, Types, MainGetItem, PoolType
<1>3. CASE MainPoolWait("requestWait", "getRequest")
  BY <1>3 DEF IInv, Types, MainPoolWait, PoolType
<1>4. CASE MainGetRequest
  BY <1>4, GetRequestEffect DEF IInv, Types
<1>5. CASE IoRelease
  BY <1>5, ReleaseEffect DEF IInv, Types, IoRelease
<1>6. CASE CompletionRelease
  BY <1>6, ReleaseEffect DEF IInv, Types, CompletionRelease
<1>7. CASE WorkReleaseItem
  BY <1>7, ReleaseItemEffect DEF IInv, Types
<1>8. CASE pool' = pool
  BY <1>8 DEF IInv, Types, PoolType
<1> QED
  BY <1>1, <1>2, <1>3, <1>4, <1>5, <1>6, <1>7, <1>8, PoolChanges

LEMMA FragmentTypeStep ==
  ASSUME IInv, [Next]_vars
  PROVE  FragmentType'
<1>1. CASE MainQueueFragment
  BY <1>1, QueueFragmentEffect DEF IInv, Types
<1>2. CASE IoRead
  BY <1>2, IoReadFragment DEF IInv, Types
<1>3. CASE IoFinishWrite
  BY <1>3, FinishBuffer, FreeFragmentEffect DEF IInv, Types, IoFinishWrite
<1>4. CASE IoFinishRead
  BY <1>4, IoFinishReadMoves DEF IInv, Types
<1>5. CASE fragment' = fragment
  BY <1>5 DEF IInv, Types, FragmentType
<1> QED
  BY <1>1, <1>2, <1>3, <1>4, <1>5, FragmentChanges

LEMMA CacheTypeStep ==
  ASSUME IInv, [Next]_vars
  PROVE  CacheType'
<1>1. CASE IoFinishWrite
  BY <1>1, NoCacheType DEF IInv, Types, IoFinishWrite, CacheType
<1>2. CASE IoReadAhead
  <2>1. PICK s \in Int : s = io.request.sector + 1
    BY IoSector DEF IInv
  <2>2. cache' = NoCache \/ (s \in Sectors /\ cache' =
               [valid |-> TRUE, sector |-> s, content |-> device[s]])
    BY <1>2, <2>1 DEF IoReadAhead
  <2>3. ASSUME NEW t \in Sectors
        PROVE  [valid |-> TRUE, sector |-> t, content |-> device[t]]
                 \in [valid : BOOLEAN, sector : Sectors, content : Sector]
    BY DEF IInv, Types, DeviceType
  <2> QED BY <2>2, <2>3, NoCacheType DEF CacheType
<1>3. CASE HoldSucceed
  BY <1>3, NoCacheType DEF IInv, Types, HoldSucceed, CacheType
<1>4. CASE cache' = cache
  BY <1>4 DEF IInv, Types, CacheType
<1> QED
  BY <1>1, <1>2, <1>3, <1>4, CacheChanges

LEMMA WorkTypeStep ==
  ASSUME IInv, [Next]_vars
  PROVE  WorkType'
<1>1. CASE MainComplete
  BY <1>1, MainIrp, BusyIrps, QueueEffect DEF IInv, Types, MainComplete, MainHasItem, IoBusy,
      CompletionBusy
<1>2. CASE IoComplete
  BY <1>2, MainIrp, BusyIrps, QueueEffect DEF IInv, Types, IoComplete, MainHasItem, IoBusy,
      CompletionBusy
<1>3. CASE CompletionComplete
  BY <1>3, MainIrp, BusyIrps, QueueEffect DEF IInv, Types, CompletionComplete, MainHasItem,
      IoBusy, CompletionBusy
<1>4. ASSUME NEW k \in WorkItems, WorkCompleteItem(k)
      PROVE  WorkType'
  BY <1>4 DEF IInv, Types, WorkCompleteItem, MoveWork, DecrementOutstandingIoCount, WorkType,
      WorkPcs
<1>5. ASSUME NEW k \in WorkItems, WorkCompleteIrp(k)
      PROVE  WorkType'
  BY <1>5 DEF IInv, Types, WorkCompleteIrp, MoveWork, WorkType, WorkPcs
<1>6. ASSUME NEW k \in WorkItems, WorkDecrement(k)
      PROVE  WorkType'
  BY <1>6 DEF IInv, Types, WorkDecrement, MoveWork, WorkType, WorkPcs
<1>7. ASSUME NEW k \in WorkItems, WorkSignal(k)
      PROVE  WorkType'
  BY <1>7 DEF IInv, Types, WorkSignal, MoveWork, WorkType, WorkPcs
<1>8. ASSUME NEW k \in WorkItems, WorkReturn(k)
      PROVE  WorkType'
  BY <1>8 DEF IInv, Types, WorkReturn, WorkType, WorkPcs
<1>9. CASE work' = work
  BY <1>9 DEF IInv, Types, WorkType
<1> QED
  BY <1>1, <1>2, <1>3, <1>4, <1>5, <1>6, <1>7, <1>8, <1>9, WorkChanges

LEMMA ActiveTypeStep ==
  ASSUME IInv, [Next]_vars
  PROVE  ActiveType'
<1>1. CASE MainComplete
  BY <1>1, MainIrp, BusyIrps, QueueEffect DEF IInv, Types, MainComplete, MainHasItem, IoBusy,
      CompletionBusy
<1>2. CASE IoComplete
  BY <1>2, MainIrp, BusyIrps, QueueEffect DEF IInv, Types, IoComplete, MainHasItem, IoBusy,
      CompletionBusy
<1>3. CASE CompletionComplete
  BY <1>3, MainIrp, BusyIrps, QueueEffect DEF IInv, Types, CompletionComplete, MainHasItem,
      IoBusy, CompletionBusy
<1>4. ASSUME NEW k \in WorkItems, WorkDecrement(k)
      PROVE  ActiveType'
  BY <1>4 DEF IInv, Types, WorkDecrement, MoveWork, ActiveType
<1>5. ASSUME NEW k \in WorkItems, WorkSignal(k)
      PROVE  ActiveType'
  BY <1>5 DEF IInv, Types, WorkSignal, MoveWork, ActiveType
<1>6. ASSUME NEW k \in WorkItems, WorkReturn(k)
      PROVE  ActiveType'
  BY <1>6 DEF IInv, Types, WorkReturn, ActiveType
<1>7. CASE WorkReleaseItem
  BY <1>7, ReleaseItemEffect DEF IInv, Types
<1>8. CASE StopResetActive
  BY <1>8 DEF IInv, Types, StopResetActive, MoveStop, ActiveType
<1>9. CASE active' = active
  BY <1>9 DEF IInv, Types, ActiveType
<1> QED
  BY <1>1, <1>2, <1>3, <1>4, <1>5, <1>6, <1>7, <1>8, <1>9, ActiveChanges

LEMMA DeviceTypeStep ==
  ASSUME IInv, [Next]_vars
  PROVE  DeviceType'
<1>1. CASE IoWrite
  BY <1>1, IoSector, WriteBuffer DEF IInv, Types, IoWrite, IoKind, DeviceType, FragmentType
<1>2. CASE HolderConvert
  <2>1. PICK s \in Sectors, c \in Sector : device' = [device EXCEPT ![s] = c]
    BY <1>2, Layers DEF IInv, Types, HolderConvert, DeviceType, EndType
  <2> QED BY <2>1 DEF IInv, Types, DeviceType
<1>3. CASE device' = device
  BY <1>3 DEF IInv, Types, DeviceType
<1> QED
  BY <1>1, <1>2, <1>3, DeviceChanges

LEMMA EndTypeStep ==
  ASSUME IInv, [Next]_vars
  PROVE  EndType'
<1>1. CASE HolderMoveEnd
  BY <1>1, HolderEnd DEF IInv, Types
<1>2. CASE encryptedEnd' = encryptedEnd
  BY <1>2 DEF IInv, Types, EndType
<1> QED
  BY <1>1, <1>2, EndChanges

LEMMA HoldTypeStep ==
  ASSUME IInv, [Next]_vars
  PROVE  HoldType'
<1>1. CASE HoldBegin
  BY <1>1 DEF IInv, Types, HoldBegin, MoveHold, HoldType, HoldPcs
<1>2. CASE HoldCheck
  BY <1>2 DEF IInv, Types, HoldCheck, MoveHold, HoldType, HoldPcs
<1>3. CASE HoldWoken
  BY <1>3 DEF IInv, Types, HoldWoken, MoveHold, HoldType, HoldPcs
<1>4. CASE HoldFail
  BY <1>4 DEF IInv, Types, HoldFail, HoldType, HoldPcs
<1>5. CASE HoldRecheck
  BY <1>5 DEF IInv, Types, HoldRecheck, MoveHold, HoldType, HoldPcs
<1>6. CASE HoldSuspend
  BY <1>6 DEF IInv, Types, HoldSuspend, MoveHold, HoldType, HoldPcs
<1>7. CASE HoldUndo
  BY <1>7 DEF IInv, Types, HoldUndo, MoveHold, HoldType, HoldPcs
<1>8. CASE HoldSucceed
  BY <1>8 DEF IInv, Types, HoldSucceed, MoveHold, HoldType, HoldPcs
<1>9. CASE HolderConvert
  BY <1>9 DEF IInv, Types, HolderConvert, MoveHold, Encrypt, Decrypt, HoldType, HoldPcs
<1>10. CASE HolderMoveEnd
  BY <1>10 DEF IInv, Types, HolderMoveEnd, HoldType, HoldPcs
<1>11. CASE ResumeFromHold
  BY <1>11 DEF IInv, Types, ResumeFromHold, HoldType, HoldPcs
<1>12. CASE hold' = hold
  BY <1>12 DEF IInv, Types, HoldType
<1> QED
  BY <1>1, <1>2, <1>3, <1>4, <1>5, <1>6, <1>7, <1>8, <1>9, <1>10, <1>11, <1>12, HoldChanges

LEMMA StopTypeStep ==
  ASSUME IInv, [Next]_vars
  PROVE  StopType'
<1>1. CASE StopBegin
  BY <1>1 DEF IInv, Types, StopBegin, MoveStop, StopType, StopPcs
<1>2. CASE StopDrain
  BY <1>2 DEF IInv, Types, StopDrain, MoveStop, StopType, StopPcs
<1>3. CASE StopWoken
  BY <1>3 DEF IInv, Types, StopWoken, MoveStop, StopType, StopPcs
<1>4. CASE StopThread
  BY <1>4 DEF IInv, Types, StopThread, MoveStop, StopType, StopPcs
<1>5. CASE StopJoin
  BY <1>5 DEF IInv, Types, StopJoin, MoveStop, StopType, StopPcs
<1>6. CASE StopResetActive
  BY <1>6 DEF IInv, Types, StopResetActive, MoveStop, StopType, StopPcs
<1>7. CASE StopTestActive
  BY <1>7 DEF IInv, Types, StopTestActive, MoveStop, StopType, StopPcs
<1>8. CASE StopWaitActive
  BY <1>8 DEF IInv, Types, StopWaitActive, MoveStop, StopType, StopPcs
<1>9. CASE stop' = stop
  BY <1>9 DEF IInv, Types, StopType
<1> QED
  BY <1>1, <1>2, <1>3, <1>4, <1>5, <1>6, <1>7, <1>8, <1>9, StopChanges

LEMMA TypesStep ==
  ASSUME IInv, [Next]_vars
  PROVE  Types'
  BY IrpTypeStep, GateTypeStep, MainTypeStep, IoTypeStep, CompletionTypeStep,
     PoolTypeStep, FragmentTypeStep, CacheTypeStep, WorkTypeStep, ActiveTypeStep,
     DeviceTypeStep, EndTypeStep, HoldTypeStep, StopTypeStep DEF Types

-----------------------------------------------------------------------------
(* The flags of the queue and the end of the encrypted area.               *)

\* OutstandingIoCount is never negative, and 0 only if no IRP is counted.
LEMMA OutstandingNat ==
  ASSUME IInv
  PROVE  /\ gate.outstanding \in Nat
         /\ gate.outstanding = 0 =>
              Counted = {} /\ io.pc \notin {"readAhead", "readAheadDone"}
<1>1. IsFiniteSet(Counted)
  BY IrpsAssumption, FS_Subset DEF Counted
<1>2. Cardinality(Counted) \in Nat /\ (Cardinality(Counted) = 0 <=> Counted = {})
  BY <1>1, FS_CardinalityType, FS_EmptySet
<1> QED BY <1>2 DEF IInv, OutstandingInv, ReadsAhead, One

\* A thread exits only when it is told to.
LEMMA MainExits ==
  ASSUME IInv, Types', [Next]_vars
  PROVE  main'.pc = "exited" => main.pc = "exited" \/ gate.threadExit
<1>1. ASSUME NEW i \in Irps, EnqueueIrp(i)
      PROVE  main'.pc = "exited" => main.pc = "exited" \/ gate.threadExit
  BY <1>1, EnqueueIrpEffect DEF IInv, Types
<1>2. CASE MainWait
  BY <1>2 DEF IInv, Types, MainWait, MainType, MainPcs
<1>3. CASE MainNext
  BY <1>3, MainNextEffect DEF IInv, Types
<1>4. CASE MainTestSuspended
  BY <1>4 DEF IInv, Types, MainTestSuspended, MainType, MainPcs
<1>5. CASE MainResumed
  BY <1>5 DEF IInv, Types, MainResumed, MainType, MainPcs
<1>6. CASE MainPoolEmpty("item", pool.items, "itemWait")
  BY <1>6 DEF IInv, Types, MainPoolEmpty, MainType, MainPcs
<1>7. CASE MainPoolWait("itemWait", "item")
  BY <1>7 DEF IInv, Types, MainPoolWait, MainType, MainPcs
<1>8. CASE MainGetItem
  BY <1>8 DEF IInv, Types, MainGetItem, MainType, MainPcs
<1>9. CASE MainRefuse
  BY <1>9 DEF IInv, Types, MainRefuse, SetStatus, MainType, MainPcs
<1>10. CASE MainStart
  BY <1>10, MainStartEffect DEF IInv, Types
<1>11. CASE MainReadMisaligned
  BY <1>11 DEF IInv, Types, MainReadMisaligned, Decrypt, MainType, MainPcs
<1>12. CASE MainComplete
  BY <1>12 DEF IInv, Types, MainComplete, QueueIrpCompletion, MainType, MainPcs
<1>13. CASE MainCountRequest
  BY <1>13 DEF IInv, Types, MainCountRequest, MainType, MainPcs
<1>14. CASE MainPoolEmpty("getRequest", pool.requests, "requestWait")
  BY <1>14 DEF IInv, Types, MainPoolEmpty, MainType, MainPcs
<1>15. CASE MainPoolWait("requestWait", "getRequest")
  BY <1>15 DEF IInv, Types, MainPoolWait, MainType, MainPcs
<1>16. CASE MainGetRequest
  BY <1>16, GetRequestEffect DEF IInv, Types
<1>17. CASE MainQueueFlush
  BY <1>17, MainIdleEffect DEF IInv, Types, MainQueueFlush
<1>18. CASE MainQueueFragment
  BY <1>18, QueueFragmentEffect DEF IInv, Types
<1>19. CASE StopThread
  BY <1>19 DEF IInv, Types, StopThread, MoveStop, MainType, MainPcs
<1>20. CASE UNCHANGED <<main>>
  BY <1>20 DEF IInv, MainPcs
<1> QED
  BY <1>1, <1>2, <1>3, <1>4, <1>5, <1>6, <1>7, <1>8, <1>9, <1>10, <1>11, <1>12, <1>13, <1>14,
      <1>15, <1>16, <1>17, <1>18, <1>19, <1>20, MainChanges

LEMMA IoExits ==
  ASSUME IInv, Types', [Next]_vars
  PROVE  io'.pc = "exited" => io.pc = "exited" \/ gate.threadExit
<1>1. CASE MainCountRequest
  BY <1>1, CountRequestEffect DEF IInv, Types
<1>2. CASE MainQueueFlush
  BY <1>2, EnqueueRequestEffect DEF IInv, Types, MainQueueFlush
<1>3. CASE MainQueueFragment
  BY <1>3, EnqueueRequestEffect DEF IInv, Types, MainQueueFragment
<1>4. CASE IoWait
  BY <1>4 DEF IInv, Types, IoWait, IoType, IoPcs
<1>5. CASE IoNext
  BY <1>5, IoNextEffect DEF IInv, Types
<1>6. CASE IoFlush
  BY <1>6 DEF IInv, Types, IoFlush, SetStatus, Outcomes, IoKind, IoType, IoPcs
<1>7. CASE IoSkip
  BY <1>7 DEF IInv, Types, IoSkip, IoKind, IoType, IoPcs
<1>8. CASE IoFail
  BY <1>8 DEF IInv, Types, IoFail, SetStatus, IoKind, IoType, IoPcs
<1>9. CASE IoWrite
  BY <1>9 DEF IInv, Types, IoWrite, IoKind, IoType, IoPcs
<1>10. CASE IoRead
  BY <1>10 DEF IInv, Types, IoRead, IoKind, IoType, IoPcs
<1>11. CASE IoFinishWrite
  BY <1>11 DEF IInv, Types, IoFinishWrite, IoKind, FreeFragment, IoType, IoPcs
<1>12. CASE IoFinishRead
  BY <1>12, IoFinishReadMoves DEF IInv, Types
<1>13. CASE IoReadAhead
  BY <1>13 DEF IInv, Types, IoReadAhead, Outcomes, IoType, IoPcs
<1>14. CASE IoReadAheadDone
  BY <1>14, IoIdleEffect DEF IInv, Types, IoReadAheadDone
<1>15. CASE IoComplete
  BY <1>15 DEF IInv, Types, IoComplete, QueueIrpCompletion, IoType, IoPcs
<1>16. CASE IoRelease
  BY <1>16, IoIdleEffect DEF IInv, Types, IoRelease
<1>17. CASE StopThread
  BY <1>17 DEF IInv, Types, StopThread, MoveStop, IoType, IoPcs
<1>18. CASE UNCHANGED <<io>>
  BY <1>18 DEF IInv, IoPcs
<1> QED
  BY <1>1, <1>2, <1>3, <1>4, <1>5, <1>6, <1>7, <1>8, <1>9, <1>10, <1>11, <1>12, <1>13, <1>14,
      <1>15, <1>16, <1>17, <1>18, IoChanges

LEMMA CompletionExits ==
  ASSUME IInv, Types', [Next]_vars
  PROVE  completion'.pc = "exited" => completion.pc = "exited" \/ gate.threadExit
<1>1. CASE IoFinishRead
  BY <1>1, IoFinishReadMoves DEF IInv, Types
<1>2. CASE CompletionWait
  BY <1>2 DEF IInv, Types, CompletionWait, CompletionType, CompletionPcs
<1>3. CASE CompletionNext
  BY <1>3, CompletionNextEffect DEF IInv, Types
<1>4. CASE CompletionDecrypt
  BY <1>4 DEF IInv, Types, CompletionDecrypt, Decrypt, CompletionType, CompletionPcs
<1>5. CASE CompletionComplete
  BY <1>5 DEF IInv, Types, CompletionComplete, QueueIrpCompletion, CompletionType, CompletionPcs
<1>6. CASE CompletionRelease
  BY <1>6 DEF IInv, Types, CompletionRelease, ReleaseRequest, CompletionType, CompletionPcs
<1>7. CASE StopThread
  BY <1>7 DEF IInv, Types, StopThread, MoveStop, CompletionType, CompletionPcs
<1>8. CASE UNCHANGED <<completion>>
  BY <1>8 DEF IInv, CompletionPcs
<1> QED
  BY <1>1, <1>2, <1>3, <1>4, <1>5, <1>6, <1>7, <1>8, CompletionChanges

\* The flags and the control points of who holds and who stops the queue.
GateFlags ==
  /\ gate.suspended <=> IsHeld \/ hold = "verify"
  /\ gate.suspended => ~gate.queueResumed
  /\ hold # "idle" => ~gate.stopPending
  /\ gate.stopPending <=> stop # "idle"
  /\ gate.threadExit <=> stop \in Stopped

LEMMA GateFlagsStep ==
  ASSUME IInv, Types', [Next]_vars
  PROVE  GateFlags' /\ (gate.threadExit => gate'.threadExit)
<1>1. ASSUME NEW i \in Irps, NEW o \in Ops, AddIrp(i, o)
      PROVE  GateFlags' /\ (gate.threadExit => gate'.threadExit)
  BY <1>1 DEF IInv, Types, AddIrp, FreshIrp, GateType, GateInv, GateFlags, IsHeld, Stopped
<1>2. ASSUME NEW i \in Irps, RejectIrp(i)
      PROVE  GateFlags' /\ (gate.threadExit => gate'.threadExit)
  BY <1>2, DecrementEffect DEF IInv, Types, RejectIrp, SameFlags, GateInv, GateFlags, IsHeld,
      Stopped
<1>3. CASE MainResumed
  BY <1>3 DEF IInv, Types, MainResumed, GateType, GateInv, GateFlags, IsHeld, Stopped
<1>4. CASE IoFinishRead
  BY <1>4, IoFinishReadMoves DEF IInv, Types, IoFinishRead, SameFlags, GateInv, GateFlags, IsHeld,
      Stopped
<1>5. CASE IoReadAheadDone
  BY <1>5, DecrementEffect DEF IInv, Types, IoReadAheadDone, SameFlags, GateInv, GateFlags,
      IsHeld, Stopped
<1>6. ASSUME NEW k \in WorkItems, WorkCompleteItem(k)
      PROVE  GateFlags' /\ (gate.threadExit => gate'.threadExit)
  BY <1>6, DecrementEffect DEF IInv, Types, WorkCompleteItem, SameFlags, GateInv, GateFlags,
      IsHeld, Stopped
<1>7. CASE HoldBegin
  BY <1>7 DEF IInv, Types, HoldBegin, MoveHold, GateType, HoldType, GateInv, GateFlags, IsHeld,
      Stopped
<1>8. CASE HoldCheck
  BY <1>8 DEF IInv, Types, HoldCheck, MoveHold, HoldType, GateInv, GateFlags, IsHeld, Stopped
<1>9. CASE HoldWoken
  BY <1>9 DEF IInv, Types, HoldWoken, MoveHold, GateType, HoldType, GateInv, GateFlags, IsHeld,
      Stopped
<1>10. CASE HoldFail
  BY <1>10 DEF IInv, Types, HoldFail, GateType, HoldType, GateInv, GateFlags, IsHeld, Stopped
<1>11. CASE HoldRecheck
  BY <1>11 DEF IInv, Types, HoldRecheck, MoveHold, HoldType, GateInv, GateFlags, IsHeld, Stopped
<1>12. CASE HoldSuspend
  BY <1>12 DEF IInv, Types, HoldSuspend, MoveHold, GateType, HoldType, GateInv, GateFlags,
      IsHeld, Stopped
<1>13. CASE HoldUndo
  BY <1>13 DEF IInv, Types, HoldUndo, MoveHold, GateType, HoldType, GateInv, GateFlags, IsHeld,
      Stopped
<1>14. CASE HoldSucceed
  BY <1>14 DEF IInv, Types, HoldSucceed, MoveHold, GateType, HoldType, GateInv, GateFlags,
      IsHeld, Stopped
<1>15. CASE HolderConvert
  BY <1>15 DEF IInv, Types, HolderConvert, MoveHold, Encrypt, Decrypt, HoldType, GateInv,
      GateFlags, IsHeld, Stopped
<1>16. CASE HolderMoveEnd
  BY <1>16 DEF IInv, Types, HolderMoveEnd, HoldType, GateInv, GateFlags, IsHeld, Stopped
<1>17. CASE ResumeFromHold
  BY <1>17 DEF IInv, Types, ResumeFromHold, GateType, HoldType, GateInv, GateFlags, IsHeld,
      Stopped
<1>18. CASE StopBegin
  BY <1>18 DEF IInv, Types, StopBegin, MoveStop, GateType, StopType, GateInv, GateFlags, IsHeld,
      Stopped
<1>19. CASE StopDrain
  <2>1. gate.outstanding \in Nat
    BY OutstandingNat
  <2>2. CASE gate.outstanding = 0
    <3>1. gate' = [gate EXCEPT !.threadExit = TRUE]
      BY <1>19, <2>2, Zenon DEF StopDrain
    <3>2. stop = "drain" /\ stop' = "stopMain" /\ hold' = hold
      BY <1>19, <2>2 DEF StopDrain, MoveStop
    <3> QED BY <3>1, <3>2 DEF IInv, Types, GateType, GateInv, GateFlags, IsHeld, Stopped
  <2>3. CASE gate.outstanding > 0
    <3>1. gate' = [gate EXCEPT !.threadExit = FALSE]
      <4>1. (gate.outstanding = 0) = FALSE
        BY <2>3
      <4> QED BY <1>19, <4>1 DEF StopDrain
    <3>2. stop = "drain" /\ stop' = "waitIdle" /\ hold' = hold
      BY <1>19, <2>3 DEF StopDrain, MoveStop
    <3> QED BY <3>1, <3>2 DEF IInv, Types, GateType, GateInv, GateFlags, IsHeld, Stopped
  <2> QED BY <2>1, <2>2, <2>3
<1>20. CASE StopWoken
  BY <1>20 DEF IInv, Types, StopWoken, MoveStop, GateType, StopType, GateInv, GateFlags, IsHeld,
      Stopped
<1>21. CASE StopThread
  BY <1>21 DEF IInv, Types, StopThread, MoveStop, StopType, GateInv, GateFlags, IsHeld, Stopped
<1>22. CASE StopJoin
  BY <1>22 DEF IInv, Types, StopJoin, MoveStop, StopType, GateInv, GateFlags, IsHeld, Stopped
<1>23. CASE StopResetActive
  BY <1>23 DEF IInv, Types, StopResetActive, MoveStop, StopType, GateInv, GateFlags, IsHeld,
      Stopped
<1>24. CASE StopTestActive
  BY <1>24 DEF IInv, Types, StopTestActive, MoveStop, StopType, GateInv, GateFlags, IsHeld,
      Stopped
<1>25. CASE StopWaitActive
  BY <1>25 DEF IInv, Types, StopWaitActive, MoveStop, StopType, GateInv, GateFlags, IsHeld,
      Stopped
<1>26. CASE UNCHANGED <<gate, hold, stop>>
  BY <1>26 DEF IInv, GateInv, GateFlags, IsHeld, Stopped
<1> QED
  BY <1>1, <1>2, <1>3, <1>4, <1>5, <1>6, <1>7, <1>8, <1>9, <1>10, <1>11, <1>12, <1>13, <1>14,
      <1>15, <1>16, <1>17, <1>18, <1>19, <1>20, <1>21, <1>22, <1>23, <1>24, <1>25, <1>26,
      GateChanges, HoldChanges, StopChanges

LEMMA GateInvStep ==
  ASSUME IInv, Types', [Next]_vars
  PROVE  GateInv'
  BY MainExits, IoExits, CompletionExits, GateFlagsStep DEF IInv, GateInv, GateFlags

LEMMA EndInvStep ==
  ASSUME IInv, Types', [Next]_vars
  PROVE  EndInv'
<1>1. CASE HoldBegin
  BY <1>1 DEF IInv, Types, HoldBegin, MoveHold, HoldType, EndInv
<1>2. CASE HoldCheck
  BY <1>2 DEF IInv, Types, HoldCheck, MoveHold, HoldType, EndInv
<1>3. CASE HoldWoken
  BY <1>3 DEF IInv, Types, HoldWoken, MoveHold, HoldType, EndInv
<1>4. CASE HoldFail
  BY <1>4 DEF IInv, Types, HoldFail, HoldType, EndInv
<1>5. CASE HoldRecheck
  BY <1>5 DEF IInv, Types, HoldRecheck, MoveHold, HoldType, EndInv
<1>6. CASE HoldSuspend
  BY <1>6 DEF IInv, Types, HoldSuspend, MoveHold, HoldType, EndInv
<1>7. CASE HoldUndo
  BY <1>7 DEF IInv, Types, HoldUndo, MoveHold, HoldType, EndInv
<1>8. CASE HoldSucceed
  BY <1>8 DEF IInv, Types, HoldSucceed, MoveHold, HoldType, EndInv
<1>9. CASE HolderConvert
  BY <1>9 DEF IInv, Types, HolderConvert, MoveHold, Encrypt, Decrypt, HoldType, EndInv
<1>10. CASE HolderMoveEnd
  BY <1>10 DEF IInv, Types, HolderMoveEnd, EndType, HoldType, EndInv
<1>11. CASE ResumeFromHold
  BY <1>11 DEF IInv, Types, ResumeFromHold, HoldType, EndInv
<1>12. CASE UNCHANGED <<hold, encryptedEnd>>
  BY <1>12 DEF IInv, EndInv
<1> QED
  BY <1>1, <1>2, <1>3, <1>4, <1>5, <1>6, <1>7, <1>8, <1>9, <1>10, <1>11, <1>12, HoldChanges,
      EndChanges


-----------------------------------------------------------------------------
(* IRPs on their way.                                                      *)

\* What a step may do to the state and the request of an IRP.
IrpStep(i) ==
  /\ irp[i].state \in {"counted", "accepted", "queued", "item"} => irp'[i].op = irp[i].op
  /\ irp[i].state = "queued" =>
       irp'[i].state = "queued" \/ (MainGetItem /\ i = main.irp)
  /\ irp[i].state = "item" =>
       \/ irp'[i].state = "item"
       \/ \E k \in WorkItems : WorkCompleteIrp(k) /\ work[k].irp = i
  /\ irp'[i].state = "item" =>
       irp[i].state = "item" \/ (MainGetItem /\ i = main.irp /\ irp[i].state = "queued")
  /\ irp'[i].state = "queued" => irp[i].state = "queued" \/ EnqueueIrp(i)

LEMMA IrpSteps ==
  ASSUME IInv, [Next]_vars, NEW j \in Irps
  PROVE  IrpStep(j)
<1>1. ASSUME NEW i \in Irps, NEW o \in Ops, AddIrp(i, o)
      PROVE  IrpStep(j)
  BY <1>1, AddIrpEffect DEF IInv, IrpStep
<1>2. ASSUME NEW i \in Irps, RejectIrp(i)
      PROVE  IrpStep(j)
  <2>1. /\ irp[i].state = "counted" /\ irp'[i].state = "completed" /\ irp'[i].op = irp[i].op
        /\ \A m \in Irps : m # i => irp'[m] = irp[m]
    BY <1>2, StateUpdate DEF IInv, Types, RejectIrp, IrpStates
  <2> QED BY <1>2, <2>1 DEF IrpStep
<1>3. ASSUME NEW i \in Irps, AcceptIrp(i)
      PROVE  IrpStep(j)
  BY <1>3, OnlyState DEF IInv, Types, AcceptIrp, IrpStates, IrpStep
<1>4. ASSUME NEW i \in Irps, EnqueueIrp(i)
      PROVE  IrpStep(j)
  <2>1. /\ irp[i].state = "accepted" /\ irp'[i].state = "queued" /\ irp'[i].op = irp[i].op
        /\ \A m \in Irps : m # i => irp'[m] = irp[m]
    BY <1>4, OnlyState DEF IInv, Types, EnqueueIrp, IrpStates
  <2> QED BY <1>4, <2>1 DEF IrpStep
<1>5. ASSUME NEW i \in Irps, Collect(i)
      PROVE  IrpStep(j)
  BY <1>5, IrpUpdate, FreeIrpFields DEF IInv, Types, Collect, IrpStep
<1>6. CASE MainGetItem
  <2>1. main.irp \in Irps /\ irp[main.irp].state = "queued"
    BY <1>6 DEF IInv, MainInv, MainGetItem, MainQueued
  <2> QED BY <1>6, <2>1, OnlyState DEF IInv, Types, MainGetItem, IrpStates, IrpStep
<1>7. CASE MainRefuse
  BY <1>7, MainIrp, OnlyStatus DEF IInv, Types, MainRefuse, MainHasItem, IrpStep
<1>8. CASE MainReadMisaligned
  BY <1>8, MainReadMisalignedEffect DEF IInv, Types, IrpStep
<1>9. CASE IoFlush
  BY <1>9, BusyIrps, OnlyStatus DEF IInv, Types, IoFlush, Outcomes, IoBusy, IrpStep
<1>10. CASE IoFail
  BY <1>10, BusyIrps, OnlyStatus DEF IInv, Types, IoFail, IoBusy, IrpStep
<1>11. CASE IoWrite
  BY <1>11, IoWriteEffect DEF IInv, Types, IrpStep
<1>12. CASE IoRead
  BY <1>12, IoReadEffect DEF IInv, Types, IrpStep
<1>13. CASE IoFinishRead
  BY <1>13, IoFinishReadEffect DEF IInv, Types, IrpStep
<1>14. CASE CompletionDecrypt
  BY <1>14, CompletionDecryptEffect DEF IInv, Types, IrpStep
<1>15. ASSUME NEW k \in WorkItems, WorkCompleteIrp(k)
      PROVE  IrpStep(j)
  <2>1. Completing(k)
    BY <1>15 DEF WorkCompleteIrp, MoveWork, Completing
  <2>2. work[k].irp \in Irps /\ irp[work[k].irp].state = "item"
    BY <2>1, WorkIrp DEF IInv
  <2>3. /\ irp'[work[k].irp].state = "completed" /\ irp'[work[k].irp].op = irp[work[k].irp].op
        /\ \A m \in Irps : m # work[k].irp => irp'[m] = irp[m]
    BY <1>15, <2>2, OnlyState DEF IInv, Types, WorkCompleteIrp, IrpStates
  <2> QED BY <1>15, <2>2, <2>3 DEF IrpStep
<1>16. CASE UNCHANGED <<irp>>
  BY <1>16 DEF IInv, IrpStep
<1> QED
  BY <1>1, <1>2, <1>3, <1>4, <1>5, <1>6, <1>7, <1>8, <1>9, <1>10, <1>11, <1>12, <1>13, <1>14,
      <1>15, <1>16, IrpChanges


\* What a step may do to a work item.
WorkStep(k) ==
  \/ work'[k] = work[k]
  \/ /\ work[k].pc = "free" /\ work'[k].pc = "completeItem"
     /\ \/ MainComplete /\ work'[k].irp = main.irp
        \/ IoComplete /\ work'[k].irp = io.request.irp
        \/ CompletionComplete /\ work'[k].irp = completion.request.irp
     /\ \A j \in WorkItems : j # k => work'[j] = work[j]
  \/ /\ WorkCompleteItem(k) /\ work[k].pc = "completeItem" /\ work'[k].pc = "completeIrp"
     /\ work'[k].irp = work[k].irp
  \/ /\ WorkCompleteIrp(k) /\ work[k].pc = "completeIrp" /\ work'[k].pc = "decrement"
     /\ work'[k].irp = work[k].irp
  \/ /\ work[k].pc \in {"decrement", "signal", "return"}
     /\ work'[k].pc \in {"signal", "return", "free"}

LEMMA WorkSteps ==
  ASSUME IInv, [Next]_vars, NEW j \in WorkItems
  PROVE  WorkStep(j)
<1>1. CASE MainComplete
  BY <1>1, MainIrp, BusyIrps, QueueEffect DEF IInv, Types, MainComplete, MainHasItem, IoBusy,
      CompletionBusy, WorkStep
<1>2. CASE IoComplete
  BY <1>2, MainIrp, BusyIrps, QueueEffect DEF IInv, Types, IoComplete, MainHasItem, IoBusy,
      CompletionBusy, WorkStep
<1>3. CASE CompletionComplete
  BY <1>3, MainIrp, BusyIrps, QueueEffect DEF IInv, Types, CompletionComplete, MainHasItem,
      IoBusy, CompletionBusy, WorkStep
<1>4. ASSUME NEW k \in WorkItems, WorkCompleteItem(k)
      PROVE  WorkStep(j)
  BY <1>4 DEF IInv, Types, WorkCompleteItem, MoveWork, DecrementOutstandingIoCount, WorkType,
      WorkStep
<1>5. ASSUME NEW k \in WorkItems, WorkCompleteIrp(k)
      PROVE  WorkStep(j)
  BY <1>5 DEF IInv, Types, WorkCompleteIrp, MoveWork, WorkType, WorkStep
<1>6. ASSUME NEW k \in WorkItems, WorkDecrement(k)
      PROVE  WorkStep(j)
  BY <1>6 DEF IInv, Types, WorkDecrement, MoveWork, WorkType, WorkStep
<1>7. ASSUME NEW k \in WorkItems, WorkSignal(k)
      PROVE  WorkStep(j)
  BY <1>7 DEF IInv, Types, WorkSignal, MoveWork, WorkType, WorkStep
<1>8. ASSUME NEW k \in WorkItems, WorkReturn(k)
      PROVE  WorkStep(j)
  BY <1>8 DEF IInv, Types, WorkReturn, WorkType, WorkStep
<1>9. CASE UNCHANGED <<work>>
  BY <1>9 DEF IInv, WorkStep
<1> QED
  BY <1>1, <1>2, <1>3, <1>4, <1>5, <1>6, <1>7, <1>8, <1>9, WorkChanges


\* The IRP is in progress after the step.
StillInProgress(i) ==
  /\ i \in Irps /\ irp'[i].state = "item"
  /\ \A k \in WorkItems : work'[k].pc \in {"completeItem", "completeIrp"} => work'[k].irp # i

\* Who has an IRP in progress keeps it until it is handed to a work item.
LEMMA InProgressKept ==
  ASSUME IInv, [Next]_vars, NEW i, InProgress(i),
         MainComplete => i # main.irp,
         IoComplete => i # io.request.irp,
         CompletionComplete => i # completion.request.irp
  PROVE  StillInProgress(i) /\ irp'[i].op = irp[i].op
<1>1. i \in Irps /\ irp[i].state = "item"
  BY DEF InProgress
<1>2. IrpStep(i)
  BY <1>1, IrpSteps
<1>3. ASSUME NEW k \in WorkItems, WorkCompleteIrp(k)
      PROVE  work[k].irp # i
  BY <1>3 DEF InProgress, WorkCompleteIrp, MoveWork, Completing
<1>4. irp'[i].state = "item" /\ irp'[i].op = irp[i].op
  BY <1>1, <1>2, <1>3 DEF IrpStep
<1>5. ASSUME NEW k \in WorkItems, work'[k].pc \in {"completeItem", "completeIrp"}
      PROVE  work'[k].irp # i
  BY <1>5, WorkSteps DEF WorkStep, InProgress, Completing
<1> QED BY <1>1, <1>4, <1>5 DEF StillInProgress

\* Where the IRPs of requests under way, and that of the main thread, are not
\* the one that a step hands to a work item.
LEMMA OthersHanded ==
  ASSUME IInv
  PROVE  /\ MainComplete =>
              /\ \A n \in 1 .. Len(io.queue) : io.queue[n].irp # main.irp
              /\ IoBusy => io.request.irp # main.irp
              /\ \A n \in 1 .. Len(completion.queue) : completion.queue[n].irp # main.irp
              /\ CompletionBusy => completion.request.irp # main.irp
         /\ IoComplete =>
              /\ \A n \in 1 .. Len(io.queue) : io.queue[n].irp # io.request.irp
              /\ main.irp # io.request.irp
              /\ \A n \in 1 .. Len(completion.queue) :
                   completion.queue[n].irp # io.request.irp
              /\ CompletionBusy => completion.request.irp # io.request.irp
         /\ CompletionComplete =>
              /\ \A n \in 1 .. Len(io.queue) : io.queue[n].irp # completion.request.irp
              /\ IoBusy => io.request.irp # completion.request.irp
              /\ \A n \in 1 .. Len(completion.queue) :
                   completion.queue[n].irp # completion.request.irp
              /\ main.irp # completion.request.irp
<1>1. MainComplete => ~MainRequesting
  BY DEF MainComplete, MainRequesting
<1>2. IoComplete => io.request.last /\ IoBusy /\ Kind(io.request.irp) # "read"
  BY DEF IInv, ServedInv, IoComplete, IoBusy
<1>3. CompletionComplete => completion.request.last /\ CompletionBusy
  BY DEF IInv, ServedInv, CompletionComplete, CompletionBusy
<1>4. /\ \A n \in 1 .. Len(completion.queue) : Kind(completion.queue[n].irp) = "read"
      /\ CompletionBusy => Kind(completion.request.irp) = "read"
  BY DEF IInv, ServedInv, CompletionRequest
<1> QED BY <1>1, <1>2, <1>3, <1>4
           DEF IInv, OrderInv, BeforeMainInv, BeforeMain, PrecedesAll, Precedes


\* An IRP is handed to one work item, once.
LEMMA WorkInvStep ==
  ASSUME IInv, [Next]_vars
  PROVE  WorkInv'
<1> DEFINE New(k) ==
      \/ MainComplete /\ work'[k].irp = main.irp
      \/ IoComplete /\ work'[k].irp = io.request.irp
      \/ CompletionComplete /\ work'[k].irp = completion.request.irp
<1>1. ASSUME NEW k \in WorkItems, work'[k].pc \in {"completeItem", "completeIrp"}
      PROVE  \/ /\ Completing(k) /\ work'[k].irp = work[k].irp /\ ~WorkCompleteIrp(k)
             \/ /\ New(k) /\ InProgress(work'[k].irp) /\ irp' = irp
                /\ work[k].pc = "free" /\ \A j \in WorkItems : j # k => work'[j] = work[j]
  <2>1. CASE work'[k] = work[k]
    <3>1. ASSUME WorkCompleteIrp(k)
          PROVE  FALSE
      BY <3>1, <2>1, <1>1 DEF WorkCompleteIrp, MoveWork, IInv, Types, WorkType
    <3> QED BY <1>1, <2>1, <3>1 DEF Completing
  <2>2. CASE /\ work[k].pc = "free" /\ work'[k].pc = "completeItem" /\ New(k)
             /\ \A j \in WorkItems : j # k => work'[j] = work[j]
    <3>1. MainComplete => InProgress(main.irp) /\ irp' = irp
      BY DEF IInv, MainInv, MainComplete, MainHasItem
    <3>2. IoComplete => InProgress(io.request.irp) /\ irp' = irp
      BY DEF IInv, ServedInv, IoRequest, IoComplete, IoBusy
    <3>3. CompletionComplete => InProgress(completion.request.irp) /\ irp' = irp
      BY DEF IInv, ServedInv, CompletionRequest, CompletionComplete, CompletionBusy
    <3> QED BY <2>2, <3>1, <3>2, <3>3
  <2>3. CASE /\ WorkCompleteItem(k) /\ work[k].pc = "completeItem"
             /\ work'[k].pc = "completeIrp" /\ work'[k].irp = work[k].irp
    BY <2>3 DEF Completing, WorkCompleteIrp, MoveWork
  <2> QED BY <1>1, <2>1, <2>2, <2>3, WorkSteps DEF WorkStep
<1>2. ASSUME NEW k \in WorkItems, Completing(k), ~WorkCompleteIrp(k)
      PROVE  work[k].irp \in Irps /\ irp'[work[k].irp].state = "item"
  <2>1. work[k].irp \in Irps /\ irp[work[k].irp].state = "item"
    BY <1>2 DEF IInv, WorkInv
  <2>2. ASSUME NEW j \in WorkItems, WorkCompleteIrp(j), work[j].irp = work[k].irp
        PROVE  FALSE
    BY <1>2, <2>2 DEF IInv, WorkInv, Completing, WorkCompleteIrp, MoveWork
  <2> QED BY <2>1, <2>2, IrpSteps DEF IrpStep
<1> HIDE DEF New
<1>3. ASSUME NEW k \in WorkItems, work'[k].pc \in {"completeItem", "completeIrp"}
      PROVE  /\ work'[k].irp \in Irps /\ irp'[work'[k].irp].state = "item"
             /\ \A j \in WorkItems :
                  work'[j].pc \in {"completeItem", "completeIrp"} /\ work'[j].irp = work'[k].irp
                    => j = k
  <2>1. work'[k].irp \in Irps /\ irp'[work'[k].irp].state = "item"
    BY <1>1, <1>2, <1>3 DEF InProgress
  <2>2. ASSUME NEW j \in WorkItems, work'[j].pc \in {"completeItem", "completeIrp"},
               work'[j].irp = work'[k].irp, j # k
        PROVE  FALSE
    BY <1>1, <1>3, <2>2 DEF InProgress, IInv, WorkInv, Completing
  <2> QED BY <2>1, <2>2
<1> QED BY <1>3 DEF WorkInv, Completing

\* What the main thread has in its hands and in its queue stays as it is until
\* the main thread goes on.
LEMMA MainKept ==
  ASSUME IInv, [Next]_vars
  PROVE  /\ MainQueued => main.irp \in Irps
         /\ MainQueued /\ ~MainGetItem => irp'[main.irp].state = "queued"
         /\ MainGetItem => StillInProgress(main.irp)
         /\ MainQueued \/ MainHasItem => irp'[main.irp].op = irp[main.irp].op
         /\ MainHasItem /\ ~MainComplete => StillInProgress(main.irp)
         /\ \A n \in 1 .. Len(main.queue) :
              /\ main.queue[n] \in Irps /\ irp'[main.queue[n]].state = "queued"
              /\ irp'[main.queue[n]].op = irp[main.queue[n]].op
<1>1. MainQueued => main.irp \in Irps /\ irp[main.irp].state = "queued" /\ IrpStep(main.irp)
  BY IrpSteps DEF IInv, MainInv
<1>2. MainGetItem => StillInProgress(main.irp)
  <2>1. SUFFICES ASSUME MainGetItem PROVE StillInProgress(main.irp)
    OBVIOUS
  <2>2. MainQueued /\ main.irp \in Irps /\ irp[main.irp].state = "queued"
    BY <2>1, <1>1 DEF MainGetItem, MainQueued
  <2>3. irp'[main.irp].state = "item"
    BY <2>1, <2>2, OnlyState DEF IInv, Types, MainGetItem, IrpStates
  <2>4. ASSUME NEW k \in WorkItems, work'[k].pc \in {"completeItem", "completeIrp"}
        PROVE  work'[k].irp # main.irp
    BY <2>1, <2>2, <2>4 DEF IInv, WorkInv, Completing, MainGetItem
  <2> QED BY <2>2, <2>3, <2>4 DEF StillInProgress
<1>3. MainHasItem /\ ~MainComplete =>
        StillInProgress(main.irp) /\ irp'[main.irp].op = irp[main.irp].op
  BY InProgressKept, OthersHanded DEF IInv, MainInv
<1>4. MainComplete => irp' = irp
  BY DEF MainComplete
<1>5. ASSUME NEW n \in 1 .. Len(main.queue)
      PROVE  /\ main.queue[n] \in Irps /\ irp'[main.queue[n]].state = "queued"
             /\ irp'[main.queue[n]].op = irp[main.queue[n]].op
  <2>1. main.queue[n] \in Irps
    BY <1>5, ElementType DEF IInv, Types, MainType
  <2>2. irp[main.queue[n]].state = "queued" /\ IrpStep(main.queue[n])
    BY <2>1, <1>5, IrpSteps DEF IInv, MainInv
  <2>3. ~(MainGetItem /\ main.queue[n] = main.irp)
    BY <1>5 DEF IInv, MainInv, MainGetItem, MainQueued
  <2> QED BY <2>1, <2>2, <2>3 DEF IrpStep
<1> QED BY <1>1, <1>2, <1>3, <1>4, <1>5 DEF IrpStep


LEMMA MainInvStep ==
  ASSUME IInv, Types', [Next]_vars
  PROVE  MainInv'
<1>1. ASSUME NEW i \in Irps, EnqueueIrp(i)
      PROVE  MainInv'
  <2>1. main.queue \in Seq(Irps) /\ irp'[i].state = "queued" /\ irp[i].state = "accepted"
    BY <1>1, OnlyState DEF IInv, Types, EnqueueIrp, MainType, IrpStates
  <2>2. /\ main'.queue = Append(main.queue, i) /\ main'.pc = main.pc /\ main'.irp = main.irp
        /\ main'.sector = main.sector
    BY <1>1, EnqueueIrpEffect DEF IInv
  <2>3. /\ Len(main'.queue) = Len(main.queue) + 1 /\ Len(main.queue) \in Nat
        /\ main'.queue[Len(main.queue) + 1] = i
        /\ \A n \in 1 .. Len(main.queue) : main'.queue[n] = main.queue[n]
    BY <2>1, <2>2, AppendLast
  <2>4. ~MainGetItem /\ ~MainComplete
    BY <2>2 DEF MainGetItem, MainComplete, IInv, Types, MainType
  <2>5. ASSUME NEW n \in 1 .. Len(main'.queue)
        PROVE  /\ irp'[main'.queue[n]].state = "queued"
               /\ MainQueued => main'.queue[n] # main.irp
               /\ \A m \in 1 .. Len(main'.queue) : main'.queue[m] = main'.queue[n] => m = n
    <3>1. \A m \in 1 .. Len(main.queue) :
            irp'[main.queue[m]].state = "queued" /\ irp[main.queue[m]].state = "queued"
      BY MainKept DEF IInv, MainInv
    <3>2. n \in 1 .. Len(main.queue) \/ n = Len(main.queue) + 1
      BY <2>3
    <3>3. MainQueued => irp[main.irp].state = "queued"
      BY DEF IInv, MainInv
    <3>4. \A m \in 1 .. Len(main'.queue) :
            m \in 1 .. Len(main.queue) \/ m = Len(main.queue) + 1
      BY <2>3
    <3>5. \A m, p \in 1 .. Len(main.queue) :
            /\ main.queue[m] = main.queue[p] => m = p
            /\ main.queue[m] # i
            /\ MainQueued => main.queue[m] # main.irp
      BY <2>1, <3>1 DEF IInv, MainInv
    <3>6. MainQueued => i # main.irp
      BY <2>1, <3>3
    <3>7. CASE n \in 1 .. Len(main.queue)
      BY <2>3, <3>1, <3>4, <3>5, <3>7
    <3>8. CASE n = Len(main.queue) + 1
      BY <2>1, <2>3, <3>4, <3>5, <3>6, <3>8
    <3> QED BY <3>2, <3>7, <3>8
  <2> QED BY <2>2, <2>4, <2>5, MainKept DEF IInv, MainInv, MainQueued, MainHasItem,
      MainRequesting, InProgress, StillInProgress, Completing, Kind
<1>2. CASE MainWait
  BY <1>2, MainKept DEF IInv, Types, MainWait, MainType, MainInv, MainQueued, MainHasItem,
      MainRequesting, InProgress, StillInProgress, Completing, Kind
<1>3. CASE MainNext
  <2>1. main.queue \in Seq(Irps) /\ main.pc = "next" /\ irp' = irp
    BY <1>3 DEF IInv, Types, MainNext, MainType
  <2>2. CASE main.queue = <<>>
    BY <1>3, <2>1, <2>2, MainNextEffect, MainKept DEF IInv, MainInv, MainQueued, MainHasItem,
        MainRequesting, InProgress, StillInProgress, Completing, Kind
  <2>3. CASE main.queue # <<>>
    <3>1. /\ main'.queue = Tail(main.queue) /\ main'.irp = Head(main.queue)
          /\ main'.pc = "taken" /\ main'.irp \in Irps
      BY <1>3, <2>3, MainNextEffect DEF IInv
    <3>2. /\ Len(main.queue) \in Nat /\ Len(main.queue) > 0 /\ main'.irp = main.queue[1]
          /\ Len(main'.queue) = Len(main.queue) - 1
          /\ \A n \in 1 .. Len(main'.queue) :
               n + 1 \in 1 .. Len(main.queue) /\ main'.queue[n] = main.queue[n + 1]
      BY <2>1, <2>3, <3>1, HeadTail
    <3>3. irp[main'.irp].state = "queued"
      BY <3>2 DEF IInv, MainInv
    <3>4. ASSUME NEW n \in 1 .. Len(main'.queue)
          PROVE  /\ irp[main'.queue[n]].state = "queued"
                 /\ main'.queue[n] # main'.irp
                 /\ \A m \in 1 .. Len(main'.queue) :
                      main'.queue[m] = main'.queue[n] => m = n
      BY <3>2 DEF IInv, MainInv
    <3> QED BY <2>1, <3>1, <3>3, <3>4 DEF MainInv, MainQueued, MainHasItem, MainRequesting,
        InProgress, StillInProgress, Completing, Kind
  <2> QED BY <2>2, <2>3
<1>4. CASE MainTestSuspended
  BY <1>4, MainKept DEF IInv, Types, MainTestSuspended, MainType, MainInv, MainQueued,
      MainHasItem, MainRequesting, InProgress, StillInProgress, Completing, Kind
<1>5. CASE MainResumed
  BY <1>5, MainKept DEF IInv, Types, MainResumed, MainType, MainInv, MainQueued, MainHasItem,
      MainRequesting, InProgress, StillInProgress, Completing, Kind
<1>6. CASE MainPoolEmpty("item", pool.items, "itemWait")
  BY <1>6, MainKept DEF IInv, Types, MainPoolEmpty, MainType, MainInv, MainQueued, MainHasItem,
      MainRequesting, InProgress, StillInProgress, Completing, Kind
<1>7. CASE MainPoolWait("itemWait", "item")
  BY <1>7, MainKept DEF IInv, Types, MainPoolWait, MainType, MainInv, MainQueued, MainHasItem,
      MainRequesting, InProgress, StillInProgress, Completing, Kind
<1>8. CASE MainGetItem
  BY <1>8, MainKept DEF IInv, Types, MainGetItem, MainType, MainInv, MainQueued, MainHasItem,
      MainRequesting, InProgress, StillInProgress, Completing, Kind
<1>9. CASE MainRefuse
  BY <1>9, MainKept DEF IInv, Types, MainRefuse, SetStatus, MainType, MainInv, MainQueued,
      MainHasItem, MainRequesting, InProgress, StillInProgress, Completing, Kind
<1>10. CASE MainStart
  BY <1>10, MainKept, MainStartEffect DEF IInv, Types, MainStart, MainInv, MainQueued, MainHasItem,
      MainRequesting, InProgress, StillInProgress, Completing, Kind
<1>11. CASE MainReadMisaligned
  BY <1>11, MainKept DEF IInv, Types, MainReadMisaligned, Decrypt, MainType, MainInv,
      MainQueued, MainHasItem, MainRequesting, InProgress, StillInProgress, Completing, Kind
<1>12. CASE MainComplete
  BY <1>12, MainKept DEF IInv, Types, MainComplete, QueueIrpCompletion, MainType, MainInv,
      MainQueued, MainHasItem, MainRequesting, InProgress, StillInProgress, Completing, Kind
<1>13. CASE MainCountRequest
  BY <1>13, MainKept, CountRequestEffect DEF IInv, Types, MainCountRequest, MainInv, MainQueued,
      MainHasItem, MainRequesting, InProgress, StillInProgress, Completing, Kind
<1>14. CASE MainPoolEmpty("getRequest", pool.requests, "requestWait")
  BY <1>14, MainKept DEF IInv, Types, MainPoolEmpty, MainType, MainInv, MainQueued, MainHasItem,
      MainRequesting, InProgress, StillInProgress, Completing, Kind
<1>15. CASE MainPoolWait("requestWait", "getRequest")
  BY <1>15, MainKept DEF IInv, Types, MainPoolWait, MainType, MainInv, MainQueued, MainHasItem,
      MainRequesting, InProgress, StillInProgress, Completing, Kind
<1>16. CASE MainGetRequest
  BY <1>16, MainKept, GetRequestEffect DEF IInv, Types, MainGetRequest, MainInv, MainQueued,
      MainHasItem, MainRequesting, InProgress, StillInProgress, Completing, Kind
<1>17. CASE MainQueueFlush
  BY <1>17, MainKept, MainIdleEffect DEF IInv, Types, MainQueueFlush, MainInv, MainQueued,
      MainHasItem, MainRequesting, InProgress, StillInProgress, Completing, Kind
<1>18. CASE MainQueueFragment
  <2>1. /\ main.pc = "queueFragment" /\ main'.queue = main.queue
        /\ \/ main'.pc = "next" /\ main'.irp = NoIrp
           \/ /\ main'.pc = "request" /\ main'.irp = main.irp
              /\ main'.sector \in irp[main.irp].op.sectors
    BY <1>18, QueueFragmentEffect DEF IInv
  <2>2. irp' = irp /\ work' = work
    BY <1>18 DEF MainQueueFragment
  <2> QED BY <2>1, <2>2 DEF IInv, MainInv, MainQueued, MainHasItem, MainRequesting, InProgress,
      Completing, Kind
<1>19. CASE StopThread
  BY <1>19, MainKept DEF IInv, Types, StopThread, MoveStop, MainType, MainInv, MainQueued,
      MainHasItem, MainRequesting, InProgress, StillInProgress, Completing, Kind
<1>20. CASE UNCHANGED <<main>>
  BY MainKept, <1>20 DEF IInv, Types, MainInv, MainQueued, MainHasItem, MainRequesting,
      InProgress, StillInProgress, Completing, Kind, MainGetItem, MainComplete, MainType
<1> QED
  BY <1>1, <1>2, <1>3, <1>4, <1>5, <1>6, <1>7, <1>8, <1>9, <1>10, <1>11, <1>12, <1>13, <1>14,
      <1>15, <1>16, <1>17, <1>18, <1>19, <1>20, MainChanges


\* The encrypted area moves only while nothing is under way.
LEMMA AreaKept ==
  ASSUME IInv, [Next]_vars
  PROVE  \/ encryptedEnd' = encryptedEnd
         \/ /\ HolderMoveEnd /\ IsHeld /\ io.queue = <<>> /\ completion.queue = <<>>
            /\ ~IoBusy /\ ~CompletionBusy /\ ~MainRequesting
            /\ UNCHANGED <<irp, main, io, completion, fragment, cache, device>>
<1>1. CASE HolderMoveEnd
  <2>1. IsHeld
    BY <1>1 DEF HolderMoveEnd, IsHeld
  <2> QED BY <1>1, <2>1
          DEF IInv, HeldQueueIsQuiet, HolderMoveEnd, IoBusy, CompletionBusy, MainRequesting
<1> QED BY <1>1, EndChanges

\* The requests that threads and queues hold stay as they are until a thread
\* hands their IRP to a work item.
StillUnderWay(r) == StillInProgress(r.irp) /\ irp'[r.irp].op = irp[r.irp].op

LEMMA ServedKept ==
  ASSUME IInv, [Next]_vars
  PROVE  /\ \A n \in 1 .. Len(io.queue) :
              StillUnderWay(io.queue[n]) /\ encryptedEnd' = encryptedEnd
         /\ IoBusy /\ ~IoComplete => StillUnderWay(io.request) /\ encryptedEnd' = encryptedEnd
         /\ \A n \in 1 .. Len(completion.queue) : StillUnderWay(completion.queue[n])
         /\ CompletionBusy /\ ~CompletionComplete => StillUnderWay(completion.request)
<1>1. \A n \in 1 .. Len(io.queue) : InProgress(io.queue[n].irp)
  BY DEF IInv, ServedInv, IoRequest
<1>2. IoBusy => InProgress(io.request.irp)
  BY DEF IInv, ServedInv, IoRequest
<1>3. \A n \in 1 .. Len(completion.queue) : InProgress(completion.queue[n].irp)
  BY DEF IInv, ServedInv, CompletionRequest
<1>4. CompletionBusy => InProgress(completion.request.irp)
  BY DEF IInv, ServedInv, CompletionRequest
<1>5. \A n \in 1 .. Len(io.queue) : StillUnderWay(io.queue[n])
  BY <1>1, InProgressKept, OthersHanded DEF StillUnderWay
<1>6. IoBusy /\ ~IoComplete => StillUnderWay(io.request)
  BY <1>2, InProgressKept, OthersHanded DEF StillUnderWay
<1>7. \A n \in 1 .. Len(completion.queue) : StillUnderWay(completion.queue[n])
  BY <1>3, InProgressKept, OthersHanded DEF StillUnderWay
<1>8. CompletionBusy /\ ~CompletionComplete => StillUnderWay(completion.request)
  BY <1>4, InProgressKept, OthersHanded DEF StillUnderWay
<1>9. io.queue # <<>> \/ IoBusy => encryptedEnd' = encryptedEnd
  BY AreaKept
<1>10. \A n \in 1 .. Len(io.queue) : io.queue # <<>>
  BY DEF IInv, Types, IoType
<1> QED BY <1>5, <1>6, <1>7, <1>8, <1>9, <1>10

\* A request that is still under way can be served.
LEMMA IoRequestKept ==
  ASSUME NEW r, IoRequest(r), StillUnderWay(r), encryptedEnd' = encryptedEnd
  PROVE  IoRequest(r)' /\ irp'[r.irp].op = irp[r.irp].op /\ Kind(r.irp)' = Kind(r.irp)
  BY DEF IoRequest, StillUnderWay, StillInProgress, InProgress, Completing, Kind, InEncryptedArea

LEMMA CompletionRequestKept ==
  ASSUME NEW r, CompletionRequest(r), StillUnderWay(r)
  PROVE  CompletionRequest(r)'
  BY DEF CompletionRequest, StillUnderWay, StillInProgress, InProgress, Completing, Kind

LEMMA RequestInvStep ==
  ASSUME IInv, Types', [Next]_vars
  PROVE  RequestInv'
<1>1. ASSUME NEW i \in Irps, EnqueueIrp(i)
      PROVE  RequestInv'
  BY <1>1, MainKept, AreaKept, EnqueueIrpEffect DEF IInv, Types, EnqueueIrp, RequestInv,
      MainRequesting, InEncryptedArea, MainHasItem
<1>2. CASE MainWait
  BY <1>2, MainKept, AreaKept DEF IInv, Types, MainWait, MainType, RequestInv, MainRequesting,
      InEncryptedArea, MainHasItem
<1>3. CASE MainNext
  BY <1>3, MainKept, AreaKept, MainNextEffect DEF IInv, Types, MainNext, RequestInv,
      MainRequesting, InEncryptedArea, MainHasItem
<1>4. CASE MainTestSuspended
  BY <1>4, MainKept, AreaKept DEF IInv, Types, MainTestSuspended, MainType, RequestInv,
      MainRequesting, InEncryptedArea, MainHasItem
<1>5. CASE MainResumed
  BY <1>5, MainKept, AreaKept DEF IInv, Types, MainResumed, MainType, RequestInv,
      MainRequesting, InEncryptedArea, MainHasItem
<1>6. CASE MainPoolEmpty("item", pool.items, "itemWait")
  BY <1>6, MainKept, AreaKept DEF IInv, Types, MainPoolEmpty, MainType, RequestInv,
      MainRequesting, InEncryptedArea, MainHasItem
<1>7. CASE MainPoolWait("itemWait", "item")
  BY <1>7, MainKept, AreaKept DEF IInv, Types, MainPoolWait, MainType, RequestInv,
      MainRequesting, InEncryptedArea, MainHasItem
<1>8. CASE MainGetItem
  BY <1>8, MainKept, AreaKept DEF IInv, Types, MainGetItem, MainType, RequestInv,
      MainRequesting, InEncryptedArea, MainHasItem
<1>9. CASE MainRefuse
  BY <1>9, MainKept, AreaKept DEF IInv, Types, MainRefuse, SetStatus, MainType, RequestInv,
      MainRequesting, InEncryptedArea, MainHasItem
<1>10. CASE MainStart
  BY <1>10, MainKept, AreaKept, MainStartEffect DEF IInv, Types, MainStart, RequestInv,
      MainRequesting, InEncryptedArea, MainHasItem
<1>11. CASE MainReadMisaligned
  BY <1>11, MainKept, AreaKept DEF IInv, Types, MainReadMisaligned, Decrypt, MainType,
      RequestInv, MainRequesting, InEncryptedArea, MainHasItem
<1>12. CASE MainComplete
  BY <1>12, MainKept, AreaKept DEF IInv, Types, MainComplete, QueueIrpCompletion, MainType,
      RequestInv, MainRequesting, InEncryptedArea, MainHasItem
<1>13. CASE MainCountRequest
  BY <1>13, MainKept, AreaKept, CountRequestEffect DEF IInv, Types, MainCountRequest, RequestInv,
      MainRequesting, InEncryptedArea, MainHasItem
<1>14. CASE MainPoolEmpty("getRequest", pool.requests, "requestWait")
  BY <1>14, MainKept, AreaKept DEF IInv, Types, MainPoolEmpty, MainType, RequestInv,
      MainRequesting, InEncryptedArea, MainHasItem
<1>15. CASE MainPoolWait("requestWait", "getRequest")
  BY <1>15, MainKept, AreaKept DEF IInv, Types, MainPoolWait, MainType, RequestInv,
      MainRequesting, InEncryptedArea, MainHasItem
<1>16. CASE MainGetRequest
  BY <1>16, MainKept, AreaKept, GetRequestEffect DEF IInv, Types, MainGetRequest, RequestInv,
      MainRequesting, InEncryptedArea, MainHasItem
<1>17. CASE MainQueueFlush
  BY <1>17, MainKept, AreaKept, MainIdleEffect DEF IInv, Types, MainQueueFlush, RequestInv,
      MainRequesting, InEncryptedArea, MainHasItem
<1>18. CASE MainQueueFragment
  BY <1>18, MainKept, AreaKept, QueueFragmentEffect DEF IInv, Types, MainQueueFragment, RequestInv,
      MainRequesting, InEncryptedArea, MainHasItem
<1>19. CASE StopThread
  BY <1>19, MainKept, AreaKept DEF IInv, Types, StopThread, MoveStop, MainType, RequestInv,
      MainRequesting, InEncryptedArea, MainHasItem
<1>20. CASE UNCHANGED <<main>>
  BY MainKept, AreaKept, <1>20 DEF IInv, Types, RequestInv, MainRequesting, InEncryptedArea,
      MainHasItem
<1> QED
  BY <1>1, <1>2, <1>3, <1>4, <1>5, <1>6, <1>7, <1>8, <1>9, <1>10, <1>11, <1>12, <1>13, <1>14,
      <1>15, <1>16, <1>17, <1>18, <1>19, <1>20, MainChanges


\* The request of the main thread is one that the I/O thread can serve.
LEMMA MainRequestReady ==
  ASSUME IInv, main.pc \in {"queueFlush", "queueFragment"}
  PROVE  /\ IoRequest(main.request) /\ main.request.irp = main.irp
         /\ main.request.sector \in Sectors
<1>1. /\ InProgress(main.irp) /\ Kind(main.irp) \in {"read", "write", "flush"}
      /\ main.request \in Requests
      /\ Kind(main.irp) # "flush" => main.sector \in irp[main.irp].op.sectors
      /\ main.pc = "queueFlush" => Kind(main.irp) = "flush"
      /\ main.pc = "queueFragment" => Kind(main.irp) # "flush"
  BY DEF IInv, MainInv, MainHasItem, MainRequesting, Types, MainType
<1>2. CASE main.pc = "queueFlush"
  BY <1>1, <1>2, RequestFields DEF IInv, RequestInv, IoRequest
<1>3. CASE main.pc = "queueFragment"
  <2>1. PICK e \in BOOLEAN : e = InEncryptedArea(main.sector)
    BY DEF InEncryptedArea
  <2>2. PICK l \in BOOLEAN : l = IsLast(main.sector, irp[main.irp].op.sectors)
    BY DEF IsLast
  <2>3. /\ main.request.buffer \in Buffers
        /\ main.request = [irp |-> main.irp, sector |-> main.sector, last |-> l,
                            buffer |-> main.request.buffer, encrypted |-> e]
    BY <1>3, <2>1, <2>2 DEF IInv, RequestInv
  <2>4. /\ main.request.irp = main.irp /\ main.request.sector = main.sector
        /\ main.request.buffer \in Buffers /\ main.request.encrypted = e
    BY <2>3
  <2> QED BY <1>1, <1>3, <2>1, <2>4, RequestFields DEF IoRequest
<1> QED BY <1>2, <1>3

\* What the I/O thread and its queue hold.
IoServed ==
  /\ \A n \in 1 .. Len(io.queue) : IoRequest(io.queue[n])
  /\ IoBusy => IoRequest(io.request)
  /\ io.pc = "finish" => Kind(io.request.irp) # "flush"
  /\ io.pc = "complete" => io.request.last /\ Kind(io.request.irp) # "read"

CompletionServed ==
  /\ \A n \in 1 .. Len(completion.queue) : CompletionRequest(completion.queue[n])
  /\ CompletionBusy => CompletionRequest(completion.request)
  /\ completion.pc = "complete" => completion.request.last

\* ... as it was, for the requests that are there already.
LEMMA IoServedKept ==
  ASSUME IInv, [Next]_vars
  PROVE  /\ \A n \in 1 .. Len(io.queue) : \A r : r = io.queue[n] => IoRequest(r)'
         /\ IoBusy /\ ~IoComplete =>
              \A r : r = io.request => IoRequest(r)' /\ Kind(r.irp)' = Kind(r.irp)
         /\ \A n \in 1 .. Len(completion.queue) :
              \A r : r = completion.queue[n] => CompletionRequest(r)'
         /\ CompletionBusy /\ ~CompletionComplete =>
              \A r : r = completion.request => CompletionRequest(r)'
<1>1. ASSUME NEW r, NEW n \in 1 .. Len(io.queue), r = io.queue[n]
      PROVE  IoRequest(r)'
  BY <1>1, ServedKept, IoRequestKept DEF IInv, ServedInv
<1>2. ASSUME NEW r, IoBusy, ~IoComplete, r = io.request
      PROVE  IoRequest(r)' /\ Kind(r.irp)' = Kind(r.irp)
  BY <1>2, ServedKept, IoRequestKept DEF IInv, ServedInv
<1>3. ASSUME NEW r, NEW n \in 1 .. Len(completion.queue), r = completion.queue[n]
      PROVE  CompletionRequest(r)'
  BY <1>3, ServedKept, CompletionRequestKept DEF IInv, ServedInv
<1>4. ASSUME NEW r, CompletionBusy, ~CompletionComplete, r = completion.request
      PROVE  CompletionRequest(r)'
  BY <1>4, ServedKept, CompletionRequestKept DEF IInv, ServedInv
<1> QED BY <1>1, <1>2, <1>3, <1>4

\* A thread that stays where it is hands nothing to a work item.
LEMMA ThreadStays ==
  ASSUME IInv
  PROVE  /\ io'.pc = io.pc => ~IoComplete
         /\ completion'.pc = completion.pc => ~CompletionComplete
<1>1. IoComplete => io'.pc = "release" /\ io.pc = "complete"
  BY DEF IInv, Types, IoType, IoComplete
<1>2. CompletionComplete => completion'.pc = "release" /\ completion.pc = "complete"
  BY DEF IInv, Types, CompletionType, CompletionComplete
<1> QED BY <1>1, <1>2

LEMMA IoTaken ==
  ASSUME IInv, [Next]_vars, io.queue # <<>>
  PROVE  /\ \A r : r = Head(io.queue) => IoRequest(r)'
         /\ \A n \in 1 .. Len(Tail(io.queue)) : \A r : r = Tail(io.queue)[n] => IoRequest(r)'
  BY IoServedKept, HeadTail DEF IInv, Types, IoType

LEMMA IoGrown ==
  ASSUME IInv, [Next]_vars, MainQueueFlush \/ MainQueueFragment
  PROVE  \A n \in 1 .. Len(Append(io.queue, main.request)) :
           \A r : r = Append(io.queue, main.request)[n] => IoRequest(r)'
<1>1. main.request \in Requests /\ io.queue \in Seq(Requests)
  BY DEF IInv, Types, MainType, IoType
<1>2. main.pc \in {"queueFlush", "queueFragment"} /\ encryptedEnd' = encryptedEnd
  BY DEF MainQueueFlush, MainQueueFragment
<1>3. IoRequest(main.request) /\ main.request.irp = main.irp
  BY <1>2, MainRequestReady
<1>4. ~MainComplete /\ MainHasItem
  BY <1>2 DEF MainComplete, MainHasItem, MainRequesting
<1>5. StillUnderWay(main.request)
  BY <1>3, <1>4, MainKept DEF StillUnderWay
<1>6. \A r : r = main.request => IoRequest(r)'
  BY <1>2, <1>3, <1>5, IoRequestKept
<1> QED BY <1>1, <1>6, IoServedKept, AppendLast

LEMMA IoServedStep ==
  ASSUME IInv, Types', [Next]_vars
  PROVE  IoServed'
<1>1. CASE MainCountRequest
  BY <1>1, IoServedKept, CountRequestEffect DEF IInv, Types, ServedInv, MainCountRequest,
      IoServed, IoBusy, IoComplete, IoKind, Kind
<1>2. CASE MainQueueFlush
  <2>1. /\ io'.pc = io.pc /\ io'.request = io.request
        /\ io'.queue = Append(io.queue, main.request)
    BY <1>2, EnqueueRequestEffect DEF MainQueueFlush, IInv
  <2>2. \A n \in 1 .. Len(Append(io.queue, main.request)) :
          \A r : r = Append(io.queue, main.request)[n] => IoRequest(r)'
    BY <1>2, IoGrown
  <2> QED BY <2>1, <2>2, ThreadStays, IoServedKept DEF IInv, ServedInv, IoServed, IoBusy, Kind
<1>3. CASE MainQueueFragment
  <2>1. /\ io'.pc = io.pc /\ io'.request = io.request
        /\ io'.queue = Append(io.queue, main.request)
    BY <1>3, EnqueueRequestEffect DEF MainQueueFragment, IInv
  <2>2. \A n \in 1 .. Len(Append(io.queue, main.request)) :
          \A r : r = Append(io.queue, main.request)[n] => IoRequest(r)'
    BY <1>3, IoGrown
  <2> QED BY <2>1, <2>2, ThreadStays, IoServedKept DEF IInv, ServedInv, IoServed, IoBusy, Kind
<1>4. CASE IoWait
  BY <1>4, IoServedKept DEF IInv, Types, IoWait, IoType, IoServed, IoBusy, IoComplete, IoKind,
      Kind
<1>5. CASE IoNext
  BY <1>5, IoServedKept, IoTaken, IoNextEffect DEF IInv, Types, ServedInv, IoNext, IoServed,
      IoBusy, IoComplete, IoKind, Kind
<1>6. CASE IoFlush
  <2>1. IoRequest(io.request) /\ io.request.last /\ io.pc = "perform"
    BY <1>6 DEF IoFlush, IoKind, IInv, ServedInv, IoRequest, IoBusy, Kind
  <2>2. /\ io'.pc = "complete" /\ io'.queue = io.queue /\ io'.request = io.request
    BY <1>6 DEF IoFlush, IInv, Types, IoType
  <2>3. IoBusy /\ ~IoComplete /\ Kind(io.request.irp) = "flush"
    BY <1>6, <2>1 DEF IoFlush, IoComplete, IoBusy, IoKind, Kind
  <2> QED BY <2>1, <2>2, <2>3, IoServedKept DEF IoServed, IoBusy, Kind
<1>7. CASE IoSkip
  BY <1>7, IoServedKept DEF IInv, Types, IoSkip, IoKind, IoType, IoServed, IoBusy, IoComplete,
      IoKind, Kind
<1>8. CASE IoFail
  BY <1>8, IoServedKept DEF IInv, Types, IoFail, SetStatus, IoKind, IoType, IoServed, IoBusy,
      IoComplete, IoKind, Kind
<1>9. CASE IoWrite
  BY <1>9, IoServedKept DEF IInv, Types, IoWrite, IoKind, IoType, IoServed, IoBusy, IoComplete,
      IoKind, Kind
<1>10. CASE IoRead
  BY <1>10, IoServedKept DEF IInv, Types, IoRead, IoKind, IoType, IoServed, IoBusy, IoComplete,
      IoKind, Kind
<1>11. CASE IoFinishWrite
  BY <1>11, IoServedKept DEF IInv, Types, IoFinishWrite, IoKind, FreeFragment, IoType, IoServed,
      IoBusy, IoComplete, IoKind, Kind
<1>12. CASE IoFinishRead
  BY <1>12, IoServedKept, IoFinishReadMoves DEF IInv, Types, ServedInv, IoFinishRead, IoServed,
      IoBusy, IoComplete, IoKind, Kind
<1>13. CASE IoReadAhead
  BY <1>13, IoServedKept DEF IInv, Types, IoReadAhead, Outcomes, IoType, IoServed, IoBusy,
      IoComplete, IoKind, Kind
<1>14. CASE IoReadAheadDone
  BY <1>14, IoServedKept, IoIdleEffect DEF IInv, Types, ServedInv, IoReadAheadDone, IoServed,
      IoBusy, IoComplete, IoKind, Kind
<1>15. CASE IoComplete
  BY <1>15, IoServedKept DEF IInv, Types, IoComplete, QueueIrpCompletion, IoType, IoServed,
      IoBusy, IoComplete, IoKind, Kind
<1>16. CASE IoRelease
  BY <1>16, IoServedKept, IoIdleEffect DEF IInv, Types, ServedInv, IoRelease, IoServed, IoBusy,
      IoComplete, IoKind, Kind
<1>17. CASE StopThread
  <2>1. io'.pc = io.pc /\ io'.queue = io.queue /\ io'.request = io.request
    BY <1>17 DEF StopThread, IInv, Types, IoType
  <2> QED BY <2>1, ThreadStays, IoServedKept DEF IInv, ServedInv, IoServed, IoBusy, Kind
<1>18. CASE UNCHANGED <<io>>
  BY IoServedKept, <1>18 DEF IInv, Types, IoType, ServedInv, IoServed, IoBusy, IoComplete, IoKind,
      Kind
<1> QED
  BY <1>1, <1>2, <1>3, <1>4, <1>5, <1>6, <1>7, <1>8, <1>9, <1>10, <1>11, <1>12, <1>13, <1>14,
      <1>15, <1>16, <1>17, <1>18, IoChanges

LEMMA CompletionServedStep ==
  ASSUME IInv, Types', [Next]_vars
  PROVE  CompletionServed'
<1>1. CASE IoFinishRead
  <2> DEFINE r == io.request
  <2>1. /\ completion.queue \in Seq(Requests) /\ r \in Requests
        /\ completion'.queue = Append(completion.queue, r)
        /\ completion'.pc = completion.pc /\ completion'.request = completion.request
        /\ io.pc = "finish" /\ Kind(r.irp) = "read" /\ r.irp \in Irps
    BY <1>1, IoFinishReadMoves DEF IInv
  <2>2. CompletionRequest(r) /\ StillUnderWay(r)
    BY <2>1, ServedKept DEF IInv, ServedInv, IoRequest, CompletionRequest, IoBusy, IoComplete
  <2>3. \A x : x = r => CompletionRequest(x)'
    BY <2>2, CompletionRequestKept
  <2>4. \A n \in 1 .. Len(Append(completion.queue, r)) :
          \A x : x = Append(completion.queue, r)[n] => CompletionRequest(x)'
    BY <2>1, <2>3, IoServedKept, AppendLast
  <2>5. completion.pc = "complete" => ~CompletionComplete
    BY <2>1 DEF CompletionComplete, IInv, Types, CompletionType
  <2> QED BY <2>1, <2>4, <2>5, IoServedKept
          DEF CompletionServed, CompletionBusy, CompletionComplete, IInv, ServedInv
<1>2. CASE CompletionWait
  BY <1>2, IoServedKept DEF IInv, Types, CompletionWait, CompletionType, CompletionServed,
      CompletionBusy, CompletionComplete, Kind
<1>3. CASE CompletionNext
  <2>1. CASE completion.queue = <<>>
    BY <1>3, <2>1, CompletionNextEffect, IoServedKept DEF IInv, CompletionServed, CompletionBusy,
        CompletionComplete, Kind
  <2>2. CASE completion.queue # <<>>
    <3>1. \A n \in 1 .. Len(Tail(completion.queue)) :
            \A r : r = Tail(completion.queue)[n] => CompletionRequest(r)'
      BY <2>2, IoServedKept, HeadTail DEF IInv, Types, CompletionType
    <3>2. \A r : r = Head(completion.queue) => CompletionRequest(r)'
      BY <2>2, IoServedKept, HeadTail DEF IInv, Types, CompletionType
    <3> QED BY <1>3, <2>2, <3>1, <3>2, CompletionNextEffect DEF IInv, CompletionServed,
        CompletionBusy, CompletionComplete, Kind
  <2> QED BY <2>1, <2>2
<1>4. CASE CompletionDecrypt
  BY <1>4, IoServedKept DEF IInv, Types, CompletionDecrypt, Decrypt, CompletionType,
      CompletionServed, CompletionBusy, CompletionComplete, Kind
<1>5. CASE CompletionComplete
  BY <1>5, IoServedKept DEF IInv, Types, CompletionComplete, QueueIrpCompletion, CompletionType,
      CompletionServed, CompletionBusy, CompletionComplete, Kind
<1>6. CASE CompletionRelease
  BY <1>6, IoServedKept DEF IInv, Types, CompletionRelease, ReleaseRequest, CompletionType,
      CompletionServed, CompletionBusy, CompletionComplete, Kind
<1>7. CASE StopThread
  <2>1. /\ completion'.pc = completion.pc /\ completion'.queue = completion.queue
        /\ completion'.request = completion.request
    BY <1>7 DEF StopThread, IInv, Types, CompletionType
  <2> QED BY <2>1, ThreadStays, IoServedKept
          DEF IInv, ServedInv, CompletionServed, CompletionBusy, Kind
<1>8. CASE UNCHANGED <<completion>>
  BY IoServedKept, <1>8 DEF IInv, Types, CompletionType, ServedInv, CompletionServed,
      CompletionBusy, CompletionComplete, Kind
<1> QED
  BY <1>1, <1>2, <1>3, <1>4, <1>5, <1>6, <1>7, <1>8, CompletionChanges

LEMMA ServedInvStep ==
  ASSUME IInv, Types', [Next]_vars
  PROVE  ServedInv'
  BY IoServedStep, CompletionServedStep DEF ServedInv, IoServed, CompletionServed


-----------------------------------------------------------------------------
(* Queues whose fragments follow each other.                               *)

LEMMA OrderTail ==
  ASSUME NEW q \in Seq(Requests), q # <<>>
  PROVE  /\ InOrder(q) => InOrder(Tail(q)) /\ PrecedesAll(Head(q), Tail(q))
         /\ \A a : PrecedesAll(a, q) => Precedes(a, Head(q)) /\ PrecedesAll(a, Tail(q))
<1>1. \A m, n \in 1 .. Len(Tail(q)) : m < n => m + 1 < n + 1
  BY HeadTail
<1>2. ASSUME InOrder(q), NEW m \in 1 .. Len(Tail(q)), NEW n \in 1 .. Len(Tail(q)), m < n
      PROVE  Precedes(Tail(q)[m], Tail(q)[n])
  BY <1>2, <1>1, HeadTail DEF InOrder
<1>3. ASSUME InOrder(q), NEW n \in 1 .. Len(Tail(q))
      PROVE  Precedes(Head(q), Tail(q)[n])
  <2>1. 1 \in 1 .. Len(q) /\ n + 1 \in 1 .. Len(q) /\ 1 < n + 1
    BY HeadTail
  <2> QED BY <1>3, <2>1, HeadTail DEF InOrder
<1>4. 1 \in 1 .. Len(q)
  BY HeadTail
<1> QED BY <1>2, <1>3, <1>4, HeadTail DEF InOrder, PrecedesAll

LEMMA OrderAppend ==
  ASSUME NEW q \in Seq(Requests), NEW r \in Requests
  PROVE  /\ InOrder(q) /\ (\A n \in 1 .. Len(q) : Precedes(q[n], r)) => InOrder(Append(q, r))
         /\ \A a : PrecedesAll(a, q) /\ Precedes(a, r) => PrecedesAll(a, Append(q, r))
<1>1. /\ Len(q) \in Nat /\ Len(Append(q, r)) = Len(q) + 1
      /\ Append(q, r)[Len(q) + 1] = r
      /\ \A n \in 1 .. Len(q) : Append(q, r)[n] = q[n]
  BY AppendLast
<1>2. ASSUME InOrder(q), \A n \in 1 .. Len(q) : Precedes(q[n], r),
             NEW m \in 1 .. Len(Append(q, r)), NEW n \in 1 .. Len(Append(q, r)), m < n
      PROVE  Precedes(Append(q, r)[m], Append(q, r)[n])
  <2>1. m \in 1 .. Len(q)
    BY <1>1, <1>2
  <2>2. CASE n \in 1 .. Len(q)
    BY <1>1, <1>2, <2>1, <2>2 DEF InOrder
  <2>3. CASE n = Len(q) + 1
    BY <1>1, <1>2, <2>1, <2>3
  <2> QED BY <1>1, <2>2, <2>3
<1>3. ASSUME NEW a, PrecedesAll(a, q), Precedes(a, r), NEW n \in 1 .. Len(Append(q, r))
      PROVE  Precedes(a, Append(q, r)[n])
  <2>2. CASE n \in 1 .. Len(q)
    BY <1>1, <1>3, <2>2 DEF PrecedesAll
  <2>3. CASE n = Len(q) + 1
    BY <1>1, <1>3, <2>3
  <2> QED BY <1>1, <2>2, <2>3
<1> QED BY <1>2, <1>3 DEF InOrder, PrecedesAll

\* A request that is before the main thread's is before the one it enqueues.
LEMMA BeforeMainRequest ==
  ASSUME IInv, main.pc \in {"queueFlush", "queueFragment"}
  PROVE  /\ \A n \in 1 .. Len(io.queue) : Precedes(io.queue[n], main.request)
         /\ IoBusy => Precedes(io.request, main.request)
         /\ \A n \in 1 .. Len(completion.queue) : Precedes(completion.queue[n], main.request)
         /\ CompletionBusy => Precedes(completion.request, main.request)
<1>1. main.request.irp = main.irp
  BY MainRequestReady
<1>2. ASSUME NEW r, BeforeMain(r), IoRequest(r) \/ CompletionRequest(r)
      PROVE  Precedes(r, main.request)
  <2>1. CASE main.pc = "queueFlush"
    <3>1. Kind(main.irp) = "flush"
      BY <2>1 DEF IInv, MainInv
    <3> QED BY <1>1, <1>2, <3>1 DEF BeforeMain, Precedes, IoRequest, CompletionRequest
  <2>2. CASE main.pc = "queueFragment"
    <3>1. PICK l, b, e : main.request = [irp |-> main.irp, sector |-> main.sector,
                                         last |-> l, buffer |-> b, encrypted |-> e]
      BY <2>2 DEF IInv, RequestInv
    <3>2. main.request.sector = main.sector
      BY <3>1
    <3> QED BY <1>1, <1>2, <3>2 DEF BeforeMain, Precedes
  <2> QED BY <2>1, <2>2
<1> QED BY <1>2 DEF IInv, BeforeMainInv, ServedInv
LEMMA OrderInvStep ==
  ASSUME IInv, Types', [Next]_vars
  PROVE  OrderInv'
<1>1. CASE MainCountRequest
  BY <1>1, CountRequestEffect DEF IInv, Types, IoType, CompletionType, OrderInv, IoBusy,
      CompletionBusy, MainCountRequest
<1>2. CASE MainQueueFlush
  <2>1. /\ io'.queue = Append(io.queue, main.request) /\ io'.pc = io.pc
        /\ io'.request = io.request /\ completion' = completion
        /\ main.request \in Requests /\ io.queue \in Seq(Requests)
        /\ main.pc \in {"queueFlush", "queueFragment"}
    BY <1>2, EnqueueRequestEffect DEF MainQueueFlush, IInv
  <2> QED BY <2>1, BeforeMainRequest, OrderAppend DEF IInv, OrderInv, IoBusy, CompletionBusy
<1>3. CASE MainQueueFragment
  <2>1. /\ io'.queue = Append(io.queue, main.request) /\ io'.pc = io.pc
        /\ io'.request = io.request /\ completion' = completion
        /\ main.request \in Requests /\ io.queue \in Seq(Requests)
        /\ main.pc \in {"queueFlush", "queueFragment"}
    BY <1>3, EnqueueRequestEffect DEF MainQueueFragment, IInv
  <2> QED BY <2>1, BeforeMainRequest, OrderAppend DEF IInv, OrderInv, IoBusy, CompletionBusy
<1>4. CASE IoWait
  BY <1>4 DEF IInv, Types, IoWait, IoType, CompletionType, OrderInv, IoBusy, CompletionBusy
<1>5. CASE IoNext
  <2>1. completion' = completion /\ io.pc = "next"
    BY <1>5 DEF IoNext
  <2>2. CASE io.queue = <<>>
    BY <1>5, <2>1, <2>2, IoNextEffect DEF IInv, OrderInv, IoBusy, CompletionBusy
  <2>3. CASE io.queue # <<>>
    <3>1. /\ io.queue \in Seq(Requests) /\ io'.queue = Tail(io.queue)
          /\ io'.request = Head(io.queue)
      BY <1>5, <2>3, IoNextEffect DEF IInv
    <3> QED BY <2>1, <2>3, <3>1, OrderTail DEF IInv, OrderInv, IoBusy, CompletionBusy
  <2> QED BY <2>2, <2>3
<1>6. CASE IoFlush
  BY <1>6 DEF IInv, Types, IoFlush, SetStatus, Outcomes, IoKind, IoType, CompletionType,
      OrderInv, IoBusy, CompletionBusy
<1>7. CASE IoSkip
  BY <1>7 DEF IInv, Types, IoSkip, IoKind, IoType, CompletionType, OrderInv, IoBusy,
      CompletionBusy
<1>8. CASE IoFail
  BY <1>8 DEF IInv, Types, IoFail, SetStatus, IoKind, IoType, CompletionType, OrderInv, IoBusy,
      CompletionBusy
<1>9. CASE IoWrite
  BY <1>9 DEF IInv, Types, IoWrite, IoKind, IoType, CompletionType, OrderInv, IoBusy,
      CompletionBusy
<1>10. CASE IoRead
  BY <1>10 DEF IInv, Types, IoRead, IoKind, IoType, CompletionType, OrderInv, IoBusy,
      CompletionBusy
<1>11. CASE IoFinishWrite
  BY <1>11 DEF IInv, Types, IoFinishWrite, IoKind, FreeFragment, IoType, CompletionType,
      OrderInv, IoBusy, CompletionBusy
<1>12. CASE IoFinishRead
  <2>1. /\ completion.queue \in Seq(Requests) /\ io.request \in Requests
        /\ completion'.queue = Append(completion.queue, io.request)
        /\ completion'.pc = completion.pc /\ completion'.request = completion.request
        /\ io'.queue = io.queue /\ io'.pc \in {"next", "readAhead"} /\ io.pc = "finish"
    BY <1>12, IoFinishReadMoves DEF IInv
  <2>2. IoBusy /\ ~IoBusy' /\ (CompletionBusy' <=> CompletionBusy)
    BY <2>1 DEF IoBusy, CompletionBusy
  <2>3. /\ InOrder(completion'.queue)
        /\ CompletionBusy => PrecedesAll(completion.request, completion'.queue)
    BY <2>1, <2>2, OrderAppend DEF IInv, OrderInv
  <2>4. \A m \in 1 .. Len(completion'.queue) : PrecedesAll(completion'.queue[m], io.queue)
    BY <2>1, <2>2, AppendLast DEF IInv, OrderInv
  <2> QED BY <2>1, <2>2, <2>3, <2>4 DEF IInv, OrderInv
<1>13. CASE IoReadAhead
  BY <1>13 DEF IInv, Types, IoReadAhead, Outcomes, IoType, CompletionType, OrderInv, IoBusy,
      CompletionBusy
<1>14. CASE IoReadAheadDone
  BY <1>14, IoIdleEffect DEF IInv, Types, IoType, CompletionType, OrderInv, IoBusy, CompletionBusy,
      IoReadAheadDone
<1>15. CASE IoComplete
  BY <1>15 DEF IInv, Types, IoComplete, QueueIrpCompletion, IoType, CompletionType, OrderInv,
      IoBusy, CompletionBusy
<1>16. CASE IoRelease
  BY <1>16, IoIdleEffect DEF IInv, Types, IoType, CompletionType, OrderInv, IoBusy, CompletionBusy,
      IoRelease
<1>17. CASE CompletionWait
  BY <1>17 DEF IInv, Types, CompletionWait, IoType, CompletionType, OrderInv, IoBusy,
      CompletionBusy
<1>18. CASE CompletionNext
  <2>1. io' = io /\ completion.pc = "next"
    BY <1>18 DEF CompletionNext
  <2>2. CASE completion.queue = <<>>
    BY <1>18, <2>1, <2>2, CompletionNextEffect DEF IInv, OrderInv, IoBusy, CompletionBusy
  <2>3. CASE completion.queue # <<>>
    <3>1. /\ completion.queue \in Seq(Requests)
          /\ completion'.queue = Tail(completion.queue)
          /\ completion'.request = Head(completion.queue)
      BY <1>18, <2>3, CompletionNextEffect DEF IInv
    <3> QED BY <2>1, <2>3, <3>1, OrderTail, HeadTail
            DEF IInv, OrderInv, IoBusy, CompletionBusy
  <2> QED BY <2>2, <2>3
<1>19. CASE CompletionDecrypt
  BY <1>19 DEF IInv, Types, CompletionDecrypt, Decrypt, IoType, CompletionType, OrderInv,
      IoBusy, CompletionBusy
<1>20. CASE CompletionComplete
  BY <1>20 DEF IInv, Types, CompletionComplete, QueueIrpCompletion, IoType, CompletionType,
      OrderInv, IoBusy, CompletionBusy
<1>21. CASE CompletionRelease
  BY <1>21 DEF IInv, Types, CompletionRelease, ReleaseRequest, IoType, CompletionType, OrderInv,
      IoBusy, CompletionBusy
<1>22. CASE StopThread
  BY <1>22 DEF IInv, Types, StopThread, MoveStop, IoType, CompletionType, OrderInv, IoBusy,
      CompletionBusy
<1>23. CASE UNCHANGED <<io, completion>>
  BY <1>23 DEF IInv, OrderInv, IoBusy, CompletionBusy
<1> QED
  BY <1>1, <1>2, <1>3, <1>4, <1>5, <1>6, <1>7, <1>8, <1>9, <1>10, <1>11, <1>12, <1>13, <1>14,
      <1>15, <1>16, <1>17, <1>18, <1>19, <1>20, <1>21, <1>22, <1>23, IoChanges, CompletionChanges

\* A request that is before the main thread's next one stays before it.
LEMMA MainBefore ==
  ASSUME IInv, Types', [Next]_vars, NEW a, InProgress(a.irp), BeforeMain(a), a.sector \in Int
  PROVE  BeforeMain(a)'
<1>0. a.irp \in Irps /\ irp[a.irp].state = "item" /\ BeforeMain(a) /\ a.irp # NoIrp
      /\ \A s \in Sectors : s \in Int
  BY NoneAssumption, SectorsAreIntegers DEF InProgress
<1>1. ASSUME NEW i \in Irps, EnqueueIrp(i)
      PROVE  BeforeMain(a)'
  BY <1>1, <1>0, EnqueueIrpEffect DEF IInv, Types, EnqueueIrp, BeforeMain, MainRequesting
<1>2. CASE MainWait
  BY <1>2, <1>0 DEF IInv, Types, MainWait, MainType, BeforeMain, MainRequesting, MainQueued,
      MainHasItem, MainInv, MainType
<1>3. CASE MainNext
  <2>1. main.pc = "next" /\ main.irp = NoIrp
    BY <1>3 DEF IInv, MainNext, MainInv, MainQueued, MainHasItem, MainRequesting
  <2>2. main.queue # <<>> => Head(main.queue) # a.irp
    BY <1>0, HeadTail DEF IInv, MainInv, Types, MainType, InProgress
  <2>3. main'.irp # a.irp
    BY <1>3, <1>0, <2>1, <2>2, MainNextEffect, NoneAssumption DEF IInv
  <2> QED BY <2>3 DEF BeforeMain
<1>4. CASE MainTestSuspended
  BY <1>4, <1>0 DEF IInv, Types, MainTestSuspended, MainType, BeforeMain, MainRequesting,
      MainQueued, MainHasItem, MainInv, MainType
<1>5. CASE MainResumed
  BY <1>5, <1>0 DEF IInv, Types, MainResumed, MainType, BeforeMain, MainRequesting, MainQueued,
      MainHasItem, MainInv, MainType
<1>6. CASE MainPoolEmpty("item", pool.items, "itemWait")
  BY <1>6, <1>0 DEF IInv, Types, MainPoolEmpty, MainType, BeforeMain, MainRequesting,
      MainQueued, MainHasItem, MainInv, MainType
<1>7. CASE MainPoolWait("itemWait", "item")
  BY <1>7, <1>0 DEF IInv, Types, MainPoolWait, MainType, BeforeMain, MainRequesting, MainQueued,
      MainHasItem, MainInv, MainType
<1>8. CASE MainGetItem
  BY <1>8, <1>0 DEF IInv, Types, MainGetItem, MainType, BeforeMain, MainRequesting, MainQueued,
      MainHasItem, MainInv, MainType
<1>9. CASE MainRefuse
  BY <1>9, <1>0 DEF IInv, Types, MainRefuse, SetStatus, MainType, BeforeMain, MainRequesting,
      MainQueued, MainHasItem, MainInv, MainType
<1>10. CASE MainStart
  BY <1>10, <1>0, MainStartEffect DEF IInv, Types, MainStart, BeforeMain, MainRequesting
<1>11. CASE MainReadMisaligned
  BY <1>11, <1>0 DEF IInv, Types, MainReadMisaligned, Decrypt, MainType, BeforeMain,
      MainRequesting, MainQueued, MainHasItem, MainInv, MainType
<1>12. CASE MainComplete
  BY <1>12, <1>0, MainIdleEffect DEF IInv, Types, MainComplete, MainType, BeforeMain,
      MainRequesting
<1>13. CASE MainCountRequest
  BY <1>13, <1>0, CountRequestEffect DEF IInv, Types, MainCountRequest, BeforeMain, MainRequesting
<1>14. CASE MainPoolEmpty("getRequest", pool.requests, "requestWait")
  BY <1>14, <1>0 DEF IInv, Types, MainPoolEmpty, MainType, BeforeMain, MainRequesting,
      MainQueued, MainHasItem, MainInv, MainType
<1>15. CASE MainPoolWait("requestWait", "getRequest")
  BY <1>15, <1>0 DEF IInv, Types, MainPoolWait, MainType, BeforeMain, MainRequesting,
      MainQueued, MainHasItem, MainInv, MainType
<1>16. CASE MainGetRequest
  BY <1>16, <1>0, GetRequestEffect DEF IInv, Types, MainGetRequest, BeforeMain, MainRequesting
<1>17. CASE MainQueueFlush
  BY <1>17, <1>0, MainIdleEffect DEF IInv, Types, MainQueueFlush, BeforeMain, MainRequesting
<1>18. CASE MainQueueFragment
  BY <1>18, <1>0, QueueFragmentEffect, SectorsAreIntegers DEF IInv, Types, MainType, BeforeMain,
      MainRequesting
<1>19. CASE StopThread
  BY <1>19, <1>0 DEF IInv, Types, StopThread, MoveStop, MainType, BeforeMain, MainRequesting,
      MainQueued, MainHasItem, MainInv, MainType
<1>20. CASE UNCHANGED <<main>>
  BY <1>20 DEF IInv, BeforeMain, MainRequesting
<1> QED
  BY <1>1, <1>2, <1>3, <1>4, <1>5, <1>6, <1>7, <1>8, <1>9, <1>10, <1>11, <1>12, <1>13, <1>14,
      <1>15, <1>16, <1>17, <1>18, <1>19, <1>20, MainChanges

LEMMA RequestsBefore ==
  ASSUME IInv, Types', [Next]_vars
  PROVE  /\ \A n \in 1 .. Len(io.queue) : \A r : r = io.queue[n] => BeforeMain(r)'
         /\ IoBusy => \A r : r = io.request => BeforeMain(r)'
         /\ \A n \in 1 .. Len(completion.queue) :
              \A r : r = completion.queue[n] => BeforeMain(r)'
         /\ CompletionBusy => \A r : r = completion.request => BeforeMain(r)'
<1>1. /\ io.queue \in Seq(Requests) /\ io.request \in Requests
      /\ completion.queue \in Seq(Requests) /\ completion.request \in Requests
  BY DEF IInv, Types, IoType, CompletionType
<1>2. \A r \in Requests : r.sector \in Int
  BY RequestFields, SectorsAreIntegers
<1>3. /\ \A n \in 1 .. Len(io.queue) :
           InProgress(io.queue[n].irp) /\ BeforeMain(io.queue[n])
      /\ IoBusy => InProgress(io.request.irp) /\ BeforeMain(io.request)
      /\ \A n \in 1 .. Len(completion.queue) :
           InProgress(completion.queue[n].irp) /\ BeforeMain(completion.queue[n])
      /\ CompletionBusy =>
           InProgress(completion.request.irp) /\ BeforeMain(completion.request)
  BY DEF IInv, BeforeMainInv, ServedInv, IoRequest, CompletionRequest
<1>4. ASSUME NEW r \in Requests, InProgress(r.irp), BeforeMain(r)
      PROVE  BeforeMain(r)'
  BY <1>2, <1>4, MainBefore
<1> QED BY <1>1, <1>3, <1>4, ElementType

LEMMA BeforeMainInvStep ==
  ASSUME IInv, Types', [Next]_vars
  PROVE  BeforeMainInv'
<1>1. CASE MainCountRequest
  BY <1>1, RequestsBefore, CountRequestEffect DEF IInv, Types, IoType, CompletionType, MainType,
      BeforeMainInv, IoBusy, CompletionBusy, MainCountRequest
<1>2. CASE MainQueueFlush
  <2>1. /\ io'.queue = Append(io.queue, main.request) /\ io'.pc = io.pc
        /\ io'.request = io.request /\ completion' = completion
        /\ main.request \in Requests /\ io.queue \in Seq(Requests)
        /\ main.pc \in {"queueFlush", "queueFragment"}
    BY <1>2, EnqueueRequestEffect DEF MainQueueFlush, IInv
  <2>2. main.request.irp = main.irp /\ main.irp # NoIrp
    BY <2>1, MainRequestReady, NoneAssumption DEF IoRequest, InProgress
  <2>3. \A r : r = main.request => BeforeMain(r)'
    BY <1>2, <2>2, MainIdleEffect DEF MainQueueFlush, BeforeMain, IInv, Types
  <2>4. \A n \in 1 .. Len(io'.queue) : \A r : r = io'.queue[n] => BeforeMain(r)'
    BY <2>1, <2>3, AppendLast, RequestsBefore
  <2> QED BY <2>1, <2>4, RequestsBefore DEF BeforeMainInv, IoBusy, CompletionBusy
<1>3. CASE MainQueueFragment
  <2>1. /\ io'.queue = Append(io.queue, main.request) /\ io'.pc = io.pc
        /\ io'.request = io.request /\ completion' = completion
        /\ main.request \in Requests /\ io.queue \in Seq(Requests)
        /\ main.pc \in {"queueFlush", "queueFragment"}
    BY <1>3, EnqueueRequestEffect DEF MainQueueFragment, IInv
  <2>2. main.request.irp = main.irp /\ main.irp # NoIrp
    BY <2>1, MainRequestReady, NoneAssumption DEF IoRequest, InProgress
  <2>3. \A r : r = main.request => BeforeMain(r)'
    BY <1>3, <2>2, QueueFragmentEffect, SectorsAreIntegers
      DEF BeforeMain, MainRequesting, IInv, Types, MainType
  <2>4. \A n \in 1 .. Len(io'.queue) : \A r : r = io'.queue[n] => BeforeMain(r)'
    BY <2>1, <2>3, AppendLast, RequestsBefore
  <2> QED BY <2>1, <2>4, RequestsBefore DEF BeforeMainInv, IoBusy, CompletionBusy
<1>4. CASE IoWait
  BY <1>4, RequestsBefore DEF IInv, Types, IoWait, IoType, CompletionType, BeforeMainInv,
      IoBusy, CompletionBusy
<1>5. CASE IoNext
  <2>1. completion' = completion /\ io.pc = "next"
    BY <1>5 DEF IoNext
  <2>2. CASE io.queue = <<>>
    BY <1>5, <2>1, <2>2, IoNextEffect, RequestsBefore DEF IInv, BeforeMainInv, IoBusy,
        CompletionBusy
  <2>3. CASE io.queue # <<>>
    <3>1. /\ io.queue \in Seq(Requests) /\ io'.queue = Tail(io.queue)
          /\ io'.request = Head(io.queue)
      BY <1>5, <2>3, IoNextEffect DEF IInv
    <3> QED BY <2>1, <2>3, <3>1, HeadTail, RequestsBefore
            DEF BeforeMainInv, IoBusy, CompletionBusy
  <2> QED BY <2>2, <2>3
<1>6. CASE IoFlush
  BY <1>6, RequestsBefore DEF IInv, Types, IoFlush, SetStatus, Outcomes, IoKind, IoType,
      CompletionType, BeforeMainInv, IoBusy, CompletionBusy
<1>7. CASE IoSkip
  BY <1>7, RequestsBefore DEF IInv, Types, IoSkip, IoKind, IoType, CompletionType,
      BeforeMainInv, IoBusy, CompletionBusy
<1>8. CASE IoFail
  BY <1>8, RequestsBefore DEF IInv, Types, IoFail, SetStatus, IoKind, IoType, CompletionType,
      BeforeMainInv, IoBusy, CompletionBusy
<1>9. CASE IoWrite
  BY <1>9, RequestsBefore DEF IInv, Types, IoWrite, IoKind, IoType, CompletionType,
      BeforeMainInv, IoBusy, CompletionBusy
<1>10. CASE IoRead
  BY <1>10, RequestsBefore DEF IInv, Types, IoRead, IoKind, IoType, CompletionType,
      BeforeMainInv, IoBusy, CompletionBusy
<1>11. CASE IoFinishWrite
  BY <1>11, RequestsBefore DEF IInv, Types, IoFinishWrite, IoKind, FreeFragment, IoType,
      CompletionType, BeforeMainInv, IoBusy, CompletionBusy
<1>12. CASE IoFinishRead
  <2>1. /\ completion.queue \in Seq(Requests) /\ io.request \in Requests
        /\ completion'.queue = Append(completion.queue, io.request)
        /\ completion'.pc = completion.pc /\ completion'.request = completion.request
        /\ io'.queue = io.queue /\ io'.pc \in {"next", "readAhead"} /\ io.pc = "finish"
    BY <1>12, IoFinishReadMoves DEF IInv
  <2>2. \A n \in 1 .. Len(completion'.queue) :
          \A r : r = completion'.queue[n] => BeforeMain(r)'
    BY <2>1, AppendLast, RequestsBefore DEF IoBusy
  <2> QED BY <2>1, <2>2, RequestsBefore DEF BeforeMainInv, IoBusy, CompletionBusy
<1>13. CASE IoReadAhead
  BY <1>13, RequestsBefore DEF IInv, Types, IoReadAhead, Outcomes, IoType, CompletionType,
      BeforeMainInv, IoBusy, CompletionBusy
<1>14. CASE IoReadAheadDone
  BY <1>14, RequestsBefore, IoIdleEffect DEF IInv, Types, IoType, CompletionType, MainType,
      BeforeMainInv, IoBusy, CompletionBusy, IoReadAheadDone
<1>15. CASE IoComplete
  BY <1>15, RequestsBefore DEF IInv, Types, IoComplete, QueueIrpCompletion, IoType,
      CompletionType, BeforeMainInv, IoBusy, CompletionBusy
<1>16. CASE IoRelease
  BY <1>16, RequestsBefore, IoIdleEffect DEF IInv, Types, IoType, CompletionType, MainType,
      BeforeMainInv, IoBusy, CompletionBusy, IoRelease
<1>17. CASE CompletionWait
  BY <1>17, RequestsBefore DEF IInv, Types, CompletionWait, IoType, CompletionType,
      BeforeMainInv, IoBusy, CompletionBusy
<1>18. CASE CompletionNext
  <2>1. io' = io /\ completion.pc = "next"
    BY <1>18 DEF CompletionNext
  <2>2. CASE completion.queue = <<>>
    BY <1>18, <2>1, <2>2, CompletionNextEffect, RequestsBefore
      DEF IInv, BeforeMainInv, IoBusy, CompletionBusy
  <2>3. CASE completion.queue # <<>>
    <3>1. /\ completion.queue \in Seq(Requests)
          /\ completion'.queue = Tail(completion.queue)
          /\ completion'.request = Head(completion.queue)
      BY <1>18, <2>3, CompletionNextEffect DEF IInv
    <3> QED BY <2>1, <2>3, <3>1, HeadTail, RequestsBefore
            DEF BeforeMainInv, IoBusy, CompletionBusy
  <2> QED BY <2>2, <2>3
<1>19. CASE CompletionDecrypt
  BY <1>19, RequestsBefore DEF IInv, Types, CompletionDecrypt, Decrypt, IoType, CompletionType,
      BeforeMainInv, IoBusy, CompletionBusy
<1>20. CASE CompletionComplete
  BY <1>20, RequestsBefore DEF IInv, Types, CompletionComplete, QueueIrpCompletion, IoType,
      CompletionType, BeforeMainInv, IoBusy, CompletionBusy
<1>21. CASE CompletionRelease
  BY <1>21, RequestsBefore DEF IInv, Types, CompletionRelease, ReleaseRequest, IoType,
      CompletionType, BeforeMainInv, IoBusy, CompletionBusy
<1>22. CASE StopThread
  BY <1>22, RequestsBefore DEF IInv, Types, StopThread, MoveStop, IoType, CompletionType,
      BeforeMainInv, IoBusy, CompletionBusy
<1>23. CASE UNCHANGED <<io, completion>>
  BY RequestsBefore, <1>23 DEF IInv, BeforeMainInv, IoBusy, CompletionBusy
<1> QED
  BY <1>1, <1>2, <1>3, <1>4, <1>5, <1>6, <1>7, <1>8, <1>9, <1>10, <1>11, <1>12, <1>13, <1>14,
      <1>15, <1>16, <1>17, <1>18, <1>19, <1>20, <1>21, <1>22, <1>23, IoChanges, CompletionChanges

LEMMA BufferInvStep ==
  ASSUME IInv, Types', [Next]_vars
  PROVE  BufferInv'
<1>1. CASE MainCountRequest
  BY <1>1, CountRequestEffect DEF IInv, Types, IoType, FragmentType, BufferInv, IoHasBuffer,
      MainCountRequest
<1>2. CASE MainQueueFlush
  <2>1. /\ io'.queue = Append(io.queue, main.request) /\ io'.pc = io.pc
        /\ io'.request = io.request /\ fragment' = fragment
        /\ main.request \in Requests /\ io.queue \in Seq(Requests)
    BY <1>2, EnqueueRequestEffect DEF MainQueueFlush, IInv
  <2>2. main.request.buffer \notin Buffers
    BY <1>2, NoneAssumption DEF MainQueueFlush, IInv, RequestInv
  <2>3. /\ \A n \in 1 .. Len(io'.queue) : io'.queue[n].buffer \in Buffers =>
             n \in 1 .. Len(io.queue) /\ io'.queue[n] = io.queue[n]
        /\ \A n \in 1 .. Len(io.queue) :
             n \in 1 .. Len(io'.queue) /\ io'.queue[n] = io.queue[n]
    BY <2>1, <2>2, AppendLast
  <2> QED BY <2>1, <2>3 DEF IInv, BufferInv, IoHasBuffer
<1>3. CASE MainQueueFragment
  <2> DEFINE r == main.request
  <2>1. /\ io'.queue = Append(io.queue, r) /\ io'.pc = io.pc
        /\ io'.request = io.request
        /\ r \in Requests /\ io.queue \in Seq(Requests)
    BY <1>3, EnqueueRequestEffect DEF MainQueueFragment, IInv
  <2>2. /\ r.buffer \in Buffers /\ fragment[r.buffer].free /\ ~fragment'[r.buffer].free
        /\ \A b \in Buffers : b # r.buffer => fragment'[b] = fragment[b]
    BY <1>3, QueueFragmentEffect DEF IInv
  <2> HIDE DEF r
  <2>3. /\ Len(io.queue) \in Nat /\ Len(io'.queue) = Len(io.queue) + 1
        /\ io'.queue[Len(io.queue) + 1] = r
        /\ \A n \in 1 .. Len(io.queue) :
             n \in 1 .. Len(io'.queue) /\ io'.queue[n] = io.queue[n]
        /\ \A n \in 1 .. Len(io'.queue) : n \in 1 .. Len(io.queue) \/ n = Len(io.queue) + 1
    BY <2>1, AppendLast
  <2>4. \A n \in 1 .. Len(io.queue) : io.queue[n].buffer # r.buffer
    BY <2>2 DEF IInv, BufferInv
  <2>5. IoHasBuffer => io.request.buffer # r.buffer
    BY <2>2 DEF IInv, BufferInv
  <2>6. /\ \A n \in 1 .. Len(io'.queue) :
             io'.queue[n].buffer \in Buffers => ~fragment'[io'.queue[n].buffer].free
        /\ \A m, n \in 1 .. Len(io'.queue) :
             io'.queue[m].buffer \in Buffers
             /\ io'.queue[m].buffer = io'.queue[n].buffer => m = n
    <3>1. \A n \in 1 .. Len(io.queue) :
            io.queue[n].buffer \in Buffers => ~fragment'[io.queue[n].buffer].free
      BY <2>2, <2>4 DEF IInv, BufferInv
    <3>2. ASSUME NEW m \in 1 .. Len(io'.queue), NEW n \in 1 .. Len(io'.queue),
                 io'.queue[m].buffer \in Buffers,
                 io'.queue[m].buffer = io'.queue[n].buffer
          PROVE  m = n
      <4>1. CASE m \in 1 .. Len(io.queue) /\ n \in 1 .. Len(io.queue)
        BY <2>3, <3>2, <4>1 DEF IInv, BufferInv
      <4>2. CASE ~(m \in 1 .. Len(io.queue) /\ n \in 1 .. Len(io.queue))
        BY <2>3, <2>4, <3>2, <4>2
      <4> QED BY <4>1, <4>2
    <3>3. ASSUME NEW n \in 1 .. Len(io'.queue), io'.queue[n].buffer \in Buffers
          PROVE  ~fragment'[io'.queue[n].buffer].free
      <4>1. CASE n \in 1 .. Len(io.queue)
        BY <2>3, <3>1, <3>3, <4>1
      <4>2. CASE n = Len(io.queue) + 1
        BY <2>2, <2>3, <4>2
      <4> QED BY <2>3, <4>1, <4>2
    <3> QED BY <3>2, <3>3
  <2>7. \A b \in Buffers : ~fragment'[b].free =>
          \/ IoHasBuffer /\ io.request.buffer = b
          \/ \E n \in 1 .. Len(io'.queue) : io'.queue[n].buffer = b
    <3>1. ASSUME NEW b \in Buffers, ~fragment'[b].free, b # r.buffer
          PROVE  \/ IoHasBuffer /\ io.request.buffer = b
                 \/ \E n \in 1 .. Len(io'.queue) : io'.queue[n].buffer = b
      BY <2>2, <2>3, <3>1 DEF IInv, BufferInv
    <3>2. Len(io.queue) + 1 \in 1 .. Len(io'.queue)
      BY <2>3
    <3> QED BY <2>3, <3>1, <3>2
  <2>8. IoHasBuffer /\ io.request.buffer \in Buffers =>
          /\ ~fragment'[io.request.buffer].free
          /\ \A n \in 1 .. Len(io'.queue) : io'.queue[n].buffer # io.request.buffer
    BY <2>2, <2>3, <2>5 DEF IInv, BufferInv
  <2> QED BY <2>1, <2>6, <2>7, <2>8 DEF BufferInv, IoHasBuffer
<1>4. CASE IoWait
  BY <1>4 DEF IInv, Types, IoWait, IoType, FragmentType, BufferInv, IoHasBuffer
<1>5. CASE IoNext
  <2>1. fragment' = fragment /\ io.pc = "next"
    BY <1>5 DEF IoNext
  <2>2. CASE io.queue = <<>>
    BY <1>5, <2>1, <2>2, IoNextEffect DEF IInv, BufferInv, IoHasBuffer
  <2>3. CASE io.queue # <<>>
    <3>1. /\ io.queue \in Seq(Requests) /\ io'.queue = Tail(io.queue)
          /\ io'.request = Head(io.queue) /\ io'.pc = "perform"
      BY <1>5, <2>3, IoNextEffect DEF IInv
    <3>2. /\ Head(io.queue) = io.queue[1] /\ 1 \in 1 .. Len(io.queue)
          /\ Len(Tail(io.queue)) = Len(io.queue) - 1 /\ Len(io.queue) \in Nat
          /\ \A n \in 1 .. Len(Tail(io.queue)) :
               n + 1 \in 1 .. Len(io.queue) /\ Tail(io.queue)[n] = io.queue[n + 1]
      BY <2>3, <3>1, HeadTail
    <3>3. \A b \in Buffers : ~fragment[b].free =>
            \E n \in 1 .. Len(io.queue) : io.queue[n].buffer = b
      BY <2>1 DEF IInv, BufferInv, IoHasBuffer
    <3>4. ASSUME NEW b \in Buffers, ~fragment[b].free, Head(io.queue).buffer # b
          PROVE  \E n \in 1 .. Len(Tail(io.queue)) : Tail(io.queue)[n].buffer = b
      <4>1. PICK n \in 1 .. Len(io.queue) : io.queue[n].buffer = b
        BY <3>3, <3>4
      <4>2. n - 1 \in 1 .. Len(Tail(io.queue)) /\ (n - 1) + 1 = n
        BY <3>2, <3>4, <4>1
      <4> QED BY <3>2, <4>1, <4>2
    <3>5. /\ \A n \in 1 .. Len(Tail(io.queue)) :
               Tail(io.queue)[n].buffer \in Buffers =>
                 ~fragment[Tail(io.queue)[n].buffer].free
          /\ \A m, n \in 1 .. Len(Tail(io.queue)) :
               Tail(io.queue)[m].buffer \in Buffers
               /\ Tail(io.queue)[m].buffer = Tail(io.queue)[n].buffer => m = n
      BY <3>2 DEF IInv, BufferInv
    <3>6. Head(io.queue).buffer \in Buffers =>
            /\ ~fragment[Head(io.queue).buffer].free
            /\ \A n \in 1 .. Len(Tail(io.queue)) :
                 Tail(io.queue)[n].buffer # Head(io.queue).buffer
      BY <3>2 DEF IInv, BufferInv
    <3> QED BY <2>1, <3>1, <3>4, <3>5, <3>6 DEF BufferInv, IoHasBuffer
  <2> QED BY <2>2, <2>3
<1>6. CASE IoFlush
  <2>1. io.pc = "perform" /\ io.request.buffer = NoBuffer
    BY <1>6 DEF IoFlush, IoKind, IInv, ServedInv, IoRequest, IoBusy, Kind
  <2>2. /\ io'.pc = "complete" /\ io'.queue = io.queue /\ io'.request = io.request
        /\ fragment' = fragment
    BY <1>6 DEF IoFlush, IInv, Types, IoType
  <2> QED BY <2>1, <2>2, NoneAssumption DEF IInv, BufferInv, IoHasBuffer
<1>7. CASE IoSkip
  BY <1>7 DEF IInv, Types, IoSkip, IoKind, IoType, FragmentType, BufferInv, IoHasBuffer
<1>8. CASE IoFail
  BY <1>8 DEF IInv, Types, IoFail, SetStatus, IoKind, IoType, FragmentType, BufferInv,
      IoHasBuffer
<1>9. CASE IoWrite
  BY <1>9 DEF IInv, Types, IoWrite, IoKind, IoType, FragmentType, BufferInv, IoHasBuffer
<1>10. CASE IoRead
  <2>1. /\ io'.pc = "finish" /\ io.pc = "perform" /\ io'.queue = io.queue
        /\ io'.request = io.request
    BY <1>10 DEF IoRead, IInv, Types, IoType
  <2>2. \A b \in Buffers : fragment'[b].free = fragment[b].free
    BY <1>10, IoReadFragment DEF IInv
  <2> QED BY <2>1, <2>2 DEF IInv, BufferInv, IoHasBuffer
<1>11. CASE IoFinishWrite
  <2> DEFINE b == io.request.buffer
  <2>1. io.pc = "finish" /\ b \in Buffers
    BY <1>11, FinishBuffer DEF IInv, IoFinishWrite
  <2>2. io'.pc \notin {"perform", "finish"} /\ io'.queue = io.queue
    BY <1>11 DEF IoFinishWrite, IInv, Types, IoType
  <2>3. fragment' = FreeFragment(b) /\ FragmentType
    BY <1>11 DEF IoFinishWrite, IInv, Types
  <2>4. fragment'[b].free /\ \A c \in Buffers : c # b => fragment'[c] = fragment[c]
    BY <2>1, <2>3, FreeFragmentEffect
  <2>5. IoHasBuffer
    BY <2>1 DEF IoHasBuffer
  <2> HIDE DEF b
  <2>6. \A n \in 1 .. Len(io.queue) : io.queue[n].buffer # b
    BY <2>1, <2>5 DEF IInv, BufferInv, b
  <2> QED BY <2>1, <2>2, <2>4, <2>5, <2>6 DEF IInv, BufferInv, IoHasBuffer, b
<1>12. CASE IoFinishRead
  <2> DEFINE b == io.request.buffer
  <2>1. io.pc = "finish" /\ b \in Buffers
    BY <1>12, FinishBuffer DEF IInv, IoFinishRead
  <2>2. io'.pc \notin {"perform", "finish"} /\ io'.queue = io.queue
    BY <1>12, IoFinishReadMoves DEF IInv
  <2>3. fragment' = FreeFragment(b) /\ FragmentType
    BY <1>12 DEF IoFinishRead, IInv, Types
  <2>4. fragment'[b].free /\ \A c \in Buffers : c # b => fragment'[c] = fragment[c]
    BY <2>1, <2>3, FreeFragmentEffect
  <2>5. IoHasBuffer
    BY <2>1 DEF IoHasBuffer
  <2> HIDE DEF b
  <2>6. \A n \in 1 .. Len(io.queue) : io.queue[n].buffer # b
    BY <2>1, <2>5 DEF IInv, BufferInv, b
  <2> QED BY <2>1, <2>2, <2>4, <2>5, <2>6 DEF IInv, BufferInv, IoHasBuffer, b
<1>13. CASE IoReadAhead
  BY <1>13 DEF IInv, Types, IoReadAhead, Outcomes, IoType, FragmentType, BufferInv, IoHasBuffer
<1>14. CASE IoReadAheadDone
  BY <1>14, IoIdleEffect DEF IInv, Types, IoType, FragmentType, BufferInv, IoHasBuffer,
      IoReadAheadDone
<1>15. CASE IoComplete
  BY <1>15 DEF IInv, Types, IoComplete, QueueIrpCompletion, IoType, FragmentType, BufferInv,
      IoHasBuffer
<1>16. CASE IoRelease
  BY <1>16, IoIdleEffect DEF IInv, Types, IoType, FragmentType, BufferInv, IoHasBuffer, IoRelease
<1>17. CASE StopThread
  BY <1>17 DEF IInv, Types, StopThread, MoveStop, IoType, FragmentType, BufferInv, IoHasBuffer
<1>18. CASE UNCHANGED <<io, fragment>>
  BY <1>18 DEF IInv, BufferInv, IoHasBuffer
<1> QED
  BY <1>1, <1>2, <1>3, <1>4, <1>5, <1>6, <1>7, <1>8, <1>9, <1>10, <1>11, <1>12, <1>13, <1>14,
      <1>15, <1>16, <1>17, <1>18, IoChanges, FragmentChanges

LEMMA QueueLengths ==
  ASSUME Types
  PROVE  /\ io.queue \in Seq(Requests) /\ Len(io.queue) \in Nat
         /\ completion.queue \in Seq(Requests) /\ Len(completion.queue) \in Nat
         /\ main.request \in Requests /\ io.request \in Requests
         /\ io.pending \in Int /\ pool.requests \in Int /\ pool.items \in Int
         /\ active.count \in Int /\ active.returning \in Int
  BY DEF Types, IoType, CompletionType, MainType, PoolType, ActiveType

LEMMA PendingInvStep ==
  ASSUME IInv, Types', [Next]_vars
  PROVE  PendingInv'
<1>0. /\ PendingInv
      /\ Len(io.queue) \in Nat /\ Len(completion.queue) \in Nat
      /\ io.pending \in Int /\ pool.requests \in Int
      /\ MainCounts \in Int /\ MainHolds \in Int /\ IoHolds \in Int /\ CompletionHolds \in Int
  BY QueueLengths DEF IInv, MainCounts, MainHolds, IoHolds, CompletionHolds, One
<1>1. ASSUME NEW i \in Irps, EnqueueIrp(i)
      PROVE  PendingInv'
  BY <1>1, EnqueueIrpEffect DEF IInv, Types, EnqueueIrp, PendingInv, MainCounts, One
<1>2. CASE MainWait
  BY <1>2, QueueLengths DEF IInv, Types, MainWait, MainType, PendingInv, MainCounts, One
<1>3. CASE MainNext
  BY <1>3, MainNextEffect DEF IInv, Types, MainNext, PendingInv, MainCounts, One
<1>4. CASE MainTestSuspended
  BY <1>4, QueueLengths DEF IInv, Types, MainTestSuspended, MainType, PendingInv, MainCounts, One
<1>5. CASE MainResumed
  BY <1>5, QueueLengths DEF IInv, Types, MainResumed, MainType, PendingInv, MainCounts, One
<1>6. CASE MainPoolEmpty("item", pool.items, "itemWait")
  BY <1>6, QueueLengths DEF IInv, Types, MainPoolEmpty, MainType, PendingInv, MainCounts, One
<1>7. CASE MainPoolWait("itemWait", "item")
  BY <1>7, QueueLengths DEF IInv, Types, MainPoolWait, MainType, PendingInv, MainCounts, One
<1>8. CASE MainGetItem
  BY <1>8, QueueLengths DEF IInv, Types, MainGetItem, MainType, PendingInv, MainCounts, One
<1>9. CASE MainRefuse
  BY <1>9, QueueLengths DEF IInv, Types, MainRefuse, MainType, PendingInv, MainCounts, One
<1>10. CASE MainStart
  BY <1>10, MainStartEffect DEF IInv, Types, MainStart, PendingInv, MainCounts, One
<1>11. CASE MainReadMisaligned
  BY <1>11, QueueLengths DEF IInv, Types, MainReadMisaligned, MainType, PendingInv, MainCounts, One
<1>12. CASE MainComplete
  BY <1>12 DEF IInv, Types, MainComplete, QueueIrpCompletion, IoType, MainType, PendingInv,
      MainCounts, One
<1>13. CASE MainCountRequest
  <2>1. /\ main.pc = "request" /\ main'.pc = "getRequest" /\ io'.queue = io.queue
        /\ io'.pending = io.pending + 1
    BY <1>13, CountRequestEffect DEF IInv
  <2>2. MainCounts = 0 /\ MainCounts' = 1
    BY <2>1 DEF MainCounts, One
  <2> QED BY <1>0, <2>1, <2>2 DEF PendingInv
<1>14. CASE MainPoolEmpty("getRequest", pool.requests, "requestWait")
  BY <1>14, QueueLengths DEF IInv, Types, MainPoolEmpty, MainType, PendingInv, MainCounts, One
<1>15. CASE MainPoolWait("requestWait", "getRequest")
  BY <1>15, QueueLengths DEF IInv, Types, MainPoolWait, MainType, PendingInv, MainCounts, One
<1>16. CASE MainGetRequest
  BY <1>16, GetRequestEffect DEF IInv, Types, MainGetRequest, PendingInv, MainCounts, One
<1>17. CASE MainQueueFlush
  <2>1. /\ io'.queue = Append(io.queue, main.request) /\ io'.pc = io.pc
        /\ io'.pending = io.pending
        /\ main.request \in Requests /\ io.queue \in Seq(Requests)
        /\ main.pc = "queueFlush"
    BY <1>17, EnqueueRequestEffect DEF MainQueueFlush, IInv
  <2>2. main'.pc \in {"next", "request"}
    BY <1>17, MainIdleEffect DEF MainQueueFlush, IInv, Types
  <2>3. Len(io'.queue) = Len(io.queue) + 1
    BY <2>1, AppendLast
  <2>4. MainCounts = 1 /\ MainCounts' = 0
    BY <2>1, <2>2 DEF MainCounts, One
  <2> QED BY <1>0, <2>1, <2>3, <2>4 DEF PendingInv
<1>18. CASE MainQueueFragment
  <2>1. /\ io'.queue = Append(io.queue, main.request) /\ io'.pc = io.pc
        /\ io'.pending = io.pending
        /\ main.request \in Requests /\ io.queue \in Seq(Requests)
        /\ main.pc = "queueFragment"
    BY <1>18, EnqueueRequestEffect DEF MainQueueFragment, IInv
  <2>2. main'.pc \in {"next", "request"}
    BY <1>18, QueueFragmentEffect DEF MainQueueFragment, IInv, Types
  <2>3. Len(io'.queue) = Len(io.queue) + 1
    BY <2>1, AppendLast
  <2>4. MainCounts = 1 /\ MainCounts' = 0
    BY <2>1, <2>2 DEF MainCounts, One
  <2> QED BY <1>0, <2>1, <2>3, <2>4 DEF PendingInv
<1>19. CASE IoWait
  BY <1>19 DEF IInv, Types, IoWait, IoType, MainType, PendingInv, MainCounts, One
<1>20. CASE IoNext
  <2>1. CASE io.queue = <<>>
    BY <1>20, <2>1, IoNextEffect DEF IoNext, IInv, PendingInv, MainCounts, One
  <2>2. CASE io.queue # <<>>
    <3>1. /\ io.pc = "next" /\ io'.queue = Tail(io.queue) /\ io'.pc = "perform"
          /\ io'.pending = io.pending - 1 /\ io.queue \in Seq(Requests)
      BY <1>20, <2>2, IoNextEffect DEF IoNext, IInv
    <3>2. Len(io'.queue) = Len(io.queue) - 1
      BY <2>2, <3>1, HeadTail
    <3>3. UNCHANGED <<main, pool, completion>>
      BY <1>20 DEF IoNext
    <3>4. MainCounts' = MainCounts
      BY <3>3 DEF MainCounts
    <3> QED BY <1>0, <3>1, <3>2, <3>4 DEF PendingInv
  <2> QED BY <2>1, <2>2
<1>21. CASE IoFlush
  BY <1>21 DEF IInv, Types, IoFlush, SetStatus, Outcomes, IoKind, IoType, MainType, PendingInv,
      MainCounts, One
<1>22. CASE IoSkip
  BY <1>22 DEF IInv, Types, IoSkip, IoKind, IoType, MainType, PendingInv, MainCounts, One
<1>23. CASE IoFail
  BY <1>23 DEF IInv, Types, IoFail, SetStatus, IoKind, IoType, MainType, PendingInv, MainCounts,
      One
<1>24. CASE IoWrite
  BY <1>24 DEF IInv, Types, IoWrite, IoKind, IoType, MainType, PendingInv, MainCounts, One
<1>25. CASE IoRead
  BY <1>25 DEF IInv, Types, IoRead, IoKind, IoType, MainType, PendingInv, MainCounts, One
<1>26. CASE IoFinishWrite
  BY <1>26 DEF IInv, Types, IoFinishWrite, IoKind, FreeFragment, IoType, MainType, PendingInv,
      MainCounts, One
<1>27. CASE IoFinishRead
  BY <1>27, IoFinishReadMoves DEF IInv, Types, IoFinishRead, PendingInv, MainCounts, One
<1>28. CASE IoReadAhead
  BY <1>28 DEF IInv, Types, IoReadAhead, Outcomes, IoType, MainType, PendingInv, MainCounts, One
<1>29. CASE IoReadAheadDone
  BY <1>29, IoIdleEffect DEF IInv, Types, IoReadAheadDone, PendingInv, MainCounts, One
<1>30. CASE IoComplete
  BY <1>30 DEF IInv, Types, IoComplete, QueueIrpCompletion, IoType, MainType, PendingInv,
      MainCounts, One
<1>31. CASE IoRelease
  BY <1>31, IoIdleEffect DEF IInv, Types, IoRelease, PendingInv, MainCounts, One
<1>32. CASE StopThread
  BY <1>32 DEF IInv, Types, StopThread, MoveStop, IoType, MainType, PendingInv, MainCounts, One
<1>33. CASE UNCHANGED <<io, main>>
  BY <1>33 DEF IInv, PendingInv, MainCounts, One
<1> QED
  BY <1>1, <1>2, <1>3, <1>4, <1>5, <1>6, <1>7, <1>8, <1>9, <1>10, <1>11, <1>12, <1>13, <1>14,
      <1>15, <1>16, <1>17, <1>18, <1>19, <1>20, <1>21, <1>22, <1>23, <1>24, <1>25, <1>26, <1>27,
      <1>28, <1>29, <1>30, <1>31, <1>32, <1>33, IoChanges, MainChanges


\* What a step moves between the pool, the queues and the threads.
Moved(p, q, c, m, i, h) ==
  /\ pool'.requests = pool.requests + p
  /\ Len(io'.queue) = Len(io.queue) + q
  /\ Len(completion'.queue) = Len(completion.queue) + c
  /\ MainHolds' = MainHolds + m /\ IoHolds' = IoHolds + i
  /\ CompletionHolds' = CompletionHolds + h

\* The number of pool buffers stays what it is.
LEMMA RequestsMoved ==
  ASSUME IInv, NEW p \in Int, NEW q \in Int, NEW c \in Int, NEW m \in Int, NEW i \in Int,
         NEW h \in Int, Moved(p, q, c, m, i, h), p + q + c + m + i + h = 0,
         p >= 0 \/ pool'.requests >= 0
  PROVE  RequestPoolInv'
<1> DEFINE p0 == pool.requests
           q0 == Len(io.queue)
           c0 == Len(completion.queue)
           m0 == MainHolds
           i0 == IoHolds
           h0 == CompletionHolds
<1>1. p0 \in Int /\ q0 \in Int /\ c0 \in Int /\ m0 \in Int /\ i0 \in Int /\ h0 \in Int
  BY QueueLengths DEF IInv, MainHolds, IoHolds, CompletionHolds, One
<1>2. p0 >= 0 /\ RequestCount = p0 + q0 + c0 + m0 + i0 + h0
  BY DEF IInv, RequestPoolInv
<1>3. /\ pool'.requests = p0 + p /\ Len(io'.queue) = q0 + q
      /\ Len(completion'.queue) = c0 + c /\ MainHolds' = m0 + m /\ IoHolds' = i0 + i
      /\ CompletionHolds' = h0 + h
  BY DEF Moved
<1>6. p >= 0 \/ p0 + p >= 0
  BY <1>3
<1> HIDE DEF p0, q0, c0, m0, i0, h0
<1>4. RequestCount = (p0 + p) + (q0 + q) + (c0 + c) + (m0 + m) + (i0 + i) + (h0 + h)
  BY <1>1, <1>2
<1>5. p0 + p >= 0
  BY <1>1, <1>2, <1>6
<1> QED BY <1>3, <1>4, <1>5 DEF RequestPoolInv

LEMMA RequestPoolInvStep ==
  ASSUME IInv, Types', [Next]_vars
  PROVE  RequestPoolInv'
<1>0. /\ RequestPoolInv
      /\ Len(io.queue) \in Nat /\ Len(completion.queue) \in Nat
      /\ io.pending \in Int /\ pool.requests \in Int
      /\ MainCounts \in Int /\ MainHolds \in Int /\ IoHolds \in Int /\ CompletionHolds \in Int
  BY QueueLengths DEF IInv, MainCounts, MainHolds, IoHolds, CompletionHolds, One
<1>1. ASSUME NEW i \in Irps, EnqueueIrp(i)
      PROVE  RequestPoolInv'
  BY <1>1, EnqueueIrpEffect DEF IInv, Types, EnqueueIrp, RequestPoolInv, MainHolds, IoHolds,
      CompletionHolds, One, IoBusy, CompletionBusy
<1>2. CASE MainWait
  BY <1>2, QueueLengths DEF IInv, Types, MainWait, IoType, MainType, CompletionType, PoolType,
      RequestPoolInv, MainHolds, IoHolds, CompletionHolds, One, IoBusy, CompletionBusy
<1>3. CASE MainNext
  BY <1>3, MainNextEffect DEF IInv, Types, MainNext, RequestPoolInv, MainHolds, IoHolds,
      CompletionHolds, One, IoBusy, CompletionBusy
<1>4. CASE MainTestSuspended
  BY <1>4, QueueLengths DEF IInv, Types, MainTestSuspended, IoType, MainType, CompletionType,
      PoolType, RequestPoolInv, MainHolds, IoHolds, CompletionHolds, One, IoBusy, CompletionBusy
<1>5. CASE MainResumed
  BY <1>5, QueueLengths DEF IInv, Types, MainResumed, IoType, MainType, CompletionType, PoolType,
      RequestPoolInv, MainHolds, IoHolds, CompletionHolds, One, IoBusy, CompletionBusy
<1>6. CASE MainPoolEmpty("item", pool.items, "itemWait")
  BY <1>6, QueueLengths DEF IInv, Types, MainPoolEmpty, IoType, MainType, CompletionType,
      PoolType, RequestPoolInv, MainHolds, IoHolds, CompletionHolds, One, IoBusy, CompletionBusy
<1>7. CASE MainPoolWait("itemWait", "item")
  BY <1>7, QueueLengths DEF IInv, Types, MainPoolWait, IoType, MainType, CompletionType, PoolType,
      RequestPoolInv, MainHolds, IoHolds, CompletionHolds, One, IoBusy, CompletionBusy
<1>8. CASE MainGetItem
  BY <1>8, QueueLengths DEF IInv, Types, MainGetItem, IoType, MainType, CompletionType, PoolType,
      RequestPoolInv, MainHolds, IoHolds, CompletionHolds, One, IoBusy, CompletionBusy
<1>9. CASE MainRefuse
  BY <1>9, QueueLengths DEF IInv, Types, MainRefuse, IoType, MainType, CompletionType, PoolType,
      RequestPoolInv, MainHolds, IoHolds, CompletionHolds, One, IoBusy, CompletionBusy
<1>10. CASE MainStart
  BY <1>10, MainStartEffect DEF IInv, Types, MainStart, RequestPoolInv, MainHolds, IoHolds,
      CompletionHolds, One, IoBusy, CompletionBusy
<1>11. CASE MainReadMisaligned
  BY <1>11, QueueLengths DEF IInv, Types, MainReadMisaligned, IoType, MainType, CompletionType,
      PoolType, RequestPoolInv, MainHolds, IoHolds, CompletionHolds, One, IoBusy, CompletionBusy
<1>12. CASE MainComplete
  BY <1>12, QueueLengths DEF IInv, Types, MainComplete, IoType, MainType, CompletionType, PoolType,
      RequestPoolInv, MainHolds, IoHolds, CompletionHolds, One, IoBusy, CompletionBusy
<1>13. CASE MainCountRequest
  BY <1>13, CountRequestEffect, QueueLengths DEF IInv, Types, MainCountRequest, RequestPoolInv,
      MainHolds, IoHolds, CompletionHolds, One, IoBusy, CompletionBusy
<1>14. CASE MainPoolEmpty("getRequest", pool.requests, "requestWait")
  BY <1>14, QueueLengths DEF IInv, Types, MainPoolEmpty, IoType, MainType, CompletionType,
      PoolType, RequestPoolInv, MainHolds, IoHolds, CompletionHolds, One, IoBusy, CompletionBusy
<1>15. CASE MainPoolWait("requestWait", "getRequest")
  BY <1>15, QueueLengths DEF IInv, Types, MainPoolWait, IoType, MainType, CompletionType, PoolType,
      RequestPoolInv, MainHolds, IoHolds, CompletionHolds, One, IoBusy, CompletionBusy
<1>16. CASE MainGetRequest
  <2>1. /\ main.pc = "getRequest" /\ main'.pc \in {"queueFlush", "queueFragment"}
        /\ pool'.requests = pool.requests - 1 /\ pool.requests > 0
    BY <1>16, GetRequestEffect DEF IInv
  <2>2. UNCHANGED <<io, completion>>
    BY <1>16 DEF MainGetRequest
  <2>3. MainHolds = 0 /\ MainHolds' = 1
    BY <2>1 DEF MainHolds, One
  <2>4. IoHolds' = IoHolds /\ CompletionHolds' = CompletionHolds
    BY <2>2 DEF IoHolds, IoBusy, CompletionHolds, CompletionBusy
  <2>5. Moved(-1, 0, 0, 1, 0, 0)
    BY <1>0, <2>1, <2>2, <2>3, <2>4 DEF Moved
  <2>6. pool'.requests >= 0
    BY <1>0, <2>1
  <2> QED BY <2>5, <2>6, RequestsMoved
<1>17. CASE MainQueueFlush
  <2>1. /\ io'.queue = Append(io.queue, main.request) /\ io'.pc = io.pc
        /\ io'.pending = io.pending
        /\ main.request \in Requests /\ io.queue \in Seq(Requests)
        /\ main.pc = "queueFlush"
    BY <1>17, EnqueueRequestEffect DEF MainQueueFlush, IInv
  <2>2. main'.pc \in {"next", "request"}
    BY <1>17, MainIdleEffect DEF MainQueueFlush, IInv, Types
  <2>3. Len(io'.queue) = Len(io.queue) + 1
    BY <2>1, AppendLast
  <2>4. MainHolds = 1 /\ MainHolds' = 0 /\ IoHolds' = IoHolds
    BY <2>1, <2>2 DEF MainHolds, IoHolds, IoBusy, One
  <2>5. pool' = pool /\ completion' = completion /\ CompletionHolds' = CompletionHolds
    BY <1>17 DEF MainQueueFlush, CompletionHolds, CompletionBusy
  <2>6. Moved(0, 1, 0, -1, 0, 0)
    BY <1>0, <2>1, <2>3, <2>4, <2>5 DEF Moved
  <2> QED BY <2>6, RequestsMoved
<1>18. CASE MainQueueFragment
  <2>1. /\ io'.queue = Append(io.queue, main.request) /\ io'.pc = io.pc
        /\ io'.pending = io.pending
        /\ main.request \in Requests /\ io.queue \in Seq(Requests)
        /\ main.pc = "queueFragment"
    BY <1>18, EnqueueRequestEffect DEF MainQueueFragment, IInv
  <2>2. main'.pc \in {"next", "request"}
    BY <1>18, QueueFragmentEffect DEF MainQueueFragment, IInv, Types
  <2>3. Len(io'.queue) = Len(io.queue) + 1
    BY <2>1, AppendLast
  <2>4. MainHolds = 1 /\ MainHolds' = 0 /\ IoHolds' = IoHolds
    BY <2>1, <2>2 DEF MainHolds, IoHolds, IoBusy, One
  <2>5. pool' = pool /\ completion' = completion /\ CompletionHolds' = CompletionHolds
    BY <1>18 DEF MainQueueFragment, CompletionHolds, CompletionBusy
  <2>6. Moved(0, 1, 0, -1, 0, 0)
    BY <1>0, <2>1, <2>3, <2>4, <2>5 DEF Moved
  <2> QED BY <2>6, RequestsMoved
<1>19. CASE IoWait
  BY <1>19, QueueLengths DEF IInv, Types, IoWait, IoType, MainType, CompletionType, PoolType,
      RequestPoolInv, MainHolds, IoHolds, CompletionHolds, One, IoBusy, CompletionBusy
<1>20. CASE IoNext
  <2>1. CASE io.queue = <<>>
    BY <1>20, <2>1, IoNextEffect DEF IoNext, IInv, RequestPoolInv, MainHolds, IoHolds,
        CompletionHolds, One, IoBusy, CompletionBusy
  <2>2. CASE io.queue # <<>>
    <3>1. /\ io.pc = "next" /\ io'.queue = Tail(io.queue) /\ io'.pc = "perform"
          /\ io'.pending = io.pending - 1 /\ io.queue \in Seq(Requests)
      BY <1>20, <2>2, IoNextEffect DEF IoNext, IInv
    <3>2. Len(io'.queue) = Len(io.queue) - 1
      BY <2>2, <3>1, HeadTail
    <3>3. UNCHANGED <<main, pool, completion>>
      BY <1>20 DEF IoNext
    <3>4. IoHolds = 0 /\ IoHolds' = 1
      BY <3>1 DEF IoHolds, IoBusy, One
    <3>5. MainHolds' = MainHolds /\ CompletionHolds' = CompletionHolds
      BY <3>3 DEF MainHolds, CompletionHolds, CompletionBusy
    <3> QED BY <1>0, <3>1, <3>2, <3>3, <3>4, <3>5, SMTT(30) DEF RequestPoolInv
  <2> QED BY <2>1, <2>2
<1>21. CASE IoFlush
  BY <1>21, QueueLengths DEF IInv, Types, IoFlush, IoType, MainType, CompletionType, PoolType,
      RequestPoolInv, MainHolds, IoHolds, CompletionHolds, One, IoBusy, CompletionBusy
<1>22. CASE IoSkip
  BY <1>22, QueueLengths DEF IInv, Types, IoSkip, IoType, MainType, CompletionType, PoolType,
      RequestPoolInv, MainHolds, IoHolds, CompletionHolds, One, IoBusy, CompletionBusy
<1>23. CASE IoFail
  BY <1>23, QueueLengths DEF IInv, Types, IoFail, IoType, MainType, CompletionType, PoolType,
      RequestPoolInv, MainHolds, IoHolds, CompletionHolds, One, IoBusy, CompletionBusy
<1>24. CASE IoWrite
  BY <1>24, QueueLengths DEF IInv, Types, IoWrite, IoType, MainType, CompletionType, PoolType,
      RequestPoolInv, MainHolds, IoHolds, CompletionHolds, One, IoBusy, CompletionBusy
<1>25. CASE IoRead
  BY <1>25, QueueLengths DEF IInv, Types, IoRead, IoType, MainType, CompletionType, PoolType,
      RequestPoolInv, MainHolds, IoHolds, CompletionHolds, One, IoBusy, CompletionBusy
<1>26. CASE IoFinishWrite
  BY <1>26, QueueLengths DEF IInv, Types, IoFinishWrite, IoType, MainType, CompletionType,
      PoolType, RequestPoolInv, MainHolds, IoHolds, CompletionHolds, One, IoBusy, CompletionBusy
<1>27. CASE IoFinishRead
  <2>1. /\ completion.queue \in Seq(Requests) /\ io.request \in Requests
        /\ completion'.queue = Append(completion.queue, io.request)
        /\ completion'.pc = completion.pc /\ io.pc = "finish"
        /\ io'.queue = io.queue /\ io'.pc \in {"next", "readAhead"}
    BY <1>27, IoFinishReadMoves DEF IInv
  <2>2. Len(completion'.queue) = Len(completion.queue) + 1
    BY <2>1, AppendLast
  <2>3. UNCHANGED <<main, pool>>
    BY <1>27 DEF IoFinishRead
  <2>4. IoHolds = 1 /\ IoHolds' = 0
    BY <2>1 DEF IoHolds, IoBusy, One
  <2>5. MainHolds' = MainHolds /\ CompletionHolds' = CompletionHolds
    BY <2>1, <2>3 DEF MainHolds, CompletionHolds, CompletionBusy
  <2>6. Moved(0, 0, 1, 0, -1, 0)
    BY <1>0, <2>1, <2>2, <2>3, <2>4, <2>5 DEF Moved
  <2> QED BY <2>6, RequestsMoved
<1>28. CASE IoReadAhead
  BY <1>28, QueueLengths DEF IInv, Types, IoReadAhead, IoType, MainType, CompletionType, PoolType,
      RequestPoolInv, MainHolds, IoHolds, CompletionHolds, One, IoBusy, CompletionBusy
<1>29. CASE IoReadAheadDone
  BY <1>29, IoIdleEffect DEF IInv, Types, IoReadAheadDone, RequestPoolInv, MainHolds, IoHolds,
      CompletionHolds, One, IoBusy, CompletionBusy
<1>30. CASE IoComplete
  BY <1>30, QueueLengths DEF IInv, Types, IoComplete, IoType, MainType, CompletionType, PoolType,
      RequestPoolInv, MainHolds, IoHolds, CompletionHolds, One, IoBusy, CompletionBusy
<1>31. CASE IoRelease
  <2>1. /\ io'.queue = io.queue /\ io'.pc = "next" /\ io.pc = "release"
    BY <1>31, IoIdleEffect DEF IoRelease, IInv, Types
  <2>2. /\ pool'.requests = pool.requests + 1 /\ pool'.items = pool.items
        /\ UNCHANGED <<main, completion>>
    BY <1>31, ReleaseEffect DEF IoRelease, IInv, Types
  <2>3. IoHolds = 1 /\ IoHolds' = 0
    BY <2>1 DEF IoHolds, IoBusy, One
  <2>4. MainHolds' = MainHolds /\ CompletionHolds' = CompletionHolds
    BY <2>2 DEF MainHolds, CompletionHolds, CompletionBusy
  <2>5. Moved(1, 0, 0, 0, -1, 0)
    BY <1>0, <2>1, <2>2, <2>3, <2>4 DEF Moved
  <2> QED BY <2>5, RequestsMoved
<1>32. CASE CompletionWait
  BY <1>32, QueueLengths DEF IInv, Types, CompletionWait, IoType, MainType, CompletionType,
      PoolType, RequestPoolInv, MainHolds, IoHolds, CompletionHolds, One, IoBusy, CompletionBusy
<1>33. CASE CompletionNext
  <2>1. CASE completion.queue = <<>>
    BY <1>33, <2>1, CompletionNextEffect DEF CompletionNext, IInv, RequestPoolInv, MainHolds,
        IoHolds, CompletionHolds, One, IoBusy, CompletionBusy
  <2>2. CASE completion.queue # <<>>
    <3>1. /\ completion.pc = "next" /\ completion'.queue = Tail(completion.queue)
          /\ completion'.pc = "decrypt" /\ completion.queue \in Seq(Requests)
      BY <1>33, <2>2, CompletionNextEffect DEF CompletionNext, IInv
    <3>2. Len(completion'.queue) = Len(completion.queue) - 1
      BY <2>2, <3>1, HeadTail
    <3>3. UNCHANGED <<main, pool, io>>
      BY <1>33 DEF CompletionNext
    <3>4. CompletionHolds = 0 /\ CompletionHolds' = 1
      BY <3>1 DEF CompletionHolds, CompletionBusy, One
    <3>5. MainHolds' = MainHolds /\ IoHolds' = IoHolds
      BY <3>3 DEF MainHolds, IoHolds, IoBusy
    <3> QED BY <1>0, <3>1, <3>2, <3>3, <3>4, <3>5, SMTT(30) DEF RequestPoolInv
  <2> QED BY <2>1, <2>2
<1>34. CASE CompletionDecrypt
  BY <1>34, QueueLengths DEF IInv, Types, CompletionDecrypt, IoType, MainType, CompletionType,
      PoolType, RequestPoolInv, MainHolds, IoHolds, CompletionHolds, One, IoBusy, CompletionBusy
<1>35. CASE CompletionComplete
  BY <1>35, QueueLengths DEF IInv, Types, CompletionComplete, IoType, MainType, CompletionType,
      PoolType, RequestPoolInv, MainHolds, IoHolds, CompletionHolds, One, IoBusy, CompletionBusy
<1>36. CASE CompletionRelease
  <2>1. /\ completion'.queue = completion.queue /\ completion'.pc = "next"
        /\ completion.pc = "release"
    BY <1>36 DEF CompletionRelease, IInv, Types, CompletionType
  <2>2. /\ pool'.requests = pool.requests + 1 /\ pool'.items = pool.items
        /\ UNCHANGED <<main, io>>
    BY <1>36, ReleaseEffect DEF CompletionRelease, IInv, Types
  <2>3. CompletionHolds = 1 /\ CompletionHolds' = 0
    BY <2>1 DEF CompletionHolds, CompletionBusy, One
  <2>4. MainHolds' = MainHolds /\ IoHolds' = IoHolds
    BY <2>2 DEF MainHolds, IoHolds, IoBusy
  <2>5. Moved(1, 0, 0, 0, 0, -1)
    BY <1>0, <2>1, <2>2, <2>3, <2>4 DEF Moved
  <2> QED BY <2>5, RequestsMoved
<1>37. CASE WorkReleaseItem
  BY <1>37, ReleaseItemEffect, QueueLengths DEF IInv, Types, WorkReleaseItem, RequestPoolInv,
      MainHolds, IoHolds, CompletionHolds, One, IoBusy, CompletionBusy
<1>38. CASE StopThread
  BY <1>38, QueueLengths DEF IInv, Types, StopThread, IoType, MainType, CompletionType, PoolType,
      RequestPoolInv, MainHolds, IoHolds, CompletionHolds, One, IoBusy, CompletionBusy
<1>39. CASE UNCHANGED <<io, main, pool, completion>>
  BY <1>39 DEF IInv, RequestPoolInv, MainHolds, IoHolds, CompletionHolds, One, IoBusy,
      CompletionBusy
<1> QED
  BY <1>1, <1>2, <1>3, <1>4, <1>5, <1>6, <1>7, <1>8, <1>9, <1>10, <1>11, <1>12, <1>13, <1>14,
      <1>15, <1>16, <1>17, <1>18, <1>19, <1>20, <1>21, <1>22, <1>23, <1>24, <1>25, <1>26, <1>27,
      <1>28, <1>29, <1>30, <1>31, <1>32, <1>33, <1>34, <1>35, <1>36, <1>37, <1>38, <1>39,
      IoChanges, MainChanges, PoolChanges, CompletionChanges


-----------------------------------------------------------------------------
(* The states of the IRPs and of the work items, step by step.             *)

Moves(i, from, to) ==
  /\ i \in Irps /\ irp[i].state = from /\ irp'[i].state = to
  /\ \A j \in Irps : j # i => irp'[j].state = irp[j].state
SameStates == \A i \in Irps : irp'[i].state = irp[i].state

LEMMA StateMoves ==
  ASSUME IInv
  PROVE  /\ \A i \in Irps, o \in Ops : AddIrp(i, o) => Moves(i, "free", "counted")
         /\ \A i \in Irps : RejectIrp(i) => Moves(i, "counted", "completed")
         /\ \A i \in Irps : AcceptIrp(i) => Moves(i, "counted", "accepted")
         /\ \A i \in Irps : EnqueueIrp(i) => Moves(i, "accepted", "queued")
         /\ \A i \in Irps : Collect(i) => Moves(i, "completed", "free")
         /\ MainGetItem => Moves(main.irp, "queued", "item")
         /\ \A k \in WorkItems :
              WorkCompleteIrp(k) => Moves(work[k].irp, "item", "completed")
         /\ MainRefuse \/ MainReadMisaligned \/ IoFlush \/ IoFail \/ IoWrite \/ IoRead
              \/ IoFinishRead \/ CompletionDecrypt => SameStates
<1>1. ASSUME NEW i \in Irps, NEW o \in Ops, AddIrp(i, o)
      PROVE  Moves(i, "free", "counted")
  BY <1>1, AddIrpEffect DEF IInv, Moves
<1>2. ASSUME NEW i \in Irps, RejectIrp(i)
      PROVE  Moves(i, "counted", "completed")
  <2>1. /\ irp[i].state = "counted" /\ irp'[i].state = "completed"
        /\ \A m \in Irps : m # i => irp'[m] = irp[m]
    BY <1>2, StateUpdate DEF IInv, Types, RejectIrp, IrpStates
  <2> QED BY <2>1 DEF Moves
<1>3. ASSUME NEW i \in Irps, AcceptIrp(i)
      PROVE  Moves(i, "counted", "accepted")
  BY <1>3, OnlyState, ZenonT(60) DEF IInv, Types, AcceptIrp, IrpStates, Moves
<1>4. ASSUME NEW i \in Irps, EnqueueIrp(i)
      PROVE  Moves(i, "accepted", "queued")
  BY <1>4, OnlyState, ZenonT(60) DEF IInv, Types, EnqueueIrp, IrpStates, Moves
<1>5. ASSUME NEW i \in Irps, Collect(i)
      PROVE  Moves(i, "completed", "free")
  BY <1>5, IrpUpdate, FreeIrpFields DEF IInv, Types, Collect, Moves
<1>6. ASSUME MainGetItem
      PROVE  Moves(main.irp, "queued", "item")
  <2>1. main.irp \in Irps /\ irp[main.irp].state = "queued"
    BY <1>6 DEF IInv, MainInv, MainGetItem, MainQueued
  <2> QED BY <1>6, <2>1, OnlyState, ZenonT(60) DEF IInv, Types, MainGetItem, IrpStates, Moves
<1>7. ASSUME NEW k \in WorkItems, WorkCompleteIrp(k)
      PROVE  Moves(work[k].irp, "item", "completed")
  <2>1. work[k].irp \in Irps /\ irp[work[k].irp].state = "item"
    BY <1>7, WorkIrp DEF WorkCompleteIrp, MoveWork, Completing, IInv
  <2> QED BY <1>7, <2>1, OnlyState DEF IInv, Types, WorkCompleteIrp, IrpStates, Moves
<1>8. MainRefuse => SameStates
  BY MainIrp, OnlyStatus DEF IInv, Types, MainRefuse, MainHasItem, SameStates
<1>9. MainReadMisaligned => SameStates
  BY MainReadMisalignedEffect DEF IInv, SameStates
<1>10. IoFlush => SameStates
  BY BusyIrps, OnlyStatus DEF IInv, Types, IoFlush, Outcomes, IoBusy, SameStates
<1>11. IoFail => SameStates
  BY BusyIrps, OnlyStatus DEF IInv, Types, IoFail, IoBusy, SameStates
<1>12. IoWrite => SameStates
  BY IoWriteEffect DEF IInv, SameStates
<1>13. IoRead => SameStates
  BY IoReadEffect DEF IInv, SameStates
<1>14. IoFinishRead => SameStates
  BY IoFinishReadEffect DEF IInv, SameStates
<1>15. CompletionDecrypt => SameStates
  BY CompletionDecryptEffect DEF IInv, SameStates
<1> QED BY <1>1, <1>2, <1>3, <1>4, <1>5, <1>6, <1>7, <1>8, <1>9, <1>10, <1>11, <1>12,
           <1>13, <1>14, <1>15

Works(k, from, to) ==
  /\ k \in WorkItems /\ work[k].pc \in from /\ work'[k].pc \in to
  /\ \A j \in WorkItems : j # k => work'[j] = work[j]

LEMMA WorkMoves ==
  ASSUME IInv
  PROVE  /\ MainComplete \/ IoComplete \/ CompletionComplete =>
              /\ \E k \in WorkItems : Works(k, {"free"}, {"completeItem"})
              /\ active'.count = active.count + 1 /\ active'.returning = active.returning
         /\ \A k \in WorkItems : WorkCompleteItem(k) =>
              Works(k, {"completeItem"}, {"completeIrp"}) /\ work'[k].irp = work[k].irp
         /\ \A k \in WorkItems :
              WorkCompleteIrp(k) => Works(k, {"completeIrp"}, {"decrement"})
         /\ \A k \in WorkItems : WorkDecrement(k) =>
              /\ Works(k, {"decrement"}, {"signal", "return"})
              /\ active'.count = active.count - 1 /\ active'.returning = active.returning
         /\ \A k \in WorkItems : WorkSignal(k) =>
              /\ Works(k, {"signal"}, {"return"})
              /\ active'.count = active.count /\ active'.returning = active.returning
         /\ \A k \in WorkItems : WorkReturn(k) =>
              /\ Works(k, {"return"}, {"free"})
              /\ active'.count = active.count /\ active'.returning = active.returning + 1
<1>0. WorkType /\ ActiveType
  BY DEF IInv, Types
<1>1. ASSUME MainComplete \/ IoComplete \/ CompletionComplete
      PROVE  /\ \E k \in WorkItems : Works(k, {"free"}, {"completeItem"})
             /\ active'.count = active.count + 1 /\ active'.returning = active.returning
  <2>1. \E i \in Irps : QueueIrpCompletion(i)
    BY <1>1, MainIrp, BusyIrps DEF IInv, MainComplete, IoComplete, CompletionComplete,
       MainHasItem, IoBusy, CompletionBusy
  <2> QED BY <1>0, <2>1, QueueEffect DEF Works
<1>2. ASSUME NEW k \in WorkItems, WorkCompleteItem(k)
      PROVE  Works(k, {"completeItem"}, {"completeIrp"}) /\ work'[k].irp = work[k].irp
  BY <1>0, <1>2 DEF WorkCompleteItem, MoveWork, WorkType, Works
<1>3. ASSUME NEW k \in WorkItems, WorkCompleteIrp(k)
      PROVE  Works(k, {"completeIrp"}, {"decrement"})
  BY <1>0, <1>3 DEF WorkCompleteIrp, MoveWork, WorkType, Works
<1>4. ASSUME NEW k \in WorkItems, WorkDecrement(k)
      PROVE  /\ Works(k, {"decrement"}, {"signal", "return"})
             /\ active'.count = active.count - 1 /\ active'.returning = active.returning
  <2>1. PICK n \in Int : n = active.count - 1
    BY <1>0 DEF ActiveType
  <2>2. active' = [active EXCEPT !.count = n]
    BY <1>4, <2>1 DEF WorkDecrement
  <2>3. active'.count = n /\ active'.returning = active.returning
    BY <1>0, <2>2 DEF ActiveType
  <2>4. PICK x \in {"signal", "return"} : MoveWork(k, "decrement", x)
    BY <1>4 DEF WorkDecrement
  <2>5. Works(k, {"decrement"}, {"signal", "return"})
    BY <1>0, <2>4 DEF MoveWork, WorkType, Works
  <2> QED BY <2>1, <2>3, <2>5
<1>5. ASSUME NEW k \in WorkItems, WorkSignal(k)
      PROVE  /\ Works(k, {"signal"}, {"return"})
             /\ active'.count = active.count /\ active'.returning = active.returning
  BY <1>0, <1>5 DEF WorkSignal, MoveWork, WorkType, ActiveType, Works
<1>6. ASSUME NEW k \in WorkItems, WorkReturn(k)
      PROVE  /\ Works(k, {"return"}, {"free"})
             /\ active'.count = active.count /\ active'.returning = active.returning + 1
  <2>1. PICK n \in Int : n = active.returning + 1
    BY <1>0 DEF ActiveType
  <2>2. active' = [active EXCEPT !.returning = n]
    BY <1>6, <2>1 DEF WorkReturn
  <2>3. active'.returning = n /\ active'.count = active.count
    BY <1>0, <2>2 DEF ActiveType
  <2>4. Works(k, {"return"}, {"free"})
    BY <1>0, <1>6 DEF WorkReturn, WorkType, Works
  <2> QED BY <2>1, <2>3, <2>4
<1> QED BY <1>1, <1>2, <1>3, <1>4, <1>5, <1>6

\* A set with one element more, or one less.
LEMMA OneMore ==
  ASSUME NEW S, IsFiniteSet(S), NEW x, x \notin S
  PROVE  IsFiniteSet(S \cup {x}) /\ Cardinality(S \cup {x}) = Cardinality(S) + 1
  BY FS_AddElement

LEMMA OneLess ==
  ASSUME NEW S, IsFiniteSet(S), NEW x \in S
  PROVE  IsFiniteSet(S \ {x}) /\ Cardinality(S \ {x}) = Cardinality(S) - 1
  BY FS_RemoveElement

LEMMA FiniteParts ==
  /\ IsFiniteSet(Counted) /\ IsFiniteSet(ItemIrps)
  /\ IsFiniteSet(ActiveWork) /\ IsFiniteSet(LateWork)
  /\ Cardinality(Counted) \in Nat /\ Cardinality(ItemIrps) \in Nat
  /\ Cardinality(ActiveWork) \in Nat /\ Cardinality(LateWork) \in Nat
<1>1. /\ IsFiniteSet(Counted) /\ IsFiniteSet(ItemIrps)
      /\ IsFiniteSet(ActiveWork) /\ IsFiniteSet(LateWork)
  BY IrpsAssumption, PoolAssumption, FS_Subset DEF Counted, ItemIrps, ActiveWork, LateWork
<1> QED BY <1>1, FS_CardinalityType

\* ActiveWorkItems counts the work items that have not done their part.
LEMMA ActiveInvStep ==
  ASSUME IInv, Types', [Next]_vars
  PROVE  ActiveInv'
<1>0. /\ active.count = Cardinality(ActiveWork) /\ active.count \in Int
      /\ IsFiniteSet(ActiveWork)
  BY FiniteParts, QueueLengths DEF IInv, ActiveInv
<1>1. ASSUME MainComplete \/ IoComplete \/ CompletionComplete
      PROVE  ActiveInv'
  <2>1. PICK k \in WorkItems : Works(k, {"free"}, {"completeItem"})
    BY <1>1, WorkMoves
  <2>2. ActiveWork' = ActiveWork \cup {k} /\ k \notin ActiveWork
    BY <2>1 DEF Works, ActiveWork, IsActive
  <2> QED BY <1>0, <1>1, <2>2, WorkMoves, OneMore DEF ActiveInv
<1>2. ASSUME NEW k \in WorkItems, WorkCompleteItem(k) \/ WorkCompleteIrp(k)
      PROVE  ActiveInv'
  <2>1. /\ Works(k, {"completeItem", "completeIrp"}, {"completeIrp", "decrement"})
        /\ active' = active
    BY <1>2, WorkMoves DEF Works, WorkCompleteItem, WorkCompleteIrp
  <2>2. ActiveWork' = ActiveWork
    BY <2>1 DEF Works, ActiveWork, IsActive
  <2> QED BY <1>0, <2>1, <2>2 DEF ActiveInv
<1>3. ASSUME NEW k \in WorkItems, WorkDecrement(k)
      PROVE  ActiveInv'
  <2>1. Works(k, {"decrement"}, {"signal", "return"})
    BY <1>3, WorkMoves
  <2>2. ActiveWork' = ActiveWork \ {k} /\ k \in ActiveWork
    BY <2>1 DEF Works, ActiveWork, IsActive
  <2> QED BY <1>0, <1>3, <2>2, WorkMoves, OneLess DEF ActiveInv
<1>4. ASSUME NEW k \in WorkItems, WorkSignal(k) \/ WorkReturn(k)
      PROVE  ActiveInv'
  <2>1. Works(k, {"signal", "return"}, {"return", "free"}) /\ active'.count = active.count
    BY <1>4, WorkMoves DEF Works
  <2>2. ActiveWork' = ActiveWork
    BY <2>1 DEF Works, ActiveWork, IsActive
  <2> QED BY <1>0, <2>1, <2>2 DEF ActiveInv
<1>5. CASE WorkReleaseItem
  <2>1. active'.count = active.count /\ work' = work
    BY <1>5, ReleaseItemEffect DEF IInv, WorkReleaseItem
  <2> QED BY <1>0, <2>1 DEF ActiveInv, ActiveWork, IsActive
<1>6. CASE StopResetActive
  BY <1>0, <1>6 DEF StopResetActive, IInv, Types, ActiveType, ActiveInv, ActiveWork, IsActive
<1>7. CASE UNCHANGED <<work, active>>
  BY <1>0, <1>7 DEF ActiveInv, ActiveWork, IsActive
<1> QED BY <1>1, <1>2, <1>3, <1>4, <1>5, <1>6, <1>7, WorkChanges, ActiveChanges

\* OutstandingIoCount counts the IRPs that are not completed and the read-ahead.
LEMMA CountedMoves ==
  ASSUME IInv
  PROVE  /\ UNCHANGED <<irp, work>> => Counted' = Counted
         /\ SameStates /\ work' = work => Counted' = Counted
         /\ \A i \in Irps, o \in Ops : AddIrp(i, o) =>
              Counted' = Counted \cup {i} /\ i \notin Counted
         /\ \A i \in Irps : RejectIrp(i) => Counted' = Counted \ {i} /\ i \in Counted
         /\ \A i \in Irps : AcceptIrp(i) \/ EnqueueIrp(i) \/ Collect(i) => Counted' = Counted
         /\ MainGetItem => Counted' = Counted
         /\ MainComplete \/ IoComplete \/ CompletionComplete => Counted' = Counted
         /\ \A k \in WorkItems : WorkCompleteItem(k) =>
              Counted' = Counted \ {work[k].irp} /\ work[k].irp \in Counted
         /\ \A k \in WorkItems :
              WorkCompleteIrp(k) \/ WorkDecrement(k) \/ WorkSignal(k) \/ WorkReturn(k) =>
                Counted' = Counted
<1>1. \A k \in WorkItems : Completing(k) =>
        /\ work[k].irp \in Irps /\ irp[work[k].irp].state = "item"
        /\ \A j \in WorkItems : Completing(j) /\ work[j].irp = work[k].irp => j = k
  BY DEF IInv, WorkInv
<1>2. ASSUME NEW i \in Irps, NEW o \in Ops, AddIrp(i, o)
      PROVE  Counted' = Counted \cup {i} /\ i \notin Counted
  <2>1. Moves(i, "free", "counted") /\ work' = work
    BY <1>2, StateMoves DEF AddIrp
  <2> QED BY <2>1 DEF Moves, Counted, IsCounted
<1>3. ASSUME NEW i \in Irps, RejectIrp(i)
      PROVE  Counted' = Counted \ {i} /\ i \in Counted
  <2>1. Moves(i, "counted", "completed") /\ work' = work
    BY <1>3, StateMoves DEF RejectIrp
  <2> QED BY <2>1 DEF Moves, Counted, IsCounted
<1>4. ASSUME NEW i \in Irps, AcceptIrp(i) \/ EnqueueIrp(i) \/ Collect(i)
      PROVE  Counted' = Counted
  <2>1. /\ \/ Moves(i, "counted", "accepted") \/ Moves(i, "accepted", "queued")
           \/ Moves(i, "completed", "free")
        /\ work' = work
    BY <1>4, StateMoves DEF AcceptIrp, EnqueueIrp, Collect
  <2> QED BY <2>1 DEF Moves, Counted, IsCounted
<1>5. ASSUME MainGetItem
      PROVE  Counted' = Counted
  <2>1. Moves(main.irp, "queued", "item") /\ work' = work
    BY <1>5, StateMoves DEF MainGetItem
  <2> QED BY <1>1, <2>1 DEF Moves, Counted, IsCounted, Completing
<1>6. ASSUME MainComplete \/ IoComplete \/ CompletionComplete
      PROVE  Counted' = Counted
  <2>1. PICK k \in WorkItems : Works(k, {"free"}, {"completeItem"})
    BY <1>6, WorkMoves
  <2>2. irp' = irp
    BY <1>6 DEF MainComplete, IoComplete, CompletionComplete
  <2>3. \A j \in WorkItems : /\ work'[j].pc = "completeIrp" <=> work[j].pc = "completeIrp"
                             /\ work[j].pc = "completeIrp" => work'[j] = work[j]
    BY <2>1 DEF Works
  <2> QED BY <2>2, <2>3 DEF Counted, IsCounted
<1>7. ASSUME NEW k \in WorkItems, WorkCompleteItem(k)
      PROVE  Counted' = Counted \ {work[k].irp} /\ work[k].irp \in Counted
  <2>1. /\ Works(k, {"completeItem"}, {"completeIrp"}) /\ work'[k].irp = work[k].irp
        /\ irp' = irp
    BY <1>7, WorkMoves DEF WorkCompleteItem
  <2>2. Completing(k)
    BY <2>1 DEF Works, Completing
  <2>3. /\ work[k].irp \in Irps /\ irp[work[k].irp].state = "item"
        /\ \A j \in WorkItems :
             work[j].pc = "completeIrp" /\ work[j].irp = work[k].irp => j = k
    BY <1>1, <2>2 DEF Completing
  <2> QED BY <2>1, <2>3 DEF Works, Counted, IsCounted
<1>8. ASSUME NEW k \in WorkItems, WorkCompleteIrp(k)
      PROVE  Counted' = Counted
  <2>1. /\ Works(k, {"completeIrp"}, {"decrement"}) /\ Moves(work[k].irp, "item", "completed")
    BY <1>8, WorkMoves, StateMoves
  <2> QED BY <2>1 DEF Works, Moves, Counted, IsCounted
<1>9. ASSUME NEW k \in WorkItems, WorkDecrement(k) \/ WorkSignal(k) \/ WorkReturn(k)
      PROVE  Counted' = Counted
  <2>1. /\ Works(k, {"decrement", "signal", "return"}, {"signal", "return", "free"})
        /\ irp' = irp
    BY <1>9, WorkMoves DEF Works, WorkDecrement, WorkSignal, WorkReturn
  <2>2. \A j \in WorkItems : /\ work'[j].pc = "completeIrp" <=> work[j].pc = "completeIrp"
                             /\ work[j].pc = "completeIrp" => work'[j] = work[j]
    BY <2>1 DEF Works
  <2> QED BY <2>1, <2>2 DEF Counted, IsCounted
<1>10. UNCHANGED <<irp, work>> => Counted' = Counted
  BY DEF Counted, IsCounted
<1>11. SameStates /\ work' = work => Counted' = Counted
  BY DEF SameStates, Counted, IsCounted
<1> QED BY <1>2, <1>3, <1>4, <1>5, <1>6, <1>7, <1>8, <1>9, <1>10, <1>11


\* The step changes nothing that OutstandingIoCount counts.
Steady ==
  gate'.outstanding = gate.outstanding /\ ReadsAhead' = ReadsAhead /\ Counted' = Counted

LEMMA OutstandingInvStep ==
  ASSUME IInv, Types', [Next]_vars
  PROVE  OutstandingInv'
<1>0. /\ gate.outstanding = Cardinality(Counted) + ReadsAhead
      /\ ReadsAhead \in Int /\ Cardinality(Counted) \in Int /\ IsFiniteSet(Counted)
  BY FiniteParts DEF IInv, OutstandingInv, ReadsAhead, One
<1>1. ASSUME NEW i \in Irps, NEW o \in Ops, AddIrp(i, o)
      PROVE  OutstandingInv'
  <2>1. Counted' = Counted \cup {i} /\ i \notin Counted
    BY <1>1, CountedMoves
  <2>2. gate' = CountReadAhead /\ ReadsAhead' = ReadsAhead
    BY <1>1 DEF AddIrp, CountReadAhead, ReadsAhead
  <2>3. gate'.outstanding = gate.outstanding + 1
    BY <2>2, IncrementEffect DEF IInv, Types
  <2> QED BY <1>0, <2>1, <2>2, <2>3, OneMore DEF OutstandingInv
<1>2. ASSUME NEW i \in Irps, RejectIrp(i)
      PROVE  OutstandingInv'
  <2>1. Counted' = Counted \ {i} /\ i \in Counted
    BY <1>2, CountedMoves
  <2>2. gate'.outstanding = gate.outstanding - 1 /\ ReadsAhead' = ReadsAhead
    BY <1>2, DecrementEffect DEF RejectIrp, IInv, Types, GateType, ReadsAhead
  <2>3. Cardinality(Counted') = Cardinality(Counted) - 1
    BY <1>0, <2>1, OneLess
  <2> QED BY <1>0, <2>1, <2>2, <2>3 DEF OutstandingInv
<1>3. ASSUME NEW i \in Irps, AcceptIrp(i)
      PROVE  OutstandingInv'
  <2>1. Steady
    BY <1>3, CountedMoves, StateMoves DEF IInv, Types, GateType, IoType, Steady, ReadsAhead,
        AcceptIrp
  <2> QED BY <1>0, <2>1 DEF Steady, OutstandingInv
<1>4. ASSUME NEW i \in Irps, EnqueueIrp(i)
      PROVE  OutstandingInv'
  <2>1. Steady
    BY <1>4, CountedMoves, StateMoves DEF IInv, Types, GateType, IoType, Steady, ReadsAhead,
        EnqueueIrp
  <2> QED BY <1>0, <2>1 DEF Steady, OutstandingInv
<1>5. ASSUME NEW i \in Irps, Collect(i)
      PROVE  OutstandingInv'
  <2>1. Steady
    BY <1>5, CountedMoves, StateMoves DEF IInv, Types, GateType, IoType, Steady, ReadsAhead,
        Collect, FreeIrp, FreshIrp
  <2> QED BY <1>0, <2>1 DEF Steady, OutstandingInv
<1>6. CASE MainResumed
  <2>1. Steady
    BY <1>6, CountedMoves, StateMoves DEF IInv, Types, GateType, IoType, Steady, ReadsAhead,
        MainResumed
  <2> QED BY <1>0, <2>1 DEF Steady, OutstandingInv
<1>7. CASE MainGetItem
  <2>1. Steady
    BY <1>7, CountedMoves, StateMoves DEF IInv, Types, GateType, IoType, Steady, ReadsAhead,
        MainGetItem
  <2> QED BY <1>0, <2>1 DEF Steady, OutstandingInv
<1>8. CASE MainRefuse
  <2>1. Steady
    BY <1>8, CountedMoves, StateMoves DEF IInv, Types, GateType, IoType, Steady, ReadsAhead,
        MainRefuse, SetStatus
  <2> QED BY <1>0, <2>1 DEF Steady, OutstandingInv
<1>9. CASE MainReadMisaligned
  <2>1. Steady
    BY <1>9, CountedMoves, StateMoves DEF IInv, Types, GateType, IoType, Steady, ReadsAhead,
        MainReadMisaligned, Decrypt
  <2> QED BY <1>0, <2>1 DEF Steady, OutstandingInv
<1>10. CASE MainComplete
  <2>1. Steady
    BY <1>10, CountedMoves, StateMoves DEF IInv, Types, GateType, IoType, Steady, ReadsAhead,
        MainComplete, QueueIrpCompletion
  <2> QED BY <1>0, <2>1 DEF Steady, OutstandingInv
<1>11. CASE MainCountRequest
  <2>1. Steady
    BY <1>11, CountedMoves, StateMoves, CountRequestEffect DEF IInv, Types, GateType, IoType,
        Steady, ReadsAhead, MainCountRequest
  <2> QED BY <1>0, <2>1 DEF Steady, OutstandingInv
<1>12. CASE MainQueueFlush
  <2>1. Steady
    BY <1>12, CountedMoves, StateMoves, EnqueueRequestEffect DEF IInv, Types, GateType, IoType,
        Steady, ReadsAhead, MainQueueFlush, EnqueueRequest, MainIdle
  <2> QED BY <1>0, <2>1 DEF Steady, OutstandingInv
<1>13. CASE MainQueueFragment
  <2>1. Steady
    BY <1>13, CountedMoves, StateMoves, EnqueueRequestEffect DEF IInv, Types, GateType, IoType,
        Steady, ReadsAhead, MainQueueFragment, EnqueueRequest, MainIdle, BufferIsFree, Encrypt
  <2> QED BY <1>0, <2>1 DEF Steady, OutstandingInv
<1>14. CASE IoWait
  <2>1. Steady
    BY <1>14, CountedMoves, StateMoves DEF IInv, Types, GateType, IoType, Steady, ReadsAhead,
        IoWait
  <2> QED BY <1>0, <2>1 DEF Steady, OutstandingInv
<1>15. CASE IoNext
  <2>1. Steady
    BY <1>15, CountedMoves, StateMoves, IoNextEffect DEF IInv, Types, GateType, IoType, Steady,
        ReadsAhead, IoNext
  <2> QED BY <1>0, <2>1 DEF Steady, OutstandingInv
<1>16. CASE IoFlush
  <2>1. Counted' = Counted
    BY <1>16, CountedMoves, StateMoves DEF IoFlush
  <2>2. gate' = gate /\ ReadsAhead' = ReadsAhead
    BY <1>16 DEF IoFlush, IInv, Types, IoType, ReadsAhead
  <2> QED BY <1>0, <2>1, <2>2 DEF OutstandingInv
<1>17. CASE IoSkip
  <2>1. Steady
    BY <1>17, CountedMoves, StateMoves DEF IInv, Types, GateType, IoType, Steady, ReadsAhead,
        IoSkip, IoKind
  <2> QED BY <1>0, <2>1 DEF Steady, OutstandingInv
<1>18. CASE IoFail
  <2>1. Steady
    BY <1>18, CountedMoves, StateMoves DEF IInv, Types, GateType, IoType, Steady, ReadsAhead,
        IoFail, SetStatus, IoKind
  <2> QED BY <1>0, <2>1 DEF Steady, OutstandingInv
<1>19. CASE IoWrite
  <2>1. Steady
    BY <1>19, CountedMoves, StateMoves DEF IInv, Types, GateType, IoType, Steady, ReadsAhead,
        IoWrite, IoKind
  <2> QED BY <1>0, <2>1 DEF Steady, OutstandingInv
<1>20. CASE IoRead
  <2>1. Steady
    BY <1>20, CountedMoves, StateMoves DEF IInv, Types, GateType, IoType, Steady, ReadsAhead,
        IoRead, IoKind
  <2> QED BY <1>0, <2>1 DEF Steady, OutstandingInv
<1>21. CASE IoFinishWrite
  <2>1. Steady
    BY <1>21, CountedMoves, StateMoves DEF IInv, Types, GateType, IoType, Steady, ReadsAhead,
        IoFinishWrite, IoKind, FreeFragment
  <2> QED BY <1>0, <2>1 DEF Steady, OutstandingInv
<1>22. CASE IoFinishRead
  <2>1. Counted' = Counted
    BY <1>22, CountedMoves, StateMoves DEF IoFinishRead
  <2>2. ReadsAhead = 0
    BY <1>22 DEF IoFinishRead, ReadsAhead, One
  <2>3. CASE io'.pc = "readAhead" /\ gate'.outstanding = gate.outstanding + 1
    <3>1. ReadsAhead' = 1
      BY <2>3 DEF ReadsAhead, One
    <3> QED BY <1>0, <2>1, <2>2, <2>3, <3>1 DEF OutstandingInv
  <2>4. CASE io'.pc = "next" /\ gate'.outstanding = gate.outstanding
    <3>1. ReadsAhead' = 0
      BY <2>4 DEF ReadsAhead, One
    <3> QED BY <1>0, <2>1, <2>2, <2>4, <3>1 DEF OutstandingInv
  <2> QED BY <1>22, <2>3, <2>4, IoFinishReadMoves DEF IInv
<1>23. CASE IoReadAhead
  <2>1. Steady
    BY <1>23, CountedMoves, StateMoves DEF IInv, Types, GateType, IoType, Steady, ReadsAhead,
        IoReadAhead, Outcomes
  <2> QED BY <1>0, <2>1 DEF Steady, OutstandingInv
<1>24. CASE IoReadAheadDone
  <2>1. Counted' = Counted /\ io.pc = "readAheadDone" /\ io'.pc = "next"
    BY <1>24, CountedMoves, IoIdleEffect DEF IoReadAheadDone, IInv, Types
  <2>2. gate'.outstanding = gate.outstanding - 1
    BY <1>24, DecrementEffect DEF IoReadAheadDone, IInv, Types
  <2>3. ReadsAhead = 1 /\ ReadsAhead' = 0
    BY <2>1 DEF ReadsAhead, One
  <2> QED BY <1>0, <2>1, <2>2, <2>3 DEF OutstandingInv
<1>25. CASE IoComplete
  <2>1. Counted' = Counted
    BY <1>25, CountedMoves, StateMoves DEF IoComplete
  <2>2. gate' = gate /\ ReadsAhead' = ReadsAhead
    BY <1>25 DEF IoComplete, IInv, Types, IoType, ReadsAhead
  <2> QED BY <1>0, <2>1, <2>2 DEF OutstandingInv
<1>26. CASE IoRelease
  <2>1. Steady
    BY <1>26, CountedMoves, StateMoves, IoIdleEffect DEF IInv, Types, GateType, IoType, Steady,
        ReadsAhead, IoRelease, ReleaseRequest, IoIdle
  <2> QED BY <1>0, <2>1 DEF Steady, OutstandingInv
<1>27. CASE CompletionDecrypt
  <2>1. Steady
    BY <1>27, CountedMoves, StateMoves DEF IInv, Types, GateType, IoType, Steady, ReadsAhead,
        CompletionDecrypt, Decrypt
  <2> QED BY <1>0, <2>1 DEF Steady, OutstandingInv
<1>28. CASE CompletionComplete
  <2>1. Steady
    BY <1>28, CountedMoves, StateMoves DEF IInv, Types, GateType, IoType, Steady, ReadsAhead,
        CompletionComplete, QueueIrpCompletion
  <2> QED BY <1>0, <2>1 DEF Steady, OutstandingInv
<1>29. ASSUME NEW k \in WorkItems, WorkCompleteItem(k)
      PROVE  OutstandingInv'
  <2>1. Counted' = Counted \ {work[k].irp} /\ work[k].irp \in Counted
    BY <1>29, CountedMoves
  <2>2. gate'.outstanding = gate.outstanding - 1 /\ ReadsAhead' = ReadsAhead
    BY <1>29, DecrementEffect DEF WorkCompleteItem, IInv, Types, GateType, ReadsAhead
  <2>3. Cardinality(Counted') = Cardinality(Counted) - 1
    BY <1>0, <2>1, OneLess
  <2> QED BY <1>0, <2>1, <2>2, <2>3 DEF OutstandingInv
<1>30. ASSUME NEW k \in WorkItems, WorkCompleteIrp(k)
      PROVE  OutstandingInv'
  <2>1. Steady
    BY <1>30, CountedMoves, StateMoves DEF IInv, Types, GateType, IoType, Steady, ReadsAhead,
        WorkCompleteIrp, MoveWork
  <2> QED BY <1>0, <2>1 DEF Steady, OutstandingInv
<1>31. ASSUME NEW k \in WorkItems, WorkDecrement(k)
      PROVE  OutstandingInv'
  <2>1. Steady
    BY <1>31, CountedMoves, StateMoves DEF IInv, Types, GateType, IoType, Steady, ReadsAhead,
        WorkDecrement, MoveWork
  <2> QED BY <1>0, <2>1 DEF Steady, OutstandingInv
<1>32. ASSUME NEW k \in WorkItems, WorkSignal(k)
      PROVE  OutstandingInv'
  <2>1. Steady
    BY <1>32, CountedMoves, StateMoves DEF IInv, Types, GateType, IoType, Steady, ReadsAhead,
        WorkSignal, MoveWork
  <2> QED BY <1>0, <2>1 DEF Steady, OutstandingInv
<1>33. ASSUME NEW k \in WorkItems, WorkReturn(k)
      PROVE  OutstandingInv'
  <2>1. Steady
    BY <1>33, CountedMoves, StateMoves DEF IInv, Types, GateType, IoType, Steady, ReadsAhead,
        WorkReturn
  <2> QED BY <1>0, <2>1 DEF Steady, OutstandingInv
<1>34. CASE HoldBegin
  <2>1. Steady
    BY <1>34, CountedMoves, StateMoves DEF IInv, Types, GateType, IoType, Steady, ReadsAhead,
        HoldBegin, MoveHold
  <2> QED BY <1>0, <2>1 DEF Steady, OutstandingInv
<1>35. CASE HoldWoken
  <2>1. Steady
    BY <1>35, CountedMoves, StateMoves DEF IInv, Types, GateType, IoType, Steady, ReadsAhead,
        HoldWoken, MoveHold
  <2> QED BY <1>0, <2>1 DEF Steady, OutstandingInv
<1>36. CASE HoldFail
  <2>1. Steady
    BY <1>36, CountedMoves, StateMoves DEF IInv, Types, GateType, IoType, Steady, ReadsAhead,
        HoldFail
  <2> QED BY <1>0, <2>1 DEF Steady, OutstandingInv
<1>37. CASE HoldSuspend
  <2>1. Steady
    BY <1>37, CountedMoves, StateMoves DEF IInv, Types, GateType, IoType, Steady, ReadsAhead,
        HoldSuspend, MoveHold
  <2> QED BY <1>0, <2>1 DEF Steady, OutstandingInv
<1>38. CASE HoldUndo
  <2>1. Steady
    BY <1>38, CountedMoves, StateMoves DEF IInv, Types, GateType, IoType, Steady, ReadsAhead,
        HoldUndo, MoveHold
  <2> QED BY <1>0, <2>1 DEF Steady, OutstandingInv
<1>39. CASE HoldSucceed
  <2>1. Steady
    BY <1>39, CountedMoves, StateMoves DEF IInv, Types, GateType, IoType, Steady, ReadsAhead,
        HoldSucceed, MoveHold
  <2> QED BY <1>0, <2>1 DEF Steady, OutstandingInv
<1>40. CASE ResumeFromHold
  <2>1. Steady
    BY <1>40, CountedMoves, StateMoves DEF IInv, Types, GateType, IoType, Steady, ReadsAhead,
        ResumeFromHold
  <2> QED BY <1>0, <2>1 DEF Steady, OutstandingInv
<1>41. CASE StopBegin
  <2>1. Steady
    BY <1>41, CountedMoves, StateMoves DEF IInv, Types, GateType, IoType, Steady, ReadsAhead,
        StopBegin, MoveStop
  <2> QED BY <1>0, <2>1 DEF Steady, OutstandingInv
<1>42. CASE StopDrain
  <2>1. Steady
    BY <1>42, CountedMoves, StateMoves DEF IInv, Types, GateType, IoType, Steady, ReadsAhead,
        StopDrain, MoveStop
  <2> QED BY <1>0, <2>1 DEF Steady, OutstandingInv
<1>43. CASE StopWoken
  <2>1. Steady
    BY <1>43, CountedMoves, StateMoves DEF IInv, Types, GateType, IoType, Steady, ReadsAhead,
        StopWoken, MoveStop
  <2> QED BY <1>0, <2>1 DEF Steady, OutstandingInv
<1>44. CASE StopThread
  <2>1. Steady
    BY <1>44, CountedMoves, StateMoves DEF IInv, Types, GateType, IoType, Steady, ReadsAhead,
        StopThread, MoveStop
  <2> QED BY <1>0, <2>1 DEF Steady, OutstandingInv
<1>45. CASE UNCHANGED <<irp, gate, io, work>>
  BY <1>0, <1>45, CountedMoves DEF OutstandingInv, ReadsAhead
<1> QED
  BY <1>1, <1>2, <1>3, <1>4, <1>5, <1>6, <1>7, <1>8, <1>9, <1>10, <1>11, <1>12, <1>13, <1>14,
      <1>15, <1>16, <1>17, <1>18, <1>19, <1>20, <1>21, <1>22, <1>23, <1>24, <1>25, <1>26, <1>27,
      <1>28, <1>29, <1>30, <1>31, <1>32, <1>33, <1>34, <1>35, <1>36, <1>37, <1>38, <1>39, <1>40,
      <1>41, <1>42, <1>43, <1>44, <1>45, IrpChanges, GateChanges, IoChanges, WorkChanges


LEMMA ItemMoves ==
  ASSUME IInv
  PROVE  /\ UNCHANGED <<irp>> \/ SameStates => ItemIrps' = ItemIrps
         /\ UNCHANGED <<work>> => LateWork' = LateWork
         /\ \A i \in Irps, o \in Ops : AddIrp(i, o) => ItemIrps' = ItemIrps
         /\ \A i \in Irps : RejectIrp(i) \/ AcceptIrp(i) \/ EnqueueIrp(i) \/ Collect(i) =>
              ItemIrps' = ItemIrps
         /\ MainGetItem => ItemIrps' = ItemIrps \cup {main.irp} /\ main.irp \notin ItemIrps
         /\ MainComplete \/ IoComplete \/ CompletionComplete => LateWork' = LateWork
         /\ \A k \in WorkItems : WorkCompleteItem(k) \/ WorkDecrement(k) \/ WorkSignal(k) =>
              LateWork' = LateWork
         /\ \A k \in WorkItems : WorkCompleteIrp(k) =>
              /\ LateWork' = LateWork \cup {k} /\ k \notin LateWork
              /\ ItemIrps' = ItemIrps \ {work[k].irp} /\ work[k].irp \in ItemIrps
         /\ \A k \in WorkItems : WorkReturn(k) =>
              LateWork' = LateWork \ {k} /\ k \in LateWork
<1>1. UNCHANGED <<irp>> \/ SameStates => ItemIrps' = ItemIrps
  BY DEF SameStates, ItemIrps
<1>2. UNCHANGED <<work>> => LateWork' = LateWork
  BY DEF LateWork
<1>3. ASSUME NEW i \in Irps, NEW o \in Ops, AddIrp(i, o)
      PROVE  ItemIrps' = ItemIrps
  BY <1>3, StateMoves DEF Moves, ItemIrps
<1>4. ASSUME NEW i \in Irps, RejectIrp(i) \/ AcceptIrp(i) \/ EnqueueIrp(i) \/ Collect(i)
      PROVE  ItemIrps' = ItemIrps
  <2>1. \/ Moves(i, "counted", "completed") \/ Moves(i, "counted", "accepted")
        \/ Moves(i, "accepted", "queued") \/ Moves(i, "completed", "free")
    BY <1>4, StateMoves
  <2> QED BY <2>1 DEF Moves, ItemIrps
<1>5. ASSUME MainGetItem
      PROVE  ItemIrps' = ItemIrps \cup {main.irp} /\ main.irp \notin ItemIrps
  BY <1>5, StateMoves DEF Moves, ItemIrps
<1>6. ASSUME MainComplete \/ IoComplete \/ CompletionComplete
      PROVE  LateWork' = LateWork
  <2>1. PICK k \in WorkItems : Works(k, {"free"}, {"completeItem"})
    BY <1>6, WorkMoves
  <2> QED BY <2>1 DEF Works, LateWork
<1>7. ASSUME NEW k \in WorkItems, WorkCompleteItem(k) \/ WorkDecrement(k) \/ WorkSignal(k)
      PROVE  LateWork' = LateWork
  <2>1. \/ Works(k, {"completeItem"}, {"completeIrp"})
        \/ Works(k, {"decrement", "signal"}, {"signal", "return"})
    BY <1>7, WorkMoves DEF Works
  <2> QED BY <2>1 DEF Works, LateWork
<1>8. ASSUME NEW k \in WorkItems, WorkCompleteIrp(k)
      PROVE  /\ LateWork' = LateWork \cup {k} /\ k \notin LateWork
             /\ ItemIrps' = ItemIrps \ {work[k].irp} /\ work[k].irp \in ItemIrps
  <2>1. /\ Works(k, {"completeIrp"}, {"decrement"}) /\ Moves(work[k].irp, "item", "completed")
    BY <1>8, WorkMoves, StateMoves
  <2>2. LateWork' = LateWork \cup {k} /\ k \notin LateWork
    BY <2>1 DEF Works, LateWork
  <2> QED BY <2>1, <2>2 DEF Moves, ItemIrps
<1>9. ASSUME NEW k \in WorkItems, WorkReturn(k)
      PROVE  LateWork' = LateWork \ {k} /\ k \in LateWork
  <2>1. Works(k, {"return"}, {"free"})
    BY <1>9, WorkMoves
  <2> QED BY <2>1 DEF Works, LateWork
<1> QED BY <1>1, <1>2, <1>3, <1>4, <1>5, <1>6, <1>7, <1>8, <1>9

\* What a step moves between the pool, the IRPs and the work items.
MovedItems(p, n, l, r) ==
  /\ pool'.items = pool.items + p /\ active'.returning = active.returning + r
  /\ Cardinality(ItemIrps') = Cardinality(ItemIrps) + n
  /\ Cardinality(LateWork') = Cardinality(LateWork) + l

\* The number of queue items stays what it is.
LEMMA ItemsMoved ==
  ASSUME IInv, NEW p \in Int, NEW n \in Int, NEW l \in Int, NEW r \in Int,
         MovedItems(p, n, l, r), p + n + l + r = 0,
         pool.items + p >= 0, active.returning + r >= 0
  PROVE  ItemPoolInv'
<1> DEFINE p0 == pool.items
           n0 == Cardinality(ItemIrps)
           l0 == Cardinality(LateWork)
           r0 == active.returning
<1>1. p0 \in Int /\ n0 \in Int /\ l0 \in Int /\ r0 \in Int
  BY QueueLengths, FiniteParts DEF IInv
<1>2. ItemCount = p0 + n0 + l0 + r0
  BY DEF IInv, ItemPoolInv
<1>3. /\ pool'.items = p0 + p /\ active'.returning = r0 + r
      /\ Cardinality(ItemIrps') = n0 + n /\ Cardinality(LateWork') = l0 + l
      /\ p0 + p >= 0 /\ r0 + r >= 0
  BY DEF MovedItems
<1> HIDE DEF p0, n0, l0, r0
<1>4. ItemCount = (p0 + p) + (n0 + n) + (l0 + l) + (r0 + r)
  BY <1>1, <1>2
<1> QED BY <1>3, <1>4 DEF ItemPoolInv

LEMMA ItemsSteady ==
  ASSUME IInv, MovedItems(0, 0, 0, 0)
  PROVE  ItemPoolInv'
<1>1. pool.items + 0 >= 0 /\ active.returning + 0 >= 0
  BY QueueLengths DEF IInv, ItemPoolInv
<1> QED BY <1>1, ItemsMoved

LEMMA Unmoved ==
  ASSUME IInv, pool'.items = pool.items, active'.returning = active.returning,
         ItemIrps' = ItemIrps, LateWork' = LateWork
  PROVE  ItemPoolInv'
<1>1. MovedItems(0, 0, 0, 0)
  BY QueueLengths, FiniteParts DEF MovedItems, IInv
<1> QED BY <1>1, ItemsSteady

LEMMA ItemPoolInvStep ==
  ASSUME IInv, Types', [Next]_vars
  PROVE  ItemPoolInv'
<1>1. ASSUME NEW i \in Irps, NEW o \in Ops, AddIrp(i, o)
      PROVE  ItemPoolInv'
  BY <1>1, ItemMoves, StateMoves, Unmoved DEF AddIrp, IInv, Types, PoolType, ActiveType
<1>2. ASSUME NEW i \in Irps, RejectIrp(i)
      PROVE  ItemPoolInv'
  BY <1>2, ItemMoves, StateMoves, Unmoved DEF RejectIrp, IInv, Types, PoolType, ActiveType
<1>3. ASSUME NEW i \in Irps, AcceptIrp(i)
      PROVE  ItemPoolInv'
  BY <1>3, ItemMoves, StateMoves, Unmoved DEF AcceptIrp, IInv, Types, PoolType, ActiveType
<1>4. ASSUME NEW i \in Irps, EnqueueIrp(i)
      PROVE  ItemPoolInv'
  BY <1>4, ItemMoves, StateMoves, Unmoved DEF EnqueueIrp, IInv, Types, PoolType, ActiveType
<1>5. ASSUME NEW i \in Irps, Collect(i)
      PROVE  ItemPoolInv'
  BY <1>5, ItemMoves, StateMoves, Unmoved DEF Collect, IInv, Types, PoolType, ActiveType
<1>6. CASE MainPoolWait("itemWait", "item")
  BY <1>6, ItemMoves, StateMoves, Unmoved DEF MainPoolWait, IInv, Types, PoolType, ActiveType
<1>7. CASE MainGetItem
  <2>1. pool'.items = pool.items - 1 /\ pool.items > 0 /\ UNCHANGED <<work, active>>
    <3>1. PICK n \in Int : n = pool.items - 1
      BY QueueLengths DEF IInv
    <3>2. pool' = [pool EXCEPT !.items = n]
      BY <1>7, <3>1 DEF MainGetItem
    <3>3. pool'.items = n
      BY <3>2 DEF IInv, Types, PoolType
    <3> QED BY <1>7, <3>1, <3>3 DEF MainGetItem
  <2>2. Cardinality(ItemIrps') = Cardinality(ItemIrps) + 1 /\ LateWork' = LateWork
    BY <1>7, <2>1, ItemMoves, OneMore, FiniteParts
  <2>3. MovedItems(-1, 1, 0, 0)
    BY <2>1, <2>2, QueueLengths, FiniteParts DEF MovedItems, IInv
  <2>4. pool.items + (-1) >= 0 /\ active.returning + 0 >= 0
    BY <2>1, QueueLengths DEF IInv, ItemPoolInv
  <2> QED BY <2>3, <2>4, ItemsMoved
<1>8. CASE MainRefuse
  BY <1>8, ItemMoves, StateMoves, Unmoved DEF MainRefuse, IInv, Types, PoolType, ActiveType
<1>9. CASE MainReadMisaligned
  BY <1>9, ItemMoves, StateMoves, Unmoved DEF MainReadMisaligned, IInv, Types, PoolType,
      ActiveType
<1>10. CASE MainComplete
  BY <1>10, ItemMoves, StateMoves, Unmoved, WorkMoves DEF MainComplete
<1>11. CASE MainPoolWait("requestWait", "getRequest")
  BY <1>11, ItemMoves, StateMoves, Unmoved DEF MainPoolWait, IInv, Types, PoolType, ActiveType
<1>12. CASE MainGetRequest
  <2>1. pool'.items = pool.items
    BY <1>12 DEF MainGetRequest, IInv, Types, PoolType
  <2> QED BY <1>12, <2>1, ItemMoves, Unmoved DEF MainGetRequest
<1>13. CASE IoFlush
  BY <1>13, ItemMoves, StateMoves, Unmoved DEF IoFlush, IInv, Types, PoolType, ActiveType
<1>14. CASE IoFail
  BY <1>14, ItemMoves, StateMoves, Unmoved DEF IoFail, IInv, Types, PoolType, ActiveType
<1>15. CASE IoWrite
  BY <1>15, ItemMoves, StateMoves, Unmoved DEF IoWrite, IInv, Types, PoolType, ActiveType
<1>16. CASE IoRead
  BY <1>16, ItemMoves, StateMoves, Unmoved DEF IoRead, IInv, Types, PoolType, ActiveType
<1>17. CASE IoFinishRead
  BY <1>17, ItemMoves, StateMoves, Unmoved DEF IoFinishRead, IInv, Types, PoolType, ActiveType
<1>18. CASE IoComplete
  BY <1>18, ItemMoves, StateMoves, Unmoved, WorkMoves DEF IoComplete
<1>19. CASE IoRelease
  BY <1>19, ItemMoves, StateMoves, Unmoved, ReleaseEffect DEF IoRelease, IInv, Types, PoolType,
      ActiveType
<1>20. CASE CompletionDecrypt
  BY <1>20, ItemMoves, StateMoves, Unmoved DEF CompletionDecrypt, IInv, Types, PoolType, ActiveType
<1>21. CASE CompletionComplete
  BY <1>21, ItemMoves, StateMoves, Unmoved, WorkMoves DEF CompletionComplete
<1>22. CASE CompletionRelease
  BY <1>22, ItemMoves, StateMoves, Unmoved, ReleaseEffect DEF CompletionRelease, IInv, Types,
      PoolType, ActiveType
<1>23. ASSUME NEW k \in WorkItems, WorkCompleteItem(k)
      PROVE  ItemPoolInv'
  BY <1>23, ItemMoves, StateMoves, Unmoved DEF WorkCompleteItem, IInv, Types, PoolType, ActiveType
<1>24. ASSUME NEW k \in WorkItems, WorkCompleteIrp(k)
      PROVE  ItemPoolInv'
  <2>1. UNCHANGED <<pool, active>>
    BY <1>24 DEF WorkCompleteIrp
  <2>2. Cardinality(ItemIrps') = Cardinality(ItemIrps) - 1
    BY <1>24, ItemMoves, OneLess, FiniteParts
  <2>3. Cardinality(LateWork') = Cardinality(LateWork) + 1
    BY <1>24, ItemMoves, OneMore, FiniteParts
  <2>4. MovedItems(0, -1, 1, 0)
    BY <2>1, <2>2, <2>3, QueueLengths, FiniteParts DEF MovedItems, IInv
  <2>5. pool.items + 0 >= 0 /\ active.returning + 0 >= 0
    BY QueueLengths DEF IInv, ItemPoolInv
  <2> QED BY <2>4, <2>5, ItemsMoved
<1>25. ASSUME NEW k \in WorkItems, WorkDecrement(k)
      PROVE  ItemPoolInv'
  BY <1>25, ItemMoves, StateMoves, Unmoved, WorkMoves DEF WorkDecrement
<1>26. ASSUME NEW k \in WorkItems, WorkSignal(k)
      PROVE  ItemPoolInv'
  BY <1>26, ItemMoves, StateMoves, Unmoved, WorkMoves DEF WorkSignal
<1>27. ASSUME NEW k \in WorkItems, WorkReturn(k)
      PROVE  ItemPoolInv'
  <2>1. UNCHANGED <<pool, irp>> /\ active'.returning = active.returning + 1
    BY <1>27, WorkMoves DEF WorkReturn
  <2>2. Cardinality(LateWork') = Cardinality(LateWork) - 1
    BY <1>27, ItemMoves, OneLess, FiniteParts
  <2>3. ItemIrps' = ItemIrps
    BY <2>1, ItemMoves
  <2>4. MovedItems(0, 0, -1, 1)
    BY <2>1, <2>2, <2>3, QueueLengths, FiniteParts DEF MovedItems, IInv
  <2>5. pool.items + 0 >= 0 /\ active.returning + 1 >= 0
    BY QueueLengths DEF IInv, ItemPoolInv
  <2> QED BY <2>4, <2>5, ItemsMoved
<1>28. CASE WorkReleaseItem
  <2>1. /\ pool'.items = pool.items + 1 /\ active'.returning = active.returning - 1
        /\ active.returning > 0
    BY <1>28, ReleaseItemEffect DEF IInv
  <2>2. ItemIrps' = ItemIrps /\ LateWork' = LateWork
    BY <1>28, ItemMoves DEF WorkReleaseItem
  <2>3. MovedItems(1, 0, 0, -1)
    BY <2>1, <2>2, QueueLengths, FiniteParts DEF MovedItems, IInv
  <2>4. pool.items + 1 >= 0 /\ active.returning + (-1) >= 0
    BY <2>1, QueueLengths DEF IInv, ItemPoolInv
  <2> QED BY <2>3, <2>4, ItemsMoved
<1>29. CASE StopResetActive
  BY <1>29, ItemMoves, StateMoves, Unmoved DEF StopResetActive, IInv, Types, PoolType, ActiveType
<1>30. CASE UNCHANGED <<pool, irp, work, active>>
  BY <1>30, ItemMoves, Unmoved
<1> QED
  BY <1>1, <1>2, <1>3, <1>4, <1>5, <1>6, <1>7, <1>8, <1>9, <1>10, <1>11, <1>12, <1>13, <1>14,
      <1>15, <1>16, <1>17, <1>18, <1>19, <1>20, <1>21, <1>22, <1>23, <1>24, <1>25, <1>26, <1>27,
      <1>28, <1>29, <1>30, PoolChanges, IrpChanges, WorkChanges, ActiveChanges


-----------------------------------------------------------------------------
(* Stopping.                                                               *)

\* How an IRP comes to be counted, in the state it has after the step.
Arrives(i) ==
  \/ IsCounted(i) /\ irp'[i].state = irp[i].state
  \/ irp'[i].state = "counted"
  \/ IsCounted(i) /\ irp[i].state = "counted" /\ ~gate.stopPending
  \/ IsCounted(i) /\ irp[i].state \in {"accepted", "queued"}

LEMMA CountedStep ==
  ASSUME IInv, Types', [Next]_vars, NEW i \in Irps, IsCounted(i)'
  PROVE  Arrives(i)
<1>0. /\ i \in Counted' /\ \A j \in Irps : IsCounted(j) <=> j \in Counted
      /\ irp'[i].state \notin {"free", "completed"}
  BY DEF Counted, IsCounted
<1>1. ASSUME NEW j \in Irps, NEW o \in Ops, AddIrp(j, o)
      PROVE  Arrives(i)
  BY <1>1, <1>0, CountedMoves, StateMoves DEF Arrives, Counted, Moves
<1>2. ASSUME NEW j \in Irps, RejectIrp(j)
      PROVE  Arrives(i)
  BY <1>2, <1>0, CountedMoves, StateMoves DEF RejectIrp, Arrives, Counted, Moves
<1>3. ASSUME NEW j \in Irps, AcceptIrp(j)
      PROVE  Arrives(i)
  BY <1>3, <1>0, CountedMoves, StateMoves DEF AcceptIrp, Arrives, Counted, Moves
<1>4. ASSUME NEW j \in Irps, EnqueueIrp(j)
      PROVE  Arrives(i)
  BY <1>4, <1>0, CountedMoves, StateMoves DEF EnqueueIrp, Arrives, Counted, Moves
<1>5. ASSUME NEW j \in Irps, Collect(j)
      PROVE  Arrives(i)
  BY <1>5, <1>0, CountedMoves, StateMoves DEF Collect, Arrives, Counted, Moves
<1>6. CASE MainGetItem
  BY <1>6, <1>0, CountedMoves, StateMoves DEF MainGetItem, Arrives, Counted, Moves
<1>7. CASE MainRefuse
  BY <1>7, <1>0, CountedMoves, StateMoves DEF MainRefuse, Arrives, Counted, SameStates
<1>8. CASE MainReadMisaligned
  BY <1>8, <1>0, CountedMoves, StateMoves DEF MainReadMisaligned, Arrives, Counted, SameStates
<1>9. CASE MainComplete
  BY <1>9, <1>0, CountedMoves, StateMoves DEF MainComplete, Arrives, Counted, SameStates
<1>10. CASE IoFlush
  BY <1>10, <1>0, CountedMoves, StateMoves DEF IoFlush, Arrives, Counted, SameStates
<1>11. CASE IoFail
  BY <1>11, <1>0, CountedMoves, StateMoves DEF IoFail, Arrives, Counted, SameStates
<1>12. CASE IoWrite
  BY <1>12, <1>0, CountedMoves, StateMoves DEF IoWrite, Arrives, Counted, SameStates
<1>13. CASE IoRead
  BY <1>13, <1>0, CountedMoves, StateMoves DEF IoRead, Arrives, Counted, SameStates
<1>14. CASE IoFinishRead
  BY <1>14, <1>0, CountedMoves, StateMoves DEF IoFinishRead, Arrives, Counted, SameStates
<1>15. CASE IoComplete
  BY <1>15, <1>0, CountedMoves, StateMoves DEF IoComplete, Arrives, Counted, SameStates
<1>16. CASE CompletionDecrypt
  BY <1>16, <1>0, CountedMoves, StateMoves DEF CompletionDecrypt, Arrives, Counted, SameStates
<1>17. CASE CompletionComplete
  BY <1>17, <1>0, CountedMoves, StateMoves DEF CompletionComplete, Arrives, Counted, SameStates
<1>18. ASSUME NEW k \in WorkItems, WorkCompleteItem(k)
      PROVE  Arrives(i)
  BY <1>18, <1>0, CountedMoves DEF WorkCompleteItem, Arrives, Counted
<1>19. ASSUME NEW k \in WorkItems, WorkCompleteIrp(k)
      PROVE  Arrives(i)
  BY <1>19, <1>0, CountedMoves, StateMoves DEF WorkCompleteIrp, Arrives, Counted, Moves
<1>20. ASSUME NEW k \in WorkItems, WorkDecrement(k)
      PROVE  Arrives(i)
  BY <1>20, <1>0, CountedMoves, StateMoves DEF WorkDecrement, Arrives, Counted, SameStates
<1>21. ASSUME NEW k \in WorkItems, WorkSignal(k)
      PROVE  Arrives(i)
  BY <1>21, <1>0, CountedMoves, StateMoves DEF WorkSignal, Arrives, Counted, SameStates
<1>22. ASSUME NEW k \in WorkItems, WorkReturn(k)
      PROVE  Arrives(i)
  BY <1>22, <1>0, CountedMoves, StateMoves DEF WorkReturn, Arrives, Counted, SameStates
<1>23. CASE UNCHANGED <<irp, work>>
  BY <1>0, <1>23, CountedMoves DEF Arrives
<1> QED
  BY <1>1, <1>2, <1>3, <1>4, <1>5, <1>6, <1>7, <1>8, <1>9, <1>10, <1>11, <1>12, <1>13, <1>14,
      <1>15, <1>16, <1>17, <1>18, <1>19, <1>20, <1>21, <1>22, <1>23, IrpChanges, WorkChanges


\* A thread that hands an IRP to a work item still works for it.
LEMMA HandsCounted ==
  ASSUME IInv, MainComplete \/ IoComplete \/ CompletionComplete
  PROVE  \E i \in Irps : IsCounted(i) /\ irp[i].state = "item"
<1>1. \E i : InProgress(i)
  BY DEF IInv, MainInv, MainHasItem, ServedInv, IoBusy, CompletionBusy, IoRequest,
     CompletionRequest, MainComplete, IoComplete, CompletionComplete
<1> QED BY <1>1 DEF InProgress, IsCounted, Completing

\* Once all is freed no work item is active.
LEMMA FreedStep ==
  ASSUME IInv, Types', [Next]_vars
  PROVE  stop' = "freed" => active'.count = 0
<1>1. ASSUME stop = "freed", MainComplete \/ IoComplete \/ CompletionComplete
      PROVE  FALSE
  <2>1. PICK i \in Irps : IsCounted(i) /\ irp[i].state = "item"
    BY <1>1, HandsCounted
  <2> QED BY <1>1, <2>1 DEF IInv, StopInv, Counted, GateInv, Stopped
<1>2. ASSUME stop = "freed", NEW k \in WorkItems, WorkDecrement(k)
      PROVE  FALSE
  <2>1. k \in ActiveWork /\ active.count = 0
    BY <1>2 DEF WorkDecrement, MoveWork, ActiveWork, IsActive, IInv, StopInv
  <2> QED BY <2>1, FiniteParts, FS_EmptySet DEF IInv, ActiveInv
<1>3. stop = "freed" => active'.count = 0
  <2>1. stop = "freed" => active.count = 0 /\ ~StopResetActive
    BY DEF IInv, StopInv, StopResetActive, MoveStop
  <2>2. \A k \in WorkItems : WorkSignal(k) \/ WorkReturn(k) => active'.count = active.count
    BY WorkMoves
  <2>3. WorkReleaseItem => active'.count = active.count
    BY ReleaseItemEffect DEF IInv
  <2> QED BY <1>1, <1>2, <2>1, <2>2, <2>3, ActiveChanges
<1>4. StopTestActive => active' = active /\ (stop' = "freed" => active.count = 0)
  BY FiniteParts DEF StopTestActive, MoveStop, IInv, ActiveInv
<1>5. stop' = "freed" => stop = "freed" \/ StopTestActive
  BY StopChanges DEF StopBegin, StopDrain, StopWoken, StopThread, StopJoin, StopResetActive,
     StopWaitActive, MoveStop
<1> QED BY <1>3, <1>4, <1>5

LEMMA StopInvStep ==
  ASSUME IInv, Types', [Next]_vars
  PROVE  StopInv'
<1>1. ASSUME gate.threadExit, NEW i \in Counted'
      PROVE  irp'[i].state = "counted"
  <2>1. i \in Irps /\ IsCounted(i)'
    BY <1>1 DEF Counted
  <2>2. gate.stopPending
    BY <1>1 DEF IInv, GateInv, Stopped
  <2>3. IsCounted(i) => irp[i].state = "counted"
    BY <1>1, <2>1 DEF IInv, StopInv, Counted
  <2> QED BY <2>1, <2>2, <2>3, CountedStep DEF Arrives
<1>2. ASSUME gate'.threadExit, ~gate.threadExit
      PROVE  Counted' = {}
  <2>1. StopDrain /\ gate.outstanding = 0
    <3>1. gate'.threadExit => gate.threadExit \/ StopDrain
      <4>1. DecrementOutstandingIoCount => gate'.threadExit = gate.threadExit
        BY DecrementEffect DEF IInv, Types, SameFlags
      <4>2. IoFinishRead => gate'.threadExit = gate.threadExit
        BY IoFinishReadMoves DEF IInv, SameFlags
      <4> QED BY <4>1, <4>2, GateChanges
              DEF IInv, Types, GateType, AddIrp, RejectIrp, MainResumed, IoReadAheadDone,
              WorkCompleteItem, HoldBegin, HoldWoken, HoldFail, HoldSuspend, HoldUndo,
              HoldSucceed, ResumeFromHold, StopBegin, StopWoken
    <3>2. StopDrain => gate'.threadExit = (gate.outstanding = 0)
      BY DEF StopDrain, IInv, Types, GateType
    <3> QED BY <1>2, <3>1, <3>2
  <2>2. Counted = {} /\ Counted' = Counted
    BY <2>1, OutstandingNat, CountedMoves DEF StopDrain
  <2> QED BY <2>2
<1> QED BY <1>1, <1>2, FreedStep DEF StopInv


-----------------------------------------------------------------------------
(* A held queue is quiet.                                                  *)

Quiet ==
  /\ io.queue = <<>> /\ completion.queue = <<>>
  /\ main.pc \in {"wait", "next", "taken", "held"}
  /\ io.pc \in {"wait", "next", "release"}
  /\ completion.pc \in {"wait", "next", "release"}
  /\ ~cache.valid
  /\ \A b \in Buffers : fragment[b].free

\* While no IRP is counted nobody is at work.
LEMMA NobodyAtWork ==
  ASSUME IInv, Counted = {}
  PROVE  /\ io.queue = <<>> /\ completion.queue = <<>> /\ ~IoBusy /\ ~CompletionBusy
         /\ main.pc \in {"wait", "next", "exited"}
         /\ \A b \in Buffers : fragment[b].free
<1>1. \A i : ~InProgress(i)
  BY DEF InProgress, Counted, IsCounted, Completing
<1>2. \A i \in Irps : irp[i].state # "queued"
  BY DEF Counted, IsCounted
<1>3. io.queue \in Seq(Requests) /\ completion.queue \in Seq(Requests)
  BY QueueLengths DEF IInv
<1>4. io.queue = <<>>
  <2>1. io.queue # <<>> => 1 \in 1 .. Len(io.queue)
    BY <1>3, HeadTail
  <2> QED BY <1>1, <2>1 DEF IInv, ServedInv, IoRequest
<1>5. completion.queue = <<>>
  <2>1. completion.queue # <<>> => 1 \in 1 .. Len(completion.queue)
    BY <1>3, HeadTail
  <2> QED BY <1>1, <2>1 DEF IInv, ServedInv, CompletionRequest
<1>6. ~IoBusy /\ ~CompletionBusy
  BY <1>1 DEF IInv, ServedInv, IoRequest, CompletionRequest
<1>7. main.pc \in {"wait", "next", "exited"}
  BY <1>1, <1>2 DEF IInv, Types, MainType, MainPcs, MainInv, MainQueued, MainHasItem,
     MainRequesting
<1>8. \A b \in Buffers : fragment[b].free
  BY <1>4, <1>6 DEF IInv, BufferInv, IoHasBuffer, IoBusy
<1> QED BY <1>4, <1>5, <1>6, <1>7, <1>8

LEMMA HoldFinds ==
  ASSUME IInv, Types', HoldSucceed
  PROVE  Quiet'
<1>1. gate.outstanding = 0 /\ hold = "verify"
  BY DEF HoldSucceed, MoveHold
<1>2. Counted = {} /\ io.pc \notin {"readAhead", "readAheadDone"}
  BY <1>1, OutstandingNat
<1>3. ~gate.threadExit
  BY <1>1 DEF IInv, GateInv, Stopped
<1>4. /\ io.pc \in {"wait", "next", "release"} /\ completion.pc \in {"wait", "next", "release"}
      /\ main.pc \in {"wait", "next"} /\ io.queue = <<>> /\ completion.queue = <<>>
      /\ \A b \in Buffers : fragment[b].free
  BY <1>2, <1>3, NobodyAtWork DEF IInv, GateInv, Types, IoType, IoPcs, CompletionType,
     CompletionPcs, IoBusy, CompletionBusy
<1>5. UNCHANGED <<io, completion, main, fragment>> /\ ~cache'.valid
  BY DEF HoldSucceed, NoCache
<1> QED BY <1>4, <1>5 DEF Quiet

\* Nothing happens that disturbs a held queue.

LEMMA StaysQuiet ==
  ASSUME IInv, Types', [Next]_vars, IsHeld
  PROVE  Quiet'
<1>0. Quiet /\ gate.suspended /\ ~gate.queueResumed /\ ~gate.threadExit
  BY DEF IInv, HeldQueueIsQuiet, GateInv, Quiet, Stopped, IsHeld
<1>1. ASSUME NEW i \in Irps, EnqueueIrp(i)
      PROVE  Quiet'
  BY <1>1, <1>0, EnqueueIrpEffect DEF IInv, Types, IoType, CompletionType, MainType, CacheType,
      FragmentType, EnqueueIrp, Quiet
<1>2. CASE MainWait
  BY <1>2, <1>0 DEF IInv, Types, IoType, CompletionType, MainType, CacheType, FragmentType,
      MainWait, Quiet
<1>3. CASE MainNext
  BY <1>3, <1>0, MainNextEffect DEF IInv, Types, IoType, CompletionType, MainType, CacheType,
      FragmentType, MainNext, Quiet
<1>4. CASE MainTestSuspended
  BY <1>4, <1>0 DEF IInv, Types, IoType, CompletionType, MainType, CacheType, FragmentType,
      MainTestSuspended, Quiet
<1>5. CASE MainResumed
  BY <1>5, <1>0 DEF IInv, Types, IoType, CompletionType, MainType, CacheType, FragmentType,
      MainResumed, Quiet
<1>6. CASE MainPoolEmpty("item", pool.items, "itemWait")
  BY <1>6, <1>0 DEF IInv, Types, IoType, CompletionType, MainType, CacheType, FragmentType,
      MainPoolEmpty, Quiet
<1>7. CASE MainPoolWait("itemWait", "item")
  BY <1>7, <1>0 DEF IInv, Types, IoType, CompletionType, MainType, CacheType, FragmentType,
      MainPoolWait, Quiet
<1>8. CASE MainGetItem
  BY <1>8, <1>0 DEF IInv, Types, IoType, CompletionType, MainType, CacheType, FragmentType,
      MainGetItem, Quiet
<1>9. CASE MainRefuse
  BY <1>9, <1>0 DEF IInv, Types, IoType, CompletionType, MainType, CacheType, FragmentType,
      MainRefuse, Quiet
<1>10. CASE MainStart
  BY <1>10, <1>0 DEF IInv, Types, IoType, CompletionType, MainType, CacheType, FragmentType,
      MainStart, Quiet
<1>11. CASE MainReadMisaligned
  BY <1>11, <1>0 DEF IInv, Types, IoType, CompletionType, MainType, CacheType, FragmentType,
      MainReadMisaligned, Quiet
<1>12. CASE MainComplete
  BY <1>12, <1>0 DEF IInv, Types, IoType, CompletionType, MainType, CacheType, FragmentType,
      MainComplete, Quiet
<1>13. CASE MainCountRequest
  BY <1>13, <1>0 DEF IInv, Types, IoType, CompletionType, MainType, CacheType, FragmentType,
      MainCountRequest, Quiet
<1>14. CASE MainPoolEmpty("getRequest", pool.requests, "requestWait")
  BY <1>14, <1>0 DEF IInv, Types, IoType, CompletionType, MainType, CacheType, FragmentType,
      MainPoolEmpty, Quiet
<1>15. CASE MainPoolWait("requestWait", "getRequest")
  BY <1>15, <1>0 DEF IInv, Types, IoType, CompletionType, MainType, CacheType, FragmentType,
      MainPoolWait, Quiet
<1>16. CASE MainGetRequest
  BY <1>16, <1>0 DEF IInv, Types, IoType, CompletionType, MainType, CacheType, FragmentType,
      MainGetRequest, Quiet
<1>17. CASE MainQueueFlush
  BY <1>17, <1>0 DEF IInv, Types, IoType, CompletionType, MainType, CacheType, FragmentType,
      MainQueueFlush, Quiet
<1>18. CASE MainQueueFragment
  BY <1>18, <1>0 DEF IInv, Types, IoType, CompletionType, MainType, CacheType, FragmentType,
      MainQueueFragment, Quiet
<1>19. CASE IoWait
  BY <1>19, <1>0 DEF IInv, Types, IoType, CompletionType, MainType, CacheType, FragmentType,
      IoWait, Quiet
<1>20. CASE IoNext
  BY <1>20, <1>0, IoNextEffect DEF IInv, Types, IoType, CompletionType, MainType, CacheType,
      FragmentType, IoNext, Quiet
<1>21. CASE IoFlush
  BY <1>21, <1>0 DEF IInv, Types, IoType, CompletionType, MainType, CacheType, FragmentType,
      IoFlush, Quiet
<1>22. CASE IoSkip
  BY <1>22, <1>0 DEF IInv, Types, IoType, CompletionType, MainType, CacheType, FragmentType,
      IoSkip, Quiet
<1>23. CASE IoFail
  BY <1>23, <1>0 DEF IInv, Types, IoType, CompletionType, MainType, CacheType, FragmentType,
      IoFail, Quiet
<1>24. CASE IoWrite
  BY <1>24, <1>0 DEF IInv, Types, IoType, CompletionType, MainType, CacheType, FragmentType,
      IoWrite, Quiet
<1>25. CASE IoRead
  BY <1>25, <1>0 DEF IInv, Types, IoType, CompletionType, MainType, CacheType, FragmentType,
      IoRead, Quiet
<1>26. CASE IoFinishWrite
  BY <1>26, <1>0 DEF IInv, Types, IoType, CompletionType, MainType, CacheType, FragmentType,
      IoFinishWrite, Quiet
<1>27. CASE IoFinishRead
  BY <1>27, <1>0 DEF IInv, Types, IoType, CompletionType, MainType, CacheType, FragmentType,
      IoFinishRead, Quiet
<1>28. CASE IoReadAhead
  BY <1>28, <1>0 DEF IInv, Types, IoType, CompletionType, MainType, CacheType, FragmentType,
      IoReadAhead, Quiet
<1>29. CASE IoReadAheadDone
  BY <1>29, <1>0 DEF IInv, Types, IoType, CompletionType, MainType, CacheType, FragmentType,
      IoReadAheadDone, Quiet
<1>30. CASE IoComplete
  BY <1>30, <1>0 DEF IInv, Types, IoType, CompletionType, MainType, CacheType, FragmentType,
      IoComplete, Quiet
<1>31. CASE IoRelease
  BY <1>31, <1>0, IoIdleEffect DEF IInv, Types, IoType, CompletionType, MainType, CacheType,
      FragmentType, IoRelease, Quiet
<1>32. CASE CompletionWait
  BY <1>32, <1>0 DEF IInv, Types, IoType, CompletionType, MainType, CacheType, FragmentType,
      CompletionWait, Quiet
<1>33. CASE CompletionNext
  BY <1>33, <1>0, CompletionNextEffect DEF IInv, Types, IoType, CompletionType, MainType,
      CacheType, FragmentType, CompletionNext, Quiet
<1>34. CASE CompletionDecrypt
  BY <1>34, <1>0 DEF IInv, Types, IoType, CompletionType, MainType, CacheType, FragmentType,
      CompletionDecrypt, Quiet
<1>35. CASE CompletionComplete
  BY <1>35, <1>0 DEF IInv, Types, IoType, CompletionType, MainType, CacheType, FragmentType,
      CompletionComplete, Quiet
<1>36. CASE CompletionRelease
  BY <1>36, <1>0 DEF IInv, Types, IoType, CompletionType, MainType, CacheType, FragmentType,
      CompletionRelease, Quiet
<1>37. CASE HoldSucceed
  BY <1>37, HoldFinds
<1>38. CASE StopThread
  BY <1>38, <1>0 DEF IInv, Types, IoType, CompletionType, MainType, CacheType, FragmentType,
      StopThread, Quiet
<1>39. CASE UNCHANGED <<io, completion, main, cache, fragment>>
  BY <1>0, <1>39 DEF Quiet
<1> QED
  BY <1>1, <1>2, <1>3, <1>4, <1>5, <1>6, <1>7, <1>8, <1>9, <1>10, <1>11, <1>12, <1>13, <1>14,
      <1>15, <1>16, <1>17, <1>18, <1>19, <1>20, <1>21, <1>22, <1>23, <1>24, <1>25, <1>26, <1>27,
      <1>28, <1>29, <1>30, <1>31, <1>32, <1>33, <1>34, <1>35, <1>36, <1>37, <1>38, <1>39,
      IoChanges, CompletionChanges, MainChanges, CacheChanges, FragmentChanges

LEMMA HeldQueueIsQuietStep ==
  ASSUME IInv, Types', [Next]_vars
  PROVE  HeldQueueIsQuiet'
<1>1. IsHeld' => IsHeld \/ HoldSucceed
  BY HoldChanges DEF IsHeld, HoldBegin, HoldCheck, HoldWoken, HoldFail, HoldRecheck, HoldSuspend,
     HoldUndo, HolderConvert, HolderMoveEnd, ResumeFromHold, MoveHold
<1>2. IsHeld' => Quiet'
  BY <1>1, StaysQuiet, HoldFinds
<1> QED BY <1>2 DEF HeldQueueIsQuiet, Quiet


-----------------------------------------------------------------------------
(* The device matches the encrypted area.                                  *)

\* The layers that a sector should have at each moment of a conversion.
ExpectedLayer(s) ==
  IF hold = "encrypted" /\ s = encryptedEnd + 1 THEN 1
  ELSE IF hold = "decrypted" /\ s = encryptedEnd THEN 0
  ELSE IF InEncryptedArea(s) THEN 1 ELSE 0

\* While an I/O request is served nothing is being converted.
LEMMA NotConverting ==
  ASSUME IInv, \/ io.pc = "perform" \/ io.pc = "finish" \/ main.pc = "start"
               \/ io.pc = "readAhead" \/ MainRequesting
  PROVE  /\ ~IsHeld /\ \A s \in Sectors : device[s].layer = Layer(s)
  BY DEF IInv, HeldQueueIsQuiet, IsHeld, DiskMatchesArea, Layer, MainRequesting

LEMMA LayerAdded ==
  ASSUME NEW c \in Sector
  PROVE  /\ Encrypt(c).layer = c.layer + 1 /\ Encrypt(c).value = c.value
         /\ Decrypt(c).layer = c.layer - 1 /\ Decrypt(c).value = c.value
<1>1. PICK n \in Int, m \in Int : n = c.layer + 1 /\ m = c.layer - 1
  BY Layers
<1>2. /\ Encrypt(c) = [value |-> c.value, layer |-> n]
      /\ Decrypt(c) = [value |-> c.value, layer |-> m]
  BY <1>1, Layers
<1> QED BY <1>1, <1>2

LEMMA DiskMatchesAreaStep ==
  ASSUME IInv, Types', [Next]_vars
  PROVE  DiskMatchesArea'
<1>1. \A s \in Sectors : device[s].layer = ExpectedLayer(s)
  BY DEF IInv, DiskMatchesArea, ExpectedLayer
<1>2. encryptedEnd \in Int /\ encryptedEnd >= -1 /\ \A s \in Sectors : s \in Int /\ s >= 0
  BY SectorsAreIntegers DEF IInv, Types, EndType
<1>3. CASE IoWrite
  <2> DEFINE t == io.request.sector
             c == fragment[io.request.buffer].content
  <2>1. /\ io.pc = "perform" /\ Kind(io.request.irp) = "write" /\ t \in Sectors
        /\ device' = [device EXCEPT ![t] = c] /\ UNCHANGED <<hold, encryptedEnd>>
    BY <1>3, IoSector DEF IInv, IoWrite, IoKind, Kind
  <2>2. c.layer = Layer(t)
    BY <2>1 DEF IInv, WriteInv
  <2>3. \A s \in Sectors : device'[s] = IF s = t THEN c ELSE device[s]
    BY <2>1 DEF IInv, Types, DeviceType
  <2>4. hold \notin {"encrypted", "decrypted"}
    BY <2>1, NotConverting DEF IsHeld
  <2>5. ExpectedLayer(t) = Layer(t)
    BY <2>4 DEF ExpectedLayer, Layer
  <2> HIDE DEF t, c
  <2>6. \A s \in Sectors : device'[s].layer = ExpectedLayer(s)
    BY <1>1, <2>2, <2>3, <2>5
  <2> QED BY <2>1, <2>6 DEF DiskMatchesArea, ExpectedLayer, InEncryptedArea
<1>4. CASE HolderConvert
  <2>1. hold = "held" /\ encryptedEnd' = encryptedEnd
    BY <1>4 DEF HolderConvert, MoveHold
  <2>2. CASE /\ hold' = "encrypted" /\ encryptedEnd + 1 \in Sectors
             /\ device' = [device EXCEPT ![encryptedEnd + 1] = Encrypt(@)]
    <3>1. PICK t \in Sectors : t = encryptedEnd + 1
      BY <2>2
    <3>2. device[t].layer = 0 /\ device[t] \in Sector
      BY <1>1, <1>2, <2>1, <3>1 DEF ExpectedLayer, InEncryptedArea, IInv, Types, DeviceType
    <3>6. ASSUME NEW d \in Sector, d.layer = 0
          PROVE  Encrypt(d) \in Sector /\ Encrypt(d).layer = 1
      <4>1. Encrypt(d).layer = 1
        BY <3>6, LayerAdded
      <4> QED BY <4>1, Layers
    <3>3. PICK c \in Sector : c = Encrypt(device[t]) /\ c.layer = 1
      BY <3>2, <3>6
    <3>4. \A s \in Sectors : device'[s] = IF s = t THEN c ELSE device[s]
      BY <2>2, <3>1, <3>3 DEF IInv, Types, DeviceType
    <3> QED BY <1>1, <2>1, <2>2, <3>1, <3>3, <3>4
            DEF DiskMatchesArea, ExpectedLayer, InEncryptedArea
  <2>3. CASE /\ hold' = "decrypted" /\ encryptedEnd # -1
             /\ device' = [device EXCEPT ![encryptedEnd] = Decrypt(@)]
    <3>1. PICK t \in Sectors : t = encryptedEnd
      BY <2>3 DEF IInv, Types, EndType
    <3>2. device[t].layer = 1 /\ device[t] \in Sector
      BY <1>1, <1>2, <2>1, <2>3, <3>1
         DEF ExpectedLayer, InEncryptedArea, IInv, Types, DeviceType
    <3>6. ASSUME NEW d \in Sector, d.layer = 1
          PROVE  Decrypt(d) \in Sector /\ Decrypt(d).layer = 0
      <4>1. Decrypt(d).layer = 0
        BY <3>6, LayerAdded
      <4> QED BY <4>1, Layers
    <3>3. PICK c \in Sector : c = Decrypt(device[t]) /\ c.layer = 0
      BY <3>2, <3>6
    <3>4. \A s \in Sectors : device'[s] = IF s = t THEN c ELSE device[s]
      BY <2>3, <3>1, <3>3 DEF IInv, Types, DeviceType
    <3> QED BY <1>1, <2>1, <2>3, <3>1, <3>3, <3>4
            DEF DiskMatchesArea, ExpectedLayer, InEncryptedArea
  <2> QED BY <1>4, <2>2, <2>3 DEF HolderConvert, MoveHold
<1>5. CASE HolderMoveEnd
  <2>1. device' = device /\ hold' = "done"
    BY <1>5 DEF HolderMoveEnd
  <2>2. CASE hold = "encrypted"
    <3>1. encryptedEnd' = encryptedEnd + 1
      BY <1>5, <2>2 DEF HolderMoveEnd
    <3>2. ASSUME NEW s \in Sectors
          PROVE  ExpectedLayer(s) = IF s <= encryptedEnd + 1 THEN 1 ELSE 0
      BY <1>2, <2>2 DEF ExpectedLayer, InEncryptedArea
    <3>3. encryptedEnd' # -1
      BY <1>2, <3>1
    <3> QED BY <1>1, <2>1, <3>1, <3>2, <3>3 DEF DiskMatchesArea, InEncryptedArea
  <2>3. CASE hold = "decrypted"
    <3>1. encryptedEnd' = encryptedEnd - 1 /\ encryptedEnd # -1
      BY <1>5, <2>3 DEF HolderMoveEnd, IInv, EndInv
    <3>2. ASSUME NEW s \in Sectors
          PROVE  ExpectedLayer(s) =
                   IF encryptedEnd - 1 # -1 /\ s <= encryptedEnd - 1 THEN 1 ELSE 0
      BY <1>2, <2>3, <3>1 DEF ExpectedLayer, InEncryptedArea
    <3> QED BY <1>1, <2>1, <3>1, <3>2 DEF DiskMatchesArea, InEncryptedArea
  <2> QED BY <1>5, <2>2, <2>3 DEF HolderMoveEnd
<1>6. CASE UNCHANGED <<device, encryptedEnd>> /\ ~HolderMoveEnd
  <2>1. \/ hold' = hold
        \/ hold \notin {"encrypted", "decrypted"} /\ hold' \notin {"encrypted", "decrypted"}
        \/ HolderConvert
    BY <1>6, HoldChanges DEF HoldBegin, HoldCheck, HoldWoken, HoldFail, HoldRecheck,
       HoldSuspend, HoldUndo, HoldSucceed, ResumeFromHold, MoveHold
  <2>2. CASE hold' = hold
    BY <1>1, <1>6, <2>2 DEF DiskMatchesArea, ExpectedLayer, InEncryptedArea
  <2>3. CASE hold \notin {"encrypted", "decrypted"} /\ hold' \notin {"encrypted", "decrypted"}
    BY <1>1, <1>6, <2>3 DEF DiskMatchesArea, ExpectedLayer, InEncryptedArea
  <2> QED BY <2>1, <2>2, <2>3, <1>4
<1> QED BY <1>3, <1>4, <1>5, <1>6, DeviceChanges, EndChanges

-----------------------------------------------------------------------------
(* How requests move through the I/O thread and the completion thread.     *)

GrowsIoQueue == MainQueueFlush \/ MainQueueFragment

IoMoves ==
  \/ io'.queue = io.queue /\ io'.request = io.request /\ io'.pc = io.pc
  \/ /\ GrowsIoQueue /\ io'.queue = Append(io.queue, main.request)
     /\ io'.request = io.request /\ io'.pc = io.pc
  \/ /\ io.pc = "next" /\ io'.pc = "perform" /\ io.queue # <<>>
     /\ io'.queue = Tail(io.queue) /\ io'.request = Head(io.queue)
  \/ /\ io.pc = "perform" /\ io'.queue = io.queue /\ io'.request = io.request
     /\ \/ io'.pc = "finish" /\ (IoSkip \/ IoFail \/ IoWrite \/ IoRead)
        \/ io'.pc = "complete" /\ IoFlush
  \/ /\ io.pc = "finish" /\ io'.queue = io.queue /\ io'.pc \notin {"perform", "finish"}
     /\ IoFinishWrite \/ IoFinishRead
  \/ /\ io.pc \notin {"perform", "finish"} /\ io'.pc \notin {"perform", "finish"}
     /\ io'.queue = io.queue

LEMMA IoMove ==
  ASSUME IInv, [Next]_vars
  PROVE  IoMoves
<1>1. CASE MainCountRequest
  BY <1>1, CountRequestEffect DEF IInv, MainCountRequest, IoMoves, GrowsIoQueue
<1>2. CASE MainQueueFlush
  BY <1>2, EnqueueRequestEffect DEF IInv, MainQueueFlush, IoMoves, GrowsIoQueue
<1>3. CASE MainQueueFragment
  BY <1>3, EnqueueRequestEffect DEF IInv, MainQueueFragment, IoMoves, GrowsIoQueue
<1>4. CASE IoWait
  BY <1>4 DEF IInv, Types, IoType, IoWait, IoMoves
<1>5. CASE IoNext
  BY <1>5, IoNextEffect DEF IInv, IoNext, IoMoves, GrowsIoQueue
<1>6. CASE IoFlush
  BY <1>6 DEF IInv, Types, IoType, IoFlush, IoMoves
<1>7. CASE IoSkip
  BY <1>7 DEF IInv, Types, IoType, IoSkip, IoMoves
<1>8. CASE IoFail
  BY <1>8 DEF IInv, Types, IoType, IoFail, IoMoves
<1>9. CASE IoWrite
  BY <1>9 DEF IInv, Types, IoType, IoWrite, IoMoves
<1>10. CASE IoRead
  BY <1>10 DEF IInv, Types, IoType, IoRead, IoMoves
<1>11. CASE IoFinishWrite
  BY <1>11 DEF IInv, Types, IoType, IoFinishWrite, IoMoves
<1>12. CASE IoFinishRead
  BY <1>12, IoFinishReadMoves DEF IInv, IoFinishRead, IoMoves, GrowsIoQueue
<1>13. CASE IoReadAhead
  BY <1>13 DEF IInv, Types, IoType, IoReadAhead, IoMoves
<1>14. CASE IoReadAheadDone
  BY <1>14, IoIdleEffect DEF IInv, IoReadAheadDone, Types, IoMoves, GrowsIoQueue
<1>15. CASE IoComplete
  BY <1>15 DEF IInv, Types, IoType, IoComplete, IoMoves
<1>16. CASE IoRelease
  BY <1>16, IoIdleEffect DEF IInv, IoRelease, Types, IoMoves, GrowsIoQueue
<1>17. CASE StopThread
  BY <1>17 DEF IInv, Types, IoType, StopThread, IoMoves
<1>18. CASE UNCHANGED <<io>>
  BY <1>18 DEF IInv, IoMoves
<1> QED
  BY <1>1, <1>2, <1>3, <1>4, <1>5, <1>6, <1>7, <1>8, <1>9, <1>10, <1>11, <1>12, <1>13, <1>14,
      <1>15, <1>16, <1>17, <1>18, IoChanges


CompletionMoves ==
  \/ /\ completion'.queue = completion.queue /\ completion'.request = completion.request
     /\ completion'.pc = completion.pc
  \/ /\ IoFinishRead /\ completion'.queue = Append(completion.queue, io.request)
     /\ completion'.request = completion.request /\ completion'.pc = completion.pc
  \/ /\ completion.pc = "next" /\ completion'.pc = "decrypt" /\ completion.queue # <<>>
     /\ completion'.queue = Tail(completion.queue)
     /\ completion'.request = Head(completion.queue)
  \/ /\ CompletionDecrypt /\ completion.pc = "decrypt" /\ completion'.pc # "decrypt"
     /\ completion'.queue = completion.queue
  \/ /\ completion.pc # "decrypt" /\ completion'.pc # "decrypt"
     /\ completion'.queue = completion.queue

LEMMA CompletionMove ==
  ASSUME IInv, [Next]_vars
  PROVE  CompletionMoves
<1>1. CASE IoFinishRead
  BY <1>1, IoFinishReadMoves DEF IInv, IoFinishRead, CompletionMoves
<1>2. CASE CompletionWait
  BY <1>2 DEF IInv, Types, CompletionType, CompletionWait, CompletionMoves
<1>3. CASE CompletionNext
  BY <1>3, CompletionNextEffect DEF IInv, CompletionNext, CompletionMoves
<1>4. CASE CompletionDecrypt
  BY <1>4 DEF IInv, Types, CompletionType, CompletionDecrypt, CompletionMoves
<1>5. CASE CompletionComplete
  BY <1>5 DEF IInv, Types, CompletionType, CompletionComplete, CompletionMoves
<1>6. CASE CompletionRelease
  BY <1>6 DEF IInv, Types, CompletionType, CompletionRelease, CompletionMoves
<1>7. CASE StopThread
  BY <1>7 DEF IInv, Types, CompletionType, StopThread, CompletionMoves
<1>8. CASE UNCHANGED <<completion>>
  BY <1>8 DEF IInv, CompletionMoves
<1> QED
  BY <1>1, <1>2, <1>3, <1>4, <1>5, <1>6, <1>7, <1>8, CompletionChanges


\* Where the requests of the queues after a step come from, and where those before it
\* went.
LEMMA IoQueueSteps ==
  ASSUME IInv, [Next]_vars
  PROVE  /\ \A n \in 1 .. Len(io'.queue) :
              \/ \E m \in 1 .. Len(io.queue) : io'.queue[n] = io.queue[m]
              \/ GrowsIoQueue /\ io'.queue[n] = main.request
         /\ \A m \in 1 .. Len(io.queue) :
              \/ \E n \in 1 .. Len(io'.queue) : io'.queue[n] = io.queue[m]
              \/ io'.pc = "perform" /\ io'.request = io.queue[m]
         /\ io'.pc = "perform" =>
              \/ io.pc = "perform" /\ io'.request = io.request
              \/ \E m \in 1 .. Len(io.queue) : io'.request = io.queue[m]
         /\ GrowsIoQueue => \E n \in 1 .. Len(io'.queue) : io'.queue[n] = main.request
<1>1. io.queue \in Seq(Requests) /\ Len(io.queue) \in Nat /\ main.request \in Requests
  BY QueueLengths DEF IInv
<1>2. GrowsIoQueue => io'.queue = Append(io.queue, main.request)
  BY EnqueueRequestEffect DEF GrowsIoQueue, MainQueueFlush, MainQueueFragment, IInv
<1>3. CASE /\ GrowsIoQueue /\ io'.queue = Append(io.queue, main.request)
           /\ io'.request = io.request /\ io'.pc = io.pc
  <2>1. /\ Len(io'.queue) = Len(io.queue) + 1 /\ io'.queue[Len(io.queue) + 1] = main.request
        /\ \A n \in 1 .. Len(io.queue) : io'.queue[n] = io.queue[n]
    BY <1>1, <1>3, AppendLast
  <2>2. /\ Len(io.queue) + 1 \in 1 .. Len(io'.queue)
        /\ \A n \in 1 .. Len(io.queue) : n \in 1 .. Len(io'.queue)
        /\ \A n \in 1 .. Len(io'.queue) : n \in 1 .. Len(io.queue) \/ n = Len(io.queue) + 1
    BY <1>1, <2>1
  <2> QED BY <1>3, <2>1, <2>2
<1>4. CASE /\ io.pc = "next" /\ io'.pc = "perform" /\ io.queue # <<>>
           /\ io'.queue = Tail(io.queue) /\ io'.request = Head(io.queue)
  <2>1. /\ io'.request = io.queue[1] /\ 1 \in 1 .. Len(io.queue)
        /\ Len(io'.queue) = Len(io.queue) - 1
        /\ \A n \in 1 .. Len(io'.queue) :
             n + 1 \in 1 .. Len(io.queue) /\ io'.queue[n] = io.queue[n + 1]
    BY <1>1, <1>4, HeadTail
  <2>2. ASSUME NEW m \in 1 .. Len(io.queue), m # 1
        PROVE  m - 1 \in 1 .. Len(io'.queue) /\ io'.queue[m - 1] = io.queue[m]
    <3>1. m - 1 \in 1 .. Len(io'.queue) /\ (m - 1) + 1 = m
      BY <1>1, <2>1, <2>2
    <3> QED BY <2>1, <3>1
  <2>3. ~GrowsIoQueue
    <3>1. GrowsIoQueue => io'.pc = io.pc
      BY EnqueueRequestEffect DEF GrowsIoQueue, MainQueueFlush, MainQueueFragment, IInv
    <3> QED BY <1>4, <3>1
  <2> QED BY <1>4, <2>1, <2>2, <2>3
<1>5. CASE io'.queue = io.queue /\ (io'.pc = "perform" => io.pc = "perform" /\ io'.request = io.request)
  <2>1. ~GrowsIoQueue
    <3>1. Len(Append(io.queue, main.request)) # Len(io.queue)
      BY <1>1, AppendLast
    <3> QED BY <1>2, <1>5, <3>1
  <2> QED BY <1>5, <2>1
<1> QED BY <1>3, <1>4, <1>5, IoMove DEF IoMoves

LEMMA CompletionQueueSteps ==
  ASSUME IInv, [Next]_vars
  PROVE  /\ \A n \in 1 .. Len(completion'.queue) :
              \/ \E m \in 1 .. Len(completion.queue) :
                   completion'.queue[n] = completion.queue[m]
              \/ IoFinishRead /\ completion'.queue[n] = io.request
         /\ \A m \in 1 .. Len(completion.queue) :
              \/ \E n \in 1 .. Len(completion'.queue) :
                   completion'.queue[n] = completion.queue[m]
              \/ completion'.pc = "decrypt" /\ completion'.request = completion.queue[m]
         /\ completion'.pc = "decrypt" =>
              \/ completion.pc = "decrypt" /\ completion'.request = completion.request
              \/ \E m \in 1 .. Len(completion.queue) :
                   completion'.request = completion.queue[m]
         /\ IoFinishRead =>
              \E n \in 1 .. Len(completion'.queue) : completion'.queue[n] = io.request
<1>1. /\ completion.queue \in Seq(Requests) /\ Len(completion.queue) \in Nat
      /\ io.request \in Requests
  BY QueueLengths DEF IInv
<1>2. IoFinishRead => /\ completion'.queue = Append(completion.queue, io.request)
                      /\ completion'.pc = completion.pc
  BY IoFinishReadMoves DEF IInv
<1>3. CASE /\ IoFinishRead /\ completion'.queue = Append(completion.queue, io.request)
           /\ completion'.request = completion.request /\ completion'.pc = completion.pc
  <2>1. /\ Len(completion'.queue) = Len(completion.queue) + 1
        /\ completion'.queue[Len(completion.queue) + 1] = io.request
        /\ \A n \in 1 .. Len(completion.queue) : completion'.queue[n] = completion.queue[n]
    BY <1>1, <1>3, AppendLast
  <2>2. /\ Len(completion.queue) + 1 \in 1 .. Len(completion'.queue)
        /\ \A n \in 1 .. Len(completion.queue) : n \in 1 .. Len(completion'.queue)
        /\ \A n \in 1 .. Len(completion'.queue) :
             n \in 1 .. Len(completion.queue) \/ n = Len(completion.queue) + 1
    BY <1>1, <2>1
  <2> QED BY <1>3, <2>1, <2>2
<1>4. CASE /\ completion.pc = "next" /\ completion'.pc = "decrypt" /\ completion.queue # <<>>
           /\ completion'.queue = Tail(completion.queue)
           /\ completion'.request = Head(completion.queue)
  <2>1. /\ completion'.request = completion.queue[1] /\ 1 \in 1 .. Len(completion.queue)
        /\ Len(completion'.queue) = Len(completion.queue) - 1
        /\ \A n \in 1 .. Len(completion'.queue) :
             /\ n + 1 \in 1 .. Len(completion.queue)
             /\ completion'.queue[n] = completion.queue[n + 1]
    BY <1>1, <1>4, HeadTail
  <2>2. ASSUME NEW m \in 1 .. Len(completion.queue), m # 1
        PROVE  /\ m - 1 \in 1 .. Len(completion'.queue)
               /\ completion'.queue[m - 1] = completion.queue[m]
    <3>1. m - 1 \in 1 .. Len(completion'.queue) /\ (m - 1) + 1 = m
      BY <1>1, <2>1, <2>2
    <3> QED BY <2>1, <3>1
  <2> QED BY <1>2, <1>4, <2>1, <2>2
<1>5. CASE /\ completion'.queue = completion.queue
           /\ completion'.pc = "decrypt" =>
                completion.pc = "decrypt" /\ completion'.request = completion.request
  <2>1. ~IoFinishRead
    <3>1. Len(Append(completion.queue, io.request)) # Len(completion.queue)
      BY <1>1, AppendLast
    <3> QED BY <1>2, <1>5, <3>1
  <2> QED BY <1>5, <2>1
<1> QED BY <1>3, <1>4, <1>5, CompletionMove DEF CompletionMoves


-----------------------------------------------------------------------------
(* What a step does to the data of an IRP and to a sector of it.           *)

\* An IRP that its sender has back, or sends again.
Renewed(i) ==
  /\ irp[i].state \in {"free", "completed"} /\ irp'[i].state \in {"free", "counted"}
  /\ irp'[i].status = "ok"
  /\ \A s \in Sectors : irp'[i].seen[s] = NoValue /\ irp'[i].data[s] = NoContent

SectorStep(i, s) ==
  \/ irp'[i].seen[s] = irp[i].seen[s] /\ irp'[i].data[s] = irp[i].data[s]
  \/ /\ IoWrite /\ io.request.irp = i /\ io.request.sector = s
     /\ irp'[i].seen[s] = irp[i].op.value /\ irp'[i].data[s] = irp[i].data[s]
  \/ /\ IoRead /\ io.request.irp = i /\ io.request.sector = s
     /\ irp'[i].seen[s] = device[s].value /\ irp'[i].data[s] = irp[i].data[s]
  \/ /\ IoFinishRead /\ io.request.irp = i /\ io.request.sector = s
     /\ irp[i].status = "ok"
     /\ irp'[i].seen[s] = irp[i].seen[s]
     /\ irp'[i].data[s] = fragment[io.request.buffer].content
  \/ /\ CompletionDecrypt /\ completion.request.irp = i /\ completion.request.sector = s
     /\ completion.request.encrypted /\ irp[i].status = "ok"
     /\ irp'[i].seen[s] = irp[i].seen[s]
     /\ irp'[i].data[s] = Decrypt(irp[i].data[s])
  \/ /\ MainReadMisaligned /\ main.irp = i
     /\ irp'[i].seen[s] = MisalignedSeen(i)[s] /\ irp'[i].data[s] = MisalignedData(i)[s]

DataStep(i) ==
  \/ Renewed(i)
  \/ /\ irp'[i].op = irp[i].op
     /\ irp'[i].status = "ok" /\ Kind(i) # "flush" => irp[i].status = "ok"
     /\ \A s \in Sectors : SectorStep(i, s)

LEMMA DataSteps ==
  ASSUME IInv, [Next]_vars, NEW j \in Irps
  PROVE  DataStep(j)
<1>1. ASSUME NEW i \in Irps, NEW o \in Ops, AddIrp(i, o)
      PROVE  DataStep(j)
  BY <1>1, AddIrpEffect DEF IInv, DataStep, SectorStep, Renewed
<1>2. ASSUME NEW i \in Irps, RejectIrp(i)
      PROVE  DataStep(j)
  <2>1. /\ irp'[i].status = "error" /\ irp'[i].op = irp[i].op
        /\ irp'[i].data = irp[i].data /\ irp'[i].seen = irp[i].seen
        /\ \A m \in Irps : m # i => irp'[m] = irp[m]
    BY <1>2, StateUpdate DEF IInv, Types, RejectIrp, IrpStates
  <2> QED BY <1>2, <2>1 DEF DataStep, SectorStep
<1>3. ASSUME NEW i \in Irps, AcceptIrp(i)
      PROVE  DataStep(j)
  BY <1>3, OnlyState DEF IInv, Types, AcceptIrp, IrpStates, DataStep, SectorStep
<1>4. ASSUME NEW i \in Irps, EnqueueIrp(i)
      PROVE  DataStep(j)
  BY <1>4, OnlyState DEF IInv, Types, EnqueueIrp, IrpStates, DataStep, SectorStep
<1>5. ASSUME NEW i \in Irps, Collect(i)
      PROVE  DataStep(j)
  BY <1>5, IrpUpdate, FreeIrpFields
     DEF IInv, Types, Collect, DataStep, SectorStep, Renewed
<1>6. CASE MainGetItem
  <2>1. main.irp \in Irps /\ irp[main.irp].state = "queued"
    BY <1>6 DEF IInv, MainInv, MainGetItem, MainQueued
  <2> QED BY <1>6, <2>1, OnlyState, ZenonT(60) DEF IInv, Types, MainGetItem, IrpStates, DataStep, SectorStep
<1>7. CASE MainRefuse
  BY <1>7, MainIrp, OnlyStatus
     DEF IInv, Types, MainRefuse, MainHasItem, DataStep, SectorStep
<1>8. CASE MainReadMisaligned
  BY <1>8, MainReadMisalignedEffect DEF IInv, DataStep, SectorStep
<1>9. CASE IoFlush
  <2>1. io.request.irp \in Irps
    BY <1>9, BusyIrps DEF IInv, IoFlush, IoBusy
  <2>2. PICK st \in {"ok", "error"} : SetStatus(io.request.irp, st)
    BY <1>9 DEF IoFlush, Outcomes
  <2>3. Kind(io.request.irp) = "flush"
    BY <1>9 DEF IoFlush, IoKind, Kind
  <2> QED BY <1>9, <2>1, <2>2, <2>3, OnlyStatus DEF IInv, Types, DataStep, SectorStep
<1>10. CASE IoFail
  BY <1>10, BusyIrps, OnlyStatus
     DEF IInv, Types, IoFail, IoBusy, DataStep, SectorStep
<1>11. CASE IoWrite
  <2> DEFINE i == io.request.irp
           v == irp[i].op.value
  <2>1. /\ i \in Irps /\ \A n \in Irps : n # i => irp'[n] = irp[n]
        /\ irp'[i].status = irp[i].status /\ irp'[i].op = irp[i].op
        /\ irp'[i].data = irp[i].data
        /\ irp'[i].seen = [irp[i].seen EXCEPT ![io.request.sector] = v]
    BY <1>11, IoWriteEffect DEF IInv
  <2>2. irp[i].seen \in [Sectors -> Values \cup {NoValue}]
    BY <2>1, IrpFields DEF IInv, Types
  <2> HIDE DEF v
  <2>3. \A s \in Sectors :
          irp'[i].seen[s] = IF s = io.request.sector THEN v ELSE irp[i].seen[s]
    BY <2>1, <2>2
  <2> QED BY <1>11, <2>1, <2>3 DEF DataStep, SectorStep, v
<1>12. CASE IoRead
  <2> DEFINE i == io.request.irp
           v == device[io.request.sector].value
  <2>1. /\ i \in Irps /\ \A n \in Irps : n # i => irp'[n] = irp[n]
        /\ irp'[i].status = irp[i].status /\ irp'[i].op = irp[i].op
        /\ irp'[i].data = irp[i].data
        /\ irp'[i].seen = [irp[i].seen EXCEPT ![io.request.sector] = v]
    BY <1>12, IoReadEffect DEF IInv
  <2>2. irp[i].seen \in [Sectors -> Values \cup {NoValue}]
    BY <2>1, IrpFields DEF IInv, Types
  <2> HIDE DEF v
  <2>3. \A s \in Sectors :
          irp'[i].seen[s] = IF s = io.request.sector THEN v ELSE irp[i].seen[s]
    BY <2>1, <2>2
  <2> QED BY <1>12, <2>1, <2>3 DEF DataStep, SectorStep, v
<1>13. CASE IoFinishRead
  <2> DEFINE i == io.request.irp
           c == fragment[io.request.buffer].content
  <2>1. /\ i \in Irps /\ \A n \in Irps : n # i => irp'[n] = irp[n]
        /\ irp'[i].status = irp[i].status /\ irp'[i].op = irp[i].op
        /\ irp'[i].seen = irp[i].seen
        /\ irp'[i].data = IF irp[i].status = "ok"
                          THEN [irp[i].data EXCEPT ![io.request.sector] = c] ELSE irp[i].data
    BY <1>13, IoFinishReadEffect DEF IInv
  <2>2. irp[i].data \in [Sectors -> Sector]
    BY <2>1, IrpFields DEF IInv, Types
  <2> HIDE DEF c
  <2>3. \A s \in Sectors : irp'[i].data[s] =
          IF irp[i].status = "ok" /\ s = io.request.sector THEN c ELSE irp[i].data[s]
    BY <2>1, <2>2
  <2> QED BY <1>13, <2>1, <2>3 DEF DataStep, SectorStep, c
<1>14. CASE CompletionDecrypt
  <2> DEFINE i == completion.request.irp
           t == completion.request.sector
           c == Decrypt(irp[i].data[t])
  <2>1. /\ i \in Irps /\ \A n \in Irps : n # i => irp'[n] = irp[n]
        /\ irp'[i].status = irp[i].status /\ irp'[i].op = irp[i].op
        /\ irp'[i].seen = irp[i].seen
        /\ irp'[i].data = IF completion.request.encrypted /\ irp[i].status = "ok"
                          THEN [irp[i].data EXCEPT ![t] = c] ELSE irp[i].data
    BY <1>14, CompletionDecryptEffect DEF IInv
  <2>2. irp[i].data \in [Sectors -> Sector]
    BY <2>1, IrpFields DEF IInv, Types
  <2> HIDE DEF c
  <2>3. \A s \in Sectors : irp'[i].data[s] =
          IF completion.request.encrypted /\ irp[i].status = "ok" /\ s = t THEN c
          ELSE irp[i].data[s]
    BY <2>1, <2>2
  <2> QED BY <1>14, <2>1, <2>3 DEF DataStep, SectorStep, c
<1>15. ASSUME NEW k \in WorkItems, WorkCompleteIrp(k)
      PROVE  DataStep(j)
  <2>1. Completing(k)
    BY <1>15 DEF WorkCompleteIrp, MoveWork, Completing
  <2>2. work[k].irp \in Irps
    BY <2>1, WorkIrp DEF IInv
  <2> QED BY <1>15, <2>2, OnlyState
          DEF IInv, Types, WorkCompleteIrp, IrpStates, DataStep, SectorStep
<1>16. CASE UNCHANGED <<irp>>
  BY <1>16 DEF IInv, DataStep, SectorStep
<1> QED
  BY <1>1, <1>2, <1>3, <1>4, <1>5, <1>6, <1>7, <1>8, <1>9, <1>10, <1>11, <1>12, <1>13, <1>14,
      <1>15, <1>16, IrpChanges


-----------------------------------------------------------------------------
(* Fragments that wait to be written.                                      *)

\* The fragment of a request stays what it is until the I/O thread serves it.
LEMMA FragmentKept ==
  ASSUME IInv, [Next]_vars
  PROVE  /\ \A m \in 1 .. Len(io.queue) : io.queue[m].buffer \in Buffers =>
              fragment'[io.queue[m].buffer] = fragment[io.queue[m].buffer]
         /\ io.pc \in {"perform", "finish"} /\ io'.pc = io.pc /\ io.request.buffer \in Buffers =>
              fragment'[io.request.buffer] = fragment[io.request.buffer]
<1>1. /\ \A m \in 1 .. Len(io.queue) : io.queue[m].buffer \in Buffers =>
           ~fragment[io.queue[m].buffer].free
      /\ io.pc \in {"perform", "finish"} /\ io.request.buffer \in Buffers =>
           /\ ~fragment[io.request.buffer].free
           /\ \A m \in 1 .. Len(io.queue) : io.queue[m].buffer # io.request.buffer
  BY DEF IInv, BufferInv, IoHasBuffer
<1>2. CASE MainQueueFragment
  <2>1. /\ fragment[main.request.buffer].free
        /\ \A b \in Buffers : b # main.request.buffer => fragment'[b] = fragment[b]
    BY <1>2, QueueFragmentEffect DEF IInv
  <2> QED BY <1>1, <2>1
<1>3. CASE IoRead
  <2>1. /\ io.pc = "perform" /\ io'.pc = "finish" /\ io.request.buffer \in Buffers
        /\ \A b \in Buffers : b # io.request.buffer => fragment'[b] = fragment[b]
    BY <1>3, IoReadFragment DEF IInv, IoRead, Types, IoType
  <2> QED BY <1>1, <2>1
<1>4. CASE IoFinishWrite
  <2>1. io.pc = "finish" /\ io.request.buffer \in Buffers
    BY <1>4, FinishBuffer DEF IInv, IoFinishWrite
  <2>2. io'.pc # "finish" /\ fragment' = FreeFragment(io.request.buffer)
    BY <1>4 DEF IoFinishWrite, IInv, Types, IoType
  <2>3. \A b \in Buffers : b # io.request.buffer => fragment'[b] = fragment[b]
    BY <2>1, <2>2, FreeFragmentEffect DEF IInv, Types
  <2> QED BY <1>1, <2>1, <2>2, <2>3
<1>5. CASE IoFinishRead
  <2>1. /\ io.pc = "finish" /\ io'.pc # "finish" /\ io.request.buffer \in Buffers
        /\ \A b \in Buffers : b # io.request.buffer => fragment'[b] = fragment[b]
    BY <1>5, IoFinishReadMoves DEF IInv
  <2> QED BY <1>1, <2>1
<1>6. CASE fragment' = fragment
  BY <1>6
<1> QED BY <1>2, <1>3, <1>4, <1>5, <1>6, FragmentChanges

WriteRequest(r) ==
  Kind(r.irp) = "write" =>
    fragment[r.buffer].content = [value |-> irp[r.irp].op.value, layer |-> Layer(r.sector)]

LEMMA WriteRequestKept ==
  ASSUME NEW r, WriteRequest(r), StillUnderWay(r), encryptedEnd' = encryptedEnd,
         Kind(r.irp) = "write" => fragment'[r.buffer] = fragment[r.buffer]
  PROVE  WriteRequest(r)'
  BY DEF WriteRequest, StillUnderWay, Kind, Layer, InEncryptedArea

LEMMA WriteInvStep ==
  ASSUME IInv, Types', [Next]_vars
  PROVE  WriteInv'
<1>1. ASSUME NEW r, NEW m \in 1 .. Len(io.queue), r = io.queue[m]
      PROVE  WriteRequest(r)'
  <2>1. StillUnderWay(r) /\ encryptedEnd' = encryptedEnd
    BY <1>1, ServedKept
  <2>2. WriteRequest(r)
    BY <1>1 DEF IInv, WriteInv, WriteRequest
  <2>3. Kind(r.irp) = "write" => r.buffer \in Buffers
    BY <1>1 DEF IInv, ServedInv, IoRequest
  <2> QED BY <1>1, <2>1, <2>2, <2>3, FragmentKept, WriteRequestKept
<1>2. ASSUME NEW r, r = main.request, GrowsIoQueue
      PROVE  WriteRequest(r)'
  <2>1. /\ main.pc \in {"queueFlush", "queueFragment"} /\ encryptedEnd' = encryptedEnd
        /\ MainHasItem /\ ~MainComplete
    BY <1>2 DEF GrowsIoQueue, MainQueueFlush, MainQueueFragment, MainComplete, MainHasItem,
       MainRequesting
  <2>2. IoRequest(r) /\ r.irp = main.irp
    BY <1>2, <2>1, MainRequestReady
  <2>3. StillUnderWay(r)
    BY <2>1, <2>2, MainKept DEF StillUnderWay
  <2>4. Kind(r.irp)' = Kind(r.irp) /\ irp'[r.irp].op = irp[r.irp].op
    BY <2>1, <2>2, <2>3, IoRequestKept
  <2>5. CASE MainQueueFlush
    <3>1. Kind(main.irp) = "flush"
      BY <2>5 DEF MainQueueFlush, IInv, MainInv
    <3> QED BY <2>2, <2>4, <3>1 DEF WriteRequest
  <2>6. CASE MainQueueFragment
    <3>1. /\ r.sector = main.sector /\ r.encrypted = InEncryptedArea(main.sector)
          /\ Kind(main.irp) = "write" =>
               fragment'[r.buffer].content =
                 [value |-> irp[main.irp].op.value, layer |-> One(r.encrypted)]
      BY <1>2, <2>6, QueueFragmentEffect DEF IInv
    <3>2. One(r.encrypted) = Layer(r.sector)
      BY <3>1 DEF One, Layer
    <3>3. Layer(r.sector) = Layer(r.sector)'
      BY <2>1, <1>2 DEF Layer, InEncryptedArea
    <3> QED BY <2>2, <2>4, <3>1, <3>2, <3>3 DEF WriteRequest
  <2> QED BY <1>2, <2>5, <2>6 DEF GrowsIoQueue
<1>3. ASSUME NEW r, io'.pc = "perform", r = io'.request
      PROVE  WriteRequest(r)'
  <2>1. CASE io.pc = "perform" /\ r = io.request
    <3>1. IoBusy /\ ~IoComplete
      BY <2>1 DEF IoBusy, IoComplete
    <3>2. StillUnderWay(r) /\ encryptedEnd' = encryptedEnd
      BY <2>1, <3>1, ServedKept
    <3>3. WriteRequest(r)
      BY <2>1 DEF IInv, WriteInv, WriteRequest
    <3>4. Kind(r.irp) = "write" => r.buffer \in Buffers
      BY <2>1, <3>1 DEF IInv, ServedInv, IoRequest
    <3> QED BY <1>3, <2>1, <3>2, <3>3, <3>4, FragmentKept, WriteRequestKept
  <2> QED BY <1>1, <1>3, <2>1, IoQueueSteps
<1>4. \A n \in 1 .. Len(io'.queue) : \A r : r = io'.queue[n] => WriteRequest(r)'
  BY <1>1, <1>2, IoQueueSteps
<1> QED BY <1>3, <1>4 DEF WriteInv, WriteRequest

\* The read-ahead buffer is what the device holds, or invalid, when the I/O thread
\* takes its next request.
LEMMA CacheInvStep ==
  ASSUME IInv, Types', [Next]_vars
  PROVE  CacheInv'
<1>1. CASE IoFinishWrite \/ HoldSucceed
  <2>1. ~cache'.valid
    BY <1>1 DEF IoFinishWrite, HoldSucceed, NoCache
  <2> QED BY <2>1 DEF CacheInv
<1>2. CASE IoReadAhead
  <2>1. PICK s \in Int : s = io.request.sector + 1
    BY IoSector DEF IInv
  <2>2. device' = device
        /\ (cache' = NoCache \/ (cache' = [valid |-> TRUE, sector |-> s, content |-> device[s]]))
    BY <1>2, <2>1 DEF IoReadAhead
  <2>3. cache'.valid => cache'.sector = s /\ cache'.content = device[s]
    BY <2>2 DEF NoCache
  <2> QED BY <2>2, <2>3 DEF CacheInv
<1>3. CASE IoWrite
  <2>1. /\ io.pc = "perform" /\ io'.pc = "finish" /\ io'.request = io.request
        /\ Kind(io.request.irp) = "write"
    BY <1>3 DEF IoWrite, IoKind, Kind, IInv, Types, IoType
  <2>2. IoBusy /\ ~IoComplete
    BY <2>1 DEF IoBusy, IoComplete
  <2>3. irp'[io.request.irp].op = irp[io.request.irp].op
    BY <2>2, ServedKept DEF StillUnderWay
  <2> QED BY <2>1, <2>3 DEF CacheInv, Kind
<1>4. CASE HolderConvert
  <2>1. ~cache.valid /\ cache' = cache
    BY <1>4 DEF HolderConvert, MoveHold, IInv, HeldQueueIsQuiet, IsHeld
  <2> QED BY <2>1 DEF CacheInv
<1>5. CASE UNCHANGED <<cache, device>> /\ ~IoFinishWrite
  <2>1. CASE ~(io.pc = "finish" /\ Kind(io.request.irp) = "write")
    BY <1>5, <2>1 DEF IInv, CacheInv
  <2>2. CASE io.pc = "finish" /\ Kind(io.request.irp) = "write"
    <3>1. IoBusy /\ ~IoComplete
      BY <2>2 DEF IoBusy, IoComplete
    <3>2. irp'[io.request.irp].op = irp[io.request.irp].op
      BY <3>1, ServedKept DEF StillUnderWay
    <3>3. ~IoFinishRead
      BY <2>2 DEF IoFinishRead, IoKind, Kind
    <3>4. io'.pc = "finish" /\ io'.request = io.request
      BY <1>5, <2>2, <3>3, IoMove DEF IoMoves
    <3> QED BY <2>2, <3>2, <3>4 DEF CacheInv, Kind
  <2> QED BY <2>1, <2>2
<1> QED BY <1>1, <1>2, <1>3, <1>4, <1>5, CacheChanges, DeviceChanges

-----------------------------------------------------------------------------
(* What was read.                                                          *)

FetchedIfOk(r) == irp[r.irp].status = "ok" => Fetched(r)

\* No thread is at the sector of request r.
Untouched(r) ==
  /\ io.pc \in {"perform", "finish"} /\ io.request.irp = r.irp => io.request.sector # r.sector
  /\ completion.pc = "decrypt" /\ completion.request.irp = r.irp =>
       completion.request.sector # r.sector

LEMMA UntouchedSector ==
  ASSUME IInv, [Next]_vars, NEW r \in Requests, InProgress(r.irp), Kind(r.irp) = "read",
         Untouched(r)
  PROVE  /\ irp'[r.irp].seen[r.sector] = irp[r.irp].seen[r.sector]
         /\ irp'[r.irp].data[r.sector] = irp[r.irp].data[r.sector]
         /\ irp'[r.irp].status = "ok" => irp[r.irp].status = "ok"
<1>1. r.irp \in Irps /\ irp[r.irp].state = "item" /\ r.sector \in Sectors
  BY RequestFields DEF InProgress
<1>2. DataStep(r.irp)
  BY <1>1, DataSteps
<1>3. ~Renewed(r.irp)
  BY <1>1 DEF Renewed
<1>4. IoWrite \/ IoRead => io.pc = "perform"
  BY DEF IoWrite, IoRead
<1>5. IoFinishRead => io.pc = "finish"
  BY DEF IoFinishRead
<1>6. CompletionDecrypt => completion.pc = "decrypt"
  BY DEF CompletionDecrypt
<1>7. MainReadMisaligned => main.irp # r.irp
  BY DEF MainReadMisaligned, Kind
<1>8. SectorStep(r.irp, r.sector)
  BY <1>1, <1>2, <1>3 DEF DataStep
<1> QED BY <1>2, <1>3, <1>4, <1>5, <1>6, <1>7, <1>8 DEF DataStep, SectorStep, Untouched

\* A fetched sector stays fetched while nobody is at it.
LEMMA FetchedKept ==
  ASSUME IInv, [Next]_vars, NEW r \in Requests, CompletionRequest(r), Untouched(r),
         FetchedIfOk(r)
  PROVE  FetchedIfOk(r)'
<1>1. InProgress(r.irp) /\ Kind(r.irp) = "read"
  BY DEF CompletionRequest
<1> QED BY <1>1, UntouchedSector DEF FetchedIfOk, Fetched

\* What the I/O thread read is what the device held.
FragmentRead(r) ==
  irp[r.irp].status = "ok" =>
    fragment[r.buffer].content =
      [value |-> irp[r.irp].seen[r.sector], layer |-> One(r.encrypted)]

LEMMA IoReadsDevice ==
  ASSUME IInv, Types', IoRead
  PROVE  \A r : r = io.request => FragmentRead(r)'
<1> DEFINE r == io.request
           s == r.sector
<1>1. io.pc = "perform" /\ r.irp \in Irps /\ s \in Sectors
  BY BusyIrps, IoSector DEF IInv, IoRead, IoBusy
<1>2. fragment'[r.buffer].content =
        IF cache.valid /\ cache.sector = s THEN cache.content ELSE device[s]
  BY IoReadFragment DEF IInv
<1>3. cache.valid => cache.content = device[cache.sector]
  BY <1>1 DEF IInv, CacheInv
<1>4. fragment'[r.buffer].content = device[s]
  BY <1>2, <1>3
<1>5. device[s] = [value |-> device[s].value, layer |-> device[s].layer]
  BY <1>1, Layers DEF IInv, Types, DeviceType
<1>6. device[s].layer = Layer(s)
  BY <1>1, NotConverting
<1>7. r.encrypted = InEncryptedArea(s)
  BY <1>1 DEF IInv, ServedInv, IoRequest, IoBusy, IoRead, IoKind, Kind
<1>8. Layer(s) = One(r.encrypted)
  BY <1>7 DEF Layer, One
<1>9. irp'[r.irp].seen = [irp[r.irp].seen EXCEPT ![s] = device[s].value]
  BY IoReadEffect DEF IInv
<1>10. irp[r.irp].seen \in [Sectors -> Values \cup {NoValue}]
  BY <1>1, IrpFields DEF IInv, Types
<1>11. irp'[r.irp].seen[s] = device[s].value
  BY <1>1, <1>9, <1>10
<1>12. fragment'[r.buffer].content = [value |-> irp'[r.irp].seen[s], layer |-> One(r.encrypted)]
  BY <1>4, <1>5, <1>6, <1>8, <1>11
<1> QED BY <1>12 DEF FragmentRead, One

LEMMA FragmentReadStep ==
  ASSUME IInv, Types', [Next]_vars, io'.pc = "finish", irp'[io'.request.irp].op.kind = "read"
  PROVE  \A r : r = io'.request => FragmentRead(r)'
<1>1. CASE io.pc = "finish" /\ io'.request = io.request
  <2> DEFINE r == io.request
  <2>1. IoBusy /\ ~IoComplete
    BY <1>1 DEF IoBusy, IoComplete
  <2>2. /\ IoRequest(r) /\ r.irp \in Irps /\ r.sector \in Sectors /\ r.buffer \in Buffers
        /\ irp[r.irp].state = "item"
    BY <1>1, <2>1, BusyIrps, IoSector, FinishBuffer
       DEF IInv, ServedInv, IoRequest, InProgress
  <2>3. irp'[r.irp].op = irp[r.irp].op /\ Kind(r.irp) = "read"
    BY <1>1, <2>1, ServedKept DEF StillUnderWay, Kind
  <2>4. FragmentRead(r)
    BY <1>1, <2>3 DEF IInv, ReadInv, FragmentRead
  <2>5. fragment'[r.buffer] = fragment[r.buffer]
    BY <1>1, <2>2, FragmentKept
  <2>6. DataStep(r.irp) /\ ~Renewed(r.irp)
    BY <2>2, DataSteps DEF Renewed
  <2>7. ~IoWrite /\ ~IoRead /\ (MainReadMisaligned => main.irp # r.irp)
    BY <1>1, <2>3 DEF IoWrite, IoRead, MainReadMisaligned, Kind
  <2>8. SectorStep(r.irp, r.sector) /\ (irp'[r.irp].status = "ok" => irp[r.irp].status = "ok")
    BY <2>2, <2>3, <2>6 DEF DataStep
  <2>9. irp'[r.irp].seen[r.sector] = irp[r.irp].seen[r.sector]
    BY <2>7, <2>8 DEF SectorStep
  <2> QED BY <1>1, <2>4, <2>5, <2>8, <2>9 DEF FragmentRead, One
<1>2. CASE /\ io.pc = "perform" /\ io'.request = io.request
           /\ IoSkip \/ IoFail \/ IoWrite \/ IoRead
  <2>1. CASE IoSkip
    <3>1. irp' = irp /\ irp[io.request.irp].status # "ok"
      BY <2>1 DEF IoSkip
    <3> QED BY <1>2, <3>1 DEF FragmentRead
  <2>2. CASE IoFail
    <3>1. io.request.irp \in Irps
      BY <1>2, BusyIrps DEF IInv, IoBusy
    <3>2. irp'[io.request.irp].status = "error"
      BY <2>2, <3>1, OnlyStatus DEF IoFail, IInv, Types
    <3> QED BY <1>2, <3>2 DEF FragmentRead
  <2>3. CASE IoWrite
    <3>1. Kind(io.request.irp) = "write" /\ irp'[io.request.irp].op = irp[io.request.irp].op
      BY <2>3, IoWriteEffect DEF IInv, IoWrite, IoKind, Kind
    <3> QED BY <1>2, <3>1 DEF Kind
  <2>4. CASE IoRead
    BY <1>2, <2>4, IoReadsDevice
  <2> QED BY <1>2, <2>1, <2>2, <2>3, <2>4
<1> QED BY <1>1, <1>2, IoMove DEF IoMoves

\* The I/O thread and the completion thread are not at a sector that waits to be
\* decrypted.
LEMMA WaitingUntouched ==
  ASSUME IInv
  PROVE  /\ \A m \in 1 .. Len(completion.queue) : Untouched(completion.queue[m])
         /\ completion.pc = "decrypt" =>
              (io.pc \in {"perform", "finish"} /\ io.request.irp = completion.request.irp =>
                 io.request.sector # completion.request.sector)
<1>1. \A a, b \in Requests : a.sector < b.sector => a.sector # b.sector
  BY RequestFields, SectorsAreIntegers
<1>2. /\ io.request \in Requests /\ completion.request \in Requests
      /\ \A m \in 1 .. Len(completion.queue) : completion.queue[m] \in Requests
  BY BusyIrps, QueueLengths, ElementType DEF IInv
<1>3. /\ \A m \in 1 .. Len(completion.queue) :
           /\ IoBusy => Precedes(completion.queue[m], io.request)
           /\ CompletionBusy => Precedes(completion.request, completion.queue[m])
      /\ CompletionBusy /\ IoBusy => Precedes(completion.request, io.request)
  BY DEF IInv, OrderInv, PrecedesAll
<1> QED BY <1>1, <1>2, <1>3 DEF Untouched, Precedes, IoBusy, CompletionBusy

LEMMA QueueFetchedStep ==
  ASSUME IInv, Types', [Next]_vars
  PROVE  /\ \A n \in 1 .. Len(completion'.queue) :
              \A r : r = completion'.queue[n] => FetchedIfOk(r)'
         /\ completion'.pc = "decrypt" => \A r : r = completion'.request => FetchedIfOk(r)'
<1>1. ASSUME NEW r, NEW m \in 1 .. Len(completion.queue), r = completion.queue[m]
      PROVE  FetchedIfOk(r)'
  <2>1. r \in Requests /\ CompletionRequest(r)
    BY <1>1, QueueLengths, ElementType DEF IInv, ServedInv
  <2>2. FetchedIfOk(r) /\ Untouched(r)
    BY <1>1, WaitingUntouched DEF IInv, ReadInv, FetchedIfOk
  <2> QED BY <2>1, <2>2, FetchedKept
<1>2. ASSUME NEW r, r = io.request, IoFinishRead
      PROVE  FetchedIfOk(r)'
  <2>1. io.pc = "finish" /\ Kind(r.irp) = "read" /\ r.irp \in Irps /\ r.sector \in Sectors
    BY <1>2, IoFinishReadMoves, IoSector DEF IInv
  <2>2. irp[r.irp].status = "ok" =>
          fragment[r.buffer].content =
            [value |-> irp[r.irp].seen[r.sector], layer |-> One(r.encrypted)]
    BY <1>2, <2>1 DEF IInv, ReadInv
  <2>3. /\ irp'[r.irp].status = irp[r.irp].status /\ irp'[r.irp].seen = irp[r.irp].seen
        /\ irp[r.irp].status = "ok" =>
             irp'[r.irp].data = [irp[r.irp].data EXCEPT ![r.sector] = fragment[r.buffer].content]
    BY <1>2, IoFinishReadEffect DEF IInv
  <2>4. irp[r.irp].data \in [Sectors -> Sector]
    BY <2>1, IrpFields DEF IInv, Types
  <2>5. irp[r.irp].status = "ok" => irp'[r.irp].data[r.sector] = fragment[r.buffer].content
    BY <2>1, <2>3, <2>4
  <2> QED BY <2>2, <2>3, <2>5 DEF FetchedIfOk, Fetched, One
<1>3. ASSUME NEW r, completion.pc = "decrypt", completion'.pc = "decrypt",
             r = completion.request
      PROVE  FetchedIfOk(r)'
  <2>1. r \in Requests /\ CompletionRequest(r) /\ r.irp \in Irps /\ r.sector \in Sectors
        /\ irp[r.irp].state = "item" /\ Kind(r.irp) = "read"
    BY <1>3, BusyIrps, RequestFields
       DEF IInv, ServedInv, CompletionBusy, CompletionRequest, InProgress
  <2>2. FetchedIfOk(r)
    BY <1>3 DEF IInv, ReadInv, FetchedIfOk
  <2>3. ~CompletionDecrypt
    BY <1>3 DEF CompletionDecrypt, IInv, Types, CompletionType
  <2>4. /\ IoWrite \/ IoRead \/ IoFinishRead => io.pc \in {"perform", "finish"}
        /\ MainReadMisaligned => main.irp # r.irp
    BY <2>1 DEF IoWrite, IoRead, IoFinishRead, MainReadMisaligned, Kind
  <2>5. ~Renewed(r.irp) /\ DataStep(r.irp)
    BY <2>1, DataSteps DEF Renewed
  <2>6. SectorStep(r.irp, r.sector) /\ (irp'[r.irp].status = "ok" => irp[r.irp].status = "ok")
    BY <2>1, <2>5 DEF DataStep
  <2>7. /\ irp'[r.irp].seen[r.sector] = irp[r.irp].seen[r.sector]
        /\ irp'[r.irp].data[r.sector] = irp[r.irp].data[r.sector]
    BY <1>3, <2>3, <2>4, <2>6, WaitingUntouched DEF SectorStep
  <2> QED BY <2>2, <2>6, <2>7 DEF FetchedIfOk, Fetched, One
<1> QED BY <1>1, <1>2, <1>3, CompletionQueueSteps

ReadSector(i, s) ==
  irp[i].status = "ok" /\ Kind(i) \in {"read", "misaligned"} =>
    \/ Shows(i, s)
    \/ io.pc = "finish" /\ io.request.irp = i /\ io.request.sector = s
    \/ \E n \in 1 .. Len(completion.queue) :
         completion.queue[n].irp = i /\ completion.queue[n].sector = s
    \/ completion.pc = "decrypt" /\ completion.request.irp = i /\ completion.request.sector = s

\* A misaligned read decrypts what it reads in the encrypted area, no more.
LEMMA MisalignedShows ==
  ASSUME IInv, MainReadMisaligned, NEW i, i = main.irp, NEW s \in Sectors
  PROVE  MisalignedData(i)[s] = [value |-> MisalignedSeen(i)[s], layer |-> 0]
<1>1. device[s] \in Sector /\ device[s].layer = Layer(s)
  BY NotConverting DEF MainReadMisaligned, IInv, Types, DeviceType
<1>2. PICK d \in Sector : d = device[s]
  BY <1>1
<1>3. CASE s \notin irp[i].op.sectors
  BY <1>3 DEF MisalignedData, MisalignedSeen, NoContent
<1>4. CASE s \in irp[i].op.sectors /\ InEncryptedArea(s)
  <2>1. d.layer = 1
    BY <1>1, <1>2, <1>4 DEF Layer
  <2>2. Decrypt(d) = [value |-> d.value, layer |-> 0]
    BY <2>1, Layers
  <2> QED BY <1>2, <1>4, <2>2 DEF MisalignedData, MisalignedSeen
<1>5. CASE s \in irp[i].op.sectors /\ ~InEncryptedArea(s)
  <2>1. d.layer = 0
    BY <1>1, <1>2, <1>5 DEF Layer
  <2>2. d = [value |-> d.value, layer |-> 0]
    BY <2>1, Layers
  <2> QED BY <1>2, <1>5, <2>2 DEF MisalignedData, MisalignedSeen
<1> QED BY <1>3, <1>4, <1>5

\* Decrypting a fetched sector shows its value.
LEMMA DecryptedShows ==
  ASSUME IInv, CompletionDecrypt, NEW i \in Irps, NEW s \in Sectors,
         completion.request.irp = i, completion.request.sector = s, irp'[i].status = "ok"
  PROVE  Shows(i, s)'
<1>1. /\ irp'[i].status = irp[i].status /\ irp'[i].seen = irp[i].seen
      /\ irp'[i].data = IF completion.request.encrypted /\ irp[i].status = "ok"
                        THEN [irp[i].data EXCEPT ![s] = Decrypt(irp[i].data[s])]
                        ELSE irp[i].data
  BY CompletionDecryptEffect DEF IInv
<1>2. irp[i].data[s] =
        [value |-> irp[i].seen[s], layer |-> One(completion.request.encrypted)]
  BY <1>1 DEF IInv, ReadInv, Fetched, CompletionDecrypt
<1>3. irp[i].data \in [Sectors -> Sector]
  BY IrpFields DEF IInv, Types
<1>4. CASE completion.request.encrypted
  <2>1. PICK d \in Sector : d = irp[i].data[s]
    BY <1>3
  <2>2. d.value = irp[i].seen[s]
    BY <1>2, <2>1
  <2>5. d.layer = 1
    BY <1>2, <1>4, <2>1 DEF One
  <2>3. Decrypt(d) = [value |-> d.value, layer |-> 0]
    BY <2>5, Layers
  <2>4. irp'[i].data[s] = Decrypt(d)
    BY <1>1, <1>3, <1>4, <2>1
  <2> QED BY <1>1, <2>2, <2>3, <2>4 DEF Shows
<1>5. CASE ~completion.request.encrypted
  BY <1>1, <1>2, <1>5 DEF Shows, One
<1> QED BY <1>4, <1>5

LEMMA ReadSectorStep ==
  ASSUME IInv, Types', [Next]_vars, NEW i \in Irps, NEW s \in Sectors
  PROVE  ReadSector(i, s)'
<1> SUFFICES ASSUME irp'[i].status = "ok", irp'[i].op.kind \in {"read", "misaligned"},
                    ~Renewed(i)
             PROVE  ReadSector(i, s)'
  <2>1. Renewed(i) => Shows(i, s)'
    BY DEF Renewed, Shows, NoContent
  <2> QED BY <2>1 DEF ReadSector, Kind
<1>1. /\ irp'[i].op = irp[i].op /\ Kind(i) \in {"read", "misaligned"}
      /\ irp[i].status = "ok" /\ SectorStep(i, s)
  BY DataSteps DEF DataStep, Kind
<1>2. ReadSector(i, s)
  BY DEF IInv, ReadInv, ReadSector
<1>3. IoFinishRead /\ io.request.irp = i /\ io.request.sector = s =>
        \E n \in 1 .. Len(completion'.queue) :
          completion'.queue[n].irp = i /\ completion'.queue[n].sector = s
  BY CompletionQueueSteps
<1>4. CASE irp'[i].seen[s] = irp[i].seen[s] /\ irp'[i].data[s] = irp[i].data[s]
  <2>1. CASE Shows(i, s)
    BY <1>4, <2>1 DEF ReadSector, Shows
  <2>2. CASE io.pc = "finish" /\ io.request.irp = i /\ io.request.sector = s
    <3>1. ~IoFinishWrite
      BY <1>1, <2>2 DEF IoFinishWrite, IoKind, Kind
    <3>2. (io'.pc = "finish" /\ io'.request = io.request) \/ IoFinishRead
      BY <2>2, <3>1, IoMove DEF IoMoves
    <3> QED BY <1>3, <2>2, <3>2 DEF ReadSector
  <2>3. CASE \E m \in 1 .. Len(completion.queue) :
               completion.queue[m].irp = i /\ completion.queue[m].sector = s
    BY <2>3, CompletionQueueSteps DEF ReadSector
  <2>4. CASE completion.pc = "decrypt" /\ completion.request.irp = i
             /\ completion.request.sector = s
    <3>1. (completion'.pc = "decrypt" /\ completion'.request = completion.request)
          \/ CompletionDecrypt
      BY <2>4, CompletionMove DEF CompletionMoves
    <3>2. CompletionDecrypt => Shows(i, s)'
      BY <2>4, DecryptedShows
    <3> QED BY <2>4, <3>1, <3>2 DEF ReadSector
  <2> QED BY <1>1, <1>2, <2>1, <2>2, <2>3, <2>4 DEF ReadSector
<1>5. CASE IoWrite /\ io.request.irp = i
  BY <1>1, <1>5 DEF IoWrite, IoKind, Kind
<1>6. CASE IoRead /\ io.request.irp = i /\ io.request.sector = s
  <2>1. io'.pc = "finish" /\ io'.request = io.request
    BY <1>6 DEF IoRead, IInv, Types, IoType
  <2> QED BY <1>6, <2>1 DEF ReadSector
<1>7. CASE IoFinishRead /\ io.request.irp = i /\ io.request.sector = s
  BY <1>3, <1>7 DEF ReadSector
<1>8. CASE CompletionDecrypt /\ completion.request.irp = i /\ completion.request.sector = s
  BY <1>8, DecryptedShows DEF ReadSector
<1>9. CASE /\ MainReadMisaligned /\ main.irp = i
           /\ irp'[i].seen[s] = MisalignedSeen(i)[s] /\ irp'[i].data[s] = MisalignedData(i)[s]
  BY <1>9, MisalignedShows DEF ReadSector, Shows
<1> QED BY <1>1, <1>4, <1>5, <1>6, <1>7, <1>8, <1>9 DEF SectorStep

LEMMA ReadInvStep ==
  ASSUME IInv, Types', [Next]_vars
  PROVE  ReadInv'
<1>1. \A i \in Irps, s \in Sectors : ReadSector(i, s)'
  BY ReadSectorStep
<1>2. io'.pc = "finish" /\ irp'[io'.request.irp].op.kind = "read" =>
        \A r : r = io'.request => FragmentRead(r)'
  BY FragmentReadStep
<1> QED BY <1>1, <1>2, QueueFetchedStep
        DEF ReadInv, ReadSector, FragmentRead, FetchedIfOk, Kind

-----------------------------------------------------------------------------
(* Every sector of a request is accessed once.                             *)

\* An IRP that no thread of the queue has taken.
NotTaken == {"free", "counted", "accepted", "queued"}

FreshStep(i) ==
  irp'[i].state \in NotTaken =>
    \/ Renewed(i)
    \/ /\ irp[i].state \in NotTaken /\ (irp[i].state = "free" => irp'[i].state = "free")
       /\ irp'[i].status = irp[i].status /\ irp'[i].seen = irp[i].seen
       /\ irp'[i].data = irp[i].data

LEMMA FreshSteps ==
  ASSUME IInv, [Next]_vars, NEW j \in Irps
  PROVE  FreshStep(j)
<1>1. ASSUME NEW i \in Irps, NEW o \in Ops, AddIrp(i, o)
      PROVE  FreshStep(j)
  BY <1>1, AddIrpEffect DEF IInv, FreshStep, NotTaken, Renewed
<1>2. ASSUME NEW i \in Irps, RejectIrp(i)
      PROVE  FreshStep(j)
  <2>1. /\ irp'[i].state = "completed" /\ \A m \in Irps : m # i => irp'[m] = irp[m]
    BY <1>2, StateUpdate DEF IInv, Types, RejectIrp, IrpStates
  <2> QED BY <1>2, <2>1 DEF FreshStep, NotTaken
<1>3. ASSUME NEW i \in Irps, AcceptIrp(i)
      PROVE  FreshStep(j)
  BY <1>3, OnlyState DEF IInv, Types, AcceptIrp, IrpStates, FreshStep, NotTaken
<1>4. ASSUME NEW i \in Irps, EnqueueIrp(i)
      PROVE  FreshStep(j)
  BY <1>4, OnlyState DEF IInv, Types, EnqueueIrp, IrpStates, FreshStep, NotTaken
<1>5. ASSUME NEW i \in Irps, Collect(i)
      PROVE  FreshStep(j)
  BY <1>5, IrpUpdate, FreeIrpFields
     DEF IInv, Types, Collect, FreshStep, NotTaken, Renewed
<1>6. CASE MainGetItem
  <2>1. main.irp \in Irps /\ irp[main.irp].state = "queued"
    BY <1>6 DEF IInv, MainInv, MainGetItem, MainQueued
  <2> QED BY <1>6, <2>1, OnlyState DEF IInv, Types, MainGetItem, IrpStates, FreshStep, NotTaken
<1>7. CASE MainRefuse
  <2>1. main.irp \in Irps /\ irp[main.irp].state = "item"
    BY <1>7 DEF IInv, MainInv, MainRefuse, MainHasItem, InProgress
  <2>2. irp'[main.irp].state = "item" /\ \A m \in Irps : m # main.irp => irp'[m] = irp[m]
    BY <1>7, <2>1, OnlyStatus DEF IInv, Types, MainRefuse
  <2> QED BY <2>1, <2>2 DEF FreshStep, NotTaken
<1>8. CASE MainReadMisaligned
  <2>1. main.irp \in Irps /\ irp[main.irp].state = "item"
    BY <1>8 DEF IInv, MainInv, MainReadMisaligned, MainHasItem, InProgress
  <2>2. irp'[main.irp].state = "item" /\ \A m \in Irps : m # main.irp => irp'[m] = irp[m]
    BY <1>8, <2>1, MainReadMisalignedEffect DEF IInv
  <2> QED BY <2>1, <2>2 DEF FreshStep, NotTaken
<1>9. CASE IoFlush
  <2>1. io.request.irp \in Irps /\ irp[io.request.irp].state = "item"
    BY <1>9 DEF IInv, ServedInv, IoRequest, InProgress, IoBusy, IoFlush
  <2>2. irp'[io.request.irp].state = "item" /\ \A m \in Irps : m # io.request.irp => irp'[m] = irp[m]
    BY <1>9, <2>1, OnlyStatus DEF IInv, Types, IoFlush, Outcomes
  <2> QED BY <2>1, <2>2 DEF FreshStep, NotTaken
<1>10. CASE IoFail
  <2>1. io.request.irp \in Irps /\ irp[io.request.irp].state = "item"
    BY <1>10 DEF IInv, ServedInv, IoRequest, InProgress, IoBusy, IoFail
  <2>2. irp'[io.request.irp].state = "item" /\ \A m \in Irps : m # io.request.irp => irp'[m] = irp[m]
    BY <1>10, <2>1, OnlyStatus DEF IInv, Types, IoFail
  <2> QED BY <2>1, <2>2 DEF FreshStep, NotTaken
<1>11. CASE IoWrite
  <2>1. io.request.irp \in Irps /\ irp[io.request.irp].state = "item"
    BY <1>11 DEF IInv, ServedInv, IoRequest, InProgress, IoBusy, IoWrite
  <2>2. irp'[io.request.irp].state = "item" /\ \A m \in Irps : m # io.request.irp => irp'[m] = irp[m]
    BY <1>11, <2>1, IoWriteEffect DEF IInv
  <2> QED BY <2>1, <2>2 DEF FreshStep, NotTaken
<1>12. CASE IoRead
  <2>1. io.request.irp \in Irps /\ irp[io.request.irp].state = "item"
    BY <1>12 DEF IInv, ServedInv, IoRequest, InProgress, IoBusy, IoRead
  <2>2. irp'[io.request.irp].state = "item" /\ \A m \in Irps : m # io.request.irp => irp'[m] = irp[m]
    BY <1>12, <2>1, IoReadEffect DEF IInv
  <2> QED BY <2>1, <2>2 DEF FreshStep, NotTaken
<1>13. CASE IoFinishRead
  <2>1. io.request.irp \in Irps /\ irp[io.request.irp].state = "item"
    BY <1>13 DEF IInv, ServedInv, IoRequest, InProgress, IoBusy, IoFinishRead
  <2>2. irp'[io.request.irp].state = "item" /\ \A m \in Irps : m # io.request.irp => irp'[m] = irp[m]
    BY <1>13, <2>1, IoFinishReadEffect DEF IInv
  <2> QED BY <2>1, <2>2 DEF FreshStep, NotTaken
<1>14. CASE CompletionDecrypt
  <2>1. completion.request.irp \in Irps /\ irp[completion.request.irp].state = "item"
    BY <1>14 DEF IInv, ServedInv, CompletionRequest, InProgress, CompletionBusy, CompletionDecrypt
  <2>2. irp'[completion.request.irp].state = "item" /\ \A m \in Irps : m # completion.request.irp => irp'[m] = irp[m]
    BY <1>14, <2>1, CompletionDecryptEffect DEF IInv
  <2> QED BY <2>1, <2>2 DEF FreshStep, NotTaken
<1>15. ASSUME NEW k \in WorkItems, WorkCompleteIrp(k)
      PROVE  FreshStep(j)
  <2>1. Completing(k)
    BY <1>15 DEF WorkCompleteIrp, MoveWork, Completing
  <2>2. work[k].irp \in Irps
    BY <2>1, WorkIrp DEF IInv
  <2>3. /\ irp'[work[k].irp].state = "completed"
        /\ \A m \in Irps : m # work[k].irp => irp'[m] = irp[m]
    BY <1>15, <2>2, OnlyState DEF IInv, Types, WorkCompleteIrp, IrpStates
  <2> QED BY <2>2, <2>3 DEF FreshStep, NotTaken
<1>16. CASE UNCHANGED <<irp>>
  BY <1>16 DEF IInv, FreshStep, NotTaken
<1> QED
  BY <1>1, <1>2, <1>3, <1>4, <1>5, <1>6, <1>7, <1>8, <1>9, <1>10, <1>11, <1>12, <1>13, <1>14,
      <1>15, <1>16, IrpChanges


LEMMA FreshInvStep ==
  ASSUME IInv, Types', [Next]_vars
  PROVE  FreshInv'
<1>1. \A i \in Irps : irp[i].state = "free" \/ irp[i].state \in NotTaken => irp[i].state \in NotTaken
  BY DEF NotTaken
<1> QED BY FreshSteps DEF FreshStep, NotTaken, Renewed, IInv, FreshInv

\* Wherever a sector is, it has a value and at most one layer of encryption.
LEMMA DeviceContent ==
  ASSUME IInv, NEW s \in Sectors
  PROVE  Content(device[s]) /\ device[s] \in Sector
  BY DEF IInv, DiskMatchesArea, Content, Types, DeviceType

LEMMA FragmentContentStep ==
  ASSUME IInv, Types', [Next]_vars, NEW b \in Buffers
  PROVE  Content(fragment[b].content)'
<1>1. Content(fragment[b].content)
  BY DEF IInv, ContentInv
<1>2. Content(NoContent)
  BY DEF Content, NoContent
<1>3. CASE MainQueueFragment
  <2>1. CASE b # main.request.buffer
    <3>1. fragment'[b] = fragment[b]
      BY <1>3, <2>1, QueueFragmentEffect DEF IInv
    <3> QED BY <1>1, <3>1 DEF Content
  <2>2. CASE b = main.request.buffer /\ Kind(main.irp) = "write"
    <3>1. fragment'[b].content = [value |-> irp[main.irp].op.value,
                                  layer |-> One(main.request.encrypted)]
      BY <1>3, <2>2, QueueFragmentEffect DEF IInv
    <3> QED BY <3>1 DEF Content, One
  <2>3. CASE b = main.request.buffer /\ Kind(main.irp) # "write"
    <3>1. Kind(main.irp) = "read"
      BY <1>3, <2>3 DEF IInv, MainInv, MainQueueFragment, MainRequesting
    <3>2. fragment' = [fragment EXCEPT ![b] = [free |-> FALSE, content |-> fragment[b].content]]
      BY <1>3, <2>3, <3>1 DEF MainQueueFragment, Kind
    <3>3. fragment'[b].content = fragment[b].content
      BY <3>2 DEF IInv, Types, FragmentType
    <3> QED BY <1>1, <3>3 DEF Content
  <2> QED BY <2>1, <2>2, <2>3
<1>4. CASE IoRead
  <2>1. CASE b # io.request.buffer
    <3>1. fragment'[b] = fragment[b]
      BY <1>4, <2>1, IoReadFragment DEF IInv
    <3> QED BY <1>1, <3>1 DEF Content
  <2>2. CASE b = io.request.buffer
    <3>1. /\ io.request.sector \in Sectors
          /\ \/ fragment'[b].content = cache.content
             \/ fragment'[b].content = device[io.request.sector]
      BY <1>4, <2>2, IoReadFragment DEF IInv
    <3> QED BY <3>1, DeviceContent DEF IInv, ContentInv, Content
  <2> QED BY <2>1, <2>2
<1>5. CASE IoFinishWrite \/ IoFinishRead
  <2>1. io.pc = "finish" /\ fragment' = FreeFragment(io.request.buffer)
    BY <1>5 DEF IoFinishWrite, IoFinishRead
  <2>2. io.request.buffer \in Buffers
    BY <2>1, FinishBuffer DEF IInv
  <2>3. fragment'[b].content = NoContent \/ fragment'[b] = fragment[b]
    BY <2>1, <2>2 DEF FreeFragment, IInv, Types, FragmentType
  <2> QED BY <1>1, <1>2, <2>3 DEF Content
<1>6. CASE fragment' = fragment
  BY <1>1, <1>6 DEF Content
<1> QED BY <1>3, <1>4, <1>5, <1>6, FragmentChanges

LEMMA DeviceValueStep ==
  ASSUME IInv, Types', [Next]_vars, NEW s \in Sectors
  PROVE  device'[s].value \in Values
<1>1. \A t \in Sectors : device[t].value \in Values /\ device[t] \in Sector
  BY DEF IInv, ContentInv, Types, DeviceType
<1>2. CASE IoWrite
  <2> DEFINE r == io.request
  <2>1. /\ io.pc = "perform" /\ Kind(r.irp) = "write" /\ r.sector \in Sectors
        /\ r.irp \in Irps /\ device' = [device EXCEPT ![r.sector] = fragment[r.buffer].content]
    BY <1>2, IoSector, BusyIrps DEF IInv, IoWrite, IoKind, Kind, IoBusy
  <2>2. fragment[r.buffer].content.value = irp[r.irp].op.value
    BY <2>1 DEF IInv, WriteInv
  <2>3. irp[r.irp].op.value \in Values
    BY <2>1, IrpFields, OpFields DEF IInv, Types
  <2>4. device'[s] = fragment[r.buffer].content \/ device'[s] = device[s]
    BY <2>1 DEF IInv, Types, DeviceType
  <2> QED BY <1>1, <2>2, <2>3, <2>4
<1>3. CASE HolderConvert
  <2>1. device'[s] \in {device[s], Encrypt(device[s]), Decrypt(device[s])}
    BY <1>3 DEF HolderConvert, MoveHold, IInv, Types, DeviceType, EndType
  <2>2. ASSUME NEW d \in Sector
        PROVE  Encrypt(d).value = d.value /\ Decrypt(d).value = d.value
    BY LayerAdded
  <2> QED BY <1>1, <2>1, <2>2
<1>4. CASE device' = device
  BY <1>1, <1>4
<1> QED BY <1>2, <1>3, <1>4, DeviceChanges

LEMMA DataContentStep ==
  ASSUME IInv, Types', [Next]_vars, NEW i \in Irps, NEW s \in Sectors
  PROVE  Content(irp[i].data[s])'
<1>1. Content(irp[i].data[s]) /\ irp[i].data[s] \in Sector
  BY IrpFields DEF IInv, ContentInv, Types
<1>2. CASE Renewed(i)
  BY <1>2 DEF Renewed, Content, NoContent
<1>3. CASE irp'[i].data[s] = irp[i].data[s]
  BY <1>1, <1>3 DEF Content
<1>4. CASE IoFinishRead /\ irp'[i].data[s] = fragment[io.request.buffer].content
  <2>1. io.request.buffer \in Buffers
    BY <1>4, FinishBuffer DEF IInv, IoFinishRead
  <2> QED BY <1>4, <2>1 DEF IInv, ContentInv, Content
<1>5. CASE /\ CompletionDecrypt /\ completion.request.irp = i /\ completion.request.sector = s
           /\ completion.request.encrypted /\ irp[i].status = "ok"
           /\ irp'[i].data[s] = Decrypt(irp[i].data[s])
  <2>1. irp[i].data[s] = [value |-> irp[i].seen[s], layer |-> One(completion.request.encrypted)]
    BY <1>5 DEF CompletionDecrypt, IInv, ReadInv, Fetched
  <2>2. irp[i].data[s].layer = 1
    BY <1>5, <2>1 DEF One
  <2>3. Decrypt(irp[i].data[s]).layer = 0
    BY <1>1, <2>2, LayerAdded
  <2> QED BY <1>5, <2>3 DEF Content
<1>6. CASE MainReadMisaligned /\ main.irp = i /\ irp'[i].data[s] = MisalignedData(i)[s]
  <2>1. MisalignedData(i)[s] = [value |-> MisalignedSeen(i)[s], layer |-> 0]
    BY <1>6, MisalignedShows
  <2> HIDE DEF MisalignedData, MisalignedSeen
  <2>2. MisalignedData(i)[s].layer = 0
    BY <2>1
  <2> QED BY <1>6, <2>2 DEF Content
<1> QED BY <1>2, <1>3, <1>4, <1>5, <1>6, DataSteps DEF DataStep, SectorStep

LEMMA ContentInvStep ==
  ASSUME IInv, Types', [Next]_vars
  PROVE  ContentInv'
<1>1. Content(cache.content)'
  <2>1. CASE cache' = cache
    BY <2>1 DEF IInv, ContentInv, Content
  <2>2. CASE cache' = NoCache
    BY <2>2 DEF Content, NoCache, NoContent
  <2>3. CASE IoReadAhead
    <3>1. PICK s \in Int : s = io.request.sector + 1
      BY IoSector DEF IInv
    <3>2. cache' = NoCache \/ (s \in Sectors /\ cache'.content = device[s])
      BY <2>3, <3>1 DEF IoReadAhead
    <3> QED BY <2>2, <3>2, DeviceContent DEF Content
  <2> QED BY <2>1, <2>2, <2>3, CacheChanges DEF IoFinishWrite, HoldSucceed
<1> QED BY <1>1, FragmentContentStep, DeviceValueStep, DataContentStep DEF ContentInv


-----------------------------------------------------------------------------
(* What the main thread is still to cut.                                   *)

MainCutting == main.pc = "start" \/ MainRequesting

MainMoves ==
  \/ ~MainCutting /\ ~MainCutting'
  \/ /\ MainGetItem /\ main'.pc = "start" /\ main'.irp = main.irp
  \/ main'.pc = main.pc /\ main'.irp = main.irp /\ main'.sector = main.sector
  \/ /\ MainStart /\ MainRequesting' /\ main'.irp = main.irp
     /\ \A s \in irp[main.irp].op.sectors : main'.sector <= s
  \/ /\ MainRequesting /\ MainRequesting'
     /\ main'.irp = main.irp /\ main'.sector = main.sector
  \/ ~MainCutting' /\ (MainRefuse \/ MainReadMisaligned \/ MainQueueFlush)
  \/ /\ MainQueueFragment
     /\ \/ main.request.last /\ ~MainCutting'
        \/ /\ ~main.request.last /\ MainRequesting'
           /\ main'.irp = main.irp /\ main'.sector = main.sector + 1

LEMMA MainMove ==
  ASSUME IInv, [Next]_vars
  PROVE  MainMoves
<1>1. ASSUME NEW i \in Irps, EnqueueIrp(i)
      PROVE  MainMoves
  BY <1>1, EnqueueIrpEffect DEF IInv, MainMoves
<1>2. CASE MainWait
  BY <1>2 DEF IInv, Types, MainWait, MainType, MainMoves, MainCutting, MainRequesting
<1>3. CASE MainNext
  BY <1>3, MainNextEffect DEF MainNext, IInv, MainMoves, MainCutting, MainRequesting
<1>4. CASE MainTestSuspended
  BY <1>4 DEF IInv, Types, MainTestSuspended, MainType, MainMoves, MainCutting, MainRequesting
<1>5. CASE MainResumed
  BY <1>5 DEF IInv, Types, MainResumed, MainType, MainMoves, MainCutting, MainRequesting
<1>6. CASE MainPoolEmpty("item", pool.items, "itemWait")
  BY <1>6 DEF IInv, Types, MainPoolEmpty, MainType, MainMoves, MainCutting, MainRequesting
<1>7. CASE MainPoolWait("itemWait", "item")
  BY <1>7 DEF IInv, Types, MainPoolWait, MainType, MainMoves, MainCutting, MainRequesting
<1>8. CASE MainGetItem
  BY <1>8 DEF IInv, Types, MainGetItem, MainType, MainMoves, MainCutting, MainRequesting
<1>9. CASE MainRefuse
  BY <1>9 DEF IInv, Types, MainRefuse, SetStatus, MainType, MainMoves, MainCutting,
      MainRequesting
<1>10. CASE MainStart
  <2>1. /\ main.irp \in Irps /\ irp[main.irp].op \in Ops
        /\ main'.pc = "request" /\ main'.irp = main.irp
        /\ irp[main.irp].op.kind \in {"read", "write", "flush"}
        /\ irp[main.irp].op.kind # "flush" =>
             \A s \in irp[main.irp].op.sectors : main'.sector <= s
        /\ irp[main.irp].op.kind = "flush" => irp[main.irp].op.sectors = {}
    BY <1>10, MainStartEffect DEF IInv
  <2> QED BY <1>10, <2>1 DEF MainMoves, MainRequesting
<1>11. CASE MainReadMisaligned
  BY <1>11 DEF IInv, Types, MainReadMisaligned, Decrypt, MainType, MainMoves, MainCutting,
      MainRequesting
<1>12. CASE MainComplete
  BY <1>12 DEF IInv, Types, MainComplete, QueueIrpCompletion, MainType, MainMoves, MainCutting,
      MainRequesting
<1>13. CASE MainCountRequest
  BY <1>13, CountRequestEffect DEF IInv, MainMoves, MainCutting, MainRequesting
<1>14. CASE MainPoolEmpty("getRequest", pool.requests, "requestWait")
  BY <1>14 DEF IInv, Types, MainPoolEmpty, MainType, MainMoves, MainCutting, MainRequesting
<1>15. CASE MainPoolWait("requestWait", "getRequest")
  BY <1>15 DEF IInv, Types, MainPoolWait, MainType, MainMoves, MainCutting, MainRequesting
<1>16. CASE MainGetRequest
  BY <1>16, GetRequestEffect DEF IInv, MainMoves, MainCutting, MainRequesting
<1>17. CASE MainQueueFlush
  BY <1>17, MainIdleEffect DEF MainQueueFlush, IInv, Types, MainMoves, MainCutting, MainRequesting
<1>18. CASE MainQueueFragment
  BY <1>18, QueueFragmentEffect DEF IInv, MainMoves, MainCutting, MainRequesting
<1>19. CASE StopThread
  BY <1>19 DEF IInv, Types, StopThread, MoveStop, MainType, MainMoves, MainCutting,
      MainRequesting
<1>20. CASE UNCHANGED <<main>>
  BY <1>20 DEF IInv, MainMoves, MainCutting, MainRequesting
<1> QED
  BY <1>1, <1>2, <1>3, <1>4, <1>5, <1>6, <1>7, <1>8, <1>9, <1>10, <1>11, <1>12, <1>13, <1>14,
      <1>15, <1>16, <1>17, <1>18, <1>19, <1>20, MainChanges


\* A sector of which nobody has seen the value yet.
Unseen(r) == Kind(r.irp) # "flush" => irp[r.irp].seen[r.sector] = NoValue

LEMMA SeenKept ==
  ASSUME IInv, [Next]_vars, NEW i \in Irps, NEW s \in Sectors, irp[i].state = "item",
         IoWrite \/ IoRead => io.request.irp # i \/ io.request.sector # s,
         MainReadMisaligned => main.irp # i
  PROVE  irp'[i].seen[s] = irp[i].seen[s] /\ irp'[i].op = irp[i].op
<1>1. DataStep(i) /\ ~Renewed(i)
  BY DataSteps DEF Renewed
<1> QED BY <1>1 DEF DataStep, SectorStep

LEMMA UnseenKept ==
  ASSUME IInv, [Next]_vars, NEW r \in Requests, IoRequest(r), Unseen(r),
         IoWrite \/ IoRead => io.request.irp # r.irp \/ io.request.sector # r.sector
  PROVE  Unseen(r)'
<1>1. r.irp \in Irps /\ r.sector \in Sectors /\ irp[r.irp].state = "item"
  BY RequestFields DEF IoRequest, InProgress
<1>2. MainReadMisaligned => main.irp # r.irp
  BY DEF MainReadMisaligned, IoRequest, Kind
<1> QED BY <1>1, <1>2, SeenKept DEF Unseen, Kind

LEMMA QueueUnseenStep ==
  ASSUME IInv, Types', [Next]_vars
  PROVE  /\ \A n \in 1 .. Len(io'.queue) : \A r : r = io'.queue[n] => Unseen(r)'
         /\ io'.pc = "perform" => \A r : r = io'.request => Unseen(r)'
<1>1. ASSUME NEW r, NEW m \in 1 .. Len(io.queue), r = io.queue[m]
      PROVE  Unseen(r)'
  <2>1. r \in Requests /\ IoRequest(r) /\ Unseen(r)
    BY <1>1, QueueLengths, ElementType DEF IInv, ServedInv, AccessInv, Unseen
  <2>2. IoBusy => Precedes(io.request, r)
    BY <1>1 DEF IInv, OrderInv, PrecedesAll
  <2>3. r.sector \in Int /\ io.request.sector \in Int
    BY <2>1, RequestFields, SectorsAreIntegers, IoSector DEF IInv
  <2>4. IoWrite \/ IoRead => io.request.irp # r.irp \/ io.request.sector # r.sector
    BY <2>2, <2>3 DEF IoWrite, IoRead, IoBusy, Precedes
  <2> QED BY <2>1, <2>4, UnseenKept
<1>2. ASSUME NEW r, r = main.request, GrowsIoQueue
      PROVE  Unseen(r)'
  <2>1. /\ main.pc \in {"queueFlush", "queueFragment"} /\ irp' = irp
        /\ main.pc = "queueFlush" => Kind(main.irp) = "flush"
    BY <1>2 DEF GrowsIoQueue, MainQueueFlush, MainQueueFragment, IInv, MainInv
  <2>2. main.request.irp = main.irp
    BY <2>1, MainRequestReady
  <2>3. main.pc = "queueFragment" => main.request.sector = main.sector
    BY DEF IInv, RequestInv
  <2>4. main.sector \in Sectors /\ main.sector \in Int
    BY SectorsAreIntegers DEF IInv, Types, MainType
  <2>5. main.pc = "queueFragment" => irp[main.irp].seen[main.sector] = NoValue
    BY <2>4 DEF IInv, AccessInv, MainAhead, MainRequesting
  <2> QED BY <1>2, <2>1, <2>2, <2>3, <2>5 DEF Unseen, Kind
<1>3. ASSUME NEW r, io.pc = "perform", io'.pc = "perform", r = io.request
      PROVE  Unseen(r)'
  <2>1. r \in Requests /\ IoRequest(r) /\ Unseen(r)
    BY <1>3, BusyIrps DEF IInv, ServedInv, AccessInv, Unseen, IoBusy
  <2>2. ~IoWrite /\ ~IoRead
    BY <1>3 DEF IoWrite, IoRead, IInv, Types, IoType
  <2> QED BY <2>1, <2>2, UnseenKept
<1> QED BY <1>1, <1>2, <1>3, IoQueueSteps

LEMMA AheadUnseenStep ==
  ASSUME IInv, Types', [Next]_vars, NEW s \in Sectors, MainAhead(s)'
  PROVE  irp'[main'.irp].seen[s] = NoValue
<1>1. CASE MainGetItem
  <2>1. main.irp \in Irps /\ irp[main.irp].state = "queued"
    BY <1>1 DEF IInv, MainInv, MainGetItem, MainQueued
  <2>2. irp'[main.irp].seen = irp[main.irp].seen /\ main'.irp = main.irp
    BY <1>1, <2>1, OnlyState DEF IInv, Types, MainGetItem, IrpStates, MainType
  <2>3. irp[main.irp].seen[s] = NoValue
    BY <2>1 DEF IInv, FreshInv
  <2> QED BY <2>2, <2>3
<1>2. CASE MainAhead(s) /\ main'.irp = main.irp /\ MainCutting'
  <2>1. irp[main.irp].seen[s] = NoValue
    BY <1>2 DEF IInv, AccessInv
  <2>2. main.irp \in Irps /\ irp[main.irp].state = "item"
    BY <1>2 DEF IInv, MainInv, MainHasItem, MainAhead, InProgress
  <2>3. main.sector \in Int /\ s \in Int /\ io.request.sector \in Int
    BY SectorsAreIntegers, IoSector DEF IInv, Types, MainType
  <2>4. IoWrite \/ IoRead => BeforeMain(io.request)
    BY DEF IInv, BeforeMainInv, IoBusy, IoWrite, IoRead
  <2>5. IoWrite \/ IoRead => io.request.irp # main.irp \/ io.request.sector # s
    BY <1>2, <2>3, <2>4 DEF BeforeMain, MainAhead, MainRequesting
  <2>6. ~MainReadMisaligned
    BY <1>2 DEF MainReadMisaligned, MainCutting, MainRequesting, IInv, Types, MainType
  <2>7. irp'[main.irp].seen[s] = irp[main.irp].seen[s]
    BY <2>2, <2>5, <2>6, SeenKept
  <2> QED BY <1>2, <2>1, <2>7
<1>3. MainCutting'
  BY DEF MainAhead, MainCutting
<1>4. main.sector \in Int /\ s \in Int
  BY SectorsAreIntegers DEF IInv, Types, MainType
<1>5. MainStart => MainAhead(s)
  BY DEF MainStart, MainAhead
<1>6. CASE MainQueueFragment /\ main'.irp = main.irp /\ main'.sector = main.sector + 1
           /\ MainRequesting'
  <2>1. main'.sector <= s
    BY <1>6 DEF MainAhead, MainRequesting
  <2>2. main.pc = "queueFragment"
    BY <1>6 DEF MainQueueFragment
  <2>3. main.sector <= s
    BY <1>4, <1>6, <2>1
  <2> QED BY <1>2, <1>3, <1>6, <2>2, <2>3 DEF MainAhead, MainRequesting
<1>7. CASE \/ main'.pc = main.pc /\ main'.irp = main.irp /\ main'.sector = main.sector
           \/ /\ MainRequesting /\ MainRequesting'
              /\ main'.irp = main.irp /\ main'.sector = main.sector
  <2>1. MainAhead(s)
    BY <1>7 DEF MainAhead, MainRequesting
  <2> QED BY <1>2, <1>3, <1>7, <2>1
<1> QED BY <1>1, <1>2, <1>3, <1>5, <1>6, <1>7, MainMove DEF MainMoves

AccessedSector(i, s) ==
  irp[i].state = "item" /\ irp[i].status = "ok" /\ s \in irp[i].op.sectors =>
    \/ irp[i].seen[s] # NoValue
    \/ MainAhead(s) /\ main.irp = i
    \/ io.pc = "perform" /\ io.request.irp = i /\ io.request.sector = s
    \/ \E n \in 1 .. Len(io.queue) : io.queue[n].irp = i /\ io.queue[n].sector = s

LEMMA AccessedStep ==
  ASSUME IInv, Types', [Next]_vars, NEW i \in Irps, NEW s \in Sectors
  PROVE  AccessedSector(i, s)'
<1> SUFFICES ASSUME irp'[i].state = "item", irp'[i].status = "ok", s \in irp'[i].op.sectors
             PROVE  AccessedSector(i, s)'
  BY DEF AccessedSector
<1>1. DataStep(i) /\ ~Renewed(i)
  BY DataSteps DEF Renewed
<1>2. irp[i].op \in Ops /\ irp'[i].op = irp[i].op /\ Kind(i) # "flush"
  BY <1>1, IrpFields, OpFields DEF DataStep, Kind, IInv, Types
<1>3. irp[i].status = "ok" /\ SectorStep(i, s)
  BY <1>1, <1>2 DEF DataStep
<1>4. irp[i].state = "item" \/ (MainGetItem /\ i = main.irp)
  BY IrpSteps DEF IrpStep
<1>5. device[s].value # NoValue /\ irp[i].op.value # NoValue
  BY <1>2, OpFields, NoneAssumption DEF IInv, ContentInv
<1>6. MisalignedSeen(i)[s] = device[s].value
  BY <1>2 DEF MisalignedSeen
<1>7. CASE irp[i].seen[s] # NoValue
  BY <1>3, <1>5, <1>6, <1>7 DEF SectorStep, AccessedSector
<1>8. CASE MainGetItem /\ i = main.irp
  BY <1>8, MainMove DEF MainMoves, AccessedSector, MainAhead, MainCutting, MainRequesting,
      MainGetItem,
        IInv, Types, MainType
<1>9. CASE MainAhead(s) /\ main.irp = i
  <2> SUFFICES
            \/ MainAhead(s)' /\ main'.irp = i
            \/ irp'[i].seen[s] # NoValue
            \/ \E n \in 1 .. Len(io'.queue) : io'.queue[n].irp = i /\ io'.queue[n].sector = s
    BY DEF AccessedSector
  <2>1. MainCutting
    BY <1>9 DEF MainAhead, MainCutting
  <2>2. ~MainGetItem
    BY <2>1 DEF MainCutting, MainRequesting, MainGetItem
  <2>3. CASE \/ main'.pc = main.pc /\ main'.irp = main.irp /\ main'.sector = main.sector
             \/ /\ MainRequesting /\ MainRequesting'
                /\ main'.irp = main.irp /\ main'.sector = main.sector
    BY <1>9, <2>3 DEF MainAhead, MainRequesting
  <2>4. CASE /\ MainRequesting' /\ main'.irp = main.irp
             /\ \A t \in irp[main.irp].op.sectors : main'.sector <= t
    <3>1. main'.sector <= s /\ main'.sector \in Int /\ s \in Int
      BY <1>2, <1>9, <2>4, SectorsAreIntegers DEF Types, MainType
    <3> QED BY <1>9, <2>4, <3>1 DEF MainAhead
  <2>5. CASE MainRefuse
    <3>1. irp'[i].status = "error"
      BY <1>9, <2>5, OnlyStatus DEF MainRefuse, IInv, Types
    <3> QED BY <3>1
  <2>6. CASE MainReadMisaligned
    <3>1. irp'[i].seen[s] = MisalignedSeen(i)[s]
      BY <1>9, <2>6, MainReadMisalignedEffect DEF IInv
    <3> QED BY <1>5, <1>6, <3>1
  <2>7. CASE MainQueueFlush
    BY <1>2, <1>9, <2>7 DEF MainQueueFlush, IInv, MainInv
  <2>8. CASE MainQueueFragment
    <3>1. /\ main.request.irp = i /\ main.request.sector = main.sector
          /\ main.request.last = IsLast(main.sector, irp[i].op.sectors)
      BY <1>9, <2>8, QueueFragmentEffect DEF IInv
    <3>2. main.sector \in Int /\ s \in Int /\ main.sector <= s
      BY <1>9, <2>8, SectorsAreIntegers DEF IInv, Types, MainType, MainAhead, MainQueueFragment
    <3>3. CASE s = main.sector
      BY <2>8, <3>1, <3>3, IoQueueSteps DEF GrowsIoQueue
    <3>4. CASE s # main.sector
      <4>1. ~main.request.last
        BY <1>2, <3>1, <3>2, <3>4 DEF IsLast
      <4>2. MainRequesting' /\ main'.irp = i /\ main'.sector = main.sector + 1
        BY <1>9, <2>8, <4>1, QueueFragmentEffect DEF IInv, MainRequesting
      <4>3. s >= main'.sector
        BY <3>2, <3>4, <4>2
      <4> QED BY <4>2, <4>3 DEF MainAhead
    <3> QED BY <3>3, <3>4
  <2> QED BY <2>1, <2>2, <2>3, <2>4, <2>5, <2>6, <2>7, <2>8, MainMove DEF MainMoves
<1>10. CASE io.pc = "perform" /\ io.request.irp = i /\ io.request.sector = s
  <2> SUFFICES irp'[i].seen[s] # NoValue
            \/ (io'.pc = "perform" /\ io'.request = io.request)
    BY <1>10 DEF AccessedSector
  <2>1. ~IoSkip
    BY <1>3, <1>10 DEF IoSkip
  <2>2. ~IoFail
    <3>1. IoFail => irp'[i].status = "error"
      BY <1>10, OnlyStatus DEF IoFail, IInv, Types
    <3> QED BY <3>1
  <2>3. ~IoFlush
    BY <1>2, <1>10 DEF IoFlush, IoKind, Kind
  <2>4. irp[i].seen \in [Sectors -> Values \cup {NoValue}]
    BY IrpFields DEF IInv, Types
  <2>5. IoWrite => irp'[i].seen[s] = irp[i].op.value
    BY <1>10, <2>4, IoWriteEffect DEF IInv
  <2>6. IoRead => irp'[i].seen[s] = device[s].value
    BY <1>10, <2>4, IoReadEffect DEF IInv
  <2> QED BY <1>5, <1>10, <2>1, <2>2, <2>3, <2>5, <2>6, IoMove DEF IoMoves
<1>11. CASE \E n \in 1 .. Len(io.queue) : io.queue[n].irp = i /\ io.queue[n].sector = s
  BY <1>11, IoQueueSteps DEF AccessedSector
<1>12. irp[i].state = "item" => AccessedSector(i, s)
  BY DEF IInv, AccessInv, AccessedSector
<1> QED BY <1>2, <1>3, <1>4, <1>7, <1>8, <1>9, <1>10, <1>11, <1>12 DEF AccessedSector

LEMMA AccessInvStep ==
  ASSUME IInv, Types', [Next]_vars
  PROVE  AccessInv'
<1>1. \A i \in Irps, s \in Sectors : AccessedSector(i, s)'
  BY AccessedStep
<1>2. \A s \in Sectors : MainAhead(s)' => irp'[main'.irp].seen[s] = NoValue
  BY AheadUnseenStep
<1> QED BY <1>1, <1>2, QueueUnseenStep DEF AccessInv, AccessedSector, Unseen, Kind


-----------------------------------------------------------------------------
(* The invariant holds at first, and every step keeps it.                  *)

LEMMA InitTypes ==
  ASSUME Init
  PROVE  Types
<1>1. IrpType
  BY FreeIrpFields DEF Init, IrpType
<1>2. GateType /\ ActiveType /\ HoldType /\ StopType
  BY DEF Init, GateType, ActiveType, HoldType, StopType, HoldPcs, StopPcs
<1>3. MainType
  BY NoRequestType DEF Init, MainType, MainPcs
<1>4. IoType /\ CompletionType
  BY NoRequestType DEF Init, IoType, CompletionType, IoPcs, CompletionPcs
<1>5. PoolType
  BY PoolAssumption DEF Init, PoolType
<1>6. FragmentType
  BY NoContentType DEF Init, FragmentType
<1>7. CacheType
  BY NoCacheType DEF Init, CacheType
<1>8. WorkType
  BY DEF Init, WorkType, WorkPcs
<1>9. EndType
  BY StoredAssumption DEF Init, EndType
<1>10. DeviceType
  <2>1. PICK v \in Stored :
          device = [s \in Sectors |->
                      [value |-> v[s], layer |-> IF InEncryptedArea(s) THEN 1 ELSE 0]]
    BY DEF Init
  <2>2. v \in [Sectors -> Values]
    BY StoredAssumption
  <2> QED BY <2>1, <2>2 DEF DeviceType, Sector
<1> QED BY <1>1, <1>2, <1>3, <1>4, <1>5, <1>6, <1>7, <1>8, <1>9, <1>10 DEF Types

LEMMA InitControl ==
  ASSUME Init
  PROVE  /\ GateInv /\ EndInv /\ MainInv /\ RequestInv /\ ServedInv /\ WorkInv
         /\ OrderInv /\ BeforeMainInv /\ BufferInv /\ StopInv /\ HeldQueueIsQuiet
<1>1. /\ main.pc = "wait" /\ main.irp = NoIrp /\ main.queue = <<>>
      /\ io.pc = "wait" /\ io.queue = <<>> /\ completion.pc = "wait" /\ completion.queue = <<>>
      /\ hold = "idle" /\ stop = "idle"
  BY DEF Init
<1>2. Len(main.queue) = 0 /\ Len(io.queue) = 0 /\ Len(completion.queue) = 0
  BY <1>1
<1>3. \A k \in WorkItems : work[k].pc = "free"
  BY DEF Init
<1>4. \A b \in Buffers : fragment[b].free
  BY DEF Init
<1>5. GateInv /\ EndInv /\ StopInv
  BY <1>1 DEF Init, GateInv, EndInv, StopInv, IsHeld, Stopped
<1>6. ~MainQueued /\ ~MainHasItem /\ ~MainRequesting /\ ~IoBusy /\ ~CompletionBusy
  BY <1>1 DEF MainQueued, MainHasItem, MainRequesting, IoBusy, CompletionBusy
<1>7. MainInv
  BY <1>1, <1>2, <1>6 DEF MainInv
<1>8. RequestInv /\ ServedInv /\ OrderInv /\ BeforeMainInv
  BY <1>1, <1>2, <1>6
     DEF RequestInv, ServedInv, OrderInv, BeforeMainInv, InOrder
<1>9. WorkInv
  BY <1>3 DEF WorkInv, Completing
<1>10. BufferInv
  BY <1>1, <1>2, <1>4 DEF BufferInv, IoHasBuffer
<1>11. HeldQueueIsQuiet
  BY <1>1 DEF HeldQueueIsQuiet, IsHeld
<1> QED BY <1>5, <1>7, <1>8, <1>9, <1>10, <1>11

LEMMA InitCounters ==
  ASSUME Init
  PROVE  OutstandingInv /\ ActiveInv /\ PendingInv /\ RequestPoolInv /\ ItemPoolInv
<1>1. Counted = {} /\ ItemIrps = {}
  <2>1. \A i \in Irps : irp[i].state = "free"
    BY FreeIrpFields DEF Init
  <2> QED BY <2>1 DEF Counted, IsCounted, ItemIrps
<1>2. ActiveWork = {} /\ LateWork = {}
  BY DEF Init, ActiveWork, IsActive, LateWork
<1>3. Cardinality({}) = 0
  BY FS_EmptySet
<1>4. /\ main.pc = "wait" /\ io.pc = "wait" /\ completion.pc = "wait"
      /\ Len(io.queue) = 0 /\ Len(completion.queue) = 0 /\ io.pending = 0
      /\ gate.outstanding = 0 /\ active.count = 0 /\ active.returning = 0
      /\ pool.items = ItemCount /\ pool.requests = RequestCount
  BY DEF Init
<1>5. /\ ReadsAhead = 0 /\ MainCounts = 0 /\ MainHolds = 0 /\ IoHolds = 0
      /\ CompletionHolds = 0
  BY <1>4 DEF ReadsAhead, MainCounts, MainHolds, IoHolds, CompletionHolds, IoBusy,
              CompletionBusy, One
<1> QED BY <1>1, <1>2, <1>3, <1>4, <1>5, PoolAssumption
        DEF OutstandingInv, ActiveInv, PendingInv, RequestPoolInv, ItemPoolInv

LEMMA InitContents ==
  ASSUME Init
  PROVE  /\ DiskMatchesArea /\ WriteInv /\ CacheInv /\ ReadInv /\ AccessInv /\ FreshInv
         /\ ContentInv
<1>1. /\ main.pc = "wait" /\ io.pc = "wait" /\ completion.pc = "wait" /\ hold = "idle"
      /\ Len(io.queue) = 0 /\ Len(completion.queue) = 0 /\ cache = NoCache
  BY DEF Init
<1>2. \A i \in Irps : irp[i] = FreeIrp
  BY DEF Init
<1>3. \A i \in Irps, s \in Sectors :
        irp[i].state = "free" /\ irp[i].seen[s] = NoValue /\ irp[i].data[s] = NoContent
  BY <1>2, FreeIrpFields
<1>4. PICK v \in Stored :
        device = [s \in Sectors |->
                    [value |-> v[s], layer |-> IF InEncryptedArea(s) THEN 1 ELSE 0]]
  BY DEF Init
<1>5. v \in [Sectors -> Values]
  BY <1>4, StoredAssumption
<1>6. DiskMatchesArea
  BY <1>1, <1>4 DEF DiskMatchesArea
<1>7. WriteInv /\ CacheInv
  BY <1>1 DEF WriteInv, CacheInv, NoCache
<1>8. ReadInv
  BY <1>1, <1>3 DEF ReadInv, Shows, NoContent
<1>9. AccessInv
  BY <1>1, <1>3 DEF AccessInv, MainAhead, MainRequesting
<1>10. FreshInv
  <2>1. \A i \in Irps : irp[i].state = "free"
    BY <1>2, FreeIrpFields
  <2> QED BY <1>3, <2>1 DEF FreshInv
<1>11. ContentInv
  <2>1. \A b \in Buffers : fragment[b].content = NoContent
    BY DEF Init
  <2>2. Content(NoContent) /\ NoCache.content = NoContent
    BY DEF Content, NoContent, NoCache
  <2>3. \A s \in Sectors : device[s].value \in Values
    BY <1>4, <1>5
  <2> QED BY <1>1, <1>3, <2>1, <2>2, <2>3 DEF ContentInv
<1> QED BY <1>6, <1>7, <1>8, <1>9, <1>10, <1>11

LEMMA InvInit ==
  ASSUME Init
  PROVE  IInv
BY InitTypes, InitControl, InitCounters, InitContents DEF IInv

LEMMA InvStep ==
  ASSUME IInv, [Next]_vars
  PROVE  IInv'
<1>1. Types'
  BY TypesStep
<1>2. /\ GateInv' /\ EndInv' /\ MainInv' /\ RequestInv' /\ ServedInv' /\ WorkInv'
      /\ OrderInv' /\ BeforeMainInv' /\ BufferInv'
  BY <1>1, GateInvStep, EndInvStep, MainInvStep, RequestInvStep, ServedInvStep,
     WorkInvStep, OrderInvStep, BeforeMainInvStep, BufferInvStep
<1>3. /\ OutstandingInv' /\ ActiveInv' /\ PendingInv' /\ RequestPoolInv' /\ ItemPoolInv'
      /\ StopInv'
  BY <1>1, OutstandingInvStep, ActiveInvStep, PendingInvStep, RequestPoolInvStep,
     ItemPoolInvStep, StopInvStep
<1>4. HeldQueueIsQuiet' /\ DiskMatchesArea'
  BY <1>1, HeldQueueIsQuietStep, DiskMatchesAreaStep
<1>5. WriteInv' /\ CacheInv' /\ ReadInv' /\ AccessInv' /\ FreshInv' /\ ContentInv'
  BY <1>1, WriteInvStep, CacheInvStep, ReadInvStep, AccessInvStep, FreshInvStep,
     ContentInvStep
<1> QED BY <1>1, <1>2, <1>3, <1>4, <1>5 DEF IInv

-----------------------------------------------------------------------------
(* What the invariant says of the queue.                                   *)

\* OutstandingIoCount counts each IRP once and the read-ahead, and no counter
\* leaves the range of what it counts.
LEMMA CounterBounds ==
  ASSUME IInv
  PROVE  /\ gate.outstanding \in 0 .. Cardinality(Irps) + 1
         /\ io.pending \in 0 .. RequestCount + 1
         /\ pool.items \in 0 .. ItemCount /\ pool.requests \in 0 .. RequestCount
         /\ active.count \in 0 .. Cardinality(WorkItems) /\ active.returning \in 0 .. ItemCount
<1>1. /\ Cardinality(Counted) \in Nat /\ Cardinality(ItemIrps) \in Nat
      /\ Cardinality(ActiveWork) \in Nat /\ Cardinality(LateWork) \in Nat
  BY FiniteParts
<1>2. Cardinality(Irps) \in Nat /\ Cardinality(Counted) <= Cardinality(Irps)
  BY IrpsAssumption, FS_Subset, FS_CardinalityType DEF Counted
<1>3. Cardinality(WorkItems) \in Nat /\ Cardinality(ActiveWork) <= Cardinality(WorkItems)
  BY PoolAssumption, FS_Subset, FS_CardinalityType DEF ActiveWork
<1>4. ReadsAhead \in 0 .. 1 /\ MainCounts \in 0 .. 1 /\ MainHolds \in 0 .. 1
      /\ IoHolds \in 0 .. 1 /\ CompletionHolds \in 0 .. 1
  BY DEF ReadsAhead, MainCounts, MainHolds, IoHolds, CompletionHolds, One
<1>5. Len(io.queue) \in Nat /\ Len(completion.queue) \in Nat
  BY QueueLengths DEF IInv
<1>6. pool.requests \in Int /\ pool.items \in Int /\ active.returning \in Int
  BY QueueLengths DEF IInv
<1>7. RequestCount \in Nat /\ ItemCount \in Nat
  BY PoolAssumption
<1> HIDE DEF Counted, ItemIrps, ActiveWork, LateWork, ReadsAhead, MainCounts, MainHolds,
             IoHolds, CompletionHolds
<1>8. gate.outstanding = Cardinality(Counted) + ReadsAhead
  BY DEF IInv, OutstandingInv
<1>9. active.count = Cardinality(ActiveWork) /\ io.pending = Len(io.queue) + MainCounts
  BY DEF IInv, ActiveInv, PendingInv
<1>10. /\ pool.requests >= 0
       /\ RequestCount = pool.requests + Len(io.queue) + Len(completion.queue)
                           + MainHolds + IoHolds + CompletionHolds
  BY DEF IInv, RequestPoolInv
<1>11. /\ pool.items >= 0 /\ active.returning >= 0
       /\ ItemCount = pool.items + Cardinality(ItemIrps) + Cardinality(LateWork)
                        + active.returning
  BY DEF IInv, ItemPoolInv
<1>12. pool.requests <= RequestCount /\ Len(io.queue) <= RequestCount
  <2>1. ASSUME NEW p \in Nat, NEW q \in Nat, NEW c \in Nat, NEW m \in Nat, NEW i \in Nat,
               NEW h \in Nat
        PROVE  p <= p + q + c + m + i + h /\ q <= p + q + c + m + i + h
    OBVIOUS
  <2>2. pool.requests \in Nat /\ MainHolds \in Nat /\ IoHolds \in Nat /\ CompletionHolds \in Nat
    BY <1>4, <1>6, <1>10
  <2>3. PICK n \in Nat : n = RequestCount
    BY <1>7
  <2>4. n = pool.requests + Len(io.queue) + Len(completion.queue)
              + MainHolds + IoHolds + CompletionHolds
    BY <1>10, <2>3
  <2>5. pool.requests <= n /\ Len(io.queue) <= n
    BY <1>5, <2>1, <2>2, <2>4
  <2> QED BY <2>3, <2>5
<1>13. pool.items <= ItemCount /\ active.returning <= ItemCount
  BY <1>1, <1>6, <1>7, <1>11
<1>14. gate.outstanding \in 0 .. Cardinality(Irps) + 1
  BY <1>1, <1>2, <1>4, <1>8
<1>15. active.count \in 0 .. Cardinality(WorkItems)
  BY <1>1, <1>3, <1>9
<1>16. io.pending \in 0 .. RequestCount + 1
  BY <1>4, <1>5, <1>7, <1>9, <1>12
<1> QED BY <1>6, <1>7, <1>10, <1>11, <1>12, <1>13, <1>14, <1>15, <1>16

LEMMA InvTypeOK ==
  ASSUME IInv
  PROVE  TypeOK
<1>1. ASSUME NEW c \in Sector, Content(c)
      PROVE  c \in Contents
  BY <1>1 DEF Sector, Contents, Content
<1>2. \A i \in Irps :
        /\ irp[i].state \in {"free", "counted", "accepted", "queued", "item", "completed"}
        /\ irp[i].op \in Ops /\ irp[i].status \in {"ok", "error"}
        /\ irp[i].seen \in [Sectors -> Values \cup {NoValue}]
  BY IrpFields DEF IInv, Types, IrpStates
<1>3. ASSUME NEW i \in Irps
      PROVE  irp[i].data \in [Sectors -> Contents]
  <2>1. irp[i].data \in [Sectors -> Sector]
    BY IrpFields DEF IInv, Types
  <2>2. \A s \in Sectors : Content(irp[i].data[s])
    BY DEF IInv, ContentInv
  <2> QED BY <1>1, <2>1, <2>2
<1>4. main.request \in Requests /\ io.request \in Requests /\ completion.request \in Requests
  BY QueueLengths, BusyIrps DEF IInv
<1>5. fragment \in [Buffers -> [free : BOOLEAN, content : Contents]]
  <2>1. ASSUME NEW b \in Buffers
        PROVE  fragment[b] \in [free : BOOLEAN, content : Contents]
    <3>1. fragment[b] \in [free : BOOLEAN, content : Sector] /\ Content(fragment[b].content)
      BY DEF IInv, Types, FragmentType, ContentInv
    <3>2. PICK x \in BOOLEAN, c \in Sector : fragment[b] = [free |-> x, content |-> c]
      BY <3>1
    <3>3. c \in Contents
      BY <1>1, <3>1, <3>2
    <3> QED BY <3>2, <3>3
  <2> QED BY <2>1 DEF IInv, Types, FragmentType
<1>6. cache \in [valid : BOOLEAN, sector : Sectors, content : Contents]
  <2>1. PICK x \in BOOLEAN, s \in Sectors, c \in Sector :
          cache = [valid |-> x, sector |-> s, content |-> c]
    BY DEF IInv, Types, CacheType
  <2>2. c \in Contents
    BY <1>1, <2>1 DEF IInv, ContentInv
  <2> QED BY <2>1, <2>2
<1>7. device \in [Sectors -> Contents]
  <2>1. device \in [Sectors -> Sector]
    BY DEF IInv, Types, DeviceType
  <2> QED BY <1>1, <2>1, DeviceContent
<1>8. encryptedEnd \in {-1} \cup Sectors
  BY DEF IInv, Types, EndType
<1> QED BY <1>2, <1>3, <1>4, <1>5, <1>6, <1>7, <1>8, CounterBounds DEF TypeOK

LEMMA InvNoUse ==
  ASSUME IInv
  PROVE  NoUseAfterCompletion
<1> SUFFICES ASSUME NEW k \in WorkItems, Completing(k)
             PROVE  /\ irp[work[k].irp].state = "item" /\ ~IsUnderWay(work[k].irp)
                    /\ \A j \in WorkItems :
                         Completing(j) /\ work[j].irp = work[k].irp => j = k
  BY DEF NoUseAfterCompletion
<1>1. /\ work[k].irp \in Irps /\ irp[work[k].irp].state = "item"
      /\ \A j \in WorkItems : Completing(j) /\ work[j].irp = work[k].irp => j = k
  BY DEF IInv, WorkInv
<1>2. ~InProgress(work[k].irp)
  BY DEF InProgress
<1>3. main.irp # work[k].irp
  <2>1. CASE MainHasItem
    BY <1>2, <2>1 DEF IInv, MainInv
  <2>2. CASE MainQueued
    BY <1>1, <2>2 DEF IInv, MainInv
  <2>3. CASE ~(MainQueued \/ MainHasItem)
    BY <1>1, <2>3, NoneAssumption DEF IInv, MainInv
  <2> QED BY <2>1, <2>2, <2>3
<1>4. /\ IoBusy => io.request.irp # work[k].irp
      /\ \A n \in 1 .. Len(io.queue) : io.queue[n].irp # work[k].irp
  BY <1>2 DEF IInv, ServedInv, IoRequest
<1>5. /\ CompletionBusy => completion.request.irp # work[k].irp
      /\ \A n \in 1 .. Len(completion.queue) : completion.queue[n].irp # work[k].irp
  BY <1>2 DEF IInv, ServedInv, CompletionRequest
<1>6. DOMAIN io.queue = 1 .. Len(io.queue)
      /\ DOMAIN completion.queue = 1 .. Len(completion.queue)
  BY QueueLengths DEF IInv
<1> QED BY <1>1, <1>3, <1>4, <1>5, <1>6 DEF IsUnderWay, IoBusy, CompletionBusy

LEMMA InvStopCompletes ==
  ASSUME IInv
  PROVE  StopCompletesIrps
<1> SUFFICES ASSUME stop = "freed", NEW i \in Irps, Live(i)
             PROVE  FALSE
  BY DEF StopCompletesIrps
<1>1. gate.threadExit /\ active.count = 0
  BY DEF IInv, GateInv, Stopped, StopInv
<1>2. i \notin Counted
  BY <1>1 DEF IInv, StopInv, Live
<1>3. PICK k \in WorkItems : work[k].pc = "completeIrp"
  BY <1>2 DEF Counted, IsCounted, Live
<1>4. k \in ActiveWork /\ IsFiniteSet(ActiveWork)
  BY <1>3, FiniteParts DEF ActiveWork, IsActive
<1>5. Cardinality(ActiveWork) # 0
  BY <1>4, FS_EmptySet
<1> QED BY <1>1, <1>5 DEF IInv, ActiveInv

-----------------------------------------------------------------------------
(* The results.                                                            *)

\* The inductive invariant of the queue.
THEOREM Invariant == Spec => []IInv
<1>1. Init => IInv
  BY InvInit
<1>2. IInv /\ [Next]_vars => IInv'
  BY InvStep
<1> QED BY <1>1, <1>2, PTL DEF Spec

\* Every counter stays in the range of what it counts, for any number of IRPs, work
\* items and preallocated buffers: OutstandingIoCount counts each IRP once and the
\* read-ahead, IoThreadPendingRequestCount each request once and one to come, and a
\* pool never has more free buffers than it was made with.
THEOREM TypeCorrect == Spec => []TypeOK
<1>1. IInv => TypeOK
  BY InvTypeOK
<1> QED BY <1>1, Invariant, PTL

\* Once an IRP is handed to a work item the three threads of the queue are through
\* with its item and its buffer, and no second work item gets it.
THEOREM CompletionIsLast == Spec => []NoUseAfterCompletion
<1>1. IInv => NoUseAfterCompletion
  BY InvNoUse
<1> QED BY <1>1, Invariant, PTL

\* Between EncryptedIoQueueHoldWhenIdle's success and EncryptedIoQueueResumeFromHold
\* no thread of the queue touches the device, a fragment or the read-ahead buffer.
THEOREM HoldIsQuiet == Spec => []HeldQueueIsQuiet
<1>1. IInv => HeldQueueIsQuiet
  BY DEF IInv
<1> QED BY <1>1, Invariant, PTL

\* The area that the queue decrypts is the area that is encrypted, whatever the
\* holders convert and the senders write.
THEOREM AreaIsRight == Spec => []DiskMatchesArea
<1>1. IInv => DiskMatchesArea
  BY DEF IInv
<1> QED BY <1>1, Invariant, PTL

\* When EncryptedIoQueueStop frees what the queue owns no accepted IRP is left.
THEOREM StopLeavesNone == Spec => []StopCompletesIrps
<1>1. IInv => StopCompletesIrps
  BY InvStopCompletes
<1> QED BY <1>1, Invariant, PTL

-----------------------------------------------------------------------------
(* Refinement: every step of EncryptedIoQueue is a step of PlainDisk, under *)
(* the mapping that EncryptedIoQueue's instance Plain gives, or changes    *)
(* nothing that a sender can see.                                          *)

\* What PlainDisk sees of IRP i.
AccessOf(i) ==
  IF Succeeded(i) /\ irp[i].op.kind \in {"read", "misaligned"}
  THEN Returned(i) ELSE irp[i].seen

SameRest(i) ==
  irp'[i].op = irp[i].op /\ AccessOf(i)' = AccessOf(i)
SameOutcome(i) == Succeeded(i)' = Succeeded(i)
Same(i) == IrpPhase(i)' = IrpPhase(i) /\ SameRest(i) /\ SameOutcome(i)
SameDisk == \A s \in Sectors : device'[s].value = device[s].value
OthersSame(i) == \A j \in Irps : j # i => Same(j)

-----------------------------------------------------------------------------
(* The steps of the plain disk, IRP by IRP.                                *)

LEMMA Stutters ==
  ASSUME SameDisk, \A i \in Irps : Same(i)
  PROVE  UNCHANGED Plain!vars
<1>1. [s \in Sectors |-> device[s].value]' = [s \in Sectors |-> device[s].value]
  BY DEF SameDisk
<1>2. [i \in Irps |-> IrpPhase(i)]' = [i \in Irps |-> IrpPhase(i)]
  BY DEF Same
<1>3. [i \in Irps |-> irp[i].op]' = [i \in Irps |-> irp[i].op]
  BY DEF Same, SameRest
<1>4. [i \in Irps |-> AccessOf(i)]' = [i \in Irps |-> AccessOf(i)]
  BY DEF Same, SameRest
<1>5. [i \in Irps |-> Succeeded(i)]' = [i \in Irps |-> Succeeded(i)]
  BY DEF Same, SameOutcome
<1> QED BY <1>1, <1>2, <1>3, <1>4, <1>5 DEF Plain!vars, AccessOf

LEMMA Issues ==
  ASSUME SameDisk, NEW i \in Irps, NEW o \in Ops, OthersSame(i),
         IrpPhase(i) = "free", IrpPhase(i)' = "pending", irp'[i].op = o,
         AccessOf(i)' = AccessOf(i), SameOutcome(i)
  PROVE  Plain!Next
<1>1. [s \in Sectors |-> device[s].value]' = [s \in Sectors |-> device[s].value]
  BY DEF SameDisk
<1>2. [j \in Irps |-> IrpPhase(j)]' = [[j \in Irps |-> IrpPhase(j)] EXCEPT ![i] = "pending"]
  BY DEF Same, OthersSame
<1>3. [j \in Irps |-> irp[j].op]' = [[j \in Irps |-> irp[j].op] EXCEPT ![i] = o]
  BY DEF Same, SameRest, OthersSame
<1>4. [j \in Irps |-> AccessOf(j)]' = [j \in Irps |-> AccessOf(j)]
  BY DEF Same, SameRest, OthersSame
<1>5. [j \in Irps |-> Succeeded(j)]' = [j \in Irps |-> Succeeded(j)]
  BY DEF Same, SameOutcome, OthersSame
<1>6. Plain!Issue(i, o)
  BY <1>1, <1>2, <1>3, <1>4, <1>5 DEF Plain!Issue, AccessOf
<1> QED BY <1>6 DEF Plain!Next

\* Sector s of IRP i is accessed, and no other.
LEMMA Accesses ==
  ASSUME NEW i \in Irps, NEW S \in SUBSET Sectors, OthersSame(i),
         IrpPhase(i) = "pending", IrpPhase(i)' = IrpPhase(i),
         irp'[i].op = irp[i].op, SameOutcome(i),
         S \subseteq irp[i].op.sectors, \A s \in S : AccessOf(i)[s] = NoValue,
         \/ /\ irp[i].op.kind = "write"
            /\ \A s \in Sectors :
                 device'[s].value = IF s \in S THEN irp[i].op.value ELSE device[s].value
            /\ AccessOf(i)' =
                 [s \in Sectors |-> IF s \in S THEN irp[i].op.value ELSE AccessOf(i)[s]]
         \/ /\ irp[i].op.kind \in {"read", "misaligned"} /\ SameDisk
            /\ AccessOf(i)' =
                 [s \in Sectors |-> IF s \in S THEN device[s].value ELSE AccessOf(i)[s]]
  PROVE  Plain!Next
<1>1. [j \in Irps |-> IrpPhase(j)]' = [j \in Irps |-> IrpPhase(j)]
  BY DEF Same, OthersSame
<1>2. [j \in Irps |-> irp[j].op]' = [j \in Irps |-> irp[j].op]
  BY DEF Same, SameRest, OthersSame
<1>3. [j \in Irps |-> Succeeded(j)]' = [j \in Irps |-> Succeeded(j)]
  BY DEF Same, SameOutcome, OthersSame
<1>4. [j \in Irps |-> AccessOf(j)]' = [[j \in Irps |-> AccessOf(j)] EXCEPT ![i] = AccessOf(i)']
  BY DEF Same, SameRest, OthersSame
<1>5. Plain!Write(i, S) \/ Plain!Read(i, S) => Plain!Next
  <2>1. ASSUME Plain!Write(i, S) \/ Plain!Read(i, S)
        PROVE  Plain!Access(i, S)
    BY <1>1, <1>2, <1>3, <2>1 DEF Plain!Access, AccessOf
  <2> QED BY <2>1 DEF Plain!Next
<1>6. CASE /\ irp[i].op.kind = "write"
           /\ \A s \in Sectors :
                device'[s].value = IF s \in S THEN irp[i].op.value ELSE device[s].value
           /\ AccessOf(i)' =
                [s \in Sectors |-> IF s \in S THEN irp[i].op.value ELSE AccessOf(i)[s]]
  <2>1. [s \in Sectors |-> device[s].value]' =
          [s \in Sectors |-> IF s \in S THEN irp[i].op.value
                             ELSE [t \in Sectors |-> device[t].value][s]]
    BY <1>6
  <2>2. [j \in Irps |-> AccessOf(j)]' =
          [[j \in Irps |-> AccessOf(j)] EXCEPT
             ![i] = [s \in Sectors |-> IF s \in S THEN irp[i].op.value ELSE @[s]]]
    BY <1>4, <1>6
  <2>3. Plain!Write(i, S)
    BY <1>6, <2>1, <2>2 DEF Plain!Write, AccessOf
  <2> QED BY <1>5, <2>3
<1>7. CASE /\ irp[i].op.kind \in {"read", "misaligned"} /\ SameDisk
           /\ AccessOf(i)' =
                [s \in Sectors |-> IF s \in S THEN device[s].value ELSE AccessOf(i)[s]]
  <2>1. [s \in Sectors |-> device[s].value]' = [s \in Sectors |-> device[s].value]
    BY <1>7 DEF SameDisk
  <2>2. [j \in Irps |-> AccessOf(j)]' =
          [[j \in Irps |-> AccessOf(j)] EXCEPT
             ![i] = [s \in Sectors |-> IF s \in S THEN [t \in Sectors |-> device[t].value][s]
                                       ELSE @[s]]]
    BY <1>4, <1>7
  <2>3. Plain!Read(i, S)
    BY <1>7, <2>1, <2>2 DEF Plain!Read, AccessOf
  <2> QED BY <1>5, <2>3
<1> QED BY <1>6, <1>7

LEMMA Finishes ==
  ASSUME SameDisk, NEW i \in Irps, NEW ok \in BOOLEAN, OthersSame(i),
         IrpPhase(i) = "pending", IrpPhase(i)' = "completed", SameRest(i),
         Succeeded(i)' = ok,
         ok => \A s \in irp[i].op.sectors : AccessOf(i)[s] # NoValue
  PROVE  Plain!Next
<1>1. [s \in Sectors |-> device[s].value]' = [s \in Sectors |-> device[s].value]
  BY DEF SameDisk
<1>2. [j \in Irps |-> IrpPhase(j)]' = [[j \in Irps |-> IrpPhase(j)] EXCEPT ![i] = "completed"]
  BY DEF Same, OthersSame
<1>3. [j \in Irps |-> irp[j].op]' = [j \in Irps |-> irp[j].op]
  BY DEF Same, SameRest, OthersSame
<1>4. [j \in Irps |-> AccessOf(j)]' = [j \in Irps |-> AccessOf(j)]
  BY DEF Same, SameRest, OthersSame
<1>5. [j \in Irps |-> Succeeded(j)]' = [[j \in Irps |-> Succeeded(j)] EXCEPT ![i] = ok]
  BY DEF Same, SameOutcome, OthersSame
<1>6. Plain!Finish(i, ok)
  BY <1>1, <1>2, <1>3, <1>4, <1>5 DEF Plain!Finish, AccessOf
<1>7. CASE ok = TRUE
  <2>1. Plain!Succeed(i)
    BY <1>6, <1>7 DEF Plain!Succeed, AccessOf
  <2> QED BY <2>1 DEF Plain!Next
<1>8. CASE ok = FALSE
  <2>1. Plain!Fail(i)
    BY <1>6, <1>8 DEF Plain!Fail
  <2> QED BY <2>1 DEF Plain!Next
<1> QED BY <1>7, <1>8

LEMMA Collects ==
  ASSUME SameDisk, NEW i \in Irps, OthersSame(i),
         IrpPhase(i) = "completed", IrpPhase(i)' = "free", irp'[i].op \in Ops,
         AccessOf(i)' = [s \in Sectors |-> NoValue], Succeeded(i)' = FALSE
  PROVE  Plain!Next
<1>1. [s \in Sectors |-> device[s].value]' = [s \in Sectors |-> device[s].value]
  BY DEF SameDisk
<1>2. [j \in Irps |-> IrpPhase(j)]' = [[j \in Irps |-> IrpPhase(j)] EXCEPT ![i] = "free"]
  BY DEF Same, OthersSame
<1>3. [j \in Irps |-> irp[j].op]' = [[j \in Irps |-> irp[j].op] EXCEPT ![i] = irp'[i].op]
  BY DEF Same, SameRest, OthersSame
<1>4. [j \in Irps |-> AccessOf(j)]' =
        [[j \in Irps |-> AccessOf(j)] EXCEPT ![i] = [s \in Sectors |-> NoValue]]
  BY DEF Same, SameRest, OthersSame
<1>5. [j \in Irps |-> Succeeded(j)]' = [[j \in Irps |-> Succeeded(j)] EXCEPT ![i] = FALSE]
  BY DEF Same, SameOutcome, OthersSame
<1>6. Plain!Collect(i)
  BY <1>1, <1>2, <1>3, <1>4, <1>5 DEF Plain!Collect, Plain!Untouched, AccessOf
<1> QED BY <1>6 DEF Plain!Next

-----------------------------------------------------------------------------
(* What a sender sees of an IRP that the queue has.                        *)

Pending == {"counted", "accepted", "queued", "item"}

LEMMA Phases ==
  ASSUME NEW i \in Irps
  PROVE  /\ irp[i].state = "free" => IrpPhase(i) = "free" /\ Succeeded(i) = FALSE
         /\ irp[i].state \in Pending => IrpPhase(i) = "pending" /\ Succeeded(i) = FALSE
         /\ irp[i].state = "completed" => IrpPhase(i) = "completed"
         /\ Succeeded(i) = FALSE => AccessOf(i) = irp[i].seen
  BY DEF IrpPhase, Succeeded, Pending, AccessOf

LEMMA PhasesNext ==
  ASSUME NEW i \in Irps
  PROVE  /\ irp'[i].state = "free" => IrpPhase(i)' = "free" /\ Succeeded(i)' = FALSE
         /\ irp'[i].state \in Pending => IrpPhase(i)' = "pending" /\ Succeeded(i)' = FALSE
         /\ irp'[i].state = "completed" => IrpPhase(i)' = "completed"
         /\ Succeeded(i)' = FALSE => AccessOf(i)' = irp'[i].seen
  BY DEF IrpPhase, Succeeded, Pending, AccessOf

LEMMA SamePending ==
  ASSUME NEW i \in Irps, irp[i].state \in Pending, irp'[i].state \in Pending,
         irp'[i].op = irp[i].op, irp'[i].seen = irp[i].seen
  PROVE  Same(i)
  BY Phases, PhasesNext DEF Same, SameRest, SameOutcome

LEMMA SameIrp ==
  ASSUME NEW i \in Irps, irp'[i] = irp[i]
  PROVE  Same(i)
<1>1. IrpPhase(i)' = IrpPhase(i)
  BY DEF IrpPhase
<1>2. Succeeded(i)' = Succeeded(i)
  BY DEF Succeeded
<1>3. Returned(i)' = Returned(i)
  BY DEF Returned
<1> QED BY <1>1, <1>2, <1>3 DEF Same, SameRest, SameOutcome, AccessOf

\* The value of no sector changes but by a write.
LEMMA DiskKept ==
  ASSUME IInv, [Next]_vars, ~IoWrite
  PROVE  SameDisk
<1>1. \A s \in Sectors : device[s] \in Sector
  BY DEF IInv, Types, DeviceType
<1>2. CASE HolderConvert
  <2>1. \A s \in Sectors : device'[s] \in {device[s], Encrypt(device[s]), Decrypt(device[s])}
    BY <1>2 DEF HolderConvert, MoveHold, IInv, Types, DeviceType, EndType
  <2>2. ASSUME NEW d \in Sector
        PROVE  Encrypt(d).value = d.value /\ Decrypt(d).value = d.value
    BY LayerAdded
  <2> QED BY <1>1, <2>1, <2>2 DEF SameDisk
<1>3. CASE device' = device
  BY <1>3 DEF SameDisk
<1> QED BY <1>2, <1>3, DeviceChanges

-----------------------------------------------------------------------------
(* Every step of the queue is one of those.                                *)

PlainStep == Plain!Next \/ UNCHANGED Plain!vars

\* Only IRP i changes, and it stays under way.
LEMMA OnlyPending ==
  ASSUME NEW i \in Irps, irp[i].state \in Pending, irp'[i].state \in Pending,
         irp'[i].op = irp[i].op, irp'[i].seen = irp[i].seen, SameDisk,
         \A j \in Irps : j # i => irp'[j] = irp[j]
  PROVE  PlainStep
<1>1. \A j \in Irps : Same(j)
  BY SamePending, SameIrp
<1> QED BY <1>1, Stutters DEF PlainStep

LEMMA SenderSteps ==
  ASSUME IInv, [Next]_vars, NEW i \in Irps,
         \/ \E o \in Ops : AddIrp(i, o)
         \/ RejectIrp(i) \/ AcceptIrp(i) \/ EnqueueIrp(i) \/ Collect(i)
  PROVE  PlainStep
<1> USE DEF IInv, Types
<1>0. SameDisk
  BY DiskKept DEF AddIrp, RejectIrp, AcceptIrp, EnqueueIrp, Collect, SameDisk
<1>1. ASSUME NEW o \in Ops, AddIrp(i, o)
      PROVE  PlainStep
  <2>1. /\ irp[i].state = "free" /\ \A j \in Irps : j # i => irp'[j] = irp[j]
        /\ irp'[i].state = "counted" /\ irp'[i].op = o
        /\ irp'[i].seen = [s \in Sectors |-> NoValue]
    BY <1>1, AddIrpEffect
  <2>2. irp[i].seen = [s \in Sectors |-> NoValue]
    <3>1. irp[i].seen \in [Sectors -> Values \cup {NoValue}]
      BY IrpFields
    <3>2. \A s \in Sectors : irp[i].seen[s] = NoValue
      BY <2>1 DEF FreshInv
    <3> QED BY <3>1, <3>2
  <2>3. OthersSame(i)
    BY <2>1, SameIrp DEF OthersSame
  <2>4. /\ IrpPhase(i) = "free" /\ Succeeded(i) = FALSE
        /\ IrpPhase(i)' = "pending" /\ Succeeded(i)' = FALSE
    BY <2>1, Phases, PhasesNext DEF Pending
  <2>5. AccessOf(i)' = AccessOf(i) /\ SameOutcome(i)
    BY <2>1, <2>2, <2>4, Phases, PhasesNext DEF SameOutcome
  <2> QED BY <1>0, <2>1, <2>3, <2>4, <2>5, Issues DEF PlainStep
<1>2. CASE RejectIrp(i)
  <2>1. /\ irp[i].state = "counted" /\ \A j \in Irps : j # i => irp'[j] = irp[j]
        /\ irp'[i].state = "completed" /\ irp'[i].status = "error"
        /\ irp'[i].op = irp[i].op /\ irp'[i].seen = irp[i].seen
    BY <1>2, StateUpdate DEF RejectIrp, IrpStates
  <2>2. OthersSame(i)
    BY <2>1, SameIrp DEF OthersSame
  <2>3. Succeeded(i)' = FALSE
    BY <2>1 DEF Succeeded
  <2>4. IrpPhase(i) = "pending" /\ Succeeded(i) = FALSE /\ IrpPhase(i)' = "completed"
    BY <2>1, Phases, PhasesNext DEF Pending
  <2>5. SameRest(i)
    BY <2>1, <2>3, <2>4, Phases, PhasesNext DEF SameRest
  <2> QED BY <1>0, <2>2, <2>3, <2>4, <2>5, Finishes DEF PlainStep
<1>3. CASE AcceptIrp(i) \/ EnqueueIrp(i)
  <2>1. /\ irp[i].state \in Pending /\ \A j \in Irps : j # i => irp'[j] = irp[j]
        /\ irp'[i].state \in Pending /\ irp'[i].op = irp[i].op /\ irp'[i].seen = irp[i].seen
    BY <1>3, OnlyState DEF AcceptIrp, EnqueueIrp, IrpStates, Pending
  <2> QED BY <1>0, <2>1, OnlyPending
<1>4. CASE Collect(i)
  <2>1. /\ irp[i].state = "completed" /\ \A j \in Irps : j # i => irp'[j] = irp[j]
        /\ irp'[i] = FreeIrp
    BY <1>4, IrpUpdate, FreeIrpFields DEF Collect
  <2>2. /\ irp'[i].state = "free" /\ irp'[i].seen = [s \in Sectors |-> NoValue]
        /\ irp'[i].op \in Ops
    BY <2>1, FreeIrpFields DEF IrpRecord
  <2>3. OthersSame(i)
    BY <2>1, SameIrp DEF OthersSame
  <2>4. /\ IrpPhase(i) = "completed" /\ IrpPhase(i)' = "free" /\ Succeeded(i)' = FALSE
        /\ AccessOf(i)' = irp'[i].seen
    BY <2>1, <2>2, Phases, PhasesNext
  <2> QED BY <1>0, <2>2, <2>3, <2>4, Collects DEF PlainStep
<1> QED BY <1>1, <1>2, <1>3, <1>4

\* Taking an item, a status, and moving or decrypting data that was read are
\* invisible.
LEMMA InnerSteps ==
  ASSUME IInv, [Next]_vars,
         MainGetItem \/ MainRefuse \/ IoFlush \/ IoFail \/ IoFinishRead \/ CompletionDecrypt
  PROVE  PlainStep
<1>0. SameDisk
  BY DiskKept DEF MainGetItem, MainRefuse, IoFlush, IoFail, IoFinishRead, CompletionDecrypt,
        SameDisk
<1>1. CASE MainGetItem
  <2>1. main.irp \in Irps /\ irp[main.irp].state = "queued"
    BY <1>1 DEF IInv, MainInv, MainGetItem, MainQueued
  <2>2. /\ irp'[main.irp].state = "item" /\ \A j \in Irps : j # main.irp => irp'[j] = irp[j]
        /\ irp'[main.irp].op = irp[main.irp].op /\ irp'[main.irp].seen = irp[main.irp].seen
    BY <1>1, <2>1, OnlyState DEF IInv, Types, MainGetItem, IrpStates
  <2> QED BY <1>0, <2>1, <2>2, OnlyPending DEF Pending
<1>2. CASE MainRefuse
  <2>1. main.irp \in Irps /\ irp[main.irp].state = "item"
    BY <1>2 DEF IInv, MainInv, MainRefuse, MainHasItem, InProgress
  <2>2. /\ irp'[main.irp].state = "item" /\ \A j \in Irps : j # main.irp => irp'[j] = irp[j]
        /\ irp'[main.irp].op = irp[main.irp].op /\ irp'[main.irp].seen = irp[main.irp].seen
    BY <1>2, <2>1, OnlyStatus DEF IInv, Types, MainRefuse
  <2> QED BY <1>0, <2>1, <2>2, OnlyPending DEF Pending
<1>3. CASE IoFlush \/ IoFail \/ IoFinishRead
  <2> DEFINE i == io.request.irp
  <2>1. i \in Irps /\ irp[i].state = "item"
    BY <1>3 DEF IInv, ServedInv, IoRequest, InProgress, IoBusy, IoFlush, IoFail, IoFinishRead
  <2>2. CASE IoFlush \/ IoFail
    <3>1. PICK st \in {"ok", "error"} : SetStatus(i, st)
      BY <2>2 DEF IoFlush, IoFail, Outcomes
    <3>2. /\ irp'[i].state = "item" /\ \A j \in Irps : j # i => irp'[j] = irp[j]
          /\ irp'[i].op = irp[i].op /\ irp'[i].seen = irp[i].seen
      BY <2>1, <3>1, OnlyStatus DEF IInv, Types
    <3> QED BY <1>0, <2>1, <3>2, OnlyPending DEF Pending
  <2>3. CASE IoFinishRead
    <3>1. /\ irp'[i].state = "item" /\ \A j \in Irps : j # i => irp'[j] = irp[j]
          /\ irp'[i].op = irp[i].op /\ irp'[i].seen = irp[i].seen
      BY <2>1, <2>3, IoFinishReadEffect DEF IInv
    <3> QED BY <1>0, <2>1, <3>1, OnlyPending DEF Pending
  <2> QED BY <1>3, <2>2, <2>3
<1>4. CASE CompletionDecrypt
  <2> DEFINE i == completion.request.irp
  <2>1. i \in Irps /\ irp[i].state = "item"
    BY <1>4 DEF IInv, ServedInv, CompletionRequest, InProgress, CompletionBusy,
          CompletionDecrypt
  <2>2. /\ irp'[i].state = "item" /\ \A j \in Irps : j # i => irp'[j] = irp[j]
        /\ irp'[i].op = irp[i].op /\ irp'[i].seen = irp[i].seen
    BY <1>4, <2>1, CompletionDecryptEffect DEF IInv
  <2> QED BY <1>0, <2>1, <2>2, OnlyPending DEF Pending
<1> QED BY <1>1, <1>2, <1>3, <1>4

\* The device is read, once for each sector, for an IRP under way.
LEMMA ReadStep ==
  ASSUME IInv, [Next]_vars, IoRead, NEW i, i = io.request.irp, NEW s, s = io.request.sector
  PROVE  PlainStep
<1>0. SameDisk
  BY DiskKept DEF IoRead, SameDisk
<1>1. /\ i \in Irps /\ s \in Sectors /\ irp[i].state = "item" /\ irp[i].op.kind = "read"
      /\ s \in irp[i].op.sectors /\ irp[i].seen[s] = NoValue
  BY IoSector DEF IInv, ServedInv, IoRequest, InProgress, IoBusy, IoRead, IoKind, Kind,
        AccessInv
<1>2. /\ irp'[i].state = "item" /\ \A j \in Irps : j # i => irp'[j] = irp[j]
      /\ irp'[i].op = irp[i].op
      /\ irp'[i].seen = [irp[i].seen EXCEPT ![s] = device[s].value]
  BY <1>1, IoReadEffect DEF IInv
<1>3. irp[i].seen \in [Sectors -> Values \cup {NoValue}]
  BY <1>1, IrpFields DEF IInv, Types
<1>4. irp'[i].seen = [t \in Sectors |-> IF t \in {s} THEN device[t].value ELSE irp[i].seen[t]]
  BY <1>1, <1>2, <1>3
<1>5. /\ IrpPhase(i) = "pending" /\ IrpPhase(i)' = "pending" /\ SameOutcome(i)
      /\ AccessOf(i) = irp[i].seen /\ AccessOf(i)' = irp'[i].seen
  BY <1>1, <1>2, Phases, PhasesNext DEF Pending, SameOutcome
<1>6. OthersSame(i)
  BY <1>2, SameIrp DEF OthersSame
<1>7. PICK S \in SUBSET Sectors : S = {s}
  BY <1>1
<1>8. AccessOf(i)' = [t \in Sectors |-> IF t \in S THEN device[t].value ELSE AccessOf(i)[t]]
  BY <1>4, <1>5, <1>7
<1>9. S \subseteq irp[i].op.sectors /\ \A t \in S : AccessOf(i)[t] = NoValue
  BY <1>1, <1>5, <1>7
<1>10. irp[i].op.kind \in {"read", "misaligned"} /\ irp'[i].op = irp[i].op
  BY <1>1, <1>2
<1>11. Plain!Next
  BY <1>0, <1>1, <1>5, <1>6, <1>8, <1>9, <1>10, Accesses, ZenonT(60)
<1> QED BY <1>11 DEF PlainStep

LEMMA MisalignedStep ==
  ASSUME IInv, [Next]_vars, MainReadMisaligned, NEW i, i = main.irp
  PROVE  PlainStep
<1> DEFINE S == irp[i].op.sectors
<1>0. SameDisk
  BY DiskKept DEF MainReadMisaligned, SameDisk
<1>1. /\ i \in Irps /\ irp[i].state = "item" /\ irp[i].op.kind = "misaligned"
      /\ \A s \in Sectors : irp[i].seen[s] = NoValue
  BY DEF IInv, MainInv, MainHasItem, InProgress, MainReadMisaligned, AccessInv,
        MainAhead
<1>2. /\ irp'[i].state = "item" /\ \A j \in Irps : j # i => irp'[j] = irp[j]
      /\ irp'[i].op = irp[i].op /\ irp'[i].seen = MisalignedSeen(i)
  BY <1>1, MainReadMisalignedEffect DEF IInv
<1>3. S \in SUBSET Sectors
  BY <1>1, IrpFields, OpFields DEF IInv, Types
<1>4. irp'[i].seen = [s \in Sectors |-> IF s \in S THEN device[s].value ELSE irp[i].seen[s]]
  BY <1>1, <1>2 DEF MisalignedSeen
<1>5. /\ IrpPhase(i) = "pending" /\ IrpPhase(i)' = "pending" /\ SameOutcome(i)
      /\ AccessOf(i) = irp[i].seen /\ AccessOf(i)' = irp'[i].seen
  BY <1>1, <1>2, Phases, PhasesNext DEF Pending, SameOutcome
<1>6. OthersSame(i)
  BY <1>2, SameIrp DEF OthersSame
<1>7. AccessOf(i)' = [s \in Sectors |-> IF s \in S THEN device[s].value ELSE AccessOf(i)[s]]
  BY <1>4, <1>5
<1>8. \A s \in S : AccessOf(i)[s] = NoValue
  BY <1>1, <1>3, <1>5
<1> QED BY <1>0, <1>1, <1>2, <1>3, <1>5, <1>6, <1>7, <1>8, Accesses DEF PlainStep

\* The device is written, once for each sector, with what the IRP is to write.
LEMMA WriteStep ==
  ASSUME IInv, IoWrite, NEW i, i = io.request.irp, NEW s, s = io.request.sector
  PROVE  PlainStep
<1> DEFINE v == irp[i].op.value
<1>1. /\ i \in Irps /\ s \in Sectors /\ irp[i].state = "item" /\ irp[i].op.kind = "write"
      /\ s \in irp[i].op.sectors /\ irp[i].seen[s] = NoValue
  BY IoSector DEF IInv, ServedInv, IoRequest, InProgress, IoBusy, IoWrite, IoKind, Kind, AccessInv
<1>2. /\ irp'[i].state = "item" /\ \A j \in Irps : j # i => irp'[j] = irp[j]
      /\ irp'[i].op = irp[i].op /\ irp'[i].seen = [irp[i].seen EXCEPT ![s] = v]
  BY <1>1, IoWriteEffect DEF IInv
<1>3. irp[i].seen \in [Sectors -> Values \cup {NoValue}]
  BY <1>1, IrpFields DEF IInv, Types
<1>4. irp'[i].seen = [t \in Sectors |-> IF t \in {s} THEN v ELSE irp[i].seen[t]]
  BY <1>1, <1>2, <1>3
<1>5. /\ IrpPhase(i) = "pending" /\ IrpPhase(i)' = "pending" /\ SameOutcome(i)
      /\ AccessOf(i) = irp[i].seen /\ AccessOf(i)' = irp'[i].seen
  BY <1>1, <1>2, Phases, PhasesNext DEF Pending, SameOutcome
<1>6. OthersSame(i)
  BY <1>2, SameIrp DEF OthersSame
<1>7. AccessOf(i)' = [t \in Sectors |-> IF t \in {s} THEN v ELSE AccessOf(i)[t]]
  BY <1>4, <1>5
<1>8. \A t \in Sectors : device'[t].value = IF t \in {s} THEN v ELSE device[t].value
  <2>1. fragment[io.request.buffer].content.value = v
    BY <1>1 DEF IInv, WriteInv, IoWrite, Kind
  <2>2. device' = [device EXCEPT ![s] = fragment[io.request.buffer].content]
    BY DEF IoWrite
  <2> QED BY <1>1, <2>1, <2>2 DEF IInv, Types, DeviceType
<1>9. /\ {s} \in SUBSET Sectors /\ {s} \subseteq irp[i].op.sectors
      /\ \A t \in {s} : AccessOf(i)[t] = NoValue
  BY <1>1, <1>5
<1> HIDE DEF v
<1>10. /\ \A t \in Sectors : device'[t].value = IF t \in {s} THEN irp[i].op.value ELSE device[t].value
       /\ AccessOf(i)' = [t \in Sectors |-> IF t \in {s} THEN irp[i].op.value ELSE AccessOf(i)[t]]
  BY <1>7, <1>8 DEF v
<1> QED BY <1>1, <1>2, <1>5, <1>6, <1>9, <1>10, Accesses, ZenonT(60) DEF PlainStep

\* What a completed read returns is what the device held when it was read.
LEMMA CompleteStep ==
  ASSUME IInv, [Next]_vars, NEW k \in WorkItems, WorkCompleteIrp(k), NEW i, i = work[k].irp
  PROVE  PlainStep
<1>0. SameDisk
  BY DiskKept DEF WorkCompleteIrp, SameDisk
<1>1. Completing(k)
  BY DEF WorkCompleteIrp, MoveWork, Completing
<1>2. i \in Irps /\ irp[i].state = "item" /\ ~IsUnderWay(i)
  BY <1>1, WorkIrp, InvNoUse DEF IInv, NoUseAfterCompletion
<1>3. /\ irp'[i].state = "completed" /\ \A j \in Irps : j # i => irp'[j] = irp[j]
      /\ irp'[i].op = irp[i].op /\ irp'[i].status = irp[i].status
      /\ irp'[i].seen = irp[i].seen /\ irp'[i].data = irp[i].data
  BY <1>2, OnlyState DEF IInv, Types, WorkCompleteIrp, IrpStates
<1>4. /\ main.irp # i /\ ~(io.pc \in {"perform", "finish"} /\ io.request.irp = i)
      /\ ~(completion.pc = "decrypt" /\ completion.request.irp = i)
      /\ \A n \in 1 .. Len(io.queue) : io.queue[n].irp # i
      /\ \A n \in 1 .. Len(completion.queue) : completion.queue[n].irp # i
  <2>1. DOMAIN io.queue = 1 .. Len(io.queue)
        /\ DOMAIN completion.queue = 1 .. Len(completion.queue)
    BY QueueLengths DEF IInv
  <2> QED BY <1>2, <2>1 DEF IsUnderWay
<1>5. /\ irp[i].seen \in [Sectors -> Values \cup {NoValue}] /\ irp[i].op.sectors \subseteq Sectors
      /\ irp[i].status \in {"ok", "error"}
  BY <1>2, IrpFields, OpFields DEF IInv, Types
<1>6. IrpPhase(i) = "pending" /\ IrpPhase(i)' = "completed" /\ AccessOf(i) = irp[i].seen
  BY <1>2, <1>3, Phases, PhasesNext DEF Pending
<1>7. OthersSame(i)
  BY <1>3, SameIrp DEF OthersSame
<1>8. CASE irp[i].status = "ok"
  <2>1. Succeeded(i)' = TRUE
    BY <1>3, <1>8 DEF Succeeded
  <2>2. \A s \in irp[i].op.sectors : irp[i].seen[s] # NoValue
    BY <1>2, <1>4, <1>5, <1>8 DEF IInv, AccessInv
  <2>3. irp[i].op.kind \in {"read", "misaligned"} => Returned(i)' = irp[i].seen
    <3>1. ASSUME NEW s \in Sectors, irp[i].op.kind \in {"read", "misaligned"}
          PROVE  irp[i].data[s] = [value |-> irp[i].seen[s], layer |-> 0]
      BY <1>2, <1>4, <1>8, <3>1 DEF IInv, ReadInv, Shows, Kind
    <3>2. ASSUME NEW s \in Sectors, irp[i].op.kind \in {"read", "misaligned"}
          PROVE  (IF irp'[i].data[s].layer = 0 THEN irp'[i].data[s].value ELSE NoValue)
                   = irp[i].seen[s]
      <4>1. ASSUME NEW d, NEW v, d = [value |-> v, layer |-> 0]
            PROVE  d.layer = 0 /\ d.value = v
        BY <4>1
      <4>2. irp[i].data[s] = [value |-> irp[i].seen[s], layer |-> 0]
        BY <3>1, <3>2
      <4>3. irp[i].data[s].layer = 0 /\ irp[i].data[s].value = irp[i].seen[s]
        BY <4>1, <4>2
      <4> QED BY <1>3, <4>3
    <3>3. irp[i].op.kind \in {"read", "misaligned"} =>
            Returned(i)' = [s \in Sectors |-> irp[i].seen[s]]
      BY <3>2 DEF Returned
    <3> QED BY <1>5, <3>3
  <2>4. AccessOf(i)' = irp[i].seen
    BY <1>3, <2>3 DEF AccessOf
  <2>5. SameRest(i)
    BY <1>3, <1>6, <2>4 DEF SameRest
  <2> QED BY <1>0, <1>2, <1>6, <1>7, <2>1, <2>2, <2>5, Finishes DEF PlainStep
<1>9. CASE irp[i].status = "error"
  <2>1. Succeeded(i)' = FALSE
    BY <1>3, <1>9 DEF Succeeded
  <2>2. SameRest(i)
    BY <1>2, <1>3, <1>6, <2>1, PhasesNext DEF SameRest
  <2> QED BY <1>0, <1>2, <1>6, <1>7, <2>1, <2>2, Finishes DEF PlainStep
<1> QED BY <1>5, <1>8, <1>9

LEMMA RefinementStep ==
  ASSUME IInv, [Next]_vars
  PROVE  Plain!Next \/ UNCHANGED Plain!vars
<1>1. CASE irp' = irp
  <2>1. CASE IoWrite
    BY <2>1, WriteStep DEF PlainStep
  <2>2. CASE ~IoWrite
    BY <1>1, <2>2, DiskKept, SameIrp, Stutters
  <2> QED BY <2>1, <2>2
<1>2. ASSUME NEW i \in Irps,
             \/ \E o \in Ops : AddIrp(i, o)
             \/ RejectIrp(i) \/ AcceptIrp(i) \/ EnqueueIrp(i) \/ Collect(i)
      PROVE  PlainStep
  BY <1>2, SenderSteps
<1>3. ASSUME NEW k \in WorkItems, WorkCompleteIrp(k)
      PROVE  PlainStep
  BY <1>3, CompleteStep
<1>4. MainGetItem \/ MainRefuse \/ IoFlush \/ IoFail \/ IoFinishRead \/ CompletionDecrypt
        => PlainStep
  BY InnerSteps
<1>5. MainReadMisaligned => PlainStep
  BY MisalignedStep
<1>6. IoRead => PlainStep
  BY ReadStep
<1>7. IoWrite => PlainStep
  BY WriteStep
<1> QED BY <1>1, <1>2, <1>3, <1>4, <1>5, <1>6, <1>7, IrpChanges DEF PlainStep

LEMMA RefinementInit ==
  ASSUME Init
  PROVE  Plain!Init
<1>1. \A i \in Irps : irp[i] = FreeIrp
  BY DEF Init
<1>2. \A i \in Irps :
        /\ irp[i].state = "free" /\ irp[i].seen = [s \in Sectors |-> NoValue]
        /\ irp[i].op \in Ops
  BY <1>1, FreeIrpFields DEF IrpRecord
<1>3. \A i \in Irps :
        /\ IrpPhase(i) = "free" /\ Succeeded(i) = FALSE
        /\ AccessOf(i) = [s \in Sectors |-> NoValue]
  BY <1>2, Phases
<1>4. [s \in Sectors |-> device[s].value] \in [Sectors -> Values]
  BY InvInit DEF IInv, ContentInv
<1>5. /\ [i \in Irps |-> IrpPhase(i)] = [i \in Irps |-> "free"]
      /\ [i \in Irps |-> Succeeded(i)] = [i \in Irps |-> FALSE]
      /\ [i \in Irps |-> AccessOf(i)] = [i \in Irps |-> [s \in Sectors |-> NoValue]]
  BY <1>3
<1>6. [i \in Irps |-> irp[i].op] \in [Irps -> Ops]
  BY <1>2
<1> QED BY <1>4, <1>5, <1>6 DEF Plain!Init, Plain!Untouched, AccessOf

\* To its senders the queue is a plain disk, for any number of sectors, IRPs, work
\* items and preallocated buffers: each sector of a request is accessed once while
\* the request is under way, a request that succeeds has accessed them all, and a
\* read returns in plain what the device held when the queue read it.
THEOREM QueueIsPlainDisk == Spec => ImplementsPlainDisk
<1>1. Init => Plain!Init
  BY RefinementInit
<1>2. IInv /\ [Next]_vars => [Plain!Next]_(Plain!vars)
  BY RefinementStep
<1> QED BY <1>1, <1>2, Invariant, PTL DEF Spec, ImplementsPlainDisk, Plain!Spec
=============================================================================
