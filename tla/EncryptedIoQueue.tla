---------------------------- MODULE EncryptedIoQueue ----------------------------
(***************************************************************************)
(* The I/O queue in front of an encrypted volume or drive of the Windows   *)
(* driver (src/src/Driver/EncryptedIoQueue.c).                             *)
(*                                                                         *)
(* IRPs enter through EncryptedIoQueueAddIrp.  The main thread cuts them   *)
(* into fragments and encrypts what is written, the I/O thread accesses    *)
(* the device and reads ahead, the completion thread decrypts what was     *)
(* read, and system worker threads complete the IRPs through preallocated  *)
(* work items.  EncryptedIoQueueHoldWhenIdle keeps the queue from starting *)
(* new work, so that its holder (the thread that encrypts the system       *)
(* drive in place) can access the device and move the end of the encrypted *)
(* area; EncryptedIoQueueStop drains the queue and frees what it owns.     *)
(*                                                                         *)
(* A fragment is one sector.  The content of a sector is its value and the *)
(* number of encryption layers over it: encrypting adds a layer and        *)
(* decrypting removes one, so a user sees the right value at layer 0 only. *)
(***************************************************************************)
EXTENDS Integers, Sequences, FiniteSets

CONSTANTS
  Irps, Values, NoValue, NoIrp,
  Buffers, NoBuffer,         \* FragmentBufferA and FragmentBufferB
  Sectors,                   \* 0 .. n, the sectors of the device
  Ops,                       \* the requests: [kind, sectors, value]
  ItemCount, RequestCount,   \* preallocated pool buffers of the two sizes
  WorkItems,                 \* WorkItemPool
  Stored, Areas,             \* what the sectors hold and EncryptedAreaEnd at first
  Directions,                \* whether holders may "encrypt" or "decrypt" the device
  MayHold, MayStop, MayFail, \* bounds: whether holds, a stop, failures occur
  MayResend                  \* bound: whether more requests than Irps are sent

ASSUME SectorsAssumption ==
  IsFiniteSet(Sectors) /\ Sectors # {} /\ Sectors = 0 .. Cardinality(Sectors) - 1
ASSUME PoolAssumption ==
  /\ ItemCount \in Nat \ {0} /\ RequestCount \in Nat \ {0}
  /\ IsFiniteSet(WorkItems) /\ WorkItems # {}
ASSUME StoredAssumption == Stored \subseteq [Sectors -> Values] /\ Areas \subseteq {-1} \cup Sectors
ASSUME BuffersAssumption == IsFiniteSet(Buffers) /\ Cardinality(Buffers) = 2
ASSUME NoneAssumption == NoBuffer \notin Buffers /\ NoValue \notin Values /\ NoIrp \notin Irps
ASSUME IrpsAssumption == IsFiniteSet(Irps)
\* A read or a write has an offset and a length; MainThreadProc refuses length 0.
ASSUME OpsAssumption ==
  /\ Ops # {}
  /\ Ops \subseteq [kind : {"read", "write", "flush", "misaligned", "invalid"},
                    sectors : SUBSET Sectors, value : Values]
  /\ \A o \in Ops :
       /\ o.kind \in {"read", "write"} =>
            \E first, last \in Sectors : first <= last /\ o.sectors = first .. last
       /\ o.kind = "flush" => o.sectors = {}

VARIABLES
  irp,         \* the IRPs: state, op, the item's status, data, and what was seen
  gate,        \* OutstandingIoCount, the flags and events that hold and stop use
  main,        \* the main thread, its queue and event
  io,          \* the I/O thread, its queue and event, IoThreadPendingRequestCount
  completion,  \* the completion thread, its queue and event
  pool,        \* free pool buffers and PoolBufferFreeEvent
  fragment,    \* the fragment buffers: free event and content
  cache,       \* the read-ahead buffer
  work,        \* the work items
  active,      \* ActiveWorkItems, its event, and the routines about to return
  device,      \* content of the sectors
  encryptedEnd,\* EncryptedAreaEnd, in sectors; EncryptedAreaStart is sector 0
  hold, stop   \* control points of the holder and of the thread that stops

vars == <<irp, gate, main, io, completion, pool, fragment, cache, work, active,
          device, encryptedEnd, hold, stop>>

-----------------------------------------------------------------------------

Encrypt(c) == [c EXCEPT !.layer = @ + 1]
Decrypt(c) == [c EXCEPT !.layer = @ - 1]

NoContent == [value |-> NoValue, layer |-> 0]
NoCache == [valid |-> FALSE, sector |-> 0, content |-> NoContent]
NoRequest == [irp |-> NoIrp, sector |-> 0, last |-> FALSE, buffer |-> NoBuffer,
              encrypted |-> FALSE]

\* The intersection of a sector with the encrypted area; -1: the area is empty.
InEncryptedArea(s) == encryptedEnd # -1 /\ s <= encryptedEnd

First(S) == CHOOSE s \in S : \A t \in S : s <= t
IsLast(s, S) == \A t \in S : t <= s

FreshIrp(o) == [state |-> "free", op |-> o, status |-> "ok",
                data |-> [s \in Sectors |-> NoContent],
                seen |-> [s \in Sectors |-> NoValue]]

FreeIrp == FreshIrp(CHOOSE o \in Ops : TRUE)

Init ==
  /\ irp = [i \in Irps |-> FreeIrp]
  /\ gate = [outstanding |-> 0, suspendPending |-> FALSE, stopPending |-> FALSE,
             suspended |-> FALSE, noOutstandingIo |-> FALSE,
             queueResumed |-> FALSE, threadExit |-> FALSE]
  /\ \E b \in Buffers :
       main = [queue |-> <<>>, notEmpty |-> FALSE, pc |-> "wait", irp |-> NoIrp,
               sector |-> 0, buffer |-> b, request |-> NoRequest]
  /\ io = [queue |-> <<>>, notEmpty |-> FALSE, pc |-> "wait",
           request |-> NoRequest, pending |-> 0]
  /\ completion = [queue |-> <<>>, notEmpty |-> FALSE, pc |-> "wait",
                   request |-> NoRequest]
  /\ pool = [items |-> ItemCount, requests |-> RequestCount, freed |-> FALSE]
  /\ fragment = [b \in Buffers |-> [free |-> TRUE, content |-> NoContent]]
  /\ cache = NoCache
  /\ work = [k \in WorkItems |-> [pc |-> "free", irp |-> NoIrp]]
  /\ active = [count |-> 0, none |-> FALSE, returning |-> 0]
  /\ encryptedEnd \in Areas
  /\ \E v \in Stored :
       device = [s \in Sectors |->
                   [value |-> v[s], layer |-> IF InEncryptedArea(s) THEN 1 ELSE 0]]
  /\ hold = "idle" /\ stop = "idle"

-----------------------------------------------------------------------------
(* Parts of several handlers.                                              *)

\* (Mutant: only a hold is told that the queue is idle.)
DecrementForHoldOnly ==
  gate' = [gate EXCEPT
             !.outstanding = @ - 1,
             !.noOutstandingIo = @ \/ (gate.outstanding = 1
                                       /\ gate.suspendPending)]

\* InterlockedDecrement, then the event if somebody waits for an idle queue.
\* One step: who is woken late reads the counter again.
DecrementOutstandingIoCount ==
  gate' = [gate EXCEPT
             !.outstanding = @ - 1,
             !.noOutstandingIo = @ \/ (gate.outstanding = 1
                                       /\ (gate.suspendPending \/ gate.stopPending))]

\* QueueIrpCompletionFromItem: blocks while no work item is free.
QueueIrpCompletion(i) ==
  /\ \E k \in WorkItems :
       /\ work[k].pc = "free"
       /\ work' = [work EXCEPT ![k] = [pc |-> "completeItem", irp |-> i]]
  /\ active' = [active EXCEPT !.count = @ + 1, !.none = FALSE]

ReleaseRequest == pool' = [pool EXCEPT !.requests = @ + 1, !.freed = TRUE]

SetStatus(i, st) == irp' = [irp EXCEPT ![i].status = st]

Outcomes == IF MayFail THEN {"ok", "error"} ELSE {"ok"}

-----------------------------------------------------------------------------
(* EncryptedIoQueueAddIrp, in the thread of whoever sends the IRP.         *)

AddIrp(i, o) ==
  /\ irp[i].state = "free"
  /\ irp' = [irp EXCEPT ![i] = [FreshIrp(o) EXCEPT !.state = "counted"]]
  /\ gate' = [gate EXCEPT !.outstanding = @ + 1]
  /\ UNCHANGED <<main, io, completion, pool, fragment, cache, work, active,
                 device, encryptedEnd, hold, stop>>

RejectIrp(i) ==
  /\ irp[i].state = "counted" /\ gate.stopPending
  /\ irp' = [irp EXCEPT ![i].state = "completed", ![i].status = "error"]
  /\ DecrementOutstandingIoCount
  /\ UNCHANGED <<main, io, completion, pool, fragment, cache, work, active,
                 device, encryptedEnd, hold, stop>>

\* (Mutant: StopPending is not tested after counting the IRP.)
AcceptIrpUnchecked(i) ==
  /\ irp[i].state = "counted"
  /\ irp' = [irp EXCEPT ![i].state = "accepted"]
  /\ UNCHANGED <<gate, main, io, completion, pool, fragment, cache, work, active,
                 device, encryptedEnd, hold, stop>>

AcceptIrp(i) ==
  /\ irp[i].state = "counted" /\ ~gate.stopPending
  /\ irp' = [irp EXCEPT ![i].state = "accepted"]
  /\ UNCHANGED <<gate, main, io, completion, pool, fragment, cache, work, active,
                 device, encryptedEnd, hold, stop>>

EnqueueIrp(i) ==
  /\ irp[i].state = "accepted"
  /\ irp' = [irp EXCEPT ![i].state = "queued"]
  /\ main' = [main EXCEPT !.queue = Append(@, i), !.notEmpty = TRUE]
  /\ UNCHANGED <<gate, io, completion, pool, fragment, cache, work, active,
                 device, encryptedEnd, hold, stop>>

\* The sender looks at the result of a completed IRP and may send another one.
Collect(i) ==
  /\ MayResend /\ irp[i].state = "completed"
  /\ irp' = [irp EXCEPT ![i] = FreeIrp]
  /\ UNCHANGED <<gate, main, io, completion, pool, fragment, cache, work, active,
                 device, encryptedEnd, hold, stop>>

-----------------------------------------------------------------------------
(* MainThreadProc.                                                         *)

MainWait ==
  /\ main.pc = "wait" /\ main.notEmpty
  /\ main' = [main EXCEPT !.notEmpty = FALSE, !.pc = "next"]
  /\ UNCHANGED <<irp, gate, io, completion, pool, fragment, cache, work, active,
                 device, encryptedEnd, hold, stop>>

MainNext ==
  /\ main.pc = "next"
  /\ main' =
       IF main.queue = <<>>
       THEN [main EXCEPT !.pc = IF gate.threadExit THEN "exited" ELSE "wait"]
       ELSE [main EXCEPT !.queue = Tail(@), !.irp = Head(main.queue), !.pc = "taken"]
  /\ UNCHANGED <<irp, gate, io, completion, pool, fragment, cache, work, active,
                 device, encryptedEnd, hold, stop>>

MainTestSuspended ==
  /\ main.pc = "taken"
  /\ main' = [main EXCEPT !.pc = IF gate.suspended THEN "held" ELSE "item"]
  /\ UNCHANGED <<irp, gate, io, completion, pool, fragment, cache, work, active,
                 device, encryptedEnd, hold, stop>>

MainResumed ==
  /\ main.pc = "held" /\ gate.queueResumed
  /\ gate' = [gate EXCEPT !.queueResumed = FALSE]
  /\ main' = [main EXCEPT !.pc = "item"]
  /\ UNCHANGED <<irp, io, completion, pool, fragment, cache, work, active,
                 device, encryptedEnd, hold, stop>>

\* GetPoolBuffer finds no free buffer of the size and waits for one.
MainPoolEmpty(pc, free, waiting) ==
  /\ main.pc = pc /\ free = 0
  /\ main' = [main EXCEPT !.pc = waiting]
  /\ UNCHANGED <<irp, gate, io, completion, pool, fragment, cache, work, active,
                 device, encryptedEnd, hold, stop>>

MainPoolWait(waiting, pc) ==
  /\ main.pc = waiting /\ pool.freed
  /\ pool' = [pool EXCEPT !.freed = FALSE]
  /\ main' = [main EXCEPT !.pc = pc]
  /\ UNCHANGED <<irp, gate, io, completion, fragment, cache, work, active,
                 device, encryptedEnd, hold, stop>>

MainGetItem ==
  /\ main.pc = "item" /\ pool.items > 0
  /\ pool' = [pool EXCEPT !.items = @ - 1]
  /\ irp' = [irp EXCEPT ![main.irp].state = "item"]
  /\ main' = [main EXCEPT !.pc = "start"]
  /\ UNCHANGED <<gate, io, completion, fragment, cache, work, active, device,
                 encryptedEnd, hold, stop>>

\* The IRP was cancelled, or it is refused: its range is invalid or protected.
MainRefuse ==
  /\ main.pc = "start"
  /\ MayFail \/ irp[main.irp].op.kind = "invalid"
  /\ SetStatus(main.irp, "error")
  /\ main' = [main EXCEPT !.pc = "complete"]
  /\ UNCHANGED <<gate, io, completion, pool, fragment, cache, work, active,
                 device, encryptedEnd, hold, stop>>

MainStart ==
  LET o == irp[main.irp].op IN
  /\ main.pc = "start" /\ o.kind \in {"read", "write", "flush"}
  /\ main' = [main EXCEPT !.pc = "request",
                          !.sector = IF o.sectors = {} THEN 0 ELSE First(o.sectors)]
  /\ UNCHANGED <<irp, gate, io, completion, pool, fragment, cache, work, active,
                 device, encryptedEnd, hold, stop>>

\* A misaligned read of a filter device bypasses the other threads.
MainReadMisaligned ==
  LET o == irp[main.irp].op IN
  /\ main.pc = "start" /\ o.kind = "misaligned"
  /\ irp' = [irp EXCEPT ![main.irp] = [@ EXCEPT
       !.data = [s \in Sectors |-> IF s \notin o.sectors THEN NoContent
                   ELSE IF InEncryptedArea(s) THEN Decrypt(device[s]) ELSE device[s]],
       !.seen = [s \in Sectors |-> IF s \in o.sectors THEN device[s].value ELSE NoValue]]]
  /\ main' = [main EXCEPT !.pc = "complete"]
  /\ UNCHANGED <<gate, io, completion, pool, fragment, cache, work, active,
                 device, encryptedEnd, hold, stop>>

MainComplete ==
  /\ main.pc = "complete"
  /\ QueueIrpCompletion(main.irp)
  /\ main' = [main EXCEPT !.pc = "next", !.irp = NoIrp]
  /\ UNCHANGED <<irp, gate, io, completion, pool, fragment, cache, device,
                 encryptedEnd, hold, stop>>

MainCountRequest ==
  /\ main.pc = "request"
  /\ io' = [io EXCEPT !.pending = @ + 1]
  /\ main' = [main EXCEPT !.pc = "getRequest"]
  /\ UNCHANGED <<irp, gate, completion, pool, fragment, cache, work, active,
                 device, encryptedEnd, hold, stop>>

OtherBuffer == CHOOSE b \in Buffers : b # main.buffer

\* The request is filled in, the encrypted part of the fragment included.
MainGetRequest ==
  LET o == irp[main.irp].op IN
  /\ main.pc = "getRequest" /\ pool.requests > 0
  /\ pool' = [pool EXCEPT !.requests = @ - 1]
  /\ main' =
       IF o.kind = "flush"
       THEN [main EXCEPT !.request = [NoRequest EXCEPT !.irp = main.irp, !.last = TRUE],
                         !.pc = "queueFlush"]
       ELSE [main EXCEPT !.request =
               [irp |-> main.irp, sector |-> main.sector,
                last |-> IsLast(main.sector, o.sectors), buffer |-> OtherBuffer,
                encrypted |-> InEncryptedArea(main.sector)],
             !.buffer = OtherBuffer, !.pc = "queueFragment"]
  /\ UNCHANGED <<irp, gate, io, completion, fragment, cache, work, active,
                 device, encryptedEnd, hold, stop>>

\* Only activeFragmentBuffer outlives an IRP.
MainIdle ==
  [main EXCEPT !.pc = "next", !.irp = NoIrp, !.sector = 0, !.request = NoRequest]

EnqueueRequest == io' = [io EXCEPT !.queue = Append(@, main.request), !.notEmpty = TRUE]

MainQueueFlush ==
  /\ main.pc = "queueFlush"
  /\ EnqueueRequest
  /\ main' = MainIdle
  /\ UNCHANGED <<irp, gate, completion, pool, fragment, cache, work, active,
                 device, encryptedEnd, hold, stop>>

\* (Mutant: the free event of the fragment buffer is not waited for.)
BufferNotAwaited(b) == TRUE

BufferIsFree(b) == fragment[b].free

\* AcquireFragmentBuffer, encryption of what is written, and the I/O queue.
MainQueueFragment ==
  LET o == irp[main.irp].op
      r == main.request
      plain == [value |-> o.value, layer |-> 0]
  IN
  /\ main.pc = "queueFragment" /\ BufferIsFree(r.buffer)
  /\ fragment' = [fragment EXCEPT ![r.buffer] =
       [free |-> FALSE,
        content |-> IF o.kind = "read" THEN @.content
                    ELSE IF r.encrypted THEN Encrypt(plain) ELSE plain]]
  /\ EnqueueRequest
  /\ main' = IF r.last THEN MainIdle ELSE [main EXCEPT !.pc = "request", !.sector = @ + 1]
  /\ UNCHANGED <<irp, gate, completion, pool, cache, work, active, device,
                 encryptedEnd, hold, stop>>

-----------------------------------------------------------------------------
(* IoThreadProc.                                                           *)

IoWait ==
  /\ io.pc = "wait" /\ io.notEmpty
  /\ io' = [io EXCEPT !.notEmpty = FALSE,
                      !.pc = IF gate.threadExit THEN "exited" ELSE "next"]
  /\ UNCHANGED <<irp, gate, main, completion, pool, fragment, cache, work, active,
                 device, encryptedEnd, hold, stop>>

\* (Mutant: the pending request is not counted down.)
IoNextUncounted ==
  /\ io.pc = "next"
  /\ io' = IF io.queue = <<>>
           THEN [io EXCEPT !.pc = IF gate.threadExit THEN "exited" ELSE "wait"]
           ELSE [io EXCEPT !.queue = Tail(@), !.request = Head(io.queue), !.pc = "perform"]
  /\ UNCHANGED <<irp, gate, main, completion, pool, fragment, cache, work, active,
                 device, encryptedEnd, hold, stop>>

IoNext ==
  /\ io.pc = "next"
  /\ io' = IF io.queue = <<>>
           THEN [io EXCEPT !.pc = IF gate.threadExit THEN "exited" ELSE "wait"]
           ELSE [io EXCEPT !.queue = Tail(@), !.request = Head(io.queue),
                           !.pending = @ - 1, !.pc = "perform"]
  /\ UNCHANGED <<irp, gate, main, completion, pool, fragment, cache, work, active,
                 device, encryptedEnd, hold, stop>>

IoKind == irp[io.request.irp].op.kind

IoFlush ==
  /\ io.pc = "perform" /\ IoKind = "flush"
  /\ \E st \in Outcomes : SetStatus(io.request.irp, st)
  /\ io' = [io EXCEPT !.pc = "complete"]
  /\ UNCHANGED <<gate, main, completion, pool, fragment, cache, work, active,
                 device, encryptedEnd, hold, stop>>

\* A fragment is not accessed once another one of its item failed.
IoSkip ==
  /\ io.pc = "perform" /\ IoKind # "flush"
  /\ irp[io.request.irp].status # "ok"
  /\ io' = [io EXCEPT !.pc = "finish"]
  /\ UNCHANGED <<irp, gate, main, completion, pool, fragment, cache, work, active,
                 device, encryptedEnd, hold, stop>>

IoFail ==
  /\ io.pc = "perform" /\ IoKind # "flush" /\ MayFail
  /\ irp[io.request.irp].status = "ok"
  /\ SetStatus(io.request.irp, "error")
  /\ io' = [io EXCEPT !.pc = "finish"]
  /\ UNCHANGED <<gate, main, completion, pool, fragment, cache, work, active, device,
                 encryptedEnd, hold, stop>>

IoWrite ==
  LET r == io.request IN
  /\ io.pc = "perform" /\ IoKind = "write" /\ irp[r.irp].status = "ok"
  /\ device' = [device EXCEPT ![r.sector] = fragment[r.buffer].content]
  /\ irp' = [irp EXCEPT ![r.irp].seen[r.sector] = irp[r.irp].op.value]
  /\ io' = [io EXCEPT !.pc = "finish"]
  /\ UNCHANGED <<gate, main, completion, pool, fragment, cache, work, active,
                 encryptedEnd, hold, stop>>

\* TCCachedRead: from the read-ahead buffer if it holds the sector.
IoRead ==
  LET r == io.request IN
  /\ io.pc = "perform" /\ IoKind = "read" /\ irp[r.irp].status = "ok"
  /\ fragment' = [fragment EXCEPT ![r.buffer].content =
       IF cache.valid /\ cache.sector = r.sector THEN cache.content ELSE device[r.sector]]
  /\ irp' = [irp EXCEPT ![r.irp].seen[r.sector] = device[r.sector].value]
  /\ io' = [io EXCEPT !.pc = "finish"]
  /\ UNCHANGED <<gate, main, completion, pool, cache, work, active, device,
                 encryptedEnd, hold, stop>>

FreeFragment(b) == [fragment EXCEPT ![b] = [free |-> TRUE, content |-> NoContent]]

\* (Mutant: a write leaves the read-ahead buffer valid.)
IoFinishWriteKeepsCache ==
  /\ io.pc = "finish" /\ IoKind = "write"
  /\ fragment' = FreeFragment(io.request.buffer)
  /\ io' = [io EXCEPT !.pc = IF io.request.last THEN "complete" ELSE "release"]
  /\ UNCHANGED <<irp, gate, main, completion, pool, cache, work, active, device,
                 encryptedEnd, hold, stop>>

IoFinishWrite ==
  /\ io.pc = "finish" /\ IoKind = "write"
  /\ cache' = NoCache
  /\ fragment' = FreeFragment(io.request.buffer)
  /\ io' = [io EXCEPT !.pc = IF io.request.last THEN "complete" ELSE "release"]
  /\ UNCHANGED <<irp, gate, main, completion, pool, work, active, device,
                 encryptedEnd, hold, stop>>

\* (Mutant: reading ahead is not counted as outstanding I/O.)
UncountedReadAhead == gate

CountReadAhead == [gate EXCEPT !.outstanding = @ + 1]

IoIdle == [io EXCEPT !.pc = "next", !.request = NoRequest]

\* The data moves to the IRP's buffer and the request to the completion
\* thread.  Reading ahead counts as outstanding I/O from before that moment.
IoFinishRead ==
  LET r == io.request
      readAhead == r.last /\ irp[r.irp].status = "ok" /\ io.pending = 0
  IN
  /\ io.pc = "finish" /\ IoKind = "read"
  /\ irp' = IF irp[r.irp].status = "ok"
            THEN [irp EXCEPT ![r.irp].data[r.sector] = fragment[r.buffer].content]
            ELSE irp
  /\ fragment' = FreeFragment(r.buffer)
  /\ gate' = IF readAhead THEN CountReadAhead ELSE gate
  /\ completion' = [completion EXCEPT !.queue = Append(@, r), !.notEmpty = TRUE]
  /\ io' = IF readAhead THEN [io EXCEPT !.pc = "readAhead"] ELSE IoIdle
  /\ UNCHANGED <<main, pool, cache, work, active, device, encryptedEnd, hold, stop>>

\* LastReadOffset is that of the request just queued.
IoReadAhead ==
  LET s == io.request.sector + 1 IN
  /\ io.pc = "readAhead"
  /\ \E st \in Outcomes :
       cache' = IF s \in Sectors /\ st = "ok"
                THEN [valid |-> TRUE, sector |-> s, content |-> device[s]] ELSE NoCache
  /\ io' = [io EXCEPT !.pc = "readAheadDone"]
  /\ UNCHANGED <<irp, gate, main, completion, pool, fragment, work, active, device,
                 encryptedEnd, hold, stop>>

IoReadAheadDone ==
  /\ io.pc = "readAheadDone"
  /\ DecrementOutstandingIoCount
  /\ io' = IoIdle
  /\ UNCHANGED <<irp, main, completion, pool, fragment, cache, work, active, device,
                 encryptedEnd, hold, stop>>

IoComplete ==
  /\ io.pc = "complete"
  /\ QueueIrpCompletion(io.request.irp)
  /\ io' = [io EXCEPT !.pc = "release"]
  /\ UNCHANGED <<irp, gate, main, completion, pool, fragment, cache, device,
                 encryptedEnd, hold, stop>>

IoRelease ==
  /\ io.pc = "release"
  /\ ReleaseRequest
  /\ io' = IoIdle
  /\ UNCHANGED <<irp, gate, main, completion, fragment, cache, work, active, device,
                 encryptedEnd, hold, stop>>

-----------------------------------------------------------------------------
(* CompletionThreadProc.                                                   *)

CompletionWait ==
  /\ completion.pc = "wait" /\ completion.notEmpty
  /\ completion' = [completion EXCEPT !.notEmpty = FALSE,
                                      !.pc = IF gate.threadExit THEN "exited" ELSE "next"]
  /\ UNCHANGED <<irp, gate, main, io, pool, fragment, cache, work, active, device,
                 encryptedEnd, hold, stop>>

CompletionNext ==
  /\ completion.pc = "next"
  /\ completion' =
       IF completion.queue = <<>>
       THEN [completion EXCEPT !.pc = IF gate.threadExit THEN "exited" ELSE "wait"]
       ELSE [completion EXCEPT !.queue = Tail(@), !.request = Head(completion.queue),
                               !.pc = "decrypt"]
  /\ UNCHANGED <<irp, gate, main, io, pool, fragment, cache, work, active, device,
                 encryptedEnd, hold, stop>>

\* (Mutant: any fragment completes the IRP.)
CompletionDecryptCompletes ==
  LET r == completion.request IN
  /\ completion.pc = "decrypt"
  /\ irp' = IF r.encrypted /\ irp[r.irp].status = "ok"
            THEN [irp EXCEPT ![r.irp].data[r.sector] = Decrypt(@)] ELSE irp
  /\ completion' = [completion EXCEPT !.pc = "complete"]
  /\ UNCHANGED <<gate, main, io, pool, fragment, cache, work, active, device,
                 encryptedEnd, hold, stop>>

CompletionDecrypt ==
  LET r == completion.request IN
  /\ completion.pc = "decrypt"
  /\ irp' = IF r.encrypted /\ irp[r.irp].status = "ok"
            THEN [irp EXCEPT ![r.irp].data[r.sector] = Decrypt(@)] ELSE irp
  /\ completion' = [completion EXCEPT !.pc = IF r.last THEN "complete" ELSE "release"]
  /\ UNCHANGED <<gate, main, io, pool, fragment, cache, work, active, device,
                 encryptedEnd, hold, stop>>

CompletionComplete ==
  /\ completion.pc = "complete"
  /\ QueueIrpCompletion(completion.request.irp)
  /\ completion' = [completion EXCEPT !.pc = "release"]
  /\ UNCHANGED <<irp, gate, main, io, pool, fragment, cache, device, encryptedEnd,
                 hold, stop>>

CompletionRelease ==
  /\ completion.pc = "release"
  /\ ReleaseRequest
  /\ completion' = [completion EXCEPT !.pc = "next", !.request = NoRequest]
  /\ UNCHANGED <<irp, gate, main, io, fragment, cache, work, active, device,
                 encryptedEnd, hold, stop>>

-----------------------------------------------------------------------------
(* CompleteIrpWorkItemRoutine, in a system worker thread.                  *)

MoveWork(k, from, to) ==
  /\ work[k].pc = from
  /\ work' = [work EXCEPT ![k].pc = to]

\* OnItemCompleted, which does not free the item yet.
WorkCompleteItem(k) ==
  /\ MoveWork(k, "completeItem", "completeIrp")
  /\ DecrementOutstandingIoCount
  /\ UNCHANGED <<irp, main, io, completion, pool, fragment, cache, active, device,
                 encryptedEnd, hold, stop>>

WorkCompleteIrp(k) ==
  /\ MoveWork(k, "completeIrp", "decrement")
  /\ irp' = [irp EXCEPT ![work[k].irp].state = "completed"]
  /\ UNCHANGED <<gate, main, io, completion, pool, fragment, cache, active, device,
                 encryptedEnd, hold, stop>>

\* InterlockedDecrement, and NoActiveWorkItemsEvent in a step of its own.
WorkDecrement(k) ==
  /\ MoveWork(k, "decrement", IF active.count = 1 THEN "signal" ELSE "return")
  /\ active' = [active EXCEPT !.count = @ - 1]
  /\ UNCHANGED <<irp, gate, main, io, completion, pool, fragment, cache, device,
                 encryptedEnd, hold, stop>>

WorkSignal(k) ==
  /\ MoveWork(k, "signal", "return")
  /\ active' = [active EXCEPT !.none = TRUE]
  /\ UNCHANGED <<irp, gate, main, io, completion, pool, fragment, cache, device,
                 encryptedEnd, hold, stop>>

\* Back to the free list, from where another thread may take the work item
\* while this routine has its queue item still to release.
WorkReturn(k) ==
  /\ work[k].pc = "return"
  /\ work' = [work EXCEPT ![k] = [pc |-> "free", irp |-> NoIrp]]
  /\ active' = [active EXCEPT !.returning = @ + 1]
  /\ UNCHANGED <<irp, gate, main, io, completion, pool, fragment, cache,
                 device, encryptedEnd, hold, stop>>

WorkReleaseItem ==
  /\ active.returning > 0
  /\ active' = [active EXCEPT !.returning = @ - 1]
  /\ pool' = [pool EXCEPT !.items = @ + 1, !.freed = TRUE]
  /\ UNCHANGED <<irp, gate, main, io, completion, fragment, cache, work, device,
                 encryptedEnd, hold, stop>>

-----------------------------------------------------------------------------
(* EncryptedIoQueueHoldWhenIdle, what its caller does while the queue is   *)
(* held, and EncryptedIoQueueResumeFromHold.                               *)

MoveHold(from, to) == hold = from /\ hold' = to

HoldBegin ==
  /\ MayHold /\ ~gate.stopPending
  /\ MoveHold("idle", "check")
  /\ gate' = [gate EXCEPT !.suspendPending = TRUE]
  /\ UNCHANGED <<irp, main, io, completion, pool, fragment, cache, work, active,
                 device, encryptedEnd, stop>>

HoldCheck ==
  /\ MoveHold("check", IF gate.outstanding > 0 THEN "wait" ELSE "suspend")
  /\ UNCHANGED <<irp, gate, main, io, completion, pool, fragment, cache, work,
                 active, device, encryptedEnd, stop>>

HoldWoken ==
  /\ gate.noOutstandingIo
  /\ MoveHold("wait", "recheck")
  /\ gate' = [gate EXCEPT !.noOutstandingIo = FALSE]
  /\ UNCHANGED <<irp, main, io, completion, pool, fragment, cache, work, active,
                 device, encryptedEnd, stop>>

\* The wait times out, or new requests came in after it: the hold fails.
HoldFail ==
  /\ hold = "wait" \/ (hold = "recheck" /\ gate.outstanding > 0)
  /\ hold' = "idle"
  /\ gate' = [gate EXCEPT !.suspendPending = FALSE]
  /\ UNCHANGED <<irp, main, io, completion, pool, fragment, cache, work, active,
                 device, encryptedEnd, stop>>

HoldRecheck ==
  /\ gate.outstanding = 0
  /\ MoveHold("recheck", "check")
  /\ UNCHANGED <<irp, gate, main, io, completion, pool, fragment, cache, work,
                 active, device, encryptedEnd, stop>>

HoldSuspend ==
  /\ MoveHold("suspend", "verify")
  /\ gate' = [gate EXCEPT !.queueResumed = FALSE, !.suspended = TRUE]
  /\ UNCHANGED <<irp, main, io, completion, pool, fragment, cache, work, active,
                 device, encryptedEnd, stop>>

\* (Mutant: QueueResumedEvent is not set when a hold starts again.)
HoldUndoSilently ==
  /\ gate.outstanding > 0
  /\ MoveHold("verify", "check")
  /\ gate' = [gate EXCEPT !.suspended = FALSE]
  /\ UNCHANGED <<irp, main, io, completion, pool, fragment, cache, work, active,
                 device, encryptedEnd, stop>>

\* A request came in before Suspended was set: let it pass and start again.
HoldUndo ==
  /\ gate.outstanding > 0
  /\ MoveHold("verify", "check")
  /\ gate' = [gate EXCEPT !.queueResumed = TRUE, !.suspended = FALSE]
  /\ UNCHANGED <<irp, main, io, completion, pool, fragment, cache, work, active,
                 device, encryptedEnd, stop>>

\* (Mutant: the counter is not read again once Suspended is set.)
HoldSucceedUnverified ==
  /\ MoveHold("verify", "held")
  /\ cache' = NoCache
  /\ gate' = [gate EXCEPT !.suspendPending = FALSE]
  /\ UNCHANGED <<irp, main, io, completion, pool, fragment, work, active, device,
                 encryptedEnd, stop>>

HoldSucceed ==
  /\ gate.outstanding = 0
  /\ MoveHold("verify", "held")
  /\ cache' = NoCache
  /\ gate' = [gate EXCEPT !.suspendPending = FALSE]
  /\ UNCHANGED <<irp, main, io, completion, pool, fragment, work, active, device,
                 encryptedEnd, stop>>

\* The holder reads, en- or decrypts and writes the next block of the drive ...
HolderConvert ==
  /\ \/ /\ "encrypt" \in Directions /\ encryptedEnd + 1 \in Sectors
        /\ MoveHold("held", "encrypted")
        /\ device' = [device EXCEPT ![encryptedEnd + 1] = Encrypt(@)]
     \/ /\ "decrypt" \in Directions /\ encryptedEnd # -1
        /\ MoveHold("held", "decrypted")
        /\ device' = [device EXCEPT ![encryptedEnd] = Decrypt(@)]
  /\ UNCHANGED <<irp, gate, main, io, completion, pool, fragment, cache, work,
                 active, encryptedEnd, stop>>

\* ... and moves the end of the encrypted area.
HolderMoveEnd ==
  /\ hold \in {"encrypted", "decrypted"}
  /\ encryptedEnd' = IF hold = "encrypted" THEN encryptedEnd + 1 ELSE encryptedEnd - 1
  /\ hold' = "done"
  /\ UNCHANGED <<irp, gate, main, io, completion, pool, fragment, cache, work,
                 active, device, stop>>

ResumeFromHold ==
  /\ hold \in {"held", "done"}
  /\ hold' = "idle"
  /\ gate' = [gate EXCEPT !.suspended = FALSE, !.queueResumed = TRUE]
  /\ UNCHANGED <<irp, main, io, completion, pool, fragment, cache, work, active,
                 device, encryptedEnd, stop>>

-----------------------------------------------------------------------------
(* EncryptedIoQueueStop.  Its callers stop a queue that nobody holds.      *)

MoveStop(from, to) == stop = from /\ stop' = to

StopBegin ==
  /\ MayStop /\ hold = "idle"
  /\ MoveStop("idle", "drain")
  /\ gate' = [gate EXCEPT !.stopPending = TRUE]
  /\ UNCHANGED <<irp, main, io, completion, pool, fragment, cache, work, active,
                 device, encryptedEnd, hold>>

StopDrain ==
  /\ MoveStop("drain", IF gate.outstanding > 0 THEN "waitIdle" ELSE "stopMain")
  /\ gate' = [gate EXCEPT !.threadExit = (gate.outstanding = 0)]
  /\ UNCHANGED <<irp, main, io, completion, pool, fragment, cache, work, active,
                 device, encryptedEnd, hold>>

StopWoken ==
  /\ gate.noOutstandingIo
  /\ MoveStop("waitIdle", "drain")
  /\ gate' = [gate EXCEPT !.noOutstandingIo = FALSE]
  /\ UNCHANGED <<irp, main, io, completion, pool, fragment, cache, work, active,
                 device, encryptedEnd, hold>>

\* TCStopThread for each thread: wake it up, then wait for it to end.
StopThread ==
  /\ \/ /\ MoveStop("stopMain", "joinMain")
        /\ main' = [main EXCEPT !.notEmpty = TRUE]
        /\ UNCHANGED <<io, completion>>
     \/ /\ MoveStop("stopIo", "joinIo")
        /\ io' = [io EXCEPT !.notEmpty = TRUE]
        /\ UNCHANGED <<main, completion>>
     \/ /\ MoveStop("stopCompletion", "joinCompletion")
        /\ completion' = [completion EXCEPT !.notEmpty = TRUE]
        /\ UNCHANGED <<main, io>>
  /\ UNCHANGED <<irp, gate, pool, fragment, cache, work, active, device,
                 encryptedEnd, hold>>

StopJoin ==
  /\ \/ main.pc = "exited" /\ MoveStop("joinMain", "stopIo")
     \/ io.pc = "exited" /\ MoveStop("joinIo", "stopCompletion")
     \/ completion.pc = "exited" /\ MoveStop("joinCompletion", "resetActive")
  /\ UNCHANGED <<irp, gate, main, io, completion, pool, fragment, cache, work,
                 active, device, encryptedEnd, hold>>

StopResetActive ==
  /\ MoveStop("resetActive", "testActive")
  /\ active' = [active EXCEPT !.none = FALSE]
  /\ UNCHANGED <<irp, gate, main, io, completion, pool, fragment, cache, work,
                 device, encryptedEnd, hold>>

\* With no active work item left the work items and all buffers are freed.
StopTestActive ==
  /\ MoveStop("testActive", IF active.count > 0 THEN "waitActive" ELSE "freed")
  /\ UNCHANGED <<irp, gate, main, io, completion, pool, fragment, cache, work,
                 active, device, encryptedEnd, hold>>

StopWaitActive ==
  /\ active.none
  /\ MoveStop("waitActive", "resetActive")
  /\ UNCHANGED <<irp, gate, main, io, completion, pool, fragment, cache, work,
                 active, device, encryptedEnd, hold>>

-----------------------------------------------------------------------------

Submit(i) == RejectIrp(i) \/ AcceptIrp(i) \/ EnqueueIrp(i)

MainThreadProc ==
  \/ MainWait \/ MainNext \/ MainTestSuspended \/ MainResumed
  \/ MainPoolEmpty("item", pool.items, "itemWait") \/ MainPoolWait("itemWait", "item")
  \/ MainGetItem \/ MainRefuse \/ MainStart \/ MainReadMisaligned \/ MainComplete
  \/ MainCountRequest
  \/ MainPoolEmpty("getRequest", pool.requests, "requestWait")
  \/ MainPoolWait("requestWait", "getRequest")
  \/ MainGetRequest \/ MainQueueFlush \/ MainQueueFragment

IoThreadProc ==
  \/ IoWait \/ IoNext \/ IoFlush \/ IoSkip \/ IoFail \/ IoWrite \/ IoRead
  \/ IoFinishWrite \/ IoFinishRead \/ IoReadAhead \/ IoReadAheadDone
  \/ IoComplete \/ IoRelease

CompletionThreadProc ==
  \/ CompletionWait \/ CompletionNext \/ CompletionDecrypt
  \/ CompletionComplete \/ CompletionRelease

CompleteIrpWorkItemRoutine(k) ==
  \/ WorkCompleteItem(k) \/ WorkCompleteIrp(k) \/ WorkDecrement(k)
  \/ WorkSignal(k) \/ WorkReturn(k)

HoldWhenIdle ==
  \/ HoldCheck \/ HoldWoken \/ HoldFail \/ HoldRecheck \/ HoldSuspend
  \/ HoldUndo \/ HoldSucceed

Stop ==
  \/ StopDrain \/ StopWoken \/ StopThread \/ StopJoin
  \/ StopResetActive \/ StopTestActive \/ StopWaitActive

Next ==
  \/ \E i \in Irps : (\E o \in Ops : AddIrp(i, o)) \/ Submit(i) \/ Collect(i)
  \/ MainThreadProc \/ IoThreadProc \/ CompletionThreadProc
  \/ \E k \in WorkItems : CompleteIrpWorkItemRoutine(k)
  \/ WorkReleaseItem
  \/ HoldBegin \/ HoldWhenIdle \/ HolderConvert \/ HolderMoveEnd \/ ResumeFromHold
  \/ StopBegin \/ Stop

Spec == Init /\ [][Next]_vars

\* Threads and work items are scheduled, a sender that entered AddIrp goes
\* through with it, and who holds the queue resumes it.  Nobody has to send an
\* IRP, to hold the queue or to stop it.
FairSpec ==
  /\ Spec
  /\ \A i \in Irps : WF_vars(Submit(i))
  /\ WF_vars(MainThreadProc) /\ WF_vars(IoThreadProc) /\ WF_vars(CompletionThreadProc)
  /\ \A k \in WorkItems : WF_vars(CompleteIrpWorkItemRoutine(k))
  /\ WF_vars(WorkReleaseItem)
  /\ WF_vars(HoldWhenIdle \/ HolderMoveEnd \/ ResumeFromHold)
  /\ WF_vars(Stop)

-----------------------------------------------------------------------------
(* Properties.                                                             *)

Requests == [irp : Irps \cup {NoIrp}, sector : Sectors, last : BOOLEAN,
             buffer : Buffers \cup {NoBuffer}, encrypted : BOOLEAN]
Contents == [value : Values \cup {NoValue}, layer : -1 .. 2]

\* Type invariant.  OutstandingIoCount counts each IRP once and the read-ahead,
\* IoThreadPendingRequestCount each request once and one about to get a buffer.
TypeOK ==
  /\ \A i \in Irps :
       /\ irp[i].state \in {"free", "counted", "accepted", "queued", "item", "completed"}
       /\ irp[i].op \in Ops /\ irp[i].status \in {"ok", "error"}
       /\ irp[i].data \in [Sectors -> Contents]
       /\ irp[i].seen \in [Sectors -> Values \cup {NoValue}]
  /\ gate.outstanding \in 0 .. Cardinality(Irps) + 1
  /\ main.request \in Requests /\ io.request \in Requests
  /\ completion.request \in Requests
  /\ io.pending \in 0 .. RequestCount + 1
  /\ pool.items \in 0 .. ItemCount /\ pool.requests \in 0 .. RequestCount
  /\ fragment \in [Buffers -> [free : BOOLEAN, content : Contents]]
  /\ cache \in [valid : BOOLEAN, sector : Sectors, content : Contents]
  /\ device \in [Sectors -> Contents]
  /\ encryptedEnd \in {-1} \cup Sectors
  /\ active.count \in 0 .. Cardinality(WorkItems) /\ active.returning \in 0 .. ItemCount

IsHeld == hold \in {"held", "encrypted", "decrypted", "done"}

\* While EncryptedIoQueueHoldWhenIdle's caller holds the queue no thread of the
\* queue accesses the device, a fragment, the read-ahead buffer or the encrypted
\* area: a request that came in waits in the main thread, and reading ahead
\* counts as outstanding I/O until its data is there.
HeldQueueIsQuiet ==
  IsHeld =>
    /\ io.queue = <<>> /\ completion.queue = <<>>
    /\ main.pc \in {"wait", "next", "taken", "held"}
    /\ io.pc \in {"wait", "next", "release"}
    /\ completion.pc \in {"wait", "next", "release"}
    /\ ~cache.valid
    /\ \A b \in Buffers : fragment[b].free

\* Each sector of the device is encrypted once inside the encrypted area and
\* plain outside, whatever was written while the area moved; only the sector
\* that the holder is converting is ahead of the area.
DiskMatchesArea ==
  \A s \in Sectors :
    device[s].layer =
      IF hold = "encrypted" /\ s = encryptedEnd + 1 THEN 1
      ELSE IF hold = "decrypted" /\ s = encryptedEnd THEN 0
      ELSE IF InEncryptedArea(s) THEN 1 ELSE 0

Live(i) == irp[i].state \in {"accepted", "queued", "item"}

\* The requests of IRP i that a thread will still use the item or the data of.
IsUnderWay(i) ==
  \/ main.irp = i
  \/ io.pc \in {"perform", "finish", "complete"} /\ io.request.irp = i
  \/ completion.pc \in {"decrypt", "complete"} /\ completion.request.irp = i
  \/ \E n \in DOMAIN io.queue : io.queue[n].irp = i
  \/ \E n \in DOMAIN completion.queue : completion.queue[n].irp = i

\* A work item that still has its IRP to complete.
Completing(k) == work[k].pc \in {"completeItem", "completeIrp"}

\* An IRP is handed to a work item once, and then neither its main buffer nor
\* its queue item is used by the queue's threads again: all its fragments came
\* before the one that completes it.
NoUseAfterCompletion ==
  \A k \in WorkItems : Completing(k) =>
    /\ irp[work[k].irp].state = "item"
    /\ ~IsUnderWay(work[k].irp)
    /\ \A j \in WorkItems : Completing(j) /\ work[j].irp = work[k].irp => j = k

\* EncryptedIoQueueStop returns only when every IRP that AddIrp accepted has been
\* completed: those that came before StopPending, or raced with it, included.
StopCompletesIrps ==
  stop = "freed" => \A i \in Irps : ~Live(i)

\* The comment "Wait for active work items to complete" of EncryptedIoQueueStop,
\* and the assertion of FreePoolBuffers that no buffer is in use: when the work
\* items and the buffers are freed, no completion routine has work left to do.
StopWaitsForWorkItems ==
  stop = "freed" =>
    /\ \A k \in WorkItems : work[k].pc = "free"
    /\ active.returning = 0

IrpPhase(i) ==
  CASE irp[i].state = "free" -> "free"
    [] irp[i].state = "completed" -> "completed"
    [] OTHER -> "pending"

\* What the IRP's buffer shows its sender: the value of a sector only if the
\* sector was decrypted exactly as often as it was encrypted.
Returned(i) ==
  [s \in Sectors |->
     IF irp[i].data[s].layer = 0 THEN irp[i].data[s].value ELSE NoValue]

Succeeded(i) == irp[i].state = "completed" /\ irp[i].status = "ok"

Plain == INSTANCE PlainDisk WITH
  disk <- [s \in Sectors |-> device[s].value],
  phase <- [i \in Irps |-> IrpPhase(i)],
  op <- [i \in Irps |-> irp[i].op],
  access <- [i \in Irps |->
    IF Succeeded(i) /\ irp[i].op.kind \in {"read", "misaligned"}
    THEN Returned(i) ELSE irp[i].seen],
  success <- [i \in Irps |-> Succeeded(i)]

\* To its senders the queue is a plain disk: a read returns, decrypted, what the
\* device held when the queue read it, whatever writes, read-ahead, two reused
\* fragment buffers and a moving encrypted area did meanwhile.
ImplementsPlainDisk == Plain!Spec

\* An IRP that AddIrp accepted is completed, across holds and a stop.
IrpsComplete == \A i \in Irps : (irp[i].state = "accepted") ~> (irp[i].state = "completed")

\* EncryptedIoQueueStop returns, if senders stop sending: an IRP that AddIrp
\* refuses is counted for a moment, and Stop may find the count positive each
\* time it looks as long as refused senders try again.
StopReturns ==
  <>[](\A i \in Irps : irp[i].state # "counted") => ((stop = "drain") ~> (stop = "freed"))

=============================================================================
