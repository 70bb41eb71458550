-------------------------- MODULE HeaderKeyDerivation --------------------------
(***************************************************************************)
(* ReadVolumeHeader of the C code base (src/src/Common/Volumes.c) when no  *)
(* PRF was selected: it tries all of them on the encryption thread pool.   *)
(*                                                                         *)
(* The reader keeps at most ThreadCount derivations under way and tests    *)
(* each key on the header as it becomes ready.  Work items, events and the *)
(* count of outstanding derivations are the reader's memory; the workers   *)
(* of the pool use it through pointers, and the reader frees it once       *)
(* noOutstandingWorkItemEvent tells it that no derivation is outstanding.  *)
(* The ring of the pool has more slots than there are PRFs, so that        *)
(* enqueueing never waits; one thread reads one header.                    *)
(***************************************************************************)
EXTENDS Integers, Sequences, FiniteSets

CONSTANTS
  LastPrf,      \* LAST_PRF_ID
  Skipped,      \* PRFs that are not tried (Argon2id before the system is booted)
  Workers,      \* the threads of the pool; their number is ThreadCount
  MayAbort      \* bound: whether the user aborts and derivations or tests fail

Prfs == 1 .. LastPrf
ThreadCount == Cardinality(Workers)

\* What the proofs assume: there is a PRF, and a pool has finitely many threads.
ConstantsOK ==
  /\ LastPrf \in Nat \ {0} /\ Skipped \subseteq Prfs
  /\ IsFiniteSet(Workers) /\ MayAbort \in BOOLEAN

VARIABLES
  reader,       \* pc, enqPkcs5Prf, queuedWorkItems and the item at hand
  items,        \* keyDerivationWorkItems: Free, KeyReady, DerivationResult, Pkcs5Prf
  count,        \* *outstandingWorkItemCount
  none,         \* *noOutstandingWorkItemEvent
  completed,    \* *keyDerivationCompletedEvent
  abort,        \* *effectiveAbortKeyDerivation
  ring,         \* the items in the queue of the pool
  worker,       \* the threads of the pool
  tested,       \* history: the PRFs whose derivation failed or whose key was tested
  status        \* outcome of ReadVolumeHeader

vars == <<reader, items, count, none, completed, abort, ring, worker, tested, status>>

FreeItem == [free |-> TRUE, ready |-> FALSE, failed |-> FALSE, prf |-> 1]

Init ==
  /\ reader = [pc |-> "loop", enq |-> 1, queued |-> 0, item |-> 1]
  /\ items = [i \in Prfs |-> FreeItem]
  /\ count = 0
  /\ none = TRUE /\ completed = FALSE
  /\ abort = FALSE
  /\ ring = <<>>
  /\ worker = [w \in Workers |-> [pc |-> "idle", item |-> 1]]
  /\ tested = {} /\ status = "none"

First(S) == CHOOSE i \in S : \A j \in S : i <= j
FreeItems == {i \in Prfs : items[i].free}
ReadyItems == {i \in Prfs : ~items[i].free /\ items[i].ready}

-----------------------------------------------------------------------------
(* The reader.                                                             *)

MoveReader(from, to) ==
  /\ reader.pc = from
  /\ reader' = [reader EXCEPT !.pc = to]

More == reader.enq <= LastPrf \/ reader.queued > 0

\* An error, an abort by the user, or the end of the loop.
GiveUp(st) ==
  /\ reader' = [reader EXCEPT !.pc = "err"]
  /\ status' = st
  /\ UNCHANGED <<items, count, none, completed, abort, ring, worker, tested>>

LoopEnd == reader.pc = "loop" /\ ~More /\ GiveUp("wrong")

UserAbort ==
  /\ MayAbort
  /\ \/ reader.pc = "loop" /\ More
     \/ reader.pc = "scan" /\ ReadyItems # {}
     \/ reader.pc = "test"
  /\ GiveUp("abort")

SkipPrf ==
  /\ reader.pc = "loop" /\ reader.enq \in Skipped
  /\ reader' = [reader EXCEPT !.enq = @ + 1]
  /\ UNCHANGED <<items, count, none, completed, abort, ring, worker, tested, status>>

MayEnqueue == reader.queued < ThreadCount /\ reader.enq <= LastPrf

\* The first free work item, and EncryptionThreadPoolBeginKeyDerivation.
BeginKeyDerivation ==
  LET i == First(FreeItems) IN
  /\ reader.pc = "loop" /\ reader.enq \notin Skipped /\ MayEnqueue
  /\ items' = [items EXCEPT ![i] = [FreeItem EXCEPT !.free = FALSE, !.prf = reader.enq]]
  /\ reader' = [reader EXCEPT !.pc = "count", !.item = i]
  /\ UNCHANGED <<count, none, completed, abort, ring, worker, tested, status>>

CountWorkItem ==
  /\ MoveReader("count", "clear")
  /\ count' = count + 1
  /\ UNCHANGED <<items, none, completed, abort, ring, worker, tested, status>>

ClearNoOutstanding ==
  /\ MoveReader("clear", "enqueue")
  /\ none' = FALSE
  /\ UNCHANGED <<items, count, completed, abort, ring, worker, tested, status>>

\* Back to the loop while there are PRFs to enqueue.
Enqueue ==
  /\ reader.pc = "enqueue"
  /\ ring' = Append(ring, reader.item)
  /\ reader' = [reader EXCEPT
       !.queued = @ + 1,
       !.pc = IF reader.enq < LastPrf THEN "loop" ELSE "scan",
       !.enq = IF reader.enq < LastPrf THEN @ + 1 ELSE @]
  /\ UNCHANGED <<items, count, none, completed, abort, worker, tested, status>>

\* (Mutant: enqPkcs5Prf is not set back for the next round.)
EnqueueLaterSkipping ==
  /\ reader.pc = "loop" /\ reader.enq \notin Skipped /\ More /\ ~MayEnqueue
  /\ reader' = [reader EXCEPT !.pc = "scan"]
  /\ UNCHANGED <<items, count, none, completed, abort, ring, worker, tested, status>>

\* No derivation can be added: the PRF's turn comes again after the wait.
EnqueueLater ==
  /\ reader.pc = "loop" /\ reader.enq \notin Skipped /\ More /\ ~MayEnqueue
  /\ reader' = [reader EXCEPT !.pc = "scan", !.enq = @ - 1]
  /\ UNCHANGED <<items, count, none, completed, abort, ring, worker, tested, status>>

\* A ready item is freed, whether its derivation failed or its key is tested next.
TakeReady ==
  LET i == First(ReadyItems) IN
  /\ reader.pc = "scan" /\ ReadyItems # {}
  /\ items' = [items EXCEPT ![i].free = TRUE]
  /\ reader' = [reader EXCEPT !.pc = IF items[i].failed THEN "scan" ELSE "test",
                              !.queued = @ - 1, !.item = i]
  /\ tested' = IF items[i].failed THEN tested \cup {items[i].prf} ELSE tested
  /\ UNCHANGED <<count, none, completed, abort, ring, worker, status>>

NothingReady ==
  /\ reader.pc = "scan" /\ ReadyItems = {}
  /\ reader' = IF reader.queued > 0 THEN [reader EXCEPT !.pc = "wait"]
               ELSE [reader EXCEPT !.pc = "loop", !.enq = @ + 1]
  /\ UNCHANGED <<items, count, none, completed, abort, ring, worker, tested, status>>

WaitForCompletion ==
  /\ completed
  /\ MoveReader("wait", "scan")
  /\ completed' = FALSE
  /\ UNCHANGED <<items, count, none, abort, ring, worker, tested, status>>

\* The key is tried on the header with every encryption algorithm.
WrongKey ==
  /\ reader.pc = "test"
  /\ tested' = tested \cup {items[reader.item].prf}
  /\ reader' = [reader EXCEPT !.pc = "loop", !.enq = @ + 1]
  /\ UNCHANGED <<items, count, none, completed, abort, ring, worker, status>>

TestError == MayAbort /\ reader.pc = "test" /\ GiveUp("error")

\* The other derivations are aborted, unless only the header keys were asked for.
RightKey ==
  /\ MoveReader("test", "ret")
  /\ abort' \in {abort, TRUE} /\ status' = "ok"
  /\ UNCHANGED <<items, count, none, completed, ring, worker, tested>>

SignalAbort ==
  /\ MoveReader("err", "ret")
  /\ abort' = TRUE
  /\ UNCHANGED <<items, count, none, completed, ring, worker, tested, status>>

\* "Wait for all outstanding threads to finish or cancel", then free everything.
CleanUp ==
  /\ none
  /\ MoveReader("ret", "returned")
  /\ none' = FALSE
  /\ UNCHANGED <<items, count, completed, abort, ring, worker, tested, status>>

-----------------------------------------------------------------------------
(* DeriveKeyWork in EncryptionThreadProc.                                  *)

MoveWorker(w, from, to) ==
  /\ worker[w].pc = from
  /\ worker' = [worker EXCEPT ![w].pc = to]

Dequeue(w) ==
  /\ worker[w].pc = "idle" /\ ring # <<>>
  /\ worker' = [worker EXCEPT ![w] = [pc |-> "derive", item |-> Head(ring)]]
  /\ ring' = Tail(ring)
  /\ UNCHANGED <<reader, items, count, none, completed, abort, tested, status>>

\* The derivation ends early once it sees the abort flag.
DeriveKey(w) ==
  /\ MoveWorker(w, "derive", "ready")
  /\ \E failed \in IF MayAbort \/ abort THEN BOOLEAN ELSE {FALSE} :
       items' = [items EXCEPT ![worker[w].item].failed = failed]
  /\ UNCHANGED <<reader, count, none, completed, abort, ring, tested, status>>

SetKeyReady(w) ==
  /\ MoveWorker(w, "ready", "signal")
  /\ items' = [items EXCEPT ![worker[w].item].ready = TRUE]
  /\ UNCHANGED <<reader, count, none, completed, abort, ring, tested, status>>

\* (Mutant: the reader is not told.)
SkipSignal(w) ==
  /\ MoveWorker(w, "signal", "decrement")
  /\ UNCHANGED <<reader, items, count, none, completed, abort, ring, tested, status>>

SignalCompletion(w) ==
  /\ MoveWorker(w, "signal", "decrement")
  /\ completed' = TRUE
  /\ UNCHANGED <<reader, items, count, none, abort, ring, tested, status>>

DecrementCount(w) ==
  /\ MoveWorker(w, "decrement", IF count = 1 THEN "signalNone" ELSE "free")
  /\ count' = count - 1
  /\ UNCHANGED <<reader, items, none, completed, abort, ring, tested, status>>

SignalNoOutstanding(w) ==
  /\ MoveWorker(w, "signalNone", "free")
  /\ none' = TRUE
  /\ UNCHANGED <<reader, items, count, completed, abort, ring, tested, status>>

FreeSlot(w) ==
  /\ MoveWorker(w, "free", "idle")
  /\ UNCHANGED <<reader, items, count, none, completed, abort, ring, tested, status>>

-----------------------------------------------------------------------------

ReadVolumeHeader ==
  \/ LoopEnd \/ SkipPrf \/ BeginKeyDerivation \/ CountWorkItem \/ ClearNoOutstanding
  \/ Enqueue \/ EnqueueLater \/ TakeReady \/ NothingReady \/ WaitForCompletion
  \/ WrongKey \/ RightKey \/ TestError \/ UserAbort \/ SignalAbort \/ CleanUp

EncryptionThreadProc(w) ==
  \/ Dequeue(w) \/ DeriveKey(w) \/ SetKeyReady(w) \/ SignalCompletion(w)
  \/ DecrementCount(w) \/ SignalNoOutstanding(w) \/ FreeSlot(w)

Next == ReadVolumeHeader \/ \E w \in Workers : EncryptionThreadProc(w)

Spec == Init /\ [][Next]_vars

FairSpec ==
  /\ Spec
  /\ WF_vars(ReadVolumeHeader)
  /\ \A w \in Workers : WF_vars(EncryptionThreadProc(w))

-----------------------------------------------------------------------------

\* Type invariant; queuedWorkItems is the number of work items in use, but for
\* the one being enqueued, and a slot's PRF is one that was reached.
TypeOK ==
  /\ reader.enq \in 0 .. LastPrf + 1
  /\ reader.queued \in 0 .. ThreadCount
  /\ reader.queued = Cardinality(Prfs \ FreeItems)
       - (IF reader.pc \in {"count", "clear", "enqueue"} THEN 1 ELSE 0)
  /\ count \in 0 .. LastPrf
  /\ Len(ring) <= ThreadCount
  /\ tested \subseteq Prfs \ Skipped

\* "Wrong password" is the answer only after every PRF was tried, however the
\* completions interleaved with the loop that winds enqPkcs5Prf back.
NoPrfMissed == status = "wrong" => tested = Prfs \ Skipped

Working == {"derive", "ready", "signal", "decrement", "signalNone"}

\* "Cleanup is now synchronous because we already waited for all threads to
\* stop" (Volumes.c): once the reader freed its memory, no worker uses it.
MemoryOutlivesWorkers ==
  reader.pc = "returned" =>
    ring = <<>> /\ \A w \in Workers : worker[w].pc \notin Working

\* Reading a header ends.
ReaderReturns == <>(reader.pc = "returned")

=============================================================================
