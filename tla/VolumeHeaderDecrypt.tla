-------------------------- MODULE VolumeHeaderDecrypt --------------------------
(***************************************************************************)
(* VolumeHeader::Decrypt of the C++ code base when no KDF was selected     *)
(* (src/src/Volume/VolumeHeader.cpp), with the key derivation work of      *)
(* EncryptionThreadPool.cpp.                                               *)
(*                                                                         *)
(* The reader enqueues all derivations, tests the keys as they become      *)
(* ready, and returns or throws only after DrainKeyDerivationWorkItems:    *)
(* its locals, which the workers use through pointers, end with it.  The   *)
(* count of outstanding derivations and noOutstandingWorkItemEvent change  *)
(* under KeyDerivationCompletionMutex.  The ring of the pool has more      *)
(* slots than there are derivations.                                       *)
(***************************************************************************)
EXTENDS Integers, Sequences, FiniteSets

CONSTANTS
  KdfCount,     \* keyDerivationFunctions.size()
  Workers,      \* the threads of the pool
  Nobody,       \* the holder of a free mutex
  MayThrow      \* bound: whether enqueueing, derivations or tests throw

Kdfs == 1 .. KdfCount

ASSUME KdfAssumption == KdfCount \in Nat /\ KdfCount > 1
ASSUME WorkersAssumption == IsFiniteSet(Workers) /\ Nobody \notin Workers

VARIABLES
  reader,       \* pc, enqueuedWorkItemCount, processedWorkItemCount, the place in the list
                \* of work items, processed (in this pass over it), workItemsDrained
  item,         \* Completed, ItemException, Result and Processed of each work item
  count,        \* outstandingWorkItemCount
  none,         \* noOutstandingWorkItemEvent
  completed,    \* keyDerivationCompletedEvent
  abort,        \* abortKeyDerivation
  mutex,        \* KeyDerivationCompletionMutex
  ring,         \* the work items in the queue of the pool
  worker,       \* the threads of the pool
  outcome       \* "none", "true", "false", "throw"

vars == <<reader, item, count, none, completed, abort, mutex, ring, worker, outcome>>

Init ==
  /\ reader = [pc |-> "next", enqueued |-> 0, processed |-> 0, item |-> 1,
               progress |-> FALSE, drained |-> FALSE]
  /\ item = [k \in Kdfs |-> [completed |-> FALSE, result |-> "ok", processed |-> FALSE]]
  /\ count = 0 /\ none = FALSE /\ completed = FALSE
  /\ abort = FALSE
  /\ mutex = Nobody
  /\ ring = <<>>
  /\ worker = [w \in Workers |-> [pc |-> "idle", item |-> 1]]
  /\ outcome = "none"

-----------------------------------------------------------------------------
(* The reader.                                                             *)

MoveReader(from, to) ==
  /\ reader.pc = from
  /\ reader' = [reader EXCEPT !.pc = to]

\* (Mutant: the count changes outside KeyDerivationCompletionMutex.)
CountUnlocked ==
  /\ reader.pc = "next" /\ reader.enqueued < KdfCount
  /\ reader' = [reader EXCEPT !.pc = "enqueue"]
  /\ count' = count + 1
  /\ none' = IF count = 0 THEN FALSE ELSE none
  /\ UNCHANGED <<item, completed, abort, mutex, ring, worker, outcome>>

\* (Mutant: one derivation too many.)
CountOneMore ==
  /\ reader.pc = "next" /\ reader.enqueued <= KdfCount
  /\ mutex = Nobody
  /\ reader' = [reader EXCEPT !.pc = "enqueue"]
  /\ count' = count + 1
  /\ none' = IF count = 0 THEN FALSE ELSE none
  /\ UNCHANGED <<item, completed, abort, mutex, ring, worker, outcome>>

\* BeginKeyDerivation up to the update of the count, which is atomic in
\* KeyDerivationCompletionMutex.
CountWorkItem ==
  /\ reader.pc = "next" /\ reader.enqueued < KdfCount
  /\ mutex = Nobody
  /\ reader' = [reader EXCEPT !.pc = "enqueue"]
  /\ count' = count + 1
  /\ none' = IF count = 0 THEN FALSE ELSE none
  /\ UNCHANGED <<item, completed, abort, mutex, ring, worker, outcome>>

Enqueue ==
  /\ reader.pc = "enqueue"
  /\ ring' = Append(ring, reader.enqueued + 1)
  /\ reader' = [reader EXCEPT !.pc = "next", !.enqueued = @ + 1]
  /\ UNCHANGED <<item, count, none, completed, abort, mutex, worker, outcome>>

AllEnqueued ==
  /\ reader.enqueued = KdfCount
  /\ MoveReader("next", "scan")
  /\ UNCHANGED <<item, count, none, completed, abort, mutex, ring, worker, outcome>>

\* The next work item cannot be made, or enqueued, or a key cannot be tested.
Throw ==
  /\ MayThrow
  /\ \/ MoveReader("next", "catch") /\ reader.enqueued < KdfCount
     \/ MoveReader("test", "catch")
  /\ UNCHANGED <<item, count, none, completed, abort, mutex, ring, worker, outcome>>

\* (Mutant: a work item is processed again in every pass.)
ToBeProcessedAgain(k) == item[k].completed

\* One pass over the list tests each work item in turn; one that completes
\* behind the place in the list is found in the next pass.
ToBeProcessed(k) == item[k].completed /\ ~item[k].processed

SkipItem ==
  /\ reader.pc = "scan" /\ reader.item \in Kdfs /\ ~ToBeProcessed(reader.item)
  /\ reader' = [reader EXCEPT !.item = @ + 1]
  /\ UNCHANGED <<item, count, none, completed, abort, mutex, ring, worker, outcome>>

\* An exception of the derivation is thrown again after a first drain.
AfterProcessing(result) ==
  CASE result = "exception" -> "drainThrow"
    [] result = "failed" -> "advance"
    [] result = "ok" -> "test"

ProcessItem ==
  LET k == reader.item IN
  /\ reader.pc = "scan" /\ k \in Kdfs /\ ToBeProcessed(k)
  /\ item' = [item EXCEPT ![k].processed = TRUE]
  /\ reader' = [reader EXCEPT !.processed = @ + 1, !.progress = TRUE,
                              !.pc = AfterProcessing(item[k].result)]
  /\ abort' = (abort \/ item[k].result = "exception")
  /\ UNCHANGED <<count, none, completed, mutex, ring, worker, outcome>>

WrongKey ==
  /\ MoveReader("test", "advance")
  /\ UNCHANGED <<item, count, none, completed, abort, mutex, ring, worker, outcome>>

NextItem ==
  /\ reader.pc = "advance"
  /\ reader' = [reader EXCEPT !.pc = "scan", !.item = @ + 1]
  /\ UNCHANGED <<item, count, none, completed, abort, mutex, ring, worker, outcome>>

RightKey ==
  /\ MoveReader("test", "drainTrue")
  /\ abort' = TRUE
  /\ UNCHANGED <<item, count, none, completed, mutex, ring, worker, outcome>>

EndOfPass == reader.pc = "scan" /\ reader.item > KdfCount

NextPass ==
  /\ EndOfPass /\ reader.processed < KdfCount
  /\ reader' = [reader EXCEPT !.item = 1, !.progress = FALSE,
                              !.pc = IF reader.progress THEN "scan" ELSE "wait"]
  /\ UNCHANGED <<item, count, none, completed, abort, mutex, ring, worker, outcome>>

CompletionSeen ==
  /\ completed
  /\ MoveReader("wait", "scan")
  /\ completed' = FALSE
  /\ UNCHANGED <<item, count, none, abort, mutex, ring, worker, outcome>>

AllProcessed ==
  /\ EndOfPass /\ reader.processed >= KdfCount
  /\ MoveReader("scan", "drainFalse")
  /\ UNCHANGED <<item, count, none, completed, abort, mutex, ring, worker, outcome>>

Catch ==
  /\ MoveReader("catch", "drainCatch")
  /\ abort' = TRUE
  /\ UNCHANGED <<item, count, none, completed, mutex, ring, worker, outcome>>

\* Where each call of DrainKeyDerivationWorkItems leads.
AfterDrain ==
  CASE reader.pc = "drainThrow" -> "catch"
    [] reader.pc = "drainTrue" -> "true"
    [] reader.pc = "drainFalse" -> "false"
    [] reader.pc = "drainCatch" -> "throw"

Draining == reader.pc \in {"drainThrow", "drainTrue", "drainFalse", "drainCatch"}

DrainNothing ==
  /\ Draining /\ (reader.enqueued = 0 \/ reader.drained)
  /\ reader' = [reader EXCEPT !.pc = AfterDrain]
  /\ UNCHANGED <<item, count, none, completed, abort, mutex, ring, worker, outcome>>

\* (Mutant: workItemsDrained is not set.)
DrainForgotten ==
  /\ Draining /\ reader.enqueued > 0 /\ ~reader.drained
  /\ none /\ none' = FALSE
  /\ reader' = [reader EXCEPT !.pc = AfterDrain]
  /\ UNCHANGED <<item, count, completed, abort, mutex, ring, worker, outcome>>

Drain ==
  /\ Draining /\ reader.enqueued > 0 /\ ~reader.drained
  /\ none /\ none' = FALSE
  /\ reader' = [reader EXCEPT !.pc = AfterDrain, !.drained = TRUE]
  /\ UNCHANGED <<item, count, completed, abort, mutex, ring, worker, outcome>>

Ended == reader.pc \in {"true", "false", "throw"}

\* The locals of Decrypt end.
Return ==
  /\ Ended /\ outcome = "none"
  /\ outcome' = reader.pc
  /\ UNCHANGED <<reader, item, count, none, completed, abort, mutex, ring, worker>>

-----------------------------------------------------------------------------
(* WorkType::DeriveKey in WorkThreadProc.                                  *)

MoveWorker(w, from, to) ==
  /\ worker[w].pc = from
  /\ worker' = [worker EXCEPT ![w].pc = to]

Dequeue(w) ==
  /\ worker[w].pc = "idle" /\ ring # <<>>
  /\ worker' = [worker EXCEPT ![w] = [pc |-> "derive", item |-> Head(ring)]]
  /\ ring' = Tail(ring)
  /\ UNCHANGED <<reader, item, count, none, completed, abort, mutex, outcome>>

\* The result is stored; once the abort flag is seen it is ERR_USER_ABORT.
DeriveKey(w) ==
  /\ MoveWorker(w, "derive", "complete")
  /\ \E result \in {"ok"} \cup (IF MayThrow THEN {"exception"} ELSE {})
                   \cup (IF MayThrow \/ abort THEN {"failed"} ELSE {}) :
       item' = [item EXCEPT ![worker[w].item].result = result]
  /\ UNCHANGED <<reader, count, none, completed, abort, mutex, ring, outcome>>

SetCompleted(w) ==
  /\ MoveWorker(w, "complete", "signal")
  /\ item' = [item EXCEPT ![worker[w].item].completed = TRUE]
  /\ UNCHANGED <<reader, count, none, completed, abort, mutex, ring, outcome>>

SignalCompletion(w) ==
  /\ MoveWorker(w, "signal", "decrement")
  /\ completed' = TRUE
  /\ UNCHANGED <<reader, item, count, none, abort, mutex, ring, outcome>>

\* Under the mutex, in two steps: Decrement, and Signal if it returned 0.
DecrementCount(w) ==
  /\ mutex = Nobody /\ mutex' = w
  /\ MoveWorker(w, "decrement", IF count = 1 THEN "signalNone" ELSE "unlock")
  /\ count' = count - 1
  /\ UNCHANGED <<reader, item, none, completed, abort, ring, outcome>>

SignalNoOutstanding(w) ==
  /\ worker[w].pc \in {"signalNone", "unlock"}
  /\ worker' = [worker EXCEPT ![w].pc = "idle"]
  /\ none' = (none \/ worker[w].pc = "signalNone")
  /\ mutex' = Nobody
  /\ UNCHANGED <<reader, item, count, completed, abort, ring, outcome>>

-----------------------------------------------------------------------------

Decrypt ==
  \/ CountWorkItem \/ Enqueue \/ AllEnqueued \/ Throw \/ SkipItem \/ ProcessItem
  \/ WrongKey \/ RightKey \/ NextItem \/ NextPass \/ CompletionSeen \/ AllProcessed
  \/ Catch \/ DrainNothing \/ Drain \/ Return

WorkThreadProc(w) ==
  \/ Dequeue(w) \/ DeriveKey(w) \/ SetCompleted(w) \/ SignalCompletion(w)
  \/ DecrementCount(w) \/ SignalNoOutstanding(w)

Next == Decrypt \/ \E w \in Workers : WorkThreadProc(w)

Spec == Init /\ [][Next]_vars

FairSpec ==
  /\ Spec
  /\ WF_vars(Decrypt)
  /\ \A w \in Workers : WF_vars(WorkThreadProc(w))

-----------------------------------------------------------------------------

ReaderPcs == {"next", "enqueue", "scan", "test", "advance", "wait", "catch",
              "drainThrow", "drainTrue", "drainFalse", "drainCatch",
              "true", "false", "throw"}
WorkerPcs == {"idle", "derive", "complete", "signal", "decrement", "signalNone", "unlock"}

\* The threads whose derivation is still counted.
Busy == {w \in Workers : worker[w].pc \in {"derive", "complete", "signal", "decrement"}}

\* Type invariant.
TypeOK ==
  /\ reader \in [pc : ReaderPcs, enqueued : 0 .. KdfCount, processed : Nat,
                 item : 1 .. KdfCount + 1, progress : BOOLEAN, drained : BOOLEAN]
  /\ item \in [Kdfs -> [completed : BOOLEAN, result : {"ok", "failed", "exception"},
                        processed : BOOLEAN]]
  /\ none \in BOOLEAN /\ completed \in BOOLEAN /\ abort \in BOOLEAN
  /\ mutex \in Workers \cup {Nobody}
  /\ ring \in Seq(Kdfs)
  /\ worker \in [Workers -> [pc : WorkerPcs, item : Kdfs]]
  /\ outcome \in {"none", "true", "false", "throw"}

\* outstandingWorkItemCount counts, at every step, exactly the derivations in the
\* ring, those under way up to their decrement, and one about to be enqueued
\* (src/src/Volume/EncryptionThreadPool.cpp, BeginKeyDerivation, WorkThreadProc).
CountIsExact ==
  count = Len(ring) + Cardinality(Busy) + (IF reader.pc = "enqueue" THEN 1 ELSE 0)

\* "Caller-owned references and pointers must remain valid until
\* noOutstandingWorkItemEvent is signaled" (EncryptionThreadPool.h): when Decrypt
\* returns or throws, no worker has a derivation to do, to report or to count.
LocalsOutliveWorkers ==
  outcome # "none" => ring = <<>> /\ \A w \in Workers : worker[w].pc = "idle"

\* processedWorkItemCount is a count, and the loop ends with it: FALSE (no key fits) is
\* returned only when every single derivation has ended, its own result was looked at, and
\* none was told to give up (a derivation that sees the abort flag has no key to test).
NoKdfMissed ==
  outcome = "false" => ~abort /\ \A k \in Kdfs : item[k].completed /\ item[k].processed

\* Decrypt returns or throws, whatever throws in between: it never waits for the
\* event a second time.
DecryptEnds == <>(outcome # "none")

=============================================================================
