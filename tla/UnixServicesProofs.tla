-------------------------- MODULE UnixServicesProofs ---------------------------
(***************************************************************************)
(* Theorems about the parts of UnixServices.  VolumeHeaderDecrypt, for any *)
(* number of derivations and of threads: the count of outstanding          *)
(* derivations is exact, and no worker uses the locals of Decrypt after it *)
(* has ended.  CoreService, whichever processes die: a thread gets its own *)
(* answer, and no operation is executed twice.                             *)
(***************************************************************************)
EXTENDS UnixServices, FiniteSetTheorems, SequenceTheorems, TLAPS

(* Where the reader is in the list of derivations.                          *)
PlaceOK ==
  /\ reader.pc = "enqueue" => reader.enqueued < KdfCount
  /\ reader.pc \in {"test", "advance"} => reader.item \in Kdfs

Typing == TypeOK /\ PlaceOK

(* KeyDerivationCompletionMutex covers a decrement and the signal that     *)
(* depends on it: in between, the count stays what the worker saw.         *)
MutexOK ==
  \A w \in Workers :
    /\ worker[w].pc \in {"signalNone", "unlock"} <=> mutex = w
    /\ worker[w].pc = "signalNone" => count = 0 /\ ~none
    /\ worker[w].pc = "unlock" => count > 0

(* The event is set only while nothing is outstanding.                     *)
EventOK == none => count = 0

Quiet == ring = <<>> /\ \A w \in Workers : worker[w].pc = "idle"

(* Once drained, or while nothing was enqueued, the pool has no work.      *)
DrainedOK ==
  /\ reader.drained => Quiet /\ reader.pc \in {"catch", "drainCatch", "true", "false", "throw"}
  /\ reader.enqueued = 0 => Quiet
  /\ Ended => reader.drained \/ reader.enqueued = 0
  /\ outcome # "none" => Ended

IInv == Typing /\ CountIsExact /\ MutexOK /\ EventOK /\ DrainedOK

Processed == {k \in Kdfs : item[k].processed}

(* processedWorkItemCount counts the work items that were processed, each  *)
(* once: when it reaches the length of the list none is missing.  The abort *)
(* flag is set only on ways that do not lead to FALSE.                      *)
ProcessedOK ==
  /\ reader.processed = Cardinality(Processed)
  /\ \A k \in Kdfs : item[k].processed => item[k].completed
  /\ abort => reader.pc \in {"drainThrow", "catch", "drainCatch", "throw", "drainTrue", "true"}
  /\ reader.pc \in {"drainFalse", "false"} => reader.processed >= KdfCount
  /\ outcome = "false" => reader.pc = "false"

-----------------------------------------------------------------------------

(* Type correctness, one step of the reader at a time.                     *)
LEMMA DecryptTyping ==
  ASSUME Typing, Decrypt
  PROVE  Typing'
<1> USE KdfAssumption DEF Typing, PlaceOK, TypeOK, ReaderPcs, Kdfs, MoveReader
<1>1. CASE CountWorkItem
  <2>1. reader.enqueued < KdfCount
    BY <1>1 DEF CountWorkItem
  <2> QED
    BY <1>1, <2>1 DEF CountWorkItem
<1>2. CASE Enqueue
  <2>1. reader.enqueued + 1 \in 1 .. KdfCount /\ reader.enqueued + 1 \in 0 .. KdfCount
    BY <1>2 DEF Enqueue
  <2>2. ring' \in Seq(Kdfs)
    BY <1>2, <2>1, AppendProperties DEF Enqueue
  <2> QED
    BY <1>2, <2>1, <2>2 DEF Enqueue
<1>3. CASE AllEnqueued
  BY <1>3 DEF AllEnqueued
<1>4. CASE Throw
  BY <1>4 DEF Throw
<1>5. CASE SkipItem
  <2>1. reader.item + 1 \in 1 .. KdfCount + 1
    BY <1>5 DEF SkipItem
  <2> QED
    BY <1>5, <2>1 DEF SkipItem
<1>6. CASE ProcessItem
  <2> DEFINE p == AfterProcessing(item[reader.item].result)
  <2>1. p \in {"drainThrow", "advance", "test"}
    BY <1>6 DEF ProcessItem, AfterProcessing
  <2> DEFINE n == reader.processed + 1
  <2>2. /\ reader.item \in Kdfs /\ n \in Nat
        /\ reader' = [reader EXCEPT !.processed = n, !.progress = TRUE, !.pc = p]
    BY <1>6 DEF ProcessItem
  <2>3. /\ reader' \in [pc : ReaderPcs, enqueued : 0 .. KdfCount, processed : Nat,
                       item : 1 .. KdfCount + 1, progress : BOOLEAN, drained : BOOLEAN]
        /\ reader'.pc = p /\ reader'.item = reader.item
    <3> HIDE DEF p, n
    <3> QED
      BY <2>1, <2>2
  <2>4. item' \in [Kdfs -> [completed : BOOLEAN, result : {"ok", "failed", "exception"},
                           processed : BOOLEAN]]
    BY <1>6 DEF ProcessItem
  <2>5. abort' \in BOOLEAN
    BY <1>6 DEF ProcessItem
  <2> QED
    BY <1>6, <2>1, <2>2, <2>3, <2>4, <2>5 DEF ProcessItem
<1>7. CASE WrongKey
  BY <1>7 DEF WrongKey
<1>8. CASE RightKey
  BY <1>8 DEF RightKey
<1>9. CASE NextItem
  <2>1. reader.item + 1 \in 1 .. KdfCount + 1
    BY <1>9 DEF NextItem
  <2> QED
    BY <1>9, <2>1 DEF NextItem
<1>10. CASE NextPass
  <2>1. 1 \in 1 .. KdfCount + 1
    OBVIOUS
  <2> QED
    BY <1>10, <2>1 DEF NextPass
<1>11. CASE CompletionSeen
  BY <1>11 DEF CompletionSeen
<1>12. CASE AllProcessed
  BY <1>12 DEF AllProcessed
<1>13. CASE Catch
  BY <1>13 DEF Catch
<1>14. CASE DrainNothing
  BY <1>14 DEF DrainNothing, Draining, AfterDrain
<1>15. CASE Drain
  BY <1>15 DEF Drain, Draining, AfterDrain
<1>16. CASE Return
  BY <1>16 DEF Return, Ended
<1> QED
  BY <1>1, <1>2, <1>3, <1>4, <1>5, <1>6, <1>7, <1>8, <1>9, <1>10, <1>11, <1>12,
     <1>13, <1>14, <1>15, <1>16 DEF Decrypt

LEMMA WorkThreadProcTyping ==
  ASSUME Typing, NEW w \in Workers, WorkThreadProc(w)
  PROVE  Typing'
<1> USE DEF Typing, PlaceOK, TypeOK, WorkerPcs, MoveWorker
<1>1. CASE Dequeue(w)
  <2>1. Head(ring) \in Kdfs /\ ring' \in Seq(Kdfs)
    BY <1>1, HeadTailProperties DEF Dequeue
  <2> QED
    BY <1>1, <2>1 DEF Dequeue
<1>2. CASE DeriveKey(w)
  BY <1>2 DEF DeriveKey
<1>3. CASE SetCompleted(w)
  BY <1>3, ZenonT(60) DEF SetCompleted
<1>4. CASE SignalCompletion(w)
  BY <1>4 DEF SignalCompletion
<1>5. CASE DecrementCount(w)
  BY <1>5 DEF DecrementCount
<1>6. CASE SignalNoOutstanding(w)
  BY <1>6 DEF SignalNoOutstanding
<1> QED
  BY <1>1, <1>2, <1>3, <1>4, <1>5, <1>6 DEF WorkThreadProc

LEMMA InitTyping == Init => Typing
<1> SUFFICES ASSUME Init PROVE Typing
  OBVIOUS
<1>1. 1 \in Kdfs /\ 1 \in 1 .. KdfCount + 1 /\ 0 \in 0 .. KdfCount
  BY KdfAssumption DEF Kdfs
<1>2. ring \in Seq(Kdfs)
  BY EmptySeq DEF Init
<1> QED
  BY <1>1, <1>2 DEF Init, Typing, PlaceOK, TypeOK, ReaderPcs, WorkerPcs

LEMMA TypingHolds == Spec => []Typing
<1>1. Typing /\ [Next]_vars => Typing'
  <2>1. Typing /\ UNCHANGED vars => Typing'
    BY DEF Typing, PlaceOK, TypeOK, vars
  <2> QED
    BY <2>1, DecryptTyping, WorkThreadProcTyping DEF Next
<1> QED
  BY <1>1, InitTyping, PTL DEF Spec

(* Every variable keeps its type; in particular the place in the list of    *)
(* work items never runs past its end.                                      *)
THEOREM TypeCorrectness == Spec => []TypeOK
<1>1. Typing => TypeOK
  BY DEF Typing
<1> QED
  BY <1>1, TypingHolds, PTL

-----------------------------------------------------------------------------
(* The count of outstanding derivations.                                   *)

LEMMA BusyIsFinite == IsFiniteSet(Busy) /\ Cardinality(Busy) \in Nat
  BY WorkersAssumption, FS_Subset, FS_CardinalityType DEF Busy

(* Only taking a derivation and counting it off change the set of busy     *)
(* threads.                                                                *)
LEMMA BusyChanges ==
  ASSUME Typing, NEW w \in Workers
  PROVE  /\ Dequeue(w) => w \notin Busy /\ Busy' = Busy \cup {w}
         /\ DecrementCount(w) => w \in Busy /\ Busy' = Busy \ {w}
         /\ DeriveKey(w) \/ SetCompleted(w) \/ SignalCompletion(w)
              \/ SignalNoOutstanding(w) => Busy' = Busy
<1> USE DEF Typing, TypeOK, MoveWorker, Busy
<1>1. Dequeue(w) => w \notin Busy /\ Busy' = Busy \cup {w}
  BY DEF Dequeue
<1>2. DecrementCount(w) => w \in Busy /\ Busy' = Busy \ {w}
  BY DEF DecrementCount
<1>3. DeriveKey(w) => Busy' = Busy
  BY DEF DeriveKey
<1>4. SetCompleted(w) => Busy' = Busy
  BY DEF SetCompleted
<1>5. SignalCompletion(w) => Busy' = Busy
  BY DEF SignalCompletion
<1>6. SignalNoOutstanding(w) => Busy' = Busy
  BY DEF SignalNoOutstanding
<1> QED
  BY <1>1, <1>2, <1>3, <1>4, <1>5, <1>6

(* The steps of the reader that neither count nor enqueue a derivation.    *)
Bookkeeping ==
  \/ AllEnqueued \/ Throw \/ SkipItem \/ ProcessItem \/ WrongKey \/ RightKey
  \/ NextItem \/ NextPass \/ CompletionSeen \/ AllProcessed \/ Catch
  \/ DrainNothing \/ Drain \/ Return

LEMMA BookkeepingFrame ==
  ASSUME Typing, Bookkeeping
  PROVE  /\ count' = count /\ ring' = ring /\ worker' = worker /\ mutex' = mutex
         /\ reader.pc # "enqueue" /\ reader'.pc # "enqueue"
         /\ reader'.enqueued = reader.enqueued
         /\ none' => none
<1> USE DEF Typing, TypeOK, MoveReader
<1>1. CASE AllEnqueued
  BY <1>1 DEF AllEnqueued
<1>2. CASE Throw
  BY <1>2 DEF Throw
<1>3. CASE SkipItem
  BY <1>3 DEF SkipItem
<1>4. CASE ProcessItem
  <2>1. AfterProcessing(item[reader.item].result) \in {"drainThrow", "advance", "test"}
    BY <1>4 DEF ProcessItem, AfterProcessing
  <2> QED
    BY <1>4, <2>1 DEF ProcessItem
<1>5. CASE WrongKey
  BY <1>5 DEF WrongKey
<1>6. CASE RightKey
  BY <1>6 DEF RightKey
<1>7. CASE NextItem
  BY <1>7 DEF NextItem
<1>8. CASE NextPass
  BY <1>8 DEF NextPass, EndOfPass
<1>9. CASE CompletionSeen
  BY <1>9 DEF CompletionSeen
<1>10. CASE AllProcessed
  BY <1>10 DEF AllProcessed
<1>11. CASE Catch
  BY <1>11 DEF Catch
<1>12. CASE DrainNothing
  <2>1. AfterDrain # "enqueue"
    BY <1>12 DEF DrainNothing, Draining, AfterDrain
  <2> QED
    BY <1>12, <2>1 DEF DrainNothing, Draining
<1>13. CASE Drain
  <2>1. AfterDrain # "enqueue"
    BY <1>13 DEF Drain, Draining, AfterDrain
  <2> QED
    BY <1>13, <2>1 DEF Drain, Draining
<1>14. CASE Return
  BY <1>14 DEF Return, Ended
<1> QED
  BY <1>1, <1>2, <1>3, <1>4, <1>5, <1>6, <1>7, <1>8, <1>9, <1>10, <1>11, <1>12,
     <1>13, <1>14 DEF Bookkeeping

LEMMA CountStep ==
  ASSUME Typing, CountIsExact, Next
  PROVE  CountIsExact'
<1>1. Len(ring) \in Nat /\ Cardinality(Busy) \in Nat
  BY BusyIsFinite DEF Typing, TypeOK
<1>2. CASE CountWorkItem
  <2>1. reader'.pc = "enqueue" /\ reader.pc = "next"
    BY <1>2 DEF CountWorkItem, Typing, TypeOK
  <2>2. Busy' = Busy /\ ring' = ring /\ count' = count + 1
    BY <1>2 DEF CountWorkItem, Busy
  <2> QED
    BY <1>1, <2>1, <2>2 DEF CountIsExact
<1>3. CASE Enqueue
  <2>1. reader.pc = "enqueue" /\ reader'.pc = "next"
    BY <1>3 DEF Enqueue, Typing, TypeOK
  <2>2. Busy' = Busy /\ count' = count
    BY <1>3 DEF Enqueue, Busy
  <2>3. reader.enqueued + 1 \in Kdfs
    BY <2>1, KdfAssumption DEF Typing, PlaceOK, TypeOK, Kdfs
  <2>4. Len(ring') = Len(ring) + 1
    BY <1>3, <2>3, AppendProperties DEF Enqueue, Typing, TypeOK
  <2> QED
    BY <1>1, <2>1, <2>2, <2>4 DEF CountIsExact
<1>4. CASE Bookkeeping
  <2>1. Busy' = Busy
    BY <1>4, BookkeepingFrame DEF Busy
  <2> QED
    BY <1>1, <1>4, <2>1, BookkeepingFrame DEF CountIsExact
<1>5. ASSUME NEW w \in Workers, WorkThreadProc(w) PROVE CountIsExact'
  <2>1. CASE Dequeue(w)
    <3>1. w \notin Busy /\ Busy' = Busy \cup {w}
      BY <2>1, BusyChanges
    <3>2. Cardinality(Busy') = Cardinality(Busy) + 1
      BY <3>1, BusyIsFinite, FS_AddElement
    <3>3. Len(ring') = Len(ring) - 1
      BY <2>1, HeadTailProperties DEF Dequeue, Typing, TypeOK
    <3> QED
      BY <1>1, <2>1, <3>2, <3>3 DEF Dequeue, CountIsExact
  <2>2. CASE DecrementCount(w)
    <3>1. w \in Busy /\ Busy' = Busy \ {w}
      BY <2>2, BusyChanges
    <3>2. Cardinality(Busy') = Cardinality(Busy) - 1
      BY <3>1, BusyIsFinite, FS_RemoveElement
    <3> QED
      BY <1>1, <2>2, <3>2 DEF DecrementCount, CountIsExact
  <2>3. CASE DeriveKey(w)
    BY <2>3, BusyChanges DEF DeriveKey, CountIsExact
  <2>4. CASE SetCompleted(w)
    BY <2>4, BusyChanges DEF SetCompleted, CountIsExact
  <2>5. CASE SignalCompletion(w)
    BY <2>5, BusyChanges DEF SignalCompletion, CountIsExact
  <2>6. CASE SignalNoOutstanding(w)
    BY <2>6, BusyChanges DEF SignalNoOutstanding, CountIsExact
  <2> QED
    BY <1>5, <2>1, <2>2, <2>3, <2>4, <2>5, <2>6 DEF WorkThreadProc
<1> QED
  BY <1>2, <1>3, <1>4, <1>5 DEF Next, Decrypt, Bookkeeping

LEMMA InitCount == Init => CountIsExact
<1> SUFFICES ASSUME Init PROVE CountIsExact
  OBVIOUS
<1>1. Busy = {}
  BY DEF Init, Busy
<1>2. Cardinality(Busy) = 0 /\ Len(ring) = 0
  BY <1>1, FS_EmptySet DEF Init
<1> QED
  BY <1>2 DEF Init, CountIsExact

(* outstandingWorkItemCount is exact at every step, for any number of       *)
(* derivations and of threads of the pool.                                 *)
THEOREM CountExactness == Spec => []CountIsExact
<1>1. Typing /\ CountIsExact /\ [Next]_vars => CountIsExact'
  <2>1. CountIsExact /\ UNCHANGED vars => CountIsExact'
    BY DEF CountIsExact, Busy, vars
  <2> QED
    BY <2>1, CountStep
<1> QED
  BY <1>1, InitCount, TypingHolds, PTL DEF Spec

-----------------------------------------------------------------------------
(* The event, the mutex and the drain.                                     *)

LEMMA CountFacts ==
  ASSUME Typing, CountIsExact
  PROVE  /\ count \in Nat
         /\ count = 0 => ring = <<>> /\ Busy = {} /\ reader.pc # "enqueue"
         /\ \A w \in Busy : count > 0
<1>1. Len(ring) \in Nat /\ (Len(ring) = 0 => ring = <<>>)
  BY EmptySeq DEF Typing, TypeOK
<1>2. Cardinality(Busy) \in Nat /\ (Cardinality(Busy) = 0 <=> Busy = {})
  BY BusyIsFinite, FS_EmptySet
<1> QED
  BY <1>1, <1>2 DEF CountIsExact

(* While the event is set the pool has no work, and nobody holds the mutex. *)
LEMMA EventMeansQuiet ==
  ASSUME Typing, CountIsExact, MutexOK, EventOK, none
  PROVE  Quiet
<1>1. count = 0 /\ ring = <<>> /\ Busy = {}
  BY CountFacts DEF EventOK
<1>2. ASSUME NEW w \in Workers PROVE worker[w].pc = "idle"
  <2>1. worker[w].pc \in WorkerPcs
    BY DEF Typing, TypeOK
  <2>2. worker[w].pc \notin {"derive", "complete", "signal", "decrement"}
    BY <1>1 DEF Busy
  <2>3. worker[w].pc # "signalNone" /\ worker[w].pc # "unlock"
    BY <1>1 DEF MutexOK
  <2> QED
    BY <2>1, <2>2, <2>3 DEF WorkerPcs
<1> QED
  BY <1>1, <1>2 DEF Quiet

LEMMA MutexStep ==
  ASSUME Typing, CountIsExact, MutexOK, EventOK, Next
  PROVE  MutexOK'
<1>1. CASE CountWorkItem
  BY <1>1, WorkersAssumption DEF CountWorkItem, MutexOK
<1>2. CASE Enqueue
  BY <1>2 DEF Enqueue, MutexOK
<1>3. CASE Bookkeeping
  BY <1>3, BookkeepingFrame DEF MutexOK
<1>4. ASSUME NEW w \in Workers, WorkThreadProc(w) PROVE MutexOK'
  <2> USE DEF Typing, TypeOK, MoveWorker
  <2>1. CASE Dequeue(w)
    BY <2>1 DEF Dequeue, MutexOK
  <2>2. CASE DeriveKey(w)
    BY <2>2 DEF DeriveKey, MutexOK
  <2>3. CASE SetCompleted(w)
    BY <2>3 DEF SetCompleted, MutexOK
  <2>4. CASE SignalCompletion(w)
    BY <2>4 DEF SignalCompletion, MutexOK
  <2>5. CASE DecrementCount(w)
    <3>1. count \in Nat /\ count > 0 /\ ~none
      BY <2>5, BusyChanges, CountFacts DEF EventOK
    <3>2. \A v \in Workers : worker[v].pc \notin {"signalNone", "unlock"}
      BY <2>5, WorkersAssumption DEF DecrementCount, MutexOK
    <3> QED
      BY <2>5, <3>1, <3>2 DEF DecrementCount, MutexOK
  <2>6. CASE SignalNoOutstanding(w)
    <3>1. \A v \in Workers \ {w} : worker[v].pc \notin {"signalNone", "unlock"}
      BY <2>6 DEF SignalNoOutstanding, MutexOK
    <3> QED
      BY <2>6, <3>1, WorkersAssumption DEF SignalNoOutstanding, MutexOK
  <2> QED
    BY <1>4, <2>1, <2>2, <2>3, <2>4, <2>5, <2>6 DEF WorkThreadProc
<1> QED
  BY <1>1, <1>2, <1>3, <1>4 DEF Next, Decrypt, Bookkeeping

LEMMA EventStep ==
  ASSUME Typing, CountIsExact, MutexOK, EventOK, Next
  PROVE  EventOK'
<1>1. CASE CountWorkItem
  BY <1>1 DEF CountWorkItem, EventOK
<1>2. CASE Enqueue
  BY <1>2 DEF Enqueue, EventOK
<1>3. CASE Bookkeeping
  BY <1>3, BookkeepingFrame DEF EventOK
<1>4. ASSUME NEW w \in Workers, WorkThreadProc(w) PROVE EventOK'
  <2>1. CASE Dequeue(w) \/ DeriveKey(w) \/ SetCompleted(w) \/ SignalCompletion(w)
    BY <2>1 DEF Dequeue, DeriveKey, SetCompleted, SignalCompletion, EventOK
  <2>2. CASE DecrementCount(w)
    <3>1. count > 0 /\ count \in Nat
      BY <2>2, BusyChanges, CountFacts
    <3> QED
      BY <2>2, <3>1 DEF DecrementCount, EventOK
  <2>3. CASE SignalNoOutstanding(w)
    BY <2>3 DEF SignalNoOutstanding, MutexOK, EventOK
  <2> QED
    BY <1>4, <2>1, <2>2, <2>3 DEF WorkThreadProc
<1> QED
  BY <1>1, <1>2, <1>3, <1>4 DEF Next, Decrypt, Bookkeeping

LEMMA BookkeepingDrained ==
  ASSUME Typing, DrainedOK, Bookkeeping, none => Quiet
  PROVE  DrainedOK'
<1>1. Quiet' <=> Quiet
  BY BookkeepingFrame DEF Quiet
<1> USE <1>1 DEF Typing, TypeOK, MoveReader, DrainedOK, Ended
<1>2. CASE AllEnqueued
  BY <1>2 DEF AllEnqueued
<1>3. CASE Throw
  BY <1>3 DEF Throw
<1>4. CASE SkipItem
  BY <1>4 DEF SkipItem
<1>5. CASE ProcessItem
  <2>1. AfterProcessing(item[reader.item].result) \in {"drainThrow", "advance", "test"}
    BY <1>5 DEF ProcessItem, AfterProcessing
  <2> QED
    BY <1>5, <2>1 DEF ProcessItem
<1>6. CASE WrongKey
  BY <1>6 DEF WrongKey
<1>7. CASE RightKey
  BY <1>7 DEF RightKey
<1>8. CASE NextItem
  BY <1>8 DEF NextItem
<1>9. CASE NextPass
  <2>1. reader'.pc \in {"scan", "wait"} /\ reader.pc = "scan" /\ outcome' = outcome
        /\ reader'.drained = reader.drained /\ reader'.enqueued = reader.enqueued
    BY <1>9 DEF NextPass, EndOfPass
  <2> QED
    BY <2>1
<1>10. CASE CompletionSeen
  BY <1>10 DEF CompletionSeen
<1>11. CASE AllProcessed
  BY <1>11 DEF AllProcessed
<1>12. CASE Catch
  BY <1>12 DEF Catch
<1>13. CASE DrainNothing
  <2>1. AfterDrain \in {"catch", "true", "false", "throw"} /\ outcome' = outcome
        /\ (AfterDrain = "catch" => reader.pc = "drainThrow")
        /\ ~Ended
    BY <1>13 DEF DrainNothing, Draining, AfterDrain
  <2>2. /\ reader'.pc = AfterDrain /\ reader'.drained = reader.drained
        /\ reader'.enqueued = reader.enqueued
        /\ reader.enqueued = 0 \/ reader.drained
    BY <1>13 DEF DrainNothing
  <2> QED
    BY <2>1, <2>2
<1>14. CASE Drain
  <2>1. AfterDrain \in {"catch", "true", "false", "throw"} /\ outcome' = outcome /\ ~Ended
    BY <1>14 DEF Drain, Draining, AfterDrain
  <2>2. /\ reader'.pc = AfterDrain /\ reader'.drained
        /\ reader'.enqueued = reader.enqueued /\ none
    BY <1>14 DEF Drain
  <2> QED
    BY <2>1, <2>2
<1>15. CASE Return
  BY <1>15 DEF Return
<1> QED
  BY <1>2, <1>3, <1>4, <1>5, <1>6, <1>7, <1>8, <1>9, <1>10, <1>11, <1>12, <1>13, <1>14, <1>15
  DEF Bookkeeping

LEMMA DrainedStep ==
  ASSUME Typing, CountIsExact, MutexOK, EventOK, DrainedOK, Next
  PROVE  DrainedOK'
<1>1. CASE CountWorkItem
  BY <1>1 DEF CountWorkItem, DrainedOK, Ended, Quiet, Typing, TypeOK
<1>2. CASE Enqueue
  <2>1. reader'.enqueued = reader.enqueued + 1 /\ reader'.pc = "next"
        /\ reader.pc = "enqueue" /\ reader'.drained = reader.drained
    BY <1>2 DEF Enqueue, Typing, TypeOK
  <2>2. reader.enqueued + 1 # 0
    BY DEF Typing, TypeOK
  <2> QED
    BY <1>2, <2>1, <2>2 DEF Enqueue, DrainedOK, Ended
<1>3. CASE Bookkeeping
  BY <1>3, EventMeansQuiet, BookkeepingDrained
<1>4. ASSUME NEW w \in Workers, WorkThreadProc(w) PROVE DrainedOK'
  <2>1. reader' = reader /\ outcome' = outcome
    BY <1>4 DEF WorkThreadProc, Dequeue, DeriveKey, SetCompleted, SignalCompletion,
                DecrementCount, SignalNoOutstanding
  <2>2. ~Quiet
    BY <1>4 DEF WorkThreadProc, Dequeue, DeriveKey, SetCompleted, SignalCompletion,
                DecrementCount, SignalNoOutstanding, MoveWorker, Quiet
  <2> QED
    BY <2>1, <2>2 DEF DrainedOK, Ended
<1> QED
  BY <1>1, <1>2, <1>3, <1>4 DEF Next, Decrypt, Bookkeeping

LEMMA InitIInv == Init => IInv
<1> SUFFICES ASSUME Init PROVE MutexOK /\ EventOK /\ DrainedOK
  BY InitTyping, InitCount DEF IInv
<1> QED
  BY WorkersAssumption DEF Init, MutexOK, EventOK, DrainedOK, Quiet, Ended

LEMMA Invariance == Spec => []IInv
<1>1. IInv /\ [Next]_vars => IInv'
  <2>1. CASE UNCHANGED vars
    BY <2>1 DEF IInv, Typing, TypeOK, PlaceOK, CountIsExact, Busy, MutexOK, EventOK,
                DrainedOK, Quiet, Ended, vars
  <2>2. ASSUME Typing, Next PROVE Typing'
    BY <2>2, DecryptTyping, WorkThreadProcTyping DEF Next
  <2> QED
    BY <2>1, <2>2, CountStep, MutexStep, EventStep, DrainedStep DEF IInv
<1> QED
  BY <1>1, InitIInv, PTL DEF Spec

(* When Decrypt returns or throws, the password, the salt, the events and   *)
(* the count it lent to the pool are not used any more: no derivation is in *)
(* the ring, and no worker is between taking one and reporting it.          *)
THEOREM NoUseAfterReturn == Spec => []LocalsOutliveWorkers
<1>1. IInv => LocalsOutliveWorkers
  BY DEF IInv, DrainedOK, Quiet, LocalsOutliveWorkers
<1> QED
  BY <1>1, Invariance, PTL

-----------------------------------------------------------------------------
(* The answer FALSE.                                                       *)

LEMMA ProcessedFinite == IsFiniteSet(Processed) /\ Cardinality(Processed) <= KdfCount
<1>1. IsFiniteSet(Kdfs) /\ Cardinality(Kdfs) = KdfCount
  BY KdfAssumption, FS_Interval DEF Kdfs
<1> QED
  BY <1>1, FS_Subset DEF Processed

(* A work item that was not processed is counted when it is.               *)
LEMMA ProcessItemProcessed ==
  ASSUME Typing, ProcessedOK, ProcessItem
  PROVE  ProcessedOK'
<1> USE DEF Typing, TypeOK
<1> DEFINE k == reader.item
<1>1. k \in Kdfs /\ item[k].completed /\ ~item[k].processed
  BY DEF ProcessItem, ToBeProcessed
<1>2. Processed' = Processed \cup {k} /\ k \notin Processed
  BY <1>1 DEF ProcessItem, Processed
<1>3. Cardinality(Processed)' = Cardinality(Processed) + 1
  BY <1>2, ProcessedFinite, FS_AddElement
<1>4. \A i \in Kdfs : item'[i].processed => item'[i].completed
  BY <1>1 DEF ProcessItem, ProcessedOK
<1>5. item[k].result \in {"ok", "failed", "exception"}
  BY <1>1
<1>6. /\ reader'.processed = reader.processed + 1
      /\ reader'.pc = AfterProcessing(item[k].result) /\ outcome' = outcome
      /\ abort' = (abort \/ item[k].result = "exception")
  BY DEF ProcessItem
<1>7. /\ AfterProcessing(item[k].result) \in {"drainThrow", "advance", "test"}
      /\ item[k].result = "exception" => AfterProcessing(item[k].result) = "drainThrow"
  BY <1>5 DEF AfterProcessing
<1>8. reader.pc = "scan" /\ ~abort /\ outcome # "false"
  BY DEF ProcessItem, ProcessedOK
<1> QED
  BY <1>3, <1>4, <1>6, <1>7, <1>8 DEF ProcessedOK

LEMMA DecryptProcessed ==
  ASSUME Typing, ProcessedOK, Decrypt
  PROVE  ProcessedOK'
<1> USE DEF Typing, TypeOK, MoveReader, ProcessedOK, Processed
<1>1. CASE CountWorkItem
  BY <1>1 DEF CountWorkItem
<1>2. CASE Enqueue
  BY <1>2 DEF Enqueue
<1>3. CASE AllEnqueued
  BY <1>3 DEF AllEnqueued
<1>4. CASE Throw
  BY <1>4 DEF Throw
<1>5. CASE SkipItem
  BY <1>5 DEF SkipItem
<1>6. CASE WrongKey
  BY <1>6 DEF WrongKey
<1>7. CASE RightKey
  BY <1>7 DEF RightKey
<1>8. CASE NextItem
  BY <1>8 DEF NextItem
<1>9. CASE NextPass
  BY <1>9 DEF NextPass, EndOfPass
<1>10. CASE CompletionSeen
  BY <1>10 DEF CompletionSeen
<1>11. CASE AllProcessed
  BY <1>11 DEF AllProcessed, EndOfPass
<1>12. CASE Catch
  BY <1>12 DEF Catch
<1>13. CASE ProcessItem
  BY <1>13, ProcessItemProcessed
<1>14. CASE DrainNothing \/ Drain
  <2>1. /\ AfterDrain = "false" => reader.pc = "drainFalse"
        /\ reader.pc # "drainFalse" =>
             AfterDrain \in {"drainThrow", "catch", "drainCatch", "throw", "drainTrue", "true"}
        /\ AfterDrain # "drainFalse" /\ outcome # "false"
        /\ reader'.pc = AfterDrain /\ reader'.processed = reader.processed
        /\ item' = item /\ outcome' = outcome /\ abort' = abort
        /\ abort => reader.pc # "drainFalse"
    BY <1>14 DEF DrainNothing, Drain, Draining, AfterDrain
  <2> QED
    BY <2>1
<1>15. CASE Return
  BY <1>15 DEF Return, Ended
<1> QED
  BY <1>1, <1>2, <1>3, <1>4, <1>5, <1>6, <1>7, <1>8, <1>9, <1>10, <1>11, <1>12, <1>13, <1>14, <1>15
  DEF Decrypt

LEMMA WorkThreadProcProcessed ==
  ASSUME Typing, ProcessedOK, NEW w \in Workers, WorkThreadProc(w)
  PROVE  ProcessedOK'
<1> USE DEF Typing, TypeOK
<1>1. \A k \in Kdfs : /\ item'[k].processed = item[k].processed
                      /\ item[k].completed => item'[k].completed
  <2>1. CASE DeriveKey(w)
    BY <2>1 DEF DeriveKey
  <2>2. CASE SetCompleted(w)
    BY <2>2 DEF SetCompleted
  <2>3. CASE Dequeue(w) \/ SignalCompletion(w) \/ DecrementCount(w)
             \/ SignalNoOutstanding(w)
    BY <2>3 DEF Dequeue, SignalCompletion, DecrementCount, SignalNoOutstanding
  <2> QED
    BY <2>1, <2>2, <2>3 DEF WorkThreadProc
<1>2. Processed' = Processed
  BY <1>1 DEF Processed
<1>3. reader' = reader /\ outcome' = outcome /\ abort' = abort
  BY DEF WorkThreadProc, Dequeue, DeriveKey, SetCompleted, SignalCompletion,
         DecrementCount, SignalNoOutstanding
<1> QED
  BY <1>1, <1>2, <1>3 DEF ProcessedOK

(* Decrypt answers FALSE, "no key derivation function fits this password", *)
(* only when its count of processed work items stands for all of them: each *)
(* derivation has ended, its result was looked at, and none had given up    *)
(* because of the abort flag.                                               *)
THEOREM NoKdfIsMissed == Spec => []NoKdfMissed
<1>1. Init => ProcessedOK
  <2> SUFFICES ASSUME Init PROVE ProcessedOK
    OBVIOUS
  <2>1. Processed = {}
    BY DEF Init, Processed
  <2> QED
    BY <2>1, FS_EmptySet DEF Init, ProcessedOK
<1>2. Typing /\ ProcessedOK /\ [Next]_vars => ProcessedOK'
  <2>1. ProcessedOK /\ UNCHANGED vars => ProcessedOK'
    BY DEF ProcessedOK, Processed, vars
  <2> QED
    BY <2>1, DecryptProcessed, WorkThreadProcProcessed DEF Next
<1>3. ProcessedOK => NoKdfMissed
  <2> SUFFICES ASSUME ProcessedOK, outcome = "false" PROVE NoKdfMissed
    BY DEF NoKdfMissed
  <2>1. reader.processed >= KdfCount /\ ~abort /\ reader.processed = Cardinality(Processed)
    BY DEF ProcessedOK
  <2>2. IsFiniteSet(Kdfs) /\ Cardinality(Kdfs) = KdfCount
    BY KdfAssumption, FS_Interval DEF Kdfs
  <2>3. Cardinality(Processed) \in Nat /\ Processed \subseteq Kdfs
    BY ProcessedFinite, FS_CardinalityType DEF Processed
  <2>4. Cardinality(Processed) = Cardinality(Kdfs)
    BY <2>1, <2>2, <2>3, ProcessedFinite, KdfAssumption
  <2>5. Processed = Kdfs
    BY <2>2, <2>3, <2>4, FS_Subset
  <2> QED
    BY <2>1, <2>5 DEF ProcessedOK, Processed, NoKdfMissed
<1> QED
  BY <1>1, <1>2, <1>3, TypingHolds, PTL DEF Spec

-----------------------------------------------------------------------------
(* The core service (CoreService), for any number of threads, requests,    *)
(* passwords and deaths.  The inductive invariant CoreInv follows the one  *)
(* request that is under way (the mutex of SendRequest) from the pipe to   *)
(* the service (ServiceInv), to the elevated service (ElevatedInv) and     *)
(* back (ResultInv, AnswerInv), and says at each place whether it has been *)
(* executed.  The hard case is a service that dies while it relays: what   *)
(* it passed on stays at the elevated service, which may execute it when   *)
(* the thread has long returned and asked for something else (Waiting).    *)

ServicePcs == {"read", "execute", "elevate", "forward", "relay"}
Messages ==
  [kind : {"none", "request", "exit", "sync", "done", "failed", "notElevated",
           "aborted", "broken"},
   of : {<<>>} \cup Threads \X Nat, elevate : BOOLEAN]

ThreadStates ==
  [pc : {"idle", "password", "send", "receive"}, count : Nat, request : Messages,
   passwords : Nat, outcome : Messages]

Sent == csPipe[<<App, Service>>]
Answers == csPipe[<<Service, App>>]
Passed == csPipe[<<Service, Elevated>>]
Results == csPipe[<<Elevated, Service>>]

CoreTypes ==
  /\ csThread \in [Threads -> ThreadStates]
  /\ csMutex \in Threads \cup {Nobody} /\ csKnown \in BOOLEAN
  /\ csService \in [pc : ServicePcs, request : Messages, available : BOOLEAN]
  /\ csElevated \in [pc : {"none", "sync", "read", "execute"}, request : Messages]
  /\ csPipe \in [Core!Wires -> Seq(Messages)]
  /\ csAlive \subseteq {App, Service, Elevated} /\ csExecuted \in Seq(Threads \X Nat)
  /\ csHeld \subseteq Core!Wires \ {<<Elevated, Service>>}

Executed(x) == \E i \in DOMAIN csExecuted : csExecuted[i] = x
Asked(x) == \E t \in Threads : \E n \in 1 .. csThread[t].count : x = <<t, n>>

(* What is executed was asked for, once.                                   *)
ExecutedInv ==
  /\ \A i \in DOMAIN csExecuted : Asked(csExecuted[i])
  /\ \A i, j \in DOMAIN csExecuted : csExecuted[i] = csExecuted[j] => i = j

(* What each thread knows of its request.                                  *)
ThreadInv ==
  \A t \in Threads :
    /\ csThread[t].pc # "idle" =>
         /\ csMutex = t /\ csThread[t].count > 0
         /\ csThread[t].request.of = <<t, csThread[t].count>>
         /\ csThread[t].request.kind = "request"
    /\ csThread[t].pc = "idle" /\ csThread[t].count > 0 =>
         csThread[t].outcome.of = <<t, csThread[t].count>>
    /\ csThread[t].outcome.kind = "done" => Executed(csThread[t].outcome.of)
    /\ csThread[t].pc \in {"password", "send"} => ~Executed(csThread[t].request.of)

(* What the service answers is what the waiting thread asked.  (Once the   *)
(* application is dead, an exit request may be answered, too.)             *)
Truthful(a) ==
  /\ a.kind = "done" => Executed(a.of)
  /\ a.kind = "notElevated" => ~Executed(a.of)
AnswerInv ==
  App \in csAlive /\ Answers # <<>> =>
    \E t \in Threads : \E a \in Messages :
      /\ Answers = <<a>> /\ csThread[t].pc = "receive" /\ a.of = csThread[t].request.of
      /\ Truthful(a)

(* The request is on its way to the service, or there, or answered.        *)
ServiceInv ==
  Service \in csAlive =>
    \/ /\ csService.pc = "read"
       /\ Sent = <<>> \/ (Sent = <<Core!ExitRequest>> /\ App \notin csAlive)
    \/ \E t \in Threads :
         /\ csThread[t].pc = "receive" /\ Answers = <<>>
         /\ \/ /\ csService.pc = "read" /\ Sent = <<csThread[t].request>>
               /\ ~Executed(csThread[t].request.of)
            \/ /\ csService.pc # "read" /\ Sent = <<>> /\ csService.request = csThread[t].request
               /\ csService.pc # "relay" => ~Executed(csThread[t].request.of)

(* A request at the elevated service, which may have lost the service that *)
(* passed it on.                                                           *)
Waiting(m) ==
  /\ m \in Messages /\ m.kind = "request" /\ Asked(m.of) /\ ~Executed(m.of)
  /\ App \in csAlive => Answers = <<>>
  /\ \A t \in Threads : csThread[t].request.of = m.of => csThread[t].pc \in {"idle", "receive"}
  /\ Service \in csAlive => csService.pc = "relay" /\ m.of = csService.request.of /\ Results = <<>>
ElevatedInv ==
  Elevated \in csAlive =>
    \/ csElevated.pc \in {"sync", "read"} /\ Passed \in {<<>>, <<Core!SyncCode>>}
    \/ /\ csElevated.pc \in {"sync", "read"} /\ Service \notin csAlive
       /\ Passed \in {<<Core!ExitRequest>>, <<Core!SyncCode, Core!ExitRequest>>}
    \/ /\ csElevated.pc \in {"sync", "read"}
       /\ \E m \in Messages : Passed \in {<<m>>, <<Core!SyncCode, m>>} /\ Waiting(m)
    \/ csElevated.pc = "execute" /\ Passed = <<>> /\ Waiting(csElevated.request)
ResultInv ==
  Service \in csAlive /\ Results # <<>> =>
    /\ csService.pc = "relay"
    /\ \E a \in Messages :
         Results = <<a>> /\ a.of = csService.request.of /\ a.kind # "notElevated" /\ Truthful(a)

CoreInv ==
  /\ CoreTypes /\ ExecutedInv /\ ThreadInv /\ AnswerInv /\ ServiceInv /\ ElevatedInv /\ ResultInv

-----------------------------------------------------------------------------

LEMMA Queues ==
  \A a, b :
    /\ Append(<<>>, a) = <<a>> /\ Append(<<a>>, b) = <<a, b>>
    /\ Head(<<a>>) = a /\ Tail(<<a>>) = <<>>
    /\ Head(<<a, b>>) = a /\ Tail(<<a, b>>) = <<b>>
    /\ <<a>> # <<>> /\ <<a, b>> # <<>> /\ <<a, b>> # <<a>> /\ <<a>> # <<a, b>>
<1> SUFFICES ASSUME NEW a, NEW b
    PROVE  /\ Append(<<>>, a) = <<a>> /\ Append(<<a>>, b) = <<a, b>>
           /\ Head(<<a>>) = a /\ Tail(<<a>>) = <<>>
           /\ Head(<<a, b>>) = a /\ Tail(<<a, b>>) = <<b>>
           /\ <<a>> # <<>> /\ <<a, b>> # <<>> /\ <<a, b>> # <<a>> /\ <<a>> # <<a, b>>
  OBVIOUS
<1>1. Append(<<>>, a) = <<a>>
  OBVIOUS
<1>2. Append(<<a>>, b) = <<a, b>>
  <2>1. <<a>> \in Seq({a, b}) /\ <<a, b>> \in Seq({a, b})
    OBVIOUS
  <2>2. Append(<<a>>, b) \in Seq({a, b}) /\ Len(Append(<<a>>, b)) = 2
    BY <2>1
  <2>3. Append(<<a>>, b)[1] = a /\ Append(<<a>>, b)[2] = b
    BY <2>1
  <2>4. Len(<<a, b>>) = 2 /\ <<a, b>>[1] = a /\ <<a, b>>[2] = b
    OBVIOUS
  <2>5. \A i \in 1 .. 2 : i = 1 \/ i = 2
    OBVIOUS
  <2>6. \A i \in 1 .. 2 : Append(<<a>>, b)[i] = <<a, b>>[i]
    BY <2>3, <2>4, <2>5
  <2> QED BY <2>1, <2>2, <2>4, <2>6, SeqEqual
<1>3. Head(<<a>>) = a /\ Tail(<<a>>) = <<>>
  OBVIOUS
<1>4. Head(<<a, b>>) = a /\ Tail(<<a, b>>) = <<b>>
  OBVIOUS
<1>5. <<a>> # <<>> /\ <<a, b>> # <<>> /\ <<a, b>> # <<a>> /\ <<a>> # <<a, b>>
  OBVIOUS
<1> QED BY <1>1, <1>2, <1>3, <1>4, <1>5

LEMMA ShortQueues ==
  /\ <<>> \in Seq(Messages)
  /\ \A a, b \in Messages : <<a>> \in Seq(Messages) /\ <<a, b>> \in Seq(Messages)
  OBVIOUS

LEMMA QueueTypes ==
  \A s \in Seq(Messages), a \in Messages :
    /\ <<>> \in Seq(Messages) /\ <<a>> \in Seq(Messages)
    /\ Append(s, a) \in Seq(Messages)
    /\ s # <<>> => Head(s) \in Messages /\ Tail(s) \in Seq(Messages)
  OBVIOUS

(* What is left of a queue when its first message is taken.                *)
LEMMA Rest ==
  \A s \in Seq(Messages) : s # <<>> => Head(s) \in Messages /\ Tail(s) \in Seq(Messages)
  OBVIOUS

(* A step that writes to one pipe.                                         *)
LEMMA OnePipe ==
  ASSUME Core!ConstantsOK, CoreTypes
  PROVE  \A s \in Seq(Messages) :
    /\ csPipe' = [csPipe EXCEPT ![<<App, Service>>] = s] =>
         /\ csPipe' \in [Core!Wires -> Seq(Messages)] /\ Sent' = s
         /\ Answers' = Answers /\ Passed' = Passed /\ Results' = Results
    /\ csPipe' = [csPipe EXCEPT ![<<Service, App>>] = s] =>
         /\ csPipe' \in [Core!Wires -> Seq(Messages)] /\ Answers' = s
         /\ Sent' = Sent /\ Passed' = Passed /\ Results' = Results
    /\ csPipe' = [csPipe EXCEPT ![<<Service, Elevated>>] = s] =>
         /\ csPipe' \in [Core!Wires -> Seq(Messages)] /\ Passed' = s
         /\ Sent' = Sent /\ Answers' = Answers /\ Results' = Results
    /\ csPipe' = [csPipe EXCEPT ![<<Elevated, Service>>] = s] =>
         /\ csPipe' \in [Core!Wires -> Seq(Messages)] /\ Results' = s
         /\ Sent' = Sent /\ Answers' = Answers /\ Passed' = Passed
<1>1. /\ <<App, Service>> # <<Service, App>> /\ <<App, Service>> # <<Service, Elevated>>
      /\ <<App, Service>> # <<Elevated, Service>> /\ <<Service, App>> # <<Service, Elevated>>
      /\ <<Service, App>> # <<Elevated, Service>>
      /\ <<Service, Elevated>> # <<Elevated, Service>>
  BY DEF Core!ConstantsOK
<1>2. /\ <<App, Service>> \in Core!Wires /\ <<Service, App>> \in Core!Wires
      /\ <<Service, Elevated>> \in Core!Wires /\ <<Elevated, Service>> \in Core!Wires
  BY DEF Core!Wires
<1>3. csPipe \in [Core!Wires -> Seq(Messages)]
  BY DEF CoreTypes
<1> QED BY <1>1, <1>2, <1>3 DEF Sent, Answers, Passed, Results

(* ... and to two.                                                         *)
LEMMA TwoPipes ==
  ASSUME Core!ConstantsOK, CoreTypes
  PROVE  \A r, s \in Seq(Messages) :
    /\ csPipe' = [csPipe EXCEPT ![<<App, Service>>] = r, ![<<Service, Elevated>>] = s] =>
         /\ csPipe' \in [Core!Wires -> Seq(Messages)] /\ Sent' = r /\ Passed' = s
         /\ Answers' = Answers /\ Results' = Results
    /\ csPipe' = [csPipe EXCEPT ![<<App, Service>>] = r, ![<<Service, App>>] = s] =>
         /\ csPipe' \in [Core!Wires -> Seq(Messages)] /\ Sent' = r /\ Answers' = s
         /\ Passed' = Passed /\ Results' = Results
    /\ csPipe' = [csPipe EXCEPT ![<<Service, Elevated>>] = r, ![<<Elevated, Service>>] = s] =>
         /\ csPipe' \in [Core!Wires -> Seq(Messages)] /\ Passed' = r /\ Results' = s
         /\ Sent' = Sent /\ Answers' = Answers
    /\ csPipe' = [csPipe EXCEPT ![<<Elevated, Service>>] = r, ![<<Service, App>>] = s] =>
         /\ csPipe' \in [Core!Wires -> Seq(Messages)] /\ Results' = r /\ Answers' = s
         /\ Sent' = Sent /\ Passed' = Passed
<1>1. /\ <<App, Service>> # <<Service, App>> /\ <<App, Service>> # <<Service, Elevated>>
      /\ <<App, Service>> # <<Elevated, Service>> /\ <<Service, App>> # <<Service, Elevated>>
      /\ <<Service, App>> # <<Elevated, Service>>
      /\ <<Service, Elevated>> # <<Elevated, Service>>
  BY DEF Core!ConstantsOK
<1>2. /\ <<App, Service>> \in Core!Wires /\ <<Service, App>> \in Core!Wires
      /\ <<Service, Elevated>> \in Core!Wires /\ <<Elevated, Service>> \in Core!Wires
  BY DEF Core!Wires
<1>3. csPipe \in [Core!Wires -> Seq(Messages)]
  BY DEF CoreTypes
<1> QED BY <1>1, <1>2, <1>3 DEF Sent, Answers, Passed, Results

LEMMA SamePipes ==
  ASSUME CoreTypes, UNCHANGED csPipe
  PROVE  /\ csPipe' \in [Core!Wires -> Seq(Messages)]
         /\ Sent' = Sent /\ Answers' = Answers /\ Passed' = Passed /\ Results' = Results
  BY DEF CoreTypes, Sent, Answers, Passed, Results

LEMMA MessageTypes ==
  /\ Core!NoRequest \in Messages /\ Core!ExitRequest \in Messages /\ Core!SyncCode \in Messages
  /\ Core!SyncCode # Core!ExitRequest
  /\ Core!NoRequest.kind = "none" /\ Core!ExitRequest.kind = "exit" /\ Core!SyncCode.kind = "sync"
  /\ \A m \in Messages :
       \A k \in {"done", "failed", "notElevated", "aborted", "broken"} :
         Core!Answer(m, k) \in Messages /\ Core!Answer(m, k).of = m.of /\ Core!Answer(m, k).kind = k
  /\ \A t \in Threads, n \in Nat, e \in BOOLEAN :
       /\ Core!Request(t, n, e) \in Messages /\ Core!Request(t, n, e).of = <<t, n>>
       /\ Core!Request(t, n, e).kind = "request"
<1>1. /\ Core!NoRequest \in Messages /\ Core!ExitRequest \in Messages /\ Core!SyncCode \in Messages
      /\ Core!NoRequest.kind = "none" /\ Core!ExitRequest.kind = "exit"
      /\ Core!SyncCode.kind = "sync"
  BY DEF Core!NoRequest, Core!ExitRequest, Core!SyncCode, Messages
<1>2. \A m \in Messages :
       \A k \in {"done", "failed", "notElevated", "aborted", "broken"} :
         Core!Answer(m, k) \in Messages /\ Core!Answer(m, k).of = m.of /\ Core!Answer(m, k).kind = k
  BY DEF Core!Answer, Messages
<1>3. \A t \in Threads, n \in Nat, e \in BOOLEAN :
       /\ Core!Request(t, n, e) \in Messages /\ Core!Request(t, n, e).of = <<t, n>>
       /\ Core!Request(t, n, e).kind = "request"
  BY DEF Core!Request, Messages
<1> QED BY <1>1, <1>2, <1>3

(* Nobody but the elevated service holds its ends of the pipes.            *)
LEMMA Ends ==
  ASSUME Core!ConstantsOK, CoreTypes
  PROVE  /\ Core!CanWrite(Service, Elevated) <=> Elevated \in csAlive
         /\ \A p, q : Core!Ended(p, q) => p \notin csAlive
         /\ \A p, q : q \in csAlive => Core!CanWrite(p, q)
  BY DEF CoreTypes, Core!CanWrite, Core!Gone, Core!Ended

(* What was asked for stays so, and what was executed is asked for.        *)
LEMMA AskedStays ==
  ASSUME CoreTypes, CoreTypes',
         \A t \in Threads : \/ csThread'[t].count = csThread[t].count
                            \/ csThread[t].count <= csThread'[t].count
  PROVE  \A x : Asked(x) => Asked(x)'
<1> SUFFICES ASSUME NEW x, NEW t \in Threads, NEW n \in 1 .. csThread[t].count, x = <<t, n>>
             PROVE  n \in 1 .. csThread'[t].count
  BY DEF Asked
<1>1. csThread[t].count \in Nat /\ csThread'[t].count \in Nat
  BY DEF CoreTypes, ThreadStates
<1> QED BY <1>1

LEMMA InitCore == Core!ConstantsOK /\ Core!Init => CoreInv
<1> SUFFICES ASSUME Core!ConstantsOK, Core!Init PROVE CoreInv
  OBVIOUS
<1>1. \A t \in Threads : /\ csThread[t].pc = "idle" /\ csThread[t].count = 0
                         /\ csThread[t].outcome = Core!NoRequest
                         /\ csThread[t].request = Core!NoRequest
  BY DEF Core!Init
<1>2. CoreTypes
  <2>1. csThread \in [Threads -> ThreadStates]
    BY MessageTypes DEF Core!Init, ThreadStates
  <2>2. csService \in [pc : ServicePcs, request : Messages, available : BOOLEAN]
    BY MessageTypes DEF Core!Init, ServicePcs
  <2>3. csElevated \in [pc : {"none", "sync", "read", "execute"}, request : Messages]
    BY MessageTypes DEF Core!Init
  <2>4. csPipe \in [Core!Wires -> Seq(Messages)]
    <3>1. <<>> \in Seq(Messages)
      OBVIOUS
    <3> DEFINE empty == <<>>
    <3>2. csPipe = [w \in Core!Wires |-> empty]
      BY DEF Core!Init
    <3>3. empty \in Seq(Messages)
      BY <3>1
    <3> HIDE DEF empty
    <3> QED BY <3>2, <3>3
  <2>5. csExecuted \in Seq(Threads \X Nat)
    BY DEF Core!Init
  <2> QED BY <2>1, <2>2, <2>3, <2>4, <2>5 DEF CoreTypes, Core!Init
<1>3. DOMAIN csExecuted = {} /\ \A x : ~Executed(x)
  BY DEF Core!Init, Executed
<1>4. Sent = <<>> /\ Answers = <<>> /\ Passed = <<>> /\ Results = <<>>
  BY DEF Core!Init, Core!Wires, Sent, Answers, Passed, Results
<1>5. ExecutedInv /\ ThreadInv
  BY <1>1, <1>2, <1>3, MessageTypes DEF ExecutedInv, ThreadInv
<1>6. AnswerInv /\ ServiceInv /\ ElevatedInv /\ ResultInv
  BY <1>4 DEF AnswerInv, ServiceInv, ElevatedInv, ResultInv, Core!Init, Core!ConstantsOK
<1> QED BY <1>2, <1>5, <1>6 DEF CoreInv

(* A process that ends or is killed, and children that start or end.       *)
LEMMA EndsCore ==
  ASSUME CoreInv, csAlive' \subseteq csAlive, csHeld' \subseteq Core!Wires \ {<<Elevated, Service>>},
         UNCHANGED <<csThread, csMutex, csKnown, csService, csElevated, csPipe, csExecuted>>
  PROVE  CoreInv'
<1> USE DEF CoreInv
<1>1. CoreTypes'
  BY DEF CoreTypes
<1>2. /\ Sent' = Sent /\ Answers' = Answers /\ Passed' = Passed /\ Results' = Results
      /\ \A x : Executed(x)' = Executed(x) /\ Asked(x)' = Asked(x)
  BY SamePipes DEF Executed, Asked
<1>3. ExecutedInv' /\ ThreadInv'
  BY <1>2 DEF ExecutedInv, ThreadInv
<1>4. AnswerInv'
  BY <1>2 DEF AnswerInv, Truthful
<1>5. ServiceInv' /\ ResultInv'
  BY <1>2 DEF ServiceInv, ResultInv, Truthful
<1>6. \A m : Waiting(m) => Waiting(m)'
  BY <1>2 DEF Waiting
<1>7. ElevatedInv'
  BY <1>2, <1>6 DEF ElevatedInv
<1> QED BY <1>1, <1>3, <1>4, <1>5, <1>7

-----------------------------------------------------------------------------
(* The application.                                                        *)

LEMMA NewStates ==
  ASSUME NEW s \in ThreadStates, NEW m \in Nat, NEW n \in Nat, NEW r \in Messages,
         NEW pc \in {"idle", "password", "send", "receive"}
  PROVE  [s EXCEPT !.count = m, !.passwords = n, !.pc = pc, !.request = r] \in ThreadStates
  BY DEF ThreadStates

LEMMA SentStates ==
  ASSUME NEW s \in ThreadStates, NEW n \in Nat
  PROVE  [s EXCEPT !.pc = "send", !.passwords = n] \in ThreadStates
  BY DEF ThreadStates

(* A step of a thread that sends nothing and takes no answer.              *)
LEMMA ThreadMoves ==
  ASSUME CoreInv, CoreTypes', NEW t \in Threads,
         UNCHANGED <<csService, csElevated, csPipe, csAlive, csHeld, csExecuted>>,
         \A u \in Threads \ {t} : csThread'[u] = csThread[u],
         csThread[t].pc # "receive", csThread[t].count <= csThread'[t].count,
         ThreadInv',
         \/ csThread'[t].request = csThread[t].request /\ csThread[t].pc # "idle"
         \/ csThread'[t].request.of = <<t, csThread[t].count + 1>>
  PROVE  CoreInv'
<1> USE DEF CoreInv
<1>1. /\ Sent' = Sent /\ Answers' = Answers /\ Passed' = Passed /\ Results' = Results
      /\ \A y : Executed(y)' = Executed(y)
  BY SamePipes DEF Executed
<1>2. \A x : Asked(x) => Asked(x)'
  <2>1. \A u \in Threads : csThread[u].count \in Nat
    BY DEF CoreTypes, ThreadStates
  <2>2. \A u \in Threads \ {t} : csThread[u].count <= csThread'[u].count
    BY <2>1
  <2>3. \A u \in Threads : csThread[u].count <= csThread'[u].count
    BY <2>2
  <2> QED BY <2>3, AskedStays
<1>3. ExecutedInv'
  BY <1>2 DEF ExecutedInv
<1>4. AnswerInv'
  BY <1>1 DEF AnswerInv, Truthful
<1>5. ServiceInv' /\ ResultInv'
  BY <1>1 DEF ServiceInv, ResultInv, Truthful
<1>6. \A m : Waiting(m) => Waiting(m)'
  <2> SUFFICES ASSUME NEW m, Waiting(m) PROVE Waiting(m)'
    OBVIOUS
  <2>1. m.of # <<t, csThread[t].count + 1>>
    <3>1. PICK u \in Threads : \E n \in 1 .. csThread[u].count : m.of = <<u, n>>
      BY DEF Waiting, Asked
    <3>2. csThread[t].count \in Nat
      BY DEF CoreTypes, ThreadStates
    <3> QED BY <3>1, <3>2
  <2>2. ASSUME csThread'[t].request.of = m.of PROVE FALSE
    <3>1. csThread[t].pc \in {"password", "send", "idle"}
      BY DEF CoreTypes, ThreadStates
    <3> QED BY <2>1, <2>2, <3>1 DEF Waiting
  <2>3. \A u \in Threads : csThread'[u].request.of = m.of => csThread'[u].pc \in {"idle", "receive"}
    BY <2>2 DEF Waiting
  <2> QED BY <1>1, <1>2, <2>3 DEF Waiting
<1>7. ElevatedInv'
  BY <1>1, <1>6 DEF ElevatedInv
<1> QED BY <1>3, <1>4, <1>5, <1>7

LEMMA SendRequestCore ==
  ASSUME Core!ConstantsOK, CoreInv, NEW t \in Threads, Core!SendRequest(t)
  PROVE  CoreInv'
<1>1. PICK e \in BOOLEAN, pc \in {"password", "send"} :
        csThread' = [csThread EXCEPT ![t] =
          [csThread[t] EXCEPT !.count = @ + 1, !.passwords = 0, !.pc = pc,
                            !.request = Core!Request(t, csThread[t].count + 1, e)]]
  BY DEF Core!SendRequest
<1>2. /\ UNCHANGED <<csKnown, csService, csElevated, csPipe, csAlive, csHeld, csExecuted>>
      /\ csMutex = Nobody /\ csMutex' = t /\ csThread[t].pc = "idle"
  BY DEF Core!SendRequest, Core!Enter
<1>3. CoreTypes /\ csThread[t].count \in Nat
  BY DEF CoreInv, CoreTypes, ThreadStates
<1> DEFINE r == Core!Request(t, csThread[t].count + 1, e)
<1>4. r \in Messages /\ r.of = <<t, csThread[t].count + 1>> /\ r.kind = "request"
  <2>1. csThread[t].count + 1 \in Nat
    BY <1>3
  <2>2. \A n \in Nat :
          /\ Core!Request(t, n, e) \in Messages /\ Core!Request(t, n, e).of = <<t, n>>
          /\ Core!Request(t, n, e).kind = "request"
    BY SMTT(30) DEF Core!Request, Messages
  <2> DEFINE next == csThread[t].count + 1
  <2>3. next \in Nat
    BY <2>1
  <2> HIDE DEF next
  <2>4. /\ Core!Request(t, next, e) \in Messages /\ Core!Request(t, next, e).of = <<t, next>>
        /\ Core!Request(t, next, e).kind = "request"
    BY <2>2, <2>3
  <2> QED BY <2>4 DEF next
<1>5. PICK x \in ThreadStates :
        /\ x.pc = pc /\ x.request = r /\ x.count = csThread[t].count + 1
        /\ x.outcome = csThread[t].outcome /\ csThread' = [csThread EXCEPT ![t] = x]
  <2> HIDE DEF r
  <2>1. csThread[t] \in ThreadStates /\ csThread[t].count + 1 \in Nat
    BY <1>3 DEF CoreTypes
  <2>2. PICK m \in Nat : m = csThread[t].count + 1
    BY <2>1
  <2> DEFINE new == [csThread[t] EXCEPT !.count = m, !.passwords = 0, !.pc = pc, !.request = r]
  <2>3. csThread' = [csThread EXCEPT ![t] = new]
    <3>1. [csThread[t] EXCEPT !.count = @ + 1, !.passwords = 0, !.pc = pc, !.request = r] = new
      <4>1. [csThread[t] EXCEPT !.count = @ + 1, !.passwords = 0, !.pc = pc, !.request = r]
            = [csThread[t] EXCEPT !.count = csThread[t].count + 1, !.passwords = 0, !.pc = pc,
                                !.request = r]
        BY <2>1 DEF ThreadStates
      <4> QED BY <2>2, <4>1
    <3>2. csThread' = [csThread EXCEPT ![t] =
             [csThread[t] EXCEPT !.count = @ + 1, !.passwords = 0, !.pc = pc, !.request = r]]
      BY <1>1 DEF r
    <3> HIDE DEF new
    <3> QED BY <3>1, <3>2
  <2>4. new \in ThreadStates
    BY <1>4, <2>1, NewStates
  <2>5. /\ new.pc = pc /\ new.request = r /\ new.count = m
        /\ new.outcome = csThread[t].outcome
    BY <2>1 DEF ThreadStates
  <2> HIDE DEF new
  <2> QED BY <2>2, <2>3, <2>4, <2>5
<1> HIDE DEF r
<1>6. CoreTypes'
  BY <1>2, <1>3, <1>5 DEF CoreTypes, ThreadStates
<1>7. /\ csThread'[t].pc = pc /\ csThread'[t].request = r
      /\ csThread'[t].count = csThread[t].count + 1
      /\ csThread'[t].outcome = csThread[t].outcome
      /\ \A u \in Threads \ {t} : csThread'[u] = csThread[u]
  BY <1>3, <1>5 DEF CoreTypes, ThreadStates
<1>8. ~Executed(r.of)
  BY <1>3, <1>4 DEF CoreInv, ExecutedInv, Executed, Asked
<1>9. ThreadInv'
  <2>1. \A u \in Threads : csThread[u].pc = "idle"
    BY <1>2 DEF Core!ConstantsOK, CoreInv, ThreadInv
  <2>2. \A y : Executed(y)' = Executed(y)
    BY <1>2 DEF Executed
  <2> QED BY <1>2, <1>3, <1>4, <1>7, <1>8, <2>1, <2>2 DEF CoreInv, ThreadInv
<1> QED BY <1>2, <1>3, <1>4, <1>6, <1>7, <1>9, ThreadMoves

(* SendRequest ends with an outcome for its request.                       *)
LEMMA Returns ==
  ASSUME Core!ConstantsOK, CoreInv, NEW t \in Threads, NEW o \in Messages, csThread[t].pc # "idle",
         Core!Return(t, o)
  PROVE  /\ csThread' \in [Threads -> ThreadStates]
         /\ csMutex' \in Threads \cup {Nobody}
         /\ csThread'[t].pc = "idle" /\ csThread'[t].request = csThread[t].request
         /\ csThread'[t].count = csThread[t].count /\ csThread'[t].outcome = o
         /\ \A u \in Threads \ {t} : csThread'[u] = csThread[u] /\ csThread[u].pc = "idle"
         /\ UNCHANGED csExecuted /\ o.of = csThread[t].request.of
            /\ (o.kind = "done" => Executed(o.of)) => ThreadInv'
<1>1. /\ csThread' = [csThread EXCEPT ![t].pc = "idle", ![t].outcome = o] /\ csMutex' = Nobody
      /\ CoreTypes
  BY DEF Core!Return, CoreInv
<1>2. /\ csThread' \in [Threads -> ThreadStates]
      /\ csMutex' \in Threads \cup {Nobody}
      /\ csThread'[t].pc = "idle" /\ csThread'[t].request = csThread[t].request
      /\ csThread'[t].count = csThread[t].count /\ csThread'[t].outcome = o
      /\ \A u \in Threads \ {t} : csThread'[u] = csThread[u]
  <2>1. csThread \in [Threads -> ThreadStates] /\ csThread[t] \in ThreadStates
    BY <1>1 DEF CoreTypes
  <2>2. \A s \in ThreadStates : [s EXCEPT !.pc = "idle", !.outcome = o] \in ThreadStates
    BY DEF ThreadStates
  <2>3. PICK s \in ThreadStates : s = csThread[t]
    BY <2>1
  <2>4. PICK r \in ThreadStates : r = [s EXCEPT !.pc = "idle", !.outcome = o]
    BY <2>2
  <2>5. r.pc = "idle" /\ r.outcome = o /\ r.request = s.request /\ r.count = s.count
    BY <2>3, <2>4 DEF ThreadStates
  <2>6. csThread' = [csThread EXCEPT ![t] = r]
    BY <1>1, <2>1, <2>3, <2>4
  <2> HIDE DEF ThreadStates
  <2> QED BY <1>1, <2>1, <2>3, <2>5, <2>6
<1>3. \A u \in Threads \ {t} : csThread[u].pc = "idle"
  BY DEF CoreInv, ThreadInv
<1>4. ASSUME UNCHANGED csExecuted, o.of = csThread[t].request.of, o.kind = "done" => Executed(o.of)
      PROVE  ThreadInv'
  <2>1. \A y : Executed(y)' = Executed(y)
    BY <1>4 DEF Executed
  <2> QED BY <1>2, <1>3, <1>4, <2>1 DEF CoreInv, ThreadInv
<1> QED BY <1>2, <1>3, <1>4

LEMMA AskPasswordCore ==
  ASSUME Core!ConstantsOK, CoreInv, NEW t \in Threads, Core!AskPassword(t)
  PROVE  CoreInv'
<1>1. /\ UNCHANGED <<csKnown, csService, csElevated, csPipe, csAlive, csHeld, csExecuted>>
      /\ csThread[t].pc = "password" /\ CoreTypes
  BY DEF Core!AskPassword, CoreInv
<1>2. CASE /\ csThread' = [csThread EXCEPT ![t].pc = "send", ![t].passwords = @ + 1]
           /\ UNCHANGED csMutex
  <2>5. PICK x \in ThreadStates :
          /\ x.pc = "send" /\ x.request = csThread[t].request /\ x.count = csThread[t].count
          /\ x.outcome = csThread[t].outcome /\ csThread' = [csThread EXCEPT ![t] = x]
    <3>1. csThread[t] \in ThreadStates
      BY <1>1 DEF CoreTypes
    <3>2. PICK n \in Nat : n = csThread[t].passwords + 1
      BY <3>1 DEF ThreadStates
    <3> DEFINE new == [csThread[t] EXCEPT !.pc = "send", !.passwords = n]
    <3>5. csThread' = [csThread EXCEPT ![t] = new]
      BY <1>1, <1>2, <3>2 DEF CoreTypes
    <3>3. new \in ThreadStates
      BY <3>1, SentStates
    <3>4. /\ new.pc = "send" /\ new.request = csThread[t].request
          /\ new.count = csThread[t].count /\ new.outcome = csThread[t].outcome
      BY <3>1 DEF ThreadStates
    <3> HIDE DEF new
    <3> QED BY <3>3, <3>4, <3>5
  <2>1. CoreTypes'
    <3>1. csThread' \in [Threads -> ThreadStates]
      BY <1>1, <2>5 DEF CoreTypes
    <3> QED BY <1>1, <1>2, <3>1, Zenon DEF CoreTypes
  <2>2. /\ csThread'[t].pc = "send" /\ csThread'[t].request = csThread[t].request
        /\ csThread'[t].count = csThread[t].count /\ csThread'[t].outcome = csThread[t].outcome
        /\ \A u \in Threads \ {t} : csThread'[u] = csThread[u]
    BY <1>1, <2>5 DEF CoreTypes, ThreadStates
  <2>3. ThreadInv'
    <3>1. \A y : Executed(y)' <=> Executed(y)
      <4>1. csExecuted' = csExecuted
        BY <1>1
      <4> QED BY <4>1 DEF Executed
    <3>2. csMutex = t /\ csMutex' = t /\ \A u \in Threads \ {t} : csThread[u].pc = "idle"
      BY <1>1, <1>2 DEF CoreInv, ThreadInv
    <3> QED BY <1>1, <2>2, <3>1, <3>2 DEF CoreInv, ThreadInv
  <2>4. csThread[t].count <= csThread'[t].count
    BY <1>1, <2>2 DEF CoreTypes, ThreadStates
  <2> QED BY <1>1, <2>1, <2>2, <2>3, <2>4, ThreadMoves
<1>3. CASE Core!Return(t, Core!Answer(csThread[t].request, "aborted"))
  <2> DEFINE o == Core!Answer(csThread[t].request, "aborted")
  <2>1. o \in Messages /\ o.of = csThread[t].request.of /\ o.kind = "aborted"
    BY <1>1, MessageTypes DEF CoreTypes, ThreadStates
  <2>2. Core!Return(t, o)
    BY <1>3
  <2> HIDE DEF o
  <2>3. /\ ThreadInv' /\ csThread'[t].request = csThread[t].request
        /\ csThread'[t].count = csThread[t].count
        /\ \A u \in Threads \ {t} : csThread'[u] = csThread[u]
    BY <1>1, <2>1, <2>2, Returns
  <2>4. CoreTypes'
    BY <1>1, <2>1, <2>2, Returns DEF CoreTypes
  <2>5. csThread[t].count <= csThread'[t].count
    BY <1>1, <2>3 DEF CoreTypes, ThreadStates
  <2> QED BY <1>1, <2>3, <2>4, <2>5, ThreadMoves
<1> QED BY <1>2, <1>3 DEF Core!AskPassword

(* The service that waits while no thread waits for an answer.             *)
LEMMA Calm ==
  ASSUME CoreInv, App \in csAlive, Service \in csAlive,
         \A t \in Threads : csThread[t].pc # "receive"
  PROVE  /\ csService.pc = "read" /\ Sent = <<>> /\ Answers = <<>> /\ Results = <<>>
         /\ Elevated \in csAlive =>
              csElevated.pc \in {"sync", "read"} /\ Passed \in {<<>>, <<Core!SyncCode>>}
<1>1. csService.pc = "read" /\ Sent = <<>> /\ Answers = <<>>
  BY DEF CoreInv, ServiceInv, AnswerInv
<1>2. Results = <<>> /\ \A m : ~Waiting(m)
  BY <1>1 DEF CoreInv, ResultInv, Waiting
<1> QED BY <1>1, <1>2 DEF CoreInv, ElevatedInv

LEMMA SendCore ==
  ASSUME Core!ConstantsOK, CoreInv, NEW t \in Threads, Core!Send(t)
  PROVE  CoreInv'
<1>1. /\ UNCHANGED <<csKnown, csService, csElevated, csAlive, csHeld, csExecuted>>
      /\ csThread[t].pc = "send" /\ CoreTypes /\ App \in csAlive
  BY DEF Core!Send, CoreInv
<1>2. csMutex = t /\ \A u \in Threads \ {t} : csThread[u].pc = "idle"
  BY <1>1 DEF CoreInv, ThreadInv
<1>3. csThread[t] \in ThreadStates /\ csThread[t].request \in Messages
  BY <1>1 DEF CoreTypes, ThreadStates
<1>4. CASE Service \in csAlive
  <2>1. /\ csPipe' = Core!Written(App, Service, csThread[t].request) /\ UNCHANGED csMutex
        /\ csThread' = [csThread EXCEPT ![t].pc = "receive"]
    BY <1>1, <1>4, Ends DEF Core!Send
  <2>2. /\ csService.pc = "read" /\ Sent = <<>> /\ Answers = <<>> /\ Results = <<>>
        /\ Elevated \in csAlive =>
             csElevated.pc \in {"sync", "read"} /\ Passed \in {<<>>, <<Core!SyncCode>>}
    BY <1>1, <1>2, <1>4, Calm
  <2>3. /\ csPipe' \in [Core!Wires -> Seq(Messages)] /\ Sent' = <<csThread[t].request>>
        /\ Answers' = <<>> /\ Passed' = Passed /\ Results' = <<>>
    <3>1. PICK s \in Seq(Messages) : s = <<csThread[t].request>>
      BY <1>3, ShortQueues
    <3>2. Append(Sent, csThread[t].request) = s
      BY <2>2, <3>1, Queues
    <3>3. csPipe' = [csPipe EXCEPT ![<<App, Service>>] = s]
      BY <2>1, <3>2 DEF Core!Written, Sent
    <3> QED BY <1>1, <2>2, <3>1, <3>3, OnePipe
  <2>4. /\ csThread' \in [Threads -> ThreadStates] /\ csThread'[t].pc = "receive"
        /\ csThread'[t].request = csThread[t].request /\ csThread'[t].count = csThread[t].count
        /\ csThread'[t].outcome = csThread[t].outcome
        /\ \A u \in Threads \ {t} : csThread'[u] = csThread[u]
    BY <1>1, <1>3, <2>1 DEF CoreTypes, ThreadStates
  <2>5. CoreTypes'
    BY <1>1, <2>1, <2>3, <2>4 DEF CoreTypes
  <2>6. \A x : (Executed(x)' <=> Executed(x)) /\ (Asked(x) => Asked(x)')
    <3>1. \A u \in Threads : csThread'[u].count = csThread[u].count
      BY <2>4
    <3>2. \A x : Asked(x) => Asked(x)'
      BY <1>1, <2>5, <3>1, AskedStays
    <3> QED BY <1>1, <3>2 DEF Executed
  <2>7. ExecutedInv' /\ ThreadInv'
    BY <1>1, <1>2, <2>1, <2>4, <2>6 DEF CoreInv, ExecutedInv, ThreadInv
  <2>8. AnswerInv' /\ ResultInv' /\ ElevatedInv'
    BY <1>1, <2>2, <2>3 DEF AnswerInv, ResultInv, ElevatedInv
  <2>9. ServiceInv'
    <3>1. ~Executed(csThread[t].request.of)
      BY <1>1 DEF CoreInv, ThreadInv
    <3> QED BY <1>1, <2>2, <2>3, <2>4, <2>6, <3>1 DEF ServiceInv
  <2> QED BY <2>5, <2>7, <2>8, <2>9 DEF CoreInv
<1>5. CASE Service \notin csAlive /\ Core!CanWrite(App, Service)
  <2>1. /\ csPipe' = Core!Written(App, Service, csThread[t].request) /\ UNCHANGED csMutex
        /\ csThread' = [csThread EXCEPT ![t].pc = "receive"]
    BY <1>5 DEF Core!Send
  <2>2. Answers = <<>>
    BY <1>1, <1>2 DEF CoreInv, AnswerInv
  <2>3. /\ csPipe' \in [Core!Wires -> Seq(Messages)]
        /\ Answers' = <<>> /\ Passed' = Passed /\ Results' = Results
    <3>1. Sent \in Seq(Messages)
      BY <1>1 DEF CoreTypes, Core!Wires, Sent
    <3>2. PICK s \in Seq(Messages) : s = Append(Sent, csThread[t].request)
      BY <1>3, <3>1, QueueTypes
    <3>3. csPipe' = [csPipe EXCEPT ![<<App, Service>>] = s]
      BY <2>1, <3>2 DEF Core!Written, Sent
    <3> QED BY <1>1, <2>2, <3>3, OnePipe
  <2>4. /\ csThread' \in [Threads -> ThreadStates] /\ csThread'[t].pc = "receive"
        /\ csThread'[t].request = csThread[t].request /\ csThread'[t].count = csThread[t].count
        /\ csThread'[t].outcome = csThread[t].outcome
        /\ \A u \in Threads \ {t} : csThread'[u] = csThread[u]
    BY <1>1, <1>3, <2>1 DEF CoreTypes, ThreadStates
  <2>5. CoreTypes'
    BY <1>1, <2>1, <2>3, <2>4 DEF CoreTypes
  <2>6. \A x : (Executed(x)' <=> Executed(x)) /\ (Asked(x) => Asked(x)')
    <3>1. \A u \in Threads : csThread'[u].count = csThread[u].count
      BY <2>4
    <3>2. \A x : Asked(x) => Asked(x)'
      BY <1>1, <2>5, <3>1, AskedStays
    <3> QED BY <1>1, <3>2 DEF Executed
  <2>7. ExecutedInv' /\ ThreadInv'
    BY <1>1, <1>2, <2>1, <2>4, <2>6 DEF CoreInv, ExecutedInv, ThreadInv
  <2>8. AnswerInv' /\ ServiceInv' /\ ResultInv'
    BY <1>1, <1>5, <2>3 DEF AnswerInv, ServiceInv, ResultInv
  <2>9. \A m : Waiting(m) => Waiting(m)'
    BY <1>1, <1>5, <2>3, <2>4, <2>6 DEF Waiting
  <2>10. ElevatedInv'
    BY <1>1, <2>3, <2>9 DEF CoreInv, ElevatedInv
  <2> QED BY <2>5, <2>7, <2>8, <2>10 DEF CoreInv
<1>6. CASE ~Core!CanWrite(App, Service)
  <2>1. PICK o \in Messages : o = Core!Answer(csThread[t].request, "broken")
    BY <1>3, MessageTypes
  <2>2. Core!Return(t, o) /\ UNCHANGED csPipe
    BY <1>6, <2>1 DEF Core!Send
  <2>3. o.of = csThread[t].request.of /\ o.kind = "broken"
    BY <1>3, <2>1, MessageTypes
  <2>4. /\ ThreadInv' /\ csThread'[t].request = csThread[t].request
        /\ csThread'[t].count = csThread[t].count
        /\ \A u \in Threads \ {t} : csThread'[u] = csThread[u]
    BY <1>1, <2>2, <2>3, Returns
  <2>5. CoreTypes'
    BY <1>1, <2>2, Returns DEF CoreTypes
  <2>6. csThread[t].count <= csThread'[t].count
    BY <1>3, <2>4 DEF ThreadStates
  <2> QED BY <1>1, <2>2, <2>4, <2>5, <2>6, ThreadMoves
<1> QED BY <1>4, <1>5, <1>6

LEMMA ReceiveCore ==
  ASSUME Core!ConstantsOK, CoreInv, NEW t \in Threads, Core!Receive(t)
  PROVE  CoreInv'
<1>1. /\ UNCHANGED <<csService, csElevated, csAlive, csHeld, csExecuted>>
      /\ csThread[t].pc = "receive" /\ CoreTypes /\ App \in csAlive
  BY DEF Core!Receive, CoreInv
<1>2. csMutex = t /\ \A u \in Threads \ {t} : csThread[u].pc = "idle"
  BY <1>1 DEF CoreInv, ThreadInv
<1>3. csThread[t] \in ThreadStates /\ csThread[t].request \in Messages
  BY <1>1 DEF CoreTypes, ThreadStates
<1>4. \A x : Executed(x)' <=> Executed(x)
  BY <1>1 DEF Executed
<1>5. CASE Answers # <<>>
  <2>1. PICK a \in Messages :
          /\ Answers = <<a>> /\ a.of = csThread[t].request.of /\ Truthful(a)
    BY <1>1, <1>2, <1>5 DEF CoreInv, AnswerInv
  <2>2. /\ csPipe' = Core!Consumed(Service, App)
        /\ \/ /\ Core!AskAgain(t, a)
              /\ csThread' = [csThread EXCEPT ![t].pc = "password"]
              /\ UNCHANGED <<csMutex, csKnown>>
           \/ /\ Core!Return(t, a)
              /\ csKnown' = (csKnown \/ (csThread[t].passwords > 0 /\ a.kind = "done"))
    <3>1. Core!Arrived(Service, App) /\ Core!Next1(Service, App) = a
      BY <1>5, <2>1, Queues DEF Core!Arrived, Core!Next1, Answers
    <3> QED BY <3>1 DEF Core!Receive
  <2>3. /\ csPipe' \in [Core!Wires -> Seq(Messages)] /\ Answers' = <<>>
        /\ Sent' = Sent /\ Passed' = Passed /\ Results' = Results
    <3>1. PICK s \in Seq(Messages) : s = <<>>
      BY ShortQueues
    <3>2. csPipe' = [csPipe EXCEPT ![<<Service, App>>] = s]
      BY <2>1, <2>2, <3>1, Queues DEF Core!Consumed, Answers
    <3> QED BY <1>1, <3>1, <3>2, OnePipe
  <2>4. /\ csThread' \in [Threads -> ThreadStates] /\ csThread'[t].count = csThread[t].count
        /\ \A u \in Threads \ {t} : csThread'[u] = csThread[u]
        /\ csMutex' \in Threads \cup {Nobody} /\ csKnown' \in BOOLEAN /\ ThreadInv'
    <3>1. CASE /\ Core!AskAgain(t, a)
               /\ csThread' = [csThread EXCEPT ![t].pc = "password"]
               /\ UNCHANGED <<csMutex, csKnown>>
      <4>1. /\ csThread' \in [Threads -> ThreadStates] /\ csThread'[t].pc = "password"
            /\ csThread'[t].request = csThread[t].request /\ csThread'[t].count = csThread[t].count
            /\ csThread'[t].outcome = csThread[t].outcome
            /\ \A u \in Threads \ {t} : csThread'[u] = csThread[u]
        BY <1>1, <1>3, <3>1 DEF CoreTypes, ThreadStates
      <4>2. ~Executed(csThread[t].request.of)
        BY <2>1, <3>1 DEF Core!AskAgain, Truthful
      <4>3. ThreadInv'
        BY <1>1, <1>2, <1>4, <3>1, <4>1, <4>2 DEF CoreInv, ThreadInv
      <4> QED BY <1>1, <3>1, <4>1, <4>3 DEF CoreTypes
    <3>2. CASE /\ Core!Return(t, a)
               /\ csKnown' = (csKnown \/ (csThread[t].passwords > 0 /\ a.kind = "done"))
      <4>1. csKnown' \in BOOLEAN
        BY <1>1, <3>2 DEF CoreTypes
      <4>2. a.kind = "done" => Executed(a.of)
        BY <2>1 DEF Truthful
      <4> QED BY <1>1, <2>1, <3>2, <4>1, <4>2, Returns
    <3> QED BY <2>2, <3>1, <3>2
  <2>5. CoreTypes'
    BY <1>1, <2>3, <2>4 DEF CoreTypes
  <2>6. \A x : Asked(x) => Asked(x)'
    <3>1. \A u \in Threads : csThread'[u].count = csThread[u].count
      BY <2>4
    <3> QED BY <1>1, <2>5, <3>1, AskedStays
  <2>7. ExecutedInv' /\ AnswerInv'
    BY <1>1, <2>3, <2>6 DEF CoreInv, ExecutedInv, AnswerInv
  <2>8. ServiceInv' /\ ResultInv'
    BY <1>1, <1>4, <1>5, <2>3 DEF CoreInv, ServiceInv, ResultInv, Truthful
  <2>9. ElevatedInv'
    <3>1. \A m : ~Waiting(m)
      BY <1>1, <1>5 DEF Waiting
    <3> QED BY <1>1, <2>3, <3>1 DEF CoreInv, ElevatedInv
  <2> QED BY <2>4, <2>5, <2>7, <2>8, <2>9 DEF CoreInv
<1>6. CASE Answers = <<>>
  <2>1. PICK o \in Messages : o = Core!Answer(csThread[t].request, "broken")
    BY <1>3, MessageTypes
  <2>2. Core!Return(t, o) /\ UNCHANGED <<csPipe, csKnown>> /\ Service \notin csAlive
    BY <1>1, <1>6, <2>1, Ends DEF Core!Receive, Core!Arrived, Answers
  <2>3. o.of = csThread[t].request.of /\ o.kind = "broken"
    BY <1>3, <2>1, MessageTypes
  <2>4. /\ ThreadInv' /\ csThread'[t].request = csThread[t].request /\ csThread'[t].pc = "idle"
        /\ csThread'[t].count = csThread[t].count
        /\ \A u \in Threads \ {t} : csThread'[u] = csThread[u]
    BY <1>1, <2>2, <2>3, Returns
  <2>5. CoreTypes'
    BY <1>1, <2>2, Returns DEF CoreTypes
  <2>6. /\ Sent' = Sent /\ Answers' = Answers /\ Passed' = Passed /\ Results' = Results
    BY <1>1, <2>2, SamePipes
  <2>7. \A x : Asked(x) => Asked(x)'
    <3>1. \A u \in Threads : csThread'[u].count = csThread[u].count
      BY <2>4
    <3> QED BY <1>1, <2>5, <3>1, AskedStays
  <2>8. ExecutedInv' /\ AnswerInv' /\ ServiceInv' /\ ResultInv'
    BY <1>1, <1>6, <2>2, <2>6, <2>7
    DEF CoreInv, ExecutedInv, AnswerInv, ServiceInv, ResultInv
  <2>9. \A m : Waiting(m) => Waiting(m)'
    BY <1>1, <1>4, <2>2, <2>4, <2>6, <2>7 DEF Waiting
  <2>10. ElevatedInv'
    BY <1>1, <2>6, <2>9 DEF CoreInv, ElevatedInv
  <2> QED BY <2>4, <2>5, <2>8, <2>10 DEF CoreInv
<1> QED BY <1>5, <1>6

LEMMA StopCore ==
  ASSUME Core!ConstantsOK, CoreInv, Core!Stop
  PROVE  CoreInv'
<1>1. /\ UNCHANGED <<csThread, csMutex, csKnown, csService, csElevated, csHeld, csExecuted>>
      /\ csAlive' = csAlive \ {App} /\ App \in csAlive /\ CoreTypes
      /\ \A t \in Threads : csThread[t].pc # "receive"
  BY DEF Core!Stop, CoreInv
<1>2. CASE Service \in csAlive
  <2>1. /\ csService.pc = "read" /\ Sent = <<>> /\ Answers = <<>> /\ Results = <<>>
        /\ Elevated \in csAlive =>
             csElevated.pc \in {"sync", "read"} /\ Passed \in {<<>>, <<Core!SyncCode>>}
    BY <1>1, <1>2, Calm
  <2>2. /\ csPipe' \in [Core!Wires -> Seq(Messages)] /\ Sent' = <<Core!ExitRequest>>
        /\ Answers' = <<>> /\ Passed' = Passed /\ Results' = <<>>
    <3>1. PICK s \in Seq(Messages) : s = <<Core!ExitRequest>>
      BY MessageTypes, ShortQueues
    <3>2. Append(Sent, Core!ExitRequest) = s
      BY <2>1, <3>1, Queues
    <3>3. csPipe' = [csPipe EXCEPT ![<<App, Service>>] = s]
      BY <1>1, <1>2, <3>2, Ends DEF Core!Stop, Core!Written, Sent
    <3> QED BY <1>1, <2>1, <3>1, <3>3, OnePipe
  <2>3. CoreTypes'
    BY <1>1, <2>2 DEF CoreTypes
  <2>4. ExecutedInv' /\ ThreadInv'
    BY <1>1 DEF CoreInv, ExecutedInv, ThreadInv, Executed, Asked
  <2>5. AnswerInv' /\ ServiceInv' /\ ResultInv' /\ ElevatedInv'
    BY <1>1, <2>1, <2>2 DEF AnswerInv, ServiceInv, ResultInv, ElevatedInv, Core!ConstantsOK
  <2> QED BY <2>3, <2>4, <2>5 DEF CoreInv
<1>3. CASE Service \notin csAlive
  <2>1. Sent \in Seq(Messages)
    BY <1>1 DEF CoreTypes, Core!Wires, Sent
  <2>2. PICK s \in Seq(Messages) : s = Append(Sent, Core!ExitRequest)
    BY <2>1, MessageTypes, QueueTypes
  <2>3. UNCHANGED csPipe \/ csPipe' = [csPipe EXCEPT ![<<App, Service>>] = s]
    BY <2>2 DEF Core!Stop, Core!Written, Sent
  <2>4. /\ csPipe' \in [Core!Wires -> Seq(Messages)]
        /\ Answers' = Answers /\ Passed' = Passed /\ Results' = Results
    BY <1>1, <2>3, OnePipe, SamePipes
  <2>5. CoreTypes' /\ (Service \notin csAlive') /\ (App \notin csAlive')
    BY <1>1, <1>3, <2>4 DEF CoreTypes
  <2>6. ExecutedInv' /\ ThreadInv'
    BY <1>1 DEF CoreInv, ExecutedInv, ThreadInv, Executed, Asked
  <2>7. AnswerInv' /\ ServiceInv' /\ ResultInv'
    BY <2>5 DEF AnswerInv, ServiceInv, ResultInv
  <2>8. \A m : Waiting(m) => Waiting(m)'
    BY <1>1, <1>3, <2>4, <2>5 DEF Waiting, Executed, Asked
  <2>9. ElevatedInv'
    BY <1>1, <1>3, <2>4, <2>5, <2>8 DEF CoreInv, ElevatedInv
  <2> QED BY <2>5, <2>6, <2>7, <2>9 DEF CoreInv
<1> QED BY <1>2, <1>3

-----------------------------------------------------------------------------
(* The services.                                                           *)

LEMMA Appends ==
  ASSUME CoreTypes, ExecutedInv, NEW x \in Threads \X Nat, Asked(x), ~Executed(x),
         csExecuted' = Append(csExecuted, x), UNCHANGED csThread
  PROVE  /\ csExecuted' \in Seq(Threads \X Nat) /\ ExecutedInv'
         /\ \A y : Executed(y)' <=> Executed(y) \/ y = x
<1>1. csExecuted \in Seq(Threads \X Nat) /\ Len(csExecuted) \in Nat
  BY DEF CoreTypes
<1>2. /\ csExecuted' \in Seq(Threads \X Nat) /\ Len(csExecuted') = Len(csExecuted) + 1
      /\ csExecuted'[Len(csExecuted) + 1] = x
      /\ \A i \in 1 .. Len(csExecuted) : csExecuted'[i] = csExecuted[i]
  BY <1>1
<1>3. DOMAIN csExecuted = 1 .. Len(csExecuted) /\ DOMAIN csExecuted' = 1 .. Len(csExecuted) + 1
  BY <1>1, <1>2
<1>4. \A i \in DOMAIN csExecuted' : i \in DOMAIN csExecuted \/ i = Len(csExecuted) + 1
  BY <1>1, <1>3
<1>5. \A y : Executed(y)' <=> Executed(y) \/ y = x
  BY <1>1, <1>2, <1>3, <1>4 DEF Executed
<1>6. (\A i \in DOMAIN csExecuted : Asked(csExecuted[i]))'
  <2>1. \A i \in DOMAIN csExecuted' : \A y : y = csExecuted'[i] => Asked(y)
    BY <1>2, <1>3, <1>4 DEF ExecutedInv
  <2>2. \A y : Asked(y)' <=> Asked(y)
    BY DEF Asked
  <2>3. \A i \in DOMAIN csExecuted' : \A y : y = csExecuted'[i] => Asked(y)'
    BY <2>1, <2>2
  <2> QED BY <2>3
<1>7. \A i \in DOMAIN csExecuted : csExecuted'[i] = csExecuted[i] /\ csExecuted[i] # x
  BY <1>2, <1>3 DEF Executed
<1>8. \A i, j \in DOMAIN csExecuted' : csExecuted'[i] = csExecuted'[j] => i = j
  BY <1>2, <1>4, <1>7 DEF ExecutedInv
<1> QED BY <1>2, <1>5, <1>6, <1>8 DEF ExecutedInv

(* The thread whose request the service has.                               *)
LEMMA Served ==
  ASSUME CoreInv, Service \in csAlive, csService.pc # "read"
  PROVE  \E t \in Threads :
           /\ csThread[t].pc = "receive" /\ Answers = <<>> /\ Sent = <<>>
           /\ csService.request = csThread[t].request
           /\ csService.pc # "relay" => ~Executed(csService.request.of)
           /\ csMutex = t /\ \A u \in Threads \ {t} : csThread[u].pc = "idle"
           /\ csService.request \in Messages /\ csService.request.kind = "request"
           /\ Asked(csService.request.of) /\ csService.request.of \in Threads \X Nat
<1>1. PICK t \in Threads :
        /\ csThread[t].pc = "receive" /\ Answers = <<>> /\ Sent = <<>>
        /\ csService.request = csThread[t].request
        /\ csService.pc # "relay" => ~Executed(csThread[t].request.of)
  BY DEF CoreInv, ServiceInv
<1>2. /\ csMutex = t /\ \A u \in Threads \ {t} : csThread[u].pc = "idle"
      /\ csThread[t].request.of = <<t, csThread[t].count>> /\ csThread[t].count > 0
      /\ csThread[t].request.kind = "request"
  BY <1>1 DEF CoreInv, ThreadInv
<1>3. csThread[t].count \in Nat /\ csThread[t].request \in Messages
  BY DEF CoreInv, CoreTypes, ThreadStates
<1>4. Asked(csService.request.of) /\ csService.request.of \in Threads \X Nat
  <2>1. csThread[t].count \in 1 .. csThread[t].count
    BY <1>2, <1>3
  <2> QED BY <1>1, <1>2, <1>3, <2>1 DEF Asked
<1> QED BY <1>1, <1>2, <1>3, <1>4

(* The service answers; if nobody waits for the answer, it ends.           *)
LEMMA Responds ==
  ASSUME Core!ConstantsOK, CoreInv, NEW a \in Messages, Service \in csAlive, csService.pc # "read",
         a.of = csService.request.of, Truthful(a)',
         \/ Answers' = <<a>> /\ UNCHANGED csAlive
         \/ Answers' = Answers /\ csAlive' = csAlive \ {Service},
         csService' = [csService EXCEPT !.pc = "read"], csPipe' \in [Core!Wires -> Seq(Messages)],
         Sent' = Sent, Passed' = Passed, Results' = <<>>,
         UNCHANGED <<csThread, csMutex, csKnown, csElevated, csHeld>>,
         csExecuted' \in Seq(Threads \X Nat), ExecutedInv', \A x : Executed(x) => Executed(x)',
         Elevated \in csAlive => csService.pc # "relay" \/ Results # <<>>
  PROVE  CoreInv'
<1>1. PICK t \in Threads :
        /\ csThread[t].pc = "receive" /\ Answers = <<>> /\ Sent = <<>>
        /\ csService.request = csThread[t].request
        /\ \A u \in Threads \ {t} : csThread[u].pc = "idle"
  BY Served
<1>2. CoreTypes /\ csService'.pc = "read" /\ csService'.request = csService.request
  BY DEF CoreInv, CoreTypes
<1>3. CoreTypes'
  BY <1>2 DEF CoreTypes, ServicePcs
<1>4. ThreadInv'
  BY <1>1 DEF CoreInv, ThreadInv
<1>5. AnswerInv'
  BY <1>1 DEF AnswerInv
<1>6. ServiceInv' /\ ResultInv'
  BY <1>1, <1>2 DEF ServiceInv, ResultInv
<1>7. ElevatedInv'
  <2>1. Elevated \in csAlive => \A m : ~Waiting(m)
    BY DEF Waiting
  <2>2. Elevated \in csAlive' => Elevated \in csAlive
    OBVIOUS
  <2>3. Elevated \in csAlive =>
          csElevated.pc \in {"sync", "read"} /\ Passed \in {<<>>, <<Core!SyncCode>>}
    BY <2>1 DEF CoreInv, ElevatedInv
  <2> QED BY <2>2, <2>3 DEF ElevatedInv
<1> QED BY <1>3, <1>4, <1>5, <1>6, <1>7 DEF CoreInv

(* ... with an answer of its own, to a request that it did not execute.    *)
LEMMA Refuses ==
  ASSUME Core!ConstantsOK, CoreInv, NEW a \in Messages, Service \in csAlive, csService.pc # "read",
         a.of = csService.request.of, a.kind # "done",
         a.kind = "notElevated" => csService.pc # "relay",
         Results = <<>>, csService.pc = "relay" => Elevated \notin csAlive,
         Core!Respond(a, csPipe), UNCHANGED <<csThread, csMutex, csKnown, csElevated, csHeld, csExecuted>>
  PROVE  CoreInv'
<1>1. Answers = <<>> /\ CoreTypes /\ (csService.pc # "relay" => ~Executed(a.of))
  BY Served DEF CoreInv
<1>2. \A x : Executed(x)' <=> Executed(x)
  BY DEF Executed
<1>3. Truthful(a)' /\ csExecuted' \in Seq(Threads \X Nat) /\ ExecutedInv'
  BY <1>1, <1>2 DEF Truthful, CoreInv, CoreTypes, ExecutedInv, Asked
<1>6. csService' = [csService EXCEPT !.pc = "read"]
  BY DEF Core!Respond, Core!ToPc
<1>4. CASE Core!CanWrite(Service, App)
  <2>1. PICK s \in Seq(Messages) : s = <<a>>
    BY ShortQueues
  <2>2. csPipe' = [csPipe EXCEPT ![<<Service, App>>] = s] /\ UNCHANGED csAlive
    BY <1>1, <1>4, <2>1, Queues DEF Core!Respond, Answers
  <2>3. /\ csPipe' \in [Core!Wires -> Seq(Messages)] /\ Answers' = s
        /\ Sent' = Sent /\ Passed' = Passed /\ Results' = Results
    BY <1>1, <2>2, OnePipe
  <2> QED BY <1>2, <1>3, <1>4, <1>6, <2>1, <2>2, <2>3, Responds
<1>5. CASE ~Core!CanWrite(Service, App)
  <2>1. UNCHANGED csPipe /\ csAlive' = csAlive \ {Service}
    BY <1>5 DEF Core!Respond
  <2>2. /\ csPipe' \in [Core!Wires -> Seq(Messages)] /\ Answers' = Answers
        /\ Sent' = Sent /\ Passed' = Passed /\ Results' = Results
    BY <1>1, <2>1, SamePipes
  <2> QED BY <1>2, <1>3, <1>5, <1>6, <2>1, <2>2, Responds
<1> QED BY <1>4, <1>5

LEMMA ServiceReadCore ==
  ASSUME Core!ConstantsOK, CoreInv, Core!ServiceRead
  PROVE  CoreInv'
<1>1. /\ UNCHANGED <<csThread, csMutex, csKnown, csElevated, csHeld, csExecuted>> /\ CoreTypes
      /\ Service \in csAlive /\ csService.pc = "read" /\ Sent # <<>>
  BY DEF Core!ServiceRead, Core!Arrived, Sent, CoreInv
<1>2. /\ \A x : (Executed(x)' <=> Executed(x)) /\ (Asked(x)' <=> Asked(x))
      /\ ExecutedInv' /\ ThreadInv'
  BY <1>1 DEF CoreInv, ExecutedInv, ThreadInv, Executed, Asked
<1>3. Results = <<>> /\ \A m : ~Waiting(m)
  BY <1>1 DEF CoreInv, ResultInv, Waiting
<1>4. Elevated \in csAlive =>
        csElevated.pc \in {"sync", "read"} /\ Passed \in {<<>>, <<Core!SyncCode>>}
  BY <1>1, <1>3 DEF CoreInv, ElevatedInv
<1>5. PICK empty \in Seq(Messages) : empty = <<>>
  BY ShortQueues
<1>6. CASE /\ Sent = <<Core!ExitRequest>> /\ App \notin csAlive
           /\ csService.available => Elevated \in csAlive
  <2>1. Core!Next1(App, Service) = Core!ExitRequest /\ Tail(Sent) = empty
    BY <1>5, <1>6, Queues DEF Core!Next1, Sent
  <2>2. /\ csPipe' = IF csService.available
                   THEN [Core!Consumed(App, Service) EXCEPT
                           ![<<Service, Elevated>>] = Append(@, Core!ExitRequest)]
                   ELSE Core!Consumed(App, Service)
        /\ csAlive' = csAlive \ {Service} /\ UNCHANGED csService
    BY <1>1, <1>6, <2>1, MessageTypes, Ends DEF Core!ServiceRead
  <2>3. /\ csPipe' \in [Core!Wires -> Seq(Messages)] /\ Answers' = Answers
        /\ Elevated \in csAlive => Passed' = Passed \/ Passed' = Append(Passed, Core!ExitRequest)
    <3>1. CASE csService.available
      <4>1. PICK s \in Seq(Messages) : s = Append(Passed, Core!ExitRequest)
        <5>1. Append(Passed, Core!ExitRequest)
                \in {<<Core!ExitRequest>>, <<Core!SyncCode, Core!ExitRequest>>}
          BY <1>4, <1>6, <3>1, Queues
        <5> QED BY <5>1, ShortQueues, MessageTypes
      <4>2. csPipe' = [csPipe EXCEPT ![<<App, Service>>] = empty, ![<<Service, Elevated>>] = s]
        <5>1. <<App, Service>> # <<Service, Elevated>>
          BY DEF Core!ConstantsOK
        <5>2. Core!Consumed(App, Service) = [csPipe EXCEPT ![<<App, Service>>] = empty]
          BY <2>1 DEF Core!Consumed, Sent
        <5>3. Core!Consumed(App, Service)[<<Service, Elevated>>] = Passed
          BY <5>1, <5>2, <1>1 DEF CoreTypes, Core!Wires, Passed
        <5> QED BY <2>2, <3>1, <4>1, <5>2, <5>3
      <4> QED BY <1>1, <4>1, <4>2, TwoPipes
    <3>2. CASE ~csService.available
      <4>1. csPipe' = [csPipe EXCEPT ![<<App, Service>>] = empty]
        BY <2>1, <2>2, <3>2 DEF Core!Consumed, Sent
      <4> QED BY <1>1, <4>1, OnePipe
    <3> QED BY <3>1, <3>2
  <2>4. CoreTypes'
    BY <1>1, <2>2, <2>3 DEF CoreTypes
  <2>5. AnswerInv'
    BY <1>6, <2>2 DEF AnswerInv
  <2>6. ServiceInv' /\ ResultInv'
    BY <2>2 DEF ServiceInv, ResultInv
  <2>7. ElevatedInv'
    <3>1. Elevated \in csAlive => Passed' \in {<<>>, <<Core!SyncCode>>, <<Core!ExitRequest>>,
                                             <<Core!SyncCode, Core!ExitRequest>>}
      BY <1>4, <2>3, Queues
    <3> QED BY <1>1, <1>4, <2>2, <3>1 DEF ElevatedInv
  <2> QED BY <1>2, <2>4, <2>5, <2>6, <2>7 DEF CoreInv
<1>8. CASE /\ Sent = <<Core!ExitRequest>> /\ App \notin csAlive
           /\ csService.available /\ Elevated \notin csAlive
  <2>1. Core!Next1(App, Service) = Core!ExitRequest /\ Tail(Sent) = empty
    BY <1>5, <1>8, Queues DEF Core!Next1, Sent
  <2>2. PICK a \in Messages : Core!Respond(a, Core!Consumed(App, Service))
    <3>1. Core!Respond(Core!Answer(Core!ExitRequest, "failed"), Core!Consumed(App, Service))
      BY <1>1, <1>8, <2>1, MessageTypes, Ends DEF Core!ServiceRead
    <3> QED BY <3>1, MessageTypes
  <2>3. Core!Consumed(App, Service) = [csPipe EXCEPT ![<<App, Service>>] = empty]
    BY <2>1 DEF Core!Consumed, Sent
  <2>4. Answers \in Seq(Messages)
    BY <1>1 DEF CoreTypes, Core!Wires, Answers
  <2>5. PICK s \in Seq(Messages) : s = Append(Answers, a)
    BY <2>4, QueueTypes
  <2>6. \/ csPipe' = [csPipe EXCEPT ![<<App, Service>>] = empty, ![<<Service, App>>] = s]
        \/ csPipe' = [csPipe EXCEPT ![<<App, Service>>] = empty]
    <3>1. Core!Consumed(App, Service)[<<Service, App>>] = Answers
      BY <1>1, <2>3 DEF Core!ConstantsOK, CoreTypes, Core!Wires, Answers
    <3> QED BY <2>2, <2>3, <2>5, <3>1 DEF Core!Respond
  <2>7. csPipe' \in [Core!Wires -> Seq(Messages)] /\ Sent' = empty /\ Results' = Results
    BY <1>1, <1>5, <2>5, <2>6, OnePipe, TwoPipes
  <2>8. /\ csAlive' \subseteq csAlive /\ csService' = [csService EXCEPT !.pc = "read"]
    BY <2>2 DEF Core!Respond, Core!ToPc
  <2>9. /\ csService' \in [pc : ServicePcs, request : Messages, available : BOOLEAN]
        /\ csService'.pc = "read"
    BY <1>1, <2>8 DEF CoreTypes, ServicePcs
  <2>10. CoreTypes'
    BY <1>1, <2>7, <2>8, <2>9 DEF CoreTypes
  <2>11. AnswerInv' /\ ServiceInv' /\ ResultInv' /\ ElevatedInv'
    BY <1>3, <1>5, <1>8, <2>7, <2>8, <2>9 DEF AnswerInv, ServiceInv, ResultInv, ElevatedInv
  <2> QED BY <1>2, <2>10, <2>11 DEF CoreInv
<1>7. CASE ~(Sent = <<Core!ExitRequest>> /\ App \notin csAlive)
  <2>1. PICK t \in Threads :
          /\ csThread[t].pc = "receive" /\ Answers = <<>> /\ Sent = <<csThread[t].request>>
          /\ ~Executed(csThread[t].request.of)
    BY <1>1, <1>7 DEF CoreInv, ServiceInv
  <2>2. /\ csThread[t].request.kind = "request" /\ csThread[t].request \in Messages
        /\ Core!Next1(App, Service) = csThread[t].request /\ Tail(Sent) = empty
    BY <1>1, <1>5, <2>1, Queues DEF CoreInv, ThreadInv, CoreTypes, ThreadStates, Core!Next1, Sent
  <2>3. /\ csPipe' = Core!Consumed(App, Service) /\ UNCHANGED csAlive
        /\ \E pc \in {"execute", "forward", "elevate"} :
             csService' = [csService EXCEPT !.request = csThread[t].request, !.pc = pc]
    BY <2>2 DEF Core!ServiceRead
  <2>4. PICK pc \in {"execute", "forward", "elevate"} :
          csService' = [csService EXCEPT !.request = csThread[t].request, !.pc = pc]
    BY <2>3
  <2>5. /\ csService' \in [pc : ServicePcs, request : Messages, available : BOOLEAN]
        /\ csService'.pc = pc /\ csService'.request = csThread[t].request
    BY <1>1, <2>2, <2>4 DEF CoreTypes, ServicePcs
  <2>6. /\ csPipe' \in [Core!Wires -> Seq(Messages)] /\ Sent' = <<>>
        /\ Answers' = Answers /\ Passed' = Passed /\ Results' = Results
    <3>1. csPipe' = [csPipe EXCEPT ![<<App, Service>>] = empty]
      BY <2>2, <2>3 DEF Core!Consumed, Sent
    <3> QED BY <1>1, <1>5, <3>1, OnePipe
  <2>7. CoreTypes'
    BY <1>1, <2>3, <2>5, <2>6 DEF CoreTypes
  <2>8. AnswerInv' /\ ServiceInv' /\ ResultInv'
    BY <1>1, <1>2, <1>3, <2>1, <2>3, <2>5, <2>6 DEF AnswerInv, ServiceInv, ResultInv
  <2>9. ElevatedInv'
    BY <1>1, <1>4, <2>3, <2>6 DEF ElevatedInv
  <2> QED BY <1>2, <2>7, <2>8, <2>9 DEF CoreInv
<1> QED BY <1>6, <1>7, <1>8

LEMMA StartElevatedCore ==
  ASSUME Core!ConstantsOK, CoreInv, Core!StartElevated
  PROVE  CoreInv'
<1>1. /\ UNCHANGED <<csThread, csMutex, csKnown, csHeld, csExecuted>> /\ CoreTypes
      /\ Service \in csAlive /\ csService.pc = "elevate" /\ Results = <<>>
  BY DEF Core!StartElevated, CoreInv, ResultInv
<1>2. PICK t \in Threads :
        /\ csThread[t].pc = "receive" /\ Answers = <<>> /\ Sent = <<>>
        /\ csService.request = csThread[t].request /\ ~Executed(csService.request.of)
        /\ csService.request \in Messages
  BY <1>1, Served
<1>3. \A x : (Executed(x)' <=> Executed(x)) /\ (Asked(x)' <=> Asked(x))
  BY <1>1 DEF Executed, Asked
<1>4. CASE /\ csService' = [csService EXCEPT !.pc = "forward", !.available = TRUE]
           /\ csElevated' = [pc |-> "sync", request |-> Core!NoRequest]
           /\ csAlive' = csAlive \cup {Elevated}
           /\ csPipe' = [csPipe EXCEPT ![<<Service, Elevated>>] = <<Core!SyncCode>>,
                                   ![<<Elevated, Service>>] = <<>>]
  <2>1. /\ csPipe' \in [Core!Wires -> Seq(Messages)] /\ Passed' = <<Core!SyncCode>>
        /\ Results' = <<>>
        /\ Sent' = Sent /\ Answers' = Answers
    <3>1. PICK r, s \in Seq(Messages) : r = <<Core!SyncCode>> /\ s = <<>>
      BY ShortQueues, MessageTypes
    <3>2. csPipe' = [csPipe EXCEPT ![<<Service, Elevated>>] = r, ![<<Elevated, Service>>] = s]
      BY <1>4, <3>1
    <3> QED BY <1>1, <3>1, <3>2, TwoPipes
  <2>2. /\ csService' \in [pc : ServicePcs, request : Messages, available : BOOLEAN]
        /\ csService'.pc = "forward" /\ csService'.request = csService.request
    BY <1>1, <1>4 DEF CoreTypes, ServicePcs
  <2>3. csElevated' \in [pc : {"none", "sync", "read", "execute"}, request : Messages]
        /\ csElevated'.pc = "sync"
    BY <1>4, MessageTypes
  <2>4. CoreTypes'
    BY <1>1, <1>4, <2>1, <2>2, <2>3 DEF CoreTypes
  <2>5. ExecutedInv' /\ ThreadInv'
    BY <1>1, <1>3 DEF CoreInv, ExecutedInv, ThreadInv
  <2>6. AnswerInv' /\ ServiceInv' /\ ResultInv' /\ ElevatedInv'
    BY <1>1, <1>2, <1>3, <2>1, <2>2, <2>3
    DEF AnswerInv, ServiceInv, ResultInv, ElevatedInv
  <2> QED BY <2>4, <2>5, <2>6 DEF CoreInv
<1>5. CASE /\ Core!Respond(Core!Answer(csService.request, "notElevated"), csPipe)
           /\ UNCHANGED csElevated
  <2>1. PICK a \in Messages :
          /\ a = Core!Answer(csService.request, "notElevated")
          /\ a.of = csService.request.of /\ a.kind = "notElevated"
    BY <1>2, MessageTypes
  <2>2. Core!Respond(a, csPipe)
    BY <1>5, <2>1
  <2> QED BY <1>1, <1>5, <2>1, <2>2, Refuses
<1> QED BY <1>4, <1>5 DEF Core!StartElevated

LEMMA ServiceForwardCore ==
  ASSUME Core!ConstantsOK, CoreInv, Core!ServiceForward
  PROVE  CoreInv'
<1>1. /\ UNCHANGED <<csThread, csMutex, csKnown, csElevated, csHeld, csExecuted>> /\ CoreTypes
      /\ Service \in csAlive /\ csService.pc = "forward" /\ Results = <<>>
  BY DEF Core!ServiceForward, CoreInv, ResultInv
<1>2. PICK t \in Threads :
        /\ csThread[t].pc = "receive" /\ Answers = <<>> /\ Sent = <<>>
        /\ csService.request = csThread[t].request /\ ~Executed(csService.request.of)
        /\ \A u \in Threads \ {t} : csThread[u].pc = "idle"
        /\ csService.request \in Messages /\ csService.request.kind = "request"
        /\ Asked(csService.request.of)
  BY <1>1, Served
<1>3. CASE Elevated \in csAlive
  <2>1. /\ csPipe' = Core!Written(Service, Elevated, csService.request) /\ UNCHANGED csAlive
        /\ csService' = [csService EXCEPT !.pc = "relay"]
    BY <1>1, <1>3, Ends DEF Core!ServiceForward, Core!ToPc
  <2>2. csElevated.pc \in {"sync", "read"} /\ Passed \in {<<>>, <<Core!SyncCode>>}
    BY <1>1, <1>3 DEF CoreInv, ElevatedInv, Waiting
  <2>3. PICK m \in Messages : m = csService.request
    BY <1>2
  <2>4. PICK s \in Seq(Messages) : s = Append(Passed, m) /\ s \in {<<m>>, <<Core!SyncCode, m>>}
    <3>1. Append(Passed, m) \in {<<m>>, <<Core!SyncCode, m>>}
      BY <2>2, Queues
    <3> QED BY <3>1, ShortQueues, MessageTypes
  <2>5. /\ csPipe' \in [Core!Wires -> Seq(Messages)] /\ Passed' = s
        /\ Sent' = Sent /\ Answers' = Answers /\ Results' = Results
    <3>1. csPipe' = [csPipe EXCEPT ![<<Service, Elevated>>] = s]
      BY <2>1, <2>3, <2>4 DEF Core!Written, Passed
    <3> QED BY <1>1, <3>1, OnePipe
  <2>6. /\ csService' \in [pc : ServicePcs, request : Messages, available : BOOLEAN]
        /\ csService'.pc = "relay" /\ csService'.request = csService.request
    BY <1>1, <2>1 DEF CoreTypes, ServicePcs
  <2>7. CoreTypes'
    BY <1>1, <2>1, <2>5, <2>6 DEF CoreTypes
  <2>8. /\ \A x : (Executed(x)' <=> Executed(x)) /\ (Asked(x)' <=> Asked(x))
        /\ ExecutedInv' /\ ThreadInv'
    BY <1>1 DEF CoreInv, ExecutedInv, ThreadInv, Executed, Asked
  <2>9. AnswerInv' /\ ServiceInv' /\ ResultInv'
    BY <1>1, <1>2, <2>1, <2>5, <2>6 DEF AnswerInv, ServiceInv, ResultInv
  <2>10. Waiting(m)'
    BY <1>1, <1>2, <2>3, <2>5, <2>6, <2>8 DEF Waiting
  <2>11. ElevatedInv'
    BY <1>1, <2>2, <2>4, <2>5, <2>10 DEF ElevatedInv
  <2> QED BY <2>7, <2>8, <2>9, <2>11 DEF CoreInv
<1>4. CASE Elevated \notin csAlive
  <2>1. PICK a \in Messages :
          /\ a = Core!Answer(csService.request, "failed")
          /\ a.of = csService.request.of /\ a.kind = "failed"
    BY <1>2, MessageTypes
  <2>2. Core!Respond(a, csPipe)
    BY <1>1, <1>4, <2>1, Ends DEF Core!ServiceForward
  <2> QED BY <1>1, <2>1, <2>2, Refuses
<1> QED BY <1>3, <1>4

LEMMA ServiceRelayCore ==
  ASSUME Core!ConstantsOK, CoreInv, Core!ServiceRelay
  PROVE  CoreInv'
<1>1. /\ UNCHANGED <<csThread, csMutex, csKnown, csElevated, csHeld, csExecuted>> /\ CoreTypes
      /\ Service \in csAlive /\ csService.pc = "relay"
  BY DEF Core!ServiceRelay, CoreInv
<1>2. Answers = <<>> /\ Sent = <<>> /\ csService.request \in Messages
  BY <1>1, Served
<1>3. CASE Results # <<>>
  <2>1. PICK a \in Messages :
          Results = <<a>> /\ a.of = csService.request.of /\ Truthful(a)
    BY <1>1, <1>3 DEF CoreInv, ResultInv
  <2>2. Core!Respond(a, Core!Consumed(Elevated, Service))
    <3>1. Core!Arrived(Elevated, Service) /\ Core!Next1(Elevated, Service) = a
      BY <1>3, <2>1, Queues DEF Core!Arrived, Core!Next1, Results
    <3> QED BY <3>1 DEF Core!ServiceRelay, Core!Ended
  <2>3. PICK empty, s \in Seq(Messages) : empty = <<>> /\ s = <<a>>
    BY ShortQueues
  <2>4. Core!Consumed(Elevated, Service) = [csPipe EXCEPT ![<<Elevated, Service>>] = empty]
    BY <2>1, <2>3, Queues DEF Core!Consumed, Results
  <2>5. /\ Truthful(a)' /\ csExecuted' \in Seq(Threads \X Nat) /\ ExecutedInv'
        /\ \A x : Executed(x)' <=> Executed(x)
    BY <1>1, <2>1 DEF Truthful, CoreInv, CoreTypes, ExecutedInv, Executed, Asked
  <2>6. csService' = [csService EXCEPT !.pc = "read"]
    BY <2>2 DEF Core!Respond, Core!ToPc
  <2>7. CASE Core!CanWrite(Service, App)
    <3>1. csPipe' = [csPipe EXCEPT ![<<Elevated, Service>>] = empty, ![<<Service, App>>] = s]
      <4>1. <<Service, App>> # <<Elevated, Service>>
        BY DEF Core!ConstantsOK
      <4>2. Core!Consumed(Elevated, Service)[<<Service, App>>] = Answers
        BY <1>1, <2>4, <4>1 DEF CoreTypes, Core!Wires, Answers
      <4>3. Append(Core!Consumed(Elevated, Service)[<<Service, App>>], a) = s
        BY <1>2, <2>3, <4>2, Queues
      <4>4. csPipe' = [Core!Consumed(Elevated, Service) EXCEPT ![<<Service, App>>] = s]
        BY <2>2, <2>7, <4>3 DEF Core!Respond
      <4> QED BY <2>4, <4>4
    <3>2. /\ csPipe' \in [Core!Wires -> Seq(Messages)] /\ Answers' = s /\ Results' = empty
          /\ Sent' = Sent /\ Passed' = Passed
      BY <1>1, <3>1, TwoPipes
    <3>3. UNCHANGED csAlive
      BY <2>2, <2>7 DEF Core!Respond
    <3> QED BY <1>1, <1>3, <2>1, <2>3, <2>5, <2>6, <2>7, <3>2, <3>3, Responds
  <2>8. CASE ~Core!CanWrite(Service, App)
    <3>1. /\ csPipe' = [csPipe EXCEPT ![<<Elevated, Service>>] = empty]
          /\ csAlive' = csAlive \ {Service}
      BY <2>2, <2>4, <2>8 DEF Core!Respond
    <3>2. /\ csPipe' \in [Core!Wires -> Seq(Messages)] /\ Results' = empty
          /\ Sent' = Sent /\ Answers' = Answers /\ Passed' = Passed
      BY <1>1, <3>1, OnePipe
    <3> QED BY <1>1, <1>3, <2>1, <2>3, <2>5, <2>6, <2>8, <3>1, <3>2, Responds
  <2> QED BY <2>7, <2>8
<1>4. CASE Results = <<>>
  <2>1. PICK a \in Messages :
          /\ a = Core!Answer(csService.request, "failed")
          /\ a.of = csService.request.of /\ a.kind = "failed"
    BY <1>2, MessageTypes
  <2>2. Core!Respond(a, csPipe) /\ Elevated \notin csAlive
    BY <1>1, <1>4, <2>1, Ends DEF Core!ServiceRelay, Core!Arrived, Results
  <2> QED BY <1>1, <1>4, <2>1, <2>2, Refuses
<1> QED BY <1>3, <1>4

LEMMA ServiceExecuteCore ==
  ASSUME Core!ConstantsOK, CoreInv, Core!ServiceExecute
  PROVE  CoreInv'
<1>1. /\ UNCHANGED <<csThread, csMutex, csKnown, csElevated, csHeld>> /\ CoreTypes
      /\ Service \in csAlive /\ csService.pc = "execute" /\ Results = <<>>
      /\ csExecuted' = Append(csExecuted, csService.request.of)
  BY DEF Core!ServiceExecute, CoreInv, ResultInv
<1>2. /\ Answers = <<>> /\ csService.request \in Messages /\ ~Executed(csService.request.of)
      /\ Asked(csService.request.of) /\ csService.request.of \in Threads \X Nat
  BY <1>1, Served
<1>3. PICK k \in Core!Outcomes : Core!Respond(Core!Answer(csService.request, k), csPipe)
  BY DEF Core!ServiceExecute, Core!Outcomes
<1>4. PICK a \in Messages :
        /\ a = Core!Answer(csService.request, k) /\ a.of = csService.request.of /\ a.kind = k
  BY <1>2, MessageTypes DEF Core!Outcomes
<1>5. Core!Respond(a, csPipe)
  BY <1>3, <1>4
<1>6. PICK x \in Threads \X Nat : x = csService.request.of
  BY <1>2
<1>7. /\ csExecuted' \in Seq(Threads \X Nat) /\ ExecutedInv'
      /\ \A y : Executed(y)' <=> Executed(y) \/ y = x
  BY <1>1, <1>2, <1>6, Appends DEF CoreInv
<1>8. Truthful(a)'
  BY <1>4, <1>6, <1>7 DEF Truthful, Core!Outcomes
<1>9. csService' = [csService EXCEPT !.pc = "read"]
  BY <1>5 DEF Core!Respond, Core!ToPc
<1>10. CASE Core!CanWrite(Service, App)
  <2>1. PICK s \in Seq(Messages) : s = <<a>>
    BY ShortQueues
  <2>2. csPipe' = [csPipe EXCEPT ![<<Service, App>>] = s] /\ UNCHANGED csAlive
    BY <1>2, <1>5, <1>10, <2>1, Queues DEF Core!Respond, Answers
  <2>3. /\ csPipe' \in [Core!Wires -> Seq(Messages)] /\ Answers' = s
        /\ Sent' = Sent /\ Passed' = Passed /\ Results' = Results
    BY <1>1, <2>2, OnePipe
  <2> QED BY <1>1, <1>4, <1>7, <1>8, <1>9, <1>10, <2>1, <2>2, <2>3, Responds
<1>11. CASE ~Core!CanWrite(Service, App)
  <2>1. UNCHANGED csPipe /\ csAlive' = csAlive \ {Service}
    BY <1>5, <1>11 DEF Core!Respond
  <2>2. /\ csPipe' \in [Core!Wires -> Seq(Messages)] /\ Answers' = Answers
        /\ Sent' = Sent /\ Passed' = Passed /\ Results' = Results
    BY <1>1, <2>1, SamePipes
  <2> QED BY <1>1, <1>4, <1>7, <1>8, <1>9, <1>11, <2>1, <2>2, Responds
<1> QED BY <1>10, <1>11

LEMMA ElevatedReadCore ==
  ASSUME Core!ConstantsOK, CoreInv, Core!ElevatedRead
  PROVE  CoreInv'
<1>1. /\ UNCHANGED <<csThread, csMutex, csKnown, csService, csHeld, csExecuted>> /\ CoreTypes
      /\ Elevated \in csAlive /\ csElevated.pc \in {"sync", "read"} /\ Passed # <<>>
  BY DEF Core!ElevatedRead, Core!Arrived, Passed, CoreInv
<1> DEFINE n == Core!Next1(Service, Elevated)
<1>2. /\ csPipe' = Core!Consumed(Service, Elevated)
      /\ IF n.kind = "exit" THEN csAlive' = csAlive \ {Elevated} /\ UNCHANGED csElevated
         ELSE /\ csElevated' = IF n.kind = "sync" THEN [csElevated EXCEPT !.pc = "read"]
                             ELSE [pc |-> "execute", request |-> n]
              /\ UNCHANGED csAlive
  BY DEF Core!ElevatedRead
<1>3. /\ \A x : (Executed(x)' <=> Executed(x)) /\ (Asked(x)' <=> Asked(x))
      /\ ExecutedInv' /\ ThreadInv'
  BY <1>1 DEF CoreInv, ExecutedInv, ThreadInv, Executed, Asked
<1>4. /\ csPipe' \in [Core!Wires -> Seq(Messages)] /\ Passed' = Tail(Passed) /\ n = Head(Passed)
      /\ n \in Messages /\ Sent' = Sent /\ Answers' = Answers /\ Results' = Results
  <2>1. Passed \in Seq(Messages)
    BY <1>1 DEF CoreTypes, Core!Wires, Passed
  <2>2. n = Head(Passed)
    BY DEF Core!Next1, Passed
  <2>3. Head(Passed) \in Messages /\ Tail(Passed) \in Seq(Messages)
    BY <1>1, <2>1, Rest
  <2>4. PICK s \in Seq(Messages) : s = Tail(Passed)
    BY <2>3
  <2>5. csPipe' = [csPipe EXCEPT ![<<Service, Elevated>>] = s]
    BY <1>2, <2>4 DEF Core!Consumed, Passed
  <2>6. /\ csPipe' \in [Core!Wires -> Seq(Messages)] /\ Passed' = s
        /\ Sent' = Sent /\ Answers' = Answers /\ Results' = Results
    BY <1>1, <2>5, OnePipe
  <2> HIDE DEF n
  <2> QED BY <2>2, <2>3, <2>4, <2>6
<1> HIDE DEF n
<1>5. /\ csElevated' \in [pc : {"none", "sync", "read", "execute"}, request : Messages]
      /\ n.kind = "sync" => csElevated'.pc = "read"
      /\ n.kind \notin {"exit", "sync"} => csElevated'.pc = "execute" /\ csElevated'.request = n
      /\ csAlive' = IF n.kind = "exit" THEN csAlive \ {Elevated} ELSE csAlive
  <2>1. csElevated \in [pc : {"none", "sync", "read", "execute"}, request : Messages]
    BY <1>1 DEF CoreTypes
  <2>2. CASE n.kind = "exit"
    BY <1>2, <2>1, <2>2
  <2>3. CASE n.kind = "sync"
    BY <1>2, <2>1, <2>3
  <2>4. CASE n.kind \notin {"exit", "sync"}
    <3>1. csElevated' = [pc |-> "execute", request |-> n] /\ UNCHANGED csAlive
      BY <1>2, <2>4
    <3> QED BY <1>4, <2>4, <3>1
  <2> QED BY <2>2, <2>3, <2>4
<1>6. CoreTypes'
  BY <1>1, <1>4, <1>5 DEF CoreTypes
<1>7. (Service \in csAlive' <=> Service \in csAlive) /\ (App \in csAlive' <=> App \in csAlive)
  BY <1>5 DEF Core!ConstantsOK
<1>8. AnswerInv' /\ ServiceInv' /\ ResultInv'
  BY <1>1, <1>3, <1>4, <1>7 DEF CoreInv, AnswerInv, ServiceInv, ResultInv, Truthful
<1>9. \A m : Waiting(m) => Waiting(m)'
  BY <1>1, <1>3, <1>4, <1>7 DEF Waiting
<1>10. ElevatedInv'
  <2>1. CASE Passed = <<Core!SyncCode>>
    <3>1. n = Core!SyncCode /\ Passed' = <<>>
      BY <1>4, <2>1, Queues
    <3> QED BY <1>5, <3>1, MessageTypes DEF ElevatedInv
  <2>2. CASE Passed = <<Core!ExitRequest>>
    <3>1. n = Core!ExitRequest
      BY <1>4, <2>2, Queues
    <3> QED BY <1>5, <3>1, MessageTypes DEF ElevatedInv
  <2>3. CASE Passed = <<Core!SyncCode, Core!ExitRequest>> /\ Service \notin csAlive
    <3>1. n = Core!SyncCode /\ Passed' = <<Core!ExitRequest>>
      BY <1>4, <2>3, Queues
    <3> QED BY <1>5, <1>7, <2>3, <3>1, MessageTypes DEF ElevatedInv
  <2>4. ASSUME NEW m \in Messages, Waiting(m), Passed = <<m>> PROVE ElevatedInv'
    <3>1. n = m /\ Passed' = <<>> /\ m.kind = "request"
      BY <1>4, <2>4, Queues DEF Waiting
    <3>2. csElevated'.pc = "execute" /\ csElevated'.request = m
      BY <1>5, <3>1
    <3>3. \A y : y = csElevated'.request => Waiting(y)'
      BY <1>9, <2>4, <3>2
    <3> QED BY <3>1, <3>2, <3>3 DEF ElevatedInv
  <2>5. ASSUME NEW m \in Messages, Waiting(m), Passed = <<Core!SyncCode, m>> PROVE ElevatedInv'
    <3>1. n = Core!SyncCode /\ Passed' = <<m>> /\ Waiting(m)'
      BY <1>4, <1>9, <2>5, Queues
    <3> QED BY <1>5, <3>1, MessageTypes DEF ElevatedInv
  <2> QED BY <1>1, <2>1, <2>2, <2>3, <2>4, <2>5 DEF CoreInv, ElevatedInv
<1> QED BY <1>3, <1>6, <1>8, <1>10 DEF CoreInv

LEMMA ElevatedExecuteCore ==
  ASSUME Core!ConstantsOK, CoreInv, Core!ElevatedExecute
  PROVE  CoreInv'
<1>1. /\ UNCHANGED <<csThread, csMutex, csKnown, csService, csHeld>> /\ CoreTypes
      /\ Elevated \in csAlive /\ csElevated.pc = "execute"
      /\ csExecuted' = Append(csExecuted, csElevated.request.of)
      /\ csElevated' = [csElevated EXCEPT !.pc = "read"]
  BY DEF Core!ElevatedExecute, CoreInv
<1>2. Passed = <<>> /\ Waiting(csElevated.request)
  BY <1>1 DEF CoreInv, ElevatedInv
<1>3. PICK x \in Threads \X Nat : x = csElevated.request.of /\ Asked(x) /\ ~Executed(x)
  <2>1. PICK t \in Threads : \E n \in 1 .. csThread[t].count : csElevated.request.of = <<t, n>>
    BY <1>2 DEF Waiting, Asked
  <2>2. csThread[t].count \in Nat
    BY <1>1 DEF CoreTypes, ThreadStates
  <2> QED BY <1>2, <2>1, <2>2 DEF Waiting
<1>4. /\ csExecuted' \in Seq(Threads \X Nat) /\ ExecutedInv'
      /\ \A y : Executed(y)' <=> Executed(y) \/ y = x
  BY <1>1, <1>3, Appends DEF CoreInv
<1>5. /\ csElevated' \in [pc : {"none", "sync", "read", "execute"}, request : Messages]
      /\ csElevated'.pc = "read"
  BY <1>1 DEF CoreTypes
<1>6. ThreadInv'
  <2>1. \A t \in Threads : csThread[t].pc \in {"password", "send"} => csThread[t].request.of # x
    BY <1>2, <1>3 DEF Waiting
  <2> QED BY <1>1, <1>4, <2>1 DEF CoreInv, ThreadInv
<1>7. App \in csAlive => Answers = <<>>
  BY <1>2 DEF Waiting
<1>8. PICK k \in {"done", "failed"} :
        IF Core!CanWrite(Elevated, Service)
        THEN csPipe' = Core!Written(Elevated, Service, Core!Answer(csElevated.request, k)) /\ UNCHANGED csAlive
        ELSE csAlive' = csAlive \ {Elevated} /\ UNCHANGED csPipe
  BY DEF Core!ElevatedExecute
<1>9. CASE Service \in csAlive
  <2>1. PICK a \in Messages :
          /\ a = Core!Answer(csElevated.request, k) /\ a.of = csElevated.request.of /\ a.kind = k
    BY <1>2, MessageTypes DEF Waiting
  <2>2. csService.pc = "relay" /\ a.of = csService.request.of /\ Results = <<>>
    BY <1>2, <1>9, <2>1 DEF Waiting
  <2>3. PICK s \in Seq(Messages) : s = <<a>>
    BY ShortQueues
  <2>4. csPipe' = [csPipe EXCEPT ![<<Elevated, Service>>] = s] /\ UNCHANGED csAlive
    BY <1>1, <1>8, <1>9, <2>1, <2>2, <2>3, Queues, Ends DEF Core!Written, Results
  <2>5. /\ csPipe' \in [Core!Wires -> Seq(Messages)] /\ Results' = s
        /\ Sent' = Sent /\ Answers' = Answers /\ Passed' = Passed
    BY <1>1, <2>4, OnePipe
  <2>6. CoreTypes'
    BY <1>1, <1>4, <1>5, <2>4, <2>5 DEF CoreTypes
  <2>7. AnswerInv' /\ ElevatedInv'
    BY <1>2, <1>5, <1>7, <2>4, <2>5 DEF AnswerInv, ElevatedInv
  <2>8. ServiceInv'
    BY <1>1, <1>9, <2>2, <2>4, <2>5 DEF CoreInv, ServiceInv
  <2>9. ResultInv'
    <3>1. Truthful(a)'
      BY <1>3, <1>4, <2>1 DEF Truthful
    <3> QED BY <1>1, <2>1, <2>2, <2>3, <2>5, <3>1 DEF ResultInv
  <2> QED BY <1>4, <1>6, <2>6, <2>7, <2>8, <2>9 DEF CoreInv
<1>10. CASE Service \notin csAlive
  <2>1. PICK a \in Messages : a = Core!Answer(csElevated.request, k)
    BY <1>2, MessageTypes DEF Waiting
  <2>2. Results \in Seq(Messages)
    BY <1>1 DEF CoreTypes, Core!Wires, Results
  <2>3. PICK s \in Seq(Messages) : s = Append(Results, a)
    BY <2>1, <2>2, QueueTypes
  <2>4. /\ UNCHANGED csPipe \/ csPipe' = [csPipe EXCEPT ![<<Elevated, Service>>] = s]
        /\ csAlive' \subseteq csAlive
    BY <1>8, <2>1, <2>3 DEF Core!Written, Results
  <2>5. /\ csPipe' \in [Core!Wires -> Seq(Messages)] /\ Answers' = Answers /\ Passed' = <<>>
    BY <1>1, <1>2, <2>4, OnePipe, SamePipes
  <2>6. CoreTypes'
    BY <1>1, <1>4, <1>5, <2>4, <2>5 DEF CoreTypes
  <2>7. AnswerInv' /\ ServiceInv' /\ ResultInv' /\ ElevatedInv'
    BY <1>5, <1>7, <1>10, <2>4, <2>5 DEF AnswerInv, ServiceInv, ResultInv, ElevatedInv
  <2> QED BY <1>4, <1>6, <2>6, <2>7 DEF CoreInv
<1> QED BY <1>9, <1>10

LEMMA CoreInvariance == ASSUME Core!ConstantsOK PROVE Core!Spec => []CoreInv
<1>1. Core!Init => CoreInv
  BY InitCore
<1>2. CoreInv /\ [Core!Next]_(Core!vars) => CoreInv'
  <2> SUFFICES ASSUME CoreInv, [Core!Next]_(Core!vars) PROVE CoreInv'
    OBVIOUS
  <2> DEFINE OwnEnds == Core!Wires \ {<<Elevated, Service>>}
  <2>1. CASE UNCHANGED Core!vars
    BY <2>1, EndsCore DEF Core!vars, CoreInv, CoreTypes
  <2>2. ASSUME NEW t \in Threads, Core!SendRequest(t) \/ Core!MoveThread(t) PROVE CoreInv'
    BY <2>2, SendRequestCore, AskPasswordCore, SendCore, ReceiveCore DEF Core!MoveThread
  <2>3. CASE Core!Stop
    BY <2>3, StopCore
  <2>4. CASE Core!ServiceEnds \/ Core!ElevatedEnds \/ \E p \in {App, Service, Elevated} :
             Core!Kill(p)
    <3>1. /\ csAlive' \subseteq csAlive /\ UNCHANGED csHeld
          /\ UNCHANGED <<csThread, csMutex, csKnown, csService, csElevated, csPipe, csExecuted>>
      BY <2>4 DEF Core!ServiceEnds, Core!ElevatedEnds, Core!Kill
    <3> QED BY <3>1, EndsCore DEF CoreInv, CoreTypes
  <2>7. CASE Core!ChildrenEnd \/ \E p \in {App, Service, Elevated} : Core!Fork(p)
    <3>1. UNCHANGED <<csThread, csMutex, csKnown, csService, csElevated, csPipe, csAlive,
                      csExecuted>>
      BY <2>7 DEF Core!ChildrenEnd, Core!Fork
    <3>2. {<<App, Service>>, <<Service, App>>, <<Service, Elevated>>} \subseteq OwnEnds
      BY DEF Core!Wires, Core!ConstantsOK
    <3>3. csHeld \subseteq OwnEnds
      BY DEF CoreInv, CoreTypes
    <3>4. csHeld' \subseteq csHeld \cup {<<App, Service>>, <<Service, App>>, <<Service, Elevated>>}
      <4>1. CASE Core!ChildrenEnd
        BY <4>1 DEF Core!ChildrenEnd
      <4>2. ASSUME NEW p \in {App, Service, Elevated}, Core!Fork(p)
            PROVE  csHeld' \subseteq csHeld \cup {<<App, Service>>, <<Service, App>>,
                                                  <<Service, Elevated>>}
        BY <4>2 DEF Core!Fork
      <4> QED BY <2>7, <4>1, <4>2
    <3>5. csHeld' \subseteq OwnEnds
      BY <3>2, <3>3, <3>4
    <3> QED BY <3>1, <3>5, EndsCore
  <2>5. CASE Core!MoveService
    BY <2>4, <2>5, ServiceReadCore, StartElevatedCore, ServiceForwardCore, ServiceRelayCore,
       ServiceExecuteCore DEF Core!MoveService
  <2>6. CASE Core!MoveElevated
    BY <2>4, <2>6, ElevatedReadCore, ElevatedExecuteCore DEF Core!MoveElevated
  <2> QED BY <2>1, <2>2, <2>3, <2>4, <2>5, <2>6, <2>7 DEF Core!Next
<1> QED BY <1>1, <1>2, PTL DEF Core!Spec

LEMMA CoreInvImplies ==
  ASSUME CoreInv
  PROVE  Core!TypeOK /\ Core!OwnAnswer /\ Core!ExecutedOnce
<1>1. CoreTypes /\ ExecutedInv /\ ThreadInv
  BY DEF CoreInv
<1>2. Core!TypeOK
  BY <1>1 DEF CoreTypes, ThreadStates, ServicePcs, Core!TypeOK
<1>3. Core!OwnAnswer
  BY <1>1 DEF ThreadInv, Core!OwnAnswer
<1>4. Core!ExecutedOnce
  BY <1>1 DEF ExecutedInv, ThreadInv, Executed, Core!ExecutedOnce
<1> QED BY <1>2, <1>3, <1>4

-----------------------------------------------------------------------------
(* The parts.                                                              *)

LEMMA CoreRuns == PartsSpec => Core!Spec
<1>1. [PartsNext]_AllVars => [Core!Next]_(Core!vars)
  BY DEF PartsNext, KeysStep, MountStep, CoreStep, AllVars, csVars, Core!vars
<1> QED BY <1>1, PTL DEF PartsSpec, PartsInit, Core!Spec

LEMMA KeysRun == PartsSpec => Spec
<1>1. [PartsNext]_AllVars => [Next]_vars
  BY DEF PartsNext, KeysStep, MountStep, CoreStep, AllVars
<1> QED BY <1>1, PTL DEF PartsSpec, PartsInit, Spec

LEMMA MountingRuns == PartsSpec /\ part = "mount" => Mounting!Spec /\ [](part = "mount")
<1>1. part = "mount" /\ [PartsNext]_AllVars =>
        (part = "mount")' /\ [Mounting!Next]_(Mounting!vars)
  BY DEF PartsNext, KeysStep, MountStep, CoreStep, AllVars, umVars, Mounting!vars
<1> QED BY <1>1, PTL DEF PartsSpec, PartsInit, Mounting!Spec

\* SendRequest (CoreService.cpp) returns to each thread the answer to the request it sent, for
\* any number of threads and however many of the processes die under it.
THEOREM AnswersAreOwn == PartsSpec => []OwnAnswer
<1>1. CoreInv => OwnAnswer
  BY CoreInvImplies DEF OwnAnswer
<1> QED BY <1>1, PartsAssumption, CoreInvariance, CoreRuns, PTL

\* A request that SendRequest sends again, after a password or an exception, was not executed
\* before: no operation is executed twice, and none is reported that was not executed.
THEOREM NoSecondExecution == PartsSpec => []ExecutedOnce
<1>1. CoreInv => ExecutedOnce
  BY CoreInvImplies DEF ExecutedOnce
<1> QED BY <1>1, PartsAssumption, CoreInvariance, CoreRuns, PTL

(* Mounting in the parts that do not mount: nothing happens.               *)
LEMMA NothingMounted ==
  ASSUME part # "mount", [PartsNext]_AllVars
  PROVE  part' # "mount" /\ UNCHANGED umVars
  BY DEF PartsNext, KeysStep, MountStep, CoreStep, AllVars

\* Whatever single command of a mount fails, the rollbacks of the three functions that mount
\* a volume (CoreLinux.cpp, CoreUnix.cpp) undo all that was done, for any cascade of ciphers;
\* only when the making of a mapper device failed may mapper devices, and their loop device, stay.
THEOREM FailedMounts == PartsSpec => []FailedMountUndone
<1>1. Mounting!Spec => []Mounting!FailedMountUndone
  BY PartsAssumption, Mounting!MountUndone
<1>2. PartsInit => Mounting!FailedMountUndone
  BY DEF PartsInit, Mounting!Init, Mounting!FailedMountUndone, Mounting!NoFs, Mounting!NoLoop,
     Mounting!NoInfo
<1>3. part # "mount" /\ Mounting!FailedMountUndone /\ [PartsNext]_AllVars =>
        (part # "mount" /\ Mounting!FailedMountUndone)'
  BY NothingMounted DEF umVars, Mounting!FailedMountUndone, Mounting!NoFs, Mounting!NoLoop,
     Mounting!NoInfo, Mounting!Listed
<1>4. part = "mount" \/ part # "mount"
  OBVIOUS
<1>5. PartsSpec => PartsInit /\ [][PartsNext]_AllVars
  BY PTL DEF PartsSpec
<1> QED BY <1>1, <1>2, <1>3, <1>4, <1>5, MountingRuns, PTL DEF FailedMountUndone

\* Every part keeps its types: the count of derivations never falls below zero, and a mapper
\* device that is left to its last user exists.
THEOREM TypesCorrect == PartsSpec => []TypesOK
<1>1. CoreInv => Core!TypeOK
  BY CoreInvImplies
<1>2. Mounting!Spec => []Mounting!TypeOK
  BY PartsAssumption, Mounting!TypeCorrect
<1>3. PartsInit => Mounting!TypeOK
  <2>1. 0 \in 0 .. MaxFaults
    BY PartsAssumption DEF Mounting!ConstantsOK
  <2>2. ASSUME Mounting!Init PROVE Mounting!TypeOK
    <3>1. /\ umInfo = [virtual |-> "none", loop |-> "none"]
          /\ umFs = [on |-> "none", lazy |-> FALSE]
          /\ umLoop = [of |-> "none", auto |-> FALSE]
      BY <2>2 DEF Mounting!Init, Mounting!NoInfo, Mounting!NoFs, Mounting!NoLoop
    <3>2. /\ umFuse = "none" /\ umLayers = {} /\ umDeferred = {} /\ umDirs = {} /\ umUsed = FALSE
          /\ umFaults \in 0 .. MaxFaults
      BY <2>1, <2>2 DEF Mounting!Init
    <3> QED BY <3>1, <3>2 DEF Mounting!TypeOK
  <2> QED BY <2>2 DEF PartsInit
<1>4. part # "mount" /\ Mounting!TypeOK /\ [PartsNext]_AllVars =>
        (part # "mount" /\ Mounting!TypeOK)'
  BY NothingMounted DEF umVars, Mounting!TypeOK
<1>5. part = "mount" \/ part # "mount"
  OBVIOUS
<1>6. PartsSpec => PartsInit /\ [][PartsNext]_AllVars
  BY PTL DEF PartsSpec
<1>7. PartsSpec => []Mounting!TypeOK
  BY <1>2, <1>3, <1>4, <1>5, <1>6, MountingRuns, PTL
<1> QED
  BY <1>1, <1>7, PartsAssumption, CoreInvariance, CoreRuns, KeysRun, TypeCorrectness, PTL
  DEF TypesOK

=============================================================================
