----------------------- MODULE EncryptionThreadPoolProofs -----------------------
(***************************************************************************)
(* Theorems about EncryptionThreadPool, for any number of callers, of      *)
(* workers and of work items, and requests of any size.                    *)
(***************************************************************************)
EXTENDS EncryptionThreadPool, FiniteSetTheorems, TLAPS

(* The number of threads is a number: the set of workers is finite.        *)
LEMMA ThreadCountIsNat == ThreadCount \in Nat /\ ThreadCount >= 2
  BY FS_CardinalityType, WorkersAssumption DEF ThreadCount

(* The ring has at least two work items, and positions wrap around in it.  *)
LEMMA NextSlotIsSlot == ASSUME NEW s \in Slots PROVE NextSlot(s) \in Slots
  BY QueueSizeAssumption DEF Slots, NextSlot

LEMMA ZeroIsSlot == 0 \in Slots
  BY ThreadCountIsNat, QueueSizeAssumption DEF Slots

(* The division of a request yields integers.                              *)
LEMMA DivisionIsInteger ==
  ASSUME NEW n \in 1 .. MaxUnits
  PROVE  /\ FragmentCount(n) \in Int /\ Remainder(n) \in Int
         /\ UnitsPerFragment(n) \in Int
<1>1. n \in Int /\ ThreadCount \in Int /\ ThreadCount > 0
  BY ThreadCountIsNat, MaxUnitsAssumption
<1>2. n % ThreadCount \in Int /\ n \div ThreadCount \in Int
  BY <1>1
<1>3. FragmentCount(n) \in Int /\ Remainder(n) \in Int
  BY <1>1, <1>2 DEF FragmentCount, Remainder
<1> QED
  BY <1>1, <1>2, <1>3 DEF UnitsPerFragment

-----------------------------------------------------------------------------
(* Type correctness.                                                       *)

(* The records of a task and of a request keep their fields.               *)
LEMMA NoTaskIsTask == NoTask \in Task
  BY DEF NoTask, Task

LEMMA NoJobIsJob == NoJob \in Job
  BY ZeroIsSlot DEF NoJob, Job

LEMMA NewJobIsJob ==
  ASSUME NEW n \in 1 .. MaxUnits
  PROVE  [NoJob EXCEPT !.units = n] \in Job /\ NewJob(n) \in Job
  BY DivisionIsInteger, MaxUnitsAssumption, ZeroIsSlot DEF NoJob, NewJob, Job

LEMMA AdvancedJobIsJob ==
  ASSUME NEW j \in Job, NEW s \in Slots
  PROVE  /\ [j EXCEPT !.first = s] \in Job
         /\ InSlot(j, s) \in Job
<1>1. j.left - 1 \in Int
  BY DEF Job
<1> QED
  BY <1>1 DEF Job, InSlot

LEMMA NextFragmentIsJob ==
  ASSUME NEW j \in Job
  PROVE  NextFragment(j) \in Job
<1>1. /\ j.unit + j.size \in Int
      /\ (IF j.remainder > 0 THEN j.remainder - 1 ELSE 0) \in Int
      /\ (IF j.remainder = 1 THEN j.size - 1 ELSE j.size) \in Int
  BY DEF Job
<1> QED
  BY <1>1 DEF Job, NextFragment

LEMMA InitTypeOK == Init => TypeOK
<1> SUFFICES ASSUME Init PROVE TypeOK
  OBVIOUS
<1>1. /\ state \in [Slots -> {"Free", "Ready", "Busy"}]
      /\ firstFragment \in [Slots -> Slots]
      /\ outstanding \in [Slots -> Int]
      /\ itemCompleted \in [Slots -> BOOLEAN]
  BY ZeroIsSlot DEF Init, Each
<1>2. task \in [Slots -> Task] /\ job \in [Callers -> Job]
  BY NoTaskIsTask, NoJobIsJob DEF Init, Each
<1>3. /\ callerPc \in [Callers -> CallerPcs]
      /\ workerPc \in [Workers -> WorkerPcs]
      /\ item \in [Workers -> Slots]
      /\ served \in [Workers -> Callers \cup {NoThread}]
      /\ touched \in [Callers -> [Units -> Int]]
  BY ZeroIsSlot DEF Init, CallerPcs, WorkerPcs
<1> QED
  BY <1>1, <1>2, <1>3, ZeroIsSlot DEF Init, TypeOK

LEMMA RequestTypeOK ==
  ASSUME TypeOK, NEW c \in Callers, Request(c)
  PROVE  TypeOK'
<1> PICK n \in 1 .. MaxUnits : DoWorkInline(c, n) \/ DoWork(c, n)
  BY DEF Request
<1> USE DEF TypeOK, MoveCaller, itemVars, ringVars, poolVars, workVars
<1>1. n \in Int
  BY MaxUnitsAssumption
<1>2. CASE DoWorkInline(c, n)
  <2>1. touched' \in [Callers -> [Units -> Int]]
    BY <1>2 DEF DoWorkInline
  <2> QED
    BY <1>2, <2>1, NewJobIsJob DEF DoWorkInline, CallerPcs
<1>3. CASE DoWork(c, n)
  <2>1. job' \in [Callers -> Job]
    BY <1>3, NewJobIsJob DEF DoWork
  <2> QED
    BY <1>3, <2>1 DEF DoWork, CallerPcs
<1> QED
  BY <1>2, <1>3

LEMMA EnqueueTypeOK ==
  ASSUME TypeOK, NEW c \in Callers, Enqueue(c)
  PROVE  TypeOK'
<1> USE DEF TypeOK, MoveCaller, CallerPcs, itemVars, ringVars, poolVars, workVars
<1>1. CASE LockEnqueue(c)
  BY <1>1, AdvancedJobIsJob DEF LockEnqueue
<1>2. CASE TestItem(c, job[c].first, "claimFirst", "waitFirst")
  BY <1>2 DEF TestItem
<1>3. CASE WaitForItem(c, "waitFirst", "claimFirst")
  BY <1>3 DEF WaitForItem
<1>4. CASE ClaimFirst(c)
  BY <1>4 DEF ClaimFirst, Job
<1>5. CASE Advance(c)
  <2>1. job' \in [Callers -> Job]
    BY <1>5, AdvancedJobIsJob DEF Advance
  <2> QED
    BY <1>5, <2>1, NextSlotIsSlot DEF Advance
<1>6. CASE TestItem(c, job[c].slot, "fill", "waitSlot")
  BY <1>6 DEF TestItem
<1>7. CASE WaitForItem(c, "waitSlot", "fill")
  BY <1>7 DEF WaitForItem
<1>8. CASE Fill(c)
  <2>1. job' \in [Callers -> Job]
    BY <1>8, NextFragmentIsJob DEF Fill
  <2>2. task' \in [Slots -> Task]
    BY <1>8 DEF Fill, Task, Job
  <2>3. job[c].first \in Slots
    BY DEF Job
  <2> QED
    BY <1>8, <2>1, <2>2, <2>3 DEF Fill
<1>9. CASE NotifyReady(c)
  BY <1>9 DEF NotifyReady
<1>10. CASE UnlockEnqueue(c)
  BY <1>10 DEF UnlockEnqueue
<1> QED
  BY <1>1, <1>2, <1>3, <1>4, <1>5, <1>6, <1>7, <1>8, <1>9, <1>10 DEF Enqueue

LEMMA CompleteTypeOK ==
  ASSUME TypeOK, NEW c \in Callers, Complete(c)
  PROVE  TypeOK'
<1> USE DEF TypeOK, MoveCaller, CallerPcs, itemVars, ringVars, poolVars, workVars
<1>1. CASE WaitItemCompleted(c)
  BY <1>1 DEF WaitItemCompleted
<1>2. CASE FreeFirst(c)
  BY <1>2 DEF FreeFirst
<1>3. CASE NotifyFreed(c)
  BY <1>3 DEF NotifyFreed
<1>4. CASE Return(c)
  BY <1>4, NoJobIsJob DEF Return
<1> QED
  BY <1>1, <1>2, <1>3, <1>4 DEF Complete

LEMMA WorkTypeOK ==
  ASSUME TypeOK, NEW w \in Workers, Work(w)
  PROVE  TypeOK'
<1> USE DEF TypeOK, MoveWorker, WorkerPcs, itemVars, ringVars, poolVars, callVars
<1>1. CASE Loop(w)
  BY <1>1 DEF Loop
<1>2. CASE LockDequeue(w)
  BY <1>2, NextSlotIsSlot DEF LockDequeue
<1>3. CASE TestReady(w)
  BY <1>3 DEF TestReady
<1>4. CASE WaitReady(w)
  BY <1>4 DEF WaitReady
<1>5. CASE Take(w)
  BY <1>5 DEF Take, Task
<1>6. CASE ExitWorker(w)
  BY <1>6 DEF ExitWorker
<1>7. CASE Run(w)
  <2> DEFINE t == task[item[w]]
             More == [u \in Units |-> IF u \in TaskUnits(t) THEN touched[t.owner][u] + 1
                                      ELSE touched[t.owner][u]]
  <2>1. touched' = [touched EXCEPT ![t.owner] = More]
    BY <1>7 DEF Run
  <2>2. t.owner \in Callers => More \in [Units -> Int]
    OBVIOUS
  <2>3. touched' \in [Callers -> [Units -> Int]]
    BY <2>1, <2>2
  <2> QED
    BY <1>7, <2>3 DEF Run
<1>8. CASE FreeFragment(w)
  BY <1>8 DEF FreeFragment
<1>9. CASE KeepFirstFragment(w)
  BY <1>9 DEF KeepFirstFragment
<1>10. CASE NotifyCompleted(w)
  BY <1>10 DEF NotifyCompleted
<1>11. CASE Decrement(w)
  BY <1>11 DEF Decrement
<1>12. CASE SignalItemCompleted(w)
  BY <1>12 DEF SignalItemCompleted
<1> QED
  BY <1>1, <1>2, <1>3, <1>4, <1>5, <1>6, <1>7, <1>8, <1>9, <1>10, <1>11, <1>12
  DEF Work

LEMMA LifecycleTypeOK ==
  ASSUME TypeOK, Start \/ BeginStop \/ EndStop
  PROVE  TypeOK'
<1> USE DEF TypeOK, itemVars, ringVars, callVars, workVars
<1>1. CASE Start
  <2>1. task' \in [Slots -> Task]
    BY <1>1, NoTaskIsTask DEF Start, Each
  <2>2. state' \in [Slots -> {"Free", "Ready", "Busy"}]
    BY <1>1 DEF Start, Each
  <2>3. firstFragment' \in [Slots -> Slots] /\ outstanding' \in [Slots -> Int]
        /\ itemCompleted' \in [Slots -> BOOLEAN]
    BY <1>1, ZeroIsSlot DEF Start, Each
  <2> QED
    BY <1>1, <2>1, <2>2, <2>3, ZeroIsSlot DEF Start, WorkerPcs
<1>2. CASE BeginStop
  BY <1>2 DEF BeginStop
<1>3. CASE EndStop
  BY <1>3 DEF EndStop
<1> QED
  BY <1>1, <1>2, <1>3

LEMMA StutterTypeOK == TypeOK /\ UNCHANGED vars => TypeOK'
  BY DEF TypeOK, vars, itemVars, ringVars, poolVars, callVars, workVars

LEMMA StepTypeOK == TypeOK /\ [Next]_vars => TypeOK'
  BY RequestTypeOK, EnqueueTypeOK, CompleteTypeOK, WorkTypeOK, LifecycleTypeOK,
     StutterTypeOK DEF Next

(* Every variable keeps its type; in particular every position and every   *)
(* FirstFragment is the index of a work item, whatever the queue size.     *)
THEOREM TypeCorrectness == Spec => []TypeOK
  BY InitTypeOK, StepTypeOK, PTL DEF Spec

-----------------------------------------------------------------------------
(***************************************************************************)
(* The pointer to the first fragment that a worker reads from a work item  *)
(* it has freed leads to the request it worked for: FirstFragmentStable of *)
(* EncryptionThreadPool, for any number of callers, workers and work       *)
(* items.                                                                  *)
(*                                                                         *)
(* The argument: fragments lie around the ring from the first work item of *)
(* their request up to the place where the enqueuer is (InRun).  To reuse  *)
(* a work item the enqueuer must go once around, past that first work      *)
(* item, which stays in use until the request has ended; and the request   *)
(* does not end before its fragments are counted (CountOK).                *)
(***************************************************************************)

(* Requests are taken while the pool runs and is not being stopped.        *)
Serving == running /\ ~stopPending

(* Between the end of the pool and its next start no request is under way, *)
(* and no worker is past the test that makes it exit.                      *)
StoppedOK ==
  ~Serving =>
    /\ \A c \in Callers : callerPc[c] \in {"idle", "done"} /\ job[c].left >= 0
    /\ \A w \in Workers : workerPc[w] \in {"exited", "loop", "lock", "test", "waitReady", "run"}
    /\ ~stopPending => \A w \in Workers : workerPc[w] = "exited"

(* EnqueueMutex is held exactly by the caller that is enqueueing.          *)
MutexOK ==
  \A c \in Callers : callerPc[c] \in Enqueuing \ {"lock"} <=> enqueueMutex = c

(* The place of the next fragment: it is taken from enqueuePosition before *)
(* the wait for its work item.                                             *)
Cursor ==
  IF enqueueMutex \in Callers /\ callerPc[enqueueMutex] \in {"fill", "waitSlot"}
  THEN job[enqueueMutex].slot ELSE enqueuePosition

(* Slot s is one of those from f up to, and without, k around the ring.    *)
InRun(f, s, k) == IF f < k THEN f <= s /\ s < k ELSE f <= s \/ s < k

(* The request owns its first work item from ClaimFirst to FreeFirst.      *)
Claimed(c) ==
  callerPc[c] \in {"advance", "fill", "waitSlot", "notifyReady", "wait", "freeFirst"}

WithTask == {"run", "free", "notifyCompleted", "decrement"}

(* The fragments of a request in the ring, and with a worker that has not  *)
(* counted them yet.                                                       *)
InRing(c) == {s \in Slots : state[s] = "Ready" /\ task[s].owner = c}
AtWorkers(c) == {w \in Workers : workerPc[w] \in WithTask /\ served[w] = c}
InHand(c) == IF callerPc[c] \in {"fill", "waitSlot"} THEN 1 ELSE 0

(* The place of an enqueuer, before and after it has claimed the first     *)
(* work item.                                                              *)
EnqueuerOK(c) ==
  /\ job[c].left >= 0
  /\ callerPc[c] \in {"lock", "claimFirst", "waitFirst"} => job[c].left > 0
  /\ callerPc[c] \in {"claimFirst", "waitFirst"} => job[c].first = enqueuePosition
  /\ callerPc[c] \in {"fill", "waitSlot"} => enqueuePosition = NextSlot(job[c].slot)
  /\ callerPc[c] \in {"wait", "freeFirst"} => job[c].left = 0

(* The first work item is free only until the first fragment is there;     *)
(* then it carries that fragment until the request frees it.               *)
FirstOK(c) ==
  Claimed(c) =>
    IF state[job[c].first] = "Free"
    THEN /\ callerPc[c] \in {"advance", "fill", "waitSlot"}
         /\ callerPc[c] = "advance" => job[c].left > 0
         /\ Cursor = job[c].first
         /\ \A s \in Slots : state[s] = "Ready" => task[s].owner # c
         /\ \A w \in Workers : workerPc[w] \in WithTask \cup {"signal"} => served[w] # c
    ELSE /\ firstFragment[job[c].first] = job[c].first
         /\ task[job[c].first].owner = c

(* OutstandingFragmentCount counts the fragments to come, in the ring and  *)
(* with workers.                                                           *)
CountOK(c) ==
  Claimed(c) =>
    outstanding[job[c].first] =
      job[c].left + InHand(c) + Cardinality(InRing(c)) + Cardinality(AtWorkers(c))

DistinctFirsts ==
  \A c, d \in Callers : Claimed(c) /\ Claimed(d) /\ c # d => job[c].first # job[d].first

(* What a work item that carries a fragment says: whose it is, where the   *)
(* first one is; and it lies behind the cursor.                            *)
CarriesFor(s, c) ==
  /\ c \in Callers /\ Claimed(c)
  /\ task[s].owner = c
  /\ firstFragment[s] = job[c].first
  /\ InRun(job[c].first, s, Cursor)

ReadyOK == \A s \in Slots : state[s] = "Ready" => CarriesFor(s, task[s].owner)

WorkersOK ==
  \A w \in Workers :
    /\ workerPc[w] \in WithTask \cup {"signal"} => CarriesFor(item[w], served[w])
    /\ workerPc[w] \in {"run", "free"} => state[item[w]] = "Busy"

DistinctItems ==
  \A v, w \in Workers :
    workerPc[v] \in {"run", "free"} /\ workerPc[w] \in {"run", "free"} /\ v # w
      => item[v] # item[w]

(* One worker counts to 0 and sets the event once.                         *)
SignalOK ==
  \A w \in Workers : workerPc[w] = "signal" =>
    /\ outstanding[job[served[w]].first] = 0
    /\ ~itemCompleted[job[served[w]].first]
    /\ callerPc[served[w]] # "freeFirst"
    /\ \A v \in Workers : workerPc[v] = "signal" /\ served[v] = served[w] => v = w

EventOK ==
  \A s \in Slots : itemCompleted[s] =>
    \E c \in Callers : Claimed(c) /\ job[c].first = s /\ outstanding[s] = 0
                       /\ callerPc[c] # "freeFirst"

EndedOK ==
  \A c \in Callers : callerPc[c] = "freeFirst" => outstanding[job[c].first] = 0

RingOK ==
  /\ \A c \in Callers : EnqueuerOK(c) /\ FirstOK(c) /\ CountOK(c)
  /\ DistinctFirsts /\ ReadyOK /\ WorkersOK /\ DistinctItems
  /\ SignalOK /\ EventOK /\ EndedOK

IInv == TypeOK /\ StoppedOK /\ MutexOK /\ (Serving => RingOK)

-----------------------------------------------------------------------------
(* The ring.                                                               *)

(* A run that is not the whole ring grows by one work item when its end    *)
(* moves on, and does not contain its end.                                 *)
LEMMA InRunGrows ==
  ASSUME NEW f \in Slots, NEW k \in Slots, k # f
  PROVE  /\ InRun(f, k, NextSlot(k))
         /\ \A s \in Slots : InRun(f, s, k) => InRun(f, s, NextSlot(k)) /\ s # k
  BY QueueSizeAssumption DEF InRun, NextSlot, Slots

LEMMA InRunStarts ==
  ASSUME NEW f \in Slots
  PROVE  InRun(f, f, NextSlot(f))
  BY QueueSizeAssumption DEF InRun, NextSlot, Slots

LEMMA FiniteParts ==
  ASSUME NEW c
  PROVE  IsFiniteSet(InRing(c)) /\ IsFiniteSet(AtWorkers(c))
<1>1. IsFiniteSet(Slots)
  BY FS_Interval, QueueSizeAssumption DEF Slots
<1>2. InRing(c) \subseteq Slots /\ AtWorkers(c) \subseteq Workers
  BY DEF InRing, AtWorkers
<1> QED
  BY <1>1, <1>2, FS_Subset, WorkersAssumption

LEMMA CountsAreNat ==
  ASSUME NEW c
  PROVE  /\ Cardinality(InRing(c)) \in Nat /\ Cardinality(AtWorkers(c)) \in Nat
         /\ InHand(c) \in {0, 1}
  BY FiniteParts, FS_CardinalityType DEF InHand

LEMMA CursorIsSlot == TypeOK => Cursor \in Slots
  BY DEF TypeOK, Cursor, Job

(* Mutex holders are alone in enqueueing.                                  *)
LEMMA EnqueuerIsAlone ==
  ASSUME MutexOK, NEW c \in Callers, NEW d \in Callers,
         callerPc[c] \in Enqueuing \ {"lock"}, callerPc[d] \in Enqueuing \ {"lock"}
  PROVE  c = d
  BY DEF MutexOK

(* While a fragment is in the ring or with a worker the count is positive. *)
LEMMA CountIsPositive ==
  ASSUME TypeOK, NEW c \in Callers, Claimed(c), EnqueuerOK(c), CountOK(c),
         InRing(c) # {} \/ AtWorkers(c) # {}
  PROVE  outstanding[job[c].first] > 0
<1>1. Cardinality(InRing(c)) > 0 \/ Cardinality(AtWorkers(c)) > 0
  BY FiniteParts, FS_EmptySet, CountsAreNat
<1>2. job[c].left \in Int
  BY DEF TypeOK, Job
<1> QED
  BY <1>1, <1>2, CountsAreNat DEF CountOK, EnqueuerOK

(* Nothing is left of a request whose count is 0.                          *)
LEMMA NothingLeft ==
  ASSUME TypeOK, NEW c \in Callers, Claimed(c), EnqueuerOK(c), CountOK(c),
         outstanding[job[c].first] = 0
  PROVE  InRing(c) = {} /\ AtWorkers(c) = {}
  BY CountIsPositive

(* A fragment changes its place: the sum stays.                            *)
LEMMA OneMoves ==
  ASSUME NEW a \in Int, NEW b \in Nat, NEW d \in Nat
  PROVE  a + 1 + b + d = a + 0 + (b + 1) + d
  OBVIOUS

LEMMA OneMore ==
  ASSUME NEW S, IsFiniteSet(S), NEW x, x \notin S
  PROVE  Cardinality(S \cup {x}) = Cardinality(S) + 1
  BY FS_AddElement

LEMMA OneLess ==
  ASSUME NEW S, IsFiniteSet(S), NEW x \in S
  PROVE  Cardinality(S \ {x}) = Cardinality(S) - 1
  BY FS_RemoveElement

LEMMA OneTaken ==
  ASSUME NEW a \in Int, NEW h \in {0, 1}, NEW b \in Nat, NEW d \in Nat
  PROVE  a + h + b + d = a + h + (b - 1) + (d + 1)
  OBVIOUS

LEMMA OneCounted ==
  ASSUME NEW a \in Int, NEW h \in {0, 1}, NEW b \in Nat, NEW d \in Nat
  PROVE  (a + h + b + d) - 1 = a + h + b + (d - 1)
  OBVIOUS

-----------------------------------------------------------------------------
(* Steps that leave the ring alone.                                        *)

(* A step of a caller that changes its place, but not what it owns.        *)
LEMMA CallerFrame ==
  ASSUME TypeOK, RingOK, NEW c \in Callers, NEW p, NEW j,
         callerPc' = [callerPc EXCEPT ![c] = p],
         job' = [job EXCEPT ![c] = j],
         UNCHANGED <<itemVars, workVars>>,
         Cursor' = Cursor,
         \A d \in Callers : EnqueuerOK(d)',
         p # "freeFirst",
         Claimed(c)' <=> Claimed(c),
         Claimed(c) => /\ j.first = job[c].first
                       /\ j.left + InHand(c)' = job[c].left + InHand(c)
                       /\ state[j.first] = "Free" =>
                            /\ p \in {"advance", "fill", "waitSlot"}
                            /\ p = "advance" => j.left > 0
  PROVE  RingOK'
<1> USE DEF itemVars, workVars
<1>1. /\ callerPc'[c] = p /\ job'[c] = j
      /\ \A d \in Callers : d # c => callerPc'[d] = callerPc[d] /\ job'[d] = job[d]
  BY DEF TypeOK
<1>2. \A d \in Callers :
        /\ Claimed(d)' <=> Claimed(d)
        /\ Claimed(d) => job'[d].first = job[d].first
  BY <1>1 DEF Claimed
<1>3. \A d \in Callers : FirstOK(d)'
  BY <1>1, <1>2 DEF RingOK, FirstOK
<1>4. \A d \in Callers : CountOK(d)'
  <2> TAKE d \in Callers
  <2>1. InRing(d)' = InRing(d) /\ AtWorkers(d)' = AtWorkers(d)
    BY DEF InRing, AtWorkers
  <2>2. Claimed(d) => job'[d].left + InHand(d)' = job[d].left + InHand(d)
    BY <1>1 DEF InHand
  <2>3. job'[d].left + InHand(d)' + Cardinality(InRing(d)) + Cardinality(AtWorkers(d))
          = (job'[d].left + InHand(d)') + Cardinality(InRing(d)) + Cardinality(AtWorkers(d))
    OBVIOUS
  <2> QED
    BY <1>2, <2>1, <2>2, <2>3 DEF RingOK, CountOK
<1>5. DistinctFirsts'
  BY <1>2 DEF RingOK, DistinctFirsts
<1>6. \A s, d : CarriesFor(s, d) => CarriesFor(s, d)'
  BY <1>2 DEF CarriesFor
<1>7. ReadyOK' /\ WorkersOK' /\ DistinctItems'
  BY <1>6 DEF RingOK, ReadyOK, WorkersOK, DistinctItems
<1>8. SignalOK'
  BY <1>1, <1>2 DEF RingOK, SignalOK, WorkersOK, CarriesFor
<1>9. EventOK' /\ EndedOK'
  BY <1>1, <1>2 DEF RingOK, EventOK, EndedOK
<1> QED
  BY <1>3, <1>4, <1>5, <1>7, <1>8, <1>9 DEF RingOK

(* A step of a worker that does not change what it carries.                *)
LEMMA WorkerFrame ==
  ASSUME TypeOK, RingOK, NEW w \in Workers, NEW p, NEW i,
         workerPc' = [workerPc EXCEPT ![w] = p],
         item' = [item EXCEPT ![w] = i],
         UNCHANGED <<itemVars, enqueuePosition, enqueueMutex, callVars, served>>,
         p \in WithTask <=> workerPc[w] \in WithTask,
         p \in {"run", "free"} => workerPc[w] \in {"run", "free"},
         p # "signal", workerPc[w] # "signal",
         workerPc[w] \in WithTask => i = item[w]
  PROVE  RingOK'
<1> USE DEF itemVars, callVars
<1>1. /\ workerPc'[w] = p /\ item'[w] = i
      /\ \A v \in Workers : v # w => workerPc'[v] = workerPc[v] /\ item'[v] = item[v]
  BY DEF TypeOK
<1>2. Cursor' = Cursor /\ \A d \in Callers : Claimed(d)' <=> Claimed(d)
  BY DEF Cursor, Claimed
<1>3. \A d \in Callers : EnqueuerOK(d)'
  BY DEF RingOK, EnqueuerOK
<1>4. \A d \in Callers : FirstOK(d)'
  BY <1>1, <1>2 DEF RingOK, FirstOK
<1>5. \A d \in Callers : CountOK(d)'
  <2> TAKE d \in Callers
  <2>1. InRing(d)' = InRing(d) /\ InHand(d)' = InHand(d)
    BY DEF InRing, InHand
  <2>2. AtWorkers(d)' = AtWorkers(d)
    BY <1>1 DEF AtWorkers
  <2> QED
    BY <1>2, <2>1, <2>2 DEF RingOK, CountOK
<1>6. DistinctFirsts'
  BY <1>2 DEF RingOK, DistinctFirsts
<1>7. \A s, d : CarriesFor(s, d) => CarriesFor(s, d)'
  BY <1>2 DEF CarriesFor
<1>8. ReadyOK'
  BY <1>7 DEF RingOK, ReadyOK
<1>9. WorkersOK' /\ DistinctItems'
  BY <1>1, <1>7 DEF RingOK, WorkersOK, DistinctItems, WithTask
<1>10. SignalOK' /\ EventOK' /\ EndedOK'
  BY <1>1, <1>2 DEF RingOK, SignalOK, EventOK, EndedOK
<1> QED
  BY <1>3, <1>4, <1>5, <1>6, <1>8, <1>9, <1>10 DEF RingOK

-----------------------------------------------------------------------------
(* EnqueueMutex, and the time when the pool does not serve.                *)

LEMMA InitIInv == Init => IInv
<1> SUFFICES ASSUME Init PROVE IInv
  OBVIOUS
<1>1. TypeOK
  BY InitTypeOK
<1>2. StoppedOK /\ ~Serving
  BY DEF Init, StoppedOK, Serving, NoJob
<1>3. MutexOK
  BY CallersAssumption DEF Init, MutexOK, Enqueuing
<1> QED
  BY <1>1, <1>2, <1>3 DEF IInv

LEMMA StepMutexOK ==
  ASSUME TypeOK, MutexOK, StoppedOK, Next
  PROVE  MutexOK'
<1> USE CallersAssumption DEF MutexOK, TypeOK, Enqueuing, MoveCaller
<1>1. ASSUME NEW c \in Callers, Request(c) PROVE MutexOK'
  BY <1>1 DEF Request, DoWorkInline, DoWork
<1>2. ASSUME NEW c \in Callers, Enqueue(c) PROVE MutexOK'
  <2>1. CASE LockEnqueue(c)
    BY <2>1 DEF LockEnqueue
  <2>2. CASE UnlockEnqueue(c)
    BY <2>2 DEF UnlockEnqueue
  <2>3. CASE \/ TestItem(c, job[c].first, "claimFirst", "waitFirst")
             \/ WaitForItem(c, "waitFirst", "claimFirst")
             \/ TestItem(c, job[c].slot, "fill", "waitSlot")
             \/ WaitForItem(c, "waitSlot", "fill")
    BY <2>3 DEF TestItem, WaitForItem
  <2>4. CASE ClaimFirst(c) \/ Advance(c) \/ Fill(c) \/ NotifyReady(c)
    BY <2>4 DEF ClaimFirst, Advance, Fill, NotifyReady
  <2> QED
    BY <1>2, <2>1, <2>2, <2>3, <2>4 DEF Enqueue
<1>3. ASSUME NEW c \in Callers, Complete(c) PROVE MutexOK'
  <2>1. PICK from \in {"wait", "freeFirst", "notifyFreed", "done"},
             to \in {"freeFirst", "notifyFreed", "done", "idle"} : MoveCaller(c, from, to)
    BY <1>3 DEF Complete, WaitItemCompleted, FreeFirst, NotifyFreed, Return
  <2>2. enqueueMutex' = enqueueMutex
    BY <1>3 DEF Complete, WaitItemCompleted, FreeFirst, NotifyFreed, Return
  <2> QED
    BY <2>1, <2>2
<1>4. ASSUME NEW w \in Workers, Work(w) PROVE MutexOK'
  BY <1>4 DEF Work, Loop, LockDequeue, TestReady, WaitReady, Take, ExitWorker, Run,
    FreeFragment, KeepFirstFragment, NotifyCompleted, Decrement, SignalItemCompleted,
    callVars
<1>5. CASE Start
  <2>1. \A c \in Callers : callerPc[c] \in {"idle", "done"}
    BY <1>5 DEF Start, StoppedOK, Serving
  <2> QED
    BY <1>5, <2>1 DEF Start, callVars
<1>6. CASE BeginStop \/ EndStop
  BY <1>6 DEF BeginStop, EndStop, callVars
<1> QED
  BY <1>1, <1>2, <1>3, <1>4, <1>5, <1>6 DEF Next

(* While the pool does not serve only inline requests, and the exit of the *)
(* workers, are possible.                                                  *)
LEMMA StepStoppedOK ==
  ASSUME TypeOK, StoppedOK, Serving => RingOK, Next
  PROVE  StoppedOK'
<1> USE DEF TypeOK, StoppedOK, Serving, poolVars, MoveCaller, MoveWorker
<1>1. ASSUME NEW c \in Callers, Request(c) PROVE StoppedOK'
  <2> SUFFICES ASSUME ~Serving' PROVE StoppedOK'
    OBVIOUS
  <2>1. PICK n \in 1 .. MaxUnits : DoWorkInline(c, n) \/ DoWork(c, n)
    BY <1>1 DEF Request
  <2>2. DoWorkInline(c, n)
    BY <2>1 DEF DoWork
  <2>3. /\ callerPc' = [callerPc EXCEPT ![c] = "done"]
        /\ job' = [job EXCEPT ![c] = [NoJob EXCEPT !.units = n]]
        /\ UNCHANGED <<running, stopPending, workerPc>>
    BY <2>2 DEF DoWorkInline, workVars
  <2>4. job'[c].left = 0 /\ \A d \in Callers : d # c => job'[d] = job[d]
    BY <2>3 DEF NoJob
  <2> QED
    BY <2>3, <2>4
<1>2. ASSUME NEW c \in Callers, Enqueue(c) PROVE StoppedOK'
  BY <1>2 DEF Enqueue, LockEnqueue, TestItem, WaitForItem, ClaimFirst, Advance, Fill,
    NotifyReady, UnlockEnqueue, workVars
<1>3. ASSUME NEW c \in Callers, Complete(c) PROVE StoppedOK'
  BY <1>3 DEF Complete, WaitItemCompleted, FreeFirst, NotifyFreed, Return, workVars, NoJob
<1>4. ASSUME NEW w \in Workers, Work(w) PROVE StoppedOK'
  BY <1>4 DEF Work, Loop, LockDequeue, TestReady, WaitReady, Take, ExitWorker, Run,
    FreeFragment, KeepFirstFragment, NotifyCompleted, Decrement, SignalItemCompleted,
    callVars
<1>5. CASE Start
  BY <1>5 DEF Start
<1>6. CASE BeginStop
  <2>1. RingOK /\ \A c \in Callers : callerPc[c] = "idle" /\ job[c].left >= 0
    BY <1>6 DEF BeginStop, Idle, RingOK, EnqueuerOK
  <2>2. \A w \in Workers : workerPc[w] \notin WithTask \cup {"signal"}
    BY <2>1 DEF RingOK, WorkersOK, CarriesFor, Claimed
  <2> QED
    BY <1>6, <2>1, <2>2 DEF BeginStop, callVars, workVars, WithTask, WorkerPcs
<1>7. CASE EndStop
  BY <1>7 DEF EndStop, callVars, workVars
<1> QED
  BY <1>1, <1>2, <1>3, <1>4, <1>5, <1>6, <1>7 DEF Next

-----------------------------------------------------------------------------
(* The steps of a caller that leave the ring alone.                        *)

LEMMA RequestRingOK ==
  ASSUME TypeOK, MutexOK, RingOK, NEW c \in Callers, Request(c)
  PROVE  RingOK'
<1> PICK n \in 1 .. MaxUnits : DoWorkInline(c, n) \/ DoWork(c, n)
  BY DEF Request
<1> USE DEF TypeOK, MoveCaller, ringVars
<1>1. callerPc[c] = "idle" /\ callerPc'[c] \in {"done", "lock"}
  BY DEF DoWorkInline, DoWork
<1>2. \A d \in Callers : d # c => callerPc'[d] = callerPc[d] /\ job'[d] = job[d]
  BY DEF DoWorkInline, DoWork
<1>3. UNCHANGED <<enqueuePosition, enqueueMutex, itemVars, workVars>>
  BY DEF DoWorkInline, DoWork
<1>4. enqueueMutex # c
  BY <1>1 DEF MutexOK, Enqueuing
<1>5. Cursor' = Cursor
  BY <1>2, <1>3, <1>4 DEF Cursor
<1>6. EnqueuerOK(c)'
  <2>1. FragmentCount(n) > 0
    BY ThreadCountIsNat, MaxUnitsAssumption DEF FragmentCount
  <2>2. CASE DoWorkInline(c, n)
    <3>1. callerPc'[c] = "done" /\ job'[c].left = 0
      BY <2>2 DEF DoWorkInline, NoJob
    <3> QED
      BY <3>1 DEF EnqueuerOK
  <2>3. CASE DoWork(c, n)
    <3>1. callerPc'[c] = "lock" /\ job'[c].left = FragmentCount(n)
      BY <2>3 DEF DoWork, NewJob
    <3> QED
      BY <2>1, <3>1, DivisionIsInteger DEF EnqueuerOK
  <2> QED
    BY <2>2, <2>3
<1>7. \A d \in Callers : EnqueuerOK(d)'
  BY <1>2, <1>3, <1>6 DEF RingOK, EnqueuerOK
<1>8. ~Claimed(c) /\ ~Claimed(c)'
  BY <1>1 DEF Claimed
<1>9. CASE DoWorkInline(c, n)
  <2> DEFINE j == [NoJob EXCEPT !.units = n]
  <2>1. callerPc' = [callerPc EXCEPT ![c] = "done"] /\ job' = [job EXCEPT ![c] = j]
    BY <1>9 DEF DoWorkInline
  <2> QED
    BY <2>1, <1>3, <1>5, <1>7, <1>8, CallerFrame
<1>10. CASE DoWork(c, n)
  <2>1. callerPc' = [callerPc EXCEPT ![c] = "lock"] /\ job' = [job EXCEPT ![c] = NewJob(n)]
    BY <1>10 DEF DoWork
  <2> QED
    BY <2>1, <1>3, <1>5, <1>7, <1>8, CallerFrame
<1> QED
  BY <1>9, <1>10

(* A step to or from a wait, and other steps without effect on the job.    *)
LEMMA MoveRingOK ==
  ASSUME TypeOK, MutexOK, RingOK, NEW c \in Callers, NEW from, NEW to,
         MoveCaller(c, from, to),
         <<from, to>> \in {<<"claimFirst", "waitFirst">>, <<"waitFirst", "claimFirst">>,
                          <<"fill", "waitSlot">>, <<"waitSlot", "fill">>,
                          <<"notifyReady", "advance">>, <<"advance", "wait">>,
                          <<"notifyFreed", "done">>},
         <<from, to>> = <<"advance", "wait">> => job[c].left = 0,
         UNCHANGED <<itemVars, enqueuePosition, job, workVars>>,
         enqueueMutex' = enqueueMutex \/ (enqueueMutex = c /\ from = "advance" /\ enqueueMutex' = NoThread)
  PROVE  RingOK'
<1> USE DEF TypeOK, MoveCaller
<1>1. /\ callerPc' = [callerPc EXCEPT ![c] = to] /\ callerPc[c] = from
      /\ job' = [job EXCEPT ![c] = job[c]]
      /\ callerPc'[c] = to
      /\ \A d \in Callers : d # c => callerPc'[d] = callerPc[d]
  OBVIOUS
<1>2. Cursor' = Cursor
  BY <1>1, CallersAssumption DEF Cursor
<1>3. \A d \in Callers : EnqueuerOK(d)'
  BY <1>1 DEF RingOK, EnqueuerOK
<1>4. Claimed(c)' <=> Claimed(c)
  BY <1>1 DEF Claimed
<1>5. Claimed(c) =>
        /\ job[c].left + InHand(c)' = job[c].left + InHand(c)
        /\ state[job[c].first] = "Free" => to \in {"fill", "waitSlot"}
  BY <1>1 DEF InHand, RingOK, FirstOK, Claimed
<1> QED
  BY <1>1, <1>2, <1>3, <1>4, <1>5, CallerFrame

LEMMA LockEnqueueRingOK ==
  ASSUME TypeOK, MutexOK, RingOK, NEW c \in Callers, LockEnqueue(c)
  PROVE  RingOK'
<1> USE DEF TypeOK, MoveCaller, ringVars, LockEnqueue
<1> DEFINE j == [job[c] EXCEPT !.first = enqueuePosition]
<1>1. /\ callerPc' = [callerPc EXCEPT ![c] = "claimFirst"]
      /\ job' = [job EXCEPT ![c] = j]
      /\ callerPc[c] = "lock"
      /\ UNCHANGED <<itemVars, workVars, enqueuePosition>>
  OBVIOUS
<1>2. Cursor' = Cursor
  BY <1>1, CallersAssumption DEF Cursor
<1>3. EnqueuerOK(c)'
  BY <1>1 DEF RingOK, EnqueuerOK, Job
<1>4. \A d \in Callers : EnqueuerOK(d)'
  BY <1>1, <1>3 DEF RingOK, EnqueuerOK
<1>5. ~Claimed(c) /\ ~Claimed(c)'
  BY <1>1 DEF Claimed
<1> QED
  BY <1>1, <1>2, <1>4, <1>5, CallerFrame

LEMMA AdvanceRingOK ==
  ASSUME TypeOK, MutexOK, RingOK, NEW c \in Callers, Advance(c)
  PROVE  RingOK'
<1> USE DEF TypeOK, MoveCaller, ringVars, Advance
<1> DEFINE j == InSlot(job[c], enqueuePosition)
<1>1. /\ callerPc' = [callerPc EXCEPT ![c] = "fill"]
      /\ job' = [job EXCEPT ![c] = j]
      /\ callerPc[c] = "advance" /\ callerPc'[c] = "fill" /\ job'[c] = j
      /\ UNCHANGED <<itemVars, workVars, enqueueMutex>>
      /\ enqueuePosition' = NextSlot(enqueuePosition)
      /\ job[c].left > 0 /\ job[c].left \in Int
  BY DEF Job
<1>2. j.first = job[c].first /\ j.slot = enqueuePosition /\ j.left = job[c].left - 1
  BY DEF InSlot, Job
<1>3. enqueueMutex = c
  BY <1>1 DEF MutexOK, Enqueuing
<1>4. Cursor' = Cursor
  BY <1>1, <1>2, <1>3 DEF Cursor
<1>5. EnqueuerOK(c)'
  BY <1>1, <1>2 DEF EnqueuerOK
<1>6. \A d \in Callers : EnqueuerOK(d)'
  <2> TAKE d \in Callers
  <2>1. CASE d # c
    <3>1. callerPc[d] \notin Enqueuing \ {"lock"} /\ callerPc'[d] = callerPc[d] /\ job'[d] = job[d]
      BY <2>1, <1>1, <1>3 DEF MutexOK
    <3> QED
      BY <3>1 DEF RingOK, EnqueuerOK, Enqueuing
  <2> QED
    BY <2>1, <1>5
<1>7. Claimed(c) /\ Claimed(c)'
  BY <1>1 DEF Claimed
<1>8. j.left + InHand(c)' = job[c].left + InHand(c)
  BY <1>1, <1>2 DEF InHand
<1> QED
  BY <1>1, <1>2, <1>4, <1>6, <1>7, <1>8, CallerFrame

LEMMA ReturnRingOK ==
  ASSUME TypeOK, MutexOK, RingOK, NEW c \in Callers, Return(c)
  PROVE  RingOK'
<1> USE DEF TypeOK, MoveCaller, ringVars, Return
<1>1. /\ callerPc' = [callerPc EXCEPT ![c] = "idle"]
      /\ job' = [job EXCEPT ![c] = NoJob]
      /\ callerPc[c] = "done"
      /\ UNCHANGED <<itemVars, workVars, enqueuePosition, enqueueMutex>>
  OBVIOUS
<1>2. Cursor' = Cursor
  BY <1>1 DEF Cursor, MutexOK, Enqueuing
<1>3. \A d \in Callers : EnqueuerOK(d)'
  BY <1>1 DEF RingOK, EnqueuerOK, NoJob
<1>4. ~Claimed(c) /\ ~Claimed(c)'
  BY <1>1 DEF Claimed
<1> QED
  BY <1>1, <1>2, <1>3, <1>4, CallerFrame

-----------------------------------------------------------------------------
(* The steps of a caller that take, fill and free work items.              *)

(* The first work item is free, so that no other request owns it: the      *)
(* count is set for a request that has no fragment yet.                    *)
LEMMA ClaimFirstRingOK ==
  ASSUME TypeOK, MutexOK, RingOK, NEW c \in Callers, ClaimFirst(c)
  PROVE  RingOK'
<1> USE DEF TypeOK, MoveCaller, ringVars, workVars, ClaimFirst
<1> DEFINE f == job[c].first
<1>1. /\ callerPc[c] = "claimFirst" /\ callerPc'[c] = "advance"
      /\ \A d \in Callers : d # c => callerPc'[d] = callerPc[d]
      /\ f \in Slots /\ state[f] = "Free" /\ job[c].left \in Int
      /\ outstanding'[f] = job[c].left
      /\ \A s \in Slots : s # f => outstanding'[s] = outstanding[s]
      /\ UNCHANGED <<state, firstFragment, itemCompleted, task, enqueuePosition,
                    enqueueMutex, job, workerPc, item, served>>
  BY DEF Job
<1>2. ~Claimed(c) /\ Claimed(c)' /\ enqueueMutex = c
  BY <1>1 DEF Claimed, MutexOK, Enqueuing
<1>3. \A d \in Callers : d # c => (Claimed(d)' <=> Claimed(d))
  BY <1>1 DEF Claimed
<1>4. \A d \in Callers : Claimed(d) => job[d].first # f
  <2> SUFFICES ASSUME NEW d \in Callers, Claimed(d), job[d].first = f PROVE FALSE
    OBVIOUS
  <2>1. callerPc[d] \in {"advance", "fill", "waitSlot"}
    BY <1>1 DEF RingOK, FirstOK
  <2>2. c = d
    BY <2>1, <1>1 DEF MutexOK, Enqueuing
  <2> QED
    BY <2>1, <2>2, <1>1
<1>5. Cursor' = Cursor /\ Cursor = f
  BY <1>1, <1>2 DEF Cursor, RingOK, EnqueuerOK
<1>6. /\ \A s \in Slots : state[s] = "Ready" => task[s].owner # c
      /\ \A w \in Workers : workerPc[w] \in WithTask \cup {"signal"} => served[w] # c
  BY <1>2 DEF RingOK, ReadyOK, WorkersOK, CarriesFor
<1>7. \A d \in Callers : EnqueuerOK(d)'
  BY <1>1 DEF RingOK, EnqueuerOK
<1>8. \A d \in Callers : FirstOK(d)'
  <2>1. FirstOK(c)'
    BY <1>1, <1>5, <1>6 DEF FirstOK, RingOK, EnqueuerOK
  <2>2. ASSUME NEW d \in Callers, d # c PROVE FirstOK(d)'
    BY <2>2, <1>1, <1>3, <1>5 DEF RingOK, FirstOK
  <2> QED
    BY <2>1, <2>2
<1>9. \A d \in Callers : CountOK(d)'
  <2>1. \A d \in Callers : InRing(d)' = InRing(d) /\ AtWorkers(d)' = AtWorkers(d)
    BY <1>1 DEF InRing, AtWorkers
  <2>2. CountOK(c)'
    <3>1. InRing(c) = {} /\ AtWorkers(c) = {}
      BY <1>6 DEF InRing, AtWorkers
    <3>2. InHand(c)' = 0 /\ Cardinality(InRing(c)) = 0 /\ Cardinality(AtWorkers(c)) = 0
      BY <3>1, <1>1, FS_EmptySet DEF InHand
    <3> QED
      BY <3>2, <2>1, <1>1 DEF CountOK
  <2>3. ASSUME NEW d \in Callers, d # c PROVE CountOK(d)'
    <3>1. InHand(d)' = InHand(d)
      BY <2>3, <1>1 DEF InHand
    <3>2. Claimed(d) => outstanding'[job[d].first] = outstanding[job[d].first]
      BY <1>1, <1>4 DEF Job
    <3> QED
      BY <3>1, <3>2, <2>1, <2>3, <1>1, <1>3 DEF RingOK, CountOK
  <2> QED
    BY <2>2, <2>3
<1>10. DistinctFirsts'
  BY <1>1, <1>3, <1>4 DEF RingOK, DistinctFirsts
<1>11. \A s, d : CarriesFor(s, d) => CarriesFor(s, d)'
  BY <1>1, <1>2, <1>3, <1>5 DEF CarriesFor
<1>12. ReadyOK' /\ WorkersOK' /\ DistinctItems'
  BY <1>1, <1>11 DEF RingOK, ReadyOK, WorkersOK, DistinctItems
<1>13. SignalOK'
  <2> SUFFICES ASSUME NEW w \in Workers, workerPc[w] = "signal"
               PROVE  /\ outstanding'[job[served[w]].first] = 0
                      /\ callerPc'[served[w]] # "freeFirst"
    BY <1>1 DEF RingOK, SignalOK
  <2>1. served[w] \in Callers /\ Claimed(served[w])
    BY DEF RingOK, WorkersOK, CarriesFor
  <2> QED
    BY <2>1, <1>1, <1>4 DEF RingOK, SignalOK, Job
<1>14. EventOK'
  <2> SUFFICES ASSUME NEW s \in Slots, itemCompleted[s]
               PROVE  \E d \in Callers : Claimed(d)' /\ job[d].first = s
                        /\ outstanding'[s] = 0 /\ callerPc'[d] # "freeFirst"
    BY <1>1 DEF EventOK
  <2>1. PICK d \in Callers : Claimed(d) /\ job[d].first = s /\ outstanding[s] = 0
                            /\ callerPc[d] # "freeFirst"
    BY DEF RingOK, EventOK
  <2> QED
    BY <2>1, <1>1, <1>2, <1>3, <1>4
<1>15. EndedOK'
  <2> SUFFICES ASSUME NEW d \in Callers, callerPc[d] = "freeFirst"
               PROVE  outstanding'[job[d].first] = 0
    BY <1>1 DEF EndedOK
  <2>1. Claimed(d)
    BY DEF Claimed
  <2> QED
    BY <2>1, <1>1, <1>4 DEF RingOK, EndedOK, Job
<1> QED
  BY <1>7, <1>8, <1>9, <1>10, <1>12, <1>13, <1>14, <1>15 DEF RingOK

(* The work item to be filled is not the first one of another request, and *)
(* no fragment lies at the cursor: nothing that is in use is overwritten.  *)
LEMMA FillRingOK ==
  ASSUME TypeOK, MutexOK, RingOK, NEW c \in Callers, Fill(c)
  PROVE  RingOK'
<1> USE DEF TypeOK, MoveCaller, ringVars, workVars, Fill
<1> DEFINE s == job[c].slot
           f == job[c].first
<1>1. /\ callerPc[c] = "fill" /\ callerPc'[c] = "notifyReady"
      /\ \A d \in Callers : d # c => callerPc'[d] = callerPc[d] /\ job'[d] = job[d]
      /\ s \in Slots /\ f \in Slots /\ state[s] = "Free" /\ state'[s] = "Ready"
      /\ firstFragment'[s] = f /\ task'[s].owner = c
      /\ \A r \in Slots : r # s => /\ state'[r] = state[r] /\ task'[r] = task[r]
                                  /\ firstFragment'[r] = firstFragment[r]
      /\ UNCHANGED <<outstanding, itemCompleted, enqueuePosition, enqueueMutex,
                    workerPc, item, served>>
  BY DEF Job
<1>2. job'[c].first = f /\ job'[c].left = job[c].left /\ job'[c].slot = s
  BY DEF NextFragment, Job
<1>3. Claimed(c) /\ Claimed(c)' /\ enqueueMutex = c
  BY <1>1 DEF Claimed, MutexOK, Enqueuing
<1>4. \A d \in Callers : /\ Claimed(d)' <=> Claimed(d)
                         /\ job'[d].first = job[d].first
  BY <1>1, <1>2, <1>3 DEF Claimed
<1>5. Cursor = s /\ Cursor' = NextSlot(s)
  BY <1>1, <1>3 DEF Cursor, RingOK, EnqueuerOK
<1>6. \A d \in Callers : Claimed(d) /\ (d # c \/ f # s) => job[d].first # s
  <2> SUFFICES ASSUME NEW d \in Callers, Claimed(d), d # c, job[d].first = s PROVE FALSE
    OBVIOUS
  <2>1. callerPc[d] \in {"advance", "fill", "waitSlot"}
    BY <1>1 DEF RingOK, FirstOK
  <2> QED
    BY <2>1, <1>1 DEF MutexOK, Enqueuing
<1>7. f # s => state[f] # "Free"
  BY <1>1, <1>3, <1>5 DEF RingOK, FirstOK
<1>8. f = s => /\ \A r \in Slots : state[r] = "Ready" => task[r].owner # c
               /\ \A w \in Workers : workerPc[w] \in WithTask \cup {"signal"} => served[w] # c
  BY <1>1, <1>3 DEF RingOK, FirstOK
<1>9. ASSUME NEW r \in Slots, NEW d \in Callers, CarriesFor(r, d), d # c \/ f # s
      PROVE  CarriesFor(r, d)'
  <2>1. Claimed(d) /\ job[d].first # s /\ job[d].first \in Slots
    BY <1>6, <1>9 DEF CarriesFor, Job
  <2>2. InRun(job[d].first, r, NextSlot(s)) /\ r # s
    BY <2>1, <1>1, <1>5, <1>9, InRunGrows DEF CarriesFor
  <2> QED
    BY <2>1, <2>2, <1>1, <1>4, <1>5, <1>9 DEF CarriesFor
<1>10. CarriesFor(s, c)'
  <2>1. InRun(f, s, NextSlot(s))
    BY <1>1, InRunGrows, InRunStarts
  <2> QED
    BY <2>1, <1>1, <1>2, <1>3, <1>5 DEF CarriesFor
<1>11. ReadyOK'
  <2> SUFFICES ASSUME NEW r \in Slots, state'[r] = "Ready"
               PROVE  CarriesFor(r, task[r].owner)'
    BY DEF ReadyOK
  <2>1. CASE r = s
    BY <2>1, <1>1, <1>2, <1>10 DEF CarriesFor
  <2>2. CASE r # s
    <3>1. CarriesFor(r, task[r].owner) /\ task[r].owner \in Callers
      BY <2>2, <1>1 DEF RingOK, ReadyOK, CarriesFor
    <3>2. task[r].owner # c \/ f # s
      BY <2>2, <1>1, <1>8
    <3> DEFINE o == task[r].owner
    <3>3. task'[r].owner = o
      BY <2>2, <1>1
    <3>4. /\ Claimed(o)' /\ task'[r].owner = o /\ firstFragment'[r] = job'[o].first
          /\ InRun(job'[o].first, r, Cursor')
      BY <3>1, <3>2, <1>9 DEF CarriesFor
    <3> QED
      BY <3>1, <3>3, <3>4 DEF CarriesFor, Claimed
  <2> QED
    BY <2>1, <2>2
<1>12. WorkersOK'
  <2> SUFFICES ASSUME NEW w \in Workers
               PROVE  /\ workerPc[w] \in WithTask \cup {"signal"} => CarriesFor(item[w], served[w])'
                      /\ workerPc[w] \in {"run", "free"} => state'[item[w]] = "Busy"
    BY <1>1 DEF WorkersOK
  <2>1. workerPc[w] \in {"run", "free"} => state'[item[w]] = "Busy"
    BY <1>1 DEF RingOK, WorkersOK
  <2>2. ASSUME workerPc[w] \in WithTask \cup {"signal"} PROVE CarriesFor(item[w], served[w])'
    <3> DEFINE o == served[w]
    <3>1. CarriesFor(item[w], o) /\ o \in Callers
      BY <2>2 DEF RingOK, WorkersOK, CarriesFor
    <3>2. o # c \/ f # s
      BY <2>2, <1>8
    <3>3. item[w] \in Slots /\ item'[w] = item[w] /\ served'[w] = o
      BY <1>1
    <3>4. /\ Claimed(o)' /\ task'[item[w]].owner = o /\ firstFragment'[item[w]] = job'[o].first
          /\ InRun(job'[o].first, item[w], Cursor')
      BY <3>1, <3>2, <3>3, <1>9 DEF CarriesFor
    <3> QED
      BY <3>1, <3>3, <3>4 DEF CarriesFor, Claimed
  <2> QED
    BY <2>1, <2>2
<1>13. \A d \in Callers : EnqueuerOK(d)'
  BY <1>1, <1>2 DEF RingOK, EnqueuerOK
<1>14. \A d \in Callers : FirstOK(d)'
  <2>1. FirstOK(c)'
    <3>1. state'[f] # "Free"
      BY <1>1, <1>7
    <3>2. firstFragment'[f] = f /\ task'[f].owner = c
      BY <1>1, <1>3, <1>7 DEF RingOK, FirstOK
    <3> QED
      BY <3>1, <3>2, <1>2 DEF FirstOK
  <2>2. ASSUME NEW d \in Callers, d # c, Claimed(d) PROVE FirstOK(d)'
    <3>1. job[d].first # s /\ job[d].first \in Slots /\ state'[job[d].first] = state[job[d].first]
      BY <2>2, <1>1, <1>6 DEF Job
    <3>2. state[job[d].first] # "Free"
      BY <2>2, <1>1 DEF RingOK, FirstOK, MutexOK, Enqueuing
    <3> QED
      BY <3>1, <3>2, <2>2, <1>1, <1>4 DEF RingOK, FirstOK
  <2> QED
    BY <2>1, <2>2, <1>4 DEF FirstOK
<1>15. \A d \in Callers : CountOK(d)'
  <2>1. \A d \in Callers : AtWorkers(d)' = AtWorkers(d)
    BY <1>1 DEF AtWorkers
  <2>2. CountOK(c)'
    <3>1. InRing(c)' = InRing(c) \cup {s} /\ s \notin InRing(c)
      BY <1>1 DEF InRing
    <3>2. Cardinality(InRing(c)') = Cardinality(InRing(c)) + 1
      BY <3>1, FiniteParts, FS_AddElement
    <3>3. InHand(c) = 1 /\ InHand(c)' = 0
      BY <1>1 DEF InHand
    <3>4. outstanding[f] = job[c].left + 1 + Cardinality(InRing(c)) + Cardinality(AtWorkers(c))
      BY <1>3, <3>3 DEF RingOK, CountOK
    <3>5. /\ job[c].left \in Int
          /\ Cardinality(InRing(c)) \in Nat /\ Cardinality(AtWorkers(c)) \in Nat
      BY CountsAreNat DEF Job
    <3>6. job[c].left + 1 + Cardinality(InRing(c)) + Cardinality(AtWorkers(c))
            = job[c].left + 0 + (Cardinality(InRing(c)) + 1) + Cardinality(AtWorkers(c))
      BY <3>5, OneMoves
    <3>7. outstanding'[job'[c].first] = outstanding[f] /\ job'[c].left = job[c].left
      BY <1>1, <1>2
    <3>8. AtWorkers(c)' = AtWorkers(c)
      BY <2>1
    <3>9. outstanding'[job'[c].first]
            = job'[c].left + InHand(c)' + Cardinality(InRing(c)') + Cardinality(AtWorkers(c)')
      BY <3>2, <3>3, <3>4, <3>6, <3>7, <3>8
    <3> QED
      BY <3>9 DEF CountOK
  <2>3. ASSUME NEW d \in Callers, d # c PROVE CountOK(d)'
    <3>1. InRing(d)' = InRing(d) /\ InHand(d)' = InHand(d)
      BY <2>3, <1>1 DEF InRing, InHand
    <3> QED
      BY <3>1, <2>1, <2>3, <1>1, <1>4 DEF RingOK, CountOK
  <2> QED
    BY <2>2, <2>3
<1>16. DistinctFirsts'
  BY <1>4 DEF RingOK, DistinctFirsts
<1>17. DistinctItems'
  BY <1>1 DEF RingOK, DistinctItems
<1>18. SignalOK'
  BY <1>1, <1>4 DEF RingOK, SignalOK, WorkersOK, CarriesFor
<1>19. EventOK' /\ EndedOK'
  BY <1>1, <1>4 DEF RingOK, EventOK, EndedOK
<1> QED
  BY <1>11, <1>12, <1>13, <1>14, <1>15, <1>16, <1>17, <1>18, <1>19 DEF RingOK

(* The event says that every fragment was counted, and nobody will set it  *)
(* again.                                                                  *)
LEMMA WaitItemCompletedRingOK ==
  ASSUME TypeOK, MutexOK, RingOK, NEW c \in Callers, WaitItemCompleted(c)
  PROVE  RingOK'
<1> USE DEF TypeOK, MoveCaller, ringVars, workVars, WaitItemCompleted
<1> DEFINE f == job[c].first
<1>1. /\ callerPc[c] = "wait" /\ callerPc'[c] = "freeFirst"
      /\ \A d \in Callers : d # c => callerPc'[d] = callerPc[d]
      /\ f \in Slots /\ itemCompleted[f] /\ ~itemCompleted'[f]
      /\ \A s \in Slots : s # f => itemCompleted'[s] = itemCompleted[s]
      /\ UNCHANGED <<state, firstFragment, outstanding, task, enqueuePosition,
                    enqueueMutex, job, workerPc, item, served>>
  BY DEF Job
<1>2. Claimed(c) /\ \A d \in Callers : Claimed(d)' <=> Claimed(d)
  BY <1>1 DEF Claimed
<1>3. outstanding[f] = 0
  BY <1>1 DEF RingOK, EventOK
<1>4. \A w \in Workers : workerPc[w] = "signal" => served[w] # c
  BY <1>1 DEF RingOK, SignalOK
<1>5. Cursor' = Cursor
  BY <1>1 DEF Cursor
<1>6. \A d \in Callers : EnqueuerOK(d)' /\ FirstOK(d)'
  BY <1>1, <1>2, <1>5 DEF RingOK, EnqueuerOK, FirstOK
<1>7. \A d \in Callers : CountOK(d)'
  <2> TAKE d \in Callers
  <2>1. InRing(d)' = InRing(d) /\ AtWorkers(d)' = AtWorkers(d) /\ InHand(d)' = InHand(d)
    BY <1>1 DEF InRing, AtWorkers, InHand
  <2> QED
    BY <2>1, <1>1, <1>2 DEF RingOK, CountOK
<1>8. \A s, d : CarriesFor(s, d) => CarriesFor(s, d)'
  BY <1>1, <1>2, <1>5 DEF CarriesFor
<1>9. ReadyOK' /\ WorkersOK' /\ DistinctItems' /\ DistinctFirsts'
  BY <1>1, <1>2, <1>8 DEF RingOK, ReadyOK, WorkersOK, DistinctItems, DistinctFirsts
<1>10. SignalOK'
  <2> SUFFICES ASSUME NEW w \in Workers, workerPc[w] = "signal"
               PROVE  /\ ~itemCompleted'[job[served[w]].first]
                      /\ callerPc'[served[w]] # "freeFirst"
    BY <1>1 DEF RingOK, SignalOK
  <2>1. served[w] \in Callers /\ served[w] # c
    BY <1>4 DEF RingOK, WorkersOK, CarriesFor
  <2> QED
    BY <2>1, <1>1 DEF RingOK, SignalOK, Job
<1>11. EventOK'
  <2> SUFFICES ASSUME NEW s \in Slots, itemCompleted'[s]
               PROVE  \E d \in Callers : Claimed(d)' /\ job[d].first = s
                        /\ outstanding[s] = 0 /\ callerPc'[d] # "freeFirst"
    BY <1>1 DEF EventOK
  <2>1. s # f /\ itemCompleted[s]
    BY <1>1
  <2>2. PICK d \in Callers : Claimed(d) /\ job[d].first = s /\ outstanding[s] = 0
                            /\ callerPc[d] # "freeFirst"
    BY <2>1 DEF RingOK, EventOK
  <2> QED
    BY <2>1, <2>2, <1>1, <1>2
<1>12. EndedOK'
  BY <1>1, <1>3 DEF RingOK, EndedOK
<1> QED
  BY <1>6, <1>7, <1>9, <1>10, <1>11, <1>12 DEF RingOK

(* When its first work item is freed a request has no fragment any more.   *)
LEMMA FreeFirstRingOK ==
  ASSUME TypeOK, MutexOK, RingOK, NEW c \in Callers, FreeFirst(c)
  PROVE  RingOK'
<1> USE DEF TypeOK, MoveCaller, ringVars, workVars, FreeFirst
<1> DEFINE f == job[c].first
<1>1. /\ callerPc[c] = "freeFirst" /\ callerPc'[c] = "notifyFreed"
      /\ \A d \in Callers : d # c => callerPc'[d] = callerPc[d]
      /\ f \in Slots /\ state'[f] = "Free"
      /\ \A s \in Slots : s # f => state'[s] = state[s]
      /\ UNCHANGED <<firstFragment, outstanding, itemCompleted, task, enqueuePosition,
                    enqueueMutex, job, workerPc, item, served>>
  BY DEF Job
<1>2. /\ Claimed(c) /\ ~Claimed(c)'
      /\ \A d \in Callers : d # c => (Claimed(d)' <=> Claimed(d))
  BY <1>1 DEF Claimed
<1>3. outstanding[f] = 0 /\ state[f] # "Free" /\ task[f].owner = c
  BY <1>1, <1>2 DEF RingOK, EndedOK, FirstOK
<1>4. InRing(c) = {} /\ AtWorkers(c) = {}
  BY <1>2, <1>3, NothingLeft DEF RingOK
<1>5. /\ \A s \in Slots : state[s] = "Ready" => task[s].owner # c
      /\ \A w \in Workers : workerPc[w] \in WithTask \cup {"signal"} => served[w] # c
  BY <1>1, <1>4 DEF InRing, AtWorkers, RingOK, SignalOK
<1>6. state[f] # "Ready"
  BY <1>1, <1>3, <1>5
<1>7. Cursor' = Cursor
  BY <1>1 DEF Cursor
<1>8. \A d \in Callers : EnqueuerOK(d)'
  BY <1>1 DEF RingOK, EnqueuerOK
<1>9. \A d \in Callers : FirstOK(d)'
  <2>1. FirstOK(c)'
    BY <1>2 DEF FirstOK
  <2>2. ASSUME NEW d \in Callers, d # c, Claimed(d) PROVE FirstOK(d)'
    <3>1. job[d].first # f /\ job[d].first \in Slots
      BY <2>2, <1>2 DEF RingOK, DistinctFirsts, Job
    <3>2. \A s \in Slots : state'[s] = "Ready" => state[s] = "Ready"
      BY <1>1
    <3> QED
      BY <3>1, <3>2, <2>2, <1>1, <1>2, <1>7 DEF RingOK, FirstOK
  <2> QED
    BY <2>1, <2>2, <1>2 DEF FirstOK
<1>10. \A d \in Callers : CountOK(d)'
  <2> TAKE d \in Callers
  <2>1. d # c => InRing(d)' = InRing(d) /\ AtWorkers(d)' = AtWorkers(d) /\ InHand(d)' = InHand(d)
    BY <1>1, <1>6 DEF InRing, AtWorkers, InHand
  <2> QED
    BY <2>1, <1>1, <1>2 DEF RingOK, CountOK
<1>11. \A s, d : CarriesFor(s, d) /\ d # c => CarriesFor(s, d)'
  BY <1>1, <1>2, <1>7 DEF CarriesFor
<1>12. ReadyOK' /\ DistinctFirsts' /\ DistinctItems'
  BY <1>1, <1>2, <1>5, <1>11 DEF RingOK, ReadyOK, DistinctFirsts, DistinctItems
<1>13. WorkersOK'
  <2> SUFFICES ASSUME NEW w \in Workers
               PROVE  /\ workerPc[w] \in WithTask \cup {"signal"} => CarriesFor(item[w], served[w])'
                      /\ workerPc[w] \in {"run", "free"} => state'[item[w]] = "Busy"
    BY <1>1 DEF WorkersOK
  <2>1. workerPc[w] \in {"run", "free"} => item[w] # f
    BY <1>3, <1>5 DEF RingOK, WorkersOK, CarriesFor, WithTask
  <2>2. workerPc[w] \in WithTask \cup {"signal"} => CarriesFor(item[w], served[w])'
    BY <1>1, <1>5, <1>11 DEF RingOK, WorkersOK
  <2> QED
    BY <2>1, <2>2, <1>1 DEF RingOK, WorkersOK
<1>14. SignalOK'
  BY <1>1, <1>5 DEF RingOK, SignalOK
<1>15. EventOK'
  <2> SUFFICES ASSUME NEW s \in Slots, itemCompleted[s]
               PROVE  \E d \in Callers : Claimed(d)' /\ job[d].first = s
                        /\ outstanding[s] = 0 /\ callerPc'[d] # "freeFirst"
    BY <1>1 DEF EventOK
  <2>1. PICK d \in Callers : Claimed(d) /\ job[d].first = s /\ outstanding[s] = 0
                            /\ callerPc[d] # "freeFirst"
    BY DEF RingOK, EventOK
  <2> QED
    BY <2>1, <1>1, <1>2
<1>16. EndedOK'
  BY <1>1 DEF RingOK, EndedOK
<1> QED
  BY <1>8, <1>9, <1>10, <1>12, <1>13, <1>14, <1>15, <1>16 DEF RingOK

-----------------------------------------------------------------------------
(* The steps of a worker.                                                  *)

(* A worker takes a fragment out of the ring.                              *)
LEMMA TakeRingOK ==
  ASSUME TypeOK, MutexOK, RingOK, ~stopPending, NEW w \in Workers, Take(w)
  PROVE  RingOK'
<1> USE DEF TypeOK, MoveWorker, ringVars, callVars, Take
<1> DEFINE s == item[w]
           o == task[s].owner
<1>1. /\ workerPc[w] = "test" /\ workerPc'[w] = "run" /\ served'[w] = o
      /\ \A v \in Workers : v # w => workerPc'[v] = workerPc[v] /\ served'[v] = served[v]
      /\ s \in Slots /\ state[s] = "Ready" /\ state'[s] = "Busy"
      /\ \A r \in Slots : r # s => state'[r] = state[r]
      /\ UNCHANGED <<firstFragment, outstanding, itemCompleted, task, enqueuePosition,
                    enqueueMutex, callerPc, job, item>>
  OBVIOUS
<1>2. CarriesFor(s, o) /\ o \in Callers /\ Claimed(o)
  BY <1>1 DEF RingOK, ReadyOK, CarriesFor
<1>3. Cursor' = Cursor /\ \A d \in Callers : Claimed(d)' <=> Claimed(d)
  BY <1>1 DEF Cursor, Claimed
<1>4. \A d \in Callers : EnqueuerOK(d)'
  BY <1>1 DEF RingOK, EnqueuerOK
<1>5. \A d \in Callers : FirstOK(d)'
  <2> SUFFICES ASSUME NEW d \in Callers, Claimed(d) PROVE FirstOK(d)'
    BY <1>3 DEF FirstOK
  <2> DEFINE f == job[d].first
  <2>1. f \in Slots
    BY DEF Job
  <2>2. CASE state[f] # "Free"
    BY <2>1, <2>2, <1>1 DEF RingOK, FirstOK
  <2>3. CASE state[f] = "Free"
    <3>1. o # d /\ s # f
      BY <2>3, <1>1 DEF RingOK, FirstOK
    <3>2. /\ \A r \in Slots : state'[r] = "Ready" => task'[r].owner # d
          /\ \A v \in Workers : workerPc'[v] \in WithTask \cup {"signal"} => served'[v] # d
      BY <2>3, <3>1, <1>1 DEF RingOK, FirstOK
    <3>3. /\ state'[f] = "Free" /\ job'[d].first = f
          /\ callerPc[d] \in {"advance", "fill", "waitSlot"}
          /\ callerPc[d] = "advance" => job[d].left > 0
          /\ Cursor = f
      BY <2>1, <2>3, <3>1, <1>1 DEF RingOK, FirstOK
    <3> QED
      BY <3>2, <3>3, <1>1, <1>3 DEF FirstOK
  <2> QED
    BY <2>2, <2>3
<1>6. \A d \in Callers : CountOK(d)'
  <2>1. CountOK(o)'
    <3>1. InRing(o)' = InRing(o) \ {s} /\ s \in InRing(o)
      BY <1>1 DEF InRing
    <3>2. AtWorkers(o)' = AtWorkers(o) \cup {w} /\ w \notin AtWorkers(o)
      BY <1>1 DEF AtWorkers, WithTask
    <3>3. /\ Cardinality(InRing(o)') = Cardinality(InRing(o)) - 1
          /\ Cardinality(AtWorkers(o)') = Cardinality(AtWorkers(o)) + 1
      BY <3>1, <3>2, FiniteParts, OneMore, OneLess
    <3>4. InHand(o)' = InHand(o) /\ outstanding'[job'[o].first] = outstanding[job[o].first]
          /\ job'[o].left = job[o].left
      BY <1>1 DEF InHand
    <3>5. outstanding[job[o].first]
            = job[o].left + InHand(o) + Cardinality(InRing(o)) + Cardinality(AtWorkers(o))
      BY <1>2 DEF RingOK, CountOK
    <3>6. /\ job[o].left \in Int /\ InHand(o) \in {0, 1}
          /\ Cardinality(InRing(o)) \in Nat /\ Cardinality(AtWorkers(o)) \in Nat
      BY <1>2, CountsAreNat DEF Job
    <3>7. outstanding[job[o].first]
            = job[o].left + InHand(o) + (Cardinality(InRing(o)) - 1)
                + (Cardinality(AtWorkers(o)) + 1)
      BY <3>5, <3>6, OneTaken
    <3> QED
      BY <3>3, <3>4, <3>7 DEF CountOK
  <2>2. ASSUME NEW d \in Callers, d # o PROVE CountOK(d)'
    <3>1. InRing(d)' = InRing(d) /\ InHand(d)' = InHand(d)
      BY <2>2, <1>1 DEF InRing, InHand
    <3>2. AtWorkers(d)' = AtWorkers(d)
      BY <2>2, <1>1 DEF AtWorkers, WithTask
    <3> QED
      BY <3>1, <3>2, <1>1, <1>3 DEF RingOK, CountOK
  <2> QED
    BY <1>2, <2>1, <2>2
<1>7. \A r, d : CarriesFor(r, d) => CarriesFor(r, d)'
  BY <1>1, <1>3 DEF CarriesFor
<1>8. ReadyOK' /\ DistinctFirsts'
  BY <1>1, <1>3, <1>7 DEF RingOK, ReadyOK, DistinctFirsts
<1>9. WorkersOK'
  <2> SUFFICES ASSUME NEW v \in Workers
               PROVE  /\ workerPc'[v] \in WithTask \cup {"signal"} => CarriesFor(item[v], served[v])'
                      /\ workerPc'[v] \in {"run", "free"} => state'[item[v]] = "Busy"
    BY <1>1 DEF WorkersOK
  <2>1. CASE v = w
    BY <2>1, <1>1, <1>2, <1>7
  <2>2. CASE v # w
    BY <2>2, <1>1, <1>7 DEF RingOK, WorkersOK
  <2> QED
    BY <2>1, <2>2
<1>10. DistinctItems'
  <2>1. \A v \in Workers : workerPc[v] \in {"run", "free"} => item[v] # s
    BY <1>1 DEF RingOK, WorkersOK
  <2> QED
    BY <2>1, <1>1 DEF RingOK, DistinctItems
<1>11. SignalOK'
  BY <1>1 DEF RingOK, SignalOK
<1>12. EventOK' /\ EndedOK'
  BY <1>1, <1>3 DEF RingOK, EventOK, EndedOK
<1> QED
  BY <1>4, <1>5, <1>6, <1>8, <1>9, <1>10, <1>11, <1>12 DEF RingOK

(* The work item that a worker frees is not the first one of any request.  *)
LEMMA FreeFragmentRingOK ==
  ASSUME TypeOK, MutexOK, RingOK, NEW w \in Workers, FreeFragment(w)
  PROVE  RingOK'
<1> USE DEF TypeOK, MoveWorker, ringVars, callVars, FreeFragment
<1> DEFINE s == item[w]
           o == served[w]
<1>1. /\ workerPc[w] = "free" /\ workerPc'[w] = "notifyCompleted"
      /\ \A v \in Workers : v # w => workerPc'[v] = workerPc[v]
      /\ s \in Slots /\ s # firstFragment[s] /\ state'[s] = "Free"
      /\ \A r \in Slots : r # s => state'[r] = state[r]
      /\ UNCHANGED <<firstFragment, outstanding, itemCompleted, task, enqueuePosition,
                    enqueueMutex, callerPc, job, item, served>>
  OBVIOUS
<1>2. CarriesFor(s, o) /\ o \in Callers /\ Claimed(o) /\ state[s] = "Busy"
  BY <1>1 DEF RingOK, WorkersOK, CarriesFor, WithTask
<1>3. Cursor' = Cursor /\ \A d \in Callers : Claimed(d)' <=> Claimed(d)
  BY <1>1 DEF Cursor, Claimed
<1>4. \A d \in Callers : Claimed(d) => job[d].first # s
  BY <1>1, <1>2, SMTT(30) DEF RingOK, FirstOK, CarriesFor
<1>5. \A d \in Callers : EnqueuerOK(d)'
  BY <1>1 DEF RingOK, EnqueuerOK
<1>6. /\ \A r \in Slots : state'[r] = "Ready" => state[r] = "Ready"
      /\ \A v \in Workers : workerPc'[v] \in WithTask <=> workerPc[v] \in WithTask
      /\ \A v \in Workers : workerPc'[v] = "signal" => workerPc[v] = "signal" /\ v # w
  BY <1>1 DEF WithTask
<1>7. \A d \in Callers : FirstOK(d)'
  <2> SUFFICES ASSUME NEW d \in Callers, Claimed(d) PROVE FirstOK(d)'
    BY <1>3 DEF FirstOK
  <2>1. job[d].first \in Slots /\ job[d].first # s
    BY <1>4 DEF Job
  <2>2. state'[job[d].first] = state[job[d].first]
    BY <2>1, <1>1
  <2> QED
    BY <2>2, <1>1, <1>3, <1>6 DEF RingOK, FirstOK
<1>8. \A d \in Callers : CountOK(d)'
  <2> TAKE d \in Callers
  <2>1. InRing(d)' = InRing(d) /\ InHand(d)' = InHand(d)
    BY <1>1, <1>2 DEF InRing, InHand
  <2>2. AtWorkers(d)' = AtWorkers(d)
    BY <1>1, <1>6 DEF AtWorkers
  <2> QED
    BY <2>1, <2>2, <1>1, <1>3 DEF RingOK, CountOK
<1>9. \A r, d : CarriesFor(r, d) => CarriesFor(r, d)'
  BY <1>1, <1>3 DEF CarriesFor
<1>10. ReadyOK' /\ DistinctFirsts'
  BY <1>1, <1>3, <1>6, <1>9 DEF RingOK, ReadyOK, DistinctFirsts
<1>11. WorkersOK'
  <2> SUFFICES ASSUME NEW v \in Workers
               PROVE  /\ workerPc'[v] \in WithTask \cup {"signal"} => CarriesFor(item[v], served[v])'
                      /\ workerPc'[v] \in {"run", "free"} => state'[item[v]] = "Busy"
    BY <1>1 DEF WorkersOK
  <2>1. workerPc'[v] \in WithTask \cup {"signal"} => CarriesFor(item[v], served[v])'
    BY <1>1, <1>6, <1>9 DEF RingOK, WorkersOK
  <2>2. workerPc'[v] \in {"run", "free"} => item[v] # s /\ v # w
    BY <1>1 DEF RingOK, DistinctItems
  <2> QED
    BY <2>1, <2>2, <1>1 DEF RingOK, WorkersOK
<1>12. DistinctItems' /\ SignalOK' /\ EventOK' /\ EndedOK'
  BY <1>1, <1>3, <1>6 DEF RingOK, DistinctItems, SignalOK, EventOK, EndedOK
<1> QED
  BY <1>5, <1>7, <1>8, <1>10, <1>11, <1>12 DEF RingOK

(* The fragment that is counted is one of those the count stands for, and  *)
(* the worker that counts the last one is alone in signaling.              *)
LEMMA DecrementRingOK ==
  ASSUME TypeOK, MutexOK, RingOK, NEW w \in Workers, Decrement(w)
  PROVE  RingOK'
<1> USE DEF TypeOK, MoveWorker, ringVars, callVars, Decrement
<1> DEFINE f == firstFragment[item[w]]
           o == served[w]
<1>1. /\ workerPc[w] = "decrement"
      /\ workerPc'[w] = IF outstanding[f] = 1 THEN "signal" ELSE "loop"
      /\ \A v \in Workers : v # w => workerPc'[v] = workerPc[v]
      /\ f \in Slots /\ outstanding[f] \in Int /\ outstanding'[f] = outstanding[f] - 1
      /\ \A s \in Slots : s # f => outstanding'[s] = outstanding[s]
      /\ UNCHANGED <<state, firstFragment, itemCompleted, task, enqueuePosition,
                    enqueueMutex, callerPc, job, item, served>>
  OBVIOUS
<1>2. CarriesFor(item[w], o) /\ o \in Callers /\ Claimed(o) /\ f = job[o].first
  BY <1>1 DEF RingOK, WorkersOK, CarriesFor, WithTask
<1>3. Cursor' = Cursor /\ \A d \in Callers : Claimed(d)' <=> Claimed(d)
  BY <1>1 DEF Cursor, Claimed
<1>4. w \in AtWorkers(o)
  BY <1>1 DEF AtWorkers, WithTask
<1>5. outstanding[f] > 0
  BY <1>2, <1>4, CountIsPositive DEF RingOK
<1>6. \A d \in Callers : Claimed(d) /\ d # o => /\ job[d].first # f
                                               /\ outstanding'[job[d].first] = outstanding[job[d].first]
  BY <1>1, <1>2 DEF RingOK, DistinctFirsts, Job
<1>7. \A d \in Callers : EnqueuerOK(d)'
  BY <1>1 DEF RingOK, EnqueuerOK
<1>8. \A d \in Callers : FirstOK(d)'
  <2> SUFFICES ASSUME NEW d \in Callers, Claimed(d) PROVE FirstOK(d)'
    BY <1>3 DEF FirstOK
  <2>1. \A v \in Workers : workerPc'[v] \in WithTask \cup {"signal"}
                             => workerPc[v] \in WithTask \cup {"signal"}
    BY <1>1 DEF WithTask
  <2> QED
    BY <2>1, <1>1, <1>3 DEF RingOK, FirstOK
<1>9. \A d \in Callers : CountOK(d)'
  <2>1. \A d \in Callers : InRing(d)' = InRing(d) /\ InHand(d)' = InHand(d)
    BY <1>1 DEF InRing, InHand
  <2>2. CountOK(o)'
    <3>1. AtWorkers(o)' = AtWorkers(o) \ {w}
      BY <1>1 DEF AtWorkers, WithTask
    <3>2. Cardinality(AtWorkers(o)') = Cardinality(AtWorkers(o)) - 1
      BY <3>1, <1>4, FiniteParts, OneLess
    <3>3. outstanding[f]
            = job[o].left + InHand(o) + Cardinality(InRing(o)) + Cardinality(AtWorkers(o))
      BY <1>2 DEF RingOK, CountOK
    <3>4. /\ job[o].left \in Int /\ InHand(o) \in {0, 1}
          /\ Cardinality(InRing(o)) \in Nat /\ Cardinality(AtWorkers(o)) \in Nat
      BY <1>2, CountsAreNat DEF Job
    <3>5. (job[o].left + InHand(o) + Cardinality(InRing(o)) + Cardinality(AtWorkers(o))) - 1
            = job[o].left + InHand(o) + Cardinality(InRing(o)) + (Cardinality(AtWorkers(o)) - 1)
      BY <3>4, OneCounted
    <3>6. outstanding'[job'[o].first] = outstanding[f] - 1 /\ job'[o].left = job[o].left
      BY <1>1, <1>2
    <3> QED
      BY <2>1, <3>2, <3>3, <3>5, <3>6, <1>2 DEF CountOK
  <2>3. ASSUME NEW d \in Callers, d # o PROVE CountOK(d)'
    <3>1. AtWorkers(d)' = AtWorkers(d)
      BY <2>3, <1>1 DEF AtWorkers, WithTask
    <3> QED
      BY <3>1, <2>1, <2>3, <1>1, <1>3, <1>6 DEF RingOK, CountOK
  <2> QED
    BY <1>2, <2>2, <2>3
<1>10. \A s, d : CarriesFor(s, d) => CarriesFor(s, d)'
  BY <1>1, <1>3 DEF CarriesFor
<1>11. ReadyOK' /\ DistinctFirsts'
  BY <1>1, <1>3, <1>10 DEF RingOK, ReadyOK, DistinctFirsts
<1>12. WorkersOK' /\ DistinctItems'
  BY <1>1, <1>10 DEF RingOK, WorkersOK, DistinctItems, WithTask
<1>13. \A v \in Workers : workerPc[v] = "signal" => served[v] # o
  BY <1>2, <1>5 DEF RingOK, SignalOK
<1>14. SignalOK'
  <2> SUFFICES ASSUME NEW v \in Workers, workerPc'[v] = "signal"
               PROVE  /\ outstanding'[job[served[v]].first] = 0
                      /\ ~itemCompleted[job[served[v]].first]
                      /\ callerPc[served[v]] # "freeFirst"
                      /\ \A u \in Workers : workerPc'[u] = "signal" /\ served[u] = served[v] => u = v
    BY <1>1 DEF SignalOK
  <2>1. CASE v = w
    <3>1. outstanding[f] = 1 /\ outstanding'[f] = 0
      BY <2>1, <1>1
    <3>2. ~itemCompleted[f] /\ callerPc[o] # "freeFirst"
      BY <3>1, <1>1, <1>2 DEF RingOK, EventOK, EndedOK
    <3> QED
      BY <2>1, <3>1, <3>2, <1>1, <1>2, <1>13
  <2>2. CASE v # w
    <3>1. workerPc[v] = "signal" /\ served[v] # o /\ served[v] \in Callers /\ Claimed(served[v])
      BY <2>2, <1>1, <1>13 DEF RingOK, WorkersOK, CarriesFor
    <3> QED
      BY <3>1, <1>1, <1>6 DEF RingOK, SignalOK
  <2> QED
    BY <2>1, <2>2
<1>15. EventOK'
  <2> SUFFICES ASSUME NEW s \in Slots, itemCompleted[s]
               PROVE  \E d \in Callers : Claimed(d)' /\ job[d].first = s
                        /\ outstanding'[s] = 0 /\ callerPc[d] # "freeFirst"
    BY <1>1 DEF EventOK
  <2>1. PICK d \in Callers : Claimed(d) /\ job[d].first = s /\ outstanding[s] = 0
                            /\ callerPc[d] # "freeFirst"
    BY DEF RingOK, EventOK
  <2> QED
    BY <2>1, <1>1, <1>3, <1>5
<1>16. EndedOK'
  <2> SUFFICES ASSUME NEW d \in Callers, callerPc[d] = "freeFirst"
               PROVE  outstanding'[job[d].first] = 0
    BY <1>1 DEF EndedOK
  <2>1. Claimed(d) /\ outstanding[job[d].first] = 0
    BY DEF Claimed, RingOK, EndedOK
  <2> QED
    BY <2>1, <1>2, <1>5, <1>6
<1> QED
  BY <1>7, <1>8, <1>9, <1>11, <1>12, <1>14, <1>15, <1>16 DEF RingOK

(* The event is set in the first work item of the request the worker       *)
(* served, whose caller still waits.                                       *)
LEMMA SignalRingOK ==
  ASSUME TypeOK, MutexOK, RingOK, NEW w \in Workers, SignalItemCompleted(w)
  PROVE  RingOK'
<1> USE DEF TypeOK, MoveWorker, ringVars, callVars, SignalItemCompleted
<1> DEFINE f == firstFragment[item[w]]
           o == served[w]
<1>1. /\ workerPc[w] = "signal" /\ workerPc'[w] = "loop"
      /\ \A v \in Workers : v # w => workerPc'[v] = workerPc[v]
      /\ f \in Slots /\ itemCompleted'[f]
      /\ \A s \in Slots : s # f => itemCompleted'[s] = itemCompleted[s]
      /\ UNCHANGED <<state, firstFragment, outstanding, task, enqueuePosition,
                    enqueueMutex, callerPc, job, item, served>>
  OBVIOUS
<1>2. o \in Callers /\ Claimed(o) /\ f = job[o].first
  BY <1>1 DEF RingOK, WorkersOK, CarriesFor
<1>3. outstanding[f] = 0 /\ callerPc[o] # "freeFirst"
  BY <1>1, <1>2 DEF RingOK, SignalOK
<1>4. Cursor' = Cursor /\ \A d \in Callers : Claimed(d)' <=> Claimed(d)
  BY <1>1 DEF Cursor, Claimed
<1>5. \A d \in Callers : EnqueuerOK(d)'
  BY <1>1 DEF RingOK, EnqueuerOK
<1>6. \A d \in Callers : FirstOK(d)'
  <2>1. \A v \in Workers : workerPc'[v] \in WithTask \cup {"signal"}
                             => workerPc[v] \in WithTask \cup {"signal"}
    BY <1>1 DEF WithTask
  <2> QED
    BY <2>1, <1>1, <1>4 DEF RingOK, FirstOK
<1>7. \A d \in Callers : CountOK(d)'
  <2> TAKE d \in Callers
  <2>1. InRing(d)' = InRing(d) /\ InHand(d)' = InHand(d)
    BY <1>1 DEF InRing, InHand
  <2>2. AtWorkers(d)' = AtWorkers(d)
    BY <1>1 DEF AtWorkers, WithTask
  <2> QED
    BY <2>1, <2>2, <1>1, <1>4 DEF RingOK, CountOK
<1>8. \A s, d : CarriesFor(s, d) => CarriesFor(s, d)'
  BY <1>1, <1>4 DEF CarriesFor
<1>9. ReadyOK' /\ DistinctFirsts'
  BY <1>1, <1>4, <1>8 DEF RingOK, ReadyOK, DistinctFirsts
<1>10. WorkersOK' /\ DistinctItems'
  BY <1>1, <1>8 DEF RingOK, WorkersOK, DistinctItems, WithTask
<1>11. SignalOK'
  <2> SUFFICES ASSUME NEW v \in Workers, v # w, workerPc[v] = "signal"
               PROVE  ~itemCompleted'[job[served[v]].first]
    BY <1>1 DEF RingOK, SignalOK
  <2>1. served[v] # o /\ served[v] \in Callers /\ Claimed(served[v])
    BY <1>1 DEF RingOK, SignalOK, WorkersOK, CarriesFor
  <2>2. job[served[v]].first # f /\ job[served[v]].first \in Slots
    BY <2>1, <1>2 DEF RingOK, DistinctFirsts, Job
  <2> QED
    BY <2>2, <1>1 DEF RingOK, SignalOK
<1>12. EventOK'
  <2> SUFFICES ASSUME NEW s \in Slots, itemCompleted'[s]
               PROVE  \E d \in Callers : Claimed(d)' /\ job[d].first = s
                        /\ outstanding[s] = 0 /\ callerPc[d] # "freeFirst"
    BY <1>1 DEF EventOK
  <2>1. CASE s = f
    BY <2>1, <1>2, <1>3, <1>4
  <2>2. CASE s # f
    BY <2>2, <1>1, <1>4 DEF RingOK, EventOK
  <2> QED
    BY <2>1, <2>2
<1>13. EndedOK'
  BY <1>1 DEF RingOK, EndedOK
<1> QED
  BY <1>5, <1>6, <1>7, <1>9, <1>10, <1>11, <1>12, <1>13 DEF RingOK

(* The other steps of a worker do not change what it carries.              *)
LEMMA WorkRingOK ==
  ASSUME TypeOK, MutexOK, RingOK, Serving, NEW w \in Workers, Work(w)
  PROVE  RingOK'
<1> USE DEF MoveWorker, WithTask, ringVars
<1>1. CASE Loop(w)
  <2>1. workerPc' = [workerPc EXCEPT ![w] = "lock"] /\ item' = [item EXCEPT ![w] = item[w]]
    BY <1>1 DEF Loop, Serving, TypeOK
  <2> QED
    BY <1>1, <2>1, WorkerFrame DEF Loop
<1>2. CASE LockDequeue(w)
  BY <1>2, WorkerFrame DEF LockDequeue
<1>3. CASE TestReady(w) \/ WaitReady(w) \/ Run(w) \/ NotifyCompleted(w) \/ KeepFirstFragment(w)
  <2>1. item' = [item EXCEPT ![w] = item[w]]
    BY <1>3 DEF TestReady, WaitReady, Run, NotifyCompleted, KeepFirstFragment, TypeOK
  <2>2. CASE TestReady(w)
    BY <2>1, <2>2, WorkerFrame DEF TestReady
  <2>3. CASE WaitReady(w)
    BY <2>1, <2>3, WorkerFrame DEF WaitReady
  <2>4. CASE Run(w)
    BY <2>1, <2>4, WorkerFrame DEF Run
  <2>5. CASE NotifyCompleted(w)
    BY <2>1, <2>5, WorkerFrame DEF NotifyCompleted
  <2>6. CASE KeepFirstFragment(w)
    BY <2>1, <2>6, WorkerFrame DEF KeepFirstFragment
  <2> QED
    BY <1>3, <2>2, <2>3, <2>4, <2>5, <2>6
<1>4. CASE ExitWorker(w)
  BY <1>4 DEF ExitWorker, Serving
<1>5. CASE Take(w)
  BY <1>5, TakeRingOK DEF Serving
<1>6. CASE FreeFragment(w)
  BY <1>6, FreeFragmentRingOK
<1>7. CASE Decrement(w)
  BY <1>7, DecrementRingOK
<1>8. CASE SignalItemCompleted(w)
  BY <1>8, SignalRingOK
<1> QED
  BY <1>1, <1>2, <1>3, <1>4, <1>5, <1>6, <1>7, <1>8 DEF Work

-----------------------------------------------------------------------------
(* The steps of a caller, together.                                        *)

LEMMA EnqueueRingOK ==
  ASSUME TypeOK, MutexOK, RingOK, NEW c \in Callers, Enqueue(c)
  PROVE  RingOK'
<1> USE DEF ringVars
<1>1. CASE LockEnqueue(c)
  BY <1>1, LockEnqueueRingOK
<1>2. CASE TestItem(c, job[c].first, "claimFirst", "waitFirst")
  BY <1>2, MoveRingOK DEF TestItem
<1>3. CASE WaitForItem(c, "waitFirst", "claimFirst")
  BY <1>3, MoveRingOK DEF WaitForItem
<1>4. CASE ClaimFirst(c)
  BY <1>4, ClaimFirstRingOK
<1>5. CASE Advance(c)
  BY <1>5, AdvanceRingOK
<1>6. CASE TestItem(c, job[c].slot, "fill", "waitSlot")
  BY <1>6, MoveRingOK DEF TestItem
<1>7. CASE WaitForItem(c, "waitSlot", "fill")
  BY <1>7, MoveRingOK DEF WaitForItem
<1>8. CASE Fill(c)
  BY <1>8, FillRingOK
<1>9. CASE NotifyReady(c)
  BY <1>9, MoveRingOK DEF NotifyReady
<1>10. CASE UnlockEnqueue(c)
  <2>1. enqueueMutex = c
    BY <1>10 DEF UnlockEnqueue, MoveCaller, MutexOK, Enqueuing
  <2> QED
    BY <1>10, <2>1, MoveRingOK DEF UnlockEnqueue
<1> QED
  BY <1>1, <1>2, <1>3, <1>4, <1>5, <1>6, <1>7, <1>8, <1>9, <1>10 DEF Enqueue

LEMMA CompleteRingOK ==
  ASSUME TypeOK, MutexOK, RingOK, NEW c \in Callers, Complete(c)
  PROVE  RingOK'
<1>1. CASE NotifyFreed(c)
  BY <1>1, MoveRingOK DEF NotifyFreed, ringVars
<1> QED
  BY <1>1, WaitItemCompletedRingOK, FreeFirstRingOK, ReturnRingOK DEF Complete

(* A pool that starts has an empty ring and no request.                    *)
LEMMA StartRingOK ==
  ASSUME TypeOK, StoppedOK, Start
  PROVE  RingOK'
<1> USE DEF Start, TypeOK, callVars
<1>1. \A c \in Callers : callerPc'[c] \in {"idle", "done"} /\ job'[c].left >= 0
  BY DEF StoppedOK, Serving
<1>2. \A w \in Workers : workerPc'[w] = "loop"
  OBVIOUS
<1>3. \A s \in Slots : state'[s] = "Free" /\ itemCompleted'[s] = FALSE
  BY DEF Each
<1>4. \A c \in Callers : ~Claimed(c)'
  BY <1>1 DEF Claimed
<1>5. \A c \in Callers : EnqueuerOK(c)' /\ FirstOK(c)' /\ CountOK(c)'
  BY <1>1, <1>4 DEF EnqueuerOK, FirstOK, CountOK
<1>6. DistinctFirsts' /\ EndedOK'
  BY <1>1, <1>4 DEF DistinctFirsts, EndedOK
<1>7. ReadyOK' /\ EventOK'
  BY <1>3 DEF ReadyOK, EventOK
<1>8. WorkersOK' /\ DistinctItems' /\ SignalOK'
  BY <1>2 DEF WorkersOK, DistinctItems, SignalOK, WithTask
<1> QED
  BY <1>5, <1>6, <1>7, <1>8 DEF RingOK

LEMMA StepRingOK ==
  ASSUME TypeOK, StoppedOK, MutexOK, Serving => RingOK, Next, Serving'
  PROVE  RingOK'
<1>1. CASE Start
  BY <1>1, StartRingOK
<1>2. CASE BeginStop \/ EndStop
  BY <1>2 DEF BeginStop, EndStop, Serving
<1>3. ASSUME NEW c \in Callers, Request(c) \/ Enqueue(c) \/ Complete(c) PROVE RingOK'
  <2>1. UNCHANGED poolVars
    BY <1>3 DEF Request, DoWorkInline, DoWork, Enqueue, LockEnqueue, TestItem, WaitForItem,
      ClaimFirst, Advance, Fill, NotifyReady, UnlockEnqueue, Complete, WaitItemCompleted,
      FreeFirst, NotifyFreed, Return
  <2>2. RingOK
    BY <2>1 DEF poolVars, Serving
  <2> QED
    BY <1>3, <2>2, RequestRingOK, EnqueueRingOK, CompleteRingOK
<1>4. ASSUME NEW w \in Workers, Work(w) PROVE RingOK'
  <2>1. UNCHANGED poolVars
    BY <1>4 DEF Work, Loop, LockDequeue, TestReady, WaitReady, Take, ExitWorker, Run,
      FreeFragment, KeepFirstFragment, NotifyCompleted, Decrement, SignalItemCompleted
  <2>2. Serving /\ RingOK
    BY <2>1 DEF poolVars, Serving
  <2> QED
    BY <1>4, <2>2, WorkRingOK
<1> QED
  BY <1>1, <1>2, <1>3, <1>4 DEF Next

LEMMA StutterIInv == IInv /\ UNCHANGED vars => IInv'
<1> SUFFICES ASSUME IInv, UNCHANGED vars PROVE IInv'
  OBVIOUS
<1> USE DEF vars, itemVars, ringVars, poolVars, callVars, workVars
<1>1. TypeOK'
  BY StutterTypeOK DEF IInv
<1>2. StoppedOK' /\ MutexOK' /\ (Serving' <=> Serving)
  BY DEF IInv, StoppedOK, MutexOK, Serving
<1>3. Cursor' = Cursor /\ \A d : Claimed(d)' <=> Claimed(d)
  BY DEF Cursor, Claimed
<1>4. \A d : /\ InRing(d)' = InRing(d) /\ AtWorkers(d)' = AtWorkers(d)
             /\ InHand(d)' = InHand(d)
  BY DEF InRing, AtWorkers, InHand
<1>5. \A d : /\ EnqueuerOK(d) => EnqueuerOK(d)'
             /\ FirstOK(d) => FirstOK(d)'
             /\ CountOK(d) => CountOK(d)'
  BY <1>3, <1>4 DEF EnqueuerOK, FirstOK, CountOK
<1>6. \A s, d : CarriesFor(s, d) => CarriesFor(s, d)'
  BY <1>3 DEF CarriesFor
<1>7. RingOK => RingOK'
  <2> SUFFICES ASSUME RingOK PROVE RingOK'
    OBVIOUS
  <2>1. \A d \in Callers : EnqueuerOK(d)' /\ FirstOK(d)' /\ CountOK(d)'
    BY <1>5 DEF RingOK
  <2>2. DistinctFirsts' /\ EndedOK' /\ EventOK' /\ SignalOK' /\ DistinctItems'
    BY <1>3 DEF RingOK, DistinctFirsts, EndedOK, EventOK, SignalOK, DistinctItems
  <2>3. ReadyOK' /\ WorkersOK'
    BY <1>6 DEF RingOK, ReadyOK, WorkersOK
  <2> QED
    BY <2>1, <2>2, <2>3 DEF RingOK
<1> QED
  BY <1>1, <1>2, <1>7 DEF IInv

LEMMA StepIInv == IInv /\ [Next]_vars => IInv'
<1> SUFFICES ASSUME IInv, Next PROVE IInv'
  BY StutterIInv
<1>1. TypeOK'
  BY StepTypeOK DEF IInv
<1>2. StoppedOK' /\ MutexOK'
  BY StepStoppedOK, StepMutexOK DEF IInv
<1>3. Serving' => RingOK'
  BY StepRingOK DEF IInv
<1> QED
  BY <1>1, <1>2, <1>3 DEF IInv

(* A worker that has not counted its fragment keeps the request alive, and *)
(* one that has the event to set keeps its caller waiting for it.          *)
LEMMA IInvStable == IInv => FirstFragmentStable
<1> SUFFICES ASSUME IInv, NEW w \in Workers, workerPc[w] \in FollowsPointer
             PROVE  /\ served[w] \in Callers
                    /\ callerPc[served[w]] \in (Enqueuing \ {"lock"}) \cup {"wait"}
                    /\ firstFragment[item[w]] = job[served[w]].first
  BY DEF FirstFragmentStable
<1> DEFINE o == served[w]
<1>1. RingOK
  BY DEF IInv, StoppedOK, FollowsPointer
<1>2. CarriesFor(item[w], o) /\ o \in Callers /\ Claimed(o) /\ firstFragment[item[w]] = job[o].first
  BY <1>1 DEF RingOK, WorkersOK, CarriesFor, FollowsPointer, WithTask
<1>3. callerPc[o] # "freeFirst"
  <2>1. CASE workerPc[w] = "signal"
    BY <2>1, <1>1 DEF RingOK, SignalOK
  <2>2. CASE workerPc[w] # "signal"
    <3>1. w \in AtWorkers(o)
      BY <2>2 DEF AtWorkers, FollowsPointer, WithTask
    <3>2. outstanding[job[o].first] # 0
      BY <3>1, <1>1, <1>2, NothingLeft DEF RingOK, IInv
    <3> QED
      BY <3>2, <1>1, <1>2 DEF RingOK, EndedOK
  <2> QED
    BY <2>1, <2>2
<1> QED
  BY <1>2, <1>3 DEF Claimed, Enqueuing

(* FirstFragmentStable holds for any number of callers, of workers and of  *)
(* work items (at least as many as workers), and requests of any size: a   *)
(* work item that EncryptionThreadProc has freed is not reused before the  *)
(* worker is done with the pointer it reads from it.                       *)
THEOREM PointerStability == Spec => []FirstFragmentStable
  BY InitIInv, StepIInv, IInvStable, PTL DEF Spec

-----------------------------------------------------------------------------
(***************************************************************************)
(* The pool implements DataUnitService: every data unit of a request is    *)
(* transformed once before EncryptionThreadPoolDoWork returns.             *)
(*                                                                         *)
(* The argument: the division of the request puts the units before         *)
(* job.unit into fragments that do not overlap (CoverOK), and those from   *)
(* there on are what is left to place (DivisionOK).  A unit is transformed *)
(* exactly when its fragment is neither in the ring nor with a worker that *)
(* has yet to run it.                                                      *)
(***************************************************************************)

(* The length of the shorter fragments of a request for n units.           *)
Base(n) == IF n <= ThreadCount THEN 1 ELSE n \div ThreadCount

Working(c) == callerPc[c] \in Enqueuing \cup {"wait"}
Ended(c) == callerPc[c] \in {"freeFirst", "notifyFreed"}

(* Fragments of the request that are still to be placed in the ring.       *)
ToPlace(c) == job[c].left + InHand(c)

(* Those that are placed end where the others begin, and there are as many *)
(* long ones left as the remainder says.                                   *)
DivisionOK(c) ==
  /\ job[c].units \in 1 .. MaxUnits /\ job[c].unit \in Nat /\ ToPlace(c) \in Nat
  /\ job[c].remainder \in 0 .. ToPlace(c)
  /\ job[c].size = Base(job[c].units) + (IF job[c].remainder > 0 THEN 1 ELSE 0)
  /\ job[c].unit + ToPlace(c) * Base(job[c].units) + job[c].remainder = job[c].units

(* The work items whose fragment nobody has run.                           *)
Running(s) == \E w \in Workers : workerPc[w] = "run" /\ item[w] = s
Pending(c) == {s \in Slots : task[s].owner = c /\ (state[s] = "Ready" \/ Running(s))}
Waits(c, u) == \E s \in Pending(c) : u \in TaskUnits(task[s])

CoverOK(c) ==
  /\ \A s \in Pending(c) : TaskUnits(task[s]) \subseteq 0 .. job[c].unit - 1
  /\ \A s, r \in Pending(c) : s # r => TaskUnits(task[s]) \cap TaskUnits(task[r]) = {}
  /\ \A u \in Units : touched[c][u] = IF u < job[c].unit /\ ~Waits(c, u) THEN 1 ELSE 0

AllTouched(c) == \A u \in Units : u < job[c].units => touched[c][u] = 1

Covered(c) ==
  /\ Working(c) => DivisionOK(c) /\ CoverOK(c)
  /\ Ended(c) => AllTouched(c)

IdleOK == \A c \in Callers : callerPc[c] = "idle" => touched[c] = [u \in Units |-> 0]

CoverInv == IdleOK /\ (Serving => \A c \in Callers : Covered(c))

-----------------------------------------------------------------------------
(* The division.                                                           *)

LEMMA DivisionWithRest ==
  ASSUME NEW n \in Nat, NEW m \in Nat, m > 0
  PROVE  /\ n \div m \in Nat /\ n % m \in 0 .. m - 1
         /\ n = m * (n \div m) + (n % m)
<1>1. n % m \in 0 .. m - 1
  OBVIOUS
<1>2. n \div m \in Nat
  OBVIOUS
<1>3. n = m * (n \div m) + (n % m)
  OBVIOUS
<1> QED BY <1>1, <1>2, <1>3

LEMMA DivisionStarts ==
  ASSUME NEW n \in 1 .. MaxUnits
  PROVE  /\ FragmentCount(n) \in Nat /\ Base(n) \in Nat
         /\ Remainder(n) \in 0 .. FragmentCount(n)
         /\ UnitsPerFragment(n) = Base(n) + (IF Remainder(n) > 0 THEN 1 ELSE 0)
         /\ FragmentCount(n) * Base(n) + Remainder(n) = n
<1>1. n \in Nat /\ n > 0 /\ ThreadCount \in Nat /\ ThreadCount > 0
  BY ThreadCountIsNat, MaxUnitsAssumption
<1> HIDE DEF ThreadCount
<1>2. CASE n <= ThreadCount
  BY <1>1, <1>2 DEF FragmentCount, Base, Remainder, UnitsPerFragment
<1>3. CASE ~(n <= ThreadCount)
  <2>1. /\ n \div ThreadCount \in Nat /\ n % ThreadCount \in 0 .. ThreadCount - 1
        /\ n = ThreadCount * (n \div ThreadCount) + (n % ThreadCount)
    BY <1>1, DivisionWithRest
  <2> QED BY <1>1, <1>3, <2>1 DEF FragmentCount, Base, Remainder, UnitsPerFragment
<1> QED BY <1>2, <1>3

LEMMA BaseIsNat ==
  ASSUME NEW n \in 1 .. MaxUnits
  PROVE  Base(n) \in Nat
  BY DivisionStarts

LEMMA DivisionGoesOn ==
  ASSUME NEW k \in Nat, NEW b \in Nat, NEW r \in 0 .. k + 1, NEW unit \in Nat, NEW units \in Nat,
         NEW size, size = b + (IF r > 0 THEN 1 ELSE 0),
         unit + (k + 1) * b + r = units
  PROVE  /\ (IF r > 0 THEN r - 1 ELSE 0) \in 0 .. k
         /\ (IF r = 1 THEN size - 1 ELSE size) =
              b + (IF (IF r > 0 THEN r - 1 ELSE 0) > 0 THEN 1 ELSE 0)
         /\ (unit + size) + k * b + (IF r > 0 THEN r - 1 ELSE 0) = units
         /\ size \in Nat /\ unit + size \in Nat
<1>1. k * b \in Nat /\ (k + 1) * b = k * b + b
  OBVIOUS
<1> QED BY <1>1

(* No fragment reaches behind the request.                                 *)
LEMMA DivisionBound ==
  ASSUME NEW c \in Callers, DivisionOK(c)
  PROVE  job[c].unit <= job[c].units /\ job[c].unit - 1 \in Int /\ job[c].units \in Nat
<1>1. ToPlace(c) \in Nat /\ Base(job[c].units) \in Nat /\ job[c].remainder \in Nat
      /\ job[c].unit \in Nat /\ job[c].units \in Nat
  BY BaseIsNat, MaxUnitsAssumption DEF DivisionOK
<1>2. ToPlace(c) * Base(job[c].units) \in Nat
  BY <1>1
<1> QED BY <1>1, <1>2 DEF DivisionOK

-----------------------------------------------------------------------------
(* Steps that leave fragments alone.                                       *)

LEMMA SameCover ==
  ASSUME NEW d \in Callers, Covered(d),
         Working(d)' <=> Working(d), Ended(d)' <=> Ended(d),
         job'[d].units = job[d].units, job'[d].unit = job[d].unit,
         job'[d].size = job[d].size, job'[d].remainder = job[d].remainder,
         ToPlace(d)' = ToPlace(d), Pending(d)' = Pending(d),
         \A s \in Pending(d) : task'[s] = task[s],
         touched'[d] = touched[d]
  PROVE  Covered(d)'
<1>1. Ended(d)' => AllTouched(d)'
  BY DEF Covered, AllTouched
<1>2. Working(d)' => DivisionOK(d)'
  BY DEF Covered, DivisionOK
<1>3. Working(d)' => CoverOK(d)'
  <2> SUFFICES ASSUME Working(d)' PROVE CoverOK(d)'
    OBVIOUS
  <2>1. CoverOK(d)
    BY DEF Covered
  <2>2. \A s \in Pending(d)' : TaskUnits(task[s])' = TaskUnits(task[s])
    BY DEF TaskUnits
  <2>3. \A u \in Units : Waits(d, u)' <=> Waits(d, u)
    BY <2>2 DEF Waits
  <2> QED BY <2>1, <2>2, <2>3 DEF CoverOK
<1> QED BY <1>1, <1>2, <1>3 DEF Covered

(* The other callers, in a step of one.                                    *)
LEMMA OtherCallers ==
  ASSUME TypeOK, NEW c \in Callers, NEW p, NEW j, \A d \in Callers : Covered(d),
         callerPc' = [callerPc EXCEPT ![c] = p], job' = [job EXCEPT ![c] = j],
         \A d \in Callers : d # c =>
           /\ Pending(d)' = Pending(d) /\ touched'[d] = touched[d]
           /\ \A s \in Pending(d) : task'[s] = task[s]
  PROVE  \A d \in Callers : d # c => Covered(d)'
<1> TAKE d \in Callers
<1> HAVE d # c
<1>1. callerPc'[d] = callerPc[d] /\ job'[d] = job[d]
  BY DEF TypeOK
<1> QED BY <1>1, SameCover DEF Working, Ended, ToPlace, InHand

LEMMA SamePending ==
  ASSUME UNCHANGED <<itemVars, workVars>>
  PROVE  \A d : Pending(d)' = Pending(d) /\ \A s \in Pending(d) : task'[s] = task[s]
  BY DEF Pending, Running, itemVars, workVars

(* A step of a caller in the course of its request.                        *)
LEMMA CallerCover ==
  ASSUME TypeOK, NEW c \in Callers, NEW p, NEW j, \A d \in Callers : Covered(d),
         callerPc' = [callerPc EXCEPT ![c] = p], job' = [job EXCEPT ![c] = j],
         \A d \in Callers : Pending(d)' = Pending(d) /\ \A s \in Pending(d) : task'[s] = task[s],
         touched' = touched,
         Working(c) /\ p \in Enqueuing \cup {"wait"},
         j.units = job[c].units, j.unit = job[c].unit, j.size = job[c].size,
         j.remainder = job[c].remainder,
         j.left + (IF p \in {"fill", "waitSlot"} THEN 1 ELSE 0) = ToPlace(c)
  PROVE  \A d \in Callers : Covered(d)'
<1>1. callerPc'[c] = p /\ job'[c] = j
  BY DEF TypeOK
<1>2. Working(c)' /\ ~Ended(c)' /\ ~Ended(c) /\ ToPlace(c)' = ToPlace(c)
  BY <1>1 DEF Working, Ended, ToPlace, InHand, Enqueuing
<1>3. Covered(c)'
  BY <1>1, <1>2, SameCover
<1> QED BY <1>3, OtherCallers

(* A step of a worker that leaves the pending fragments as they are.       *)
LEMMA WorkerCover ==
  ASSUME \A d \in Callers : Covered(d),
         UNCHANGED <<callVars, task, touched>>,
         \A d \in Callers : Pending(d)' = Pending(d)
  PROVE  \A d \in Callers : Covered(d)'
<1> TAKE d \in Callers
<1>1. UNCHANGED <<callerPc, job, task, touched>>
  BY DEF callVars
<1>2. (Working(d)' <=> Working(d)) /\ (Ended(d)' <=> Ended(d)) /\ ToPlace(d)' = ToPlace(d)
  BY <1>1 DEF Working, Ended, ToPlace, InHand
<1> QED BY <1>1, <1>2, SameCover

LEMMA QuietWorker ==
  ASSUME TypeOK, NEW w \in Workers, NEW p, NEW i,
         workerPc' = [workerPc EXCEPT ![w] = p], item' = [item EXCEPT ![w] = i],
         p # "run", workerPc[w] # "run", UNCHANGED <<state, task>>
  PROVE  \A d : Pending(d)' = Pending(d)
<1>1. \A s : Running(s)' <=> Running(s)
  BY DEF TypeOK, Running
<1> QED BY <1>1 DEF Pending

-----------------------------------------------------------------------------
(* Enqueueing.                                                             *)

LEMMA EnqueueMovesCover ==
  ASSUME IInv, Serving, \A d \in Callers : Covered(d), NEW c \in Callers,
         \/ LockEnqueue(c)
         \/ TestItem(c, job[c].first, "claimFirst", "waitFirst")
         \/ WaitForItem(c, "waitFirst", "claimFirst")
         \/ ClaimFirst(c)
         \/ Advance(c)
         \/ TestItem(c, job[c].slot, "fill", "waitSlot")
         \/ WaitForItem(c, "waitSlot", "fill")
         \/ NotifyReady(c)
         \/ UnlockEnqueue(c)
  PROVE  \A d \in Callers : Covered(d)'
<1>1. TypeOK /\ job[c] \in Job /\ job = [job EXCEPT ![c] = job[c]]
      /\ [job[c] EXCEPT !.first = enqueuePosition] \in Job
      /\ InSlot(job[c], enqueuePosition) \in Job
  BY AdvancedJobIsJob DEF IInv, TypeOK
<1>2. PICK p, j :
        /\ callerPc' = [callerPc EXCEPT ![c] = p] /\ job' = [job EXCEPT ![c] = j]
        /\ Working(c) /\ p \in Enqueuing \cup {"wait"}
        /\ j.units = job[c].units /\ j.unit = job[c].unit /\ j.size = job[c].size
        /\ j.remainder = job[c].remainder
        /\ j.left + (IF p \in {"fill", "waitSlot"} THEN 1 ELSE 0) = ToPlace(c)
  <2>l. ASSUME LockEnqueue(c)
        PROVE  /\ callerPc' = [callerPc EXCEPT ![c] = "claimFirst"] /\ callerPc[c] = "lock"
               /\ job' = [job EXCEPT ![c] = [job[c] EXCEPT !.first = enqueuePosition]]
    BY <2>l DEF LockEnqueue, MoveCaller
  <2>a. ASSUME Advance(c)
        PROVE  /\ callerPc' = [callerPc EXCEPT ![c] = "fill"] /\ callerPc[c] = "advance"
               /\ job' = [job EXCEPT ![c] = InSlot(job[c], enqueuePosition)]
    BY <2>a DEF Advance, MoveCaller
  <2> USE DEF Working, Enqueuing, ToPlace, InHand, MoveCaller, Job
  <2>1. CASE LockEnqueue(c)
    BY <2>1, <2>l, <1>1
  <2>2. CASE Advance(c)
    <3> DEFINE j == InSlot(job[c], enqueuePosition)
    <3>1. /\ j.units = job[c].units /\ j.unit = job[c].unit /\ j.size = job[c].size
          /\ j.remainder = job[c].remainder /\ j.left = job[c].left - 1
          /\ job[c].left \in Int
      BY <1>1 DEF InSlot
    <3>2. j.left + 1 = ToPlace(c) /\ Working(c)
      BY <3>1, <2>2, <2>a
    <3>3. job' = [job EXCEPT ![c] = j] /\ callerPc' = [callerPc EXCEPT ![c] = "fill"]
      BY <2>2, <2>a
    <3> HIDE DEF j
    <3> QED BY <3>1, <3>2, <3>3
  <2>3. CASE \/ TestItem(c, job[c].first, "claimFirst", "waitFirst")
             \/ WaitForItem(c, "waitFirst", "claimFirst") \/ ClaimFirst(c)
             \/ TestItem(c, job[c].slot, "fill", "waitSlot")
             \/ WaitForItem(c, "waitSlot", "fill") \/ NotifyReady(c) \/ UnlockEnqueue(c)
    <3>1. PICK p : /\ callerPc' = [callerPc EXCEPT ![c] = p] /\ job' = job
                   /\ \/ callerPc[c] \in {"claimFirst", "waitFirst", "notifyReady", "advance"}
                         /\ p \in {"claimFirst", "waitFirst", "advance", "wait"}
                      \/ callerPc[c] \in {"fill", "waitSlot"} /\ p \in {"fill", "waitSlot"}
      BY <2>3 DEF TestItem, WaitForItem, ClaimFirst, NotifyReady, UnlockEnqueue
    <3> QED BY <3>1, <1>1
  <2> QED BY <2>1, <2>2, <2>3
<1>3. UNCHANGED <<state, task, workVars, touched>>
  BY DEF LockEnqueue, TestItem, WaitForItem, ClaimFirst, Advance, NotifyReady, UnlockEnqueue,
     itemVars
<1>4. \A d : Pending(d)' = Pending(d) /\ \A s \in Pending(d) : task'[s] = task[s]
  BY <1>3 DEF Pending, Running, workVars
<1> QED BY <1>1, <1>2, <1>3, <1>4, CallerCover

(* The slots of workers that are to run a fragment hold that fragment.     *)
LEMMA RunningIsBusy ==
  ASSUME IInv, Serving, NEW s \in Slots, Running(s)
  PROVE  /\ state[s] = "Busy"
         /\ \E w \in Workers : /\ workerPc[w] = "run" /\ item[w] = s
                               /\ served[w] = task[s].owner /\ w \in AtWorkers(task[s].owner)
         /\ task[s].owner \in Callers /\ Claimed(task[s].owner)
<1>1. PICK w \in Workers : workerPc[w] = "run" /\ item[w] = s
  BY DEF Running
<1>2. CarriesFor(s, served[w]) /\ state[s] = "Busy"
  BY <1>1 DEF IInv, RingOK, WorkersOK, WithTask
<1> QED BY <1>1, <1>2 DEF CarriesFor, AtWorkers, WithTask

(* A pending fragment is one that the request counts.                      *)
LEMMA PendingCounts ==
  ASSUME IInv, Serving, NEW c, NEW s \in Pending(c)
  PROVE  /\ InRing(c) # {} \/ AtWorkers(c) # {}
         /\ c \in Callers /\ Claimed(c)
<1>1. s \in Slots /\ task[s].owner = c /\ (state[s] = "Ready" \/ Running(s))
  BY DEF Pending
<1>2. CASE state[s] = "Ready"
  <2>1. CarriesFor(s, c)
    BY <1>1, <1>2 DEF IInv, RingOK, ReadyOK
  <2> QED BY <1>1, <1>2, <2>1 DEF InRing, CarriesFor
<1>3. CASE Running(s)
  BY <1>1, <1>3, RunningIsBusy
<1> QED BY <1>1, <1>2, <1>3

(* When the count is 0 every fragment of the request was run.              *)
LEMMA CountedAll ==
  ASSUME IInv, Serving, NEW c \in Callers, Claimed(c), outstanding[job[c].first] = 0
  PROVE  InRing(c) = {} /\ AtWorkers(c) = {} /\ Pending(c) = {}
<1>1. InRing(c) = {} /\ AtWorkers(c) = {}
  BY NothingLeft DEF IInv, RingOK
<1> QED BY <1>1, PendingCounts

(* A request whose fragments are not all counted has not ended.            *)
LEMMA PendingWorks ==
  ASSUME IInv, Serving, NEW c, NEW s \in Pending(c)
  PROVE  c \in Callers /\ Working(c)
<1>1. c \in Callers /\ Claimed(c)
  BY PendingCounts
<1>2. callerPc[c] # "freeFirst"
  BY <1>1, CountedAll DEF IInv, RingOK, EndedOK
<1> QED BY <1>1, <1>2 DEF Claimed, Working, Enqueuing

LEMMA DoWorkCover ==
  ASSUME IInv, IdleOK, Serving, \A d \in Callers : Covered(d), NEW c \in Callers,
         NEW n \in 1 .. MaxUnits, DoWork(c, n)
  PROVE  \A d \in Callers : Covered(d)'
<1>1. /\ callerPc' = [callerPc EXCEPT ![c] = "lock"] /\ callerPc[c] = "idle"
      /\ job' = [job EXCEPT ![c] = NewJob(n)]
      /\ UNCHANGED <<itemVars, workVars, touched>> /\ TypeOK
  BY DEF DoWork, MoveCaller, IInv
<1>2. callerPc'[c] = "lock" /\ job'[c] = NewJob(n) /\ touched'[c] = [u \in Units |-> 0]
  BY <1>1 DEF TypeOK, IdleOK
<1>3. Pending(c)' = {}
  BY <1>1, PendingWorks, SamePending DEF Working, Enqueuing
<1>4. DivisionOK(c)'
  <2>1. /\ job'[c].units = n /\ job'[c].unit = 0 /\ job'[c].size = UnitsPerFragment(n)
        /\ job'[c].remainder = Remainder(n) /\ ToPlace(c)' = FragmentCount(n) + 0
    BY <1>2 DEF NewJob, ToPlace, InHand
  <2>2. ToPlace(c)' = FragmentCount(n)
    BY <2>1, DivisionStarts
  <2>3. FragmentCount(n) * Base(n) \in Nat /\ Remainder(n) \in Nat
        /\ 0 + FragmentCount(n) * Base(n) + Remainder(n) = n
    BY DivisionStarts
  <2> QED BY <2>1, <2>2, <2>3, DivisionStarts DEF DivisionOK, Base
<1>5. CoverOK(c)'
  <2>1. job'[c].unit = 0
    BY <1>2 DEF NewJob
  <2> QED BY <1>2, <1>3, <2>1 DEF CoverOK, Units
<1>6. Covered(c)'
  BY <1>2, <1>4, <1>5 DEF Covered, Ended
<1> QED BY <1>1, <1>6, SamePending, OtherCallers

LEMMA NextFragmentFields ==
  ASSUME NEW j \in Job
  PROVE  /\ NextFragment(j).units = j.units /\ NextFragment(j).left = j.left
         /\ NextFragment(j).unit = j.unit + j.size
         /\ NextFragment(j).remainder = (IF j.remainder > 0 THEN j.remainder - 1 ELSE 0)
         /\ NextFragment(j).size = (IF j.remainder = 1 THEN j.size - 1 ELSE j.size)
  BY DEF NextFragment, Job

LEMMA FillCover ==
  ASSUME IInv, Serving, \A d \in Callers : Covered(d), NEW c \in Callers, Fill(c)
  PROVE  \A d \in Callers : Covered(d)'
<1> DEFINE s == job[c].slot
           j == job[c]
           new == [owner |-> c, unit |-> j.unit, count |-> j.size]
<1>1. /\ TypeOK /\ s \in Slots /\ j \in Job /\ state[s] = "Free" /\ callerPc[c] = "fill"
      /\ callerPc' = [callerPc EXCEPT ![c] = "notifyReady"]
      /\ job' = [job EXCEPT ![c] = NextFragment(j)]
      /\ task' = [task EXCEPT ![s] = new] /\ state' = [state EXCEPT ![s] = "Ready"]
      /\ UNCHANGED <<workVars, touched>>
  BY DEF Fill, MoveCaller, IInv, TypeOK, Job
<1> HIDE DEF s, j
<1>2. /\ callerPc'[c] = "notifyReady" /\ job'[c] = NextFragment(j) /\ job[c] = j
      /\ task'[s] = new /\ state'[s] = "Ready" /\ new.owner = c
      /\ \A r \in Slots : r # s => task'[r] = task[r] /\ state'[r] = state[r]
  BY <1>1 DEF TypeOK, j
<1>3. /\ \A r : Running(r)' <=> Running(r)
      /\ ~Running(s)
  BY <1>1, RunningIsBusy DEF Running, workVars
<1>4. /\ Pending(c)' = Pending(c) \cup {s} /\ \A d : s \notin Pending(d)
      /\ \A d : d # c => Pending(d)' = Pending(d)
      /\ \A d : \A r \in Pending(d) : task'[r] = task[r]
  BY <1>1, <1>2, <1>3 DEF Pending
<1>5. Working(c) /\ DivisionOK(c) /\ CoverOK(c)
  BY <1>1 DEF Covered, Working, Enqueuing
<1> DEFINE k == j.left
           b == Base(j.units)
           r == j.remainder
<1>6. /\ k \in Nat /\ b \in Nat /\ r \in 0 .. k + 1 /\ j.unit \in Nat /\ j.units \in Nat
      /\ j.size = b + (IF r > 0 THEN 1 ELSE 0) /\ j.unit + (k + 1) * b + r = j.units
      /\ j.units \in 1 .. MaxUnits
  <2>1. j.left >= 0 /\ ToPlace(c) = j.left + 1 /\ j.left \in Int
    BY <1>1, <1>2 DEF IInv, RingOK, EnqueuerOK, ToPlace, InHand, Job
  <2> QED BY <1>2, <1>5, <2>1, BaseIsNat, MaxUnitsAssumption DEF DivisionOK
<1>7. /\ job'[c].units = j.units /\ job'[c].unit = j.unit + j.size /\ job'[c].left = k
      /\ job'[c].remainder = (IF r > 0 THEN r - 1 ELSE 0)
      /\ job'[c].size = (IF r = 1 THEN j.size - 1 ELSE j.size)
      /\ ToPlace(c)' = k
  <2>1. /\ job'[c].units = j.units /\ job'[c].unit = j.unit + j.size /\ job'[c].left = k
        /\ job'[c].remainder = (IF r > 0 THEN r - 1 ELSE 0)
        /\ job'[c].size = (IF r = 1 THEN j.size - 1 ELSE j.size)
    BY <1>1, <1>2, NextFragmentFields
  <2> QED BY <1>2, <1>6, <2>1 DEF ToPlace, InHand
<1> HIDE DEF k, b, r
<1>8. /\ (IF r > 0 THEN r - 1 ELSE 0) \in 0 .. k
      /\ (IF r = 1 THEN j.size - 1 ELSE j.size) =
              b + (IF (IF r > 0 THEN r - 1 ELSE 0) > 0 THEN 1 ELSE 0)
      /\ (j.unit + j.size) + k * b + (IF r > 0 THEN r - 1 ELSE 0) = j.units
      /\ j.size \in Nat /\ j.unit + j.size \in Nat
  BY <1>6, DivisionGoesOn
<1>9. DivisionOK(c)'
  <2>1. Base(job[c].units)' = b
    BY <1>7 DEF Base, b
  <2> QED BY <1>6, <1>7, <1>8, <2>1 DEF DivisionOK
<1>10. TaskUnits(task'[s]) = j.unit .. j.unit + j.size - 1
  BY <1>2 DEF TaskUnits
<1>11. CoverOK(c)'
  <2>1. \A q \in Pending(c) : TaskUnits(task'[q]) = TaskUnits(task[q])
    BY <1>4 DEF TaskUnits
  <2>2. /\ \A q \in Pending(c) : TaskUnits(task[q]) \subseteq 0 .. j.unit - 1
        /\ \A p, q \in Pending(c) : p # q => TaskUnits(task[p]) \cap TaskUnits(task[q]) = {}
        /\ \A u \in Units : touched[c][u] = IF u < j.unit /\ ~Waits(c, u) THEN 1 ELSE 0
    BY <1>2, <1>5 DEF CoverOK
  <2>3. \A u \in Units : Waits(c, u)' <=> Waits(c, u) \/ u \in j.unit .. j.unit + j.size - 1
    BY <2>1, <1>4, <1>10 DEF Waits
  <2>4. \A q \in Pending(c)' : TaskUnits(task'[q]) \subseteq 0 .. job'[c].unit - 1
    <3> SUFFICES ASSUME NEW q \in Pending(c)', NEW x \in TaskUnits(task'[q])
                 PROVE  x \in 0 .. job'[c].unit - 1
      OBVIOUS
    <3>1. CASE q = s
      <4>1. x \in j.unit .. j.unit + j.size - 1
        BY <3>1, <1>10
      <4> QED BY <4>1, <1>6, <1>7, <1>8
    <3>2. CASE q \in Pending(c)
      <4>1. x \in 0 .. j.unit - 1
        BY <3>2, <2>1, <2>2
      <4> QED BY <4>1, <1>6, <1>7, <1>8
    <3> QED BY <3>1, <3>2, <1>4
  <2>5. \A p, q \in Pending(c)' : p # q => TaskUnits(task'[p]) \cap TaskUnits(task'[q]) = {}
    <3>1. \A q \in Pending(c) : TaskUnits(task'[q]) \cap TaskUnits(task'[s]) = {}
      <4> SUFFICES ASSUME NEW q \in Pending(c), NEW x \in 0 .. j.unit - 1,
                          x \in j.unit .. j.unit + j.size - 1
                   PROVE  FALSE
        BY <2>1, <2>2, <1>10
      <4> QED BY <1>6, <1>8
    <3> QED BY <3>1, <2>1, <2>2, <1>4
  <2>6. \A u \in Units : touched'[c][u] =
          IF u < job'[c].unit /\ ~Waits(c, u)' THEN 1 ELSE 0
    <3> SUFFICES ASSUME NEW u \in Units
                 PROVE  touched'[c][u] = IF u < job'[c].unit /\ ~Waits(c, u)' THEN 1 ELSE 0
      OBVIOUS
    <3>1. u < j.unit + j.size /\ u \notin j.unit .. j.unit + j.size - 1 <=> u < j.unit
      BY <1>6, <1>8 DEF Units
    <3>2. touched'[c][u] = IF u < j.unit /\ ~Waits(c, u) THEN 1 ELSE 0
      BY <1>1, <2>2
    <3> QED BY <3>1, <3>2, <2>3, <1>7
  <2> QED BY <2>4, <2>5, <2>6 DEF CoverOK
<1>12. Covered(c)'
  BY <1>2, <1>9, <1>11 DEF Covered, Ended
<1> QED BY <1>1, <1>4, <1>12, OtherCallers

-----------------------------------------------------------------------------
(* The workers.                                                            *)

LEMMA QuietWorkCover ==
  ASSUME TypeOK, \A d \in Callers : Covered(d), NEW w \in Workers, ~stopPending,
         \/ Loop(w) \/ LockDequeue(w) \/ TestReady(w) \/ WaitReady(w) \/ KeepFirstFragment(w)
         \/ NotifyCompleted(w) \/ Decrement(w) \/ SignalItemCompleted(w)
  PROVE  \A d \in Callers : Covered(d)'
<1>1. PICK p, i :
        /\ workerPc' = [workerPc EXCEPT ![w] = p] /\ item' = [item EXCEPT ![w] = i]
        /\ p # "run" /\ workerPc[w] # "run"
  <2>1. item = [item EXCEPT ![w] = item[w]]
    BY DEF TypeOK
  <2> QED
    BY <2>1 DEF Loop, LockDequeue, TestReady, WaitReady, KeepFirstFragment, NotifyCompleted,
       Decrement, SignalItemCompleted, MoveWorker
<1>2. UNCHANGED <<callVars, state, task, touched>>
  BY DEF Loop, LockDequeue, TestReady, WaitReady, KeepFirstFragment, NotifyCompleted,
     Decrement, SignalItemCompleted, itemVars
<1> QED BY <1>1, <1>2, QuietWorker, WorkerCover

LEMMA TakeCover ==
  ASSUME IInv, \A d \in Callers : Covered(d), NEW w \in Workers, ~stopPending, Take(w)
  PROVE  \A d \in Callers : Covered(d)'
<1>1. /\ state[item[w]] = "Ready" /\ workerPc[w] = "test" /\ item[w] \in Slots
      /\ state' = [state EXCEPT ![item[w]] = "Busy"]
      /\ workerPc' = [workerPc EXCEPT ![w] = "run"] /\ UNCHANGED <<item, task, callVars, touched>>
  BY DEF Take, MoveWorker, IInv, TypeOK
<1>2. /\ workerPc'[w] = "run" /\ \A v \in Workers : v # w => workerPc'[v] = workerPc[v]
      /\ \A r \in Slots : r # item[w] => state'[r] = state[r]
  BY <1>1 DEF IInv, TypeOK
<1>3. Running(item[w])' /\ \A r : r # item[w] => (Running(r)' <=> Running(r))
  BY <1>1, <1>2 DEF Running
<1>4. state'[item[w]] = "Busy"
  BY <1>1 DEF IInv, TypeOK
<1>5. \A d : Pending(d)' = Pending(d)
  BY <1>1, <1>2, <1>3, <1>4 DEF Pending
<1> QED BY <1>1, <1>5, WorkerCover

LEMMA FreeFragmentCover ==
  ASSUME IInv, Serving, \A d \in Callers : Covered(d), NEW w \in Workers, FreeFragment(w)
  PROVE  \A d \in Callers : Covered(d)'
<1>1. /\ workerPc[w] = "free" /\ item[w] \in Slots
      /\ state' = [state EXCEPT ![item[w]] = "Free"]
      /\ workerPc' = [workerPc EXCEPT ![w] = "notifyCompleted"]
      /\ UNCHANGED <<item, task, callVars, touched>>
  BY DEF FreeFragment, MoveWorker, IInv, TypeOK
<1>2. /\ workerPc'[w] = "notifyCompleted" /\ state'[item[w]] = "Free"
      /\ \A v \in Workers : v # w => workerPc'[v] = workerPc[v]
      /\ \A r \in Slots : r # item[w] => state'[r] = state[r]
  BY <1>1 DEF IInv, TypeOK
<1>3. \A r : Running(r)' <=> Running(r)
  BY <1>1, <1>2 DEF Running
<1>4. state[item[w]] = "Busy"
  BY <1>1 DEF IInv, RingOK, WorkersOK
<1>5. \A d : Pending(d)' = Pending(d)
  BY <1>1, <1>2, <1>3, <1>4 DEF Pending
<1> QED BY <1>1, <1>5, WorkerCover

(* The units that a worker transforms were not transformed before, are     *)
(* units of the request, and no other fragment has them.                   *)
LEMMA RunTakes ==
  ASSUME IInv, IdleOK, Serving, \A d \in Callers : Covered(d), NEW w \in Workers, Run(w),
         NEW t, t = task[item[w]]
  PROVE  /\ t.owner \in Callers /\ Working(t.owner)
         /\ item[w] \in Pending(t.owner)
         /\ \A u \in TaskUnits(t) :
              u \in Units /\ u < job[t.owner].units /\ touched[t.owner][u] = 0
<1> DEFINE c == t.owner
<1>1. item[w] \in Slots /\ workerPc[w] = "run" /\ Running(item[w])
  BY DEF Run, MoveWorker, IInv, TypeOK, Running
<1>2. item[w] \in Pending(c)
  BY <1>1 DEF Pending
<1>3. c \in Callers /\ Working(c)
  BY <1>2, PendingWorks
<1>4. DivisionOK(c) /\ CoverOK(c)
  BY <1>3 DEF Covered
<1>5. job[c].unit <= job[c].units /\ job[c].unit \in Nat /\ job[c].units \in 1 .. MaxUnits
  BY <1>3, <1>4, DivisionBound DEF DivisionOK
<1>6. ASSUME NEW u \in TaskUnits(t)
      PROVE  u \in Units /\ u < job[c].units /\ touched[c][u] = 0
  <2>1. u \in 0 .. job[c].unit - 1
    BY <1>2, <1>4 DEF CoverOK
  <2>2. u \in Units /\ u < job[c].units
    BY <2>1, <1>5, MaxUnitsAssumption DEF Units
  <2>3. Waits(c, u)
    BY <1>2 DEF Waits
  <2> QED BY <2>2, <2>3, <1>4 DEF CoverOK
<1> QED BY <1>2, <1>3, <1>6

LEMMA RunCover ==
  ASSUME IInv, IdleOK, Serving, \A d \in Callers : Covered(d), NEW w \in Workers, Run(w)
  PROVE  (\A d \in Callers : Covered(d)') /\ IdleOK'
<1>0. PICK i, t, c : i = item[w] /\ t = task[i] /\ c = t.owner
  OBVIOUS
<1>1. /\ workerPc[w] = "run" /\ i \in Slots /\ TypeOK
      /\ workerPc' = [workerPc EXCEPT ![w] = "free"]
      /\ touched' = [touched EXCEPT ![c] =
           [u \in Units |-> IF u \in TaskUnits(t) THEN touched[c][u] + 1 ELSE touched[c][u]]]
      /\ UNCHANGED <<item, task, state, callVars>>
  BY <1>0 DEF Run, MoveWorker, IInv, TypeOK, itemVars
<1>2. /\ c \in Callers /\ Working(c) /\ i \in Pending(c)
      /\ \A u \in TaskUnits(t) : u \in Units /\ u < job[c].units /\ touched[c][u] = 0
  BY <1>0, RunTakes
<1>3. /\ workerPc'[w] = "free" /\ \A v \in Workers : v # w => workerPc'[v] = workerPc[v]
      /\ \A d \in Callers : d # c => touched'[d] = touched[d]
      /\ \A u \in Units : touched'[c][u] = IF u \in TaskUnits(t) THEN 1 ELSE touched[c][u]
  <2>1. \A u \in Units : touched[c][u] \in Int
    BY <1>1, <1>2 DEF TypeOK
  <2>2. \A u \in Units : touched'[c][u] =
          IF u \in TaskUnits(t) THEN touched[c][u] + 1 ELSE touched[c][u]
    BY <1>1, <1>2 DEF TypeOK
  <2>3. \A u \in TaskUnits(t) : touched[c][u] + 1 = 1
    BY <1>2
  <2> QED BY <1>1, <1>2, <2>2, <2>3 DEF TypeOK
<1>4. \A v \in Workers : workerPc[v] = "run" /\ item[v] = i => v = w
  BY <1>0, <1>1 DEF IInv, RingOK, DistinctItems
<1>5. state[i] = "Busy" /\ t.owner = c
  BY <1>0, <1>1 DEF IInv, RingOK, WorkersOK
<1>6. ~Running(i)' /\ \A r : r # i => (Running(r)' <=> Running(r))
  BY <1>0, <1>1, <1>3, <1>4 DEF Running
<1>7. /\ Pending(c)' = Pending(c) \ {i}
      /\ \A d : d # c => Pending(d)' = Pending(d)
  BY <1>0, <1>1, <1>5, <1>6 DEF Pending
<1>8. UNCHANGED <<callerPc, job>>
  BY <1>1 DEF callVars
<1>9. Covered(c)'
  <2>1. DivisionOK(c) /\ CoverOK(c)
    BY <1>2 DEF Covered
  <2>2. Working(c)' /\ ~Ended(c)' /\ DivisionOK(c)'
    BY <1>2, <1>8, <2>1 DEF Working, Ended, DivisionOK, ToPlace, InHand, Enqueuing
  <2>3. /\ \A s \in Pending(c) : TaskUnits(task[s]) \subseteq 0 .. job[c].unit - 1
        /\ \A s, r \in Pending(c) : s # r => TaskUnits(task[s]) \cap TaskUnits(task[r]) = {}
        /\ \A u \in Units : touched[c][u] = IF u < job[c].unit /\ ~Waits(c, u) THEN 1 ELSE 0
    BY <2>1 DEF CoverOK
  <2>4. \A u \in Units : Waits(c, u)' <=> Waits(c, u) /\ u \notin TaskUnits(t)
    BY <1>0, <1>1, <1>2, <1>7, <2>3 DEF Waits
  <2>5. \A u \in TaskUnits(t) : u \in Units /\ u < job[c].unit
    <3>1. TaskUnits(t) \subseteq 0 .. job[c].unit - 1
      BY <1>0, <1>2, <2>3
    <3> QED BY <3>1, <1>2, <2>1 DEF DivisionOK
  <2>6. \A u \in Units : touched'[c][u] =
          IF u < job[c].unit /\ ~Waits(c, u)' THEN 1 ELSE 0
    BY <1>3, <2>3, <2>4, <2>5
  <2>7. UNCHANGED task
    BY <1>1
  <2>8. CoverOK(c)'
    BY <1>7, <1>8, <2>3, <2>6, <2>7 DEF CoverOK
  <2> QED BY <2>2, <2>8 DEF Covered
<1>10. \A d \in Callers : d # c => Covered(d)'
  <2> TAKE d \in Callers
  <2> HAVE d # c
  <2>1. (Working(d)' <=> Working(d)) /\ (Ended(d)' <=> Ended(d)) /\ ToPlace(d)' = ToPlace(d)
    BY <1>8 DEF Working, Ended, ToPlace, InHand
  <2> QED BY <1>1, <1>3, <1>7, <1>8, <2>1, SameCover
<1>11. IdleOK'
  BY <1>2, <1>3, <1>8 DEF IdleOK, Working, Enqueuing
<1> QED BY <1>9, <1>10, <1>11

-----------------------------------------------------------------------------
(* The end of a request.                                                   *)

LEMMA WaitItemCompletedCover ==
  ASSUME IInv, Serving, \A d \in Callers : Covered(d), NEW c \in Callers, WaitItemCompleted(c)
  PROVE  \A d \in Callers : Covered(d)'
<1>1. /\ callerPc[c] = "wait" /\ itemCompleted[job[c].first] /\ job[c].first \in Slots
      /\ callerPc' = [callerPc EXCEPT ![c] = "freeFirst"] /\ job' = [job EXCEPT ![c] = job[c]]
      /\ UNCHANGED <<job, state, task, workVars, touched>> /\ TypeOK
  BY DEF WaitItemCompleted, MoveCaller, IInv, TypeOK, Job
<1>2. Claimed(c) /\ outstanding[job[c].first] = 0
  <2>1. Claimed(c)
    BY <1>1 DEF Claimed
  <2> QED BY <1>1, <2>1 DEF IInv, RingOK, EventOK, DistinctFirsts
<1>3. Pending(c) = {}
  BY <1>2, CountedAll
<1>4. DivisionOK(c) /\ CoverOK(c)
  BY <1>1 DEF Covered, Working
<1>5. job[c].unit = job[c].units
  <2>1. ToPlace(c) = 0
    BY <1>1 DEF ToPlace, InHand, IInv, RingOK, EnqueuerOK
  <2>2. /\ Base(job[c].units) \in Nat /\ job[c].unit \in Nat /\ job[c].remainder = 0
        /\ job[c].unit + 0 * Base(job[c].units) + job[c].remainder = job[c].units
    BY <1>4, <2>1, BaseIsNat DEF DivisionOK
  <2> QED BY <2>2
<1>6. AllTouched(c)
  BY <1>3, <1>4, <1>5 DEF AllTouched, CoverOK, Waits
<1>7. callerPc'[c] = "freeFirst"
  BY <1>1 DEF TypeOK
<1>8. Covered(c)'
  BY <1>1, <1>6, <1>7 DEF Covered, Working, Enqueuing, AllTouched
<1>9. \A d : Pending(d)' = Pending(d)
  BY <1>1 DEF Pending, Running, workVars
<1> QED BY <1>1, <1>8, <1>9, OtherCallers

LEMMA FreeFirstCover ==
  ASSUME IInv, Serving, \A d \in Callers : Covered(d), NEW c \in Callers, FreeFirst(c)
  PROVE  \A d \in Callers : Covered(d)'
<1>1. /\ callerPc[c] = "freeFirst" /\ job[c].first \in Slots
      /\ callerPc' = [callerPc EXCEPT ![c] = "notifyFreed"] /\ job' = [job EXCEPT ![c] = job[c]]
      /\ state' = [state EXCEPT ![job[c].first] = "Free"]
      /\ UNCHANGED <<job, task, workVars, touched>> /\ TypeOK
  BY DEF FreeFirst, MoveCaller, IInv, TypeOK, Job
<1>2. Claimed(c) /\ outstanding[job[c].first] = 0
  BY <1>1 DEF Claimed, IInv, RingOK, EndedOK
<1>3. \A r : Running(r)' <=> Running(r)
  BY <1>1 DEF Running, workVars
<1>4. state[job[c].first] # "Ready"
  <2>1. FirstOK(c) /\ InRing(c) = {}
    BY <1>2, CountedAll DEF IInv, RingOK
  <2> QED BY <1>1, <1>2, <2>1 DEF FirstOK, InRing
<1>5. /\ state'[job[c].first] = "Free" /\ \A r \in Slots : r # job[c].first => state'[r] = state[r]
  BY <1>1 DEF TypeOK
<1>6. \A d : Pending(d)' = Pending(d)
  BY <1>1, <1>3, <1>4, <1>5 DEF Pending
<1>7. callerPc'[c] = "notifyFreed"
  BY <1>1 DEF TypeOK
<1>8. Covered(c)'
  BY <1>1, <1>7 DEF Covered, Working, Enqueuing, Ended, AllTouched
<1> QED BY <1>1, <1>6, <1>8, OtherCallers

(* A request that is over, or was never in the pool.                       *)
LEMMA OutsideCover ==
  ASSUME IInv, \A d \in Callers : Covered(d), NEW c \in Callers,
         NotifyFreed(c) \/ Return(c) \/ \E n \in 1 .. MaxUnits : DoWorkInline(c, n)
  PROVE  \A d \in Callers : Covered(d)'
<1>1. PICK p, j :
        /\ p \in {"done", "idle"}
        /\ callerPc' = [callerPc EXCEPT ![c] = p] /\ job' = [job EXCEPT ![c] = j]
  <2>1. job = [job EXCEPT ![c] = job[c]]
    BY DEF IInv, TypeOK
  <2> QED BY <2>1 DEF NotifyFreed, Return, DoWorkInline, MoveCaller
<1>2. UNCHANGED <<itemVars, workVars>> /\ TypeOK
  BY DEF NotifyFreed, Return, DoWorkInline, IInv
<1>3. \A d \in Callers : d # c => touched'[d] = touched[d]
  BY <1>2 DEF NotifyFreed, Return, DoWorkInline, TypeOK
<1>4. callerPc'[c] = p
  BY <1>1, <1>2 DEF TypeOK
<1>5. Covered(c)'
  BY <1>1, <1>4 DEF Covered, Working, Ended, Enqueuing
<1> QED BY <1>1, <1>2, <1>3, <1>5, SamePending, OtherCallers

-----------------------------------------------------------------------------
(* The invariant.                                                          *)

LEMMA EnqueueCover ==
  ASSUME IInv, Serving, \A d \in Callers : Covered(d), NEW c \in Callers, Enqueue(c)
  PROVE  \A d \in Callers : Covered(d)'
<1>1. CASE Fill(c)
  BY <1>1, FillCover
<1>2. CASE ~Fill(c)
  BY <1>2, EnqueueMovesCover DEF Enqueue
<1> QED BY <1>1, <1>2

LEMMA CompleteCover ==
  ASSUME IInv, Serving, \A d \in Callers : Covered(d), NEW c \in Callers, Complete(c)
  PROVE  \A d \in Callers : Covered(d)'
  BY WaitItemCompletedCover, FreeFirstCover, OutsideCover DEF Complete

LEMMA WorkCover ==
  ASSUME IInv, IdleOK, Serving, \A d \in Callers : Covered(d), NEW w \in Workers, Work(w)
  PROVE  \A d \in Callers : Covered(d)'
<1>1. ~stopPending /\ TypeOK
  BY DEF Serving, IInv
<1>2. CASE Take(w) \/ FreeFragment(w) \/ Run(w)
  BY <1>1, <1>2, TakeCover, FreeFragmentCover, RunCover
<1>3. CASE ExitWorker(w)
  BY <1>1, <1>3 DEF ExitWorker
<1>4. CASE \/ Loop(w) \/ LockDequeue(w) \/ TestReady(w) \/ WaitReady(w) \/ KeepFirstFragment(w)
           \/ NotifyCompleted(w) \/ Decrement(w) \/ SignalItemCompleted(w)
  BY <1>1, <1>4, QuietWorkCover
<1> QED BY <1>2, <1>3, <1>4 DEF Work

(* The units of an idle caller are not transformed.                        *)
LEMMA StepIdleOK ==
  ASSUME IInv, CoverInv, Next
  PROVE  IdleOK'
<1> USE DEF IdleOK, CoverInv
<1>0. TypeOK
  BY DEF IInv
<1>1. ASSUME NEW c \in Callers, NEW p,
             callerPc' = [callerPc EXCEPT ![c] = p], p # "idle",
             \A d \in Callers : d # c => touched'[d] = touched[d]
      PROVE  IdleOK'
  BY <1>0, <1>1 DEF TypeOK
<1>2. ASSUME NEW c \in Callers, Request(c) PROVE IdleOK'
  <2>1. \E p : /\ callerPc' = [callerPc EXCEPT ![c] = p] /\ p # "idle"
               /\ \A d \in Callers : d # c => touched'[d] = touched[d]
    BY <1>0, <1>2 DEF Request, DoWork, DoWorkInline, MoveCaller, TypeOK
  <2> QED BY <2>1, <1>1
<1>3. ASSUME NEW c \in Callers, Enqueue(c) PROVE IdleOK'
  <2>1. \E p : callerPc' = [callerPc EXCEPT ![c] = p] /\ p # "idle" /\ touched' = touched
    BY <1>3 DEF Enqueue, LockEnqueue, TestItem, WaitForItem, ClaimFirst, Advance, Fill,
       NotifyReady, UnlockEnqueue, MoveCaller
  <2> QED BY <2>1, <1>1
<1>4. ASSUME NEW c \in Callers, Complete(c) PROVE IdleOK'
  <2>1. CASE Return(c)
    <3>1. /\ \A d \in Callers : d # c => callerPc'[d] = callerPc[d] /\ touched'[d] = touched[d]
          /\ touched'[c] = [u \in Units |-> 0]
      BY <1>0, <2>1 DEF Return, MoveCaller, TypeOK
    <3> QED BY <3>1
  <2>2. CASE ~Return(c)
    <3>1. \E p : callerPc' = [callerPc EXCEPT ![c] = p] /\ p # "idle" /\ touched' = touched
      BY <1>4, <2>2 DEF Complete, WaitItemCompleted, FreeFirst, NotifyFreed, MoveCaller
    <3> QED BY <3>1, <1>1
  <2> QED BY <2>1, <2>2
<1>5. ASSUME NEW w \in Workers, Work(w) PROVE IdleOK'
  <2>1. CASE Run(w)
    <3>1. Serving
      BY <2>1 DEF Run, MoveWorker, IInv, StoppedOK, Serving
    <3> QED BY <2>1, <3>1, RunCover
  <2>2. CASE ~Run(w)
    <3>1. UNCHANGED <<callerPc, touched>>
      BY <1>5, <2>2 DEF Work, Loop, LockDequeue, TestReady, WaitReady, Take, ExitWorker,
         FreeFragment, KeepFirstFragment, NotifyCompleted, Decrement, SignalItemCompleted,
         callVars
    <3> QED BY <3>1
  <2> QED BY <2>1, <2>2
<1>6. CASE Start \/ BeginStop \/ EndStop
  BY <1>6 DEF Start, BeginStop, EndStop, callVars
<1> QED BY <1>2, <1>3, <1>4, <1>5, <1>6 DEF Next

LEMMA StepCover == IInv /\ CoverInv /\ [Next]_vars => CoverInv'
<1>1. ASSUME IInv, CoverInv, UNCHANGED vars PROVE CoverInv'
  <2>1. UNCHANGED <<itemVars, callVars, workVars, touched>> /\ (Serving' <=> Serving)
        /\ UNCHANGED <<callerPc, task>>
    BY <1>1 DEF vars, Serving, poolVars, callVars, itemVars
  <2>2. IdleOK'
    BY <1>1, <2>1 DEF IdleOK, CoverInv
  <2>3. Serving => \A d \in Callers : Covered(d)'
    BY <1>1, <2>1, SamePending, WorkerCover DEF CoverInv
  <2> QED BY <2>1, <2>2, <2>3 DEF CoverInv
<1>2. ASSUME IInv, CoverInv, Next PROVE CoverInv'
  <2>1. IdleOK'
    BY <1>2, StepIdleOK
  <2>2. ASSUME Serving, Serving' PROVE \A d \in Callers : Covered(d)'
    <3>1. IdleOK /\ \A d \in Callers : Covered(d)
      BY <1>2, <2>2 DEF CoverInv
    <3>2. ASSUME NEW c \in Callers, Request(c) PROVE \A d \in Callers : Covered(d)'
      BY <1>2, <2>2, <3>1, <3>2, DoWorkCover, OutsideCover DEF Request
    <3>3. ~Start /\ ~BeginStop /\ ~EndStop
      BY <2>2 DEF Serving, Start, BeginStop, EndStop
    <3> QED BY <1>2, <2>2, <3>1, <3>2, <3>3, EnqueueCover, CompleteCover, WorkCover DEF Next
  <2>3. ASSUME ~Serving, Serving' PROVE \A d \in Callers : Covered(d)'
    <3>1. Start
      BY <1>2, <2>3 DEF Serving, Next, Request, DoWork, DoWorkInline, Enqueue, LockEnqueue,
         TestItem, WaitForItem, ClaimFirst, Advance, Fill, NotifyReady, UnlockEnqueue, Complete,
         WaitItemCompleted, FreeFirst, NotifyFreed, Return, Work, Loop, LockDequeue, TestReady,
         WaitReady, Take, ExitWorker, Run, FreeFragment, KeepFirstFragment, NotifyCompleted,
         Decrement, SignalItemCompleted, BeginStop, EndStop, poolVars
    <3>2. \A d \in Callers : callerPc'[d] \in {"idle", "done"}
      BY <1>2, <2>3, <3>1 DEF Start, callVars, IInv, StoppedOK
    <3> QED BY <3>2 DEF Covered, Working, Ended, Enqueuing
  <2> QED BY <2>1, <2>2, <2>3 DEF CoverInv
<1> QED BY <1>1, <1>2

LEMMA InitCover == Init => CoverInv
  BY DEF Init, CoverInv, IdleOK, Serving

-----------------------------------------------------------------------------
(* The steps of DataUnitService.                                           *)

Phase(c) == IF callerPc[c] \in {"idle", "done"} THEN callerPc[c] ELSE "busy"
Phases == [c \in Callers |-> Phase(c)]
Requests == [c \in Callers |-> job[c].units]

LEMMA ServiceStutters ==
  ASSUME \A d \in Callers : Phase(d)' = Phase(d) /\ job'[d].units = job[d].units,
         touched' = touched
  PROVE  UNCHANGED Service!vars
<1>1. Phases' = Phases /\ Requests' = Requests
  BY DEF Phases, Requests
<1> QED BY <1>1 DEF Service!vars, Phases, Requests, Phase

(* A step of one caller, as the service sees it.                           *)
LEMMA ServiceStep ==
  ASSUME TypeOK, NEW c \in Callers,
         \A d \in Callers : d # c => callerPc'[d] = callerPc[d] /\ job'[d] = job[d]
  PROVE  /\ Phases' = [Phases EXCEPT ![c] = Phase(c)']
         /\ Requests' = [Requests EXCEPT ![c] = job'[c].units]
         /\ Phases[c] = Phase(c) /\ Requests[c] = job[c].units
<1>1. \A d \in Callers : d # c => Phase(d)' = Phase(d)
  BY DEF Phase
<1>2. Phases' = [Phases EXCEPT ![c] = Phase(c)']
  BY <1>1 DEF Phases
<1>3. Requests' = [Requests EXCEPT ![c] = job'[c].units]
  BY DEF Requests
<1> QED BY <1>2, <1>3 DEF Phases, Requests

LEMMA ServiceUnits == Service!Units = Units /\ \A n : Service!Requested(n) = {u \in Units : u < n}
  BY DEF Service!Units, Units, Service!Requested

LEMMA RequestServes ==
  ASSUME IInv, CoverInv, NEW c \in Callers, Request(c)
  PROVE  Service!Next
<1>1. PICK n \in 1 .. MaxUnits : DoWorkInline(c, n) \/ DoWork(c, n)
  BY DEF Request
<1>2. TypeOK
  BY DEF IInv
<1>3. CASE DoWork(c, n)
  <2>1. /\ callerPc[c] = "idle" /\ callerPc' = [callerPc EXCEPT ![c] = "lock"]
        /\ job' = [job EXCEPT ![c] = NewJob(n)] /\ UNCHANGED touched
    BY <1>3 DEF DoWork, MoveCaller
  <2>2. NewJob(n).units = n
    BY DEF NewJob
  <2>3. /\ Phases' = [Phases EXCEPT ![c] = "busy"] /\ Requests' = [Requests EXCEPT ![c] = n]
        /\ Phases[c] = "idle"
    <3>1. /\ callerPc'[c] = "lock" /\ job'[c].units = n
          /\ \A d \in Callers : d # c => callerPc'[d] = callerPc[d] /\ job'[d] = job[d]
      BY <1>2, <2>1, <2>2 DEF TypeOK
    <3> QED BY <1>2, <2>1, <3>1, ServiceStep DEF Phase
  <2>4. Service!Begin(c, n)
    BY <2>1, <2>3 DEF Service!Begin, Phases, Requests, Phase
  <2> QED BY <2>4 DEF Service!Next
<1>4. CASE DoWorkInline(c, n)
  <2>1. /\ callerPc[c] = "idle" /\ callerPc' = [callerPc EXCEPT ![c] = "done"]
        /\ job' = [job EXCEPT ![c] = [NoJob EXCEPT !.units = n]]
        /\ touched' = [touched EXCEPT ![c] = [u \in Units |-> IF u < n THEN 1 ELSE 0]]
    BY <1>4 DEF DoWorkInline, MoveCaller
  <2>2. [NoJob EXCEPT !.units = n].units = n
    BY DEF NoJob
  <2>3. /\ Phases' = [Phases EXCEPT ![c] = "done"] /\ Requests' = [Requests EXCEPT ![c] = n]
        /\ Phases[c] = "idle"
    <3>1. /\ callerPc'[c] = "done" /\ job'[c].units = n
          /\ \A d \in Callers : d # c => callerPc'[d] = callerPc[d] /\ job'[d] = job[d]
      BY <1>2, <2>1, <2>2 DEF TypeOK
    <3> QED BY <1>2, <2>1, <3>1, ServiceStep DEF Phase
  <2>4. touched[c] = [u \in Units |-> 0]
    BY <2>1 DEF CoverInv, IdleOK
  <2>5. Service!Touch(c, n, Service!Requested(n))
    BY <2>1, <2>4, ServiceUnits DEF Service!Touch
  <2>6. Service!Immediate(c, n)
    BY <2>3, <2>5 DEF Service!Immediate, Phases, Requests, Phase
  <2> QED BY <2>6 DEF Service!Next
<1> QED BY <1>1, <1>3, <1>4

LEMMA EnqueueServes ==
  ASSUME IInv, NEW c \in Callers, Enqueue(c)
  PROVE  UNCHANGED Service!vars
<1>1. TypeOK /\ job[c] \in Job /\ UNCHANGED touched
  BY DEF IInv, TypeOK, Enqueue, LockEnqueue, TestItem, WaitForItem, ClaimFirst, Advance, Fill,
     NotifyReady, UnlockEnqueue
<1>2. \E p, j : /\ callerPc' = [callerPc EXCEPT ![c] = p] /\ job' = [job EXCEPT ![c] = j]
                /\ j.units = job[c].units
  <2>1. CASE LockEnqueue(c)
    <3> DEFINE j == [job[c] EXCEPT !.first = enqueuePosition]
    <3>1. callerPc' = [callerPc EXCEPT ![c] = "claimFirst"] /\ job' = [job EXCEPT ![c] = j]
      BY <2>1 DEF LockEnqueue, MoveCaller
    <3>2. j.units = job[c].units
      BY <1>1 DEF Job
    <3> HIDE DEF j
    <3> QED BY <3>1, <3>2
  <2>2. CASE Advance(c)
    <3>1. /\ callerPc' = [callerPc EXCEPT ![c] = "fill"]
          /\ job' = [job EXCEPT ![c] = InSlot(job[c], enqueuePosition)]
      BY <2>2 DEF Advance, MoveCaller
    <3>2. InSlot(job[c], enqueuePosition).units = job[c].units
      BY <1>1 DEF InSlot, Job
    <3> QED BY <3>1, <3>2
  <2>3. CASE Fill(c)
    <3>1. /\ callerPc' = [callerPc EXCEPT ![c] = "notifyReady"]
          /\ job' = [job EXCEPT ![c] = NextFragment(job[c])]
      BY <2>3 DEF Fill, MoveCaller
    <3> QED BY <3>1, <1>1, NextFragmentFields
  <2>4. CASE \/ TestItem(c, job[c].first, "claimFirst", "waitFirst")
             \/ WaitForItem(c, "waitFirst", "claimFirst") \/ ClaimFirst(c)
             \/ TestItem(c, job[c].slot, "fill", "waitSlot")
             \/ WaitForItem(c, "waitSlot", "fill") \/ NotifyReady(c) \/ UnlockEnqueue(c)
    <3>1. (\E p : callerPc' = [callerPc EXCEPT ![c] = p]) /\ job' = job
      BY <2>4 DEF TestItem, WaitForItem, ClaimFirst, NotifyReady, UnlockEnqueue, MoveCaller
    <3>2. job = [job EXCEPT ![c] = job[c]]
      BY <1>1 DEF TypeOK
    <3> QED BY <3>1, <3>2
  <2> QED BY <2>1, <2>2, <2>3, <2>4 DEF Enqueue
<1>3. callerPc[c] \notin {"idle", "done"} /\ callerPc'[c] \notin {"idle", "done"}
  BY <1>1 DEF TypeOK, Enqueue, LockEnqueue, TestItem, WaitForItem, ClaimFirst, Advance, Fill,
     NotifyReady, UnlockEnqueue, MoveCaller
<1>4. \A d \in Callers : Phase(d)' = Phase(d) /\ job'[d].units = job[d].units
  BY <1>1, <1>2, <1>3 DEF Phase, TypeOK
<1> QED BY <1>1, <1>4, ServiceStutters

LEMMA CompleteServes ==
  ASSUME IInv, CoverInv, NEW c \in Callers, Complete(c)
  PROVE  [Service!Next]_(Service!vars)
<1>1. TypeOK /\ job = [job EXCEPT ![c] = job[c]]
  BY DEF IInv, TypeOK
<1>2. CASE WaitItemCompleted(c) \/ FreeFirst(c)
  <2>1. UNCHANGED <<job, touched>> /\ callerPc[c] \in {"wait", "freeFirst"}
        /\ \E p \in {"freeFirst", "notifyFreed"} : callerPc' = [callerPc EXCEPT ![c] = p]
    BY <1>2 DEF WaitItemCompleted, FreeFirst, MoveCaller
  <2>2. \A d \in Callers : Phase(d)' = Phase(d)
    BY <1>1, <2>1 DEF Phase, TypeOK
  <2> QED BY <2>1, <2>2, ServiceStutters
<1>3. CASE NotifyFreed(c)
  <2>1. /\ callerPc[c] = "notifyFreed" /\ callerPc' = [callerPc EXCEPT ![c] = "done"]
        /\ UNCHANGED <<job, touched>>
    BY <1>3 DEF NotifyFreed, MoveCaller
  <2>2. Serving
    BY <2>1 DEF IInv, StoppedOK
  <2>3. AllTouched(c)
    BY <2>1, <2>2 DEF CoverInv, Covered, Ended
  <2>4. /\ Phases' = [Phases EXCEPT ![c] = "done"] /\ Requests' = Requests
        /\ Phases[c] = "busy" /\ Requests[c] = job[c].units
    <3>1. /\ callerPc'[c] = "done" /\ job' = job
          /\ \A d \in Callers : d # c => callerPc'[d] = callerPc[d]
      BY <1>1, <2>1 DEF TypeOK
    <3> QED BY <1>1, <2>1, <3>1, ServiceStep DEF Phase, Requests
  <2>5. \A u \in Service!Requested(Requests[c]) : touched[c][u] = 1
    BY <2>3, <2>4, ServiceUnits DEF AllTouched
  <2>6. Service!Finish(c)
    BY <2>1, <2>4, <2>5 DEF Service!Finish, Phases, Requests, Phase
  <2> QED BY <2>6 DEF Service!Next
<1>4. CASE Return(c)
  <2>1. /\ callerPc[c] = "done" /\ callerPc' = [callerPc EXCEPT ![c] = "idle"]
        /\ job' = [job EXCEPT ![c] = NoJob]
        /\ touched' = [touched EXCEPT ![c] = [u \in Units |-> 0]]
    BY <1>4 DEF Return, MoveCaller
  <2>2. NoJob.units = 0
    BY DEF NoJob
  <2>3. /\ Phases' = [Phases EXCEPT ![c] = "idle"] /\ Requests' = [Requests EXCEPT ![c] = 0]
        /\ Phases[c] = "done"
    <3>1. /\ callerPc'[c] = "idle" /\ job'[c].units = 0
          /\ \A d \in Callers : d # c => callerPc'[d] = callerPc[d] /\ job'[d] = job[d]
      BY <1>1, <2>1, <2>2 DEF TypeOK
    <3> QED BY <1>1, <2>1, <3>1, ServiceStep DEF Phase
  <2>4. Service!Return(c)
    BY <2>1, <2>3, ServiceUnits DEF Service!Return, Phases, Requests, Phase
  <2> QED BY <2>4 DEF Service!Next
<1> QED BY <1>2, <1>3, <1>4 DEF Complete

LEMMA WorkServes ==
  ASSUME IInv, CoverInv, NEW w \in Workers, Work(w)
  PROVE  [Service!Next]_(Service!vars)
<1>1. CASE ~Run(w)
  <2>1. UNCHANGED <<callerPc, job, touched>>
    BY <1>1 DEF Work, Loop, LockDequeue, TestReady, WaitReady, Take, ExitWorker,
       FreeFragment, KeepFirstFragment, NotifyCompleted, Decrement, SignalItemCompleted,
       callVars
  <2> QED BY <2>1, ServiceStutters DEF Phase
<1>2. CASE Run(w)
  <2>1. PICK t, c : t = task[item[w]] /\ c = t.owner
    OBVIOUS
  <2>2. Serving /\ TypeOK
    BY <1>2 DEF Run, MoveWorker, IInv, StoppedOK, Serving
  <2>3. /\ c \in Callers /\ Working(c)
        /\ \A u \in TaskUnits(t) : u \in Units /\ u < job[c].units /\ touched[c][u] = 0
    BY <1>2, <2>1, <2>2, RunTakes DEF CoverInv
  <2>4. /\ touched' = [touched EXCEPT ![c] =
             [u \in Units |-> IF u \in TaskUnits(t) THEN touched[c][u] + 1 ELSE touched[c][u]]]
        /\ UNCHANGED <<callerPc, job>>
    BY <1>2, <2>1 DEF Run, callVars
  <2>5. [u \in Units |-> IF u \in TaskUnits(t) THEN touched[c][u] + 1 ELSE touched[c][u]]
          = [u \in Units |-> IF u \in TaskUnits(t) THEN 1 ELSE touched[c][u]]
    <3>1. \A u \in TaskUnits(t) : touched[c][u] + 1 = 1
      BY <2>3
    <3> QED BY <3>1
  <2>6. Phases' = Phases /\ Requests' = Requests /\ Phases[c] = "busy"
        /\ Requests[c] = job[c].units
    BY <2>3, <2>4 DEF Phases, Requests, Phase, Working, Enqueuing
  <2>7. CASE TaskUnits(t) = {}
    <3>1. touched' = touched
      BY <2>2, <2>3, <2>4, <2>7 DEF TypeOK
    <3> QED BY <2>4, <3>1, ServiceStutters DEF Phase
  <2>8. CASE TaskUnits(t) # {}
    <3>1. Service!Touch(c, Requests[c], TaskUnits(t))
      BY <2>3, <2>4, <2>5, <2>6, ServiceUnits DEF Service!Touch
    <3>2. TaskUnits(t) \in SUBSET Service!Units
      BY <2>3, ServiceUnits
    <3>3. Service!Transform(c)
      BY <2>6, <2>8, <3>1, <3>2 DEF Service!Transform, Phases, Requests, Phase
    <3> QED BY <2>3, <3>3 DEF Service!Next
  <2> QED BY <2>7, <2>8
<1> QED BY <1>1, <1>2

LEMMA StepServes == IInv /\ CoverInv /\ [Next]_vars => [Service!Next]_(Service!vars)
<1> SUFFICES ASSUME IInv, CoverInv, [Next]_vars PROVE [Service!Next]_(Service!vars)
  OBVIOUS
<1>1. CASE UNCHANGED vars \/ Start \/ BeginStop \/ EndStop
  <2>1. UNCHANGED <<callerPc, job, touched>>
    BY <1>1 DEF vars, callVars, Start, BeginStop, EndStop
  <2> QED BY <2>1, ServiceStutters DEF Phase
<1> QED
  BY <1>1, RequestServes, EnqueueServes, CompleteServes, WorkServes DEF Next

LEMMA InitServes == Init => Service!Init
  BY DEF Init, NoJob, Service!Init, Service!Units, Units

(* EncryptionThreadPoolDoWork keeps the promise of DataUnitService: it     *)
(* returns after every data unit of the request was transformed, and none  *)
(* twice, for any number of callers, workers and work items, and requests  *)
(* of any size, whether they divide by the number of threads or not.       *)
THEOREM PoolIsService == Spec => ImplementsService
<1>1. Init => IInv /\ CoverInv
  BY InitIInv, InitCover
<1>2. IInv /\ CoverInv /\ [Next]_vars => (IInv /\ CoverInv)'
  BY StepIInv, StepCover
<1> QED BY <1>1, <1>2, InitServes, StepServes, PTL DEF Spec, ImplementsService, Service!Spec

=============================================================================
