-------------------------- MODULE EncryptionThreadPool --------------------------
(***************************************************************************)
(* The thread pool that encrypts and decrypts data units on several        *)
(* processors (src/src/Common/EncryptionThreadPool.c).                     *)
(*                                                                         *)
(* EncryptionThreadPoolDoWork cuts a request into fragments, publishes     *)
(* them in a ring of work items and waits until worker threads have        *)
(* processed all of them.  Enqueuers are serialised by EnqueueMutex,       *)
(* workers claim work items in ring order under DequeueMutex, and the      *)
(* state of a work item is the only thing the two sides share.             *)
(*                                                                         *)
(* The work item of the first fragment of a request also carries the       *)
(* request's completion count and event.  A worker frees the work item of  *)
(* any other fragment BEFORE it follows that work item's FirstFragment     *)
(* pointer, so the pointer is read from a work item that is free to be     *)
(* reused; that this is harmless is the main result about this module.     *)
(***************************************************************************)
EXTENDS Integers, FiniteSets

CONSTANTS
  Callers,     \* threads that call EncryptionThreadPoolDoWork
  Workers,     \* the ThreadCount threads that run EncryptionThreadProc
  QueueSize,   \* ThreadQueueSize
  MaxUnits,    \* bound: largest unitCount requested
  NoThread     \* a mutex that nobody holds

ThreadCount == Cardinality(Workers)

ASSUME CallersAssumption == NoThread \notin Callers \cup Workers
ASSUME WorkersAssumption == IsFiniteSet(Workers) /\ ThreadCount >= 2
ASSUME QueueSizeAssumption == QueueSize \in Nat /\ QueueSize >= ThreadCount
ASSUME MaxUnitsAssumption == MaxUnits \in Nat

Slots == 0 .. QueueSize - 1
Units == 0 .. MaxUnits - 1

VARIABLES
  state,              \* WorkItemQueue[s].State
  firstFragment,      \* WorkItemQueue[s].FirstFragment
  outstanding,        \* WorkItemQueue[s].OutstandingFragmentCount
  itemCompleted,      \* WorkItemQueue[s].ItemCompletedEvent
  task,               \* WorkItemQueue[s].Encryption: whose units, from, how many
  enqueuePosition, dequeuePosition,
  enqueueMutex, dequeueMutex,
  workItemReady,      \* WorkItemReadyEvent
  workItemCompleted,  \* WorkItemCompletedEvent
  running,            \* ThreadPoolRunning
  stopPending,        \* StopPending
  callerPc, job,      \* control point and locals of each DoWork call
  workerPc, item,     \* control point of each worker, and its workItem
  served,             \* history: the caller whose fragment a worker took last
  touched             \* history: how often each unit of a request was transformed

itemVars == <<state, firstFragment, outstanding, itemCompleted, task>>
ringVars == <<enqueuePosition, dequeuePosition>>
poolVars == <<running, stopPending>>
callVars == <<callerPc, job>>
workVars == <<workerPc, item, served>>
vars == <<itemVars, ringVars, enqueueMutex, dequeueMutex, workItemReady,
          workItemCompleted, poolVars, callVars, workVars, touched>>

-----------------------------------------------------------------------------
(* The division of a request into fragments.                               *)

FragmentCount(n) == IF n <= ThreadCount THEN n ELSE ThreadCount

Remainder(n) == IF n <= ThreadCount THEN 0 ELSE n % ThreadCount

UnitsPerFragment(n) ==
  IF n <= ThreadCount THEN 1
  ELSE n \div ThreadCount + (IF Remainder(n) > 0 THEN 1 ELSE 0)

\* Mutant: the wrap-around test is off by one.
NextSlotOffByOne(s) == IF s + 1 > QueueSize THEN 0 ELSE s + 1

NextSlot(s) == IF s + 1 >= QueueSize THEN 0 ELSE s + 1

NoTask == [owner |-> NoThread, unit |-> 0, count |-> 0]
NoJob == [first |-> 0, slot |-> 0, left |-> 0, unit |-> 0, size |-> 0,
          remainder |-> 0, units |-> 0]
NewJob(n) == [first |-> 0, slot |-> 0, left |-> FragmentCount(n), unit |-> 0,
              size |-> UnitsPerFragment(n), remainder |-> Remainder(n), units |-> n]

Idle == {c \in Callers : callerPc[c] = "idle"}

Each(v) == [s \in Slots |-> v]   \* the same field value in every work item

Init ==
  /\ state = Each("Free") /\ firstFragment = Each(0) /\ outstanding = Each(0)
  /\ itemCompleted = Each(FALSE) /\ task = Each(NoTask)
  /\ enqueuePosition = 0 /\ dequeuePosition = 0
  /\ enqueueMutex = NoThread /\ dequeueMutex = NoThread
  /\ workItemReady = FALSE /\ workItemCompleted = FALSE
  /\ running = FALSE /\ stopPending = FALSE
  /\ callerPc = [c \in Callers |-> "idle"]
  /\ job = [c \in Callers |-> NoJob]
  /\ workerPc = [w \in Workers |-> "exited"]
  /\ item = [w \in Workers |-> 0]
  /\ served = [w \in Workers |-> NoThread]
  /\ touched = [c \in Callers |-> [u \in Units |-> 0]]

-----------------------------------------------------------------------------
(* EncryptionThreadPoolDoWork.  The request is over at "done": Return is   *)
(* the return to the caller, which then may use its buffer again.          *)

MoveCaller(c, from, to) ==
  /\ callerPc[c] = from
  /\ callerPc' = [callerPc EXCEPT ![c] = to]

\* One unit, or no pool: the calling thread does the work itself.
DoWorkInline(c, n) ==
  /\ ~running \/ n = 1
  /\ MoveCaller(c, "idle", "done")
  /\ job' = [job EXCEPT ![c] = [NoJob EXCEPT !.units = n]]
  /\ touched' = [touched EXCEPT ![c] = [u \in Units |-> IF u < n THEN 1 ELSE 0]]
  /\ UNCHANGED <<itemVars, ringVars, enqueueMutex, dequeueMutex, workItemReady,
                 workItemCompleted, poolVars, workVars>>

DoWork(c, n) ==
  /\ running /\ n > 1
  /\ ~stopPending                 \* the callers of Stop have no request left
  /\ MoveCaller(c, "idle", "lock")
  /\ job' = [job EXCEPT ![c] = NewJob(n)]
  /\ UNCHANGED <<itemVars, ringVars, enqueueMutex, dequeueMutex, workItemReady,
                 workItemCompleted, poolVars, workVars, touched>>

LockEnqueue(c) ==
  /\ MoveCaller(c, "lock", "claimFirst")
  /\ enqueueMutex = NoThread
  /\ enqueueMutex' = c
  /\ job' = [job EXCEPT ![c].first = enqueuePosition]
  /\ UNCHANGED <<itemVars, ringVars, dequeueMutex, workItemReady,
                 workItemCompleted, poolVars, workVars, touched>>

\* while (GetWorkItemState (...) != WorkItemFree) TC_WAIT_EVENT (...): the test
\* and the wait are two steps, so a work item may be freed between them.
TestItem(c, slot, testing, waiting) ==
  /\ state[slot] # "Free"
  /\ MoveCaller(c, testing, waiting)
  /\ UNCHANGED <<itemVars, ringVars, enqueueMutex, dequeueMutex, workItemReady,
                 workItemCompleted, poolVars, job, workVars, touched>>

WaitForItem(c, waiting, testing) ==
  /\ workItemCompleted
  /\ MoveCaller(c, waiting, testing)
  /\ workItemCompleted' = FALSE
  /\ UNCHANGED <<itemVars, ringVars, enqueueMutex, dequeueMutex, workItemReady,
                 poolVars, job, workVars, touched>>

ClaimFirst(c) ==
  /\ state[job[c].first] = "Free"
  /\ MoveCaller(c, "claimFirst", "advance")
  /\ outstanding' = [outstanding EXCEPT ![job[c].first] = job[c].left]
  /\ UNCHANGED <<state, firstFragment, itemCompleted, task, ringVars,
                 enqueueMutex, dequeueMutex, workItemReady, workItemCompleted,
                 poolVars, job, workVars, touched>>

\* The next fragment goes into slot s.
InSlot(j, s) == [j EXCEPT !.left = @ - 1, !.slot = s]

Advance(c) ==
  /\ job[c].left > 0
  /\ MoveCaller(c, "advance", "fill")
  /\ job' = [job EXCEPT ![c] = InSlot(@, enqueuePosition)]
  /\ enqueuePosition' = NextSlot(enqueuePosition)
  /\ UNCHANGED <<itemVars, dequeuePosition, enqueueMutex, dequeueMutex,
                 workItemReady, workItemCompleted, poolVars, workVars, touched>>

\* The division step after a fragment: the first remainder fragments are one
\* unit longer than the others.
NextFragment(j) ==
  [j EXCEPT !.unit = @ + j.size,
            !.remainder = IF @ > 0 THEN @ - 1 ELSE 0,
            !.size = IF j.remainder = 1 THEN @ - 1 ELSE @]

Fill(c) ==
  LET s == job[c].slot IN
  /\ state[s] = "Free"
  /\ MoveCaller(c, "fill", "notifyReady")
  /\ firstFragment' = [firstFragment EXCEPT ![s] = job[c].first]
  /\ task' = [task EXCEPT ![s] =
                [owner |-> c, unit |-> job[c].unit, count |-> job[c].size]]
  /\ job' = [job EXCEPT ![c] = NextFragment(@)]
  /\ state' = [state EXCEPT ![s] = "Ready"]
  /\ UNCHANGED <<outstanding, itemCompleted, ringVars, enqueueMutex,
                 dequeueMutex, workItemReady, workItemCompleted, poolVars,
                 workVars, touched>>

NotifyReady(c) ==
  /\ MoveCaller(c, "notifyReady", "advance")
  /\ workItemReady' = TRUE
  /\ UNCHANGED <<itemVars, ringVars, enqueueMutex, dequeueMutex,
                 workItemCompleted, poolVars, job, workVars, touched>>

UnlockEnqueue(c) ==
  /\ job[c].left = 0
  /\ MoveCaller(c, "advance", "wait")
  /\ enqueueMutex' = NoThread
  /\ UNCHANGED <<itemVars, ringVars, dequeueMutex, workItemReady,
                 workItemCompleted, poolVars, job, workVars, touched>>

WaitItemCompleted(c) ==
  /\ itemCompleted[job[c].first]
  /\ MoveCaller(c, "wait", "freeFirst")
  /\ itemCompleted' = [itemCompleted EXCEPT ![job[c].first] = FALSE]
  /\ UNCHANGED <<state, firstFragment, outstanding, task, ringVars,
                 enqueueMutex, dequeueMutex, workItemReady, workItemCompleted,
                 poolVars, job, workVars, touched>>

FreeFirst(c) ==
  /\ MoveCaller(c, "freeFirst", "notifyFreed")
  /\ state' = [state EXCEPT ![job[c].first] = "Free"]
  /\ UNCHANGED <<firstFragment, outstanding, itemCompleted, task, ringVars,
                 enqueueMutex, dequeueMutex, workItemReady, workItemCompleted,
                 poolVars, job, workVars, touched>>

\* Mutant: nobody is told that the first work item is free again.
NotifyFreedSilently(c) ==
  /\ MoveCaller(c, "notifyFreed", "done")
  /\ UNCHANGED <<itemVars, ringVars, enqueueMutex, dequeueMutex, workItemReady,
                 workItemCompleted, poolVars, job, workVars, touched>>

NotifyFreed(c) ==
  /\ MoveCaller(c, "notifyFreed", "done")
  /\ workItemCompleted' = TRUE
  /\ UNCHANGED <<itemVars, ringVars, enqueueMutex, dequeueMutex, workItemReady,
                 poolVars, job, workVars, touched>>

Return(c) ==
  /\ MoveCaller(c, "done", "idle")
  /\ job' = [job EXCEPT ![c] = NoJob]
  /\ touched' = [touched EXCEPT ![c] = [u \in Units |-> 0]]
  /\ UNCHANGED <<itemVars, ringVars, enqueueMutex, dequeueMutex, workItemReady,
                 workItemCompleted, poolVars, workVars>>

-----------------------------------------------------------------------------
(* EncryptionThreadProc, for the two kinds of work DoWork enqueues.        *)

MoveWorker(w, from, to) ==
  /\ workerPc[w] = from
  /\ workerPc' = [workerPc EXCEPT ![w] = to]

\* while (!StopPending) at the head of the loop.
Loop(w) ==
  /\ MoveWorker(w, "loop", IF stopPending THEN "exited" ELSE "lock")
  /\ UNCHANGED <<itemVars, ringVars, enqueueMutex, dequeueMutex, workItemReady,
                 workItemCompleted, poolVars, callVars, item, served, touched>>

LockDequeue(w) ==
  /\ dequeueMutex = NoThread
  /\ MoveWorker(w, "lock", "test")
  /\ dequeueMutex' = w
  /\ item' = [item EXCEPT ![w] = dequeuePosition]
  /\ dequeuePosition' = NextSlot(dequeuePosition)
  /\ UNCHANGED <<itemVars, enqueuePosition, enqueueMutex, workItemReady,
                 workItemCompleted, poolVars, callVars, served, touched>>

TestReady(w) ==
  /\ ~stopPending /\ state[item[w]] # "Ready"
  /\ MoveWorker(w, "test", "waitReady")
  /\ UNCHANGED <<itemVars, ringVars, enqueueMutex, dequeueMutex, workItemReady,
                 workItemCompleted, poolVars, callVars, item, served, touched>>

WaitReady(w) ==
  /\ workItemReady
  /\ MoveWorker(w, "waitReady", "test")
  /\ workItemReady' = FALSE
  /\ UNCHANGED <<itemVars, ringVars, enqueueMutex, dequeueMutex,
                 workItemCompleted, poolVars, callVars, item, served, touched>>

Take(w) ==
  /\ stopPending \/ state[item[w]] = "Ready"
  /\ MoveWorker(w, "test", "run")
  /\ state' = [state EXCEPT ![item[w]] = "Busy"]
  /\ dequeueMutex' = NoThread
  /\ served' = [served EXCEPT ![w] =
                 IF state[item[w]] = "Ready" THEN task[item[w]].owner ELSE NoThread]
  /\ UNCHANGED <<firstFragment, outstanding, itemCompleted, task, ringVars,
                 enqueueMutex, workItemReady, workItemCompleted, poolVars,
                 callVars, item, touched>>

ExitWorker(w) ==
  /\ stopPending
  /\ MoveWorker(w, "run", "exited")
  /\ UNCHANGED <<itemVars, ringVars, enqueueMutex, dequeueMutex, workItemReady,
                 workItemCompleted, poolVars, callVars, item, served, touched>>

TaskUnits(t) == t.unit .. t.unit + t.count - 1

\* EncryptDataUnitsCurrentThreadEx / DecryptDataUnitsCurrentThreadEx.
Run(w) ==
  LET t == task[item[w]] IN
  /\ ~stopPending
  /\ MoveWorker(w, "run", "free")
  /\ touched' = [touched EXCEPT ![t.owner] =
                   [u \in Units |-> IF u \in TaskUnits(t) THEN @[u] + 1 ELSE @[u]]]
  /\ UNCHANGED <<itemVars, ringVars, enqueueMutex, dequeueMutex, workItemReady,
                 workItemCompleted, poolVars, callVars, item, served>>

\* Mutant: the worker frees the work item of the first fragment, too.
FreeAnyFragment(w) ==
  /\ MoveWorker(w, "free", "notifyCompleted")
  /\ state' = [state EXCEPT ![item[w]] = "Free"]
  /\ UNCHANGED <<firstFragment, outstanding, itemCompleted, task, ringVars,
                 enqueueMutex, dequeueMutex, workItemReady, workItemCompleted,
                 poolVars, callVars, item, served, touched>>

\* Only the work item of a later fragment is freed here: the request's caller
\* frees that of the first one.
FreeFragment(w) ==
  /\ item[w] # firstFragment[item[w]]
  /\ MoveWorker(w, "free", "notifyCompleted")
  /\ state' = [state EXCEPT ![item[w]] = "Free"]
  /\ UNCHANGED <<firstFragment, outstanding, itemCompleted, task, ringVars,
                 enqueueMutex, dequeueMutex, workItemReady, workItemCompleted,
                 poolVars, callVars, item, served, touched>>

KeepFirstFragment(w) ==
  /\ item[w] = firstFragment[item[w]]
  /\ MoveWorker(w, "free", "decrement")
  /\ UNCHANGED <<itemVars, ringVars, enqueueMutex, dequeueMutex, workItemReady,
                 workItemCompleted, poolVars, callVars, item, served, touched>>

NotifyCompleted(w) ==
  /\ MoveWorker(w, "notifyCompleted", "decrement")
  /\ workItemCompleted' = TRUE
  /\ UNCHANGED <<itemVars, ringVars, enqueueMutex, dequeueMutex, workItemReady,
                 poolVars, callVars, item, served, touched>>

\* Mutant: the completion is signaled one fragment early.
DecrementEarly(w) ==
  LET f == firstFragment[item[w]] IN
  /\ MoveWorker(w, "decrement", IF outstanding[f] = 2 THEN "signal" ELSE "loop")
  /\ outstanding' = [outstanding EXCEPT ![f] = @ - 1]
  /\ UNCHANGED <<state, firstFragment, itemCompleted, task, ringVars,
                 enqueueMutex, dequeueMutex, workItemReady, workItemCompleted,
                 poolVars, callVars, item, served, touched>>

Decrement(w) ==
  LET f == firstFragment[item[w]] IN
  /\ MoveWorker(w, "decrement", IF outstanding[f] = 1 THEN "signal" ELSE "loop")
  /\ outstanding' = [outstanding EXCEPT ![f] = @ - 1]
  /\ UNCHANGED <<state, firstFragment, itemCompleted, task, ringVars,
                 enqueueMutex, dequeueMutex, workItemReady, workItemCompleted,
                 poolVars, callVars, item, served, touched>>

SignalItemCompleted(w) ==
  /\ MoveWorker(w, "signal", "loop")
  /\ itemCompleted' = [itemCompleted EXCEPT ![firstFragment[item[w]]] = TRUE]
  /\ UNCHANGED <<state, firstFragment, outstanding, task, ringVars,
                 enqueueMutex, dequeueMutex, workItemReady, workItemCompleted,
                 poolVars, callVars, item, served, touched>>

-----------------------------------------------------------------------------
(* EncryptionThreadPoolStart and EncryptionThreadPoolStop.                 *)

Start ==
  /\ ~running
  /\ running' = TRUE /\ stopPending' = FALSE
  /\ enqueuePosition' = 0 /\ dequeuePosition' = 0
  /\ workItemReady' = FALSE /\ workItemCompleted' = FALSE
  /\ enqueueMutex' = NoThread /\ dequeueMutex' = NoThread
  /\ state' = Each("Free") /\ firstFragment' = Each(0) /\ outstanding' = Each(0)
  /\ itemCompleted' = Each(FALSE) /\ task' = Each(NoTask)
  /\ workerPc' = [w \in Workers |-> "loop"]
  /\ UNCHANGED <<callVars, item, served, touched>>

\* Mutant: StopPending is set, WorkItemReadyEvent is not.
BeginStopSilently ==
  /\ running /\ ~stopPending
  /\ Idle = Callers
  /\ stopPending' = TRUE
  /\ UNCHANGED <<itemVars, ringVars, enqueueMutex, dequeueMutex, workItemReady,
                 workItemCompleted, running, callVars, workVars, touched>>

\* Stop is called when the driver unloads, after every volume was unmounted,
\* and by the applications when they clean up: no request is under way.
BeginStop ==
  /\ running /\ ~stopPending
  /\ Idle = Callers
  /\ stopPending' = TRUE
  /\ workItemReady' = TRUE
  /\ UNCHANGED <<itemVars, ringVars, enqueueMutex, dequeueMutex,
                 workItemCompleted, running, callVars, workVars, touched>>

EndStop ==
  /\ running /\ stopPending
  /\ \A w \in Workers : workerPc[w] = "exited"
  /\ running' = FALSE
  /\ UNCHANGED <<itemVars, ringVars, enqueueMutex, dequeueMutex, workItemReady,
                 workItemCompleted, stopPending, callVars, workVars, touched>>

-----------------------------------------------------------------------------

Request(c) ==
  \E n \in 1 .. MaxUnits : DoWorkInline(c, n) \/ DoWork(c, n)

Enqueue(c) ==
  \/ LockEnqueue(c)
  \/ TestItem(c, job[c].first, "claimFirst", "waitFirst")
  \/ WaitForItem(c, "waitFirst", "claimFirst")
  \/ ClaimFirst(c)
  \/ Advance(c)
  \/ TestItem(c, job[c].slot, "fill", "waitSlot")
  \/ WaitForItem(c, "waitSlot", "fill")
  \/ Fill(c)
  \/ NotifyReady(c)
  \/ UnlockEnqueue(c)

Complete(c) ==
  WaitItemCompleted(c) \/ FreeFirst(c) \/ NotifyFreed(c) \/ Return(c)

Work(w) ==
  \/ Loop(w) \/ LockDequeue(w) \/ TestReady(w) \/ WaitReady(w) \/ Take(w)
  \/ ExitWorker(w) \/ Run(w) \/ FreeFragment(w) \/ KeepFirstFragment(w)
  \/ NotifyCompleted(w) \/ Decrement(w) \/ SignalItemCompleted(w)

Next ==
  \/ \E c \in Callers : Request(c) \/ Enqueue(c) \/ Complete(c)
  \/ \E w \in Workers : Work(w)
  \/ Start \/ BeginStop \/ EndStop

Spec == Init /\ [][Next]_vars

\* Threads are scheduled, and the mutexes, which queue their waiters, pass to
\* every thread that asks for them.  Nobody has to call DoWork, Start or Stop.
Fairness ==
  /\ \A c \in Callers : /\ WF_vars(Enqueue(c) \/ Complete(c))
                        /\ SF_vars(LockEnqueue(c))
  /\ \A w \in Workers : WF_vars(Work(w))
  /\ WF_vars(EndStop)

FairSpec == Spec /\ Fairness

-----------------------------------------------------------------------------
(* Properties.                                                             *)

CallerPcs == {"idle", "lock", "claimFirst", "waitFirst", "advance", "fill",
              "waitSlot", "notifyReady", "wait", "freeFirst", "notifyFreed", "done"}
WorkerPcs == {"exited", "loop", "lock", "test", "waitReady", "run", "free",
              "notifyCompleted", "decrement", "signal"}

Task == [owner : Callers \cup {NoThread}, unit : Int, count : Int]
Job == [first : Slots, slot : Slots, left : Int, unit : Int, size : Int,
        remainder : Int, units : Int]

\* The state of every variable, between two steps.
TypeOK ==
  /\ state \in [Slots -> {"Free", "Ready", "Busy"}]
  /\ firstFragment \in [Slots -> Slots]
  /\ outstanding \in [Slots -> Int]
  /\ itemCompleted \in [Slots -> BOOLEAN]
  /\ task \in [Slots -> Task]
  /\ enqueuePosition \in Slots /\ dequeuePosition \in Slots
  /\ enqueueMutex \in Callers \cup {NoThread}
  /\ dequeueMutex \in Workers \cup {NoThread}
  /\ workItemReady \in BOOLEAN /\ workItemCompleted \in BOOLEAN
  /\ running \in BOOLEAN /\ stopPending \in BOOLEAN
  /\ callerPc \in [Callers -> CallerPcs]
  /\ job \in [Callers -> Job]
  /\ workerPc \in [Workers -> WorkerPcs]
  /\ item \in [Workers -> Slots]
  /\ served \in [Workers -> Callers \cup {NoThread}]
  /\ touched \in [Callers -> [Units -> Int]]

Enqueuing == {"lock", "claimFirst", "waitFirst", "advance", "fill", "waitSlot",
              "notifyReady"}
FollowsPointer == {"notifyCompleted", "decrement", "signal"}

\* When a worker follows FirstFragment in a work item it has already freed, it
\* still finds the first fragment of the request it worked for, and that
\* request has not ended: the work item was not reused in between.
FirstFragmentStable ==
  \A w \in Workers : workerPc[w] \in FollowsPointer =>
    /\ served[w] \in Callers
    /\ callerPc[served[w]] \in (Enqueuing \ {"lock"}) \cup {"wait"}
    /\ firstFragment[item[w]] = job[served[w]].first

\* The pool implements DataUnitService: how a request is cut and scheduled can
\* only be seen in the order in which its units are transformed.
Service == INSTANCE DataUnitService WITH
  phase <- [c \in Callers |-> IF callerPc[c] \in {"idle", "done"} THEN callerPc[c] ELSE "busy"],
  units <- [c \in Callers |-> job[c].units]

ImplementsService == Service!Spec

\* A request under way is answered: no wake-up of an enqueuer, of a worker or
\* of a caller that waits for its fragments is lost.
RequestsComplete ==
  \A c \in Callers : callerPc[c] = "lock" ~> callerPc[c] = "done"

\* EncryptionThreadPoolStop returns: the single event it sets reaches every
\* worker, one after the other.
StopCompletes == stopPending ~> (~running \/ ~stopPending)

=============================================================================
