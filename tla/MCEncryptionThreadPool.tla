------------------------ MODULE MCEncryptionThreadPool ------------------------
(* An instance of EncryptionThreadPool for TLC. *)
EXTENDS EncryptionThreadPool

CONSTANTS c1, c2, w1, w2

TwoCallers == {c1, c2}
TwoWorkers == {w1, w2}

\* Bound: one of two requests under way may have a remainder, or both two fragments.
UnitsUnderWay == job[c1].units + job[c2].units

MCSpec == Init /\ [][Next /\ UnitsUnderWay' <= MaxUnits + 1]_vars /\ Fairness

\* A view for TLC: states are the same when they differ in leftovers only.  A worker that is back
\* in the loop does not read its item again, and what a request has left in a work item is
\* not read, unless a worker still carries it, before DoWork overwrites it.
AtItem(w) == workerPc[w] \notin {"exited", "loop", "lock"}
Carries(w) == workerPc[w] \in {"run", "free"} \cup FollowsPointer /\ served[w] # NoThread
InUse(s) == state[s] = "Ready" \/ \E w \in Workers : Carries(w) /\ item[w] = s

WithoutLeftovers ==
  <<state, outstanding, itemCompleted,
    [s \in Slots |-> IF InUse(s) THEN <<firstFragment[s], task[s]>> ELSE <<>>],
    ringVars, enqueueMutex, dequeueMutex, workItemReady, workItemCompleted, poolVars, callVars,
    workerPc, [w \in Workers |-> IF AtItem(w) THEN item[w] ELSE 0],
    [w \in Workers |-> IF Carries(w) THEN served[w] ELSE NoThread], touched>>

=============================================================================
