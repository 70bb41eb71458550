---------------------------- MODULE DataUnitService ----------------------------
(***************************************************************************)
(* What EncryptionThreadPoolDoWork promises: the call returns after every  *)
(* data unit of the request, and nothing else, was transformed once.       *)
(* Threads, fragments, the ring and its events do not appear here.         *)
(***************************************************************************)
EXTENDS Integers

CONSTANTS Callers, MaxUnits

Units == 0 .. MaxUnits - 1

VARIABLES
  phase,      \* "idle", "busy" inside the call, "done" when it is over
  units,      \* unitCount of the request
  touched     \* how often each unit of the request was transformed

vars == <<phase, units, touched>>

Init ==
  /\ phase = [c \in Callers |-> "idle"]
  /\ units = [c \in Callers |-> 0]
  /\ touched = [c \in Callers |-> [u \in Units |-> 0]]

Requested(n) == {u \in Units : u < n}

\* Units S of the request are transformed, none of them for the second time.
Touch(c, n, S) ==
  /\ S \subseteq Requested(n)
  /\ \A u \in S : touched[c][u] = 0
  /\ touched' = [touched EXCEPT ![c] = [u \in Units |-> IF u \in S THEN 1 ELSE @[u]]]

Begin(c, n) ==
  /\ phase[c] = "idle"
  /\ phase' = [phase EXCEPT ![c] = "busy"]
  /\ units' = [units EXCEPT ![c] = n]
  /\ UNCHANGED touched

Transform(c) ==
  /\ phase[c] = "busy"
  /\ \E S \in SUBSET Units : S # {} /\ Touch(c, units[c], S)
  /\ UNCHANGED <<phase, units>>

Finish(c) ==
  /\ phase[c] = "busy"
  /\ \A u \in Requested(units[c]) : touched[c][u] = 1
  /\ phase' = [phase EXCEPT ![c] = "done"]
  /\ UNCHANGED <<units, touched>>

\* The whole request in the calling thread.
Immediate(c, n) ==
  /\ phase[c] = "idle"
  /\ phase' = [phase EXCEPT ![c] = "done"]
  /\ units' = [units EXCEPT ![c] = n]
  /\ Touch(c, n, Requested(n))

Return(c) ==
  /\ phase[c] = "done"
  /\ phase' = [phase EXCEPT ![c] = "idle"]
  /\ units' = [units EXCEPT ![c] = 0]
  /\ touched' = [touched EXCEPT ![c] = [u \in Units |-> 0]]

Next ==
  \E c \in Callers :
    \/ \E n \in 1 .. MaxUnits : Begin(c, n) \/ Immediate(c, n)
    \/ Transform(c) \/ Finish(c) \/ Return(c)

Spec == Init /\ [][Next]_vars

=============================================================================
