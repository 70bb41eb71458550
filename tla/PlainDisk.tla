------------------------------- MODULE PlainDisk -------------------------------
(***************************************************************************)
(* What an encrypted volume promises to the file system above it: a disk   *)
(* of plaintext sectors.  Requests are under way concurrently; each of     *)
(* their sectors is accessed once, alone or with others, at some moment    *)
(* between the request's start and its completion; a request that          *)
(* completes with success has accessed all of its sectors, and a read      *)
(* returns what it found there.                                            *)
(* Encryption, fragments, buffers, threads and a conversion of the disk    *)
(* that may be going on meanwhile do not appear here.                      *)
(***************************************************************************)
CONSTANTS
  Irps, Sectors, Values,
  Ops,          \* requests: [kind, sectors, value]
  NoValue       \* a sector the request has not accessed

VARIABLES
  disk,         \* Sectors -> Values
  phase,        \* "free", "pending", "completed"
  op,           \* the request; of no meaning while the phase is "free"
  access,       \* what the request wrote to or read from each of its sectors
  success       \* its outcome, once completed

vars == <<disk, phase, op, access, success>>

Untouched == [s \in Sectors |-> NoValue]

Init ==
  /\ disk \in [Sectors -> Values]
  /\ phase = [i \in Irps |-> "free"]
  /\ op \in [Irps -> Ops]
  /\ access = [i \in Irps |-> Untouched]
  /\ success = [i \in Irps |-> FALSE]

Issue(i, o) ==
  /\ phase[i] = "free"
  /\ phase' = [phase EXCEPT ![i] = "pending"]
  /\ op' = [op EXCEPT ![i] = o]
  /\ UNCHANGED <<disk, access, success>>

Write(i, S) ==
  /\ op[i].kind = "write"
  /\ disk' = [s \in Sectors |-> IF s \in S THEN op[i].value ELSE disk[s]]
  /\ access' = [access EXCEPT ![i] = [s \in Sectors |-> IF s \in S THEN op[i].value ELSE @[s]]]

Read(i, S) ==
  /\ op[i].kind \in {"read", "misaligned"}
  /\ access' = [access EXCEPT ![i] = [s \in Sectors |-> IF s \in S THEN disk[s] ELSE @[s]]]
  /\ UNCHANGED disk

Access(i, S) ==
  /\ phase[i] = "pending"
  /\ S \subseteq op[i].sectors /\ \A s \in S : access[i][s] = NoValue
  /\ Write(i, S) \/ Read(i, S)
  /\ UNCHANGED <<phase, op, success>>

Finish(i, ok) ==
  /\ phase[i] = "pending"
  /\ phase' = [phase EXCEPT ![i] = "completed"]
  /\ success' = [success EXCEPT ![i] = ok]
  /\ UNCHANGED <<disk, op, access>>

Succeed(i) ==
  /\ \A s \in op[i].sectors : access[i][s] # NoValue
  /\ Finish(i, TRUE)

Fail(i) == Finish(i, FALSE)

Collect(i) ==
  /\ phase[i] = "completed"
  /\ phase' = [phase EXCEPT ![i] = "free"]
  /\ access' = [access EXCEPT ![i] = Untouched]
  /\ success' = [success EXCEPT ![i] = FALSE]
  /\ \E o \in Ops : op' = [op EXCEPT ![i] = o]
  /\ UNCHANGED disk

Next ==
  \E i \in Irps :
    \/ \E o \in Ops : Issue(i, o)
    \/ \E S \in SUBSET Sectors : Access(i, S)
    \/ Succeed(i) \/ Fail(i) \/ Collect(i)

Spec == Init /\ [][Next]_vars

=============================================================================
