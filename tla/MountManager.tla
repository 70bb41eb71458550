------------------------------ MODULE MountManager ------------------------------
(***************************************************************************)
(* The mount manager of the Windows driver (src/src/Driver/Ntdriver.c with *)
(* TCOpenVolume of Ntvol.c and the abort flags that Cache.c and Volumes.c  *)
(* read): virtual volume devices, the thread of each, and the device       *)
(* controls that mount and unmount them.                                   *)
(*                                                                         *)
(* Device controls of the root device run one at a time under              *)
(* RootDeviceControlMutex, all but one: TC_IOCTL_ABORT_MOUNT_VOLUME, which *)
(* must get through while a mount derives its keys.  It meets the mount in *)
(* ActiveMountCancelContext.  Requests to a volume pass by the mutex too,  *)
(* and meet an unmount in the remove lock of the volume's queue.           *)
(***************************************************************************)
EXTENDS Integers, FiniteSets

CONSTANTS
  Clients,    \* threads of applications that mount and unmount
  Aborters,   \* threads of applications that abort mounts
  System,     \* the thread that shuts the system down or unloads the driver
  Nobody,
  Admin,      \* the user whom every volume is accessible to
  UserOf,     \* the user of each thread
  Drives,     \* drive letters
  Requests,   \* requests to volumes (IRPs) that may be under way at the same time
  Attempts,   \* headers and cached passwords that a mount tries
  MaxMounts   \* bound: mounts tried

VARIABLES
  root,      \* owner of RootDeviceControlMutex
  client,    \* what each client thread is doing
  volume,    \* VirtualVolumeDeviceObjects and their extensions
  last,      \* LastUniqueVolumeId
  givenUp,   \* history: the volumes that MountDevice deletes because their letter is taken
  context,   \* ActiveMountCancelContext
  opening,   \* locals of TCOpenVolume in the volume thread that opens a volume
  aborter,   \* locals of AbortPendingMount in each thread
  request    \* what the dispatcher or the queue is doing with each IRP

vars == <<root, client, volume, last, givenUp, context, opening, aborter, request>>

-----------------------------------------------------------------------------

Threads == Clients \cup {System}

\* What the proofs assume of the constants: Nobody is neither a thread nor a user, no more than
\* finitely many requests are under way, and a mount tries one header at least.
ConstantsOK ==
  /\ IsFiniteSet(Requests) /\ Attempts \in Nat \ {0} /\ MaxMounts \in Nat
  /\ Nobody \notin Threads
  /\ \A t \in Threads \cup Aborters : UserOf[t] # Nobody

Idle == [pc |-> "idle", drive |-> 0, force |-> FALSE, all |-> FALSE, max |-> 0,
         triggered |-> FALSE]

NotOpening == [pc |-> "idle", attempt |-> 0, right |-> 0, garbled |-> FALSE, status |-> "none"]
NotAborting == [pc |-> "idle", seq |-> 0, drive |-> 0]
NoRequest == [pc |-> "idle", drive |-> 0, id |-> 0]
NoDevice == [thread |-> "absent"]
NewDevice(host, protected) ==
  [thread |-> "none", id |-> 0, user |-> Nobody, host |-> host, shutting |-> FALSE,
   lock |-> 0, removed |-> FALSE, protected |-> protected, triggered |-> FALSE]

Present(d) == volume[d] # NoDevice
Mounted(d) == Present(d) /\ volume[d].id > 0
IdOf(d) == IF Present(d) THEN volume[d].id ELSE -1

\* IsVolumeAccessibleByCurrentUser.
Accessible(t, d) == UserOf[t] = Admin \/ volume[d].user \in {Nobody, UserOf[t]}

Opening == CHOOSE d \in Drives : Present(d) /\ volume[d].thread = "open"
IsOpening == \E d \in Drives : Present(d) /\ volume[d].thread = "open"

\* MountCancelContextMutex is only kept over two steps by a thread that sets both flags.
ContextFree == \A a \in Aborters : aborter[a].pc # "key"

Init ==
  /\ root = Nobody
  /\ client = [t \in Threads |-> Idle]
  /\ volume = [d \in Drives |-> NoDevice]
  /\ last = 0
  /\ givenUp = {}
  /\ context = [active |-> FALSE, drive |-> 0, user |-> Nobody, userAbort |-> FALSE,
                keyAbort |-> FALSE, seq |-> 0]
  /\ opening = NotOpening
  /\ aborter = [a \in Aborters |-> NotAborting]
  /\ request = [r \in Requests |-> NoRequest]

Go(t, pc) == client' = [client EXCEPT ![t].pc = pc]
At(t, pc) == client[t].pc = pc /\ root = t

-----------------------------------------------------------------------------
(* MountDevice. *)

\* TCCreateDeviceObject; the drive letter must be free.  The container may lie on a volume.
\* "right" is the attempt whose password and header match, 0 when none does.
Mount(t) ==
  /\ client[t].pc = "idle" /\ root = Nobody /\ context.seq < MaxMounts
  /\ \E d \in Drives, host \in {0} \cup {IdOf(e) : e \in {e \in Drives : Mounted(e)}},
        protected \in BOOLEAN, right \in 0 .. Attempts :
       /\ ~Present(d)
       /\ volume' = [volume EXCEPT ![d] = NewDevice(host, protected)]
       /\ opening' = [NotOpening EXCEPT !.right = right]
       /\ client' = [client EXCEPT ![t] = [Idle EXCEPT !.pc = "register", !.drive = d]]
  /\ root' = t
  /\ UNCHANGED <<last, givenUp, context, aborter, request>>

RegisteredContext(d) ==
  [active |-> TRUE, drive |-> d, user |-> Nobody, userAbort |-> FALSE, keyAbort |-> FALSE,
   seq |-> context.seq + 1]

RegisterMountCancelContext(t) ==
  /\ At(t, "register") /\ ContextFree
  /\ context' = RegisteredContext(client[t].drive)
  /\ Go(t, "sid")
  /\ UNCHANGED <<root, volume, last, givenUp, opening, aborter, request>>

SetMountCancelContextUserSid(t) ==
  /\ At(t, "sid") /\ ContextFree
  /\ context' = [context EXCEPT !.user = UserOf[t]]
  /\ volume' = [volume EXCEPT ![client[t].drive].user = UserOf[t]]
  /\ Go(t, "start")
  /\ UNCHANGED <<root, last, givenUp, opening, aborter, request>>

\* The mount waits for keCreateEvent, or no thread could be started.
TCStartVolumeThread(t) ==
  /\ At(t, "start")
  /\ \/ /\ volume' = [volume EXCEPT ![client[t].drive].thread = "open"]
        /\ opening' = [opening EXCEPT !.pc = "cancel", !.attempt = 1]
        /\ Go(t, "wait")
     \/ /\ opening' = [opening EXCEPT !.status = "error"]
        /\ Go(t, "unregister")
        /\ UNCHANGED volume
  /\ UNCHANGED <<root, last, givenUp, context, aborter, request>>

ThreadStarted(t) ==
  /\ At(t, "wait") /\ volume[client[t].drive].thread \in {"serving", "gone"}
  /\ Go(t, "unregister")
  /\ UNCHANGED <<root, volume, last, givenUp, context, opening, aborter, request>>

UnregisterMountCancelContext(t) ==
  /\ At(t, "unregister") /\ ContextFree
  /\ context' = [context EXCEPT !.active = FALSE, !.keyAbort = TRUE, !.user = Nobody]
  /\ Go(t, "mounted")
  /\ UNCHANGED <<root, volume, last, givenUp, opening, aborter, request>>

\* From here on the device is initialized, with its own id: requests reach it.
MountEnds(t) ==
  /\ At(t, "mounted")
  /\ \/ /\ opening.status = "ok"
        /\ last' = last + 1
        /\ volume' = [volume EXCEPT ![client[t].drive].id = last + 1]
        /\ Go(t, "letter")
     \/ /\ opening.status # "ok"
        /\ Go(t, "delete")
        /\ UNCHANGED <<volume, last>>
  /\ opening' = NotOpening
  /\ UNCHANGED <<root, givenUp, context, aborter, request>>

\* The drive letter may have been taken while the volume was opened.  The device is deleted then,
\* but bShuttingDown is not set and nobody waits for its remove lock.
CheckDriveLetter(t) ==
  /\ At(t, "letter")
  /\ \/ /\ client' = [client EXCEPT ![t] = Idle]
        /\ root' = Nobody
        /\ UNCHANGED givenUp
     \/ /\ givenUp' = givenUp \cup {volume[client[t].drive].id}
        /\ Go(t, "delete")
        /\ UNCHANGED root
  /\ UNCHANGED <<volume, last, context, opening, aborter, request>>

-----------------------------------------------------------------------------
(* The volume thread: TCOpenVolume and the header it reads, then its loop. *)

Fails(status) ==
  /\ volume' = [volume EXCEPT ![Opening].thread = "gone"]
  /\ opening' = [opening EXCEPT !.pc = "idle", !.status = status]

\* MountCancelRequested, and what ResetAbortKeyDerivation reads.
MountCancelRequested ==
  /\ IsOpening /\ opening.pc = "cancel"
  /\ \/ context.userAbort /\ Fails("abort")
     \/ Fails("error")  \* the host cannot be read
     \/ ~context.userAbort /\ opening' = [opening EXCEPT !.pc = "reset"] /\ UNCHANGED volume
  /\ UNCHANGED <<root, client, last, givenUp, context, aborter, request>>

\* *pAbortKeyDerivation = 0: the previous attempt has left it set.
\* (Mutant: the flag of the previous attempt stays set.)
ResetForgotten == context
Reset == [context EXCEPT !.keyAbort = FALSE]
ResetAbortKeyDerivation ==
  /\ IsOpening /\ opening.pc = "reset"
  /\ context' = Reset
  /\ opening' = [opening EXCEPT !.pc = "derive"]
  /\ UNCHANGED <<root, client, volume, last, givenUp, aborter, request>>

\* A derivation that sees the flag ends early and leaves a key that is not the password's.
DeriveKey ==
  /\ IsOpening /\ opening.pc = "derive"
  /\ \E garbled \in IF context.keyAbort THEN BOOLEAN ELSE {FALSE} :
       opening' = [opening EXCEPT !.pc = "test", !.garbled = garbled]
  /\ UNCHANGED <<root, client, volume, last, givenUp, context, aborter, request>>

\* ReadVolumeHeader looks at the user's abort first, then whether the header decrypts.
TestHeader ==
  /\ IsOpening /\ opening.pc = "test"
  /\ LET right == opening.right = opening.attempt /\ ~opening.garbled
     IN \/ context.userAbort /\ Fails("abort") /\ context' = [context EXCEPT !.keyAbort = TRUE]
        \/ /\ ~context.userAbort /\ right
           /\ opening' = [opening EXCEPT !.pc = "queue"]
           /\ context' \in {context, [context EXCEPT !.keyAbort = TRUE]}
           /\ UNCHANGED volume
        \/ /\ ~context.userAbort /\ ~right
           /\ context' = [context EXCEPT !.keyAbort = TRUE]
           /\ IF opening.attempt < Attempts
              THEN /\ opening' = [opening EXCEPT !.pc = "cancel", !.attempt = @ + 1]
                   /\ UNCHANGED volume
              ELSE Fails("wrong")
  /\ UNCHANGED <<root, client, last, givenUp, aborter, request>>

StartQueue ==
  /\ IsOpening /\ opening.pc = "queue"
  /\ \/ /\ volume' = [volume EXCEPT ![Opening].thread = "serving"]
        /\ opening' = [opening EXCEPT !.pc = "idle", !.status = "ok"]
     \/ Fails("error")
  /\ UNCHANGED <<root, client, last, givenUp, context, aborter, request>>

\* The thread has seen bThreadShouldQuit: it stops the queue and closes the volume.
VolumeThreadQuits(d) ==
  /\ Present(d) /\ volume[d].thread = "quit"
  /\ volume' = [volume EXCEPT ![d].thread = "gone"]
  /\ UNCHANGED <<root, client, last, givenUp, context, opening, aborter, request>>

-----------------------------------------------------------------------------
(* AbortPendingMount, which runs beside the mount. *)

\* The first look at the context, and CurrentUserCanAbortPendingMount.
AbortPendingMount(a) ==
  /\ aborter[a].pc = "idle" /\ ContextFree /\ context.active
  /\ UserOf[a] \in {Admin, context.user}
  /\ \E d \in {-1, context.drive} :
       aborter' = [aborter EXCEPT ![a] = [pc |-> "may", seq |-> context.seq, drive |-> d]]
  /\ UNCHANGED <<root, client, volume, last, givenUp, context, opening, request>>

\* The second look: the same mount must still be active.
\* (Mutant: the sequence number is not compared.)
SameDrive(a) == context.active /\ aborter[a].drive \in {-1, context.drive}
SameMount(a) ==
  context.active /\ aborter[a].seq = context.seq /\ aborter[a].drive \in {-1, context.drive}

FirstFlag == [context EXCEPT !.userAbort = TRUE]
SecondFlag == [context EXCEPT !.keyAbort = TRUE]

RequestAbort(a) ==
  /\ aborter[a].pc = "may" /\ ContextFree
  /\ IF SameMount(a)
     THEN /\ context' = FirstFlag
          /\ aborter' = [aborter EXCEPT ![a].pc = "key"]
     ELSE /\ aborter' = [aborter EXCEPT ![a] = NotAborting]
          /\ UNCHANGED context
  /\ UNCHANGED <<root, client, volume, last, givenUp, opening, request>>

RequestKeyAbort(a) ==
  /\ aborter[a].pc = "key"
  /\ context' = SecondFlag
  /\ aborter' = [aborter EXCEPT ![a] = NotAborting]
  /\ UNCHANGED <<root, client, volume, last, givenUp, opening, request>>

-----------------------------------------------------------------------------
(* Requests to a mounted volume (TCDispatchQueueIRP). *)

\* The dispatcher has found bShuttingDown clear.
Dispatch(r) ==
  /\ request[r].pc = "idle"
  /\ \E d \in Drives :
       /\ Mounted(d) /\ ~volume[d].shutting
       /\ request' = [request EXCEPT ![r] = [pc |-> "tested", drive |-> d, id |-> volume[d].id]]
  /\ UNCHANGED <<root, client, volume, last, givenUp, context, opening, aborter>>

\* IoAcquireRemoveLock fails once an unmount waits for the lock.  Nobody waits for the lock of a
\* volume that was given up; the request keeps its device object for as long as it needs it.
AcquireRemoveLock(r) ==
  /\ request[r].pc = "tested"
  /\ LET d == request[r].drive
         there == IdOf(d) = request[r].id
     IN \/ /\ there /\ ~volume[d].removed
           /\ volume' = [volume EXCEPT ![d].lock = @ + 1]
           /\ request' = [request EXCEPT ![r].pc = "queued"]
        \/ /\ ~there /\ request[r].id \in givenUp
           /\ request' = [request EXCEPT ![r].pc = "queued"]
           /\ UNCHANGED volume
        \/ /\ IF there THEN volume[d].removed ELSE request[r].id \notin givenUp
           /\ request' = [request EXCEPT ![r] = NoRequest]
           /\ UNCHANGED volume
  /\ UNCHANGED <<root, client, last, givenUp, context, opening, aborter>>

\* The queue or the volume thread answers, which looks at its list before bThreadShouldQuit; a
\* write may hit the protected hidden volume.
Answer(r) ==
  /\ request[r].pc = "queued"
  /\ LET d == request[r].drive
     IN /\ IdOf(d) = request[r].id /\ volume[d].thread \in {"serving", "quit"}
        /\ \E hit \in IF volume[d].protected THEN BOOLEAN ELSE {FALSE} :
             volume' = [volume EXCEPT ![d].lock = @ - 1, ![d].triggered = @ \/ hit]
  /\ request' = [request EXCEPT ![r] = NoRequest]
  /\ UNCHANGED <<root, client, last, givenUp, context, opening, aborter>>

-----------------------------------------------------------------------------
(* UnmountDevice, alone or for all devices. *)

Unmount(t) ==
  /\ client[t].pc = "idle" /\ root = Nobody
  /\ \E d \in Drives, force \in BOOLEAN :
       /\ Present(d) /\ Accessible(t, d)
       /\ client' = [client EXCEPT ![t] =
                       [Idle EXCEPT !.pc = "lock", !.drive = d, !.force = force]]
  /\ root' = t
  /\ UNCHANGED <<volume, last, givenUp, context, opening, aborter, request>>

UnmountAll(t) ==
  /\ client[t].pc = "idle" /\ root = Nobody
  /\ \E force \in BOOLEAN :
       client' = [client EXCEPT ![t] =
                    [Idle EXCEPT !.pc = "next", !.force = force, !.all = TRUE, !.max = last]]
  /\ root' = t
  /\ UNCHANGED <<volume, last, givenUp, context, opening, aborter, request>>

\* The mutex is released; OnShutdownPending asks again while protection was triggered.
AfterUnmount(t) ==
  IF t # System THEN Idle
  ELSE [client[t] EXCEPT !.pc = IF client[t].triggered THEN "again" ELSE "done"]

\* FindVolumeWithHighestUniqueId: nested volumes are unmounted before their hosts.
HighestUniqueId(ds) == {d \in ds : \A e \in ds : volume[e].id <= volume[d].id}
NextVolume(t) ==
  /\ At(t, "next")
  /\ LET found == {d \in Drives : Present(d) /\ volume[d].id <= client[t].max}
     IN \/ /\ found = {}
           /\ client' = [client EXCEPT ![t] = AfterUnmount(t)]
           /\ root' = Nobody
        \/ /\ \E d \in HighestUniqueId(found) :
                client' = [client EXCEPT ![t].max = volume[d].id - 1, ![t].drive = d,
                             ![t].pc = IF Accessible(t, d) THEN "lock" ELSE "next"]
           /\ UNCHANGED root
  /\ UNCHANGED <<volume, last, givenUp, context, opening, aborter, request>>

\* Proceed with the next device, or return.
Ends(t) ==
  IF client[t].all /\ ~client[t].triggered
  THEN Go(t, "next") /\ UNCHANGED root
  ELSE client' = [client EXCEPT ![t] = AfterUnmount(t)] /\ root' = Nobody

\* FSCTL_LOCK_VOLUME fails while files are open; containers of mounted volumes are.
Nested(d) == {e \in Drives : Present(e) /\ volume[e].host = volume[d].id}
LockFilesystem(t) ==
  /\ At(t, "lock")
  /\ \E locked \in IF Nested(client[t].drive) = {} THEN BOOLEAN ELSE {FALSE} :
       IF locked \/ client[t].force THEN Go(t, "mark") /\ UNCHANGED root ELSE Ends(t)
  /\ UNCHANGED <<volume, last, givenUp, context, opening, aborter, request>>

MarkShuttingDown(t) ==
  /\ At(t, "mark")
  /\ volume' = [volume EXCEPT ![client[t].drive].shutting = TRUE]
  /\ Go(t, "remove")
  /\ UNCHANGED <<root, last, givenUp, context, opening, aborter, request>>

\* IoReleaseRemoveLockAndWait refuses new holders ...
RefuseHolders(t) ==
  /\ At(t, "remove")
  /\ volume' = [volume EXCEPT ![client[t].drive].removed = TRUE]
  /\ Go(t, "drain")
  /\ UNCHANGED <<root, last, givenUp, context, opening, aborter, request>>

\* ... and waits for the present ones.  Then the request's result is filled in.
\* (Mutant: IoReleaseRemoveLock does not wait.)
DrainedAtOnce(d) == TRUE
Drained(d) == volume[d].lock = 0
WaitForHolders(t) ==
  /\ At(t, "drain") /\ Drained(client[t].drive)
  /\ client' = [client EXCEPT ![t].pc = "delete", ![t].triggered =
                  volume[client[t].drive].protected /\ volume[client[t].drive].triggered]
  /\ UNCHANGED <<root, volume, last, givenUp, context, opening, aborter, request>>

\* TCDeleteDeviceObject stops the thread, if there is one, and waits for its end.
TCStopVolumeThread(t) ==
  /\ At(t, "delete")
  /\ volume' = [volume EXCEPT ![client[t].drive].thread =
                  CASE @ = "serving" -> "quit" [] @ = "none" -> "gone" [] OTHER -> @]
  /\ Go(t, "stopped")
  /\ UNCHANGED <<root, last, givenUp, context, opening, aborter, request>>

DeleteDevice(t) ==
  /\ At(t, "stopped") /\ volume[client[t].drive].thread = "gone"
  /\ volume' = [volume EXCEPT ![client[t].drive] = NoDevice]
  /\ Ends(t)
  /\ UNCHANGED <<last, givenUp, context, opening, aborter, request>>

\* OnShutdownPending.
OnShutdownPending ==
  /\ client[System].pc \in {"idle", "again"} /\ root = Nobody
  /\ client' = [client EXCEPT ![System] =
       [Idle EXCEPT !.pc = "next", !.force = TRUE, !.all = TRUE, !.max = last]]
  /\ root' = System
  /\ UNCHANGED <<volume, last, givenUp, context, opening, aborter, request>>

-----------------------------------------------------------------------------

ClientStep(t) ==
  \/ Mount(t) \/ RegisterMountCancelContext(t) \/ SetMountCancelContextUserSid(t)
  \/ TCStartVolumeThread(t) \/ ThreadStarted(t) \/ UnregisterMountCancelContext(t)
  \/ MountEnds(t) \/ CheckDriveLetter(t) \/ Unmount(t) \/ UnmountAll(t)

UnmountStep(t) ==
  \/ NextVolume(t) \/ LockFilesystem(t) \/ MarkShuttingDown(t) \/ RefuseHolders(t)
  \/ WaitForHolders(t) \/ TCStopVolumeThread(t) \/ DeleteDevice(t)

Next ==
  \/ \E t \in Clients : ClientStep(t)
  \/ \E t \in Threads : UnmountStep(t)
  \/ OnShutdownPending
  \/ MountCancelRequested \/ ResetAbortKeyDerivation \/ DeriveKey \/ TestHeader \/ StartQueue
  \/ \E d \in Drives : VolumeThreadQuits(d)
  \/ \E a \in Aborters : AbortPendingMount(a) \/ RequestAbort(a) \/ RequestKeyAbort(a)
  \/ \E r \in Requests : Dispatch(r) \/ AcquireRemoveLock(r) \/ Answer(r)

Spec == Init /\ [][Next]_vars

-----------------------------------------------------------------------------

\* Types, and: the mutex has an owner exactly while a device control is under way, and one
\* volume at most is being opened.
TypeOK ==
  /\ root \in Threads \cup {Nobody}
  /\ \A t \in Threads : root = t <=> client[t].pc \notin {"idle", "again", "done"}
  /\ last \in 0 .. MaxMounts /\ givenUp \subseteq 0 .. last /\ context.seq \in 0 .. MaxMounts
  /\ context.drive \in {0} \cup Drives
  /\ Cardinality({d \in Drives : Present(d) /\ volume[d].thread = "open"}) <= 1
  /\ \A d \in Drives : Present(d) =>
       /\ volume[d].lock = Cardinality({r \in Requests : request[r].pc = "queued"
                                          /\ request[r].drive = d /\ request[r].id = IdOf(d)})
       /\ volume[d].id <= last
  /\ opening.attempt \in 0 .. Attempts

\* An abort only ever hits the mount whose user was entitled to ask for it: the thread that
\* looked at one mount does not abort the next one, of another user, on the same drive.
AbortHitsItsMount ==
  [][context'.userAbort /\ ~context.userAbort =>
       /\ root # Nobody
       /\ \E a \in Aborters : aborter[a].pc = "may" /\ aborter'[a].pc # "may"
            /\ UserOf[a] \in {Admin, UserOf[root]}]_vars

\* A mount with the right password is never told that the password is wrong, however an abort
\* cuts derivations short: AbortPendingMount sets the user's flag before the derivation's, and
\* each attempt clears what the one before has left.
RightPasswordIsNotWrong == opening.status = "wrong" => opening.right = 0

\* No request is left behind on a volume that its thread has closed or is about to close: an
\* unmount refuses new ones and waits for those it finds.  The exception is a mount that finds its
\* drive letter taken (4251-4311 of Ntdriver.c): its device takes requests already, and goes
\* without either.
RequestsMeetAnOpenVolume ==
  \A r \in Requests : request[r].pc = "queued" =>
    \/ IdOf(request[r].drive) = request[r].id /\ volume[request[r].drive].thread = "serving"
    \/ request[r].id \in givenUp
=============================================================================
