--------------------------- MODULE MountManagerProofs ---------------------------
(***************************************************************************)
(* Theorems about MountManager, for any number of threads, aborting        *)
(* threads, drives, requests and attempts: an abort hits the mount it was  *)
(* meant for, a right password is not called wrong, and no request is left *)
(* behind on a volume that is closed.                                      *)
(*                                                                         *)
(* The invariant has three layers.  The first says who owns the mutex and  *)
(* which device that thread works on; the two others build on it and do    *)
(* not need each other.                                                    *)
(***************************************************************************)
EXTENDS MountManager, FiniteSetTheorems, TLAPS

Users == {Nobody} \cup {UserOf[t] : t \in Threads \cup Aborters}

Device ==
  [thread : {"none", "open", "serving", "quit", "gone"}, id : Nat, user : Users, host : Int,
   shutting : BOOLEAN, lock : Int, removed : BOOLEAN, protected : BOOLEAN, triggered : BOOLEAN]

ClientPcs ==
  {"idle", "again", "done", "register", "sid", "start", "wait", "unregister", "mounted", "letter",
   "next", "lock", "mark", "remove", "drain", "delete", "stopped"}

Client ==
  [pc : ClientPcs, drive : {0} \cup Drives, force : BOOLEAN, all : BOOLEAN, max : Int,
   triggered : BOOLEAN]
Context ==
  [active : BOOLEAN, drive : {0} \cup Drives, user : Users, userAbort : BOOLEAN, keyAbort : BOOLEAN,
   seq : Nat]
OpeningState ==
  [pc : {"idle", "cancel", "reset", "derive", "test", "queue"}, attempt : Int,
   right : 0..Attempts, garbled : BOOLEAN, status : {"none", "abort", "error", "wrong", "ok"}]
AborterState == [pc : {"idle", "may", "key"}, seq : Int, drive : {-1, 0} \cup Drives]
RequestState == [pc : {"idle", "tested", "queued"}, drive : {0} \cup Drives, id : Int]

VolumeTyping == volume \in [Drives -> Device \cup {NoDevice}] /\ last \in Nat
ClientTyping == root \in Threads \cup {Nobody} /\ client \in [Threads -> Client]
ContextTyping ==
  /\ context \in Context
  /\ aborter \in [Aborters -> AborterState]
OpeningTyping == opening \in OpeningState
RequestTyping ==
  /\ request \in [Requests -> RequestState]
  /\ \A r \in Requests : request[r].pc # "idle" => request[r].drive \in Drives /\ request[r].id > 0

Typing == VolumeTyping /\ ClientTyping /\ ContextTyping /\ OpeningTyping /\ RequestTyping

(* The mutex has an owner exactly while a device control is under way, and *)
(* that thread's device exists.                                            *)
Resting == {"idle", "again", "done"}
MutexOK == \A t \in Threads : client[t].pc \notin Resting <=> root = t
DriveOK ==
  \A t \in Threads : client[t].pc \notin Resting \cup {"next"} =>
    client[t].drive \in Drives /\ Present(client[t].drive)

(* A volume is opened exactly while the owner of the mutex waits for it.   *)
OpeningOK ==
  /\ opening.pc # "idle" =>
       /\ root \in Threads /\ client[root].pc = "wait"
       /\ volume[client[root].drive].thread = "open"
  /\ \A d \in Drives : Present(d) /\ volume[d].thread = "open" =>
       opening.pc # "idle" /\ d = client[root].drive

Base == Typing /\ MutexOK /\ DriveOK /\ OpeningOK

(* A mount in progress is the one of the owner of the mutex, and whoever   *)
(* has looked at it may abort it.                                          *)
ContextOK ==
  context.active =>
    /\ root \in Threads /\ client[root].pc \in {"sid", "start", "wait", "unregister"}
    /\ context.user \in {Nobody, UserOf[root]}
AborterOK ==
  \A a \in Aborters :
    /\ aborter[a].pc = "may" =>
         /\ aborter[a].seq <= context.seq
         /\ context.active /\ aborter[a].seq = context.seq => UserOf[a] \in {Admin, UserOf[root]}
    /\ aborter[a].pc = "key" => context.userAbort

(* Without the user's abort no derivation is cut short, and no attempt     *)
(* gets past the right one.                                                *)
KeyOK ==
  /\ opening.pc = "derive" /\ context.keyAbort => context.userAbort
  /\ opening.pc = "test" /\ opening.garbled => context.userAbort
AttemptOK ==
  opening.pc \in {"cancel", "reset", "derive", "test"} /\ opening.right > 0 /\ ~context.userAbort =>
    opening.attempt <= opening.right

AbortInv == ContextOK /\ AborterOK /\ KeyOK /\ AttemptOK /\ RightPasswordIsNotWrong

(* The remove lock counts the requests on a volume; a volume that serves   *)
(* no more has refused new holders and waited for the present ones, or was *)
(* given up by its mount.                                                  *)
QueuedOn(d) ==
  {r \in Requests : request[r].pc = "queued" /\ request[r].drive = d /\ request[r].id = IdOf(d)}
GivenUp(d) == volume[d].id \in givenUp
CountOK == \A d \in Drives : Present(d) => volume[d].lock = Cardinality(QueuedOn(d))
ServingOK ==
  \A d \in Drives : Present(d) /\ volume[d].id > 0 /\ ~volume[d].removed =>
    volume[d].thread = "serving" \/ GivenUp(d)
MountingOK ==
  /\ \A t \in Threads :
       client[t].pc \in {"register", "sid", "start", "wait", "unregister", "mounted"} =>
         volume[client[t].drive].id = 0
  /\ opening.status = "ok" =>
       /\ root \in Threads /\ client[root].pc \in {"wait", "unregister", "mounted"}
       /\ volume[client[root].drive].thread = "serving"
RemoveOK ==
  \A t \in Threads :
    /\ client[t].pc = "drain" => volume[client[t].drive].removed
    /\ client[t].pc \in {"delete", "stopped"} =>
         /\ volume[client[t].drive].removed \/ volume[client[t].drive].id = 0
              \/ GivenUp(client[t].drive)
         /\ QueuedOn(client[t].drive) = {} \/ GivenUp(client[t].drive)

RequestInv ==
  RequestsMeetAnOpenVolume /\ CountOK /\ ServingOK /\ MountingOK /\ RemoveOK

-----------------------------------------------------------------------------
(* Records. *)

LEMMA IdleRecord == Idle \in Client /\ Idle.pc = "idle"
  BY DEF Idle, Client, ClientPcs

LEMMA OpeningRecords ==
  ASSUME ConstantsOK, NEW right \in 0..Attempts
  PROVE  NotOpening \in OpeningState /\ [NotOpening EXCEPT !.right = right] \in OpeningState
<1>1. NotOpening \in OpeningState
  BY DEF NotOpening, OpeningState, ConstantsOK
<1>2. \A o \in OpeningState : [o EXCEPT !.right = right] \in OpeningState
  BY DEF OpeningState, ConstantsOK
<1> QED
  BY <1>1, <1>2

LEMMA DeviceRecords ==
  ASSUME VolumeTyping, NEW d \in Drives, Present(d)
  PROVE  volume[d] \in Device /\ volume[d].thread # "absent"
  BY DEF VolumeTyping, Present, Device

LEMMA DeviceIsPresent == \A x \in Device : x # NoDevice
  BY DEF Device, NoDevice

-----------------------------------------------------------------------------
(* What a step of one client does to the mutex and its device. *)

(* A device that was there is there after the step.                        *)
PresentAfter(d) == volume'[d] # NoDevice
Remains == \A d \in Drives : Present(d) => PresentAfter(d)

LEMMA ClientKeeps ==
  ASSUME Base, NEW t \in Threads, NEW c \in Client, Nobody \notin Threads,
         root \in {t, Nobody}, root' \in {t, Nobody},
         client' = [client EXCEPT ![t] = c], c.pc \in Resting <=> root' = Nobody,
         c.pc \notin Resting \cup {"next"} => c.drive \in Drives /\ PresentAfter(c.drive)
  PROVE  ClientTyping' /\ MutexOK' /\ DriveOK'
<1>1. ClientTyping'
  BY DEF Base, Typing, ClientTyping
<1>2. client'[t] = c /\ \A s \in Threads \ {t} : client'[s] = client[s]
  BY DEF Base, Typing, ClientTyping
<1>3. \A s \in Threads \ {t} : client[s].pc \in Resting
  BY DEF Base, MutexOK
<1> QED
  BY <1>1, <1>2, <1>3 DEF MutexOK, DriveOK, Present, PresentAfter

LEMMA ClientMoves ==
  ASSUME Base, NEW t \in Threads, NEW pc \in ClientPcs \ (Resting \cup {"next"}),
         Nobody \notin Threads,
         root = t, client[t].pc \notin Resting \cup {"next"}, Go(t, pc), root' = root, Remains
  PROVE  ClientTyping' /\ MutexOK' /\ DriveOK'
<1> DEFINE c == [client[t] EXCEPT !.pc = pc]
<1>1. client[t] \in Client
  BY DEF Base, Typing, ClientTyping
<1>2. c \in Client /\ c.pc = pc /\ c.drive = client[t].drive
  BY <1>1 DEF Client
<1>3. client' = [client EXCEPT ![t] = c]
  BY DEF Go
<1>4. c.drive \in Drives /\ PresentAfter(c.drive)
  BY <1>2 DEF Base, DriveOK, Remains
<1> HIDE DEF c
<1> QED
  BY <1>2, <1>3, <1>4, ClientKeeps

LEMMA ClientStays ==
  ASSUME Base, UNCHANGED <<root, client>>, Remains
  PROVE  ClientTyping' /\ MutexOK' /\ DriveOK'
  BY DEF Base, Typing, ClientTyping, MutexOK, DriveOK, Remains, Present, PresentAfter

(* The owner of the mutex acts, and is not waiting for the volume thread.  *)
LEMMA NothingOpens ==
  ASSUME Base, root = Nobody \/ client[root].pc # "wait", Nobody \notin Threads
  PROVE  opening.pc = "idle" /\ ~IsOpening
  BY DEF Base, OpeningOK, IsOpening

LEMMA StaysClosed ==
  ASSUME Base, opening.pc = "idle", opening'.pc = "idle",
         \A d \in Drives : Present(d)' /\ volume'[d].thread = "open" => Present(d)
             /\ volume[d].thread = "open"
  PROVE  OpeningOK'
  BY DEF Base, OpeningOK

-----------------------------------------------------------------------------

LEMMA InitBase == ConstantsOK /\ Init => Base
<1> SUFFICES ASSUME ConstantsOK, Init PROVE Base
  OBVIOUS
<1>1. VolumeTyping
  BY DEF Init, VolumeTyping
<1>2. ClientTyping
  BY DEF Init, ClientTyping, Client, ClientPcs, Idle
<1>3. ContextTyping
  BY DEF Init, ContextTyping, Context, NotAborting, AborterState, Users
<1>4. OpeningTyping
  BY DEF Init, OpeningTyping, OpeningState, NotOpening, ConstantsOK
<1>5. RequestTyping
  BY DEF Init, RequestTyping, RequestState, NoRequest
<1>6. MutexOK /\ DriveOK /\ OpeningOK
  BY DEF Init, ConstantsOK, MutexOK, DriveOK, OpeningOK, Resting, Idle, NotOpening, NoDevice,
      Present
<1> QED
  BY <1>1, <1>2, <1>3, <1>4, <1>5, <1>6 DEF Base, Typing

(* Mounting, up to the volume thread. *)
LEMMA MountBase ==
  ASSUME ConstantsOK, Base, NEW t \in Threads, Mount(t)
  PROVE  Base'
<1>1. PICK d \in Drives, host \in {0} \cup {IdOf(e) : e \in {e \in Drives : Mounted(e)}},
           protected \in BOOLEAN, right \in 0 .. Attempts :
        /\ ~Present(d)
        /\ volume' = [volume EXCEPT ![d] = NewDevice(host, protected)]
        /\ opening' = [NotOpening EXCEPT !.right = right]
        /\ client' = [client EXCEPT ![t] = [Idle EXCEPT !.pc = "register", !.drive = d]]
  BY DEF Mount
<1>2. root = Nobody /\ root' = t /\ UNCHANGED <<last, context, aborter, request>>
      /\ Nobody \notin Threads
  BY DEF Mount, ConstantsOK
<1>3. host \in Int
  BY DEF Base, Typing, VolumeTyping, Mounted, IdOf, Present, Device
<1>4. NewDevice(host, protected) \in Device
  BY <1>3 DEF NewDevice, Device, Users
<1>5. VolumeTyping' /\ PresentAfter(d)
  BY <1>1, <1>2, <1>4, DeviceIsPresent DEF Base, Typing, VolumeTyping, PresentAfter
<1>6. OpeningTyping' /\ opening'.pc = "idle"
  <2>1. opening'.pc = "idle"
    BY <1>1 DEF NotOpening
  <2> QED
    BY <1>1, <2>1, OpeningRecords DEF OpeningTyping
<1>7. ContextTyping' /\ RequestTyping'
  BY <1>2 DEF Base, Typing, ContextTyping, RequestTyping
<1>8. ClientTyping' /\ MutexOK' /\ DriveOK'
  <2> DEFINE c == [Idle EXCEPT !.pc = "register", !.drive = d]
  <2>1. c \in Client /\ c.pc = "register" /\ c.drive = d
    BY IdleRecord DEF Client, ClientPcs
  <2>2. client' = [client EXCEPT ![t] = c]
    BY <1>1
  <2> HIDE DEF c
  <2> QED
    BY <1>2, <1>5, <2>1, <2>2, ClientKeeps DEF Resting
<1>9. OpeningOK'
  <2>1. opening.pc = "idle"
    BY <1>2, NothingOpens
  <2>2. NewDevice(host, protected).thread = "none"
    BY DEF NewDevice
  <2> QED
    BY <1>1, <1>6, <2>1, <2>2, StaysClosed DEF Base, Typing, VolumeTyping, Present
<1> QED
  BY <1>5, <1>6, <1>7, <1>8, <1>9 DEF Base, Typing

(* A device of which one part changes.                                     *)
LEMMA DeviceChanges ==
  ASSUME VolumeTyping, NEW d \in Drives, Present(d), NEW x \in Device,
         volume' = [volume EXCEPT ![d] = x], UNCHANGED last
  PROVE  VolumeTyping' /\ Remains
  BY DeviceIsPresent DEF VolumeTyping, Present, PresentAfter, Remains

LEMMA BeginBase ==
  ASSUME ConstantsOK, Base, NEW t \in Threads,
         RegisterMountCancelContext(t) \/ SetMountCancelContextUserSid(t) \/ UnregisterMountCancelContext(t)
  PROVE  Base'
<1> DEFINE d == client[t].drive
<1>1. /\ root = t /\ root' = t /\ UNCHANGED <<last, opening, aborter, request>>
      /\ Nobody \notin Threads
      /\ client[t].pc \in {"register", "sid", "unregister"}
      /\ \E pc \in {"sid", "start", "mounted"} : Go(t, pc)
  BY DEF RegisterMountCancelContext, SetMountCancelContextUserSid, UnregisterMountCancelContext,
      At, ConstantsOK
<1>2. d \in Drives /\ Present(d) /\ volume[d] \in Device
  BY <1>1, DeviceRecords DEF Base, Typing, DriveOK, Resting
<1>3. UserOf[t] \in Users /\ Nobody \in Users
  BY DEF Users
<1>4. /\ VolumeTyping' /\ Remains
      /\ \A e \in Drives : Present(e)' /\ volume'[e].thread = "open" => Present(e)
            /\ volume[e].thread = "open"
  <2>1. CASE UNCHANGED volume
    BY <1>1, <2>1 DEF Base, Typing, VolumeTyping, Remains, Present, PresentAfter
  <2>2. CASE volume' = [volume EXCEPT ![d] = [volume[d] EXCEPT !.user = UserOf[t]]]
    <3> DEFINE x == [volume[d] EXCEPT !.user = UserOf[t]]
    <3>1. x \in Device /\ x.thread = volume[d].thread
      BY <1>2, <1>3 DEF Device
    <3>2. volume' = [volume EXCEPT ![d] = x]
      BY <2>2
    <3>3. VolumeTyping' /\ Remains
      BY <1>1, <1>2, <3>1, <2>2, DeviceChanges DEF Base, Typing
    <3> HIDE DEF x
    <3> QED
      BY <1>2, <3>1, <3>2, <3>3 DEF Base, Typing, VolumeTyping, Present
  <2> QED
    BY <2>1, <2>2 DEF RegisterMountCancelContext, SetMountCancelContextUserSid,
        UnregisterMountCancelContext
<1>5. ContextTyping'
  <2>1. \A u \in Users : [context EXCEPT !.user = u] \in Context
    BY DEF Base, Typing, ContextTyping, Context
  <2>2. [context EXCEPT !.active = FALSE, !.keyAbort = TRUE, !.user = Nobody] \in Context
    BY <1>3 DEF Base, Typing, ContextTyping, Context
  <2>3. RegisteredContext(d) \in Context
    BY <1>2, <1>3 DEF Base, Typing, ContextTyping, Context, RegisteredContext
  <2> QED
    BY <1>1, <1>3, <2>1, <2>2, <2>3
    DEF Base, Typing, ContextTyping, RegisterMountCancelContext, SetMountCancelContextUserSid,
        UnregisterMountCancelContext
<1>6. OpeningTyping' /\ RequestTyping'
  BY <1>1 DEF Base, Typing, OpeningTyping, RequestTyping
<1>7. ClientTyping' /\ MutexOK' /\ DriveOK'
  BY <1>1, <1>4, ClientMoves DEF ClientPcs, Resting
<1>8. OpeningOK'
  BY <1>1, <1>4, NothingOpens, StaysClosed
<1> QED
  BY <1>4, <1>5, <1>6, <1>7, <1>8 DEF Base, Typing

LEMMA StartBase ==
  ASSUME ConstantsOK, Base, NEW t \in Threads, TCStartVolumeThread(t)
  PROVE  Base'
<1> DEFINE d == client[t].drive
           x == [volume[d] EXCEPT !.thread = "open"]
<1>1. /\ root = t /\ root' = t /\ UNCHANGED <<last, context, aborter, request>>
      /\ Nobody \notin Threads
      /\ client[t].pc = "start"
      /\ \/ /\ volume' = [volume EXCEPT ![d] = x]
            /\ opening' = [opening EXCEPT !.pc = "cancel", !.attempt = 1]
            /\ Go(t, "wait")
         \/ /\ opening' = [opening EXCEPT !.status = "error"]
            /\ Go(t, "unregister")
            /\ UNCHANGED volume
  BY DEF TCStartVolumeThread, At, ConstantsOK
<1>2. d \in Drives /\ Present(d) /\ volume[d] \in Device
  BY <1>1, DeviceRecords DEF Base, Typing, DriveOK, Resting
<1>3. x \in Device /\ x.thread = "open"
  BY <1>2 DEF Device
<1> HIDE DEF x
<1>4. VolumeTyping' /\ Remains
  BY <1>1, <1>2, <1>3, DeviceChanges DEF Base, Typing, VolumeTyping, Remains, Present, PresentAfter
<1>5. OpeningTyping'
  <2>0. opening \in OpeningState
    BY DEF Base, Typing, OpeningTyping
  <2>1. \A o \in OpeningState, n \in Int : [o EXCEPT !.pc = "cancel", !.attempt = n] \in OpeningState
    BY DEF OpeningState
  <2>2. [opening EXCEPT !.status = "error"] \in OpeningState
    BY DEF Base, Typing, OpeningTyping, OpeningState, ConstantsOK
  <2>3. 1 \in Int
    OBVIOUS
  <2>4. [opening EXCEPT !.pc = "cancel", !.attempt = 1] \in OpeningState
    BY <2>0, <2>1, <2>3, Zenon
  <2> QED
    BY <1>1, <2>2, <2>4 DEF OpeningTyping
<1>6. ContextTyping' /\ RequestTyping'
  BY <1>1 DEF Base, Typing, ContextTyping, RequestTyping
<1>7. ClientTyping' /\ MutexOK' /\ DriveOK'
  BY <1>1, <1>4, ClientMoves DEF ClientPcs, Resting
<1>8. opening.pc = "idle" /\ ~IsOpening
  BY <1>1, NothingOpens
<1>9. OpeningOK'
  <2>1. CASE UNCHANGED volume
    <3>1. opening' = [opening EXCEPT !.status = "error"]
      BY <1>1, <1>2, <1>3, <1>8, <2>1 DEF IsOpening, Base, Typing, VolumeTyping
    <3>2. opening'.pc = "idle"
      BY <1>8, <3>1 DEF Base, Typing, OpeningTyping, OpeningState
    <3> QED
      BY <1>8, <2>1, <3>2, StaysClosed DEF Present
  <2>2. CASE ~UNCHANGED volume
    <3>1. volume' = [volume EXCEPT ![d] = x] /\ Go(t, "wait")
          /\ opening' = [opening EXCEPT !.pc = "cancel", !.attempt = 1]
      BY <1>1, <2>2
    <3>2. client'[t].pc = "wait" /\ client'[t].drive = d
      BY <3>1 DEF Go, Base, Typing, ClientTyping, Client
    <3>3. volume'[d].thread = "open" /\ \A e \in Drives \ {d} : volume'[e] = volume[e]
      BY <1>2, <1>3, <3>1 DEF Base, Typing, VolumeTyping
    <3>4. opening'.pc = "cancel"
      BY <3>1 DEF Base, Typing, OpeningTyping, OpeningState
    <3> QED
      BY <1>1, <1>8, <3>2, <3>3, <3>4 DEF OpeningOK, IsOpening, Present
  <2> QED
    BY <2>1, <2>2
<1> QED
  BY <1>4, <1>5, <1>6, <1>7, <1>9 DEF Base, Typing

(* A device control that is not waiting for the volume thread, and starts  *)
(* none.                                                                   *)
NoneOpens ==
  \A d \in Drives : volume'[d] # NoDevice /\ volume'[d].thread = "open" =>
    Present(d) /\ volume[d].thread = "open"

LEMMA DeviceControlBase ==
  ASSUME Base, Nobody \notin Threads, root = Nobody \/ client[root].pc # "wait",
         UNCHANGED <<context, opening, aborter, request>>, VolumeTyping', NoneOpens,
         ClientTyping' /\ MutexOK' /\ DriveOK'
  PROVE  Base'
<1>1. opening.pc = "idle"
  BY NothingOpens
<1>2. OpeningOK'
  BY <1>1, StaysClosed DEF NoneOpens, Present
<1>3. ContextTyping' /\ OpeningTyping' /\ RequestTyping'
  BY DEF Base, Typing, ContextTyping, OpeningTyping, RequestTyping
<1> QED
  BY <1>2, <1>3 DEF Base, Typing

LEMMA VolumeStays ==
  ASSUME Base, UNCHANGED <<volume, last>>
  PROVE  VolumeTyping' /\ NoneOpens /\ Remains
  BY DEF Base, Typing, VolumeTyping, NoneOpens, Remains, Present, PresentAfter

LEMMA DeviceKeeps ==
  ASSUME Base, NEW d \in Drives, Present(d), NEW x \in Device,
         x.thread # "open" \/ volume[d].thread = "open",
         volume' = [volume EXCEPT ![d] = x], UNCHANGED last
  PROVE  VolumeTyping' /\ NoneOpens /\ Remains
<1>1. VolumeTyping' /\ Remains
  BY DeviceChanges DEF Base, Typing
<1>2. volume'[d] = x /\ \A e \in Drives \ {d} : volume'[e] = volume[e]
  BY DEF Base, Typing, VolumeTyping
<1> QED
  BY <1>1, <1>2 DEF NoneOpens, Present

LEMMA AfterUnmountRests ==
  ASSUME Base, NEW t \in Threads
  PROVE  AfterUnmount(t) \in Client /\ AfterUnmount(t).pc \in Resting
<1>1. client[t] \in Client
  BY DEF Base, Typing, ClientTyping
<1>2. \A pc \in ClientPcs : [client[t] EXCEPT !.pc = pc] \in Client
      /\ [client[t] EXCEPT !.pc = pc].pc = pc
  BY <1>1 DEF Client
<1> QED
  BY <1>2, IdleRecord DEF AfterUnmount, Resting, ClientPcs

LEMMA EndsKeeps ==
  ASSUME Base, Nobody \notin Threads, NEW t \in Threads, root = t, Ends(t)
  PROVE  ClientTyping' /\ MutexOK' /\ DriveOK'
<1>1. CASE root' = Nobody /\ client' = [client EXCEPT ![t] = AfterUnmount(t)]
  <2> DEFINE c == AfterUnmount(t)
  <2>1. c \in Client /\ c.pc \in Resting
    BY AfterUnmountRests
  <2>2. client' = [client EXCEPT ![t] = c]
    BY <1>1
  <2> HIDE DEF c
  <2> QED
    BY <1>1, <2>1, <2>2, ClientKeeps DEF Resting
<1>2. CASE root' = root /\ Go(t, "next")
  <2> DEFINE c == [client[t] EXCEPT !.pc = "next"]
  <2>1. c \in Client /\ c.pc = "next"
    BY DEF Base, Typing, ClientTyping, Client, ClientPcs
  <2>2. client' = [client EXCEPT ![t] = c]
    BY <1>2 DEF Go
  <2> HIDE DEF c
  <2> QED
    BY <1>2, <2>1, <2>2, ClientKeeps DEF Resting
<1> QED
  BY <1>1, <1>2 DEF Ends

LEMMA BeginControlBase ==
  ASSUME ConstantsOK, Base, NEW t \in Threads,
         Unmount(t) \/ UnmountAll(t) \/ (t = System /\ OnShutdownPending)
  PROVE  Base'
<1>1. /\ root = Nobody /\ root' = t
      /\ UNCHANGED <<volume, last, context, opening, aborter, request>>
      /\ Nobody \notin Threads
  BY DEF Unmount, UnmountAll, OnShutdownPending, ConstantsOK
<1>2. PICK c \in Client : /\ client' = [client EXCEPT ![t] = c]
                          /\ c.pc = "next" \/ (c.pc = "lock" /\ c.drive \in Drives
                                /\ Present(c.drive))
  <2>1. CASE Unmount(t)
    <3>1. PICK d \in Drives, force \in BOOLEAN :
            /\ Present(d)
            /\ client' = [client EXCEPT ![t] = [Idle EXCEPT !.pc = "lock", !.drive = d, !.force = force]]
      BY <2>1 DEF Unmount
    <3>2. [Idle EXCEPT !.pc = "lock", !.drive = d, !.force = force] \in Client
      BY IdleRecord DEF Client, ClientPcs
    <3>3. [Idle EXCEPT !.pc = "lock", !.drive = d, !.force = force].pc = "lock"
          /\ [Idle EXCEPT !.pc = "lock", !.drive = d, !.force = force].drive = d
      BY DEF Idle
    <3> QED
      BY <3>1, <3>2, <3>3
  <2>2. CASE UnmountAll(t) \/ (t = System /\ OnShutdownPending)
    <3>1. PICK force \in BOOLEAN :
            client' = [client EXCEPT ![t] = [Idle EXCEPT !.pc = "next", !.force = force, !.all = TRUE, !.max = last]]
      BY <2>2, Zenon DEF UnmountAll, OnShutdownPending
    <3>2. last \in Int
      BY DEF Base, Typing, VolumeTyping
    <3>3. [Idle EXCEPT !.pc = "next", !.force = force, !.all = TRUE, !.max = last] \in Client
      BY <3>2, IdleRecord DEF Client, ClientPcs
    <3>4. [Idle EXCEPT !.pc = "next", !.force = force, !.all = TRUE, !.max = last].pc = "next"
      BY DEF Idle
    <3> QED
      BY <3>1, <3>3, <3>4
  <2> QED
    BY <2>1, <2>2
<1>3. VolumeTyping' /\ NoneOpens /\ Remains
  BY <1>1, VolumeStays
<1>4. ClientTyping' /\ MutexOK' /\ DriveOK'
  BY <1>1, <1>2, <1>3, ClientKeeps DEF Resting, Remains
<1> QED
  BY <1>1, <1>3, <1>4, DeviceControlBase

LEMMA ThreadStartedBase ==
  ASSUME ConstantsOK, Base, NEW t \in Threads, ThreadStarted(t)
  PROVE  Base'
<1>1. /\ root = t /\ root' = t
      /\ UNCHANGED <<volume, last, context, opening, aborter, request>> /\ Nobody \notin Threads
      /\ client[t].pc = "wait" /\ Go(t, "unregister")
            /\ volume[client[t].drive].thread \in {"serving", "gone"}
  BY DEF ThreadStarted, At, ConstantsOK
<1>2. opening.pc = "idle"
  BY <1>1 DEF Base, OpeningOK
<1>3. VolumeTyping' /\ NoneOpens /\ Remains
  BY <1>1, VolumeStays
<1>4. ClientTyping' /\ MutexOK' /\ DriveOK'
  BY <1>1, <1>3, ClientMoves DEF ClientPcs, Resting
<1>5. OpeningOK'
  BY <1>1, <1>2, StaysClosed DEF Present
<1>6. ContextTyping' /\ OpeningTyping' /\ RequestTyping'
  BY <1>1 DEF Base, Typing, ContextTyping, OpeningTyping, RequestTyping
<1> QED
  BY <1>3, <1>4, <1>5, <1>6 DEF Base, Typing

LEMMA MountEndsBase ==
  ASSUME ConstantsOK, Base, NEW t \in Threads, MountEnds(t)
  PROVE  Base'
<1> DEFINE d == client[t].drive
           x == [volume[d] EXCEPT !.id = last + 1]
<1>1. /\ root = t /\ root' = t /\ UNCHANGED <<context, aborter, request>> /\ Nobody \notin Threads
      /\ client[t].pc = "mounted"
      /\ opening' = NotOpening
      /\ \/ last' = last + 1 /\ volume' = [volume EXCEPT ![d] = x] /\ Go(t, "letter")
         \/ Go(t, "delete") /\ UNCHANGED <<volume, last>>
  BY DEF MountEnds, At, ConstantsOK
<1>2. d \in Drives /\ Present(d) /\ volume[d] \in Device
  BY <1>1, DeviceRecords DEF Base, Typing, DriveOK, Resting
<1>3. last + 1 \in Nat
  BY DEF Base, Typing, VolumeTyping
<1>4. x \in Device /\ x.thread = volume[d].thread
  BY <1>2, <1>3 DEF Device
<1> HIDE DEF x
<1>5. opening.pc = "idle" /\ opening'.pc = "idle"
  BY <1>1, NothingOpens DEF NotOpening
<1>6. VolumeTyping' /\ OpeningOK' /\ Remains
  <2>1. CASE UNCHANGED <<volume, last>>
    BY <1>5, <2>1, VolumeStays, StaysClosed DEF Present
  <2>2. CASE last' = last + 1 /\ volume' = [volume EXCEPT ![d] = x]
    <3>1. VolumeTyping'
      BY <1>2, <1>3, <1>4, <2>2 DEF Base, Typing, VolumeTyping
    <3>2. volume'[d] = x /\ \A e \in Drives \ {d} : volume'[e] = volume[e]
      BY <1>2, <2>2 DEF Base, Typing, VolumeTyping
    <3>3. Remains
      BY <1>4, <3>2, DeviceIsPresent DEF Remains, Present, PresentAfter
    <3> QED
      BY <1>2, <1>4, <1>5, <3>1, <3>2, <3>3, StaysClosed DEF Present
  <2> QED
    BY <1>1, <2>1, <2>2
<1>7. ClientTyping' /\ MutexOK' /\ DriveOK'
  BY <1>1, <1>6, ClientMoves DEF ClientPcs, Resting
<1>8. OpeningTyping'
  BY <1>1 DEF OpeningTyping, OpeningState, NotOpening, ConstantsOK
<1>9. ContextTyping' /\ RequestTyping'
  BY <1>1 DEF Base, Typing, ContextTyping, RequestTyping
<1> QED
  BY <1>6, <1>7, <1>8, <1>9 DEF Base, Typing

LEMMA CheckDriveLetterBase ==
  ASSUME ConstantsOK, Base, NEW t \in Threads, CheckDriveLetter(t)
  PROVE  Base'
<1>1. /\ root = t /\ UNCHANGED <<volume, last, context, opening, aborter, request>>
      /\ Nobody \notin Threads /\ client[t].pc = "letter"
      /\ \/ client' = [client EXCEPT ![t] = Idle] /\ root' = Nobody
         \/ Go(t, "delete") /\ UNCHANGED root
  BY DEF CheckDriveLetter, At, ConstantsOK
<1>2. VolumeTyping' /\ NoneOpens /\ Remains
  BY <1>1, VolumeStays
<1>3. ClientTyping' /\ MutexOK' /\ DriveOK'
  <2>1. CASE Go(t, "delete") /\ UNCHANGED root
    BY <1>1, <1>2, <2>1, ClientMoves DEF ClientPcs, Resting
  <2>2. CASE client' = [client EXCEPT ![t] = Idle] /\ root' = Nobody
    BY <1>1, <2>2, IdleRecord, ClientKeeps DEF Resting
  <2> QED
    BY <1>1, <2>1, <2>2
<1> QED
  BY <1>1, <1>2, <1>3, DeviceControlBase

(* Unmounting, one step after another.                                     *)
LEMMA NextVolumeBase ==
  ASSUME ConstantsOK, Base, NEW t \in Threads, NextVolume(t)
  PROVE  Base'
<1>1. /\ root = t /\ root' \in {t, Nobody}
      /\ UNCHANGED <<volume, last, context, opening, aborter, request>>
      /\ Nobody \notin Threads /\ client[t].pc = "next"
  BY DEF NextVolume, At, ConstantsOK
<1>2. VolumeTyping' /\ NoneOpens /\ Remains
  BY <1>1, VolumeStays
<1>3. PICK c \in Client : /\ client' = [client EXCEPT ![t] = c]
                          /\ \/ c.pc \in Resting /\ root' = Nobody
                             \/ c.pc = "next" /\ root' = t
                             \/ c.pc = "lock" /\ root' = t /\ c.drive \in Drives /\ Present(c.drive)
  <2>1. CASE root' = Nobody /\ client' = [client EXCEPT ![t] = AfterUnmount(t)]
    BY <2>1, AfterUnmountRests
  <2>2. CASE root' = t /\ \E d \in Drives, pc \in {"lock", "next"} :
                 /\ Present(d)
                 /\ client' = [client EXCEPT ![t] = [client[t] EXCEPT !.max = volume[d].id - 1, !.drive = d, !.pc = pc]]
    <3>1. PICK d \in Drives, pc \in {"lock", "next"} :
                 /\ Present(d)
                 /\ client' = [client EXCEPT ![t] = [client[t] EXCEPT !.max = volume[d].id - 1, !.drive = d, !.pc = pc]]
      BY <2>2
    <3>2. volume[d].id - 1 \in Int
      BY <3>1, DeviceRecords DEF Base, Typing, Device
    <3> DEFINE c == [client[t] EXCEPT !.max = volume[d].id - 1, !.drive = d, !.pc = pc]
    <3>3. c \in Client /\ c.pc = pc /\ c.drive = d
      BY <3>2 DEF Base, Typing, ClientTyping, Client, ClientPcs
    <3>4. client' = [client EXCEPT ![t] = c]
      BY <3>1
    <3> HIDE DEF c
    <3> QED
      BY <2>2, <3>1, <3>3, <3>4
  <2> QED
    BY <1>1, <2>1, <2>2, ZenonT(60) DEF NextVolume, HighestUniqueId
<1>4. ClientTyping' /\ MutexOK' /\ DriveOK'
  BY <1>1, <1>2, <1>3, ClientKeeps DEF Resting, Remains
<1> QED
  BY <1>1, <1>2, <1>4, DeviceControlBase

LEMMA LockFilesystemBase ==
  ASSUME ConstantsOK, Base, NEW t \in Threads, LockFilesystem(t)
  PROVE  Base'
<1>1. /\ root = t /\ UNCHANGED <<volume, last, context, opening, aborter, request>>
      /\ Nobody \notin Threads /\ client[t].pc = "lock"
      /\ (Go(t, "mark") /\ UNCHANGED root) \/ Ends(t)
  BY DEF LockFilesystem, At, ConstantsOK
<1>2. VolumeTyping' /\ NoneOpens /\ Remains
  BY <1>1, VolumeStays
<1>3. ClientTyping' /\ MutexOK' /\ DriveOK'
  BY <1>1, <1>2, ClientMoves, EndsKeeps DEF Resting, ClientPcs
<1> QED
  BY <1>1, <1>2, <1>3, DeviceControlBase

LEMMA StopVolumeBase ==
  ASSUME ConstantsOK, Base, NEW t \in Threads,
         MarkShuttingDown(t) \/ RefuseHolders(t) \/ TCStopVolumeThread(t)
  PROVE  Base'
<1> DEFINE d == client[t].drive
<1>1. /\ root = t /\ root' = t /\ UNCHANGED <<last, context, opening, aborter, request>>
      /\ Nobody \notin Threads /\ client[t].pc \in {"mark", "remove", "delete"}
      /\ \E pc \in {"remove", "drain", "stopped"} : Go(t, pc)
  BY DEF MarkShuttingDown, RefuseHolders, TCStopVolumeThread, At, ConstantsOK
<1>2. d \in Drives /\ Present(d) /\ volume[d] \in Device
  BY <1>1, DeviceRecords DEF Base, Typing, DriveOK, Resting
<1>3. PICK x \in Device : volume' = [volume EXCEPT ![d] = x]
      /\ (x.thread # "open" \/ volume[d].thread = "open")
  <2>1. CASE MarkShuttingDown(t)
    <3> DEFINE x == [volume[d] EXCEPT !.shutting = TRUE]
    <3>1. x \in Device /\ x.thread = volume[d].thread
      BY <1>2 DEF Device
    <3>2. volume' = [volume EXCEPT ![d] = x]
      BY <2>1 DEF MarkShuttingDown
    <3> HIDE DEF x
    <3> QED
      BY <3>1, <3>2
  <2>2. CASE RefuseHolders(t)
    <3> DEFINE x == [volume[d] EXCEPT !.removed = TRUE]
    <3>1. x \in Device /\ x.thread = volume[d].thread
      BY <1>2 DEF Device
    <3>2. volume' = [volume EXCEPT ![d] = x]
      BY <2>2 DEF RefuseHolders
    <3> HIDE DEF x
    <3> QED
      BY <3>1, <3>2
  <2>3. CASE TCStopVolumeThread(t)
    <3> DEFINE old == volume[d].thread
               new == CASE old = "serving" -> "quit" [] old = "none" -> "gone" [] OTHER -> old
               x == [volume[d] EXCEPT !.thread = new]
    <3>1. new \in {"none", "open", "serving", "quit", "gone"} /\ (new = "open" => old = "open")
      BY <1>2 DEF Device
    <3> HIDE DEF new
    <3>2. x \in Device /\ x.thread = new
      BY <1>2, <3>1 DEF Device
    <3>3. volume' = [volume EXCEPT ![d] = x]
      BY <2>3 DEF TCStopVolumeThread, new
    <3> HIDE DEF x
    <3> QED
      BY <3>1, <3>2, <3>3
  <2> QED
    BY <2>1, <2>2, <2>3
<1>4. VolumeTyping' /\ NoneOpens /\ Remains
  BY <1>1, <1>2, <1>3, DeviceKeeps
<1>5. ClientTyping' /\ MutexOK' /\ DriveOK'
  BY <1>1, <1>4, ClientMoves DEF Resting, ClientPcs
<1> QED
  BY <1>1, <1>4, <1>5, DeviceControlBase

LEMMA WaitForHoldersBase ==
  ASSUME ConstantsOK, Base, NEW t \in Threads, WaitForHolders(t)
  PROVE  Base'
<1> DEFINE d == client[t].drive
           hit == volume[d].protected /\ volume[d].triggered
           c == [client[t] EXCEPT !.pc = "delete", !.triggered = hit]
<1>1. /\ root = t /\ root' = t /\ UNCHANGED <<volume, last, context, opening, aborter, request>>
      /\ Nobody \notin Threads /\ client[t].pc = "drain" /\ client' = [client EXCEPT ![t] = c]
  BY DEF WaitForHolders, At, ConstantsOK
<1>2. hit \in BOOLEAN
  OBVIOUS
<1> HIDE DEF hit
<1>3. c \in Client /\ c.pc = "delete" /\ c.drive = d
  BY <1>2 DEF Base, Typing, ClientTyping, Client, ClientPcs
<1> HIDE DEF c
<1>4. d \in Drives /\ Present(d)
  BY <1>1 DEF Base, DriveOK, Resting
<1>5. VolumeTyping' /\ NoneOpens /\ Remains
  BY <1>1, VolumeStays
<1>6. ClientTyping' /\ MutexOK' /\ DriveOK'
  BY <1>1, <1>3, <1>4, <1>5, ClientKeeps DEF Resting, Remains
<1> QED
  BY <1>1, <1>5, <1>6, DeviceControlBase

LEMMA DeleteDeviceBase ==
  ASSUME ConstantsOK, Base, NEW t \in Threads, DeleteDevice(t)
  PROVE  Base'
<1> DEFINE d == client[t].drive
<1>1. /\ root = t /\ UNCHANGED <<last, context, opening, aborter, request>>
      /\ Nobody \notin Threads /\ client[t].pc = "stopped" /\ Ends(t)
      /\ volume' = [volume EXCEPT ![d] = NoDevice]
  BY DEF DeleteDevice, At, ConstantsOK
<1>2. VolumeTyping' /\ NoneOpens
  BY <1>1 DEF Base, Typing, VolumeTyping, NoneOpens, Present
<1>3. ClientTyping' /\ MutexOK' /\ DriveOK'
  BY <1>1, EndsKeeps
<1> QED
  BY <1>1, <1>2, <1>3, DeviceControlBase

LEMMA OpeningIsOpen ==
  ASSUME IsOpening
  PROVE  Opening \in Drives /\ Present(Opening) /\ volume[Opening].thread = "open"
  BY DEF IsOpening, Opening

(* The volume thread, and whoever else does not own the mutex.             *)
LEMMA OthersBase ==
  ASSUME Base, UNCHANGED <<root, client, last>>, VolumeTyping', ContextTyping', OpeningTyping',
         RequestTyping',
         Remains, OpeningOK'
  PROVE  Base'
  BY ClientStays DEF Base, Typing

(* The volume thread ends the mount, or goes on with it.                   *)
LEMMA OpeningAdvances ==
  ASSUME Base, IsOpening, UNCHANGED <<root, client, last>>,
         \/ UNCHANGED volume /\ opening'.pc # "idle"
         \/ /\ opening'.pc = "idle"
            /\ \E thread \in {"serving", "gone"} : volume' = [volume EXCEPT ![Opening].thread = thread]
  PROVE  VolumeTyping' /\ Remains /\ OpeningOK'
<1> DEFINE d == client[root].drive
<1>1. /\ Opening = d /\ d \in Drives /\ Present(d) /\ volume[d] \in Device
      /\ volume[d].thread = "open"
      /\ opening.pc # "idle"
  BY OpeningIsOpen, DeviceRecords DEF Base, Typing, OpeningOK
<1>2. CASE UNCHANGED volume /\ opening'.pc # "idle"
  BY <1>1, <1>2 DEF Base, Typing, VolumeTyping, Remains, Present, PresentAfter, OpeningOK
<1>3. CASE /\ opening'.pc = "idle"
           /\ \E thread \in {"serving", "gone"} : volume' = [volume EXCEPT ![Opening].thread = thread]
  <2>1. PICK thread \in {"serving", "gone"} : volume' = [volume EXCEPT ![d] = [volume[d] EXCEPT !.thread = thread]]
    BY <1>1, <1>3
  <2> DEFINE x == [volume[d] EXCEPT !.thread = thread]
  <2>2. x \in Device /\ x.thread # "open"
    BY <1>1 DEF Device
  <2>3. volume' = [volume EXCEPT ![d] = x]
    BY <2>1
  <2> HIDE DEF x
  <2>4. VolumeTyping' /\ Remains
    BY <1>1, <2>2, <2>3, DeviceChanges DEF Base, Typing
  <2>5. \A e \in Drives : volume'[e] # NoDevice => volume'[e].thread # "open"
    BY <1>1, <2>2, <2>3 DEF Base, Typing, VolumeTyping, OpeningOK, Present
  <2> QED
    BY <1>3, <2>4, <2>5 DEF OpeningOK, Present
<1> QED
  BY <1>2, <1>3

(* What the steps of the volume thread do.                                 *)
LEMMA OpeningSteps ==
  ASSUME ConstantsOK, Base,
         MountCancelRequested \/ ResetAbortKeyDerivation \/ DeriveKey \/ TestHeader \/ StartQueue
  PROVE  /\ IsOpening /\ UNCHANGED <<root, client, last, givenUp, aborter, request>>
         /\ OpeningTyping' /\ opening'.right = opening.right
         /\ \/ UNCHANGED volume /\ opening'.pc # "idle"
            \/ /\ opening'.pc = "idle"
               /\ \E thread \in {"serving", "gone"} : volume' = [volume EXCEPT ![Opening].thread = thread]
         /\ context' = context \/ context' = [context EXCEPT !.keyAbort = TRUE]
              \/ context' = [context EXCEPT !.keyAbort = FALSE]
<1>1. OpeningTyping /\ opening \in OpeningState
  BY DEF Base, Typing, OpeningTyping
<1> USE DEF OpeningTyping
<1>2. CASE MountCancelRequested
  BY <1>1, <1>2 DEF MountCancelRequested, Fails, OpeningState, ConstantsOK
<1>3. CASE ResetAbortKeyDerivation
  BY <1>1, <1>3 DEF ResetAbortKeyDerivation, Reset, OpeningState, ConstantsOK
<1>4. CASE DeriveKey
  BY <1>1, <1>4 DEF DeriveKey, OpeningState, ConstantsOK
<1>5. CASE TestHeader
  <2>1. IsOpening /\ opening.pc = "test" /\ UNCHANGED <<root, client, last, givenUp, aborter, request>>
    BY <1>5 DEF TestHeader
  <2>2. /\ context' = context \/ context' = [context EXCEPT !.keyAbort = TRUE]
        /\ \/ \E status \in {"abort", "wrong"} : Fails(status)
           \/ opening' = [opening EXCEPT !.pc = "queue"] /\ UNCHANGED volume
           \/ opening' = [opening EXCEPT !.pc = "cancel", !.attempt = opening.attempt + 1]
                 /\ UNCHANGED volume
    BY <1>5 DEF TestHeader
  <2>3. CASE \E status \in {"abort", "wrong"} : Fails(status)
    BY <1>1, <2>1, <2>2, <2>3 DEF Fails, OpeningState, ConstantsOK
  <2>4. CASE opening' = [opening EXCEPT !.pc = "queue"] /\ UNCHANGED volume
    BY <1>1, <2>1, <2>2, <2>4 DEF OpeningState, ConstantsOK
  <2>5. CASE opening' = [opening EXCEPT !.pc = "cancel", !.attempt = opening.attempt + 1]
        /\ UNCHANGED volume
    <3>1. opening.attempt + 1 \in Int
      BY <1>1 DEF OpeningState
    <3>2. \A n \in Int : [opening EXCEPT !.pc = "cancel", !.attempt = n] \in OpeningState
            /\ [opening EXCEPT !.pc = "cancel", !.attempt = n].pc = "cancel"
            /\ [opening EXCEPT !.pc = "cancel", !.attempt = n].right = opening.right
      BY <1>1 DEF OpeningState
    <3>3. opening' \in OpeningState /\ opening'.pc = "cancel" /\ opening'.right = opening.right
      BY <2>5, <3>1, <3>2, Zenon
    <3> QED
      BY <2>1, <2>2, <2>5, <3>3
  <2> QED
    BY <2>2, <2>3, <2>4, <2>5
<1>6. CASE StartQueue
  BY <1>1, <1>6 DEF StartQueue, Fails, OpeningState, ConstantsOK
<1> QED
  BY <1>2, <1>3, <1>4, <1>5, <1>6

LEMMA OpeningBase ==
  ASSUME ConstantsOK, Base,
         MountCancelRequested \/ ResetAbortKeyDerivation \/ DeriveKey \/ TestHeader \/ StartQueue
  PROVE  Base'
<1>1. VolumeTyping' /\ Remains /\ OpeningOK'
  BY OpeningSteps, OpeningAdvances
<1>2. ContextTyping'
  BY OpeningSteps DEF Base, Typing, ContextTyping, Context
<1>3. RequestTyping'
  BY OpeningSteps DEF Base, Typing, RequestTyping
<1> QED
  BY <1>1, <1>2, <1>3, OpeningSteps, OthersBase

LEMMA VolumeThreadQuitsBase ==
  ASSUME Base, NEW d \in Drives, VolumeThreadQuits(d)
  PROVE  Base'
<1> DEFINE x == [volume[d] EXCEPT !.thread = "gone"]
<1>1. /\ Present(d) /\ volume[d].thread = "quit" /\ volume' = [volume EXCEPT ![d] = x]
      /\ UNCHANGED <<root, client, last, context, opening, aborter, request>>
  BY DEF VolumeThreadQuits
<1>2. x \in Device /\ x.thread = "gone"
  BY <1>1, DeviceRecords DEF Base, Typing, Device
<1> HIDE DEF x
<1>3. VolumeTyping' /\ NoneOpens /\ Remains
  BY <1>1, <1>2, DeviceKeeps
<1>4. \A e \in Drives : volume[e].thread = "open" => volume'[e] = volume[e]
  BY <1>1 DEF Base, Typing, VolumeTyping
<1>5. OpeningOK'
  BY <1>1, <1>3, <1>4 DEF Base, DriveOK, OpeningOK, NoneOpens, Present, Resting
<1>6. ContextTyping' /\ OpeningTyping' /\ RequestTyping'
  BY <1>1 DEF Base, Typing, ContextTyping, OpeningTyping, RequestTyping
<1> QED
  BY <1>1, <1>3, <1>5, <1>6, OthersBase

LEMMA AborterBase ==
  ASSUME Base, NEW a \in Aborters, AbortPendingMount(a) \/ RequestAbort(a) \/ RequestKeyAbort(a)
  PROVE  Base'
<1>1. UNCHANGED <<root, client, volume, last, opening, request>>
  BY DEF AbortPendingMount, RequestAbort, RequestKeyAbort
<1>2. VolumeTyping' /\ Remains
  BY <1>1, VolumeStays
<1>3. FirstFlag \in Context /\ SecondFlag \in Context
  BY DEF FirstFlag, SecondFlag, Base, Typing, ContextTyping, Context
<1>4. NotAborting \in AborterState
      /\ \A b \in AborterState : [b EXCEPT !.pc = "key"] \in AborterState
  BY DEF NotAborting, AborterState
<1>5. ContextTyping'
  <2>1. CASE AbortPendingMount(a)
    BY <2>1 DEF AbortPendingMount, Base, Typing, ContextTyping, Context, AborterState
  <2>2. CASE RequestAbort(a)
    BY <1>3, <1>4, <2>2 DEF RequestAbort, Base, Typing, ContextTyping
  <2>3. CASE RequestKeyAbort(a)
    BY <1>3, <1>4, <2>3 DEF RequestKeyAbort, Base, Typing, ContextTyping
  <2> QED
    BY <2>1, <2>2, <2>3
<1>6. OpeningTyping' /\ RequestTyping' /\ OpeningOK'
  BY <1>1 DEF Base, Typing, OpeningTyping, RequestTyping, OpeningOK, Present
<1> QED
  BY <1>1, <1>2, <1>5, <1>6, OthersBase

(* A request changes the count and the mark of protection, nothing else.   *)
LEMMA RequestSteps ==
  ASSUME Base, NEW r \in Requests, Dispatch(r) \/ AcquireRemoveLock(r) \/ Answer(r)
  PROVE  /\ UNCHANGED <<root, client, last, givenUp, context, opening, aborter>> /\ RequestTyping'
         /\ \/ UNCHANGED volume
            \/ \E d \in Drives, x \in Device :
                 /\ Present(d) /\ x.thread = volume[d].thread /\ x.id = volume[d].id
                       /\ x.removed = volume[d].removed
                 /\ volume' = [volume EXCEPT ![d] = x]
<1>1. CASE Dispatch(r)
  <2>1. \A d \in Drives : Mounted(d) => volume[d].id \in Int
    BY DeviceRecords DEF Mounted, Base, Typing, Device
  <2> QED
    BY <1>1, <2>1 DEF Dispatch, Mounted, Base, Typing, RequestTyping, RequestState
<1>2. CASE AcquireRemoveLock(r)
  <2> DEFINE d == request[r].drive
             x == [volume[d] EXCEPT !.lock = volume[d].lock + 1]
  <2>1. RequestTyping' /\ UNCHANGED <<root, client, last, givenUp, context, opening, aborter>>
    BY <1>2 DEF AcquireRemoveLock, NoRequest, Base, Typing, RequestTyping, RequestState
  <2>2. request[r].pc = "tested" /\ d \in Drives
    BY <1>2 DEF AcquireRemoveLock, Base, Typing, RequestTyping
  <2>3. CASE IdOf(d) = request[r].id /\ ~volume[d].removed
    <3>1. Present(d) /\ volume[d] \in Device
      BY <2>2, <2>3, DeviceRecords DEF IdOf, Base, Typing, RequestTyping
    <3>2. x \in Device /\ x.thread = volume[d].thread /\ x.id = volume[d].id
          /\ x.removed = volume[d].removed
      BY <3>1 DEF Device
    <3>3. volume' = [volume EXCEPT ![d] = x]
      BY <1>2, <2>3 DEF AcquireRemoveLock
    <3> HIDE DEF x
    <3> QED
      BY <2>1, <2>2, <3>1, <3>2, <3>3
  <2>4. CASE ~(IdOf(d) = request[r].id /\ ~volume[d].removed)
    BY <1>2, <2>1, <2>4 DEF AcquireRemoveLock
  <2> QED
    BY <2>3, <2>4
<1>3. CASE Answer(r)
  <2> DEFINE d == request[r].drive
  <2>1. RequestTyping' /\ UNCHANGED <<root, client, last, givenUp, context, opening, aborter>>
    BY <1>3 DEF Answer, NoRequest, Base, Typing, RequestTyping, RequestState
  <2>2. d \in Drives /\ Present(d) /\ volume[d] \in Device
    <3>1. d \in Drives /\ IdOf(d) = request[r].id /\ request[r].id \in Int /\ request[r].id > 0
      BY <1>3 DEF Answer, Base, Typing, RequestTyping, RequestState
    <3>2. Present(d)
      BY <3>1 DEF IdOf
    <3> QED
      BY <3>1, <3>2, DeviceRecords DEF Base, Typing
  <2>3. PICK hit \in BOOLEAN :
          volume' = [volume EXCEPT ![d].lock = @ - 1, ![d].triggered = @ \/ hit]
    BY <1>3, <2>2 DEF Answer, Device
  <2> DEFINE mark == volume[d].triggered \/ hit
             x == [volume[d] EXCEPT !.lock = volume[d].lock - 1, !.triggered = mark]
  <2>4. mark \in BOOLEAN
    OBVIOUS
  <2>5. volume' = [volume EXCEPT ![d] = x]
    BY <2>2, <2>3 DEF Base, Typing, VolumeTyping, Device
  <2> HIDE DEF mark
  <2>6. x \in Device /\ x.thread = volume[d].thread /\ x.id = volume[d].id
        /\ x.removed = volume[d].removed
    <3>1. volume[d].lock - 1 \in Int
      BY <2>2 DEF Device
    <3>2. \A n \in Int, b \in BOOLEAN :
            LET y == [volume[d] EXCEPT !.lock = n, !.triggered = b]
            IN y \in Device /\ y.thread = volume[d].thread /\ y.id = volume[d].id
                /\ y.removed = volume[d].removed
      BY <2>2 DEF Device
    <3> QED
      BY <2>4, <3>1, <3>2, Zenon
  <2> HIDE DEF x
  <2> QED
    BY <2>1, <2>2, <2>5, <2>6
<1> QED
  BY <1>1, <1>2, <1>3

LEMMA RequestBase ==
  ASSUME Base, NEW r \in Requests, Dispatch(r) \/ AcquireRemoveLock(r) \/ Answer(r)
  PROVE  Base'
<1>1. UNCHANGED <<root, client, last, context, opening, aborter>> /\ RequestTyping'
  BY RequestSteps
<1>2. VolumeTyping' /\ Remains /\ OpeningOK'
  <2>1. CASE UNCHANGED volume
    BY <1>1, <2>1, VolumeStays DEF Base, OpeningOK, Present
  <2>2. CASE ~UNCHANGED volume
    <3>1. PICK d \in Drives, x \in Device :
            Present(d) /\ x.thread = volume[d].thread /\ volume' = [volume EXCEPT ![d] = x]
      BY <2>2, RequestSteps
    <3>2. VolumeTyping' /\ NoneOpens /\ Remains
      BY <1>1, <3>1, DeviceKeeps DEF Device
    <3>3. \A e \in Drives : Present(e) => volume'[e].thread = volume[e].thread
      BY <3>1 DEF Base, Typing, VolumeTyping
    <3> QED
      BY <1>1, <3>2, <3>3 DEF Base, DriveOK, OpeningOK, NoneOpens, Present, Resting
  <2> QED
    BY <2>1, <2>2
<1>3. ContextTyping' /\ OpeningTyping'
  BY <1>1 DEF Base, Typing, ContextTyping, OpeningTyping
<1> QED
  BY <1>1, <1>2, <1>3, OthersBase

THEOREM BaseHolds == ASSUME ConstantsOK PROVE Spec => []Base
<1>1. Init => Base
  BY InitBase
<1>2. Base /\ [Next]_vars => Base'
  <2> SUFFICES ASSUME Base, [Next]_vars PROVE Base'
    OBVIOUS
  <2>1. CASE UNCHANGED vars
    BY <2>1 DEF vars, Base, Typing, VolumeTyping, ClientTyping, ContextTyping, OpeningTyping,
        RequestTyping,
                MutexOK, DriveOK, OpeningOK, Present
  <2>2. ASSUME NEW t \in Clients, ClientStep(t) PROVE Base'
    BY <2>2, MountBase, BeginBase, StartBase, ThreadStartedBase, MountEndsBase,
        CheckDriveLetterBase, BeginControlBase
    DEF ClientStep, Threads
  <2>3. ASSUME NEW t \in Threads, UnmountStep(t) PROVE Base'
    BY <2>3, NextVolumeBase, LockFilesystemBase, StopVolumeBase, WaitForHoldersBase,
        DeleteDeviceBase
    DEF UnmountStep
  <2>4. CASE OnShutdownPending
    BY <2>4, BeginControlBase DEF Threads
  <2>5. CASE MountCancelRequested \/ ResetAbortKeyDerivation \/ DeriveKey \/ TestHeader \/ StartQueue
    BY <2>5, OpeningBase
  <2>6. ASSUME NEW d \in Drives, VolumeThreadQuits(d) PROVE Base'
    BY <2>6, VolumeThreadQuitsBase
  <2>7. ASSUME NEW a \in Aborters,
        AbortPendingMount(a) \/ RequestAbort(a) \/ RequestKeyAbort(a) PROVE Base'
    BY <2>7, AborterBase
  <2>8. ASSUME NEW r \in Requests, Dispatch(r) \/ AcquireRemoveLock(r) \/ Answer(r) PROVE Base'
    BY <2>8, RequestBase
  <2> QED
    BY <2>1, <2>2, <2>3, <2>4, <2>5, <2>6, <2>7, <2>8 DEF Next
<1> QED
  BY <1>1, <1>2, PTL DEF Spec

-----------------------------------------------------------------------------
(* Aborts. *)

(* A step that leaves the context, the locals of the volume thread and of  *)
(* the aborting threads, and does not let go of a mount in progress.       *)
LEMMA AbortKeeps ==
  ASSUME AbortInv, UNCHANGED <<context, opening, aborter>>,
         ~context.active \/
           (root' = root /\ client'[root].pc \in {"sid", "start", "wait", "unregister"})
  PROVE  AbortInv'
  BY DEF AbortInv, ContextOK, AborterOK, KeyOK, AttemptOK, RightPasswordIsNotWrong

LEMMA NothingMounted ==
  ASSUME ConstantsOK, ContextOK,
         root = Nobody \/ client[root].pc \notin {"sid", "start", "wait", "unregister"}
  PROVE  ~context.active
  BY DEF ConstantsOK, ContextOK

LEMMA InitAbort == ConstantsOK /\ Init => AbortInv
  BY DEF Init, ConstantsOK, AbortInv, ContextOK, AborterOK, KeyOK, AttemptOK,
      RightPasswordIsNotWrong,
         NotOpening, NotAborting

LEMMA UnmountAbort ==
  ASSUME ConstantsOK, AbortInv, NEW t \in Threads,
         CheckDriveLetter(t) \/ Unmount(t) \/ UnmountAll(t) \/ UnmountStep(t) \/ OnShutdownPending
  PROVE  AbortInv'
<1>1. UNCHANGED <<context, opening, aborter>>
  BY DEF CheckDriveLetter, Unmount, UnmountAll, OnShutdownPending, UnmountStep, NextVolume, LockFilesystem,
      MarkShuttingDown,
         RefuseHolders, WaitForHolders, TCStopVolumeThread, DeleteDevice
<1>2. root = Nobody \/ client[root].pc \in {"letter", "next", "lock", "mark", "remove", "drain", "delete", "stopped"}
  BY DEF CheckDriveLetter, Unmount, UnmountAll, OnShutdownPending, UnmountStep, NextVolume, LockFilesystem,
      MarkShuttingDown,
         RefuseHolders, WaitForHolders, TCStopVolumeThread, DeleteDevice, At
<1>3. ~context.active
  BY <1>2, NothingMounted DEF AbortInv
<1> QED
  BY <1>1, <1>3, AbortKeeps

LEMMA MountAbort ==
  ASSUME ConstantsOK, Base, AbortInv, NEW t \in Clients, Mount(t) \/ MountEnds(t)
  PROVE  AbortInv'
<1>1. UNCHANGED <<context, aborter>> /\ (root = Nobody \/ client[root].pc = "mounted")
  BY DEF Mount, MountEnds, At
<1>2. ~context.active
  BY <1>1, NothingMounted DEF AbortInv
<1>3. opening'.pc = "idle" /\ opening'.status = "none"
  <2>1. opening' = NotOpening \/ \E right \in 0..Attempts : opening' = [NotOpening EXCEPT !.right = right]
    BY DEF Mount, MountEnds
  <2>2. \A right \in 0..Attempts : [NotOpening EXCEPT !.right = right].pc = "idle"
                                  /\ [NotOpening EXCEPT !.right = right].status = "none"
    BY DEF NotOpening
  <2>3. NotOpening.pc = "idle" /\ NotOpening.status = "none"
    BY DEF NotOpening
  <2> QED
    BY <2>1, <2>2, <2>3, Zenon
<1> QED
  BY <1>1, <1>2, <1>3
  DEF AbortInv, ContextOK, AborterOK, KeyOK, AttemptOK, RightPasswordIsNotWrong

LEMMA RegisterAbort ==
  ASSUME ConstantsOK, Base, AbortInv, NEW t \in Clients, RegisterMountCancelContext(t)
  PROVE  AbortInv'
<1>1. root = t /\ root' = t /\ client[t].pc = "register" /\ t \in Threads
      /\ UNCHANGED <<opening, aborter>>
      /\ Nobody \notin Threads
  BY DEF RegisterMountCancelContext, At, Threads, ConstantsOK
<1>2. client'[t].pc = "sid"
  BY <1>1 DEF RegisterMountCancelContext, Go, Base, Typing, ClientTyping, Client
<1>3. /\ context'.active /\ context'.user = Nobody /\ context'.seq = context.seq + 1
      /\ \A a \in Aborters : aborter[a].pc # "key"
  BY DEF RegisterMountCancelContext, RegisteredContext, ContextFree
<1>4. \A a \in Aborters : aborter[a].pc = "may" =>
        aborter[a].seq <= context'.seq /\ aborter[a].seq # context'.seq
  BY <1>3 DEF AbortInv, AborterOK, Base, Typing, ContextTyping, Context, AborterState
<1>5. opening.pc = "idle"
  BY <1>1, NothingOpens
<1> QED
  BY <1>1, <1>2, <1>3, <1>4, <1>5
  DEF AbortInv, ContextOK, AborterOK, KeyOK, AttemptOK, RightPasswordIsNotWrong

LEMMA SidAbort ==
  ASSUME ConstantsOK, Base, AbortInv, NEW t \in Clients, SetMountCancelContextUserSid(t)
  PROVE  AbortInv'
<1>1. root = t /\ root' = t /\ t \in Threads /\ UNCHANGED <<opening, aborter>>
      /\ context' = [context EXCEPT !.user = UserOf[t]]
  BY DEF SetMountCancelContextUserSid, At, Threads
<1>2. client'[t].pc = "start"
  BY <1>1 DEF SetMountCancelContextUserSid, Go, Base, Typing, ClientTyping, Client
<1>3. context'.user = UserOf[t] /\ context'.active = context.active /\ context'.seq = context.seq
      /\ context'.userAbort = context.userAbort /\ context'.keyAbort = context.keyAbort
  BY <1>1 DEF Base, Typing, ContextTyping, Context
<1> QED
  BY <1>1, <1>2, <1>3
  DEF AbortInv, ContextOK, AborterOK, KeyOK, AttemptOK, RightPasswordIsNotWrong

LEMMA StartAbort ==
  ASSUME ConstantsOK, Base, AbortInv, NEW t \in Clients, TCStartVolumeThread(t)
  PROVE  AbortInv'
<1>1. root = t /\ root' = t /\ t \in Threads /\ client[t].pc = "start"
      /\ UNCHANGED <<context, aborter>>
      /\ Nobody \notin Threads
  BY DEF TCStartVolumeThread, At, Threads, ConstantsOK
<1>2. client'[t].pc \in {"wait", "unregister"}
  BY <1>1 DEF TCStartVolumeThread, Go, Base, Typing, ClientTyping, Client
<1>3. opening.pc = "idle"
  BY <1>1, NothingOpens
<1>4. /\ opening'.right = opening.right /\ opening'.status \in {opening.status, "error"}
      /\ opening'.pc = "idle" \/ (opening'.pc = "cancel" /\ opening'.attempt = 1)
  BY <1>3 DEF TCStartVolumeThread, Base, Typing, OpeningTyping, OpeningState
<1>5. AttemptOK'
  BY <1>4 DEF AttemptOK, Base, Typing, OpeningTyping, OpeningState, ConstantsOK
<1> QED
  BY <1>1, <1>2, <1>4, <1>5
  DEF AbortInv, ContextOK, AborterOK, KeyOK, RightPasswordIsNotWrong

LEMMA EndAbort ==
  ASSUME ConstantsOK, Base, AbortInv, NEW t \in Clients,
         ThreadStarted(t) \/ UnregisterMountCancelContext(t)
  PROVE  AbortInv'
<1>1. t \in Threads /\ Nobody \notin Threads
  BY DEF Threads, ConstantsOK
<1>2. CASE ThreadStarted(t)
  <2>1. root = t /\ root' = root /\ UNCHANGED <<context, opening, aborter>>
        /\ client'[t].pc = "unregister"
    BY <1>1, <1>2 DEF ThreadStarted, At, Go, Base, Typing, ClientTyping, Client
  <2> QED
    BY <2>1, AbortKeeps
<1>3. CASE UnregisterMountCancelContext(t)
  <2>1. root = t /\ client[t].pc = "unregister" /\ UNCHANGED <<opening, aborter>>
    BY <1>3 DEF UnregisterMountCancelContext, At
  <2>2. opening.pc = "idle"
    BY <1>1, <2>1, NothingOpens
  <2>3. ~context'.active /\ context'.seq = context.seq /\ context'.userAbort = context.userAbort
    BY <1>3 DEF UnregisterMountCancelContext, Base, Typing, ContextTyping, Context
  <2> QED
    BY <2>1, <2>2, <2>3
    DEF AbortInv, ContextOK, AborterOK, KeyOK, AttemptOK, RightPasswordIsNotWrong
<1> QED
  BY <1>2, <1>3

(* The volume thread leaves the context as far as an abort can tell.       *)
LEMMA OpeningAbort ==
  ASSUME ConstantsOK, Base, AbortInv,
         MountCancelRequested \/ ResetAbortKeyDerivation \/ DeriveKey \/ TestHeader \/ StartQueue
  PROVE  AbortInv'
<1>1. /\ UNCHANGED <<root, client, aborter>> /\ opening'.right = opening.right
      /\ context'.active = context.active /\ context'.user = context.user
            /\ context'.seq = context.seq
      /\ context'.userAbort = context.userAbort
  BY OpeningSteps DEF Base, Typing, ContextTyping, Context
<1>2. ContextOK' /\ AborterOK'
  BY <1>1 DEF AbortInv, ContextOK, AborterOK
<1>3. opening \in OpeningState /\ context \in Context
  BY DEF Base, Typing, OpeningTyping, ContextTyping
<1>4. CASE MountCancelRequested
  <2>1. \/ opening'.pc = "idle" /\ opening'.status \in {"abort", "error"}
        \/ opening'.pc = "reset" /\ opening'.status = opening.status
              /\ opening'.attempt = opening.attempt
           /\ opening.pc = "cancel"
    BY <1>3, <1>4 DEF MountCancelRequested, Fails, OpeningState
  <2> QED
    BY <1>1, <1>2, <2>1 DEF AbortInv, KeyOK, AttemptOK, RightPasswordIsNotWrong
<1>5. CASE ResetAbortKeyDerivation
  <2>1. /\ opening'.pc = "derive" /\ opening'.status = opening.status
        /\ opening'.attempt = opening.attempt
        /\ opening.pc = "reset" /\ ~context'.keyAbort
    BY <1>3, <1>5 DEF ResetAbortKeyDerivation, Reset, OpeningState, Context
  <2> QED
    BY <1>1, <1>2, <2>1 DEF AbortInv, KeyOK, AttemptOK, RightPasswordIsNotWrong
<1>6. CASE DeriveKey
  <2>1. /\ opening'.pc = "test" /\ opening'.status = opening.status
        /\ opening'.attempt = opening.attempt
        /\ opening.pc = "derive" /\ (opening'.garbled => context.keyAbort)
    BY <1>3, <1>6 DEF DeriveKey, OpeningState, Context
  <2> QED
    BY <1>1, <1>2, <2>1 DEF AbortInv, KeyOK, AttemptOK, RightPasswordIsNotWrong
<1>7. CASE TestHeader
  <2>1. opening.pc = "test" /\ opening.attempt \in Int /\ opening.right \in 0..Attempts
        /\ Attempts \in Nat
    BY <1>3, <1>7 DEF TestHeader, OpeningState, ConstantsOK
  <2>2. \/ opening'.pc = "idle" /\ opening'.status = "abort"
        \/ opening'.pc = "queue" /\ opening'.status = opening.status
        \/ /\ ~context.userAbort /\ ~(opening.right = opening.attempt /\ ~opening.garbled)
           /\ \/ opening'.pc = "cancel" /\ opening'.attempt = opening.attempt + 1
                 /\ opening'.status = opening.status
              \/ opening'.pc = "idle" /\ opening'.status = "wrong" /\ ~(opening.attempt < Attempts)
    BY <1>3, <1>7 DEF TestHeader, Fails, OpeningState
  <2>3. ~context.userAbort /\ ~(opening.right = opening.attempt /\ ~opening.garbled)
        /\ opening.right > 0
          => opening.attempt < opening.right
    BY <1>3, <2>1 DEF AbortInv, KeyOK, AttemptOK, OpeningState
  <2> QED
    BY <1>1, <1>2, <2>1, <2>2, <2>3 DEF AbortInv, KeyOK, AttemptOK, RightPasswordIsNotWrong
<1>8. CASE StartQueue
  <2>1. opening'.pc = "idle" /\ opening'.status \in {"ok", "error"}
    BY <1>3, <1>8 DEF StartQueue, Fails, OpeningState
  <2> QED
    BY <1>1, <1>2, <2>1 DEF AbortInv, KeyOK, AttemptOK, RightPasswordIsNotWrong
<1> QED
  BY <1>4, <1>5, <1>6, <1>7, <1>8

LEMMA AborterAbort ==
  ASSUME ConstantsOK, Base, AbortInv, NEW a \in Aborters,
         AbortPendingMount(a) \/ RequestAbort(a) \/ RequestKeyAbort(a)
  PROVE  AbortInv'
<1>1. UNCHANGED <<root, client, opening>>
  BY DEF AbortPendingMount, RequestAbort, RequestKeyAbort
<1>2. \A b \in Aborters \ {a} : aborter'[b] = aborter[b]
  BY DEF AbortPendingMount, RequestAbort, RequestKeyAbort, Base, Typing, ContextTyping
<1>3. CASE AbortPendingMount(a)
  <2>1. /\ UNCHANGED context /\ aborter'[a].pc = "may" /\ aborter'[a].seq = context.seq
        /\ context.active
        /\ UserOf[a] \in {Admin, context.user} /\ UserOf[a] # Nobody
    BY <1>3 DEF AbortPendingMount, Base, Typing, ContextTyping, ConstantsOK
  <2> QED
    BY <1>1, <1>2, <2>1
    DEF AbortInv, ContextOK, AborterOK, KeyOK, AttemptOK, RightPasswordIsNotWrong, Base, Typing,
        ContextTyping, Context
<1>4. CASE RequestAbort(a)
  <2>1. CASE SameMount(a)
    <3>1. /\ aborter'[a].pc = "key" /\ context'.userAbort
          /\ context'.active = context.active /\ context'.user = context.user
                /\ context'.seq = context.seq
      BY <1>4, <2>1 DEF RequestAbort, FirstFlag, Base, Typing, ContextTyping, Context, AborterState
    <3> QED
      BY <1>1, <1>2, <3>1
      DEF AbortInv, ContextOK, AborterOK, KeyOK, AttemptOK, RightPasswordIsNotWrong
  <2>2. CASE ~SameMount(a)
    <3>1. UNCHANGED context /\ aborter'[a].pc = "idle"
      BY <1>4, <2>2 DEF RequestAbort, NotAborting, Base, Typing, ContextTyping
    <3> QED
      BY <1>1, <1>2, <3>1
      DEF AbortInv, ContextOK, AborterOK, KeyOK, AttemptOK, RightPasswordIsNotWrong
  <2> QED
    BY <2>1, <2>2
<1>5. CASE RequestKeyAbort(a)
  <2>1. /\ aborter'[a].pc = "idle" /\ context'.userAbort = context.userAbort
        /\ context'.active = context.active /\ context'.user = context.user
              /\ context'.seq = context.seq
    BY <1>5 DEF RequestKeyAbort, SecondFlag, NotAborting, Base, Typing, ContextTyping, Context
  <2>2. context.userAbort
    BY <1>5 DEF RequestKeyAbort, AbortInv, AborterOK
  <2> QED
    BY <1>1, <1>2, <2>1, <2>2
    DEF AbortInv, ContextOK, AborterOK, KeyOK, AttemptOK, RightPasswordIsNotWrong
<1> QED
  BY <1>3, <1>4, <1>5

THEOREM AbortHolds == ASSUME ConstantsOK PROVE Spec => []AbortInv
<1>1. Init => AbortInv
  BY InitAbort
<1>2. Base /\ AbortInv /\ [Next]_vars => AbortInv'
  <2> SUFFICES ASSUME Base, AbortInv, [Next]_vars PROVE AbortInv'
    OBVIOUS
  <2>1. CASE UNCHANGED vars
    BY <2>1 DEF vars, AbortInv, ContextOK, AborterOK, KeyOK, AttemptOK, RightPasswordIsNotWrong
  <2>2. ASSUME NEW t \in Clients, ClientStep(t) PROVE AbortInv'
    BY <2>2, MountAbort, RegisterAbort, SidAbort, StartAbort, EndAbort, UnmountAbort
    DEF ClientStep, Threads
  <2>3. ASSUME NEW t \in Threads, UnmountStep(t) PROVE AbortInv'
    BY <2>3, UnmountAbort
  <2>4. CASE OnShutdownPending
    BY <2>4, UnmountAbort DEF Threads
  <2>5. CASE MountCancelRequested \/ ResetAbortKeyDerivation \/ DeriveKey \/ TestHeader \/ StartQueue
    BY <2>5, OpeningAbort
  <2>6. ASSUME UNCHANGED <<root, client, context, opening, aborter>> PROVE AbortInv'
    BY <2>6 DEF AbortInv, ContextOK, AborterOK, KeyOK, AttemptOK, RightPasswordIsNotWrong
  <2>7. ASSUME NEW d \in Drives, VolumeThreadQuits(d) PROVE AbortInv'
    BY <2>6, <2>7 DEF VolumeThreadQuits
  <2>8. ASSUME NEW a \in Aborters,
        AbortPendingMount(a) \/ RequestAbort(a) \/ RequestKeyAbort(a) PROVE AbortInv'
    BY <2>8, AborterAbort
  <2>9. ASSUME NEW r \in Requests, Dispatch(r) \/ AcquireRemoveLock(r) \/ Answer(r) PROVE AbortInv'
    BY <2>6, <2>9, RequestSteps
  <2> QED
    BY <2>1, <2>2, <2>3, <2>4, <2>5, <2>7, <2>8, <2>9 DEF Next
<1> QED
  BY <1>1, <1>2, BaseHolds, PTL DEF Spec

(* A mount with the right password is never told that the password is      *)
(* wrong, however many aborts come in and whatever they cut short.         *)
THEOREM RightPassword == ASSUME ConstantsOK PROVE Spec => []RightPasswordIsNotWrong
<1>1. AbortInv => RightPasswordIsNotWrong
  BY DEF AbortInv
<1> QED
  BY <1>1, AbortHolds, PTL

(* An abort only hits the mount whose user was entitled to ask for it: of  *)
(* all steps RequestAbort alone sets the user's flag, and it compares the  *)
(* sequence number of the mount it looked at.                              *)
THEOREM AbortsHitTheirMount == ASSUME ConstantsOK PROVE Spec => AbortHitsItsMount
<1> DEFINE Hit ==
      context'.userAbort /\ ~context.userAbort =>
        /\ root # Nobody
        /\ \E a \in Aborters : aborter[a].pc = "may" /\ aborter'[a].pc # "may"
             /\ UserOf[a] \in {Admin, UserOf[root]}
<1>1. Base /\ AbortInv /\ [Next]_vars => [Hit]_vars
  <2> SUFFICES ASSUME Base, AbortInv, [Next]_vars, context'.userAbort, ~context.userAbort
               PROVE  UNCHANGED vars \/ Hit
    OBVIOUS
  <2>1. context \in Context
    BY DEF Base, Typing, ContextTyping
  <2>2. CASE \E a \in Aborters : RequestAbort(a)
    <3>1. PICK a \in Aborters : RequestAbort(a)
      BY <2>2
    <3>2. aborter[a].pc = "may" /\ SameMount(a)
      BY <3>1 DEF RequestAbort
    <3>3. aborter'[a].pc = "key"
      BY <3>1, <3>2 DEF RequestAbort, Base, Typing, ContextTyping, AborterState
    <3>4. root \in Threads /\ UserOf[a] \in {Admin, UserOf[root]}
      BY <3>2 DEF SameMount, AbortInv, ContextOK, AborterOK
    <3> QED
      BY <3>2, <3>3, <3>4 DEF ConstantsOK
  <2>3. ASSUME context' = context \/ context'.userAbort = context.userAbort \/ ~context'.userAbort PROVE Hit
    BY <2>3
  <2>4. ASSUME NEW t \in Clients, ClientStep(t) PROVE Hit
    <3>1. context' = context \/ context' = RegisteredContext(client[t].drive)
          \/ context' = [context EXCEPT !.user = UserOf[t]]
          \/ context' = [context EXCEPT !.active = FALSE, !.keyAbort = TRUE, !.user = Nobody]
      BY <2>4 DEF ClientStep, Mount, RegisterMountCancelContext, SetMountCancelContextUserSid,
          TCStartVolumeThread,
                  ThreadStarted, UnregisterMountCancelContext, MountEnds, CheckDriveLetter, Unmount,
          UnmountAll
    <3>2. \A u : [context EXCEPT !.user = u].userAbort = context.userAbort
      BY <2>1 DEF Context
    <3>3. [context EXCEPT !.active = FALSE, !.keyAbort = TRUE, !.user = Nobody].userAbort = context.userAbort
      BY <2>1 DEF Context
    <3>4. RegisteredContext(client[t].drive).userAbort = FALSE
      BY DEF RegisteredContext
    <3> HIDE DEF Hit
    <3> QED
      BY <2>3, <3>1, <3>2, <3>3, <3>4
  <2>5. ASSUME NEW t \in Threads, UnmountStep(t) PROVE Hit
    BY <2>3, <2>5 DEF UnmountStep, NextVolume, LockFilesystem, MarkShuttingDown, RefuseHolders,
        WaitForHolders,
                      TCStopVolumeThread, DeleteDevice
  <2>6. CASE OnShutdownPending
    BY <2>3, <2>6 DEF OnShutdownPending
  <2>7. CASE MountCancelRequested \/ ResetAbortKeyDerivation \/ DeriveKey \/ TestHeader \/ StartQueue
    BY <2>1, <2>3, <2>7, OpeningSteps DEF Context
  <2>8. ASSUME NEW d \in Drives, VolumeThreadQuits(d) PROVE Hit
    BY <2>3, <2>8 DEF VolumeThreadQuits
  <2>9. ASSUME NEW a \in Aborters, AbortPendingMount(a) \/ RequestKeyAbort(a) PROVE Hit
    BY <2>1, <2>3, <2>9 DEF AbortPendingMount, RequestKeyAbort, SecondFlag, Context
  <2>10. ASSUME NEW r \in Requests, Dispatch(r) \/ AcquireRemoveLock(r) \/ Answer(r) PROVE Hit
    BY <2>3, <2>10, RequestSteps
  <2> HIDE DEF Hit
  <2> QED
    BY <2>2, <2>4, <2>5, <2>6, <2>7, <2>8, <2>9, <2>10 DEF Next
<1> QED
  BY <1>1, BaseHolds, AbortHolds, PTL DEF Spec, AbortHitsItsMount

-----------------------------------------------------------------------------
(* Counters. *)

(* Volume ids are given in the order of mounts, no more than one by each   *)
(* mount that was registered, and requests carry ids that were given.      *)
Mounting == {"register", "sid", "start", "wait", "unregister", "mounted"}
CounterInv ==
  /\ last <= context.seq /\ context.seq <= MaxMounts /\ opening.attempt \in 0..Attempts
  /\ \A d \in Drives : Present(d) => volume[d].id <= last
  /\ \A r \in Requests : request[r].pc # "idle" => request[r].id <= last
  /\ givenUp \subseteq 0 .. last
  /\ \A t \in Threads :
       /\ client[t].pc = "register" => context.seq < MaxMounts
       /\ client[t].pc \in Mounting \ {"register"} => last < context.seq

(* No thread comes nearer to the end of a mount, and no device gets an id. *)
LEMMA CounterKeeps ==
  ASSUME CounterInv, UNCHANGED last, context'.seq = context.seq, opening'.attempt \in 0..Attempts,
         \A d \in Drives : PresentAfter(d) =>
           volume'[d].id = 0 \/ (Present(d) /\ volume'[d].id = volume[d].id),
         \A t \in Threads :
           \/ client'[t].pc \notin Mounting
           \/ client[t].pc = client'[t].pc
           \/ client[t].pc \in Mounting \ {"register"} /\ client'[t].pc # "register",
         last \in Nat, givenUp' \subseteq 0 .. last,
         \A r \in Requests : request'[r].pc # "idle" => request'[r].id <= last
  PROVE  CounterInv'
  BY DEF CounterInv, Mounting, PresentAfter, Present

(* What a step changes in the record of one device.                        *)
LEMMA DeviceIdKept ==
  ASSUME Base, NEW d \in Drives, NEW x,
         volume' = [volume EXCEPT ![d] = x], x = NoDevice \/ x.id = volume[d].id \/ x.id = 0,
         x # NoDevice /\ x.id # 0 => Present(d)
  PROVE  \A e \in Drives : PresentAfter(e) =>
           volume'[e].id = 0 \/ (Present(e) /\ volume'[e].id = volume[e].id)
  BY DEF Base, Typing, VolumeTyping, PresentAfter, Present

LEMMA InitCounter == ConstantsOK /\ Init => CounterInv
<1> SUFFICES ASSUME ConstantsOK, Init PROVE CounterInv
  OBVIOUS
<1>1. last = 0 /\ context.seq = 0 /\ opening.attempt = 0
  BY DEF Init, NotOpening
<1>2. \A d \in Drives : ~Present(d)
  BY DEF Init, Present
<1>3. \A t \in Threads : client[t].pc = "idle"
  BY DEF Init, Idle
<1>4. givenUp = {} /\ \A r \in Requests : request[r].pc = "idle"
  BY DEF Init, NoRequest
<1> QED
  BY <1>1, <1>2, <1>3, <1>4 DEF CounterInv, ConstantsOK, Mounting

LEMMA MountCounter ==
  ASSUME ConstantsOK, Base, CounterInv, NEW t \in Clients, Mount(t)
  PROVE  CounterInv'
<1>1. UNCHANGED <<last, givenUp, context, request>> /\ context.seq < MaxMounts
  BY DEF Mount
<1>2. PICK d \in Drives, host \in {0} \cup {IdOf(e) : e \in {e \in Drives : Mounted(e)}},
           protected \in BOOLEAN, right \in 0 .. Attempts :
        /\ volume' = [volume EXCEPT ![d] = NewDevice(host, protected)]
        /\ opening' = [NotOpening EXCEPT !.right = right]
        /\ client' = [client EXCEPT ![t] = [Idle EXCEPT !.pc = "register", !.drive = d]]
  BY DEF Mount
<1>3. opening'.attempt = 0
  BY <1>2 DEF NotOpening
<1>4. \A e \in Drives : PresentAfter(e) =>
        volume'[e].id = 0 \/ (Present(e) /\ volume'[e].id = volume[e].id)
  BY <1>2, DeviceIdKept DEF NewDevice
<1>5. \A s \in Threads : client'[s].pc = "register" \/ client'[s].pc = client[s].pc
  BY <1>2 DEF Base, Typing, ClientTyping, Idle
<1> QED
  BY <1>1, <1>3, <1>4, <1>5 DEF CounterInv, Base, Typing, VolumeTyping, ConstantsOK, PresentAfter,
      Present, Mounting

LEMMA RegisterCounter ==
  ASSUME ConstantsOK, Base, CounterInv, NEW t \in Clients, RegisterMountCancelContext(t)
  PROVE  CounterInv'
<1>1. UNCHANGED <<last, givenUp, opening, volume, request>> /\ context'.seq = context.seq + 1
  BY DEF RegisterMountCancelContext, RegisteredContext
<1>2. t \in Threads /\ root = t /\ client[t].pc = "register" /\ client'[t].pc = "sid"
  BY DEF RegisterMountCancelContext, At, Go, Threads, Base, Typing, ClientTyping
<1>3. \A s \in Threads \ {t} : client'[s].pc = client[s].pc /\ client[s].pc \in Resting
  BY <1>2 DEF RegisterMountCancelContext, Go, Base, MutexOK, Typing, ClientTyping
<1>4. context.seq < MaxMounts /\ last \in Nat /\ context.seq \in Nat /\ MaxMounts \in Nat
  BY <1>2 DEF CounterInv, Base, Typing, VolumeTyping, ContextTyping, Context, ConstantsOK
<1> QED
  BY <1>1, <1>2, <1>3, <1>4 DEF CounterInv, Mounting, Resting, Present

(* The steps of a mount after it was registered, but for its last one.     *)
LEMMA MountingCounter ==
  ASSUME ConstantsOK, Base, CounterInv, NEW t \in Clients,
         SetMountCancelContextUserSid(t) \/ TCStartVolumeThread(t) \/ ThreadStarted(t)
           \/ UnregisterMountCancelContext(t)
  PROVE  CounterInv'
<1>1. t \in Threads /\ UNCHANGED <<last, givenUp, request>> /\ last \in Nat
  BY DEF Threads, SetMountCancelContextUserSid, TCStartVolumeThread, ThreadStarted,
         UnregisterMountCancelContext, Base, Typing, VolumeTyping
<1>2. context'.seq = context.seq
  BY DEF SetMountCancelContextUserSid, TCStartVolumeThread, ThreadStarted,
         UnregisterMountCancelContext, Base, Typing, ContextTyping, Context
<1>3. opening'.attempt \in 0..Attempts
  <2>1. opening \in OpeningState /\ opening.attempt \in 0..Attempts /\ 1 \in 0..Attempts
    BY DEF Base, Typing, OpeningTyping, CounterInv, ConstantsOK
  <2> QED
    BY <2>1 DEF OpeningState, SetMountCancelContextUserSid, TCStartVolumeThread, ThreadStarted,
         UnregisterMountCancelContext
<1>4. client[t].pc \in Mounting \ {"register"}
  BY DEF SetMountCancelContextUserSid, TCStartVolumeThread, ThreadStarted,
         UnregisterMountCancelContext, At, Mounting
<1>5. \A s \in Threads : client'[s].pc = client[s].pc \/ (s = t /\ client'[s].pc # "register")
  <2>1. \E x \in {"start", "wait", "unregister", "mounted"} : client' = [client EXCEPT ![t].pc = x]
    BY DEF SetMountCancelContextUserSid, TCStartVolumeThread, ThreadStarted,
         UnregisterMountCancelContext, Go
  <2>2. client[t] \in Client /\ client \in [Threads -> Client]
    BY <1>1 DEF Base, Typing, ClientTyping
  <2> QED
    BY <2>1, <2>2 DEF Client
<1>6. client[t].drive \in Drives /\ Present(client[t].drive)
  BY <1>1, <1>4 DEF Base, DriveOK, Mounting, Resting
<1>7. volume[client[t].drive] \in Device
  BY <1>6, DeviceRecords DEF Base, Typing
<1>8. \/ UNCHANGED volume
      \/ volume' = [volume EXCEPT ![client[t].drive] = [@ EXCEPT !.user = UserOf[t]]]
      \/ volume' = [volume EXCEPT ![client[t].drive] = [@ EXCEPT !.thread = "open"]]
  BY DEF SetMountCancelContextUserSid, TCStartVolumeThread, ThreadStarted,
         UnregisterMountCancelContext
<1>9. \A e \in Drives : PresentAfter(e) =>
        volume'[e].id = 0 \/ (Present(e) /\ volume'[e].id = volume[e].id)
  BY <1>6, <1>7, <1>8 DEF Device, Base, Typing, VolumeTyping, PresentAfter, Present
<1>10. givenUp' \subseteq 0 .. last
       /\ \A r \in Requests : request'[r].pc # "idle" => request'[r].id <= last
  BY <1>1 DEF CounterInv
<1> QED
  BY <1>1, <1>2, <1>3, <1>4, <1>5, <1>9, <1>10, CounterKeeps

LEMMA MountEndsCounter ==
  ASSUME ConstantsOK, Base, CounterInv, NEW t \in Clients, MountEnds(t)
  PROVE  CounterInv'
<1>1. /\ t \in Threads /\ client[t].pc = "mounted" /\ root = t
      /\ UNCHANGED <<givenUp, context, request>>
  BY DEF Threads, MountEnds, At
<1>2. opening'.attempt \in 0..Attempts
  BY DEF MountEnds, NotOpening, ConstantsOK
<1>3. client[t].drive \in Drives /\ Present(client[t].drive)
  BY <1>1 DEF Base, DriveOK, Resting
<1>4. volume[client[t].drive] \in Device
  BY <1>3, DeviceRecords DEF Base, Typing
<1>5. last < context.seq /\ last \in Nat /\ context.seq \in Nat
  BY <1>1 DEF CounterInv, Mounting, Base, Typing, VolumeTyping, ContextTyping, Context
<1>6. \A s \in Threads \ {t} : client'[s].pc = client[s].pc /\ client[s].pc \in Resting
  BY <1>1 DEF MountEnds, Go, Base, MutexOK, Typing, ClientTyping
<1>7. client'[t].pc \in {"letter", "delete"}
  BY <1>1 DEF MountEnds, Go, Base, Typing, ClientTyping, Client
<1>8. CASE UNCHANGED <<volume, last>>
  BY <1>1, <1>2, <1>5, <1>6, <1>7, <1>8 DEF CounterInv, Mounting, Resting, Present
<1>9. CASE last' = last + 1 /\ volume' = [volume EXCEPT ![client[t].drive].id = last + 1]
  <2>1. \A d \in Drives : Present(d)' => volume'[d].id <= last'
    <3>1. volume'[client[t].drive].id = last + 1
      BY <1>3, <1>4, <1>9 DEF Device, Base, Typing, VolumeTyping
    <3>2. \A d \in Drives \ {client[t].drive} : volume'[d] = volume[d]
      BY <1>9 DEF Base, Typing, VolumeTyping
    <3>3. \A d \in Drives : Present(d) => volume[d].id <= last /\ volume[d].id \in Nat
      BY DeviceRecords DEF CounterInv, Base, Typing, Device
    <3> QED
      BY <1>5, <1>9, <3>1, <3>2, <3>3 DEF Present
  <2>2. \A r \in Requests : request'[r].pc # "idle" => request'[r].id <= last'
    <3>1. \A r \in Requests : request[r].id \in Int
      BY DEF Base, Typing, RequestTyping, RequestState
    <3> QED
      BY <1>1, <1>5, <1>9, <3>1 DEF CounterInv
  <2>3. givenUp' \subseteq 0 .. last'
    BY <1>1, <1>5, <1>9 DEF CounterInv
  <2> QED
    BY <1>1, <1>2, <1>5, <1>6, <1>7, <1>9, <2>1, <2>2, <2>3 DEF CounterInv, Mounting, Resting
<1> QED
  BY <1>8, <1>9 DEF MountEnds

LEMMA CheckDriveLetterCounter ==
  ASSUME ConstantsOK, Base, CounterInv, NEW t \in Clients, CheckDriveLetter(t)
  PROVE  CounterInv'
<1>1. /\ t \in Threads /\ client[t].pc = "letter" /\ root = t
      /\ UNCHANGED <<volume, last, context, opening, request>>
  BY DEF Threads, CheckDriveLetter, At
<1>2. client[t].drive \in Drives /\ Present(client[t].drive)
  BY <1>1 DEF Base, DriveOK, Resting
<1>3. volume[client[t].drive].id \in 0 .. last /\ last \in Nat
  BY <1>2, DeviceRecords DEF CounterInv, Base, Typing, VolumeTyping, Device
<1>4. givenUp' \subseteq 0 .. last
  BY <1>3 DEF CheckDriveLetter, CounterInv
<1>5. \A s \in Threads \ {t} : client'[s].pc = client[s].pc
  BY <1>1 DEF CheckDriveLetter, Go, Base, Typing, ClientTyping
<1>6. client'[t].pc \in {"idle", "delete"}
  BY <1>1 DEF CheckDriveLetter, Go, Idle, Base, Typing, ClientTyping, Client
<1> QED
  BY <1>1, <1>4, <1>5, <1>6 DEF CounterInv, Mounting, Present

(* A device control that mounts nothing.                                   *)
LEMMA ControlCounter ==
  ASSUME ConstantsOK, Base, CounterInv, NEW t \in Threads,
         Unmount(t) \/ UnmountAll(t) \/ UnmountStep(t) \/ (t = System /\ OnShutdownPending)
  PROVE  CounterInv'
<1>1. UNCHANGED <<last, givenUp, context, opening, request>> /\ last \in Nat
  BY DEF Unmount, UnmountAll, UnmountStep, NextVolume, LockFilesystem, MarkShuttingDown,
         RefuseHolders, WaitForHolders, TCStopVolumeThread, DeleteDevice, OnShutdownPending,
         Base, Typing, VolumeTyping
<1>2. \A s \in Threads : client'[s].pc = client[s].pc \/ client'[s].pc \notin Mounting
  <2>1. ASSUME NEW x, Go(t, x)
        PROVE  \A s \in Threads : client'[s].pc = client[s].pc \/ (client'[s].pc = x)
    BY <2>1 DEF Go, Base, Typing, ClientTyping
  <2>2. AfterUnmount(t).pc \notin Mounting
    <3>1. client[t] \in Client
      BY DEF Base, Typing, ClientTyping
    <3> QED
      BY <3>1 DEF AfterUnmount, Client, Idle, Mounting
  <2>3. Ends(t) => \A s \in Threads : client'[s].pc = client[s].pc \/ client'[s].pc \notin Mounting
    BY <2>1, <2>2 DEF Ends, Base, Typing, ClientTyping, Mounting
  <2>4. CASE Unmount(t) \/ UnmountAll(t)
    <3>1. PICK c : client' = [client EXCEPT ![t] = c] /\ c.pc \in {"lock", "next"}
      <4>1. \A d, f : [Idle EXCEPT !.pc = "lock", !.drive = d, !.force = f].pc = "lock"
        BY DEF Idle
      <4>2. \A f : [Idle EXCEPT !.pc = "next", !.force = f, !.all = TRUE, !.max = last].pc = "next"
        BY DEF Idle
      <4>3. CASE Unmount(t)
        <5>1. PICK d \in Drives, force \in BOOLEAN :
                client' = [client EXCEPT ![t] =
                             [Idle EXCEPT !.pc = "lock", !.drive = d, !.force = force]]
          BY <4>3 DEF Unmount
        <5> DEFINE x == [Idle EXCEPT !.pc = "lock", !.drive = d, !.force = force]
        <5>2. client' = [client EXCEPT ![t] = x] /\ x.pc \in {"lock", "next"}
          BY <4>1, <5>1
        <5> HIDE DEF x
        <5> QED
          BY <5>2
      <4>4. CASE UnmountAll(t)
        BY <4>2, <4>4, Zenon DEF UnmountAll
      <4> QED
        BY <2>4, <4>3, <4>4
    <3> QED
      BY <3>1 DEF Base, Typing, ClientTyping, Mounting
  <2>5. CASE NextVolume(t)
    <3>1. client[t] \in Client
      BY DEF Base, Typing, ClientTyping
    <3>2. PICK c : client' = [client EXCEPT ![t] = c] /\ c.pc \notin Mounting
      <4>1. \A m, d : \A x \in {"lock", "next"} :
              [client[t] EXCEPT !.max = m, !.drive = d, !.pc = x].pc = x
        BY <3>1 DEF Client
      <4>2. CASE client' = [client EXCEPT ![t] = AfterUnmount(t)]
        BY <4>2, <2>2
      <4>3. CASE client' # [client EXCEPT ![t] = AfterUnmount(t)]
        <5>1. PICK d : client' = [client EXCEPT ![t].max = volume[d].id - 1, ![t].drive = d,
                             ![t].pc = IF Accessible(t, d) THEN "lock" ELSE "next"]
          BY <2>5, <4>3 DEF NextVolume
        <5> DEFINE c == [client[t] EXCEPT !.max = volume[d].id - 1, !.drive = d,
                             !.pc = IF Accessible(t, d) THEN "lock" ELSE "next"]
        <5>2. client' = [client EXCEPT ![t] = c]
          BY <5>1, <3>1 DEF Base, Typing, ClientTyping
        <5>3. c.pc \in {"lock", "next"}
          BY <4>1
        <5> HIDE DEF c
        <5> QED
          BY <5>2, <5>3 DEF Mounting
      <4> QED
        BY <4>2, <4>3
    <3> QED
      BY <3>2 DEF Base, Typing, ClientTyping
  <2>6. CASE LockFilesystem(t) \/ DeleteDevice(t)
    <3>1. Go(t, "mark") \/ Ends(t)
      BY <2>6 DEF LockFilesystem, DeleteDevice
    <3>2. CASE Go(t, "mark")
      BY <3>2, <2>1 DEF Mounting
    <3> QED
      BY <3>1, <3>2, <2>3
  <2>7. CASE MarkShuttingDown(t) \/ RefuseHolders(t) \/ TCStopVolumeThread(t)
    BY <2>7, <2>1 DEF MarkShuttingDown, RefuseHolders, TCStopVolumeThread, Mounting
  <2>8. CASE WaitForHolders(t)
    <3>1. client[t] \in Client
      BY DEF Base, Typing, ClientTyping
    <3> QED
      BY <2>8, <3>1 DEF WaitForHolders, Base, Typing, ClientTyping, Mounting, Client
  <2>9. CASE t = System /\ OnShutdownPending
    BY <2>9 DEF OnShutdownPending, Base, Typing, ClientTyping, Mounting, Idle
  <2> QED
    BY <2>4, <2>5, <2>6, <2>7, <2>8, <2>9 DEF UnmountStep
<1>3. \A e \in Drives : PresentAfter(e) =>
        volume'[e].id = 0 \/ (Present(e) /\ volume'[e].id = volume[e].id)
  <2>1. ASSUME UNCHANGED volume
        PROVE  \A e \in Drives : PresentAfter(e) =>
                 volume'[e].id = 0 \/ (Present(e) /\ volume'[e].id = volume[e].id)
    BY <2>1 DEF PresentAfter, Present
  <2>2. CASE MarkShuttingDown(t) \/ RefuseHolders(t) \/ TCStopVolumeThread(t)
    <3> DEFINE d == client[t].drive
    <3>1. d \in Drives /\ Present(d)
      BY <2>2 DEF MarkShuttingDown, RefuseHolders, TCStopVolumeThread, At, Base, DriveOK, Resting
    <3>2. volume[d] \in Device
      BY <3>1, DeviceRecords DEF Base, Typing
    <3>3. PICK x : volume' = [volume EXCEPT ![d] = x] /\ x.id = volume[d].id
      BY <2>2, <3>2 DEF MarkShuttingDown, RefuseHolders, TCStopVolumeThread, Device
    <3> HIDE DEF d
    <3> QED
      BY <3>1, <3>3, DeviceIdKept
  <2>3. CASE DeleteDevice(t)
    <3> DEFINE d == client[t].drive
    <3>1. d \in Drives /\ volume' = [volume EXCEPT ![d] = NoDevice]
      BY <2>3 DEF DeleteDevice, At, Base, DriveOK, Resting
    <3> HIDE DEF d
    <3> QED
      BY <3>1, DeviceIdKept
  <2> QED
    BY <2>1, <2>2, <2>3 DEF Unmount, UnmountAll, UnmountStep, NextVolume, LockFilesystem,
        WaitForHolders, OnShutdownPending
<1> QED
  BY <1>1, <1>2, <1>3, CounterKeeps DEF CounterInv

(* The volume thread.                                                      *)
LEMMA OpeningCounter ==
  ASSUME ConstantsOK, Base, CounterInv,
         MountCancelRequested \/ ResetAbortKeyDerivation \/ DeriveKey \/ TestHeader \/ StartQueue
  PROVE  CounterInv'
<1>1. UNCHANGED <<last, givenUp, client, request>> /\ last \in Nat
  BY DEF MountCancelRequested, ResetAbortKeyDerivation, DeriveKey, TestHeader, StartQueue,
         Base, Typing, VolumeTyping
<1>2. context \in Context /\ opening \in OpeningState
  BY DEF Base, Typing, ContextTyping, OpeningTyping
<1>3. context'.seq = context.seq
  BY <1>2 DEF MountCancelRequested, ResetAbortKeyDerivation, DeriveKey, TestHeader, StartQueue,
         Reset, Context
<1>4. opening'.attempt \in 0..Attempts
  <2>1. opening.attempt \in 0..Attempts
    BY DEF CounterInv
  <2>2. opening.attempt < Attempts => opening.attempt + 1 \in 0..Attempts
    BY <2>1 DEF ConstantsOK
  <2>3. \/ opening'.attempt = opening.attempt
        \/ opening.attempt < Attempts /\ opening'.attempt = opening.attempt + 1
    BY <1>2 DEF MountCancelRequested, ResetAbortKeyDerivation, DeriveKey, TestHeader, StartQueue,
         Fails, OpeningState
  <2> QED
    BY <2>1, <2>2, <2>3
<1>5. \A e \in Drives : PresentAfter(e) =>
        volume'[e].id = 0 \/ (Present(e) /\ volume'[e].id = volume[e].id)
  <2>1. IsOpening
    BY DEF MountCancelRequested, ResetAbortKeyDerivation, DeriveKey, TestHeader, StartQueue
  <2>2. Opening \in Drives /\ Present(Opening)
    BY <2>1 DEF IsOpening, Opening
  <2>3. volume[Opening] \in Device
    BY <2>2, DeviceRecords DEF Base, Typing
  <2>4. \/ UNCHANGED volume
        \/ \E y : volume' = [volume EXCEPT ![Opening] = [@ EXCEPT !.thread = y]]
    BY DEF MountCancelRequested, ResetAbortKeyDerivation, DeriveKey, TestHeader, StartQueue, Fails
  <2>5. CASE UNCHANGED volume
    BY <2>5 DEF PresentAfter, Present
  <2>6. CASE ~UNCHANGED volume
    <3>1. PICK y : volume' = [volume EXCEPT ![Opening] = [@ EXCEPT !.thread = y]]
      BY <2>4, <2>6
    <3>2. [volume[Opening] EXCEPT !.thread = y].id = volume[Opening].id
      BY <2>3 DEF Device
    <3> QED
      BY <2>2, <3>1, <3>2, DeviceIdKept
  <2> QED
    BY <2>5, <2>6
<1> QED
  BY <1>1, <1>3, <1>4, <1>5, CounterKeeps DEF CounterInv

(* The steps that change at most one device, and not its id.               *)
LEMMA OtherCounter ==
  ASSUME ConstantsOK, Base, CounterInv,
         \/ \E d \in Drives : VolumeThreadQuits(d)
         \/ \E a \in Aborters : AbortPendingMount(a) \/ RequestAbort(a) \/ RequestKeyAbort(a)
         \/ \E r \in Requests : Dispatch(r) \/ AcquireRemoveLock(r) \/ Answer(r)
  PROVE  CounterInv'
<1>1. UNCHANGED <<last, givenUp, client, opening>> /\ last \in Nat
  BY DEF VolumeThreadQuits, AbortPendingMount, RequestAbort, RequestKeyAbort, Dispatch,
         AcquireRemoveLock, Answer, Base, Typing, VolumeTyping
<1>2. context'.seq = context.seq
  <2>1. context \in Context
    BY DEF Base, Typing, ContextTyping
  <2> QED
    BY <2>1 DEF VolumeThreadQuits, AbortPendingMount, RequestAbort, RequestKeyAbort, Dispatch,
         AcquireRemoveLock, Answer, FirstFlag, SecondFlag, Context
<1>3. \A e \in Drives : PresentAfter(e) =>
        volume'[e].id = 0 \/ (Present(e) /\ volume'[e].id = volume[e].id)
  <2>1. ASSUME UNCHANGED volume
        PROVE  \A e \in Drives : PresentAfter(e) =>
                 volume'[e].id = 0 \/ (Present(e) /\ volume'[e].id = volume[e].id)
    BY <2>1 DEF PresentAfter, Present
  <2>2. ASSUME NEW d \in Drives, VolumeThreadQuits(d)
        PROVE  \A e \in Drives : PresentAfter(e) =>
                 volume'[e].id = 0 \/ (Present(e) /\ volume'[e].id = volume[e].id)
    <3>1. Present(d) /\ volume[d] \in Device
      BY <2>2, DeviceRecords DEF VolumeThreadQuits, Base, Typing
    <3>2. PICK x : volume' = [volume EXCEPT ![d] = x] /\ x.id = volume[d].id
      <4>1. volume' = [volume EXCEPT ![d] = [volume[d] EXCEPT !.thread = "gone"]]
        BY <2>2 DEF VolumeThreadQuits
      <4>2. [volume[d] EXCEPT !.thread = "gone"].id = volume[d].id
        BY <3>1 DEF Device
      <4> QED
        BY <4>1, <4>2
    <3> QED
      BY <3>1, <3>2, DeviceIdKept
  <2>3. ASSUME NEW r \in Requests, AcquireRemoveLock(r), ~UNCHANGED volume
        PROVE  \A e \in Drives : PresentAfter(e) =>
                 volume'[e].id = 0 \/ (Present(e) /\ volume'[e].id = volume[e].id)
    <3> DEFINE d == request[r].drive
    <3>1. d \in Drives /\ request[r].id > 0 /\ request[r].id \in Int /\ IdOf(d) = request[r].id
      BY <2>3 DEF AcquireRemoveLock, Base, Typing, RequestTyping, RequestState
    <3>2. Present(d) /\ volume[d] \in Device
      BY <3>1, DeviceRecords DEF IdOf, Base, Typing
    <3>3. PICK x : volume' = [volume EXCEPT ![d] = x] /\ x.id = volume[d].id
      BY <2>3, <3>2 DEF AcquireRemoveLock, Device
    <3> HIDE DEF d
    <3> QED
      BY <3>1, <3>2, <3>3, DeviceIdKept
  <2>4. ASSUME NEW r \in Requests, Answer(r)
        PROVE  \A e \in Drives : PresentAfter(e) =>
                 volume'[e].id = 0 \/ (Present(e) /\ volume'[e].id = volume[e].id)
    <3> DEFINE d == request[r].drive
    <3>1. d \in Drives /\ Present(d)
      <4>1. d \in Drives /\ IdOf(d) > 0
        BY <2>4 DEF Answer, Base, Typing, RequestTyping
      <4> QED
        BY <4>1 DEF IdOf
    <3>2. volume[d] \in Device
      BY <3>1, DeviceRecords DEF Base, Typing
    <3>3. PICK x : volume' = [volume EXCEPT ![d] = x] /\ x.id = volume[d].id
      <4>1. PICK hit : volume' = [volume EXCEPT ![d].lock = @ - 1, ![d].triggered = @ \/ hit]
        BY <2>4 DEF Answer
      <4> QED
        <5> DEFINE x == [volume[d] EXCEPT !.lock = @ - 1, !.triggered = @ \/ hit]
        <5>1. volume' = [volume EXCEPT ![d] = x]
          BY <4>1, <3>1 DEF Base, Typing, VolumeTyping
        <5>2. x.id = volume[d].id
          BY <3>2 DEF Device
        <5> HIDE DEF x
        <5> QED
          BY <5>1, <5>2
    <3> HIDE DEF d
    <3> QED
      BY <3>1, <3>3, DeviceIdKept
  <2> QED
    BY <2>1, <2>2, <2>3, <2>4 DEF AbortPendingMount, RequestAbort, RequestKeyAbort, Dispatch
<1>4. \A r \in Requests : request'[r].pc # "idle" => request'[r].id <= last
  <2>1. UNCHANGED request \/ \E r \in Requests : Dispatch(r) \/ AcquireRemoveLock(r) \/ Answer(r)
    BY DEF VolumeThreadQuits, AbortPendingMount, RequestAbort, RequestKeyAbort
  <2>2. ASSUME NEW r \in Requests, Dispatch(r)
        PROVE  \A s \in Requests : request'[s].pc # "idle" => request'[s].id <= last
    <3>1. PICK d \in Drives : Present(d) /\ request' = [request EXCEPT ![r] = [pc |-> "tested", drive |-> d, id |-> volume[d].id]]
      BY <2>2 DEF Dispatch, Mounted
    <3> QED
      BY <3>1 DEF CounterInv, Base, Typing, RequestTyping
  <2>3. ASSUME NEW r \in Requests, AcquireRemoveLock(r) \/ Answer(r)
        PROVE  \A s \in Requests : request'[s].pc # "idle" => request'[s].id <= last
    <3>1. request[r].pc # "idle" /\ request[r] \in RequestState
      BY <2>3 DEF AcquireRemoveLock, Answer, Base, Typing, RequestTyping
    <3>2. \/ request' = [request EXCEPT ![r] = NoRequest]
          \/ request' = [request EXCEPT ![r] = [request[r] EXCEPT !.pc = "queued"]]
      BY <2>3 DEF AcquireRemoveLock, Answer
    <3> QED
      BY <3>1, <3>2 DEF CounterInv, NoRequest, Base, Typing, RequestTyping, RequestState
  <2> QED
    BY <2>1, <2>2, <2>3 DEF CounterInv
<1> QED
  BY <1>1, <1>2, <1>3, <1>4, CounterKeeps DEF CounterInv

THEOREM CountersHold == ASSUME ConstantsOK PROVE Spec => []CounterInv
<1>1. Init => CounterInv
  BY InitCounter
<1>2. Base /\ CounterInv /\ [Next]_vars => CounterInv'
  <2> SUFFICES ASSUME Base, CounterInv, [Next]_vars PROVE CounterInv'
    OBVIOUS
  <2>1. CASE UNCHANGED vars
    BY <2>1 DEF vars, CounterInv, Present
  <2>2. ASSUME NEW t \in Clients, ClientStep(t) PROVE CounterInv'
    BY <2>2, MountCounter, RegisterCounter, MountingCounter, MountEndsCounter,
        CheckDriveLetterCounter, ControlCounter
    DEF ClientStep, Threads
  <2>3. ASSUME NEW t \in Threads, UnmountStep(t) PROVE CounterInv'
    BY <2>3, ControlCounter
  <2>4. CASE OnShutdownPending
    BY <2>4, ControlCounter DEF Threads
  <2>5. CASE \/ MountCancelRequested \/ ResetAbortKeyDerivation \/ DeriveKey \/ TestHeader
             \/ StartQueue
    BY <2>5, OpeningCounter
  <2> QED
    BY <2>1, <2>2, <2>3, <2>4, <2>5, OtherCounter DEF Next
<1> QED
  BY <1>1, <1>2, BaseHolds, PTL DEF Spec

-----------------------------------------------------------------------------
(* Requests. *)

LEMMA FiniteQueued == ASSUME ConstantsOK, NEW d PROVE IsFiniteSet(QueuedOn(d))
  BY FS_Subset DEF ConstantsOK, QueuedOn

LEMMA NoneQueued ==
  ASSUME Base, NEW d \in Drives, ~Present(d) \/ volume[d].id = 0
  PROVE  QueuedOn(d) = {}
  BY DEF Base, Typing, RequestTyping, QueuedOn, IdOf

(* What a step that leaves the requests does to a device: their volume     *)
(* stays what it is, and one that takes requests is served.                *)
Served(d) ==
  /\ PresentAfter(d) <=> Present(d)
  /\ Present(d) =>
       /\ volume'[d].id = volume[d].id /\ volume'[d].lock = volume[d].lock
       /\ QueuedOn(d) # {} /\ ~GivenUp(d) => volume'[d].thread = volume[d].thread
       /\ volume[d].id > 0 /\ ~volume'[d].removed /\ ~GivenUp(d) => volume'[d].thread = "serving"

LEMMA QueuedKept ==
  ASSUME UNCHANGED request, \A d \in Drives : Served(d)
  PROVE  \A d \in Drives : QueuedOn(d)' = QueuedOn(d)
<1>1. \A d \in Drives : IdOf(d)' = IdOf(d)
  BY DEF Served, PresentAfter, Present, IdOf
<1> QED
  BY <1>1 DEF QueuedOn

LEMMA RequestsKept ==
  ASSUME Base, RequestInv, UNCHANGED <<request, givenUp>>, \A d \in Drives : Served(d)
  PROVE  RequestsMeetAnOpenVolume' /\ CountOK' /\ ServingOK'
<1>1. \A d \in Drives : QueuedOn(d)' = QueuedOn(d)
  BY QueuedKept
<1>2. RequestsMeetAnOpenVolume'
  <2> SUFFICES ASSUME NEW r \in Requests, request[r].pc = "queued", request[r].id \notin givenUp
               PROVE  IdOf(request[r].drive)' = request[r].id
                   /\ volume'[request[r].drive].thread = "serving"
    BY DEF RequestsMeetAnOpenVolume
  <2>1. request[r].drive \in Drives /\ request[r].id > 0
    BY DEF Base, Typing, RequestTyping
  <2>2. IdOf(request[r].drive) = request[r].id /\ volume[request[r].drive].thread = "serving"
    BY DEF RequestInv, RequestsMeetAnOpenVolume
  <2>3. Present(request[r].drive) /\ r \in QueuedOn(request[r].drive)
    BY <2>1, <2>2 DEF IdOf, QueuedOn, Base, Typing, RequestTyping, RequestState
  <2>4. ~GivenUp(request[r].drive)
    BY <2>2, <2>3 DEF GivenUp, IdOf
  <2> QED
    BY <2>1, <2>2, <2>3, <2>4 DEF Served, PresentAfter, Present, IdOf
<1>3. CountOK'
  BY <1>1 DEF RequestInv, CountOK, Served, PresentAfter, Present
<1>4. ServingOK'
  BY DEF Served, ServingOK, PresentAfter, Present, GivenUp
<1> QED
  BY <1>2, <1>3, <1>4

(* Only the owner of the mutex mounts or unmounts.                         *)
MountingAt(t) == client[t].pc \in Mounting => volume[client[t].drive].id = 0
RemovingAt(t) ==
  /\ client[t].pc = "drain" => volume[client[t].drive].removed
  /\ client[t].pc \in {"delete", "stopped"} =>
       /\ volume[client[t].drive].removed \/ volume[client[t].drive].id = 0
            \/ GivenUp(client[t].drive)
       /\ QueuedOn(client[t].drive) = {} \/ GivenUp(client[t].drive)
OpenedAt(t) ==
  opening.status = "ok" =>
    client[t].pc \in {"wait", "unregister", "mounted"} /\ volume[client[t].drive].thread = "serving"

LEMMA OwnerMounts ==
  ASSUME ConstantsOK, Base', root' = Nobody => opening'.status # "ok",
         root' # Nobody => (MountingAt(root) /\ RemovingAt(root) /\ OpenedAt(root))'
  PROVE  (MountingOK /\ RemoveOK)'
<1>1. root' \in Threads \cup {Nobody} /\ Nobody \notin Threads
  BY DEF ConstantsOK, Base, Typing, ClientTyping
<1>2. \A t \in Threads : client'[t].pc \notin Resting => root' = t
  BY DEF Base, MutexOK
<1> QED
  BY <1>1, <1>2 DEF Resting, Mounting, MountingAt, RemovingAt, OpenedAt, MountingOK, RemoveOK,
      QueuedOn, GivenUp, IdOf, Present

LEMMA OwnerIs ==
  ASSUME Base, RequestInv, NEW t \in Threads, root = t
  PROVE  MountingAt(t) /\ RemovingAt(t) /\ OpenedAt(t)
  BY DEF RequestInv, MountingOK, RemoveOK, Mounting, MountingAt, RemovingAt, OpenedAt

LEMMA InitRequest == ConstantsOK /\ Init => RequestInv
<1> SUFFICES ASSUME ConstantsOK, Init PROVE RequestInv
  OBVIOUS
<1>1. RequestsMeetAnOpenVolume /\ CountOK /\ ServingOK
  BY DEF Init, RequestsMeetAnOpenVolume, NoRequest, CountOK, ServingOK, Present
<1>2. MountingOK /\ RemoveOK
  BY DEF Init, MountingOK, RemoveOK, Idle, NotOpening
<1> QED
  BY <1>1, <1>2 DEF RequestInv

LEMMA AllServed ==
  ASSUME Base, RequestInv, UNCHANGED volume
  PROVE  \A d \in Drives : Served(d)
  BY DEF Served, PresentAfter, Present, RequestInv, ServingOK

LEMMA OneServed ==
  ASSUME Base, RequestInv, NEW d \in Drives, Present(d), NEW x \in Device,
         volume' = [volume EXCEPT ![d] = x], x.id = volume[d].id, x.lock = volume[d].lock,
         QueuedOn(d) # {} /\ ~GivenUp(d) => x.thread = volume[d].thread,
         x.id > 0 /\ ~x.removed /\ ~GivenUp(d) => x.thread = "serving"
  PROVE  \A e \in Drives : Served(e)
<1>1. volume'[d] = x /\ x # NoDevice /\ \A e \in Drives \ {d} : volume'[e] = volume[e]
  BY DeviceIsPresent DEF Base, Typing, VolumeTyping
<1> QED
  BY <1>1 DEF Served, PresentAfter, Present, RequestInv, ServingOK

(* Nothing has been opened, or will be said to have been.                  *)
LEMMA NothingOpened ==
  ASSUME ConstantsOK, RequestInv,
         root = Nobody \/ client[root].pc \notin {"wait", "unregister", "mounted"}
  PROVE  opening.status # "ok"
  BY DEF ConstantsOK, RequestInv, MountingOK

(* Steps that begin to unmount, or look for the next device to unmount.    *)
LEMMA ControlRequest ==
  ASSUME ConstantsOK, Base, RequestInv, Base', NEW t \in Threads,
         \/ Unmount(t) \/ UnmountAll(t) \/ (t = System /\ OnShutdownPending)
         \/ NextVolume(t) \/ LockFilesystem(t)
  PROVE  RequestInv'
<1>1. /\ root = Nobody \/ (root = t /\ client[t].pc \in {"next", "lock"})
      /\ root' \in {t, Nobody} /\ UNCHANGED <<volume, givenUp, opening, request>>
  BY DEF Unmount, UnmountAll, OnShutdownPending, NextVolume, LockFilesystem, Ends, At
<1>2. opening'.status # "ok"
  BY <1>1, NothingOpened
<1>3. root' = t => client'[t].pc \in {"next", "lock", "mark"}
  <2>1. CASE Unmount(t)
    <3>1. \E d \in Drives, force \in BOOLEAN : client'[t] = [Idle EXCEPT !.pc = "lock", !.drive = d, !.force = force]
      BY <2>1 DEF Unmount, Base, Typing, ClientTyping
    <3> QED
      BY <3>1 DEF Idle
  <2>2. CASE UnmountAll(t) \/ (t = System /\ OnShutdownPending)
    <3>1. \E force \in BOOLEAN : client'[t] = [Idle EXCEPT !.pc = "next", !.force = force, !.all = TRUE, !.max = last]
      BY <2>2 DEF UnmountAll, OnShutdownPending, Base, Typing, ClientTyping
    <3> QED
      BY <3>1 DEF Idle
  <2>3. CASE NextVolume(t)
    <3>1. root' = Nobody \/ \E d \in Drives, pc \in {"lock", "next"} :
            client'[t] = [client[t] EXCEPT !.max = volume[d].id - 1, !.drive = d, !.pc = pc]
      BY <2>3 DEF NextVolume, HighestUniqueId, Base, Typing, ClientTyping
    <3> QED
      BY <3>1 DEF Base, Typing, ClientTyping, Client, ConstantsOK
  <2>4. CASE LockFilesystem(t)
    <3>1. root' = Nobody \/ Go(t, "mark") \/ Go(t, "next")
      BY <2>4 DEF LockFilesystem, Ends
    <3> QED
      BY <3>1 DEF Go, Base, Typing, ClientTyping, Client, ConstantsOK
  <2> QED
    BY <2>1, <2>2, <2>3, <2>4
<1>4. RequestsMeetAnOpenVolume' /\ CountOK' /\ ServingOK'
  BY <1>1, AllServed, RequestsKept
<1>5. (MountingOK /\ RemoveOK)'
  <2>1. (root # Nobody => MountingAt(root) /\ RemovingAt(root) /\ OpenedAt(root))'
    BY <1>1, <1>2, <1>3 DEF MountingAt, RemovingAt, OpenedAt, Mounting
  <2> QED
    BY <1>2, <2>1, OwnerMounts
<1> QED
  BY <1>4, <1>5 DEF RequestInv

(* The owner's device when it mounts or unmounts.                          *)
LEMMA OwnersDevice ==
  ASSUME Base, NEW t \in Threads, root = t, client[t].pc \notin Resting \cup {"next"}
  PROVE  client[t].drive \in Drives /\ Present(client[t].drive)
      /\ volume[client[t].drive] \in Device
  BY DeviceRecords DEF Base, Typing, DriveOK

LEMMA Moved ==
  ASSUME Base, NEW t \in Threads, NEW pc, Go(t, pc)
  PROVE  client'[t].pc = pc /\ client'[t].drive = client[t].drive
  BY DEF Go, Base, Typing, ClientTyping, Client

LEMMA RegisterRequest ==
  ASSUME ConstantsOK, Base, RequestInv, Base', NEW t \in Threads,
         RegisterMountCancelContext(t) \/ SetMountCancelContextUserSid(t)
  PROVE  RequestInv'
<1> DEFINE d == client[t].drive
<1>1. /\ root = t /\ root' = t /\ client[t].pc \in {"register", "sid"}
      /\ UNCHANGED <<givenUp, opening, request>>
      /\ Go(t, "sid") \/ Go(t, "start")
  BY DEF RegisterMountCancelContext, SetMountCancelContextUserSid, At
<1>2. d \in Drives /\ Present(d) /\ volume[d] \in Device /\ volume[d].id = 0 /\ QueuedOn(d) = {}
  BY <1>1, OwnersDevice, OwnerIs, NoneQueued DEF Resting, MountingAt, Mounting, RequestInv
<1>3. opening'.status # "ok"
  BY <1>1, NothingOpened DEF ConstantsOK, Threads
<1>4. (\A e \in Drives : Served(e)) /\ volume'[d].id = 0
  <2>1. CASE UNCHANGED volume
    BY <1>2, <2>1, AllServed
  <2>2. CASE volume' = [volume EXCEPT ![d] = [volume[d] EXCEPT !.user = UserOf[t]]]
    <3> DEFINE x == [volume[d] EXCEPT !.user = UserOf[t]]
    <3>1. x \in Device /\ x.id = 0 /\ x.lock = volume[d].lock
      BY <1>2 DEF Device, Users
    <3>2. volume' = [volume EXCEPT ![d] = x]
      BY <2>2
    <3> HIDE DEF x
    <3>3. volume'[d] = x
      BY <1>2, <3>2 DEF Base, Typing, VolumeTyping
    <3>4. QueuedOn(d) # {} => x.thread = volume[d].thread
      BY <1>2
    <3>5. x.id > 0 /\ ~x.removed => x.thread = "serving"
      BY <3>1
    <3> HIDE DEF d
    <3> QED
      BY <1>2, <3>1, <3>2, <3>3, <3>4, <3>5, OneServed, Zenon
  <2> QED
    BY <2>1, <2>2 DEF RegisterMountCancelContext, SetMountCancelContextUserSid
<1>5. RequestsMeetAnOpenVolume' /\ CountOK' /\ ServingOK'
  BY <1>1, <1>4, RequestsKept
<1>6. (MountingAt(t) /\ RemovingAt(t) /\ OpenedAt(t))'
  BY <1>1, <1>3, <1>4, Moved DEF MountingAt, RemovingAt, OpenedAt
<1> QED
  BY <1>1, <1>3, <1>5, <1>6, OwnerMounts DEF RequestInv

LEMMA StartRequest ==
  ASSUME ConstantsOK, Base, RequestInv, Base', NEW t \in Threads, TCStartVolumeThread(t)
  PROVE  RequestInv'
<1> DEFINE d == client[t].drive
           x == [volume[d] EXCEPT !.thread = "open"]
<1>1. /\ root = t /\ root' = t /\ client[t].pc = "start" /\ UNCHANGED <<givenUp, request>>
      /\ Go(t, "wait") \/ Go(t, "unregister")
      /\ UNCHANGED volume \/ volume' = [volume EXCEPT ![d] = x]
  BY DEF TCStartVolumeThread, At
<1>2. d \in Drives /\ Present(d) /\ volume[d] \in Device /\ volume[d].id = 0 /\ QueuedOn(d) = {}
  BY <1>1, OwnersDevice, OwnerIs, NoneQueued DEF Resting, MountingAt, Mounting, RequestInv
<1>3. x \in Device /\ x.id = 0 /\ x.lock = volume[d].lock
  BY <1>2 DEF Device
<1> HIDE DEF x
<1>4. opening'.status # "ok"
  <2>1. opening.status # "ok"
    BY <1>1, NothingOpened
  <2>2. opening'.status = opening.status \/ opening'.status = "error"
    BY DEF TCStartVolumeThread, Base, Typing, OpeningTyping, OpeningState
  <2> QED
    BY <2>1, <2>2
<1>5. (\A e \in Drives : Served(e)) /\ volume'[d].id = 0
  <2>1. CASE UNCHANGED volume
    BY <1>2, <2>1, AllServed
  <2>2. CASE volume' = [volume EXCEPT ![d] = x]
    <3>1. volume'[d] = x
      BY <1>2, <2>2 DEF Base, Typing, VolumeTyping
    <3>2. QueuedOn(d) # {} => x.thread = volume[d].thread
      BY <1>2
    <3>3. x.id > 0 /\ ~x.removed => x.thread = "serving"
      BY <1>3
    <3> HIDE DEF d
    <3> QED
      BY <1>2, <1>3, <2>2, <3>1, <3>2, <3>3, OneServed, Zenon
  <2> QED
    BY <1>1, <2>1, <2>2
<1>6. RequestsMeetAnOpenVolume' /\ CountOK' /\ ServingOK'
  BY <1>1, <1>5, RequestsKept
<1>7. (MountingAt(t) /\ RemovingAt(t) /\ OpenedAt(t))'
  BY <1>1, <1>4, <1>5, Moved DEF MountingAt, RemovingAt, OpenedAt
<1> QED
  BY <1>1, <1>4, <1>6, <1>7, OwnerMounts DEF RequestInv

LEMMA EndRequest ==
  ASSUME ConstantsOK, Base, RequestInv, Base', NEW t \in Threads,
         ThreadStarted(t) \/ UnregisterMountCancelContext(t)
  PROVE  RequestInv'
<1>1. /\ root = t /\ root' = t /\ client[t].pc \in {"wait", "unregister"}
      /\ UNCHANGED <<volume, givenUp, opening, request>>
      /\ Go(t, "unregister") \/ Go(t, "mounted")
  BY DEF ThreadStarted, UnregisterMountCancelContext, At
<1>2. RequestsMeetAnOpenVolume' /\ CountOK' /\ ServingOK'
  BY <1>1, AllServed, RequestsKept
<1>3. (MountingAt(t) /\ RemovingAt(t) /\ OpenedAt(t))'
  BY <1>1, OwnerIs, Moved DEF MountingAt, RemovingAt, OpenedAt, Mounting
<1> QED
  BY <1>1, <1>2, <1>3, OwnerMounts DEF RequestInv, ConstantsOK

LEMMA MountRequest ==
  ASSUME ConstantsOK, Base, RequestInv, Base', NEW t \in Threads, Mount(t)
  PROVE  RequestInv'
<1>1. PICK d \in Drives, host \in {0} \cup {IdOf(e) : e \in {e \in Drives : Mounted(e)}},
           protected \in BOOLEAN :
        /\ ~Present(d)
        /\ volume' = [volume EXCEPT ![d] = NewDevice(host, protected)]
        /\ client' = [client EXCEPT ![t] = [Idle EXCEPT !.pc = "register", !.drive = d]]
  BY DEF Mount
<1>2. root = Nobody /\ root' = t /\ UNCHANGED <<givenUp, request>>
  BY DEF Mount
<1>3. volume'[d] = NewDevice(host, protected) /\ \A e \in Drives \ {d} : volume'[e] = volume[e]
  BY <1>1 DEF Base, Typing, VolumeTyping
<1>4. NewDevice(host, protected).id = 0 /\ NewDevice(host, protected).lock = 0
      /\ NewDevice(host, protected) # NoDevice
  BY DEF NewDevice, NoDevice
<1>5. QueuedOn(d) = {}
  BY <1>1, NoneQueued
<1>6. RequestsMeetAnOpenVolume'
  <2> SUFFICES ASSUME NEW r \in Requests, request[r].pc = "queued", request[r].id \notin givenUp
               PROVE  IdOf(request[r].drive)' = request[r].id
                   /\ volume'[request[r].drive].thread = "serving"
    BY <1>2 DEF RequestsMeetAnOpenVolume
  <2>1. IdOf(request[r].drive) = request[r].id /\ volume[request[r].drive].thread = "serving"
    BY DEF RequestInv, RequestsMeetAnOpenVolume
  <2>2. request[r].drive \in Drives \ {d}
    BY <1>5, <2>1 DEF QueuedOn, Base, Typing, RequestTyping
  <2> QED
    BY <1>2, <1>3, <2>1, <2>2 DEF IdOf, Present
<1>7. CountOK'
  <2>1. QueuedOn(d)' = {}
    BY <1>2, <1>3, <1>4 DEF QueuedOn, IdOf, Present, Base, Typing, RequestTyping
  <2>2. \A e \in Drives \ {d} : QueuedOn(e)' = QueuedOn(e)
    BY <1>2, <1>3 DEF QueuedOn, IdOf, Present
  <2> QED
    BY <1>3, <1>4, <2>1, <2>2, FS_EmptySet DEF RequestInv, CountOK, Present
<1>8. ServingOK'
  BY <1>2, <1>3, <1>4 DEF RequestInv, ServingOK, Present, GivenUp
<1>9. (MountingAt(t) /\ RemovingAt(t) /\ OpenedAt(t))' /\ opening'.status # "ok"
  <2>1. client'[t].pc = "register" /\ client'[t].drive = d
    BY <1>1 DEF Idle, Base, Typing, ClientTyping
  <2>2. opening'.status = "none"
    BY DEF Mount, NotOpening
  <2> QED
    BY <1>3, <1>4, <2>1, <2>2 DEF MountingAt, RemovingAt, OpenedAt
<1> QED
  BY <1>2, <1>6, <1>7, <1>8, <1>9, OwnerMounts DEF RequestInv, ConstantsOK

LEMMA MountEndsRequest ==
  ASSUME ConstantsOK, Base, CounterInv, RequestInv, Base', NEW t \in Threads, MountEnds(t)
  PROVE  RequestInv'
<1>0. PICK d \in Drives : d = client[t].drive /\ Present(d) /\ volume[d] \in Device
  BY OwnersDevice DEF MountEnds, At, Resting
<1> DEFINE x == [volume[d] EXCEPT !.id = last + 1]
<1>1. /\ root = t /\ root' = t /\ client[t].pc = "mounted"
      /\ UNCHANGED <<givenUp, request>> /\ opening' = NotOpening
      /\ \/ opening.status = "ok" /\ volume' = [volume EXCEPT ![d] = x] /\ Go(t, "letter")
         \/ Go(t, "delete") /\ UNCHANGED volume
  BY <1>0 DEF MountEnds, At
<1>2. d \in Drives /\ Present(d) /\ volume[d] \in Device /\ volume[d].id = 0 /\ QueuedOn(d) = {}
  BY <1>0, <1>1, OwnerIs, NoneQueued DEF MountingAt, Mounting
<1>3. opening'.status # "ok"
  BY <1>1 DEF NotOpening
<1>4. CASE opening.status = "ok" /\ volume' = [volume EXCEPT ![d] = x] /\ Go(t, "letter")
  <2>1. x # NoDevice /\ x.thread = "serving" /\ x.lock = volume[d].lock /\ x.id = last + 1
    <3>1. volume[d].thread = "serving"
      BY <1>0, <1>1, <1>4, OwnerIs DEF OpenedAt
    <3>2. last + 1 \in Nat
      BY DEF Base, Typing, VolumeTyping
    <3>3. x \in Device /\ x.thread = volume[d].thread /\ x.lock = volume[d].lock /\ x.id = last + 1
      BY <1>2, <3>2 DEF Device
    <3> HIDE DEF x
    <3> QED
      BY <3>1, <3>3, DeviceIsPresent
  <2>2. volume'[d] = x /\ \A e \in Drives \ {d} : volume'[e] = volume[e]
    BY <1>2, <1>4 DEF Base, Typing, VolumeTyping
  <2> HIDE DEF x
  <2>3. RequestsMeetAnOpenVolume'
    <3> SUFFICES ASSUME NEW r \in Requests, request[r].pc = "queued", request[r].id \notin givenUp
                 PROVE  IdOf(request[r].drive)' = request[r].id
                     /\ volume'[request[r].drive].thread = "serving"
      BY <1>1 DEF RequestsMeetAnOpenVolume
    <3>1. IdOf(request[r].drive) = request[r].id /\ volume[request[r].drive].thread = "serving"
      BY DEF RequestInv, RequestsMeetAnOpenVolume
    <3>2. request[r].drive \in Drives \ {d}
      BY <1>2, <3>1 DEF QueuedOn, Base, Typing, RequestTyping
    <3> QED
      BY <1>1, <2>2, <3>1, <3>2 DEF IdOf, Present
  <2>4. CountOK'
    <3>1. \A r \in Requests : request[r].pc # "idle" => request[r].id # last + 1
      BY DEF CounterInv, Base, Typing, VolumeTyping, RequestTyping, RequestState
    <3>2. QueuedOn(d)' = {}
      BY <1>1, <2>1, <2>2, <3>1 DEF QueuedOn, IdOf, Present
    <3>3. \A e \in Drives \ {d} : QueuedOn(e)' = QueuedOn(e)
      BY <1>1, <2>2 DEF QueuedOn, IdOf, Present
    <3> QED
      BY <1>2, <2>1, <2>2, <3>2, <3>3 DEF RequestInv, CountOK, Present
  <2>5. ServingOK'
    BY <1>1, <2>1, <2>2 DEF RequestInv, ServingOK, Present, GivenUp
  <2>6. (MountingAt(t) /\ RemovingAt(t) /\ OpenedAt(t))'
    BY <1>0, <1>3, <1>4, Moved DEF MountingAt, RemovingAt, OpenedAt, Mounting
  <2> QED
    BY <1>1, <1>3, <2>3, <2>4, <2>5, <2>6, OwnerMounts DEF RequestInv, ConstantsOK
<1>5. CASE Go(t, "delete") /\ UNCHANGED volume
  <2>1. RequestsMeetAnOpenVolume' /\ CountOK' /\ ServingOK'
    BY <1>1, <1>5, AllServed, RequestsKept
  <2>2. QueuedOn(d)' = {}
    BY <1>1, <1>2, <1>5 DEF QueuedOn, IdOf, Present
  <2>3. (MountingAt(t) /\ RemovingAt(t) /\ OpenedAt(t))'
    BY <1>0, <1>2, <1>3, <1>5, <2>2, Moved DEF MountingAt, RemovingAt, OpenedAt, Mounting
  <2> QED
    BY <1>1, <1>3, <2>1, <2>3, OwnerMounts DEF RequestInv
<1> QED
  BY <1>1, <1>4, <1>5

(* The volume is there for good, or is given up with its requests.         *)
LEMMA CheckDriveLetterRequest ==
  ASSUME ConstantsOK, Base, RequestInv, Base', NEW t \in Threads, CheckDriveLetter(t)
  PROVE  RequestInv'
<1> DEFINE d == client[t].drive
<1>1. /\ root = t /\ root' \in {t, Nobody} /\ client[t].pc = "letter"
      /\ UNCHANGED <<volume, opening, request>>
      /\ givenUp \subseteq givenUp'
      /\ root' = t => Go(t, "delete") /\ volume[d].id \in givenUp'
  BY DEF CheckDriveLetter, At, ConstantsOK
<1>2. opening'.status # "ok"
  BY <1>1, NothingOpened
<1>3. RequestsMeetAnOpenVolume' /\ CountOK' /\ ServingOK'
  BY <1>1 DEF RequestInv, RequestsMeetAnOpenVolume, CountOK, ServingOK, QueuedOn, GivenUp, IdOf,
      Present
<1>4. root' # Nobody => (MountingAt(root) /\ RemovingAt(root) /\ OpenedAt(root))'
  BY <1>1, <1>2, Moved DEF MountingAt, RemovingAt, OpenedAt, Mounting, GivenUp
<1> QED
  BY <1>2, <1>3, <1>4, OwnerMounts DEF RequestInv

(* Unmounting, from the lock of the file system to the end of the thread.  *)
LEMMA MarkRequest ==
  ASSUME ConstantsOK, Base, RequestInv, Base', NEW t \in Threads,
         MarkShuttingDown(t) \/ RefuseHolders(t)
  PROVE  RequestInv'
<1> DEFINE d == client[t].drive
<1>1. root = t /\ root' = t /\ client[t].pc \in {"mark", "remove"} /\ UNCHANGED <<opening, request, givenUp>>
  BY DEF MarkShuttingDown, RefuseHolders, At
<1>2. d \in Drives /\ Present(d) /\ volume[d] \in Device
  BY <1>1, OwnersDevice DEF Resting
<1>3. opening'.status # "ok"
  BY <1>1, NothingOpened
<1>4. PICK x \in Device :
        /\ volume' = [volume EXCEPT ![d] = x]
        /\ x.id = volume[d].id /\ x.lock = volume[d].lock /\ x.thread = volume[d].thread
        /\ \/ client'[t].pc = "remove" /\ x.removed = volume[d].removed
           \/ client'[t].pc = "drain" /\ x.removed
        /\ client'[t].drive = d
  <2>1. CASE MarkShuttingDown(t)
    <3> DEFINE x == [volume[d] EXCEPT !.shutting = TRUE]
    <3>1. /\ x \in Device /\ x.id = volume[d].id /\ x.lock = volume[d].lock
          /\ x.thread = volume[d].thread
          /\ x.removed = volume[d].removed
      BY <1>2 DEF Device
    <3>2. volume' = [volume EXCEPT ![d] = x]
      BY <2>1 DEF MarkShuttingDown
    <3>3. client'[t].pc = "remove" /\ client'[t].drive = d
      BY <2>1, Moved DEF MarkShuttingDown
    <3> HIDE DEF x
    <3> QED
      BY <3>1, <3>2, <3>3
  <2>2. CASE RefuseHolders(t)
    <3> DEFINE x == [volume[d] EXCEPT !.removed = TRUE]
    <3>1. /\ x \in Device /\ x.id = volume[d].id /\ x.lock = volume[d].lock
          /\ x.thread = volume[d].thread
          /\ x.removed
      BY <1>2 DEF Device
    <3>2. volume' = [volume EXCEPT ![d] = x]
      BY <2>2 DEF RefuseHolders
    <3>3. client'[t].pc = "drain" /\ client'[t].drive = d
      BY <2>2, Moved DEF RefuseHolders
    <3> HIDE DEF x
    <3> QED
      BY <3>1, <3>2, <3>3
  <2> QED
    BY <2>1, <2>2
<1>5. volume'[d] = x
  BY <1>2, <1>4 DEF Base, Typing, VolumeTyping
<1>6. \A e \in Drives : Served(e)
  <2>1. volume[d].id > 0 /\ ~x.removed /\ ~GivenUp(d) => x.thread = "serving"
    BY <1>2, <1>4 DEF RequestInv, ServingOK, Device
  <2> QED
    BY <1>2, <1>4, <2>1, OneServed
<1>7. RequestsMeetAnOpenVolume' /\ CountOK' /\ ServingOK'
  BY <1>1, <1>6, RequestsKept
<1>8. (MountingAt(t) /\ RemovingAt(t) /\ OpenedAt(t))'
  BY <1>3, <1>4, <1>5 DEF MountingAt, RemovingAt, OpenedAt, Mounting
<1> QED
  BY <1>1, <1>3, <1>7, <1>8, OwnerMounts DEF RequestInv

LEMMA WaitForHoldersRequest ==
  ASSUME ConstantsOK, Base, RequestInv, Base', NEW t \in Threads, WaitForHolders(t)
  PROVE  RequestInv'
<1> DEFINE d == client[t].drive
<1>1. /\ root = t /\ root' = t /\ client[t].pc = "drain" /\ UNCHANGED <<volume, opening, request, givenUp>>
      /\ volume[d].lock = 0
  BY DEF WaitForHolders, At, Drained
<1>2. d \in Drives /\ Present(d)
  BY <1>1, OwnersDevice DEF Resting
<1>3. opening'.status # "ok"
  BY <1>1, NothingOpened
<1>4. QueuedOn(d) = {} /\ volume[d].removed
  BY <1>1, <1>2, FiniteQueued, FS_EmptySet, OwnerIs DEF RequestInv, CountOK, RemovingAt
<1>5. client'[t].pc = "delete" /\ client'[t].drive = d
  BY DEF WaitForHolders, Base, Typing, ClientTyping, Client
<1>6. RequestsMeetAnOpenVolume' /\ CountOK' /\ ServingOK'
  BY <1>1, AllServed, RequestsKept
<1>7. (MountingAt(t) /\ RemovingAt(t) /\ OpenedAt(t))'
  BY <1>1, <1>3, <1>4, <1>5 DEF MountingAt, RemovingAt, OpenedAt, Mounting, QueuedOn, GivenUp,
      IdOf, Present
<1> QED
  BY <1>1, <1>3, <1>6, <1>7, OwnerMounts DEF RequestInv

LEMMA StopThreadRequest ==
  ASSUME ConstantsOK, Base, RequestInv, Base', NEW t \in Threads, TCStopVolumeThread(t)
  PROVE  RequestInv'
<1>0. PICK d \in Drives : d = client[t].drive /\ Present(d) /\ volume[d] \in Device
  BY OwnersDevice DEF TCStopVolumeThread, At, Resting
<1> DEFINE old == volume[d].thread
           new == CASE old = "serving" -> "quit" [] old = "none" -> "gone" [] OTHER -> old
           x == [volume[d] EXCEPT !.thread = new]
<1>1. /\ root = t /\ root' = t /\ client[t].pc = "delete" /\ UNCHANGED <<opening, request, givenUp>>
      /\ Go(t, "stopped") /\ volume' = [volume EXCEPT ![d] = x]
  BY <1>0 DEF TCStopVolumeThread, At
<1>2. d \in Drives /\ Present(d) /\ volume[d] \in Device
  BY <1>0
<1>3. opening'.status # "ok"
  BY <1>1, NothingOpened
<1>4. /\ volume[d].removed \/ volume[d].id = 0 \/ GivenUp(d)
      /\ QueuedOn(d) = {} \/ GivenUp(d)
  BY <1>0, <1>1, OwnerIs DEF RemovingAt
<1>5. new \in {"none", "open", "serving", "quit", "gone"}
  BY <1>2 DEF Device
<1> HIDE DEF new
<1>6. x \in Device /\ x.id = volume[d].id /\ x.lock = volume[d].lock
      /\ x.removed = volume[d].removed
  BY <1>2, <1>5 DEF Device
<1> HIDE DEF x
<1>7. volume'[d] = x
  BY <1>1, <1>2 DEF Base, Typing, VolumeTyping
<1>8. \A e \in Drives : Served(e)
  <2>1. QueuedOn(d) # {} /\ ~GivenUp(d) => x.thread = volume[d].thread
    BY <1>4
  <2>2. x.id > 0 /\ ~x.removed /\ ~GivenUp(d) => x.thread = "serving"
    BY <1>4, <1>6
  <2> QED
    BY <1>1, <1>2, <1>6, <2>1, <2>2, OneServed
<1>9. RequestsMeetAnOpenVolume' /\ CountOK' /\ ServingOK'
  BY <1>1, <1>8, RequestsKept
<1>10. QueuedOn(d)' = QueuedOn(d)
  BY <1>1, <1>2, <1>8, QueuedKept
<1>11. GivenUp(d)' <=> GivenUp(d)
  BY <1>1, <1>6, <1>7 DEF GivenUp
<1>12. client'[t].pc = "stopped" /\ client'[t].drive = d
  BY <1>0, <1>1, Moved
<1>13. (MountingAt(t) /\ RemovingAt(t) /\ OpenedAt(t))'
  BY <1>3, <1>4, <1>6, <1>7, <1>10, <1>11, <1>12 DEF MountingAt, RemovingAt, OpenedAt, Mounting
<1> QED
  BY <1>1, <1>3, <1>9, <1>13, OwnerMounts DEF RequestInv

LEMMA DeleteDeviceRequest ==
  ASSUME ConstantsOK, Base, RequestInv, Base', NEW t \in Threads, DeleteDevice(t)
  PROVE  RequestInv'
<1> DEFINE d == client[t].drive
<1>1. /\ root = t /\ root' \in {t, Nobody} /\ client[t].pc = "stopped"
      /\ UNCHANGED <<opening, request, givenUp>>
      /\ volume' = [volume EXCEPT ![d] = NoDevice]
      /\ root' = t => Go(t, "next")
  BY DEF DeleteDevice, At, Ends, ConstantsOK
<1>2. d \in Drives /\ Present(d)
  BY <1>1, OwnersDevice DEF Resting
<1>3. opening'.status # "ok"
  BY <1>1, NothingOpened
<1>4. QueuedOn(d) = {} \/ GivenUp(d)
  BY <1>1, OwnerIs DEF RemovingAt
<1>5. volume'[d] = NoDevice /\ \A e \in Drives \ {d} : volume'[e] = volume[e]
  BY <1>1, <1>2 DEF Base, Typing, VolumeTyping
<1>6. RequestsMeetAnOpenVolume'
  <2> SUFFICES ASSUME NEW r \in Requests, request[r].pc = "queued", request[r].id \notin givenUp
               PROVE  IdOf(request[r].drive)' = request[r].id
                   /\ volume'[request[r].drive].thread = "serving"
    BY <1>1 DEF RequestsMeetAnOpenVolume
  <2>1. IdOf(request[r].drive) = request[r].id /\ volume[request[r].drive].thread = "serving"
    BY DEF RequestInv, RequestsMeetAnOpenVolume
  <2>2. request[r].drive # d
    BY <1>2, <1>4, <2>1 DEF QueuedOn, GivenUp, IdOf
  <2>3. request[r].drive \in Drives \ {d}
    BY <2>2 DEF Base, Typing, RequestTyping
  <2> QED
    BY <1>1, <1>5, <2>1, <2>3 DEF IdOf, Present
<1>7. CountOK'
  <2>1. \A e \in Drives \ {d} : QueuedOn(e)' = QueuedOn(e)
    BY <1>1, <1>5 DEF QueuedOn, IdOf, Present
  <2> QED
    BY <1>5, <2>1 DEF RequestInv, CountOK, Present
<1>8. ServingOK'
  BY <1>1, <1>5 DEF RequestInv, ServingOK, Present, GivenUp
<1>9. root' # Nobody => (MountingAt(root) /\ RemovingAt(root) /\ OpenedAt(root))'
  BY <1>1, <1>3, Moved DEF MountingAt, RemovingAt, OpenedAt, Mounting
<1> QED
  BY <1>3, <1>6, <1>7, <1>8, <1>9, OwnerMounts DEF RequestInv

LEMMA OpeningRequest ==
  ASSUME ConstantsOK, Base, RequestInv, Base',
         MountCancelRequested \/ ResetAbortKeyDerivation \/ DeriveKey \/ TestHeader \/ StartQueue
  PROVE  RequestInv'
<1> DEFINE t == root
           d == client[t].drive
<1>1. IsOpening /\ UNCHANGED <<root, client, request, givenUp>>
  BY OpeningSteps
<1>2. /\ Opening = d /\ d \in Drives /\ Present(d) /\ volume[d] \in Device
      /\ volume[d].thread = "open"
      /\ t \in Threads /\ client[t].pc = "wait"
  BY <1>1, OpeningIsOpen, DeviceRecords DEF Base, Typing, OpeningOK
<1>3. volume[d].id = 0 /\ QueuedOn(d) = {} /\ opening.status # "ok"
  BY <1>2, OwnerIs, NoneQueued DEF MountingAt, OpenedAt, Mounting
<1>4. \/ UNCHANGED volume
      \/ \E thread \in {"serving", "gone"} : volume' = [volume EXCEPT ![d] = [volume[d] EXCEPT !.thread = thread]]
  BY <1>2, OpeningSteps
<1>5. opening'.status = "ok" => volume' = [volume EXCEPT ![d] = [volume[d] EXCEPT !.thread = "serving"]]
  <2>1. opening \in OpeningState
    BY DEF Base, Typing, OpeningTyping
  <2>2. CASE StartQueue
    BY <1>2, <2>1, <2>2 DEF StartQueue, Fails, OpeningState
  <2>3. CASE MountCancelRequested \/ ResetAbortKeyDerivation \/ DeriveKey \/ TestHeader
    BY <1>3, <2>1, <2>3 DEF MountCancelRequested, ResetAbortKeyDerivation, DeriveKey, TestHeader,
        Fails, OpeningState
  <2> QED
    BY <2>2, <2>3
<1>6. /\ \A e \in Drives : Served(e)
      /\ volume'[d].id = 0
      /\ opening'.status = "ok" => volume'[d].thread = "serving"
  <2>1. CASE UNCHANGED volume
    <3>1. opening'.status = "ok" => volume'[d].thread = "serving"
      BY <1>2, <1>5, <2>1 DEF Base, Typing, VolumeTyping, Device
    <3> QED
      BY <1>3, <2>1, <3>1, AllServed
  <2>2. CASE ~UNCHANGED volume
    <3>1. PICK thread \in {"serving", "gone"} : volume' = [volume EXCEPT ![d] = [volume[d] EXCEPT !.thread = thread]]
      BY <1>4, <2>2
    <3> DEFINE x == [volume[d] EXCEPT !.thread = thread]
    <3>2. x \in Device /\ x.id = 0 /\ x.lock = volume[d].lock /\ x.id = volume[d].id
          /\ x.thread = thread
      BY <1>2, <1>3 DEF Device
    <3>3. volume' = [volume EXCEPT ![d] = x]
      BY <3>1
    <3> HIDE DEF x
    <3>4. QueuedOn(d) # {} => x.thread = volume[d].thread
      BY <1>3
    <3>5. x.id > 0 /\ ~x.removed => x.thread = "serving"
      BY <3>2
    <3>6. volume'[d] = x
      BY <1>2, <3>3 DEF Base, Typing, VolumeTyping
    <3>7. opening'.status = "ok" => volume'[d].thread = "serving"
      BY <1>2, <1>5 DEF Base, Typing, VolumeTyping, Device
    <3> HIDE DEF d, t
    <3> QED
      BY <1>2, <3>2, <3>3, <3>4, <3>5, <3>6, <3>7, OneServed, Zenon
  <2> QED
    BY <2>1, <2>2
<1>7. RequestsMeetAnOpenVolume' /\ CountOK' /\ ServingOK'
  BY <1>1, <1>6, RequestsKept
<1>8. (MountingAt(root) /\ RemovingAt(root) /\ OpenedAt(root))'
  BY <1>1, <1>2, <1>6 DEF MountingAt, RemovingAt, OpenedAt
<1> QED
  BY <1>1, <1>2, <1>7, <1>8, OwnerMounts DEF RequestInv, ConstantsOK

LEMMA VolumeThreadQuitsRequest ==
  ASSUME ConstantsOK, Base, RequestInv, Base', NEW d \in Drives, VolumeThreadQuits(d)
  PROVE  RequestInv'
<1> DEFINE x == [volume[d] EXCEPT !.thread = "gone"]
<1>1. /\ Present(d) /\ volume[d].thread = "quit" /\ volume' = [volume EXCEPT ![d] = x]
      /\ UNCHANGED <<root, client, opening, request, givenUp>>
  BY DEF VolumeThreadQuits
<1>2. volume[d] \in Device
  BY <1>1, DeviceRecords DEF Base, Typing
<1>3. x \in Device /\ x.id = volume[d].id /\ x.lock = volume[d].lock
      /\ x.removed = volume[d].removed
  BY <1>2 DEF Device
<1> HIDE DEF x
<1>4. volume'[d] = x /\ \A e \in Drives \ {d} : volume'[e] = volume[e]
  BY <1>1 DEF Base, Typing, VolumeTyping
<1>5. \A e \in Drives : Served(e)
  <2>1. QueuedOn(d) = {} \/ GivenUp(d)
    BY <1>1 DEF QueuedOn, RequestInv, RequestsMeetAnOpenVolume, GivenUp, IdOf
  <2>2. x.id > 0 /\ ~x.removed /\ ~GivenUp(d) => x.thread = "serving"
    BY <1>1, <1>3 DEF RequestInv, ServingOK
  <2> QED
    BY <1>1, <1>3, <2>1, <2>2, OneServed
<1>6. RequestsMeetAnOpenVolume' /\ CountOK' /\ ServingOK'
  BY <1>1, <1>5, RequestsKept
<1>7. root' # Nobody => (MountingAt(root) /\ RemovingAt(root) /\ OpenedAt(root))'
  <2> SUFFICES ASSUME root # Nobody PROVE (MountingAt(root) /\ RemovingAt(root) /\ OpenedAt(root))'
    BY <1>1
  <2>1. root \in Threads /\ MountingAt(root) /\ RemovingAt(root) /\ OpenedAt(root)
    BY OwnerIs DEF Base, Typing, ClientTyping
  <2>2. client[root].pc \notin Resting \cup {"next"} => client[root].drive \in Drives
    BY <2>1 DEF Base, DriveOK
  <2>3. client[root].pc \notin Resting \cup {"next"} =>
          /\ volume'[client[root].drive].id = volume[client[root].drive].id
          /\ volume'[client[root].drive].removed = volume[client[root].drive].removed
          /\ volume[client[root].drive].thread = "serving" => volume'[client[root].drive].thread = "serving"
          /\ QueuedOn(client[root].drive)' = QueuedOn(client[root].drive)
    BY <1>1, <1>3, <1>4, <1>5, <2>2, QueuedKept
  <2> QED
    BY <1>1, <2>1, <2>3 DEF MountingAt, RemovingAt, OpenedAt, Mounting, Resting, GivenUp
<1>8. root' = Nobody => opening'.status # "ok"
  BY <1>1, NothingOpened
<1> QED
  BY <1>6, <1>7, <1>8, OwnerMounts DEF RequestInv

(* What the requests do.                                                   *)
LEMMA DispatchRequest ==
  ASSUME ConstantsOK, Base, RequestInv, Base',
         UNCHANGED <<root, client, opening, volume, givenUp>>,
         \A s \in Requests : request[s].pc = "queued" => request'[s] = request[s],
         \A s \in Requests : request'[s].pc = "queued" =>
           \/ request'[s] = request[s]
           \/ request'[s].id \in givenUp /\ IdOf(request'[s].drive) # request'[s].id
  PROVE  RequestInv'
<1>1. \A d : IdOf(d)' = IdOf(d)
  BY DEF IdOf, Present
<1>2. \A d : QueuedOn(d)' = QueuedOn(d)
  BY <1>1 DEF QueuedOn
<1>3. RequestsMeetAnOpenVolume'
  BY <1>1 DEF RequestInv, RequestsMeetAnOpenVolume
<1>4. CountOK' /\ ServingOK' /\ MountingOK' /\ RemoveOK'
  BY <1>2 DEF RequestInv, CountOK, ServingOK, MountingOK, RemoveOK, Present, GivenUp
<1> QED
  BY <1>3, <1>4 DEF RequestInv

(* A request takes the lock of a volume that serves, or lets go of it: the *)
(* count follows.                                                          *)
LEMMA LockRequest ==
  ASSUME ConstantsOK, Base, RequestInv, Base', NEW r \in Requests, NEW d \in Drives, Present(d),
         NEW x \in Device,
         UNCHANGED <<root, client, opening, givenUp>>, volume' = [volume EXCEPT ![d] = x],
         x.id = volume[d].id, x.removed = volume[d].removed, x.thread = volume[d].thread,
         \A s \in Requests \ {r} : request'[s] = request[s],
         request[r].drive = d, request[r].id = volume[d].id,
         \/ /\ request[r].pc = "tested" /\ ~volume[d].removed
            /\ request'[r] = [request[r] EXCEPT !.pc = "queued"] /\ x.lock = volume[d].lock + 1
         \/ /\ request[r].pc = "queued" /\ request'[r] = NoRequest /\ x.lock = volume[d].lock - 1
  PROVE  RequestInv'
<1>1. /\ volume'[d] = x /\ x # NoDevice /\ volume[d] # NoDevice
      /\ \A e \in Drives \ {d} : volume'[e] = volume[e]
  BY DeviceIsPresent DEF Base, Typing, VolumeTyping, Present
<1>0. \A e \in Drives : IdOf(e)' = IdOf(e)
  BY <1>1 DEF IdOf, Present
<1>2. \A e \in Drives \ {d} : QueuedOn(e)' = QueuedOn(e)
  BY <1>0 DEF QueuedOn, NoRequest, Base, Typing, RequestTyping, RequestState
<1>3. request[r].id > 0 /\ request[r] \in RequestState
  BY DEF Base, Typing, RequestTyping
<1>4. volume[d].thread = "serving" \/ volume[d].id \in givenUp
  BY <1>3 DEF RequestInv, ServingOK, RequestsMeetAnOpenVolume, GivenUp
<1>7. IdOf(d) = volume[d].id
  BY DEF IdOf
<1>5. CASE /\ request[r].pc = "tested" /\ ~volume[d].removed
           /\ request'[r] = [request[r] EXCEPT !.pc = "queued"] /\ x.lock = volume[d].lock + 1
  <2>1. request'[r].pc = "queued" /\ request'[r].drive = d /\ request'[r].id = request[r].id
    BY <1>3, <1>5 DEF RequestState
  <2>2. QueuedOn(d)' = QueuedOn(d) \cup {r} /\ r \notin QueuedOn(d)
    <3>1. r \notin QueuedOn(d) /\ r \in QueuedOn(d)'
      BY <1>0, <1>5, <1>7, <2>1 DEF QueuedOn
    <3>2. \A s \in Requests \ {r} : s \in QueuedOn(d)' <=> s \in QueuedOn(d)
      BY <1>0 DEF QueuedOn
    <3>3. QueuedOn(d) \subseteq Requests /\ QueuedOn(d)' \subseteq Requests
      BY DEF QueuedOn
    <3> QED
      BY <3>1, <3>2, <3>3
  <2>3. RequestsMeetAnOpenVolume'
    <3> SUFFICES ASSUME NEW s \in Requests, request'[s].pc = "queued",
                        request'[s].id \notin givenUp
                 PROVE  IdOf(request[s].drive)' = request'[s].id
                     /\ volume'[request'[s].drive].thread = "serving"
      BY DEF RequestsMeetAnOpenVolume
    <3>1. CASE s = r
      BY <1>1, <1>4, <2>1, <3>1 DEF IdOf, Present
    <3>2. CASE s # r
      <4>1. request'[s] = request[s] /\ request[s].drive \in Drives
        BY <3>2 DEF Base, Typing, RequestTyping
      <4>2. IdOf(request[s].drive) = request[s].id /\ volume[request[s].drive].thread = "serving"
        BY <4>1 DEF RequestInv, RequestsMeetAnOpenVolume
      <4> QED
        BY <1>1, <4>1, <4>2 DEF IdOf, Present
    <3> QED
      BY <3>1, <3>2
  <2>4. CountOK'
    <3>1. Cardinality(QueuedOn(d)') = Cardinality(QueuedOn(d)) + 1
      BY <2>2, FiniteQueued, FS_AddElement
    <3>2. volume[d].lock = Cardinality(QueuedOn(d))
      BY <1>1 DEF RequestInv, CountOK
    <3> QED
      BY <1>1, <1>2, <1>5, <3>1, <3>2 DEF RequestInv, CountOK, Present
  <2>5. ServingOK' /\ MountingOK'
    BY <1>1, <1>3 DEF RequestInv, ServingOK, MountingOK, Present, Base, DriveOK, Resting, GivenUp
  <2>6. RemoveOK'
    BY <1>1, <1>2, <1>3, <1>5 DEF RequestInv, RemoveOK, Base, DriveOK, Resting, GivenUp
  <2> QED
    BY <2>3, <2>4, <2>5, <2>6 DEF RequestInv
<1>6. CASE request[r].pc = "queued" /\ request'[r] = NoRequest /\ x.lock = volume[d].lock - 1
  <2>1. request'[r].pc = "idle"
    BY <1>6 DEF NoRequest
  <2>2. QueuedOn(d)' = QueuedOn(d) \ {r} /\ r \in QueuedOn(d)
    BY <1>0, <1>6, <1>7, <2>1 DEF QueuedOn
  <2>3. RequestsMeetAnOpenVolume'
    <3> SUFFICES ASSUME NEW s \in Requests, request'[s].pc = "queued",
                        request'[s].id \notin givenUp
                 PROVE  IdOf(request[s].drive)' = request'[s].id
                     /\ volume'[request'[s].drive].thread = "serving"
      BY DEF RequestsMeetAnOpenVolume
    <3>1. s # r /\ request'[s] = request[s] /\ request[s].drive \in Drives
      BY <2>1 DEF Base, Typing, RequestTyping
    <3>2. IdOf(request[s].drive) = request[s].id /\ volume[request[s].drive].thread = "serving"
      BY <3>1 DEF RequestInv, RequestsMeetAnOpenVolume
    <3> QED
      BY <1>1, <3>1, <3>2 DEF IdOf, Present
  <2>4. CountOK'
    <3>1. Cardinality(QueuedOn(d)') = Cardinality(QueuedOn(d)) - 1
      BY <2>2, FiniteQueued, FS_RemoveElement
    <3>2. volume[d].lock = Cardinality(QueuedOn(d))
      BY <1>1 DEF RequestInv, CountOK
    <3> QED
      BY <1>1, <1>2, <1>6, <3>1, <3>2 DEF RequestInv, CountOK, Present
  <2>5. ServingOK' /\ MountingOK'
    BY <1>1, <1>3 DEF RequestInv, ServingOK, MountingOK, Present, Base, DriveOK, Resting, GivenUp
  <2>6. RemoveOK'
    BY <1>1, <1>2, <2>2 DEF RequestInv, RemoveOK, Base, DriveOK, Resting, GivenUp
  <2> QED
    BY <2>3, <2>4, <2>5, <2>6 DEF RequestInv
<1> QED
  BY <1>5, <1>6

LEMMA RequestsRequest ==
  ASSUME ConstantsOK, Base, RequestInv, Base', NEW r \in Requests,
         Dispatch(r) \/ AcquireRemoveLock(r) \/ Answer(r)
  PROVE  RequestInv'
<1> DEFINE d == request[r].drive
<1>1. UNCHANGED <<root, client, opening, givenUp>>
  BY RequestSteps
<1>2. request \in [Requests -> RequestState]
  BY DEF Base, Typing, RequestTyping
<1>3. CASE Dispatch(r)
  <2>1. /\ UNCHANGED volume /\ request[r].pc = "idle" /\ request'[r].pc = "tested"
        /\ \A s \in Requests \ {r} : request'[s] = request[s]
    BY <1>2, <1>3 DEF Dispatch
  <2> QED
    BY <1>1, <2>1, DispatchRequest
<1>4. CASE AcquireRemoveLock(r)
  <2>1. request[r].pc = "tested" /\ d \in Drives
        /\ \A s \in Requests \ {r} : request'[s] = request[s]
    BY <1>2, <1>4 DEF AcquireRemoveLock, Base, Typing, RequestTyping
  <2>2. CASE IdOf(d) = request[r].id /\ ~volume[d].removed
    <3> DEFINE x == [volume[d] EXCEPT !.lock = volume[d].lock + 1]
    <3>1. Present(d) /\ volume[d] \in Device /\ request[r].id = volume[d].id
      BY <2>1, <2>2, DeviceRecords DEF IdOf, Base, Typing, RequestTyping, RequestState
    <3>2. /\ x \in Device /\ x.thread = volume[d].thread /\ x.id = volume[d].id
          /\ x.removed = volume[d].removed
          /\ x.lock = volume[d].lock + 1
      BY <3>1 DEF Device
    <3>3. volume' = [volume EXCEPT ![d] = x] /\ request'[r] = [request[r] EXCEPT !.pc = "queued"]
      BY <1>2, <1>4, <2>2 DEF AcquireRemoveLock
    <3> HIDE DEF x
    <3> QED
      BY <1>1, <2>1, <2>2, <3>1, <3>2, <3>3, LockRequest
  <2>3. CASE ~(IdOf(d) = request[r].id /\ ~volume[d].removed)
    <3>1. /\ UNCHANGED volume
          /\ \/ request'[r] = NoRequest
             \/ /\ IdOf(d) # request[r].id /\ request[r].id \in givenUp
                /\ request'[r] = [request[r] EXCEPT !.pc = "queued"]
      BY <1>2, <1>4, <2>3 DEF AcquireRemoveLock
    <3>2. \/ request'[r].pc = "idle"
          \/ request'[r].id \in givenUp /\ IdOf(request'[r].drive) # request'[r].id
      BY <1>2, <3>1 DEF NoRequest, RequestState
    <3> QED
      BY <1>1, <2>1, <3>1, <3>2, DispatchRequest
  <2> QED
    BY <2>2, <2>3
<1>5. CASE Answer(r)
  <2>0. /\ request[r].pc = "queued" /\ d \in Drives /\ IdOf(d) = request[r].id /\ request[r].id > 0
        /\ request[r].id \in Int
    BY <1>2, <1>5 DEF Answer, Base, Typing, RequestTyping, RequestState
  <2>2. Present(d) /\ request[r].id = volume[d].id
    BY <2>0 DEF IdOf
  <2>1. /\ request[r].pc = "queued" /\ d \in Drives /\ Present(d) /\ volume[d] \in Device
        /\ request'[r] = NoRequest
        /\ \A s \in Requests \ {r} : request'[s] = request[s]
    BY <1>2, <1>5, <2>0, <2>2, DeviceRecords DEF Answer, Base, Typing
  <2>3. PICK hit \in BOOLEAN :
          volume' = [volume EXCEPT ![d].lock = @ - 1, ![d].triggered = @ \/ hit]
    BY <1>5, <2>1 DEF Answer, Device
  <2> DEFINE mark == volume[d].triggered \/ hit
             x == [volume[d] EXCEPT !.lock = volume[d].lock - 1, !.triggered = mark]
  <2>4. mark \in BOOLEAN
    OBVIOUS
  <2>5. volume' = [volume EXCEPT ![d] = x]
    BY <2>1, <2>3 DEF Base, Typing, VolumeTyping, Device
  <2> HIDE DEF mark
  <2>6. /\ x \in Device /\ x.thread = volume[d].thread /\ x.id = volume[d].id
        /\ x.removed = volume[d].removed
        /\ x.lock = volume[d].lock - 1
    <3>1. volume[d].lock - 1 \in Int
      BY <2>1 DEF Device
    <3>2. \A n \in Int, b \in BOOLEAN :
            LET y == [volume[d] EXCEPT !.lock = n, !.triggered = b]
            IN y \in Device /\ y.thread = volume[d].thread /\ y.id = volume[d].id
                /\ y.removed = volume[d].removed
               /\ y.lock = n
      BY <2>1 DEF Device
    <3> QED
      BY <2>4, <3>1, <3>2, Zenon
  <2> HIDE DEF x
  <2> QED
    BY <1>1, <2>1, <2>2, <2>5, <2>6, LockRequest
<1> QED
  BY <1>3, <1>4, <1>5

LEMMA RequestFrame ==
  ASSUME RequestInv, UNCHANGED <<root, client, opening, volume, request, givenUp>>
  PROVE  RequestInv'
  BY DEF RequestInv, RequestsMeetAnOpenVolume, CountOK, ServingOK, MountingOK, RemoveOK, QueuedOn,
      GivenUp, IdOf, Present

THEOREM RequestHolds == ASSUME ConstantsOK PROVE Spec => []RequestInv
<1>1. Init => RequestInv
  BY InitRequest
<1>2. Base /\ Base' /\ CounterInv /\ RequestInv /\ [Next]_vars => RequestInv'
  <2> SUFFICES ASSUME Base, Base', CounterInv, RequestInv, [Next]_vars PROVE RequestInv'
    OBVIOUS
  <2>1. CASE UNCHANGED vars
    BY <2>1, RequestFrame DEF vars
  <2>2. ASSUME NEW t \in Clients, ClientStep(t) PROVE RequestInv'
    BY <2>2, MountRequest, RegisterRequest, StartRequest, EndRequest, MountEndsRequest,
        CheckDriveLetterRequest, ControlRequest
    DEF ClientStep, Threads
  <2>3. ASSUME NEW t \in Threads, UnmountStep(t) PROVE RequestInv'
    BY <2>3, ControlRequest, MarkRequest, WaitForHoldersRequest, StopThreadRequest,
        DeleteDeviceRequest
    DEF UnmountStep
  <2>4. CASE OnShutdownPending
    BY <2>4, ControlRequest DEF Threads
  <2>5. CASE MountCancelRequested \/ ResetAbortKeyDerivation \/ DeriveKey \/ TestHeader \/ StartQueue
    BY <2>5, OpeningRequest
  <2>6. ASSUME NEW d \in Drives, VolumeThreadQuits(d) PROVE RequestInv'
    BY <2>6, VolumeThreadQuitsRequest
  <2>7. ASSUME NEW a \in Aborters,
        AbortPendingMount(a) \/ RequestAbort(a) \/ RequestKeyAbort(a) PROVE RequestInv'
    BY <2>7, RequestFrame DEF AbortPendingMount, RequestAbort, RequestKeyAbort
  <2>8. ASSUME NEW r \in Requests,
        Dispatch(r) \/ AcquireRemoveLock(r) \/ Answer(r) PROVE RequestInv'
    BY <2>8, RequestsRequest
  <2> QED
    BY <2>1, <2>2, <2>3, <2>4, <2>5, <2>6, <2>7, <2>8 DEF Next
<1> QED
  BY <1>1, <1>2, BaseHolds, CountersHold, PTL DEF Spec

(* No request is left behind on a volume that an unmount closes: the queue *)
(* stops only after IoReleaseRemoveLockAndWait, and every request under    *)
(* way holds the remove lock of the volume it was sent to.  Left behind    *)
(* are only those to a volume whose own mount gives it up, because its     *)
(* drive letter was taken when its device took requests already.           *)
THEOREM RequestsMeet == ASSUME ConstantsOK PROVE Spec => []RequestsMeetAnOpenVolume
<1>1. RequestInv => RequestsMeetAnOpenVolume
  BY DEF RequestInv
<1> QED
  BY <1>1, RequestHolds, PTL

(* Types, one owner of the mutex, at most one volume that is being opened, *)
(* and the remove lock and the volume ids (MountDevice, UnmountDevice).    *)
THEOREM TypeCorrect == ASSUME ConstantsOK PROVE Spec => []TypeOK
<1>1. Base /\ RequestInv /\ CounterInv => TypeOK
  <2> SUFFICES ASSUME Base, RequestInv, CounterInv PROVE TypeOK
    OBVIOUS
  <2>1. root \in Threads \cup {Nobody}
    BY DEF Base, Typing, ClientTyping
  <2>2. \A t \in Threads : root = t <=> client[t].pc \notin {"idle", "again", "done"}
    BY DEF Base, MutexOK, Resting
  <2>3. /\ last \in 0 .. MaxMounts /\ context.seq \in 0 .. MaxMounts
        /\ context.drive \in {0} \cup Drives
    BY DEF Base, Typing, VolumeTyping, ContextTyping, Context, CounterInv, ConstantsOK
  <2>4. Cardinality({d \in Drives : Present(d) /\ volume[d].thread = "open"}) <= 1
    <3> DEFINE open == {d \in Drives : Present(d) /\ volume[d].thread = "open"}
    <3>1. open \subseteq {client[root].drive}
      BY DEF Base, OpeningOK
    <3>2. IsFiniteSet({client[root].drive}) /\ Cardinality({client[root].drive}) = 1
      BY FS_Singleton
    <3> HIDE DEF open
    <3>3. Cardinality(open) <= 1
      BY <3>1, <3>2, FS_Subset
    <3> QED
      BY <3>3 DEF open
  <2>5. ASSUME NEW d \in Drives, Present(d)
        PROVE  /\ volume[d].lock = Cardinality({r \in Requests : request[r].pc = "queued"
                                          /\ request[r].drive = d /\ request[r].id = IdOf(d)})
               /\ volume[d].id <= last
    <3>1. {r \in Requests : request[r].pc = "queued" /\ request[r].drive = d
                              /\ request[r].id = IdOf(d)} = QueuedOn(d)
      BY DEF QueuedOn
    <3> QED
      BY <2>5, <3>1 DEF RequestInv, CountOK, CounterInv
  <2> QED
    BY <2>1, <2>2, <2>3, <2>4, <2>5 DEF TypeOK, CounterInv
<1> QED
  BY <1>1, BaseHolds, RequestHolds, CountersHold, PTL

=============================================================================
