------------------------------- MODULE UnixMount -------------------------------
(***************************************************************************)
(* How one volume is mounted and unmounted on Linux (CoreUnix.cpp,         *)
(* CoreLinux.cpp): by commands that may fail one by one, fuse, losetup,    *)
(* dmsetup, mount and umount.  What has been set up is recorded nowhere    *)
(* but in the kernel and in the FUSE service of the volume, from which     *)
(* GetMountedVolumes reads it.  A cascade of ciphers is a stack of device  *)
(* mapper devices: the first one created has the highest suffix and the    *)
(* last one, number 0 here, has none.                                      *)
(***************************************************************************)
EXTENDS Naturals, FiniteSets

CONSTANTS
  MaxCiphers, \* ciphers of the longest cascade
  MaxFaults   \* bound: commands that fail in one operation

\* What the proofs assume: a volume has a cipher, and the bound tells a first failure from more.
ConstantsOK == MaxCiphers \in Nat \ {0} /\ MaxFaults \in Nat \ {0, 1}

VARIABLES
  core,    \* the operation under way: pc, choices, local variables, the VolumeInfo
  fuse,    \* the service and its mount: none, starting, mounted, lazy (unmounted lazily)
  info,    \* what the service was told: virtual and loop device
  loop,    \* the loop device: of none, the volume's file or the service's image; auto-clear
  layers,  \* device mapper devices that exist
  deferred,\* those of them that go when nobody uses them any longer
  fs,      \* the file system: on none, native or loop device; unmounted lazily
  dirs,    \* directories made for the mounts
  used,    \* a program uses the file system
  faults,  \* commands of the operation that failed, up to MaxFaults
  outcome  \* of the last operation

vars == <<core, fuse, info, loop, layers, deferred, fs, dirs, used, faults, outcome>>

os == <<fuse, info, loop, layers, deferred, fs, dirs>>

-----------------------------------------------------------------------------

NoInfo == [virtual |-> "none", loop |-> "none"]
NoFs == [on |-> "none", lazy |-> FALSE]
NoLoop == [of |-> "none", auto |-> FALSE]
Idle == [pc |-> "idle", op |-> "none", native |-> FALSE, filesystem |-> FALSE, ciphers |-> 1, layer |-> 0,
         created |-> FALSE, unmade |-> FALSE, mounted |-> FALSE, info |-> NoInfo, mountPoint |-> FALSE, error |-> FALSE]

Init ==
  /\ core = Idle /\ fuse = "none" /\ info = NoInfo /\ loop = NoLoop /\ layers = {} /\ deferred = {}
  /\ fs = NoFs /\ dirs = {} /\ used = FALSE /\ faults = 0 /\ outcome = "none"

\* GetMountedVolumes finds the volume by its service.
Listed == fuse = "mounted"

\* The mount point is that of the file system on the virtual device.
MountPointKnown == Listed /\ fs.on # "none" /\ ~fs.lazy /\ fs.on = info.virtual

NothingLeft == fuse = "none" /\ loop = NoLoop /\ layers = {} /\ fs = NoFs

\* What keeps each thing from being removed.
FsBusy == used
LayerBusy(i) == IF i = 0 THEN fs.on = "native" ELSE i - 1 \in layers
LoopBusy == IF loop.of = "file" THEN layers # {} ELSE fs.on = "loop"
FuseBusy == loop.of = "image"

-----------------------------------------------------------------------------
(* Commands.                                                               *)

ToPc(pc) == core' = [core EXCEPT !.pc = pc]

\* A command fails: for a reason of its own, or because what it removes is busy.
Fault(busy) == (busy \/ faults < MaxFaults) /\ faults' = IF faults < MaxFaults THEN faults + 1 ELSE faults

Throw(pc) == core' = [core EXCEPT !.pc = pc, !.error = TRUE]

End(result) == core' = Idle /\ outcome' = result

\* The exception that ends the operation; that of a mapper device that could not be made is
\* told apart.
Failure ==
  IF core.op # "mount" THEN "dismountFailed"
  ELSE IF core.unmade THEN "createFailed" ELSE "mountFailed"

Keep == UNCHANGED outcome

-----------------------------------------------------------------------------
(* MountVolume.                                                            *)

\* The volume is opened; a mount begins when nothing of an earlier one is left.
MountVolume ==
  /\ core.pc = "idle" /\ NothingLeft
  /\ \E native, filesystem \in BOOLEAN, ciphers \in 1..MaxCiphers :
       core' = [Idle EXCEPT !.pc = "fuseDir", !.op = "mount", !.native = native,
                            !.filesystem = filesystem, !.ciphers = ciphers]
  /\ faults' = 0 /\ outcome' = "none" /\ dirs' = {}
  /\ UNCHANGED <<fuse, info, loop, layers, deferred, fs>>

FindFuseDirectory ==
  /\ core.pc = "fuseDir"
  /\ \/ dirs' = dirs \cup {"fuse"} /\ ToPc("fuse") /\ Keep /\ UNCHANGED faults
     \/ Fault(FALSE) /\ End("mountFailed") /\ UNCHANGED dirs
  /\ UNCHANGED <<fuse, info, loop, layers, deferred, fs>>

\* FuseService::Mount: the service is started, then its control file awaited.
FuseMount ==
  /\ core.pc = "fuse"
  /\ \/ fuse' = "starting" /\ info' = NoInfo /\ ToPc("fuseWait") /\ UNCHANGED faults
     \/ Fault(FALSE) /\ ToPc("fuseUndo") /\ UNCHANGED <<fuse, info>>
  /\ Keep /\ UNCHANGED <<loop, layers, deferred, fs, dirs>>

\* The service mounts its file system on its directory.
FuseStart ==
  /\ fuse = "starting"
  /\ fuse' = IF "fuse" \in dirs THEN "mounted" ELSE "none"
  /\ UNCHANGED <<core, info, loop, layers, deferred, fs, dirs, used, faults, outcome>>

FuseWait ==
  /\ core.pc = "fuseWait"
  /\ \/ fuse = "mounted" /\ UNCHANGED faults
        /\ ToPc(IF core.filesystem THEN "mountDir" ELSE IF core.native THEN "loop" ELSE "image")
     \/ Fault(FALSE) /\ ToPc("fuseUndo")
  /\ Keep /\ UNCHANGED os

\* The directory is removed, unless the service has mounted on it.
FuseUndo ==
  /\ core.pc = "fuseUndo"
  /\ dirs' = IF fuse = "mounted" THEN dirs ELSE dirs \ {"fuse"}
  /\ End("mountFailed")
  /\ UNCHANGED <<fuse, info, loop, layers, deferred, fs, faults>>

MakeMountDirectory ==
  /\ core.pc = "mountDir"
  /\ \/ dirs' = dirs \cup {"mount"} /\ ToPc(IF core.native THEN "loop" ELSE "image") /\ UNCHANGED faults
     \/ Fault(FALSE) /\ Throw("lookup") /\ UNCHANGED dirs
  /\ Keep /\ UNCHANGED <<fuse, info, loop, layers, deferred, fs>>

\* The loop device of a volume in a file (MountVolumeNative) or of the service's image
\* (MountAuxVolumeImage), which is reported to the service at once.
AttachLoop ==
  /\ core.pc \in {"loop", "image"}
  /\ \/ loop' = [NoLoop EXCEPT !.of = IF core.native THEN "file" ELSE "image"]
        /\ core' = [core EXCEPT !.pc = IF core.native THEN "layer" ELSE "send", !.layer = core.ciphers - 1]
        /\ UNCHANGED faults
     \/ Fault(FALSE) /\ Throw("removeMountDir") /\ UNCHANGED loop
  /\ Keep /\ UNCHANGED <<fuse, info, layers, deferred, fs, dirs>>

\* The making of a device fails; the rollback begins.
Unmade(pc) == core' = [core EXCEPT !.pc = pc, !.unmade = TRUE, !.error = TRUE]

\* dmsetup create: one device for each cipher, each on the one before; then its node is
\* awaited.  When that ends in vain, the device is there and "created" is not set for it; the
\* rollback finds the node, if it has come by then, or no device of that name.
CreateLayer ==
  /\ core.pc = "layer"
  /\ \/ /\ layers' = layers \cup {core.layer} /\ UNCHANGED faults
        /\ core' = [core EXCEPT !.created = TRUE, !.layer = IF core.layer = 0 THEN 0 ELSE core.layer - 1,
                      !.pc = IF core.layer = 0 THEN "test" ELSE "layer"]
     \/ Fault(FALSE) /\ Unmade("undoLayers") /\ UNCHANGED layers
     \/ /\ Fault(FALSE) /\ layers' = layers \cup {core.layer}
        /\ Unmade(IF core.layer = 0 THEN "undoLayers" ELSE "undoLayer") \/ Unmade("undoLoop")
  /\ Keep /\ UNCHANGED <<fuse, info, loop, deferred, fs, dirs>>

\* (Mutant: the devices are not removed when the test fails.)
TestLastSectorCareless ==
  /\ core.pc = "test"
  /\ \/ ToPc(IF core.filesystem THEN "filesystem" ELSE "send") /\ UNCHANGED faults
     \/ Fault(FALSE) /\ Throw("undoLoop")
  /\ Keep /\ UNCHANGED os

\* The last sector is read through the device mapper and through the volume and compared.
TestLastSector ==
  /\ core.pc = "test"
  /\ \/ ToPc(IF core.filesystem THEN "filesystem" ELSE "send") /\ UNCHANGED faults
     \/ Fault(FALSE) /\ Throw("undoLayers")
  /\ Keep /\ UNCHANGED os

MountFilesystem ==
  /\ core.pc = "filesystem"
  /\ \/ fs' = [NoFs EXCEPT !.on = IF core.native THEN "native" ELSE "loop"] /\ UNCHANGED faults
        /\ core' = [core EXCEPT !.mounted = core.native, !.pc = IF core.native THEN "send" ELSE "mounted"]
     \/ Fault(FALSE) /\ Throw(IF core.native THEN "undoLayers" ELSE "removeMountDir") /\ UNCHANGED fs
  /\ Keep /\ UNCHANGED <<fuse, info, loop, layers, deferred, dirs>>

\* SendAuxDeviceInfo: last of all in MountVolumeNative, before the file system in MountAuxVolumeImage.
SendAuxDeviceInfo ==
  /\ core.pc = "send"
  /\ \/ /\ info' = [virtual |-> IF core.native THEN "native" ELSE "loop", loop |-> "loop"]
        /\ ToPc(IF ~core.native /\ core.filesystem THEN "filesystem" ELSE "mounted") /\ UNCHANGED faults
     \/ Fault(FALSE) /\ Throw(IF core.native THEN "undoFs" ELSE "undoLoop") /\ UNCHANGED info
  /\ Keep /\ UNCHANGED <<fuse, loop, layers, deferred, fs, dirs>>

\* The volume must be listed now.
Mounted ==
  /\ core.pc = "mounted"
  /\ \/ Listed /\ End("mounted") /\ UNCHANGED faults
     \/ Fault(~Listed) /\ End("mountFailed")
  /\ UNCHANGED os

-----------------------------------------------------------------------------
(* The rollbacks of MountVolumeNative and MountAuxVolumeImage, whose own   *)
(* failures are ignored, and that of MountVolume, which unmounts.          *)

UndoFilesystem ==
  /\ core.pc = "undoFs"
  /\ \/ fs' = (IF core.mounted THEN NoFs ELSE fs) /\ (core.mounted => ~FsBusy) /\ UNCHANGED faults
     \/ core.mounted /\ Fault(FsBusy) /\ UNCHANGED fs
  /\ ToPc("undoLayers") /\ Keep /\ UNCHANGED <<fuse, info, loop, layers, deferred, dirs>>

\* DismountNativeVolume on the device that was to be created last: the first name that
\* does not exist ends it.  The names it tries next are the suffixes of that device's name,
\* and those of a device that has a suffix itself ("undoLayer") do not exist.
UndoLayers ==
  /\ core.pc \in {"undoLayer", "undoLayers"}
  /\ IF core.created /\ core.layer \in layers
     THEN \/ /\ ~LayerBusy(core.layer) /\ layers' = layers \ {core.layer} /\ UNCHANGED faults
             /\ core' = [core EXCEPT !.pc = IF core.pc = "undoLayer" THEN "undoLoop" ELSE "undoLayers",
                           !.layer = core.layer + 1]
          \/ Fault(LayerBusy(core.layer)) /\ ToPc("undoLoop") /\ UNCHANGED layers
     ELSE ToPc("undoLoop") /\ UNCHANGED <<layers, faults>>
  /\ Keep /\ UNCHANGED <<fuse, info, loop, deferred, fs, dirs>>

\* losetup -d: a loop device that is in use is detached by its last user.
DetachedLoop == IF loop.of # "none" /\ LoopBusy THEN [loop EXCEPT !.auto = TRUE] ELSE NoLoop

UndoLoop ==
  /\ core.pc = "undoLoop"
  /\ \/ loop' = DetachedLoop /\ UNCHANGED faults
     \/ Fault(FALSE) /\ UNCHANGED loop
  /\ ToPc("removeMountDir") /\ Keep /\ UNCHANGED <<fuse, info, layers, deferred, fs, dirs>>

RemoveMountDirectory ==
  /\ core.pc = "removeMountDir"
  /\ dirs' = IF fs.on = "none" THEN dirs \ {"mount"} ELSE dirs
  /\ ToPc("lookup") /\ Keep /\ UNCHANGED <<fuse, info, loop, layers, deferred, fs, faults>>

\* GetMountedVolumes: what the service and the list of mounts tell.
Lookup ==
  /\ core.pc = "lookup"
  /\ IF Listed
     THEN core' = [core EXCEPT !.pc = "umountFs", !.info = info, !.mountPoint = MountPointKnown] /\ Keep
     ELSE End(Failure)
  /\ UNCHANGED os /\ UNCHANGED faults

-----------------------------------------------------------------------------
(* DismountVolume and EmergencyDismountVolume.                             *)

Begin(op) ==
  /\ core.pc = "idle" /\ Listed
  /\ core' = [Idle EXCEPT !.pc = "umountFs", !.op = op, !.info = info, !.mountPoint = MountPointKnown]
  /\ faults' = 0 /\ outcome' = "none" /\ UNCHANGED os

DismountVolume == Begin("dismount")
EmergencyDismountVolume == Begin("emergency")

Emergency == core.op = "emergency"

\* An emergency dismount goes on after a failure and throws its first exception last.
Failing(next) == IF Emergency THEN Throw(next) /\ Keep ELSE End(Failure)

UmountFilesystem ==
  /\ core.pc = "umountFs"
  /\ \/ /\ ~core.mountPoint /\ UNCHANGED <<fs, dirs, faults>>
        /\ core' = [core EXCEPT !.pc = "layers", !.layer = 0] /\ Keep
     \/ /\ core.mountPoint /\ (FsBusy => Emergency)
        /\ fs' = (IF FsBusy THEN [fs EXCEPT !.lazy = TRUE] ELSE NoFs) /\ dirs' = dirs \ {"mount"}
        /\ core' = [core EXCEPT !.pc = "layers", !.layer = 0] /\ Keep /\ UNCHANGED faults
     \/ /\ core.mountPoint /\ Fault(FsBusy /\ ~Emergency) /\ Failing("layers") /\ UNCHANGED <<fs, dirs>>
  /\ UNCHANGED <<fuse, info, loop, layers, deferred>>

\* DismountNativeVolumeInternal.  Without "deferred" the first name that does not exist ends
\* it; deferred, all names of the longest cascade are tried, and a device in use is
\* removed by its last user.
MoreLayers ==
  /\ core.info.virtual = "native"
  /\ IF Emergency THEN core.layer < MaxCiphers ELSE core.layer \in layers

NextLayer == core' = [core EXCEPT !.layer = core.layer + 1] /\ Keep

\* (Mutant: a device in use is left where it is.)
RemoveLayerAtOnce(i) ==
  /\ layers' = IF LayerBusy(i) THEN layers ELSE layers \ {i}
  /\ UNCHANGED deferred

RemoveLayer(i) ==
  IF LayerBusy(i) THEN deferred' = deferred \cup {i} /\ UNCHANGED layers
  ELSE layers' = layers \ {i} /\ deferred' = deferred \ {i}

DismountNativeVolume ==
  /\ core.pc = "layers"
  /\ IF ~MoreLayers
     THEN ToPc("detach") /\ Keep /\ UNCHANGED <<layers, deferred, faults>>
     ELSE \/ core.layer \notin layers /\ NextLayer /\ UNCHANGED <<layers, deferred, faults>>
          \/ /\ core.layer \in layers /\ (LayerBusy(core.layer) => Emergency)
             /\ RemoveLayer(core.layer) /\ NextLayer /\ UNCHANGED faults
          \/ /\ core.layer \in layers /\ Fault(LayerBusy(core.layer) /\ ~Emergency)
             /\ Failing("detach") /\ UNCHANGED <<layers, deferred>>
  /\ UNCHANGED <<fuse, info, loop, fs, dirs>>

\* A failure of losetup is ignored; an emergency dismount reports it if the loop device is still attached.
DetachLoop ==
  /\ core.pc = "detach"
  /\ \/ core.info.loop = "none" /\ ToPc("umountAux") /\ UNCHANGED <<loop, faults>>
     \/ core.info.loop # "none" /\ loop' = DetachedLoop /\ ToPc("umountAux") /\ UNCHANGED faults
     \/ /\ core.info.loop # "none" /\ Fault(FALSE)
        /\ core' = [core EXCEPT !.pc = "umountAux", !.error = core.error \/ (Emergency /\ loop.of # "none")]
        /\ UNCHANGED loop
  /\ Keep /\ UNCHANGED <<fuse, info, layers, deferred, fs, dirs>>

Done == IF core.op = "mount" \/ core.error THEN Failure ELSE core.op

\* The service closes the volume when its file system is unmounted.
UmountAux ==
  /\ core.pc = "umountAux"
  /\ \/ /\ fuse = "mounted" /\ (FuseBusy => Emergency)
        /\ fuse' = (IF FuseBusy THEN "lazy" ELSE "none") /\ dirs' = dirs \ {"fuse"}
        /\ End(Done) /\ UNCHANGED faults
     \/ Fault(FuseBusy /\ ~Emergency) /\ End(Failure) /\ UNCHANGED <<fuse, dirs>>
  /\ UNCHANGED <<info, loop, layers, deferred, fs>>

-----------------------------------------------------------------------------
(* Programs that use the file system, and the kernel.                      *)

Use ==
  /\ ~used /\ fs.on # "none" /\ ~fs.lazy
  /\ used' = TRUE /\ UNCHANGED <<core, faults, outcome>> /\ UNCHANGED os

Close ==
  /\ used
  /\ used' = FALSE /\ UNCHANGED <<core, faults, outcome>> /\ UNCHANGED os

Release ==
  \/ fs.lazy /\ ~used /\ fs' = NoFs /\ UNCHANGED <<layers, deferred, loop, fuse>>
  \/ /\ \E i \in deferred : ~LayerBusy(i) /\ layers' = layers \ {i} /\ deferred' = deferred \ {i}
     /\ UNCHANGED <<fs, loop, fuse>>
  \/ loop.auto /\ ~LoopBusy /\ loop' = NoLoop /\ UNCHANGED <<fs, layers, deferred, fuse>>
  \/ fuse = "lazy" /\ ~FuseBusy /\ fuse' = "none" /\ UNCHANGED <<fs, layers, deferred, loop>>

KernelReleases == Release /\ UNCHANGED <<core, info, dirs, used, faults, outcome>>

-----------------------------------------------------------------------------

Step ==
  \/ FindFuseDirectory \/ FuseMount \/ FuseWait \/ FuseUndo \/ MakeMountDirectory \/ AttachLoop
  \/ CreateLayer \/ TestLastSector \/ MountFilesystem \/ SendAuxDeviceInfo \/ Mounted
  \/ UndoFilesystem \/ UndoLayers \/ UndoLoop \/ RemoveMountDirectory \/ Lookup
  \/ UmountFilesystem \/ DismountNativeVolume \/ DetachLoop \/ UmountAux

Next ==
  \/ (MountVolume \/ DismountVolume \/ EmergencyDismountVolume \/ Step) /\ UNCHANGED used
  \/ FuseStart \/ Use \/ Close \/ KernelReleases

Spec == Init /\ [][Next]_vars

\* The kernel releases what is no longer used, and programs end some time.
Fairness == WF_vars(KernelReleases) /\ WF_vars(Close)

FairSpec == Spec /\ Fairness

-----------------------------------------------------------------------------
(* Properties.                                                             *)

\* Type invariant.
TypeOK ==
  /\ fuse \in {"none", "starting", "mounted", "lazy"}
  /\ info.virtual \in {"none", "native", "loop"} /\ info.loop \in {"none", "loop"}
  /\ loop.of \in {"none", "file", "image"} /\ fs.on \in {"none", "native", "loop"}
  /\ layers \subseteq 0..MaxCiphers - 1 /\ deferred \subseteq layers
  /\ dirs \subseteq {"fuse", "mount"} /\ used \in BOOLEAN /\ faults \in 0..MaxFaults

\* One command of a mount fails, for any cascade.  The rollbacks of the three functions together
\* remove all that was set up, unless the command was the making of a mapper device: a mapper
\* device, a file system or a loop device that remains belongs to a volume that is listed with
\* its devices, and can be unmounted.  When a mapper device could not be made, or its node did not
\* come, mapper devices may remain, which hold keys and belong to no volume; besides them
\* only their loop device remains, and it goes with the last of them.
FailedMountUndone ==
  core.pc = "idle" /\ faults <= 1 =>
    /\ outcome = "mountFailed" =>
         (layers # {} \/ fs # NoFs \/ loop # NoLoop => Listed /\ info # NoInfo)
    /\ outcome = "createFailed" =>
         fuse = "none" /\ fs = NoFs /\ (loop # NoLoop => loop.auto /\ layers # {})

\* An unmount that reports success has removed the file system, the mapper devices, which
\* hold the keys, and the service, which holds them too.
UnmountErasesKeys == outcome = "dismount" => fs = NoFs /\ layers = {} /\ fuse = "none"

\* An emergency dismount takes the volume from under the programs that use it.  When it reports
\* success, and the service knew the volume's devices, nothing is left of the volume as soon as
\* those programs have ended: the removal of each device is left to the one above it.
EmergencyUnmountEnds ==
  (core.pc = "idle" /\ outcome = "emergency" /\ info # NoInfo)
    ~> (NothingLeft \/ outcome # "emergency")

=============================================================================
