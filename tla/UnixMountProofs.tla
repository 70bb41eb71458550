---------------------------- MODULE UnixMountProofs ----------------------------
(***************************************************************************)
(* Theorems about UnixMount, for cascades of any length: type correctness, *)
(* and what is left of a mount in which one command failed: nothing,       *)
(* unless the command was the making of a mapper device.                   *)
(***************************************************************************)
EXTENDS UnixMount, TLAPS

Sites == [on : {"none", "native", "loop"}, lazy : BOOLEAN]
Loops == [of : {"none", "file", "image"}, auto : BOOLEAN]
Infos == [virtual : {"none", "native", "loop"}, loop : {"none", "loop"}]

\* The program counters of MountVolume and its rollback, and those of an unmount, which ends
\* the rollback too.
MountPcs ==
  {"fuseDir", "fuse", "fuseWait", "fuseUndo", "mountDir", "loop", "image", "layer", "test",
   "filesystem", "send", "mounted", "undoFs", "undoLayer", "undoLayers", "undoLoop",
   "removeMountDir", "lookup"}
DismountPcs == {"umountFs", "layers", "detach", "umountAux"}

Pcs == {"idle"} \cup MountPcs \cup DismountPcs

CoreRecords ==
  [pc : Pcs, op : {"none", "mount", "dismount", "emergency"},
   native : BOOLEAN, filesystem : BOOLEAN, ciphers : 1 .. MaxCiphers, layer : Nat,
   created : BOOLEAN, unmade : BOOLEAN, mounted : BOOLEAN, info : Infos,
   mountPoint : BOOLEAN, error : BOOLEAN]

(* The types, and what they rest on: a device is left to its last user by  *)
(* an emergency dismount only, so none is during a mount.                  *)
Typing ==
  /\ core \in CoreRecords /\ fuse \in {"none", "starting", "mounted", "lazy"}
  /\ info \in Infos /\ loop \in Loops /\ fs \in Sites
  /\ layers \subseteq 0 .. MaxCiphers - 1 /\ deferred \subseteq layers
  /\ dirs \subseteq {"fuse", "mount"} /\ used \in BOOLEAN /\ faults \in 0 .. MaxFaults
  /\ core.pc = "idle" <=> core.op = "none"
  /\ core.pc \in MountPcs => core.op = "mount"
  /\ core.op = "mount" => deferred = {}
  /\ core.pc = "layer" => core.layer < core.ciphers

-----------------------------------------------------------------------------
(* Where a mount is, while at most one of its commands has failed.         *)

Nothing == layers = {} /\ fs = NoFs /\ loop = NoLoop

\* The mapper devices from one on, up to the first that was made, are there.
LayersFrom(i) == layers = i .. core.ciphers - 1

\* The kernel keeps a loop device for the mapper devices that could not be removed.
LoopOfLayers == loop.of = "file" /\ loop.auto /\ layers # {}

\* Nothing else is left to the kernel.
Settled == ~fs.lazy /\ deferred = {} /\ (loop.auto => core.unmade /\ LoopOfLayers)

\* Nothing has failed, and nothing is there but the service.
Before ==
  core.pc \in {"fuseDir", "fuse", "fuseWait", "mountDir", "loop", "image"} =>
    /\ faults = 0 /\ Nothing /\ ~core.created /\ ~core.mounted /\ ~core.unmade
    /\ core.pc \notin {"fuseDir", "fuse"} => info = NoInfo

\* Devices and the file system are made, and the service is told of them.
Making ==
  /\ core.pc = "layer" =>
       /\ faults = 0 /\ core.native /\ LayersFrom(core.layer + 1) /\ loop.of = "file"
       /\ fs = NoFs /\ info = NoInfo /\ ~core.mounted /\ ~core.unmade
  /\ core.pc = "test" =>
       /\ faults = 0 /\ core.native /\ core.created /\ core.layer = 0 /\ LayersFrom(0)
       /\ fs = NoFs /\ info = NoInfo /\ ~core.mounted /\ ~core.unmade
  /\ core.pc \in {"filesystem", "send"} /\ core.native =>
       /\ faults = 0 /\ core.created /\ core.layer = 0 /\ LayersFrom(0) /\ ~core.unmade
       /\ info = NoInfo
       /\ fs = NoFs \/ (core.pc = "send" /\ core.mounted)
  /\ core.pc \in {"filesystem", "send"} /\ ~core.native =>
       /\ faults = 0 /\ layers = {} /\ fs = NoFs /\ ~core.created /\ ~core.unmade
       /\ info = IF core.pc = "send" THEN NoInfo ELSE [virtual |-> "loop", loop |-> "loop"]
  /\ core.pc = "mounted" => faults = 0 /\ info # NoInfo /\ ~core.unmade

\* What is still to be removed after the first failure.
LoopKnown(known) ==
  \/ loop = NoLoop
  \/ ~core.unmade /\ known.loop # "none"
  \/ core.unmade /\ LoopOfLayers
Undoing ==
  /\ core.pc = "fuseUndo" => Nothing /\ ~core.unmade
  /\ core.pc = "undoFs" =>
       /\ core.created /\ core.layer = 0 /\ LayersFrom(0) /\ ~core.unmade
       /\ fs = NoFs \/ core.mounted
  /\ core.pc \in {"undoLayer", "undoLayers"} =>
       fs = NoFs /\ (~core.unmade => core.created /\ LayersFrom(core.layer))
  /\ core.pc = "undoLayer" => core.unmade
  /\ core.pc \in {"undoLayer", "undoLayers", "undoLoop"} /\ core.unmade => loop.of = "file"
  /\ core.pc \in {"undoFs", "undoLayer", "undoLayers", "undoLoop"} => info = NoInfo /\ ~loop.auto
  /\ core.pc \in {"undoLoop", "removeMountDir", "lookup"} \cup DismountPcs =>
       (~core.unmade => layers = {}) /\ fs = NoFs
  /\ core.pc \in {"removeMountDir", "lookup"} =>
       LoopKnown(info) /\ info.virtual # "native" /\ (core.unmade => info = NoInfo)
  /\ core.pc \in DismountPcs =>
       /\ core.info.virtual # "native" /\ ~core.mountPoint
       /\ core.unmade => core.info = NoInfo
  /\ core.pc \in {"umountFs", "layers", "detach"} => LoopKnown(core.info)
  /\ core.pc = "umountAux" => loop = NoLoop \/ (core.unmade /\ LoopOfLayers)
  /\ core.pc \in {"fuseUndo", "undoFs", "undoLayer", "undoLayers", "undoLoop", "removeMountDir",
                   "lookup"} \cup DismountPcs => faults = 1

\* The service is there as soon as it was awaited.
Serving ==
  fuse # "lazy" /\ (core.pc \notin {"fuseDir", "fuse", "fuseWait", "fuseUndo"} => fuse = "mounted")

MountInv ==
  core.op = "mount" /\ faults <= 1 => Settled /\ Serving /\ Before /\ Making /\ Undoing

\* What a failed mount leaves.
FailedInv ==
  core.pc = "idle" /\ faults <= 1 =>
    /\ outcome = "mountFailed" =>
         /\ ~fs.lazy /\ ~loop.auto /\ deferred = {}
         /\ Nothing \/ (Listed /\ info # NoInfo)
    /\ outcome = "createFailed" =>
         fuse = "none" /\ fs = NoFs /\ deferred = {} /\ (loop = NoLoop \/ LoopOfLayers)

UndoneInv == Typing /\ MountInv /\ FailedInv

-----------------------------------------------------------------------------
(* How an action changes the operation under way.                          *)

MovesTo(pc, layer, created, mounted, known, mountPoint) ==
  /\ core' \in CoreRecords /\ core'.pc = pc
  /\ core'.op = core.op /\ core'.native = core.native /\ core'.ciphers = core.ciphers
  /\ core'.layer = layer /\ (core'.created <=> created) /\ (core'.mounted <=> mounted)
  /\ core'.info = known /\ core'.mountPoint = mountPoint
Same == core'.unmade <=> core.unmade
Goes(pc) ==
  MovesTo(pc, core.layer, core.created, core.mounted, core.info, core.mountPoint) /\ Same
GoesAt(pc, layer) ==
  MovesTo(pc, layer, core.created, core.mounted, core.info, core.mountPoint) /\ Same
Creates(pc, layer) ==
  MovesTo(pc, layer, TRUE, core.mounted, core.info, core.mountPoint) /\ Same
Mounts(pc, mounted) ==
  MovesTo(pc, core.layer, core.created, mounted, core.info, core.mountPoint) /\ Same
Learns(known, mountPoint) ==
  MovesTo("umountFs", core.layer, core.created, core.mounted, known, mountPoint) /\ Same
Misses(pc) ==
  MovesTo(pc, core.layer, core.created, core.mounted, core.info, core.mountPoint) /\ core'.unmade

LEMMA Going ==
  ASSUME core \in CoreRecords
  PROVE  /\ \A pc \in Pcs : ToPc(pc) => Goes(pc)
         /\ \A pc \in Pcs : Throw(pc) => Goes(pc)
         /\ \A pc \in Pcs, error \in BOOLEAN :
              core' = [core EXCEPT !.pc = pc, !.error = error] => Goes(pc)
<1> USE DEF CoreRecords, Goes, Same, MovesTo
<1>1. ASSUME NEW pc \in Pcs, ToPc(pc) PROVE Goes(pc)
  BY <1>1 DEF ToPc
<1>2. ASSUME NEW pc \in Pcs, Throw(pc) PROVE Goes(pc)
  BY <1>2 DEF Throw
<1>3. ASSUME NEW pc \in Pcs, NEW error \in BOOLEAN,
             core' = [core EXCEPT !.pc = pc, !.error = error]
      PROVE  Goes(pc)
  BY <1>3
<1> HIDE DEF Goes
<1> QED BY <1>1, <1>2, <1>3

LEMMA GoingAt ==
  ASSUME core \in CoreRecords
  PROVE  \A pc \in Pcs, layer \in Nat :
           /\ core' = [core EXCEPT !.pc = pc, !.layer = layer] => GoesAt(pc, layer)
           /\ core' = [core EXCEPT !.layer = layer] => GoesAt(core.pc, layer)
           /\ core' = [core EXCEPT !.created = TRUE, !.layer = layer, !.pc = pc] =>
                Creates(pc, layer)
<1> SUFFICES ASSUME NEW pc \in Pcs, NEW layer \in Nat
    PROVE  /\ core' = [core EXCEPT !.pc = pc, !.layer = layer] => GoesAt(pc, layer)
           /\ core' = [core EXCEPT !.layer = layer] => GoesAt(core.pc, layer)
           /\ core' = [core EXCEPT !.created = TRUE, !.layer = layer, !.pc = pc] =>
                Creates(pc, layer)
  OBVIOUS
<1> USE DEF CoreRecords
<1>1. ASSUME core' = [core EXCEPT !.pc = pc, !.layer = layer] PROVE GoesAt(pc, layer)
  <2>1. core' \in CoreRecords
    BY <1>1
  <2> QED BY <1>1, <2>1 DEF GoesAt, Same, MovesTo
<1>2. ASSUME core' = [core EXCEPT !.layer = layer] PROVE GoesAt(core.pc, layer)
  <2>1. core' \in CoreRecords
    BY <1>2
  <2> QED BY <1>2, <2>1 DEF GoesAt, Same, MovesTo
<1>3. ASSUME core' = [core EXCEPT !.created = TRUE, !.layer = layer, !.pc = pc]
      PROVE  Creates(pc, layer)
  <2>1. core' \in CoreRecords
    BY <1>3
  <2> QED BY <1>3, <2>1 DEF Creates, Same, MovesTo
<1> QED BY <1>1, <1>2, <1>3

LEMMA GoingWith ==
  ASSUME core \in CoreRecords
  PROVE  \A pc \in Pcs, mounted \in BOOLEAN :
           core' = [core EXCEPT !.mounted = mounted, !.pc = pc] => Mounts(pc, mounted)
<1> SUFFICES ASSUME NEW pc \in Pcs, NEW mounted \in BOOLEAN,
                    core' = [core EXCEPT !.mounted = mounted, !.pc = pc]
    PROVE  Mounts(pc, mounted)
  OBVIOUS
<1>1. core' \in CoreRecords
  BY DEF CoreRecords
<1> QED BY <1>1 DEF CoreRecords, Mounts, Same, MovesTo

LEMMA Learning ==
  ASSUME core \in CoreRecords,
         NEW known \in Infos, NEW mountPoint \in BOOLEAN,
         core' = [core EXCEPT !.pc = "umountFs", !.info = known, !.mountPoint = mountPoint]
  PROVE  Learns(known, mountPoint)
<1>1. "umountFs" \in Pcs
  BY DEF Pcs, DismountPcs
<1>2. core' \in CoreRecords
  BY <1>1 DEF CoreRecords
<1> QED BY <1>2 DEF CoreRecords, Learns, Same, MovesTo

LEMMA IdleTypes ==
  ASSUME ConstantsOK
  PROVE  /\ Idle \in CoreRecords /\ Idle.pc = "idle" /\ Idle.op = "none"
         /\ \A native, filesystem \in BOOLEAN, ciphers \in 1 .. MaxCiphers :
              core' = [Idle EXCEPT !.pc = "fuseDir", !.op = "mount", !.native = native,
                                   !.filesystem = filesystem, !.ciphers = ciphers] =>
                /\ core' \in CoreRecords /\ core'.pc = "fuseDir" /\ core'.op = "mount"
                /\ ~core'.created /\ ~core'.mounted /\ ~core'.unmade
         /\ \A op \in {"dismount", "emergency"}, known \in Infos, mountPoint \in BOOLEAN :
              core' = [Idle EXCEPT !.pc = "umountFs", !.op = op, !.info = known,
                                   !.mountPoint = mountPoint] =>
                core' \in CoreRecords /\ core'.pc = "umountFs" /\ core'.op = op
<1>1. 1 \in 1 .. MaxCiphers
  BY DEF ConstantsOK
<1> USE <1>1 DEF CoreRecords, Infos, Idle, NoInfo, Pcs, MountPcs, DismountPcs
<1>2. Idle \in CoreRecords /\ Idle.pc = "idle" /\ Idle.op = "none"
  OBVIOUS
<1>3. ASSUME NEW native \in BOOLEAN, NEW filesystem \in BOOLEAN, NEW ciphers \in 1 .. MaxCiphers,
             core' = [Idle EXCEPT !.pc = "fuseDir", !.op = "mount", !.native = native,
                                  !.filesystem = filesystem, !.ciphers = ciphers]
      PROVE  /\ core' \in CoreRecords /\ core'.pc = "fuseDir" /\ core'.op = "mount"
             /\ ~core'.created /\ ~core'.mounted /\ ~core'.unmade
  BY <1>3
<1>4. ASSUME NEW op \in {"dismount", "emergency"}, NEW known \in Infos, NEW mountPoint \in BOOLEAN,
             core' = [Idle EXCEPT !.pc = "umountFs", !.op = op, !.info = known,
                                  !.mountPoint = mountPoint]
      PROVE  core' \in CoreRecords /\ core'.pc = "umountFs" /\ core'.op = op
  BY <1>4
<1> HIDE DEF CoreRecords, Infos, Idle
<1> QED BY <1>2, <1>3, <1>4

LEMMA Missing ==
  ASSUME core \in CoreRecords, NEW pc \in Pcs, Unmade(pc)
  PROVE  Misses(pc)
<1>1. core' \in CoreRecords
  BY DEF CoreRecords, Unmade
<1> QED BY <1>1 DEF CoreRecords, Misses, MovesTo, Unmade

LEMMA CoreFields ==
  ASSUME core \in CoreRecords
  PROVE  /\ core.pc \in Pcs /\ core.layer \in Nat /\ core.mounted \in BOOLEAN
         /\ core.created \in BOOLEAN /\ core.unmade \in BOOLEAN
         /\ core.native \in BOOLEAN /\ core.error \in BOOLEAN
         /\ core.info \in Infos /\ core.ciphers \in 1 .. MaxCiphers
         /\ core.mountPoint \in BOOLEAN
         /\ core.op \in {"none", "mount", "dismount", "emergency"}
  BY DEF CoreRecords

-----------------------------------------------------------------------------
(* The types.                                                              *)

LEMMA DeviceTypes ==
  /\ NoFs \in Sites /\ NoLoop \in Loops /\ NoInfo \in Infos
  /\ \A on \in {"none", "native", "loop"} : [NoFs EXCEPT !.on = on] \in Sites
  /\ \A of \in {"none", "file", "image"} : [NoLoop EXCEPT !.of = of] \in Loops
  /\ \A f \in Sites : [f EXCEPT !.lazy = TRUE] \in Sites
  /\ \A l \in Loops : [l EXCEPT !.auto = TRUE] \in Loops
  /\ [virtual |-> "native", loop |-> "loop"] \in Infos
  /\ [virtual |-> "loop", loop |-> "loop"] \in Infos
  BY DEF NoFs, NoLoop, NoInfo, Infos, Sites, Loops

LEMMA FaultTypes ==
  ASSUME ConstantsOK, faults \in 0 .. MaxFaults
  PROVE  \A busy \in BOOLEAN : Fault(busy) => faults' \in 0 .. MaxFaults /\ faults' >= faults
  BY DEF ConstantsOK, Fault

-----------------------------------------------------------------------------
(* What each action does, in these terms.                                  *)

Ends(result) ==
  /\ core' \in CoreRecords /\ core'.pc = "idle" /\ core'.op = "none" /\ outcome' = result
Faulted ==
  faults' \in 0 .. MaxFaults /\ faults' >= faults /\ (faults <= 1 => faults' = faults + 1)
Fails(next) == IF Emergency THEN Goes(next) /\ UNCHANGED outcome ELSE Ends(Failure)
SentInfo == [virtual |-> IF core.native THEN "native" ELSE "loop", loop |-> "loop"]
LayersGo(i) ==
  \/ UNCHANGED <<layers, deferred>>
  \/ /\ i \in layers /\ layers' = layers \ {i} /\ deferred' \subseteq deferred \ {i}
  \/ /\ i \in layers /\ Emergency /\ deferred' = deferred \cup {i} /\ UNCHANGED layers

LEMMA Faults ==
  ASSUME ConstantsOK, faults \in 0 .. MaxFaults
  PROVE  \A busy : Fault(busy) => Faulted
  BY DEF ConstantsOK, Fault, Faulted

LEMMA Endings ==
  ASSUME ConstantsOK
  PROVE  \A result : End(result) => Ends(result)
  BY IdleTypes DEF End, Ends

LEMMA FindFuseDirectoryDoes ==
  ASSUME ConstantsOK, Typing, FindFuseDirectory
  PROVE  /\ core.pc = "fuseDir"
         /\ UNCHANGED <<fuse, info, loop, layers, deferred, fs>>
         /\ \/ dirs' = dirs \cup {"fuse"} /\ Goes("fuse") /\ UNCHANGED <<faults, outcome>>
            \/ Faulted /\ Ends("mountFailed") /\ UNCHANGED dirs
<1>1. /\ core \in CoreRecords /\ faults \in 0 .. MaxFaults /\ info \in Infos /\ loop \in Loops
      /\ fs \in Sites /\ deferred \subseteq layers
      /\ core.layer \in Nat /\ core.layer + 1 \in Nat /\ core.ciphers - 1 \in Nat
      /\ core.layer # 0 => core.layer > 0 /\ core.layer - 1 \in Nat
  <2>1. core.layer \in Nat /\ core.ciphers \in 1 .. MaxCiphers
    BY CoreFields DEF Typing
  <2> QED BY <2>1 DEF Typing, ConstantsOK
<1> QED
  BY <1>1, CoreFields, Faults, Endings, Going
  DEF FindFuseDirectory, Pcs, MountPcs, DismountPcs, Keep, os

LEMMA FuseMountDoes ==
  ASSUME ConstantsOK, Typing, FuseMount
  PROVE  /\ core.pc = "fuse"
         /\ UNCHANGED <<loop, layers, deferred, fs, dirs, outcome>>
         /\ \/ fuse' = "starting" /\ info' = NoInfo /\ Goes("fuseWait") /\ UNCHANGED faults
            \/ Faulted /\ Goes("fuseUndo") /\ UNCHANGED <<fuse, info>>
<1>1. /\ core \in CoreRecords /\ faults \in 0 .. MaxFaults /\ info \in Infos /\ loop \in Loops
      /\ fs \in Sites /\ deferred \subseteq layers
      /\ core.layer \in Nat /\ core.layer + 1 \in Nat /\ core.ciphers - 1 \in Nat
      /\ core.layer # 0 => core.layer > 0 /\ core.layer - 1 \in Nat
  <2>1. core.layer \in Nat /\ core.ciphers \in 1 .. MaxCiphers
    BY CoreFields DEF Typing
  <2> QED BY <2>1 DEF Typing, ConstantsOK
<1> QED
  BY <1>1, CoreFields, Faults, Endings, Going DEF FuseMount, Pcs, MountPcs, DismountPcs, Keep, os

LEMMA FuseWaitDoes ==
  ASSUME ConstantsOK, Typing, FuseWait
  PROVE  /\ core.pc = "fuseWait"
         /\ UNCHANGED <<fuse, info, loop, layers, deferred, fs, dirs, outcome>>
         /\ \/ /\ fuse = "mounted" /\ UNCHANGED faults
               /\ \E pc \in {"mountDir", "loop", "image"} : Goes(pc)
            \/ Faulted /\ Goes("fuseUndo")
<1>1. /\ core \in CoreRecords /\ faults \in 0 .. MaxFaults /\ info \in Infos /\ loop \in Loops
      /\ fs \in Sites /\ deferred \subseteq layers
      /\ core.layer \in Nat /\ core.layer + 1 \in Nat /\ core.ciphers - 1 \in Nat
      /\ core.layer # 0 => core.layer > 0 /\ core.layer - 1 \in Nat
  <2>1. core.layer \in Nat /\ core.ciphers \in 1 .. MaxCiphers
    BY CoreFields DEF Typing
  <2> QED BY <2>1 DEF Typing, ConstantsOK
<1> QED
  BY <1>1, CoreFields, Faults, Endings, Going DEF FuseWait, Pcs, MountPcs, DismountPcs, Keep, os

LEMMA FuseUndoDoes ==
  ASSUME ConstantsOK, Typing, FuseUndo
  PROVE  /\ core.pc = "fuseUndo"
         /\ UNCHANGED <<fuse, info, loop, layers, deferred, fs, faults>>
         /\ dirs' \subseteq dirs /\ Ends("mountFailed")
<1>1. /\ core \in CoreRecords /\ faults \in 0 .. MaxFaults /\ info \in Infos /\ loop \in Loops
      /\ fs \in Sites /\ deferred \subseteq layers
      /\ core.layer \in Nat /\ core.layer + 1 \in Nat /\ core.ciphers - 1 \in Nat
      /\ core.layer # 0 => core.layer > 0 /\ core.layer - 1 \in Nat
  <2>1. core.layer \in Nat /\ core.ciphers \in 1 .. MaxCiphers
    BY CoreFields DEF Typing
  <2> QED BY <2>1 DEF Typing, ConstantsOK
<1> QED
  BY <1>1, CoreFields, Faults, Endings, Going DEF FuseUndo, Pcs, MountPcs, DismountPcs, Keep, os

LEMMA MakeMountDirectoryDoes ==
  ASSUME ConstantsOK, Typing, MakeMountDirectory
  PROVE  /\ core.pc = "mountDir"
         /\ UNCHANGED <<fuse, info, loop, layers, deferred, fs, outcome>>
         /\ \/ /\ dirs' = dirs \cup {"mount"} /\ UNCHANGED faults
               /\ \E pc \in {"loop", "image"} : Goes(pc)
            \/ Faulted /\ Goes("lookup") /\ UNCHANGED dirs
<1>1. /\ core \in CoreRecords /\ faults \in 0 .. MaxFaults /\ info \in Infos /\ loop \in Loops
      /\ fs \in Sites /\ deferred \subseteq layers
      /\ core.layer \in Nat /\ core.layer + 1 \in Nat /\ core.ciphers - 1 \in Nat
      /\ core.layer # 0 => core.layer > 0 /\ core.layer - 1 \in Nat
  <2>1. core.layer \in Nat /\ core.ciphers \in 1 .. MaxCiphers
    BY CoreFields DEF Typing
  <2> QED BY <2>1 DEF Typing, ConstantsOK
<1> QED
  BY <1>1, CoreFields, Faults, Endings, Going
  DEF MakeMountDirectory, Pcs, MountPcs, DismountPcs, Keep, os

LEMMA AttachLoopDoes ==
  ASSUME ConstantsOK, Typing, AttachLoop
  PROVE  /\ core.pc \in {"loop", "image"}
         /\ UNCHANGED <<fuse, info, layers, deferred, fs, dirs, outcome>>
         /\ \/ /\ loop' \in Loops /\ ~loop'.auto /\ UNCHANGED faults
               /\ core.native /\ loop'.of = "file"
               /\ GoesAt("layer", core.ciphers - 1)
            \/ /\ loop' \in Loops /\ ~loop'.auto /\ UNCHANGED faults /\ ~core.native
               /\ GoesAt("send", core.ciphers - 1)
            \/ Faulted /\ Goes("removeMountDir") /\ UNCHANGED loop
<1>1. /\ core \in CoreRecords /\ faults \in 0 .. MaxFaults /\ info \in Infos /\ loop \in Loops
      /\ fs \in Sites /\ deferred \subseteq layers
      /\ core.layer \in Nat /\ core.layer + 1 \in Nat /\ core.ciphers - 1 \in Nat
      /\ core.layer # 0 => core.layer > 0 /\ core.layer - 1 \in Nat
  <2>1. core.layer \in Nat /\ core.ciphers \in 1 .. MaxCiphers
    BY CoreFields DEF Typing
  <2> QED BY <2>1 DEF Typing, ConstantsOK
<1> USE <1>1, CoreFields, Faults, Endings, Going DEF Pcs, MountPcs, DismountPcs, Keep, os
<1>3. CASE /\ loop' = [NoLoop EXCEPT !.of = IF core.native THEN "file" ELSE "image"]
           /\ core' = [core EXCEPT !.pc = IF core.native THEN "layer" ELSE "send",
                                   !.layer = core.ciphers - 1]
           /\ UNCHANGED faults
  <2>1. loop' \in Loops /\ ~loop'.auto /\ (core.native => loop'.of = "file")
    BY <1>3 DEF NoLoop, Loops
  <2>2. CASE core.native
    BY <1>1, <1>3, <2>1, <2>2, GoingAt DEF AttachLoop
  <2>3. CASE ~core.native
    BY <1>1, <1>3, <2>1, <2>3, GoingAt DEF AttachLoop
  <2> QED BY <2>2, <2>3
<1>4. CASE Fault(FALSE) /\ Throw("removeMountDir") /\ UNCHANGED loop
  BY <1>4 DEF AttachLoop
<1> QED BY <1>3, <1>4 DEF AttachLoop

LEMMA CreateLayerDoes ==
  ASSUME ConstantsOK, Typing, CreateLayer
  PROVE  /\ core.pc = "layer"
         /\ UNCHANGED <<fuse, info, loop, deferred, fs, dirs, outcome>>
         /\ \/ /\ layers' = layers \cup {core.layer} /\ UNCHANGED faults /\ core.layer = 0
               /\ Creates("test", 0)
            \/ /\ layers' = layers \cup {core.layer} /\ UNCHANGED faults /\ core.layer # 0
               /\ Creates("layer", core.layer - 1)
            \/ Faulted /\ Misses("undoLayers") /\ UNCHANGED layers
            \/ /\ layers' = layers \cup {core.layer} /\ Faulted
               /\ \E pc \in {"undoLayers", "undoLayer", "undoLoop"} :
                    Misses(pc) /\ (pc = "undoLayers" => core.layer = 0)
<1>1. /\ core \in CoreRecords /\ faults \in 0 .. MaxFaults /\ info \in Infos /\ loop \in Loops
      /\ fs \in Sites /\ deferred \subseteq layers
      /\ core.layer \in Nat /\ core.layer + 1 \in Nat /\ core.ciphers - 1 \in Nat
      /\ core.layer # 0 => core.layer > 0 /\ core.layer - 1 \in Nat
  <2>1. core.layer \in Nat /\ core.ciphers \in 1 .. MaxCiphers
    BY CoreFields DEF Typing
  <2> QED BY <2>1 DEF Typing, ConstantsOK
<1> USE <1>1, CoreFields, Faults, Endings, Going DEF Pcs, MountPcs, DismountPcs, Keep, os
<1>2. CASE /\ layers' = layers \cup {core.layer} /\ UNCHANGED faults
           /\ core' = [core EXCEPT !.created = TRUE,
                         !.layer = IF core.layer = 0 THEN 0 ELSE core.layer - 1,
                         !.pc = IF core.layer = 0 THEN "test" ELSE "layer"]
  <2>1. CASE core.layer = 0
    BY <1>2, <2>1, GoingAt DEF CreateLayer
  <2>2. CASE core.layer # 0
    <3>1. core.layer > 0 /\ core.layer - 1 \in Nat
      BY <1>1, <2>2
    <3>2. core' = [core EXCEPT !.created = TRUE, !.layer = core.layer - 1, !.pc = "layer"] =>
            Creates("layer", core.layer - 1)
      BY <1>1, <3>1, GoingAt
    <3> QED BY <1>2, <2>2, <3>1, <3>2 DEF CreateLayer
  <2> QED BY <2>1, <2>2
<1>3. CASE Fault(FALSE) /\ Unmade("undoLayers") /\ UNCHANGED layers
  BY <1>3, Missing DEF CreateLayer
<1>4. CASE /\ Fault(FALSE) /\ layers' = layers \cup {core.layer}
           /\ \/ Unmade(IF core.layer = 0 THEN "undoLayers" ELSE "undoLayer")
              \/ Unmade("undoLoop")
  <2>1. CASE Unmade("undoLoop")
    BY <1>4, <2>1, Missing DEF CreateLayer
  <2>2. CASE core.layer = 0 /\ Unmade("undoLayers")
    BY <1>4, <2>2, Missing DEF CreateLayer
  <2>3. CASE core.layer # 0 /\ Unmade("undoLayer")
    BY <1>4, <2>3, Missing DEF CreateLayer
  <2> QED BY <1>4, <2>1, <2>2, <2>3
<1> QED BY <1>2, <1>3, <1>4 DEF CreateLayer

LEMMA TestLastSectorDoes ==
  ASSUME ConstantsOK, Typing, TestLastSector
  PROVE  /\ core.pc = "test"
         /\ UNCHANGED <<fuse, info, loop, layers, deferred, fs, dirs, outcome>>
         /\ \/ UNCHANGED faults /\ \E pc \in {"filesystem", "send"} : Goes(pc)
            \/ Faulted /\ Goes("undoLayers")
<1>1. /\ core \in CoreRecords /\ faults \in 0 .. MaxFaults /\ info \in Infos /\ loop \in Loops
      /\ fs \in Sites /\ deferred \subseteq layers
      /\ core.layer \in Nat /\ core.layer + 1 \in Nat /\ core.ciphers - 1 \in Nat
      /\ core.layer # 0 => core.layer > 0 /\ core.layer - 1 \in Nat
  <2>1. core.layer \in Nat /\ core.ciphers \in 1 .. MaxCiphers
    BY CoreFields DEF Typing
  <2> QED BY <2>1 DEF Typing, ConstantsOK
<1> QED
  BY <1>1, CoreFields, Faults, Endings, Going
  DEF TestLastSector, Pcs, MountPcs, DismountPcs, Keep, os

LEMMA MountFilesystemDoes ==
  ASSUME ConstantsOK, Typing, MountFilesystem
  PROVE  /\ core.pc = "filesystem"
         /\ UNCHANGED <<fuse, info, loop, layers, deferred, dirs, outcome>>
         /\ \/ fs' \in Sites /\ ~fs'.lazy /\ UNCHANGED faults /\ core.native /\ Mounts("send", TRUE)
            \/ /\ fs' \in Sites /\ ~fs'.lazy /\ UNCHANGED faults /\ ~core.native
               /\ Mounts("mounted", FALSE)
            \/ Faulted /\ core.native /\ Goes("undoLayers") /\ UNCHANGED fs
            \/ Faulted /\ ~core.native /\ Goes("removeMountDir") /\ UNCHANGED fs
<1>1. /\ core \in CoreRecords /\ faults \in 0 .. MaxFaults /\ info \in Infos /\ loop \in Loops
      /\ fs \in Sites /\ deferred \subseteq layers
      /\ core.layer \in Nat /\ core.layer + 1 \in Nat /\ core.ciphers - 1 \in Nat
      /\ core.layer # 0 => core.layer > 0 /\ core.layer - 1 \in Nat
  <2>1. core.layer \in Nat /\ core.ciphers \in 1 .. MaxCiphers
    BY CoreFields DEF Typing
  <2> QED BY <2>1 DEF Typing, ConstantsOK
<1> USE <1>1, CoreFields, Faults, Endings, Going DEF Pcs, MountPcs, DismountPcs, Keep, os
<1>2. CASE core.native
  <2>1. [NoFs EXCEPT !.on = "native"] \in Sites /\ ~[NoFs EXCEPT !.on = "native"].lazy
    BY DEF NoFs, Sites
  <2> QED BY <1>2, <2>1, GoingWith DEF MountFilesystem
<1>3. CASE ~core.native
  <2>1. [NoFs EXCEPT !.on = "loop"] \in Sites /\ ~[NoFs EXCEPT !.on = "loop"].lazy
    BY DEF NoFs, Sites
  <2> QED BY <1>3, <2>1, GoingWith DEF MountFilesystem
<1> QED BY <1>2, <1>3

LEMMA SendAuxDeviceInfoDoes ==
  ASSUME ConstantsOK, Typing, SendAuxDeviceInfo
  PROVE  /\ core.pc = "send"
         /\ UNCHANGED <<fuse, loop, layers, deferred, fs, dirs, outcome>>
         /\ \/ info' = SentInfo /\ UNCHANGED faults /\ core.native /\ Goes("mounted")
            \/ /\ info' = SentInfo /\ UNCHANGED faults /\ ~core.native
               /\ \E pc \in {"filesystem", "mounted"} : Goes(pc)
            \/ Faulted /\ core.native /\ Goes("undoFs") /\ UNCHANGED info
            \/ Faulted /\ ~core.native /\ Goes("undoLoop") /\ UNCHANGED info
<1>1. /\ core \in CoreRecords /\ faults \in 0 .. MaxFaults /\ info \in Infos /\ loop \in Loops
      /\ fs \in Sites /\ deferred \subseteq layers
      /\ core.layer \in Nat /\ core.layer + 1 \in Nat /\ core.ciphers - 1 \in Nat
      /\ core.layer # 0 => core.layer > 0 /\ core.layer - 1 \in Nat
  <2>1. core.layer \in Nat /\ core.ciphers \in 1 .. MaxCiphers
    BY CoreFields DEF Typing
  <2> QED BY <2>1 DEF Typing, ConstantsOK
<1> USE <1>1, CoreFields, Faults, Endings, Going DEF Pcs, MountPcs, DismountPcs, Keep, os
<1>2. CASE core.native
  BY <1>2 DEF SendAuxDeviceInfo, SentInfo
<1>3. CASE ~core.native
  BY <1>3 DEF SendAuxDeviceInfo, SentInfo
<1> QED BY <1>2, <1>3

LEMMA MountedDoes ==
  ASSUME ConstantsOK, Typing, Mounted
  PROVE  /\ core.pc = "mounted"
         /\ UNCHANGED <<fuse, info, loop, layers, deferred, fs, dirs>>
         /\ \/ Listed /\ Ends("mounted") /\ UNCHANGED faults
            \/ Faulted /\ Ends("mountFailed")
<1>1. /\ core \in CoreRecords /\ faults \in 0 .. MaxFaults /\ info \in Infos /\ loop \in Loops
      /\ fs \in Sites /\ deferred \subseteq layers
      /\ core.layer \in Nat /\ core.layer + 1 \in Nat /\ core.ciphers - 1 \in Nat
      /\ core.layer # 0 => core.layer > 0 /\ core.layer - 1 \in Nat
  <2>1. core.layer \in Nat /\ core.ciphers \in 1 .. MaxCiphers
    BY CoreFields DEF Typing
  <2> QED BY <2>1 DEF Typing, ConstantsOK
<1> QED
  BY <1>1, CoreFields, Faults, Endings, Going DEF Mounted, Pcs, MountPcs, DismountPcs, Keep, os

LEMMA UndoFilesystemDoes ==
  ASSUME ConstantsOK, Typing, UndoFilesystem
  PROVE  /\ core.pc = "undoFs" /\ Goes("undoLayers")
         /\ UNCHANGED <<fuse, info, loop, layers, deferred, dirs, outcome>>
         /\ \/ fs' = (IF core.mounted THEN NoFs ELSE fs) /\ UNCHANGED faults
            \/ core.mounted /\ Faulted /\ UNCHANGED fs
<1>1. /\ core \in CoreRecords /\ faults \in 0 .. MaxFaults /\ info \in Infos /\ loop \in Loops
      /\ fs \in Sites /\ deferred \subseteq layers
      /\ core.layer \in Nat /\ core.layer + 1 \in Nat /\ core.ciphers - 1 \in Nat
      /\ core.layer # 0 => core.layer > 0 /\ core.layer - 1 \in Nat
  <2>1. core.layer \in Nat /\ core.ciphers \in 1 .. MaxCiphers
    BY CoreFields DEF Typing
  <2> QED BY <2>1 DEF Typing, ConstantsOK
<1> QED
  BY <1>1, CoreFields, Faults, Endings, Going
  DEF UndoFilesystem, Pcs, MountPcs, DismountPcs, Keep, os

LEMMA UndoLayersDoes ==
  ASSUME ConstantsOK, Typing, UndoLayers
  PROVE  /\ core.pc \in {"undoLayer", "undoLayers"}
         /\ UNCHANGED <<fuse, info, loop, deferred, fs, dirs, outcome>>
         /\ \/ /\ core.created /\ core.layer \in layers /\ layers' = layers \ {core.layer}
               /\ UNCHANGED faults
               /\ GoesAt(IF core.pc = "undoLayer" THEN "undoLoop" ELSE "undoLayers", core.layer + 1)
            \/ Faulted /\ Goes("undoLoop") /\ UNCHANGED layers
            \/ /\ ~(core.created /\ core.layer \in layers) /\ Goes("undoLoop")
               /\ UNCHANGED <<layers, faults>>
<1>1. /\ core \in CoreRecords /\ faults \in 0 .. MaxFaults /\ info \in Infos /\ loop \in Loops
      /\ fs \in Sites /\ deferred \subseteq layers
      /\ core.layer \in Nat /\ core.layer + 1 \in Nat /\ core.ciphers - 1 \in Nat
      /\ core.layer # 0 => core.layer > 0 /\ core.layer - 1 \in Nat
  <2>1. core.layer \in Nat /\ core.ciphers \in 1 .. MaxCiphers
    BY CoreFields DEF Typing
  <2> QED BY <2>1 DEF Typing, ConstantsOK
<1> USE <1>1, CoreFields, Faults, Endings, Going DEF Pcs, MountPcs, DismountPcs, Keep, os
<1>2. CASE core.created /\ core.layer \in layers
  <2>1. PICK pc \in Pcs : pc = IF core.pc = "undoLayer" THEN "undoLoop" ELSE "undoLayers"
    OBVIOUS
  <2>2. ASSUME core' = [core EXCEPT !.pc = pc, !.layer = core.layer + 1]
        PROVE GoesAt(pc, core.layer + 1)
    BY <1>1, <2>2, GoingAt
  <2> QED BY <1>2, <2>1, <2>2 DEF UndoLayers
<1>3. CASE ~(core.created /\ core.layer \in layers)
  BY <1>3 DEF UndoLayers
<1> QED BY <1>2, <1>3

LEMMA UndoLoopDoes ==
  ASSUME ConstantsOK, Typing, UndoLoop
  PROVE  /\ core.pc = "undoLoop" /\ Goes("removeMountDir")
         /\ UNCHANGED <<fuse, info, layers, deferred, fs, dirs, outcome>>
         /\ \/ loop' = DetachedLoop /\ UNCHANGED faults
            \/ Faulted /\ UNCHANGED loop
<1>1. /\ core \in CoreRecords /\ faults \in 0 .. MaxFaults /\ info \in Infos /\ loop \in Loops
      /\ fs \in Sites /\ deferred \subseteq layers
      /\ core.layer \in Nat /\ core.layer + 1 \in Nat /\ core.ciphers - 1 \in Nat
      /\ core.layer # 0 => core.layer > 0 /\ core.layer - 1 \in Nat
  <2>1. core.layer \in Nat /\ core.ciphers \in 1 .. MaxCiphers
    BY CoreFields DEF Typing
  <2> QED BY <2>1 DEF Typing, ConstantsOK
<1> QED
  BY <1>1, CoreFields, Faults, Endings, Going DEF UndoLoop, Pcs, MountPcs, DismountPcs, Keep, os

LEMMA RemoveMountDirectoryDoes ==
  ASSUME ConstantsOK, Typing, RemoveMountDirectory
  PROVE  /\ core.pc = "removeMountDir" /\ Goes("lookup")
         /\ UNCHANGED <<fuse, info, loop, layers, deferred, fs, faults, outcome>>
         /\ dirs' \subseteq dirs
<1>1. /\ core \in CoreRecords /\ faults \in 0 .. MaxFaults /\ info \in Infos /\ loop \in Loops
      /\ fs \in Sites /\ deferred \subseteq layers
      /\ core.layer \in Nat /\ core.layer + 1 \in Nat /\ core.ciphers - 1 \in Nat
      /\ core.layer # 0 => core.layer > 0 /\ core.layer - 1 \in Nat
  <2>1. core.layer \in Nat /\ core.ciphers \in 1 .. MaxCiphers
    BY CoreFields DEF Typing
  <2> QED BY <2>1 DEF Typing, ConstantsOK
<1> QED
  BY <1>1, CoreFields, Faults, Endings, Going
  DEF RemoveMountDirectory, Pcs, MountPcs, DismountPcs, Keep, os

LEMMA LookupDoes ==
  ASSUME ConstantsOK, Typing, Lookup
  PROVE  /\ core.pc = "lookup"
         /\ UNCHANGED <<fuse, info, loop, layers, deferred, fs, dirs, faults>>
         /\ \/ Listed /\ Learns(info, MountPointKnown) /\ UNCHANGED outcome
            \/ ~Listed /\ Ends(Failure)
<1>0. Listed => MountPointKnown \in BOOLEAN
  BY DEF MountPointKnown, Listed
<1>1. /\ core \in CoreRecords /\ faults \in 0 .. MaxFaults /\ info \in Infos /\ loop \in Loops
      /\ fs \in Sites /\ deferred \subseteq layers
      /\ core.layer \in Nat /\ core.layer + 1 \in Nat /\ core.ciphers - 1 \in Nat
      /\ core.layer # 0 => core.layer > 0 /\ core.layer - 1 \in Nat
  <2>1. core.layer \in Nat /\ core.ciphers \in 1 .. MaxCiphers
    BY CoreFields DEF Typing
  <2> QED BY <2>1 DEF Typing, ConstantsOK
<1>2. ASSUME Listed
      PROVE  /\ core.pc = "lookup" /\ Learns(info, MountPointKnown)
             /\ UNCHANGED <<fuse, info, loop, layers, deferred, fs, dirs, faults, outcome>>
  <2>1. /\ core' = [core EXCEPT !.pc = "umountFs", !.info = info, !.mountPoint = MountPointKnown]
        /\ core.pc = "lookup" /\ UNCHANGED outcome
        /\ UNCHANGED <<fuse, info, loop, layers, deferred, fs, dirs, faults>>
    BY <1>2 DEF Lookup, Keep, os
  <2>2. Learns(info, MountPointKnown)
    BY <2>1, <1>0, <1>1, <1>2, Learning
  <2> QED BY <2>1, <2>2
<1> USE <1>1, CoreFields, Faults, Endings, Going DEF Pcs, MountPcs, DismountPcs, Keep, os
<1>3. CASE ~Listed
  BY <1>3 DEF Lookup
<1> QED BY <1>2, <1>3

LEMMA UmountFilesystemDoes ==
  ASSUME ConstantsOK, Typing, UmountFilesystem
  PROVE  /\ core.pc = "umountFs"
         /\ UNCHANGED <<fuse, info, loop, layers, deferred>>
         /\ \/ ~core.mountPoint /\ GoesAt("layers", 0) /\ UNCHANGED <<fs, dirs, faults, outcome>>
            \/ /\ core.mountPoint /\ (FsBusy => Emergency) /\ fs' \in Sites /\ dirs' \subseteq dirs
               /\ GoesAt("layers", 0) /\ UNCHANGED <<faults, outcome>>
            \/ core.mountPoint /\ Faulted /\ Fails("layers") /\ UNCHANGED <<fs, dirs>>
<1>1. /\ core \in CoreRecords /\ faults \in 0 .. MaxFaults /\ info \in Infos /\ loop \in Loops
      /\ fs \in Sites /\ deferred \subseteq layers
      /\ core.layer \in Nat /\ core.layer + 1 \in Nat /\ core.ciphers - 1 \in Nat
      /\ core.layer # 0 => core.layer > 0 /\ core.layer - 1 \in Nat
  <2>1. core.layer \in Nat /\ core.ciphers \in 1 .. MaxCiphers
    BY CoreFields DEF Typing
  <2> QED BY <2>1 DEF Typing, ConstantsOK
<1> USE <1>1, CoreFields, Faults, Endings, Going DEF Pcs, MountPcs, DismountPcs, Keep, os
<1>2. CASE ~core.mountPoint
  BY <1>2, GoingAt DEF UmountFilesystem
<1>3. CASE /\ core.mountPoint /\ (FsBusy => Emergency)
           /\ fs' = (IF FsBusy THEN [fs EXCEPT !.lazy = TRUE] ELSE NoFs)
           /\ dirs' = dirs \ {"mount"}
           /\ core' = [core EXCEPT !.pc = "layers", !.layer = 0] /\ Keep /\ UNCHANGED faults
  <2>1. fs' \in Sites
    BY <1>3, DeviceTypes
  <2> QED BY <1>3, <2>1, GoingAt DEF UmountFilesystem
<1>4. CASE /\ core.mountPoint /\ Fault(FsBusy /\ ~Emergency) /\ Failing("layers")
           /\ UNCHANGED <<fs, dirs>>
  BY <1>4 DEF UmountFilesystem, Failing, Fails
<1> QED BY <1>2, <1>3, <1>4 DEF UmountFilesystem

LEMMA DismountNativeVolumeDoes ==
  ASSUME ConstantsOK, Typing, DismountNativeVolume
  PROVE  /\ core.pc = "layers"
         /\ UNCHANGED <<fuse, info, loop, fs, dirs>>
         /\ \/ ~MoreLayers /\ Goes("detach") /\ UNCHANGED <<layers, deferred, faults, outcome>>
            \/ /\ MoreLayers /\ GoesAt("layers", core.layer + 1) /\ LayersGo(core.layer)
               /\ UNCHANGED <<faults, outcome>>
            \/ MoreLayers /\ Faulted /\ Fails("detach") /\ UNCHANGED <<layers, deferred>>
<1>1. /\ core \in CoreRecords /\ faults \in 0 .. MaxFaults /\ info \in Infos /\ loop \in Loops
      /\ fs \in Sites /\ deferred \subseteq layers
      /\ core.layer \in Nat /\ core.layer + 1 \in Nat /\ core.ciphers - 1 \in Nat
      /\ core.layer # 0 => core.layer > 0 /\ core.layer - 1 \in Nat
  <2>1. core.layer \in Nat /\ core.ciphers \in 1 .. MaxCiphers
    BY CoreFields DEF Typing
  <2> QED BY <2>1 DEF Typing, ConstantsOK
<1> USE <1>1, CoreFields, Faults, Endings, Going DEF Pcs, MountPcs, DismountPcs, Keep, os
<1>2. CASE ~MoreLayers
  BY <1>2 DEF DismountNativeVolume
<1>3. ASSUME NextLayer PROVE GoesAt("layers", core.layer + 1) /\ UNCHANGED outcome
  <2> QED BY <1>3, GoingAt DEF NextLayer, DismountNativeVolume
<1>4. CASE /\ MoreLayers /\ core.layer \notin layers /\ NextLayer
           /\ UNCHANGED <<layers, deferred, faults>>
  BY <1>3, <1>4 DEF DismountNativeVolume, LayersGo
<1>5. CASE /\ MoreLayers /\ core.layer \in layers /\ (LayerBusy(core.layer) => Emergency)
           /\ RemoveLayer(core.layer) /\ NextLayer /\ UNCHANGED faults
  <2>1. LayersGo(core.layer)
    BY <1>5 DEF RemoveLayer, LayersGo
  <2> QED BY <1>3, <1>5, <2>1 DEF DismountNativeVolume
<1>6. CASE /\ MoreLayers /\ Fault(LayerBusy(core.layer) /\ ~Emergency) /\ Failing("detach")
           /\ UNCHANGED <<layers, deferred>>
  BY <1>6 DEF DismountNativeVolume, Failing, Fails
<1> QED BY <1>2, <1>4, <1>5, <1>6 DEF DismountNativeVolume

LEMMA DetachLoopDoes ==
  ASSUME ConstantsOK, Typing, DetachLoop
  PROVE  /\ core.pc = "detach" /\ Goes("umountAux")
         /\ UNCHANGED <<fuse, info, layers, deferred, fs, dirs, outcome>>
         /\ \/ core.info.loop = "none" /\ UNCHANGED <<loop, faults>>
            \/ core.info.loop # "none" /\ loop' = DetachedLoop /\ UNCHANGED faults
            \/ Faulted /\ UNCHANGED loop
<1>1. /\ core \in CoreRecords /\ faults \in 0 .. MaxFaults /\ info \in Infos /\ loop \in Loops
      /\ fs \in Sites /\ deferred \subseteq layers
      /\ core.layer \in Nat /\ core.layer + 1 \in Nat /\ core.ciphers - 1 \in Nat
      /\ core.layer # 0 => core.layer > 0 /\ core.layer - 1 \in Nat
  <2>1. core.layer \in Nat /\ core.ciphers \in 1 .. MaxCiphers
    BY CoreFields DEF Typing
  <2> QED BY <2>1 DEF Typing, ConstantsOK
<1> QED
  BY <1>1, CoreFields, Faults, Endings, Going DEF DetachLoop, Pcs, MountPcs, DismountPcs, Keep, os

LEMMA UmountAuxDoes ==
  ASSUME ConstantsOK, Typing, UmountAux
  PROVE  /\ core.pc = "umountAux"
         /\ UNCHANGED <<info, loop, layers, deferred, fs>>
         /\ \/ /\ fuse' \in {"lazy", "none"} /\ (FuseBusy \/ fuse' = "none")
               /\ (core.op = "mount" => fuse' = "none") /\ dirs' \subseteq dirs /\ Ends(Done)
               /\ UNCHANGED faults
            \/ Faulted /\ Ends(Failure) /\ UNCHANGED <<fuse, dirs>>
<1>1. /\ core \in CoreRecords /\ faults \in 0 .. MaxFaults /\ info \in Infos /\ loop \in Loops
      /\ fs \in Sites /\ deferred \subseteq layers
      /\ core.layer \in Nat /\ core.layer + 1 \in Nat /\ core.ciphers - 1 \in Nat
      /\ core.layer # 0 => core.layer > 0 /\ core.layer - 1 \in Nat
  <2>1. core.layer \in Nat /\ core.ciphers \in 1 .. MaxCiphers
    BY CoreFields DEF Typing
  <2> QED BY <2>1 DEF Typing, ConstantsOK
<1> USE <1>1, CoreFields, Faults, Endings, Going DEF Pcs, MountPcs, DismountPcs, Keep, os
<1>2. core.op = "mount" => ~Emergency
  BY DEF Emergency
<1>3. CASE /\ fuse = "mounted" /\ (FuseBusy => Emergency)
           /\ fuse' = (IF FuseBusy THEN "lazy" ELSE "none") /\ dirs' = dirs \ {"fuse"}
           /\ End(Done) /\ UNCHANGED faults
  BY <1>2, <1>3 DEF UmountAux
<1>4. CASE Fault(FuseBusy /\ ~Emergency) /\ End(Failure) /\ UNCHANGED <<fuse, dirs>>
  BY <1>4 DEF UmountAux
<1> QED BY <1>3, <1>4 DEF UmountAux

-----------------------------------------------------------------------------
(* The types.                                                              *)

LEMMA StepTyping ==
  ASSUME ConstantsOK, Typing, Step, UNCHANGED used
  PROVE  Typing'
<1> USE DEF Typing, Pcs, MountPcs, DismountPcs, Goes, GoesAt, Creates, Mounts, Learns, Misses,
            Same, MovesTo, Ends, Faulted
<1> USE DeviceTypes
<1>1. CASE FindFuseDirectory
  BY <1>1, FindFuseDirectoryDoes
<1>2. CASE FuseMount
  BY <1>2, FuseMountDoes
<1>3. CASE FuseWait
  BY <1>3, FuseWaitDoes
<1>4. CASE FuseUndo
  BY <1>4, FuseUndoDoes
<1>5. CASE MakeMountDirectory
  BY <1>5, MakeMountDirectoryDoes
<1>6. CASE AttachLoop
  <2>1. core.ciphers \in 1 .. MaxCiphers
    BY CoreFields
  <2>2. core.ciphers - 1 < core.ciphers
    BY <2>1 DEF ConstantsOK
  <2> QED BY <1>6, <2>2, AttachLoopDoes
<1>7. CASE CreateLayer
  <2>1. /\ core.pc = "layer" => core.layer \in Nat /\ core.layer < core.ciphers
        /\ core.ciphers \in 1 .. MaxCiphers
    BY CoreFields
  <2>2. core.pc = "layer" =>
          core.layer \in 0 .. MaxCiphers - 1 /\ core.layer - 1 < core.ciphers
    BY <2>1 DEF ConstantsOK
  <2> QED BY <1>7, <2>2, CreateLayerDoes
<1>8. CASE TestLastSector
  BY <1>8, TestLastSectorDoes
<1>9. CASE MountFilesystem
  BY <1>9, MountFilesystemDoes
<1>10. CASE SendAuxDeviceInfo
  BY <1>10, SendAuxDeviceInfoDoes DEF SentInfo
<1>11. CASE Mounted
  BY <1>11, MountedDoes
<1>12. CASE UndoFilesystem
  BY <1>12, UndoFilesystemDoes
<1>13. CASE UndoLayers
  BY <1>13, UndoLayersDoes
<1>14. CASE UndoLoop
  BY <1>14, UndoLoopDoes DEF DetachedLoop
<1>15. CASE RemoveMountDirectory
  BY <1>15, RemoveMountDirectoryDoes
<1>16. CASE Lookup
  BY <1>16, LookupDoes
<1>17. CASE UmountFilesystem
  BY <1>17, UmountFilesystemDoes DEF Fails
<1>18. CASE DismountNativeVolume
  BY <1>18, DismountNativeVolumeDoes DEF Fails, LayersGo, Emergency, MoreLayers
<1>19. CASE DetachLoop
  BY <1>19, DetachLoopDoes DEF DetachedLoop
<1>20. CASE UmountAux
  BY <1>20, UmountAuxDoes
<1> QED
  BY <1>1, <1>2, <1>3, <1>4, <1>5, <1>6, <1>7, <1>8, <1>9, <1>10, <1>11, <1>12, <1>13, <1>14,
     <1>15, <1>16, <1>17, <1>18, <1>19, <1>20 DEF Step

LEMMA NextTyping ==
  ASSUME ConstantsOK, Typing, Next
  PROVE  Typing'
<1> USE DEF Typing, Pcs, MountPcs, DismountPcs
<1>1. CASE MountVolume /\ UNCHANGED used
  <2>1. PICK native, filesystem \in BOOLEAN, ciphers \in 1 .. MaxCiphers :
          core' = [Idle EXCEPT !.pc = "fuseDir", !.op = "mount", !.native = native,
                               !.filesystem = filesystem, !.ciphers = ciphers]
    BY <1>1 DEF MountVolume
  <2>2. core' \in CoreRecords /\ core'.pc = "fuseDir" /\ core'.op = "mount"
    BY <2>1, IdleTypes
  <2>3. deferred = {}
    BY <1>1 DEF MountVolume, NothingLeft
  <2> QED BY <1>1, <2>2, <2>3 DEF MountVolume, ConstantsOK
<1>2. ASSUME NEW op \in {"dismount", "emergency"}, Begin(op), UNCHANGED used PROVE Typing'
  <2>1. MountPointKnown \in BOOLEAN
    BY DEF MountPointKnown, Listed
  <2>2. core' \in CoreRecords /\ core'.pc = "umountFs" /\ core'.op = op
    BY <1>2, <2>1, IdleTypes DEF Begin
  <2> QED BY <1>2, <2>2 DEF Begin, os, ConstantsOK
<1>3. CASE FuseStart
  BY <1>3 DEF FuseStart
<1>4. CASE Use
  BY <1>4 DEF Use, os
<1>5. CASE Close
  BY <1>5 DEF Close, os
<1>6. CASE KernelReleases
  BY <1>6, DeviceTypes DEF KernelReleases, Release
<1> QED
  BY <1>1, <1>2, <1>3, <1>4, <1>5, <1>6, StepTyping
  DEF Next, DismountVolume, EmergencyDismountVolume

LEMMA InitTyping == ASSUME ConstantsOK, Init PROVE Typing
<1>1. 0 \in 0 .. MaxFaults
  BY DEF ConstantsOK
<1>2. core \in CoreRecords /\ core.pc = "idle" /\ core.op = "none"
  BY IdleTypes DEF Init
<1> QED
  BY <1>1, <1>2, DeviceTypes DEF Init, Typing, MountPcs

LEMMA TypingHolds == ASSUME ConstantsOK PROVE Spec => []Typing
<1>1. Init => Typing
  BY InitTyping
<1>2. Typing /\ [Next]_vars => Typing'
  <2>1. CASE UNCHANGED vars
    BY <2>1 DEF vars, Typing
  <2> QED BY <2>1, NextTyping
<1> QED BY <1>1, <1>2, PTL DEF Spec

\* Type correctness, for cascades of any length and however many commands fail: only an
\* emergency dismount leaves a device to its last user.
THEOREM TypeCorrect == ASSUME ConstantsOK PROVE Spec => []TypeOK
<1>1. Typing => TypeOK
  BY DEF Typing, TypeOK, Infos, Loops, Sites
<1> QED BY <1>1, TypingHolds, PTL

-----------------------------------------------------------------------------
(* How the devices of a cascade come and go.                               *)

LEMMA Intervals ==
  ASSUME NEW n \in Nat, NEW i \in Nat
  PROVE  /\ n .. n - 1 = {}
         /\ i < n => (i + 1 .. n - 1) \cup {i} = i .. n - 1
         /\ (i .. n - 1) \ {i} = i + 1 .. n - 1
         /\ i \notin i .. n - 1 => i .. n - 1 = {}
  OBVIOUS

LEMMA LayerSteps ==
  ASSUME ConstantsOK, Typing
  PROVE  /\ layers = {} => LayersFrom(core.ciphers)
         /\ LayersFrom(core.layer + 1) /\ core.layer < core.ciphers =>
              layers \cup {core.layer} = core.layer .. core.ciphers - 1
         /\ LayersFrom(core.layer) =>
              /\ layers \ {core.layer} = core.layer + 1 .. core.ciphers - 1
              /\ core.layer \notin layers => layers = {}
<1>1. core.ciphers \in Nat /\ core.layer \in Nat
  BY CoreFields DEF Typing, ConstantsOK
<1> QED BY <1>1, Intervals DEF LayersFrom

\* losetup -d when the mapper devices are gone, or could not all be removed.
LEMMA Detached ==
  ASSUME Typing, fs = NoFs, layers = {} \/ loop.of = "file"
  PROVE  \/ DetachedLoop = NoLoop
         \/ layers # {} /\ DetachedLoop.of = "file" /\ DetachedLoop.auto
<1>1. CASE loop.of # "none" /\ LoopBusy
  <2>1. loop.of = "file" /\ layers # {} /\ loop \in Loops
    BY <1>1 DEF LoopBusy, NoFs, Typing
  <2>2. [loop EXCEPT !.auto = TRUE].of = "file" /\ [loop EXCEPT !.auto = TRUE].auto
    BY <2>1 DEF Loops
  <2> QED BY <1>1, <2>1, <2>2 DEF DetachedLoop
<1>2. CASE ~(loop.of # "none" /\ LoopBusy)
  BY <1>2 DEF DetachedLoop
<1> QED BY <1>1, <1>2

LEMMA MountFacts ==
  ASSUME ConstantsOK, UndoneInv, Typing', Step, core'.op = "mount", faults' <= 1
  PROVE  /\ Typing /\ core.op = "mount" /\ faults \in Nat /\ faults' \in Nat /\ faults <= 1
         /\ ~Emergency /\ Settled /\ Serving /\ Before /\ Making /\ Undoing
<1>1. Typing /\ faults \in Nat
  BY DEF UndoneInv, Typing
<1>2. core.op = "mount" /\ faults <= faults'
  <2> USE <1>1 DEF Goes, GoesAt, Creates, Mounts, Learns, Misses, Same, MovesTo, Ends, Faulted
  <2>1. CASE FindFuseDirectory
    BY <2>1, FindFuseDirectoryDoes
  <2>2. CASE FuseMount
    BY <2>2, FuseMountDoes
  <2>3. CASE FuseWait
    BY <2>3, FuseWaitDoes
  <2>4. CASE FuseUndo
    BY <2>4, FuseUndoDoes
  <2>5. CASE MakeMountDirectory
    BY <2>5, MakeMountDirectoryDoes
  <2>6. CASE AttachLoop
    BY <2>6, AttachLoopDoes
  <2>7. CASE CreateLayer
    BY <2>7, CreateLayerDoes
  <2>8. CASE TestLastSector
    BY <2>8, TestLastSectorDoes
  <2>9. CASE MountFilesystem
    BY <2>9, MountFilesystemDoes
  <2>10. CASE SendAuxDeviceInfo
    BY <2>10, SendAuxDeviceInfoDoes
  <2>11. CASE Mounted
    BY <2>11, MountedDoes
  <2>12. CASE UndoFilesystem
    BY <2>12, UndoFilesystemDoes
  <2>13. CASE UndoLayers
    BY <2>13, UndoLayersDoes
  <2>14. CASE UndoLoop
    BY <2>14, UndoLoopDoes
  <2>15. CASE RemoveMountDirectory
    BY <2>15, RemoveMountDirectoryDoes
  <2>16. CASE Lookup
    BY <2>16, LookupDoes
  <2>17. CASE UmountFilesystem
    BY <2>17, UmountFilesystemDoes DEF Fails, Emergency
  <2>18. CASE DismountNativeVolume
    BY <2>18, DismountNativeVolumeDoes DEF Fails, Emergency
  <2>19. CASE DetachLoop
    BY <2>19, DetachLoopDoes
  <2>20. CASE UmountAux
    BY <2>20, UmountAuxDoes
  <2> QED
    BY <2>1, <2>2, <2>3, <2>4, <2>5, <2>6, <2>7, <2>8, <2>9, <2>10, <2>11, <2>12, <2>13, <2>14,
       <2>15, <2>16, <2>17, <2>18, <2>19, <2>20 DEF Step
<1>3. faults' \in Nat /\ faults <= 1
  BY <1>1, <1>2 DEF Typing
<1> QED BY <1>1, <1>2, <1>3 DEF UndoneInv, MountInv, Emergency

LEMMA StepSettled ==
  ASSUME ConstantsOK, UndoneInv, Typing', Step, core'.op = "mount", faults' <= 1
  PROVE  Settled'
<1>1. /\ Typing /\ core.op = "mount" /\ faults \in Nat /\ faults' \in Nat /\ faults <= 1
      /\ ~Emergency /\ Settled /\ Serving /\ Before /\ Making /\ Undoing
  BY MountFacts
<1> USE <1>1 DEF Settled, Nothing, Serving, Before, Making, Undoing, LoopKnown,
                 LoopOfLayers, LayersFrom, DismountPcs, Goes, GoesAt, Creates, Mounts, Learns,
                 Misses, Same, MovesTo, Ends, Faulted
<1>2. CASE FindFuseDirectory
  BY <1>2, FindFuseDirectoryDoes
<1>3. CASE FuseMount
  BY <1>3, FuseMountDoes
<1>4. CASE FuseWait
  BY <1>4, FuseWaitDoes
<1>5. CASE FuseUndo
  BY <1>5, FuseUndoDoes
<1>6. CASE MakeMountDirectory
  BY <1>6, MakeMountDirectoryDoes
<1>7. CASE AttachLoop
  BY <1>7, AttachLoopDoes
<1>8. CASE CreateLayer
  BY <1>8, CreateLayerDoes
<1>9. CASE TestLastSector
  BY <1>9, TestLastSectorDoes
<1>10. CASE MountFilesystem
  BY <1>10, MountFilesystemDoes
<1>11. CASE SendAuxDeviceInfo
  BY <1>11, SendAuxDeviceInfoDoes DEF SentInfo, NoInfo
<1>12. CASE Mounted
  BY <1>12, MountedDoes DEF Listed
<1>13. CASE UndoFilesystem
  BY <1>13, UndoFilesystemDoes DEF NoFs
<1>14. CASE UndoLayers
  BY <1>14, UndoLayersDoes
<1>15. CASE UndoLoop
  <2>1. core.pc = "undoLoop" /\ fs = NoFs /\ (~core.unmade => layers = {})
        /\ (core.unmade => loop.of = "file") /\ ~loop.auto
    BY <1>15, UndoLoopDoes
  <2>2. DetachedLoop.auto => core.unmade /\ layers # {} /\ DetachedLoop.of = "file"
    BY <2>1, Detached DEF NoLoop
  <2> QED BY <1>15, <2>1, <2>2, UndoLoopDoes
<1>16. CASE RemoveMountDirectory
  BY <1>16, RemoveMountDirectoryDoes
<1>17. CASE Lookup
  BY <1>17, LookupDoes DEF Listed, MountPointKnown
<1>18. CASE UmountFilesystem
  BY <1>18, UmountFilesystemDoes DEF Fails
<1>19. CASE DismountNativeVolume
  BY <1>19, DismountNativeVolumeDoes DEF Fails, LayersGo, MoreLayers
<1>20. CASE DetachLoop
  <2>1. core.pc = "detach" /\ fs = NoFs /\ (~core.unmade => layers = {})
        /\ (core.unmade => core.info.loop = "none")
    BY <1>20, DetachLoopDoes DEF NoInfo
  <2>2. ~core.unmade => ~DetachedLoop.auto
    BY <2>1, Detached DEF NoLoop
  <2> QED BY <1>20, <2>1, <2>2, DetachLoopDoes
<1>21. CASE UmountAux
  BY <1>21, UmountAuxDoes DEF Done, FuseBusy, NoLoop
<1> QED
  BY <1>2, <1>3, <1>4, <1>5, <1>6, <1>7, <1>8, <1>9, <1>10, <1>11, <1>12, <1>13, <1>14, <1>15,
     <1>16, <1>17, <1>18, <1>19, <1>20, <1>21 DEF Step

LEMMA StepServing ==
  ASSUME ConstantsOK, UndoneInv, Typing', Step, core'.op = "mount", faults' <= 1
  PROVE  Serving'
<1>1. /\ Typing /\ core.op = "mount" /\ faults \in Nat /\ faults' \in Nat /\ faults <= 1
      /\ ~Emergency /\ Settled /\ Serving /\ Before /\ Making /\ Undoing
  BY MountFacts
<1> USE <1>1 DEF Settled, Nothing, Serving, Before, Making, Undoing, LoopKnown,
                 LoopOfLayers, LayersFrom, DismountPcs, Goes, GoesAt, Creates, Mounts, Learns,
                 Misses, Same, MovesTo, Ends, Faulted
<1>2. CASE FindFuseDirectory
  BY <1>2, FindFuseDirectoryDoes
<1>3. CASE FuseMount
  BY <1>3, FuseMountDoes
<1>4. CASE FuseWait
  BY <1>4, FuseWaitDoes
<1>5. CASE FuseUndo
  BY <1>5, FuseUndoDoes
<1>6. CASE MakeMountDirectory
  BY <1>6, MakeMountDirectoryDoes
<1>7. CASE AttachLoop
  BY <1>7, AttachLoopDoes
<1>8. CASE CreateLayer
  BY <1>8, CreateLayerDoes
<1>9. CASE TestLastSector
  BY <1>9, TestLastSectorDoes
<1>10. CASE MountFilesystem
  BY <1>10, MountFilesystemDoes
<1>11. CASE SendAuxDeviceInfo
  BY <1>11, SendAuxDeviceInfoDoes DEF SentInfo, NoInfo
<1>12. CASE Mounted
  BY <1>12, MountedDoes DEF Listed
<1>13. CASE UndoFilesystem
  BY <1>13, UndoFilesystemDoes
<1>14. CASE UndoLayers
  BY <1>14, UndoLayersDoes
<1>15. CASE UndoLoop
  BY <1>15, UndoLoopDoes DEF DetachedLoop, LoopBusy
<1>16. CASE RemoveMountDirectory
  BY <1>16, RemoveMountDirectoryDoes
<1>17. CASE Lookup
  BY <1>17, LookupDoes DEF Listed, MountPointKnown
<1>18. CASE UmountFilesystem
  BY <1>18, UmountFilesystemDoes DEF Fails
<1>19. CASE DismountNativeVolume
  BY <1>19, DismountNativeVolumeDoes DEF Fails, LayersGo, MoreLayers
<1>20. CASE DetachLoop
  BY <1>20, DetachLoopDoes DEF DetachedLoop, LoopBusy
<1>21. CASE UmountAux
  BY <1>21, UmountAuxDoes DEF Done, FuseBusy, NoLoop
<1> QED
  BY <1>2, <1>3, <1>4, <1>5, <1>6, <1>7, <1>8, <1>9, <1>10, <1>11, <1>12, <1>13, <1>14, <1>15,
     <1>16, <1>17, <1>18, <1>19, <1>20, <1>21 DEF Step

LEMMA StepBefore ==
  ASSUME ConstantsOK, UndoneInv, Typing', Step, core'.op = "mount", faults' <= 1
  PROVE  Before'
<1>1. /\ Typing /\ core.op = "mount" /\ faults \in Nat /\ faults' \in Nat /\ faults <= 1
      /\ ~Emergency /\ Settled /\ Serving /\ Before /\ Making /\ Undoing
  BY MountFacts
<1> USE <1>1 DEF Settled, Nothing, Serving, Before, Making, Undoing, LoopKnown,
                 LoopOfLayers, LayersFrom, DismountPcs, Goes, GoesAt, Creates, Mounts, Learns,
                 Misses, Same, MovesTo, Ends, Faulted
<1>2. CASE FindFuseDirectory
  BY <1>2, FindFuseDirectoryDoes
<1>3. CASE FuseMount
  BY <1>3, FuseMountDoes
<1>4. CASE FuseWait
  BY <1>4, FuseWaitDoes
<1>5. CASE FuseUndo
  BY <1>5, FuseUndoDoes
<1>6. CASE MakeMountDirectory
  BY <1>6, MakeMountDirectoryDoes
<1>7. CASE AttachLoop
  BY <1>7, AttachLoopDoes
<1>8. CASE CreateLayer
  BY <1>8, CreateLayerDoes
<1>9. CASE TestLastSector
  BY <1>9, TestLastSectorDoes
<1>10. CASE MountFilesystem
  BY <1>10, MountFilesystemDoes
<1>11. CASE SendAuxDeviceInfo
  BY <1>11, SendAuxDeviceInfoDoes DEF SentInfo, NoInfo
<1>12. CASE Mounted
  BY <1>12, MountedDoes DEF Listed
<1>13. CASE UndoFilesystem
  BY <1>13, UndoFilesystemDoes
<1>14. CASE UndoLayers
  BY <1>14, UndoLayersDoes
<1>15. CASE UndoLoop
  BY <1>15, UndoLoopDoes DEF DetachedLoop, LoopBusy
<1>16. CASE RemoveMountDirectory
  BY <1>16, RemoveMountDirectoryDoes
<1>17. CASE Lookup
  BY <1>17, LookupDoes DEF Listed, MountPointKnown
<1>18. CASE UmountFilesystem
  BY <1>18, UmountFilesystemDoes DEF Fails
<1>19. CASE DismountNativeVolume
  BY <1>19, DismountNativeVolumeDoes DEF Fails, LayersGo, MoreLayers
<1>20. CASE DetachLoop
  BY <1>20, DetachLoopDoes DEF DetachedLoop, LoopBusy
<1>21. CASE UmountAux
  BY <1>21, UmountAuxDoes DEF Done, FuseBusy, NoLoop
<1> QED
  BY <1>2, <1>3, <1>4, <1>5, <1>6, <1>7, <1>8, <1>9, <1>10, <1>11, <1>12, <1>13, <1>14, <1>15,
     <1>16, <1>17, <1>18, <1>19, <1>20, <1>21 DEF Step

LEMMA StepMaking ==
  ASSUME ConstantsOK, UndoneInv, Typing', Step, core'.op = "mount", faults' <= 1
  PROVE  Making'
<1>1. /\ Typing /\ core.op = "mount" /\ faults \in Nat /\ faults' \in Nat /\ faults <= 1
      /\ ~Emergency /\ Settled /\ Serving /\ Before /\ Making /\ Undoing
  BY MountFacts
<1> USE <1>1 DEF Settled, Nothing, Serving, Before, Making, Undoing, LoopKnown,
                 LoopOfLayers, LayersFrom, DismountPcs, Goes, GoesAt, Creates, Mounts, Learns,
                 Misses, Same, MovesTo, Ends, Faulted
<1>2. CASE FindFuseDirectory
  BY <1>2, FindFuseDirectoryDoes
<1>3. CASE FuseMount
  BY <1>3, FuseMountDoes
<1>4. CASE FuseWait
  BY <1>4, FuseWaitDoes
<1>5. CASE FuseUndo
  BY <1>5, FuseUndoDoes
<1>6. CASE MakeMountDirectory
  BY <1>6, MakeMountDirectoryDoes
<1>7. CASE AttachLoop
  <2>1. core.ciphers - 1 \in Nat /\ (core.ciphers - 1) + 1 = core.ciphers
    BY CoreFields DEF Typing, ConstantsOK
  <2>2. layers = {}
    BY <1>7, AttachLoopDoes
  <2>3. layers = core.ciphers .. core.ciphers - 1
    BY <2>2, LayerSteps
  <2> QED BY <1>7, <2>1, <2>2, <2>3, AttachLoopDoes DEF NoInfo
<1>8. CASE CreateLayer
  <2>1. /\ core.pc = "layer" /\ faults = 0 /\ core.native /\ LayersFrom(core.layer + 1)
        /\ loop.of = "file" /\ fs = NoFs /\ info = NoInfo /\ ~core.mounted /\ ~core.unmade
    BY <1>8, CreateLayerDoes
  <2>2. core.layer \in Nat /\ core.layer < core.ciphers
    BY <2>1, CoreFields DEF Typing
  <2>3. layers \cup {core.layer} = core.layer .. core.ciphers - 1
    BY <2>1, <2>2, LayerSteps
  <2>4. (core.layer - 1) + 1 = core.layer
    BY <2>2
  <2> QED BY <1>8, <2>1, <2>2, <2>3, <2>4, CreateLayerDoes DEF NoInfo
<1>9. CASE TestLastSector
  BY <1>9, TestLastSectorDoes
<1>10. CASE MountFilesystem
  BY <1>10, MountFilesystemDoes DEF NoInfo
<1>11. CASE SendAuxDeviceInfo
  BY <1>11, SendAuxDeviceInfoDoes DEF SentInfo, NoInfo
<1>12. CASE Mounted
  BY <1>12, MountedDoes DEF Listed
<1>13. CASE UndoFilesystem
  BY <1>13, UndoFilesystemDoes
<1>14. CASE UndoLayers
  BY <1>14, UndoLayersDoes
<1>15. CASE UndoLoop
  BY <1>15, UndoLoopDoes DEF DetachedLoop, LoopBusy
<1>16. CASE RemoveMountDirectory
  BY <1>16, RemoveMountDirectoryDoes
<1>17. CASE Lookup
  BY <1>17, LookupDoes DEF Listed, MountPointKnown
<1>18. CASE UmountFilesystem
  BY <1>18, UmountFilesystemDoes DEF Fails
<1>19. CASE DismountNativeVolume
  BY <1>19, DismountNativeVolumeDoes DEF Fails, LayersGo, MoreLayers
<1>20. CASE DetachLoop
  BY <1>20, DetachLoopDoes DEF DetachedLoop, LoopBusy
<1>21. CASE UmountAux
  BY <1>21, UmountAuxDoes DEF Done, FuseBusy, NoLoop
<1> QED
  BY <1>2, <1>3, <1>4, <1>5, <1>6, <1>7, <1>8, <1>9, <1>10, <1>11, <1>12, <1>13, <1>14, <1>15,
     <1>16, <1>17, <1>18, <1>19, <1>20, <1>21 DEF Step

LEMMA StepUndoing ==
  ASSUME ConstantsOK, UndoneInv, Typing', Step, core'.op = "mount", faults' <= 1
  PROVE  Undoing'
<1>1. /\ Typing /\ core.op = "mount" /\ faults \in Nat /\ faults' \in Nat /\ faults <= 1
      /\ ~Emergency /\ Settled /\ Serving /\ Before /\ Making /\ Undoing
  BY MountFacts
<1> USE <1>1 DEF Settled, Nothing, Serving, Before, Making, Undoing, LoopKnown,
                 LoopOfLayers, LayersFrom, DismountPcs, Goes, GoesAt, Creates, Mounts, Learns,
                 Misses, Same, MovesTo, Ends, Faulted
<1>2. CASE FindFuseDirectory
  BY <1>2, FindFuseDirectoryDoes
<1>3. CASE FuseMount
  BY <1>3, FuseMountDoes
<1>4. CASE FuseWait
  BY <1>4, FuseWaitDoes
<1>5. CASE FuseUndo
  BY <1>5, FuseUndoDoes
<1>6. CASE MakeMountDirectory
  BY <1>6, MakeMountDirectoryDoes DEF NoInfo
<1>7. CASE AttachLoop
  BY <1>7, AttachLoopDoes DEF NoInfo
<1>8. CASE CreateLayer
  BY <1>8, CreateLayerDoes DEF NoInfo
<1>9. CASE TestLastSector
  BY <1>9, TestLastSectorDoes
<1>10. CASE MountFilesystem
  BY <1>10, MountFilesystemDoes DEF NoInfo
<1>11. CASE SendAuxDeviceInfo
  BY <1>11, SendAuxDeviceInfoDoes DEF SentInfo, NoInfo
<1>12. CASE Mounted
  BY <1>12, MountedDoes DEF Listed
<1>13. CASE UndoFilesystem
  BY <1>13, UndoFilesystemDoes
<1>14. CASE UndoLayers
  <2>1. /\ core.pc \in {"undoLayer", "undoLayers"} /\ fs = NoFs /\ info = NoInfo /\ faults = 1
        /\ core.unmade => loop.of = "file"
        /\ core.pc = "undoLayer" => core.unmade
        /\ ~core.unmade => core.created /\ LayersFrom(core.layer)
    BY <1>14, UndoLayersDoes
  <2>2. CASE core.unmade
    BY <1>14, <2>1, <2>2, UndoLayersDoes DEF NoInfo
  <2>3. CASE ~core.unmade
    <3>1. /\ layers \ {core.layer} = core.layer + 1 .. core.ciphers - 1
          /\ core.layer \notin layers => layers = {}
      BY <2>1, <2>3, LayerSteps
    <3>2. core.pc = "undoLayers"
      BY <2>1, <2>3
    <3>3. CASE core.layer \in layers
      <4>1. /\ layers' = core.layer + 1 .. core.ciphers - 1 /\ UNCHANGED <<info, loop, fs, faults>>
            /\ GoesAt("undoLayers", core.layer + 1)
        <5> HIDE DEF Goes, GoesAt, LayersFrom
        <5>1. core.created /\ faults = 1 /\ ~Faulted
          BY <2>1, <2>3 DEF Faulted
        <5>2. /\ layers' = layers \ {core.layer} /\ UNCHANGED faults
              /\ GoesAt(IF core.pc = "undoLayer" THEN "undoLoop" ELSE "undoLayers", core.layer + 1)
          BY <1>14, <3>3, <5>1, UndoLayersDoes
        <5>3. UNCHANGED <<info, loop, fs>>
          BY <1>14, UndoLayersDoes
        <5> QED BY <3>1, <3>2, <5>2, <5>3
      <4>2. LayersFrom(core.layer)' /\ core'.created /\ ~core'.unmade /\ core'.pc = "undoLayers"
        BY <2>1, <2>3, <4>1
      <4> QED BY <2>1, <4>1, <4>2
    <3>4. CASE core.layer \notin layers
      BY <1>14, <2>1, <2>3, <3>1, <3>2, <3>4, UndoLayersDoes
    <3> QED BY <3>3, <3>4
  <2> QED BY <2>2, <2>3
<1>15. CASE UndoLoop
  <2>1. core.pc = "undoLoop" /\ fs = NoFs /\ (~core.unmade => layers = {}) /\ faults = 1
        /\ (core.unmade => loop.of = "file") /\ info = NoInfo
    BY <1>15, UndoLoopDoes
  <2>2. \/ DetachedLoop = NoLoop
        \/ (core.unmade /\ layers # {} /\ DetachedLoop.of = "file"
            /\ DetachedLoop.auto)
    BY <2>1, Detached
  <2> QED BY <1>15, <2>1, <2>2, UndoLoopDoes DEF NoInfo
<1>16. CASE RemoveMountDirectory
  BY <1>16, RemoveMountDirectoryDoes
<1>17. CASE Lookup
  <2>1. core.pc = "lookup" => ~MountPointKnown
    BY DEF MountPointKnown, NoFs
  <2> QED BY <1>17, <2>1, LookupDoes DEF Listed
<1>18. CASE UmountFilesystem
  BY <1>18, UmountFilesystemDoes DEF Fails
<1>19. CASE DismountNativeVolume
  BY <1>19, DismountNativeVolumeDoes DEF Fails, LayersGo, MoreLayers
<1>20. CASE DetachLoop
  <2>1. core.pc = "detach" /\ fs = NoFs /\ (~core.unmade => layers = {})
        /\ (core.unmade => core.info.loop = "none") /\ LoopKnown(core.info) /\ faults = 1
    BY <1>20, DetachLoopDoes DEF NoInfo
  <2>2. ~core.unmade => DetachedLoop = NoLoop
    BY <2>1, Detached
  <2> QED BY <1>20, <2>1, <2>2, DetachLoopDoes
<1>21. CASE UmountAux
  BY <1>21, UmountAuxDoes DEF Done, FuseBusy, NoLoop
<1> QED
  BY <1>2, <1>3, <1>4, <1>5, <1>6, <1>7, <1>8, <1>9, <1>10, <1>11, <1>12, <1>13, <1>14, <1>15,
     <1>16, <1>17, <1>18, <1>19, <1>20, <1>21 DEF Step

\* A command that fails with nothing left, and an end that leaves the volume listed.
LEMMA StepFailed ==
  ASSUME ConstantsOK, UndoneInv, Typing', Step
  PROVE  FailedInv'
<1> SUFFICES ASSUME core'.pc = "idle", outcome' \in {"mountFailed", "createFailed"}, faults' <= 1
             PROVE  /\ outcome' = "mountFailed" =>
                         /\ ~fs'.lazy /\ ~loop'.auto /\ deferred' = {}
                         /\ Nothing' \/ (Listed /\ info # NoInfo)'
                    /\ outcome' = "createFailed" =>
                         /\ fuse' = "none" /\ fs' = NoFs /\ deferred' = {}
                         /\ loop' = NoLoop \/ LoopOfLayers'
  BY DEF FailedInv
<1>1. core.op = "mount" /\ faults <= faults' /\ faults \in Nat /\ faults' \in Nat
  <2>1. Typing /\ faults \in Nat /\ faults' \in Nat
    BY DEF UndoneInv, Typing, ConstantsOK
  <2> USE <2>1 DEF Goes, GoesAt, Creates, Mounts, Learns, Misses, Same, MovesTo, Ends, Faulted
  <2>2. core.pc \in MountPcs => core.op = "mount"
    BY DEF Typing
  <2>3. core.op # "mount" =>
          /\ Failure # "mountFailed" /\ Failure # "createFailed"
          /\ Done # "mountFailed" /\ Done # "createFailed"
    <3>1. core.op \in {"none", "mount", "dismount", "emergency"}
      BY CoreFields DEF Typing
    <3> QED BY <3>1 DEF Failure, Done
  <2>4. CASE FindFuseDirectory
    BY <2>2, <2>3, <2>4, FindFuseDirectoryDoes DEF MountPcs
  <2>5. CASE FuseMount
    BY <2>2, <2>3, <2>5, FuseMountDoes DEF MountPcs
  <2>6. CASE FuseWait
    BY <2>2, <2>3, <2>6, FuseWaitDoes DEF MountPcs
  <2>7. CASE FuseUndo
    BY <2>2, <2>3, <2>7, FuseUndoDoes DEF MountPcs
  <2>8. CASE MakeMountDirectory
    BY <2>2, <2>3, <2>8, MakeMountDirectoryDoes DEF MountPcs
  <2>9. CASE AttachLoop
    BY <2>2, <2>3, <2>9, AttachLoopDoes DEF MountPcs
  <2>10. CASE CreateLayer
    BY <2>2, <2>3, <2>10, CreateLayerDoes DEF MountPcs
  <2>11. CASE TestLastSector
    BY <2>2, <2>3, <2>11, TestLastSectorDoes DEF MountPcs
  <2>12. CASE MountFilesystem
    BY <2>2, <2>3, <2>12, MountFilesystemDoes DEF MountPcs
  <2>13. CASE SendAuxDeviceInfo
    BY <2>2, <2>3, <2>13, SendAuxDeviceInfoDoes DEF MountPcs
  <2>14. CASE Mounted
    BY <2>2, <2>3, <2>14, MountedDoes DEF MountPcs
  <2>15. CASE UndoFilesystem
    BY <2>2, <2>3, <2>15, UndoFilesystemDoes DEF MountPcs
  <2>16. CASE UndoLayers
    BY <2>2, <2>3, <2>16, UndoLayersDoes DEF MountPcs
  <2>17. CASE UndoLoop
    BY <2>2, <2>3, <2>17, UndoLoopDoes DEF MountPcs
  <2>18. CASE RemoveMountDirectory
    BY <2>2, <2>3, <2>18, RemoveMountDirectoryDoes DEF MountPcs
  <2>19. CASE Lookup
    BY <2>2, <2>3, <2>19, LookupDoes DEF MountPcs
  <2>20. CASE UmountFilesystem
    BY <2>2, <2>3, <2>20, UmountFilesystemDoes DEF MountPcs, Fails, Emergency
  <2>21. CASE DismountNativeVolume
    BY <2>2, <2>3, <2>21, DismountNativeVolumeDoes DEF MountPcs, Fails, Emergency
  <2>22. CASE DetachLoop
    BY <2>2, <2>3, <2>22, DetachLoopDoes DEF MountPcs
  <2>23. CASE UmountAux
    BY <2>2, <2>3, <2>23, UmountAuxDoes DEF MountPcs
  <2> QED
    BY <2>4, <2>5, <2>6, <2>7, <2>8, <2>9, <2>10, <2>11, <2>12, <2>13, <2>14, <2>15, <2>16, <2>17,
       <2>18, <2>19, <2>20, <2>21, <2>22, <2>23 DEF Step
<1>2. /\ Typing /\ faults <= 1 /\ ~Emergency /\ Settled /\ Serving /\ Before /\ Making /\ Undoing
  BY <1>1 DEF UndoneInv, MountInv, Emergency
<1>3. core.pc # "idle"
  BY <1>1, <1>2 DEF Typing
<1> USE <1>1, <1>2 DEF Settled, Nothing, Serving, Before, Making, Undoing, LoopOfLayers,
                       DismountPcs, Goes,
                       GoesAt, Creates, Mounts, Learns, Misses, Same, MovesTo, Ends, Faulted
<1>4. CASE FindFuseDirectory
  BY <1>4, FindFuseDirectoryDoes
<1>5. CASE FuseMount
  BY <1>5, FuseMountDoes
<1>6. CASE FuseWait
  BY <1>6, FuseWaitDoes
<1>7. CASE FuseUndo
  BY <1>7, FuseUndoDoes
<1>8. CASE MakeMountDirectory
  BY <1>8, MakeMountDirectoryDoes
<1>9. CASE AttachLoop
  BY <1>9, AttachLoopDoes
<1>10. CASE CreateLayer
  BY <1>10, CreateLayerDoes
<1>11. CASE TestLastSector
  BY <1>11, TestLastSectorDoes
<1>12. CASE MountFilesystem
  BY <1>12, MountFilesystemDoes
<1>13. CASE SendAuxDeviceInfo
  BY <1>13, SendAuxDeviceInfoDoes
<1>14. CASE Mounted
  BY <1>14, MountedDoes DEF Listed
<1>15. CASE UndoFilesystem
  BY <1>15, UndoFilesystemDoes
<1>16. CASE UndoLayers
  BY <1>16, UndoLayersDoes
<1>17. CASE UndoLoop
  BY <1>17, UndoLoopDoes
<1>18. CASE RemoveMountDirectory
  BY <1>18, RemoveMountDirectoryDoes
<1>19. CASE Lookup
  BY <1>19, LookupDoes DEF Listed
<1>20. CASE UmountFilesystem
  BY <1>20, UmountFilesystemDoes DEF Fails
<1>21. CASE DismountNativeVolume
  BY <1>21, DismountNativeVolumeDoes DEF Fails
<1>22. CASE DetachLoop
  BY <1>22, DetachLoopDoes
<1>23. CASE UmountAux
  <2>1. core.pc = "umountAux" /\ faults = 1 /\ fs = NoFs /\ deferred = {}
        /\ (~core.unmade => layers = {}) /\ (loop = NoLoop \/ (core.unmade /\ LoopOfLayers))
    BY <1>23, UmountAuxDoes
  <2>2. fuse' = "none" /\ outcome' = Done /\ UNCHANGED <<info, loop, layers, deferred, fs>>
    BY <1>23, <2>1, UmountAuxDoes
  <2>3. outcome' = IF core.unmade THEN "createFailed" ELSE "mountFailed"
    BY <2>2 DEF Done, Failure
  <2> QED BY <2>1, <2>2, <2>3 DEF NoFs, NoLoop
<1> QED
  BY <1>4, <1>5, <1>6, <1>7, <1>8, <1>9, <1>10, <1>11, <1>12, <1>13, <1>14, <1>15, <1>16, <1>17,
     <1>18, <1>19, <1>20, <1>21, <1>22, <1>23 DEF Step

LEMMA NextUndone ==
  ASSUME ConstantsOK, UndoneInv, [Next]_vars
  PROVE  UndoneInv'
<1> USE DEF MountInv, FailedInv, Settled, Nothing, Serving, Before, Making, Undoing, LoopKnown,
            LoopOfLayers, LayersFrom, DismountPcs
<1>1. Typing /\ MountInv /\ FailedInv /\ faults \in Nat
  BY DEF UndoneInv, Typing
<1>2. Typing'
  BY <1>1, NextTyping DEF vars, Typing
<1>3. CASE UNCHANGED vars
  BY <1>1, <1>2, <1>3 DEF UndoneInv, vars, Listed
<1>4. CASE Step
  <2>1. core'.op = "mount" /\ faults' <= 1 =>
          Settled' /\ Serving' /\ Before' /\ Making' /\ Undoing'
    BY <1>2, <1>4, StepSettled, StepServing, StepBefore, StepMaking, StepUndoing
  <2>2. MountInv'
    BY <2>1 DEF MountInv
  <2>3. FailedInv'
    BY <1>2, <1>4, StepFailed
  <2> HIDE DEF MountInv, FailedInv
  <2> QED BY <1>2, <2>2, <2>3 DEF UndoneInv
<1>5. CASE MountVolume
  <2>1. core'.pc = "fuseDir" /\ ~core'.created /\ ~core'.mounted /\ ~core'.unmade
    BY <1>5, IdleTypes DEF MountVolume
  <2>2. deferred = {} /\ ~fs.lazy /\ ~loop.auto /\ fuse = "none" /\ Nothing
    BY <1>1, <1>5 DEF MountVolume, NothingLeft, Typing, NoFs, NoLoop
  <2>3. MountInv' /\ FailedInv'
    BY <1>5, <2>1, <2>2 DEF MountVolume
  <2> QED BY <1>2, <2>3 DEF UndoneInv
<1>6. ASSUME NEW op \in {"dismount", "emergency"}, Begin(op) PROVE UndoneInv'
  <2>1. MountPointKnown \in BOOLEAN /\ info \in Infos
    BY <1>1 DEF MountPointKnown, Listed, Typing
  <2>2. core'.pc = "umountFs" /\ core'.op = op
    BY <1>6, <2>1, IdleTypes DEF Begin
  <2> QED BY <1>2, <2>2 DEF UndoneInv
<1>7. CASE FuseStart
  BY <1>1, <1>2, <1>7 DEF UndoneInv, FuseStart, Listed
<1>8. CASE Use \/ Close
  BY <1>1, <1>2, <1>8 DEF UndoneInv, Use, Close, os, Listed
<1>9. CASE KernelReleases
  <2>1. MountInv'
    <3>1. core.op = "mount" /\ faults <= 1 => ~Release
      <4> SUFFICES ASSUME core.op = "mount", faults <= 1 PROVE ~Release
        OBVIOUS
      <4>1. Settled /\ Serving
        BY <1>1
      <4>2. loop.auto => LoopBusy
        BY <4>1 DEF LoopBusy
      <4> QED BY <4>1, <4>2 DEF Release
    <3>2. UNCHANGED <<core, faults>>
      BY <1>9 DEF KernelReleases
    <3> QED BY <3>1, <3>2, <1>9 DEF KernelReleases
  <2>2. FailedInv'
    BY <1>1, <1>9 DEF KernelReleases, Release, Listed
  <2> QED BY <1>2, <2>1, <2>2 DEF UndoneInv
<1> QED
  BY <1>3, <1>4, <1>5, <1>6, <1>7, <1>8, <1>9 DEF Next, DismountVolume, EmergencyDismountVolume

LEMMA UndoneHolds == ASSUME ConstantsOK PROVE Spec => []UndoneInv
<1>1. Init => UndoneInv
  <2> SUFFICES ASSUME Init PROVE UndoneInv
    OBVIOUS
  <2>1. Typing /\ core.op = "none" /\ outcome = "none"
    BY InitTyping, IdleTypes DEF Init
  <2> QED BY <2>1 DEF UndoneInv, MountInv, FailedInv
<1>2. UndoneInv /\ [Next]_vars => UndoneInv'
  BY NextUndone
<1> QED BY <1>1, <1>2, PTL DEF Spec

\* The rollbacks of MountVolumeNative, MountAuxVolumeImage and MountVolume (CoreLinux.cpp,
\* CoreUnix.cpp) remove all that a mount with one failed command had set up, for a cascade of any
\* length, or leave a volume that is listed with its devices.  After a mapper device that could not
\* be made they leave mapper devices at most, on a loop device that goes with them.
THEOREM MountUndone == ASSUME ConstantsOK PROVE Spec => []FailedMountUndone
<1>1. UndoneInv => FailedMountUndone
  BY DEF UndoneInv, FailedInv, FailedMountUndone, Nothing, LoopOfLayers
<1> QED BY <1>1, UndoneHolds, PTL
=============================================================================
