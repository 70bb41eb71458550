------------------------------ MODULE ExpandVolume ------------------------------
(***************************************************************************)
(* The volume expander (src/src/ExpandVolume/ExpandVolume.c): it enlarges  *)
(* the host, fills the new space, writes the backup header at the new end  *)
(* and then the primary header over the old one, wipes the old backup      *)
(* header, which the data area now covers, and extends the file system.    *)
(*                                                                         *)
(* Writes of headers stay in the cache until FlushFileBuffers, whose       *)
(* result is ignored, and a power failure keeps, loses or tears each of    *)
(* those that are not flushed.                                             *)
(* Sizes are "old" and "new".  Legacy volumes, whose header does not tell  *)
(* the size, have nothing to keep in order and are left out.               *)
(***************************************************************************)
EXTENDS Integers

CONSTANTS
  Passes,          \* GetWipePassCount
  MaxPowerFailures, MaxFailures, MaxCancels \* bounds: power failures, failing accesses, cancels

\* What the proofs assume: there is a pass (TC_WIPE_35_GUTMANN has 35).
ConstantsOK == Passes \in Nat \ {0}

VARIABLES
  length,   \* size of the host: a container file grows, a partition was enlarged before
  disk,     \* headers on the disk, at the start and at both ends
  cache,    \* headers written since the last flush
  files,    \* size of the file system in the volume
  wizard,   \* the thread of the expander: step and locals
  failures  \* what failed so far (bound), and whether the last FlushFileBuffers did

vars == <<length, disk, cache, files, wizard, failures>>

-----------------------------------------------------------------------------

\* Places of headers: TC_VOLUME_HEADER_OFFSET, and the header groups at the old and the new end.
Places == {"primary", "oldEnd", "newEnd"}
Sizes == {"old", "new"}

\* What a reader of the host finds, and whether a header can be decrypted.
Content(p) == IF cache[p] # "none" THEN cache[p] ELSE disk[p]
Contents == [p \in Places |-> Content(p)]
IsHeader(c) == c \in Sizes

Idle == [pc |-> "idle", device |-> FALSE, fill |-> FALSE, place |-> "newEnd", hostSize |-> "old",
         pass |-> 0, warned |-> FALSE, status |-> "none"]

\* A partition may already be larger than its volume; its new end holds no header yet.
Init ==
  /\ length \in Sizes
  /\ disk = [p \in Places |-> IF p = "newEnd" THEN "junk" ELSE "old"]
  /\ cache = [p \in Places |-> "none"]
  /\ files = "old"
  /\ wizard \in {[Idle EXCEPT !.device = d] : d \in {length = "new"}}
  /\ failures = [power |-> 0, access |-> 0, cancel |-> 0, flush |-> FALSE]

Go(pc) == wizard' = [wizard EXCEPT !.pc = pc]
End(status) == wizard' = [wizard EXCEPT !.pc = "idle", !.status = status]

MayFail == failures.access < MaxFailures
Failed == failures' = [failures EXCEPT !.access = @ + 1]
MayCancel == failures.cancel < MaxCancels
Cancelled == failures' = [failures EXCEPT !.cancel = @ + 1]

\* A failing write to a place leaves what was there, or junk.
Spoil(p) == cache' \in {cache, [cache EXCEPT ![p] = "junk"]}

-----------------------------------------------------------------------------

\* The primary header is decrypted; a volume that has the new size cannot be enlarged to it.
Begin ==
  /\ wizard.pc = "idle" /\ wizard.status # "ok"
  /\ Content("primary") = "old"
  /\ \E fill \in BOOLEAN :
       wizard' = [Idle EXCEPT !.pc = "grow", !.device = wizard.device, !.fill = fill,
                              !.hostSize = length]
  /\ UNCHANGED <<length, disk, cache, files, failures>>

\* SetEndOfFile; new clusters of the file hold nothing that decrypts.
Grow ==
  /\ wizard.pc = "grow"
  /\ \/ length' = "new" /\ Go("fill") /\ UNCHANGED failures
     \/ ~wizard.device /\ MayFail /\ Failed /\ End("error") /\ length' \in {length, "new"}
     \/ MayCancel /\ Cancelled /\ End("abort") /\ UNCHANGED length
  /\ UNCHANGED <<disk, cache, files>>

\* FormatNoFs overwrites what lies behind the old end, or nothing is filled.
Fill ==
  /\ wizard.pc = "fill"
  /\ \/ Go("header") /\ UNCHANGED failures
     \/ wizard.fill /\ MayFail /\ Failed /\ Go("shrink")
     \/ wizard.fill /\ MayCancel /\ Cancelled /\ Go("shrink")
  /\ cache' = IF wizard.fill THEN [cache EXCEPT !["newEnd"] = "junk"] ELSE cache
  /\ UNCHANGED <<length, disk, files>>

\* A container file gets its former size back, or a warning says that it does not.
Shrink ==
  /\ wizard.pc = "shrink"
  /\ \/ length' = (IF wizard.device THEN length ELSE wizard.hostSize) /\ UNCHANGED failures
     \/ MayFail /\ ~wizard.device /\ Failed /\ UNCHANGED length
  /\ End("error")
  /\ UNCHANGED <<disk, cache, files>>

\* The place of the header that is written first: the backup, at the new end.
SecondPlace == "primary"

WriteHeader ==
  /\ wizard.pc = "header"
  /\ \/ cache' = [cache EXCEPT ![wizard.place] = "new"] /\ Go("reserved") /\ UNCHANGED failures
     \/ MayFail /\ Failed /\ End("error") /\ Spoil(wizard.place)
  /\ UNCHANGED <<length, disk, files>>

\* WriteRandomDataToReservedHeaderAreas writes the header again with what is beside it; then the
\* fake hidden header.
WriteReservedAreas ==
  /\ wizard.pc = "reserved"
  /\ \/ Go("flush") /\ UNCHANGED <<cache, failures>>
     \/ MayFail /\ Failed /\ End("error") /\ Spoil(wizard.place)
  /\ UNCHANGED <<length, disk, files>>

AllOnDisk ==
  /\ disk' = Contents /\ cache' = [p \in Places |-> "none"]
  /\ failures' = [failures EXCEPT !.flush = FALSE]

\* (Mutant: the file is flushed after the second header only.)
FlushedAtEnd ==
  IF wizard.place = SecondPlace THEN AllOnDisk ELSE UNCHANGED <<disk, cache, failures>>

\* A flush that fails, "because it fails for devices", is taken for one that succeeds.
FlushFileBuffers ==
  \/ AllOnDisk
  \/ failures' = [failures EXCEPT !.flush = TRUE] /\ UNCHANGED <<disk, cache>>

\* After each header: the second is not begun before the first was flushed.
Flush ==
  /\ wizard.pc = "flush"
  /\ FlushFileBuffers
  /\ wizard' = IF wizard.place = SecondPlace THEN [wizard EXCEPT !.pc = "cancel"]
               ELSE [wizard EXCEPT !.pc = "header", !.place = SecondPlace]
  /\ UNCHANGED <<length, files>>

TestCancel ==
  /\ wizard.pc = "cancel"
  /\ \/ wizard' = [wizard EXCEPT !.pc = "wipe", !.pass = 1] /\ UNCHANGED failures
     \/ MayCancel /\ Cancelled /\ End("abort")
  /\ UNCHANGED <<length, disk, cache, files>>

\* (Mutant: one pass too many.)
AfterPassTooFar == IF wizard.pass <= Passes THEN "wipe" ELSE "extend"

\* One pass of WipeBuffer over the old backup header.  A first pass that fails is followed by the
\* second one; a later one that fails ends the wiping.  Either shows a warning.
AfterPass == IF wizard.pass < Passes THEN "wipe" ELSE "extend"
WipeOldHeader ==
  /\ wizard.pc = "wipe"
  /\ \/ cache' = [cache EXCEPT !["oldEnd"] = "junk"] /\ Go("flushPass") /\ UNCHANGED failures
     \/ /\ MayFail /\ Failed /\ Spoil("oldEnd")
        /\ wizard' = [wizard EXCEPT !.pc = IF wizard.pass = 1 THEN AfterPass ELSE "extend",
                                    !.pass = @ + 1, !.warned = TRUE]
  /\ UNCHANGED <<length, disk, files>>

FlushPass ==
  /\ wizard.pc = "flushPass"
  /\ FlushFileBuffers
  /\ wizard' = [wizard EXCEPT !.pc = AfterPass, !.pass = @ + 1]
  /\ UNCHANGED <<length, files>>

\* ExtendFileSystem mounts the volume by its primary header.
ExtendFileSystem ==
  /\ wizard.pc = "extend"
  /\ \/ files' = "new" /\ End("ok") /\ UNCHANGED failures
     \/ MayFail /\ Failed /\ End("error") /\ UNCHANGED files
     \/ MayCancel /\ Cancelled /\ End("abort") /\ UNCHANGED files
  /\ UNCHANGED <<length, disk, cache>>

\* Each header that is not flushed is kept, lost or torn.
PowerFailure ==
  /\ failures.power < MaxPowerFailures
  /\ disk' \in {d \in [Places -> Sizes \cup {"junk"}] : \A p \in Places :
                  d[p] \in IF cache[p] = "none" THEN {disk[p]} ELSE {disk[p], cache[p], "junk"}}
  /\ cache' = [p \in Places |-> "none"]
  /\ failures' = [failures EXCEPT !.power = @ + 1]
  /\ IF wizard.pc = "idle" THEN UNCHANGED wizard ELSE End("power")
  /\ UNCHANGED <<length, files>>

Next ==
  \/ Begin \/ Grow \/ Fill \/ Shrink \/ WriteHeader \/ WriteReservedAreas \/ Flush
  \/ TestCancel \/ WipeOldHeader \/ FlushPass \/ ExtendFileSystem \/ PowerFailure

Spec == Init /\ [][Next]_vars

-----------------------------------------------------------------------------

TypeOK ==
  /\ length \in Sizes /\ files \in Sizes
  /\ disk \in [Places -> Sizes \cup {"junk"}]
  /\ cache \in [Places -> Sizes \cup {"junk", "none"}]
  /\ wizard.place \in Places /\ wizard.pass \in 0 .. Passes + 1
  /\ wizard.status \in {"none", "ok", "error", "abort", "power"}

\* The headers that a mount can find: the primary one, and the one at the end of the host.
Reachable == {"primary", IF length = "new" THEN "newEnd" ELSE "oldEnd"}

\* By these headers the volume still mounts, and by each of them that mounts it the file system fits
\* into the volume and the volume into its host.
Mountable(headers) ==
  LET found == {headers[p] : p \in Reachable} \cap Sizes
  IN /\ found # {}
     /\ \A h \in found : (h = "old" => files = "old") /\ (h = "new" => length = "new")

\* Whatever else fails or is cancelled: after a flush that succeeded the volume mounts by what is on
\* the disk, however the power fails; and as long as the power does not fail it mounts, whatever is
\* flushed.  (Not covered: a failed flush, which ExtendVolumeThreadProc ignores, and then a power
\* failure: both headers may be torn.)
VolumeStaysMountable ==
  /\ ~failures.flush => Mountable(disk)
  /\ ~failures.flush \/ failures.power = 0 => Mountable(Contents)
=============================================================================
