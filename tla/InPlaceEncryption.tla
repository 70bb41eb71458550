--------------------------- MODULE InPlaceEncryption ---------------------------
(***************************************************************************)
(* In-place encryption and decryption of a Windows partition that is not   *)
(* the system's (src/src/Format/InPlace.c), with pauses, failing devices   *)
(* and power failures.                                                     *)
(*                                                                         *)
(* Encryption goes backwards.  It reads a chunk of the file system and     *)
(* writes it encrypted Offset cells further on, which makes room for the   *)
(* headers at both ends; the two places overlap, so that a chunk that was  *)
(* written a second time from the old place would be garbage.  The backup  *)
(* header at the end of the partition says how far the encryption got.     *)
(* Decryption goes forwards and moves the data back.                       *)
(*                                                                         *)
(* Position p of the file system is cell p of the device when it is plain  *)
(* and cell p + Offset when it is encrypted.  The first Portion positions  *)
(* are masked while the process lasts, so that Windows does not see a file *)
(* system.                                                                 *)
(***************************************************************************)
EXTENDS Integers, FiniteSets

CONSTANTS
  Size,       \* positions of the file system (after it was shrunk)
  Offset,     \* TC_VOLUME_DATA_OFFSET: the size of the headers at either end
  ChunkSize,  \* TC_MAX_NONSYS_INPLACE_ENC_WORK_CHUNK_SIZE
  Interval,   \* TC_NONSYS_INPLACE_ENC_HEADER_UPDATE_INTERVAL
  Portion,    \* TC_INITIAL_NTFS_CONCEAL_PORTION_SIZE
  MaxPowerFailures, MaxFailures \* bounds: power failures, failing accesses

\* The sizes are 128 KB of headers, chunks of 2 MB, an update every 64 MB, a masked portion
\* of 8 KB, and more than 7 MB of file system.
ConstantsOK ==
  /\ {Size, Offset, ChunkSize, Interval, Portion} \subseteq Nat \ {0}
  /\ Portion <= Offset /\ Portion <= ChunkSize /\ Portion <= Size
  /\ Interval % ChunkSize = 0
  /\ {MaxPowerFailures, MaxFailures} \subseteq Nat

VARIABLES
  device,     \* content of each cell
  backup,     \* the backup header: present, start and length of the encrypted area
  wizard,     \* the thread of the wizard: step, direction, masterCryptoInfo and locals
  lost,       \* positions that failures have spoiled (history)
  failures    \* what failed so far: accesses, and the steps that a power failure hit (history)

vars == <<device, backup, wizard, lost, failures>>

-----------------------------------------------------------------------------

Cells == 0 .. Size + 2 * Offset - 1
Positions == 0 .. Size - 1
Lower(a, b) == IF a < b THEN a ELSE b

\* The content of a cell: a position of the file system, masked or not, encrypted or not.
Data(p, masked, cipher) == [pos |-> p, masked |-> masked, cipher |-> cipher]
Junk == Data(-1, FALSE, FALSE)
Encrypt(c) == IF c = Junk \/ c.cipher THEN Junk ELSE [c EXCEPT !.cipher = TRUE]
Decrypt(c) == IF c.cipher THEN [c EXCEPT !.cipher = FALSE] ELSE Junk
Mask(c) == IF c = Junk \/ c.cipher THEN Junk ELSE [c EXCEPT !.masked = ~@]

NoBackup == [present |-> FALSE, start |-> 0, length |-> 0]

\* What a resumed process takes for position p, by the backup header.
Expected(p) ==
  IF ~backup.present THEN Data(p, FALSE, FALSE)
  ELSE IF p + Offset >= backup.start THEN Data(p, FALSE, TRUE) ELSE Data(p, p < Portion, FALSE)
Place(p) == IF backup.present /\ p + Offset >= backup.start THEN p + Offset ELSE p
Mismatch == {p \in Positions : device[Place(p)] # Expected(p)} \ lost

Idle == [pc |-> "idle", mode |-> "none", start |-> 0, length |-> 0, distance |-> 0,
         changed |-> FALSE, finished |-> "none"]

Init ==
  /\ device = [i \in Cells |-> IF i < Size THEN Data(i, FALSE, FALSE) ELSE Junk]
  /\ backup = NoBackup /\ wizard = Idle
  /\ lost = {} /\ failures = [accesses |-> 0, at |-> {}, power |-> 0]

-----------------------------------------------------------------------------

ToPc(pc) == wizard' = [wizard EXCEPT !.pc = pc]
AccessFails ==
  failures.accesses < MaxFailures /\ failures' = [failures EXCEPT !.accesses = @ + 1]

\* Some or all of the cells of a write have reached the device.
Written(area, content) == [i \in Cells |-> IF i \in area THEN content[i] ELSE device[i]]

\* EncryptPartitionInPlaceBegin needs a file system that Windows knows; it writes the
\* backup header and reads it back.  (Nobody begins anew on a partition of which a part
\* is encrypted.)
FileSystemVisible == \A i \in 0 .. Portion - 1 : device[i] = Data(i, FALSE, FALSE)
Begin ==
  /\ wizard.pc = "idle" /\ FileSystemVisible /\ backup.length = 0
  /\ backup' = [present |-> TRUE, start |-> Size + Offset, length |-> 0]
  /\ wizard' = [Idle EXCEPT !.pc = "conceal", !.mode = "encrypt"]
  /\ UNCHANGED <<device, lost, failures>>

\* ConcealNTFS.
Concealed == [i \in Cells |-> IF i < Portion THEN Mask(device[i]) ELSE device[i]]

Conceal ==
  /\ wizard.pc = "conceal"
  /\ device' = Concealed
  /\ ToPc("open")
  /\ UNCHANGED <<backup, lost, failures>>

\* A write error is undone, and the backup header remains.
ConcealFails ==
  /\ wizard.pc = "conceal" /\ AccessFails
  /\ wizard' = Idle /\ lost' = lost \cup Mismatch
  /\ UNCHANGED <<device, backup>>

\* The user resumes or reverses the process, or decrypts an encrypted volume.
Resume(mode) ==
  /\ wizard.pc = "idle" /\ backup.present
  /\ wizard' = [Idle EXCEPT !.pc = "open", !.mode = mode]
  /\ UNCHANGED <<device, backup, lost, failures>>

\* OpenBackupHeader.
Open ==
  /\ wizard.pc = "open"
  /\ wizard' = [wizard EXCEPT !.pc = "loop", !.start = backup.start, !.length = backup.length]
  /\ UNCHANGED <<device, backup, lost, failures>>

-----------------------------------------------------------------------------
(* The loops.                                                              *)

\* (Mutant: a rest that is no whole chunk is forgotten.)
RemainingChunks ==
  LET rest == IF wizard.mode = "encrypt" THEN Size - wizard.length ELSE wizard.length
  IN rest - (rest % ChunkSize)

Remaining == IF wizard.mode = "encrypt" THEN Size - wizard.length ELSE wizard.length
WorkChunkSize == Lower(Remaining, ChunkSize)

\* The place of a chunk, and where it goes.
SourceStart == IF wizard.mode = "encrypt" THEN wizard.start - WorkChunkSize - Offset ELSE wizard.start
TargetStart == IF wizard.mode = "encrypt" THEN wizard.start - WorkChunkSize ELSE wizard.start - Offset
Target == TargetStart .. TargetStart + WorkChunkSize - 1

\* How many cells of the buffer are unmasked before they are encrypted, or masked after
\* they were decrypted.
MaskedCells ==
  IF wizard.mode = "encrypt"
  THEN Portion - (Remaining - WorkChunkSize)
  ELSE IF wizard.start - Offset < Portion
       THEN Lower(Portion, wizard.start - Offset + WorkChunkSize) ELSE 0

\* The buffer as it is written, by the cell it is written to.
Buffer ==
  [i \in Target |->
     LET j == i - TargetStart
         read == device[SourceStart + j]
         masked == j < MaskedCells
     IN IF wizard.mode = "encrypt" THEN Encrypt(IF masked THEN Mask(read) ELSE read)
        ELSE IF masked THEN Mask(Decrypt(read)) ELSE Decrypt(read)]

\* (Mutant: the area is moved before the chunk is written, as the next chunk.)
AreaMovedShort == [start |-> wizard.start - WorkChunkSize, length |-> wizard.length + ChunkSize]

AreaMoved ==
  IF wizard.mode = "encrypt"
  THEN [start |-> wizard.start - WorkChunkSize, length |-> wizard.length + WorkChunkSize]
  ELSE [start |-> wizard.start + WorkChunkSize, length |-> wizard.length - WorkChunkSize]

\* (Mutant: the header is updated one chunk late.)
UpdateIsDueLate(distance) == distance > Interval

UpdateIsDue(distance) == distance >= Interval

ConvertChunk ==
  /\ wizard.pc = "loop" /\ Remaining > 0
  /\ device' = Written(Target, Buffer)
  /\ LET distance == wizard.distance + WorkChunkSize
     IN wizard' = [wizard EXCEPT !.start = AreaMoved.start, !.length = AreaMoved.length,
                     !.distance = distance, !.changed = TRUE,
                     !.pc = IF UpdateIsDue(distance) THEN "update" ELSE "check"]
  /\ UNCHANGED <<backup, lost, failures>>

\* A sector that cannot be read is zeroed, if the user agrees, and the chunk read again.
\* (Decryption replaces it in the buffer only.)
ReadRepaired ==
  /\ wizard.pc = "loop" /\ Remaining > 0 /\ AccessFails
  /\ \E i \in SourceStart .. SourceStart + WorkChunkSize - 1 :
       /\ device' = [device EXCEPT ![i] = Junk]
       /\ lost' = lost \cup {IF wizard.mode = "encrypt" THEN i ELSE i - Offset}
  /\ UNCHANGED <<backup, wizard>>

ReadFails ==
  /\ wizard.pc = "loop" /\ Remaining > 0 /\ AccessFails
  /\ ToPc("closing")
  /\ UNCHANGED <<device, backup, lost>>

\* (Mutant: the whole buffer is written back to where the ciphertext went.)
UndoneShifted(torn) ==
  [i \in Cells |-> IF i \in Target THEN Data(i - Offset, FALSE, FALSE) ELSE torn[i]]

\* The undo of a failed encryption: from the buffer, decrypted again, the cells that
\* the chunk was read from and that were to be overwritten.
Undone(torn) ==
  [i \in Cells |-> IF WorkChunkSize > Offset /\ i \in TargetStart .. TargetStart + WorkChunkSize - Offset - 1
                   THEN Decrypt(Buffer[i + Offset]) ELSE torn[i]]

\* Some cells are written, or wiped, and then there is an error.  Decryption undoes nothing.
WriteFails ==
  /\ wizard.pc = "loop" /\ Remaining > 0 /\ AccessFails
  /\ \E area \in SUBSET Target, wiped \in BOOLEAN :
       LET torn == Written(area, IF wiped THEN [i \in Cells |-> Junk] ELSE Buffer)
       IN /\ wiped => wizard.mode = "encrypt"
          /\ device' \in IF wizard.mode = "encrypt" THEN {torn, Undone(torn)} ELSE {torn}
          /\ lost' = IF wizard.mode = "encrypt" /\ device' = Undone(torn) THEN lost
                     ELSE lost \cup {p \in Positions : \E i \in area : p \in {i, i - Offset}}
  /\ ToPc("closing")
  /\ UNCHANGED backup

\* FastVolumeHeaderUpdate in the loop.
Update ==
  /\ wizard.pc = "update"
  /\ backup' = [present |-> TRUE, start |-> wizard.start, length |-> wizard.length]
  /\ wizard' = [wizard EXCEPT !.pc = "check", !.distance = 0]
  /\ UNCHANGED <<device, lost, failures>>

UpdateFails ==
  /\ wizard.pc \in {"update", "paused", "done"} /\ AccessFails
  /\ ToPc("closing")
  /\ UNCHANGED <<device, backup, lost>>

\* The end of an iteration, where the user may have paused the process.
Check ==
  /\ wizard.pc = "check"
  /\ ToPc("paused") \/ ToPc("loop")
  /\ UNCHANGED <<device, backup, lost, failures>>

LoopEnds ==
  /\ wizard.pc = "loop" /\ Remaining = 0
  /\ ToPc("done")
  /\ UNCHANGED <<device, backup, lost, failures>>

\* The update after the loop.
UpdateLast ==
  /\ wizard.pc \in {"paused", "done"}
  /\ backup' = [present |-> TRUE, start |-> wizard.start, length |-> wizard.length]
  /\ wizard' = [wizard EXCEPT
       !.changed = IF wizard.pc = "done" /\ wizard.mode = "decrypt" THEN FALSE ELSE @,
       !.pc = IF wizard.pc = "paused" THEN "closing"
              ELSE IF wizard.mode = "encrypt" THEN "primary" ELSE "unconceal"]
  /\ UNCHANGED <<device, lost, failures>>

\* closing_seq: one more try to save how far the process got.  (What it cannot save
\* is lost to a later resume.)
Close ==
  /\ wizard.pc = "closing"
  /\ \/ /\ wizard.changed
        /\ backup' = [present |-> TRUE, start |-> wizard.start, length |-> wizard.length]
        /\ UNCHANGED <<lost, failures>>
     \/ wizard.changed /\ AccessFails /\ UNCHANGED backup /\ lost' = lost \cup Mismatch
     \/ ~wizard.changed /\ UNCHANGED <<backup, lost, failures>>
  /\ wizard' = [Idle EXCEPT !.finished = wizard.finished]
  /\ UNCHANGED device

-----------------------------------------------------------------------------
(* The end.                                                                *)

\* The primary header goes to the first cells, which the data has left.
WritePrimaryHeader ==
  /\ wizard.pc = "primary"
  /\ device' = [i \in Cells |-> IF i < Offset THEN Junk ELSE device[i]]
  /\ wizard' = [wizard EXCEPT !.pc = "closing", !.finished = "encrypted"]
  /\ UNCHANGED <<backup, lost, failures>>

\* ConcealNTFS undoes itself.
Unconceal ==
  /\ wizard.pc = "unconceal"
  /\ device' = Concealed
  /\ ToPc("erase")
  /\ UNCHANGED <<backup, lost, failures>>

\* The backup header and the rest of the partition are zeroed.
EraseBackup ==
  /\ wizard.pc = "erase"
  /\ device' = [i \in Cells |-> IF i >= Size THEN Junk ELSE device[i]]
  /\ backup' = NoBackup
  /\ wizard' = [Idle EXCEPT !.finished = "decrypted"]
  /\ UNCHANGED <<lost, failures>>

\* The file system is visible, or not, and the header says otherwise.
EndFails ==
  /\ wizard.pc \in {"primary", "unconceal", "erase"} /\ AccessFails
  /\ ToPc("closing")
  /\ lost' = lost \cup Mismatch
  /\ UNCHANGED <<device, backup>>

\* Everything stops; a chunk that is being written is written in part.
PowerFailure ==
  /\ wizard.pc # "idle" /\ failures.power < MaxPowerFailures
  /\ IF wizard.pc = "loop" /\ Remaining > 0
     THEN \E area \in SUBSET Target : device' = Written(area, Buffer)
     ELSE UNCHANGED device
  /\ wizard' = Idle
  /\ failures' = [failures EXCEPT !.power = @ + 1, !.at = @ \cup {wizard.pc}]
  /\ lost' = lost \cup {p \in Positions : device'[Place(p)] # Expected(p)}
  /\ UNCHANGED backup

Next ==
  \/ Begin \/ Conceal \/ ConcealFails
  \/ Resume("encrypt") \/ Resume("decrypt") \/ Open
  \/ ConvertChunk \/ ReadRepaired \/ ReadFails \/ WriteFails
  \/ Update \/ UpdateFails \/ Check \/ LoopEnds \/ UpdateLast \/ Close
  \/ WritePrimaryHeader \/ Unconceal \/ EraseBackup \/ EndFails
  \/ PowerFailure

Spec == Init /\ [][Next]_vars

-----------------------------------------------------------------------------
(* Properties.                                                             *)

\* Type invariant.
TypeOK ==
  /\ device \in [Cells -> [pos : -1 .. Size - 1, masked : BOOLEAN, cipher : BOOLEAN]]
  /\ backup \in [present : BOOLEAN, start : 0 .. Size + Offset, length : 0 .. Size]
  /\ wizard.start \in 0 .. Size + Offset /\ wizard.length \in 0 .. Size
  /\ lost \subseteq Positions

\* "continue from the point where it was stopped": whenever the wizard is not at work,
\* every position is where a resumed or reversed process looks for it, in the state that
\* the process expects, after pauses, errors and changes of direction; excepted are the
\* positions that a failure has hit, and the damage does not spread.
DeviceMatchesHeader == wizard.pc = "idle" => Mismatch = {}

\* When the wizard says that it has finished, the volume is encrypted or the file system
\* is plain and visible again, in its whole length.
FinishedIsComplete ==
  /\ wizard.finished = "encrypted" =>
       \A p \in Positions \ lost : device[p + Offset] = Data(p, FALSE, TRUE)
  /\ wizard.finished = "decrypted" =>
       ~backup.present /\ \A p \in Positions \ lost : device[p] = Data(p, FALSE, FALSE)

\* "portions of the data will be corrupted or lost" in a power failure: besides the masked
\* portion, no more than was converted between two updates of the header.  (Chunks divide
\* the interval.)
PowerFailureCostsLittle ==
  [][failures.power' > failures.power =>
       Cardinality((lost' \ lost) \ (0 .. Portion - 1)) <= Interval]_vars

\* The comment of EncryptPartitionInPlaceBegin, "we know we should be able to safely resume
\* in-place encryption of this partition even if the system/app crashes": a crash right
\* after the backup header was verified costs nothing.
SafelyResumed ==
  wizard.finished = "encrypted" /\ failures.at = {"conceal"} =>
    \A p \in Positions : device[p + Offset] = Data(p, FALSE, TRUE)

\* Chunks that are counted from the end leave no rest that is shorter than the masked
\* portion.  The code does not see to it (DecryptionReveals).
NoShortRest == Size % ChunkSize = 0 \/ Size % ChunkSize >= Portion

\* The comments of DecryptPartitionInPlace, "Conceal initial portion of the filesystem"
\* and "Undo concealing of the filesystem": a decryption that nothing disturbs ends with
\* the file system as it was.
DecryptionReveals ==
  wizard.finished = "decrypted" => \A p \in Positions : device[p] = Data(p, FALSE, FALSE)

=============================================================================
