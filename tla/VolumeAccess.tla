------------------------------ MODULE VolumeAccess ------------------------------
(***************************************************************************)
(* A volume as the FUSE service reads and writes it (Volume.cpp,           *)
(* FuseService.cpp): an outer volume whose hidden volume may be protected, *)
(* the hidden volume itself, or a partition of an encrypted system, which  *)
(* may be encrypted in part only.  The service runs many threads.          *)
(* Encryption is a layer, of a key and a sector number, on a byte.         *)
(***************************************************************************)
EXTENDS Integers

CONSTANTS
  HostSize, SectorSize,     \* of the file or partition, in bytes
  OuterOffset, OuterSize,   \* the data areas of the two volumes in a file
  HiddenOffset, HiddenSize,
  PartitionStart,           \* first sector of a system partition on its drive
  EncryptedSizes,           \* how much of a system partition is encrypted, in bytes
  Lengths,                  \* bound: the lengths of writes
  Writers,
  Initial, Values,          \* what the bytes hold at first, what is written
  Garbage                   \* what decryption with a wrong key or sector gives

ASSUME SizesAssumption ==
  /\ HostSize \in Nat /\ SectorSize \in Nat \ {0}
  /\ OuterOffset \in Nat /\ OuterSize \in Nat
  /\ HiddenOffset \in Nat /\ HiddenSize \in Nat /\ Lengths \subseteq Nat

\* Volumes are created, and drives encrypted, in whole sectors; the end of a file or
\* partition with a hidden volume holds a header.
ASSUME LayoutAssumption ==
  /\ \A n \in {HostSize, OuterOffset, OuterSize, HiddenOffset, HiddenSize} \cup EncryptedSizes :
       n \in Nat /\ n % SectorSize = 0
  /\ OuterOffset + OuterSize <= HostSize /\ HiddenOffset + HiddenSize < HostSize

VARIABLES
  volume,    \* the Volume object: type, protection, data area, encrypted part, protected range
  host,      \* bytes of the file or partition: value and layer
  triggered, \* HiddenVolumeProtectionTriggered
  writer,    \* per thread: pc and the request
  data,      \* what the volume contains (history)
  opened     \* the hidden volume's bytes when the volume was opened (history)

vars == <<volume, host, triggered, writer, data, opened>>

-----------------------------------------------------------------------------

Host == 0..HostSize - 1
Sector(b) == b \div SectorSize
Range(first, length) == first..first + length - 1
Hidden == Range(HiddenOffset, HiddenSize) \cap Host
HiddenBytes == [b \in Hidden |-> host[b]]

Clear == <<"clear", 0>>
Cell(value, layer) == [value |-> value, layer |-> layer]

\* The tweak of XTS is the sector of the file, or of the drive for a system partition.
Layer(type, sector) == <<type, IF type = "system" THEN PartitionStart + sector ELSE sector>>

Idle == [pc |-> "idle", offset |-> 0, length |-> 0, value |-> Garbage]

Closed == [type |-> "none", protection |-> "none", offset |-> 0, size |-> 0, encrypted |-> 0,
           partial |-> FALSE, start |-> 0, end |-> 0]

\* A file with an outer and a hidden volume.
Container ==
  [b \in Host |-> Cell(Initial, Layer(IF b \in Hidden THEN "hidden" ELSE "outer", Sector(b)))]

\* A system partition, of which the repair tool of Windows may have written the first sector.
Partition(encrypted, repaired) ==
  [b \in Host |-> Cell(Initial, IF b < encrypted /\ (repaired => Sector(b) # 0)
                              THEN Layer("system", Sector(b)) ELSE Clear)]

IsContainer == host[HostSize - 1].layer = Layer("outer", Sector(HostSize - 1))

Init ==
  /\ \/ host = Container
     \/ \E encrypted \in EncryptedSizes, repaired \in BOOLEAN : host = Partition(encrypted, repaired)
  /\ volume = Closed /\ triggered = FALSE /\ writer = [w \in Writers |-> Idle]
  /\ data = [b \in Host |-> Garbage] /\ opened = HiddenBytes

-----------------------------------------------------------------------------
(* Volume::Open.                                                           *)

\* The bytes of the volume as its own key and sectors give them.
Contents(v) ==
  [b \in Host |-> IF b >= v.size THEN Garbage
                  ELSE LET cell == host[v.offset + b]
                       IN IF cell.layer \in {Clear, Layer(v.type, Sector(v.offset + b))} THEN cell.value ELSE Garbage]

Opens(v) ==
  /\ volume = Closed /\ volume' = v /\ data' = Contents(v) /\ opened' = HiddenBytes
  /\ UNCHANGED <<host, triggered, writer>>

OpenOuter ==
  /\ IsContainer
  /\ \E protection \in {"none", "readonly", "hidden"} :
       Opens([Closed EXCEPT !.type = "outer", !.protection = protection,
                            !.offset = OuterOffset, !.size = OuterSize, !.encrypted = OuterSize,
                            !.start = IF protection = "hidden" THEN HiddenOffset ELSE 0,
                            !.end = IF protection = "hidden" THEN HiddenOffset + HiddenSize ELSE 0])

\* A hidden volume is not opened with a protection of itself.
OpenHidden ==
  /\ IsContainer
  /\ \E protection \in {"none", "readonly"} :
       Opens([Closed EXCEPT !.type = "hidden", !.protection = protection,
                            !.offset = HiddenOffset, !.size = HiddenSize, !.encrypted = HiddenSize])

\* A partition of a drive that is encrypted in part only is not written to.
SystemProtection(partial, protection) == IF partial THEN "readonly" ELSE protection

\* A partition that starts outside the encrypted area is refused.
OpenSystem ==
  /\ ~IsContainer
  /\ \E encrypted \in EncryptedSizes \ {0}, partial \in BOOLEAN, protection \in {"none", "readonly"} :
       /\ encrypted < HostSize => partial
       /\ \A b \in Host : Sector(b) # 0 => (host[b].layer # Clear <=> b < encrypted)
       /\ Opens([Closed EXCEPT !.type = "system", !.protection = SystemProtection(partial, protection),
                               !.size = HostSize, !.encrypted = encrypted, !.partial = partial])

Close ==
  /\ volume # Closed /\ \A w \in Writers : writer[w] = Idle
  /\ volume' = Closed /\ triggered' = FALSE /\ UNCHANGED <<host, writer, data, opened>>

-----------------------------------------------------------------------------
(* Reads: fuse_service_read and Volume::ReadSectors.                       *)

\* A first sector that holds the signature of NTFS is left as it is.
FirstSectorInClear(hostOffset) == volume.type = "system" /\ hostOffset = 0 /\ host[0].layer = Clear

\* (Mutant: a request is decrypted if its first byte is.)
DecryptsWhole(b, hostOffset) ==
  /\ FirstSectorInClear(hostOffset) => b >= SectorSize
  /\ volume.partial => hostOffset < volume.encrypted

\* Which bytes of a request are decrypted.
Decrypts(b, hostOffset) ==
  /\ FirstSectorInClear(hostOffset) => b >= SectorSize
  /\ volume.partial => b < volume.encrypted

ReadSectors(offset, length) ==
  LET hostOffset == volume.offset + offset
  IN [i \in 0..length - 1 |->
       LET b == hostOffset + i
           cell == host[b]
       IN IF Decrypts(b, hostOffset)
          THEN IF cell.layer = Layer(volume.type, Sector(b)) THEN cell.value ELSE Garbage
          ELSE IF cell.layer = Clear THEN cell.value ELSE Garbage]

RoundedUp(length) == length + ((SectorSize - (length % SectorSize)) % SectorSize)

AlignedSize(offset, size) == RoundedUp(size + (offset % SectorSize))

\* The service reads whole sectors and returns the bytes that were asked for.
Read(offset, asked) ==
  LET size == IF offset + asked > volume.size THEN volume.size - offset ELSE asked
      alignedOffset == offset - (offset % SectorSize)
      alignedSize == AlignedSize(offset, size)
      buffer == ReadSectors(alignedOffset, alignedSize)
  IN IF volume.offset + alignedOffset + alignedSize > HostSize THEN [i \in {} |-> Garbage]
     ELSE [i \in 0..size - 1 |->
             LET j == (offset % SectorSize) + i IN IF j < alignedSize THEN buffer[j] ELSE Garbage]

-----------------------------------------------------------------------------
(* Writes: fuse_service_write and Volume::WriteSectors.                    *)

\* (Mutant: the end of the protected range is compared with the start of the write only.)
OverlapsProtectedRangeAtStart(first, length) ==
  first >= volume.start /\ first <= volume.end - 1

\* CheckProtectedRange.
OverlapsProtectedRange(first, length) ==
  IF first < volume.start THEN first + length - 1 >= volume.start ELSE first <= volume.end - 1

Refused(offset, length) ==
  \/ length % SectorSize # 0 \/ offset % SectorSize # 0 \/ offset + length > volume.size
  \/ volume.protection = "readonly"

IsTriggered(offset, length) ==
  triggered \/ (volume.protection = "hidden" /\ OverlapsProtectedRange(volume.offset + offset, length))

\* The checks of WriteSectors, before the buffer is copied and encrypted.
CheckWrite(w) ==
  /\ volume # Closed /\ writer[w] = Idle
  /\ \E offset \in 0..volume.size, length \in Lengths, value \in Values :
       /\ ~Refused(offset, length)
       /\ triggered' = IsTriggered(offset, length)
       /\ writer' = IF triggered' THEN writer
                    ELSE [writer EXCEPT ![w] = [pc |-> "write", offset |-> offset, length |-> length, value |-> value]]
  /\ UNCHANGED <<volume, host, data, opened>>

WriteSectors(w) ==
  LET first == volume.offset + writer[w].offset
  IN /\ writer[w].pc = "write"
     /\ host' = [b \in Host |-> IF b \in Range(first, writer[w].length)
                                THEN Cell(writer[w].value, Layer(volume.type, Sector(b))) ELSE host[b]]
     /\ data' = [b \in Host |-> IF b \in Range(writer[w].offset, writer[w].length) THEN writer[w].value ELSE data[b]]
     /\ writer' = [writer EXCEPT ![w] = Idle]
     /\ UNCHANGED <<volume, triggered, opened>>

Next ==
  \/ OpenOuter \/ OpenHidden \/ OpenSystem \/ Close
  \/ \E w \in Writers : CheckWrite(w) \/ WriteSectors(w)

Spec == Init /\ [][Next]_vars

-----------------------------------------------------------------------------
(* Properties.                                                             *)

\* Type invariant.
TypeOK ==
  /\ volume.type \in {"none", "outer", "hidden", "system"}
  /\ volume.protection \in {"none", "readonly", "hidden"}
  /\ volume.offset \in Nat /\ volume.size \in Nat /\ volume.start \in Nat /\ volume.end \in Nat
  /\ DOMAIN host = Host /\ triggered \in BOOLEAN
  /\ writer \in [Writers -> [pc : {"idle", "write"}, offset : Nat, length : Nat, value : Values \cup {Garbage}]]

\* While the hidden volume is protected, not a byte of it changes, whatever is written to the
\* outer volume, by how many threads, and wherever a write begins and ends.
HiddenVolumeIntact ==
  volume.protection = "hidden" => HiddenBytes = opened

\* A read returns what the volume contains, at every offset and length, aligned or not: also
\* on a partly encrypted system partition, across the end of its encrypted part, and when
\* its first sector was repaired in the clear.
ReadsReturnData ==
  volume # Closed => \A offset, asked \in 0..volume.size :
    LET size == IF offset + asked > volume.size THEN volume.size - offset ELSE asked
    IN Read(offset, asked) = [i \in 0..size - 1 |-> data[offset + i]]

\* Once a write was denied to protect the hidden volume, no write begins to the outer volume
\* until it is unmounted: only those that were under way end.
DeniedWritesEndWriting ==
  [][triggered => \A w \in Writers : writer'[w] \in {writer[w], Idle}]_vars

=============================================================================
