----------------------------- MODULE VolumesProofs ------------------------------
(***************************************************************************)
(* Theorems about VolumeAccess, for volumes, sectors and protected ranges  *)
(* of every size and any number of threads: the range check refuses every  *)
(* write that would touch the protected range and no other, no byte of a   *)
(* protected hidden volume changes, a denied write ends the writing, and   *)
(* a read returns what the volume contains.                                *)
(***************************************************************************)
EXTENDS Volumes, TLAPS

(* A write under way stays clear of the protected range, which is that of  *)
(* the hidden volume; and no write is under way when nothing is mounted.   *)
ProtectedOK ==
  volume.protection = "hidden" =>
    /\ volume.start = HiddenOffset /\ volume.end = HiddenOffset + HiddenSize
    /\ \A w \in Writers : writer[w].pc = "write" =>
         Range(volume.offset + writer[w].offset, writer[w].length)
           \cap Range(HiddenOffset, HiddenSize) = {}

ClosedOK == volume = Closed => \A w \in Writers : writer[w] = Idle

IInv == TypeOK /\ ProtectedOK /\ ClosedOK /\ HiddenVolumeIntact

-----------------------------------------------------------------------------

(* CheckProtectedRange answers exactly whether a write of at least one byte *)
(* has a byte in common with the protected range.                          *)
THEOREM RangeCheckIsExact ==
  ASSUME NEW first \in Nat, NEW length \in Nat \ {0}, NEW size \in Nat \ {0},
         volume.start \in Nat, volume.end = volume.start + size
  PROVE  OverlapsProtectedRange(first, length)
           <=> Range(first, length) \cap Range(volume.start, size) # {}
<1> DEFINE s == volume.start
<1>1. CASE first < s
  <2>1. first + length - 1 >= s => s \in Range(first, length) \cap Range(s, size)
    BY <1>1 DEF Range
  <2>2. ~(first + length - 1 >= s) => Range(first, length) \cap Range(s, size) = {}
    BY <1>1 DEF Range
  <2> QED
    BY <1>1, <2>1, <2>2 DEF OverlapsProtectedRange
<1>2. CASE ~(first < s)
  <2>1. first <= s + size - 1 => first \in Range(first, length) \cap Range(s, size)
    BY <1>2 DEF Range
  <2>2. ~(first <= s + size - 1) => Range(first, length) \cap Range(s, size) = {}
    BY <1>2 DEF Range
  <2> QED
    BY <1>2, <2>1, <2>2 DEF OverlapsProtectedRange
<1> QED
  BY <1>1, <1>2

(* Empty writes and empty ranges included, a write that passes is disjoint. *)
LEMMA PassingIsDisjoint ==
  ASSUME NEW first \in Nat, NEW length \in Nat, NEW size \in Nat,
         volume.start \in Nat, volume.end = volume.start + size,
         ~OverlapsProtectedRange(first, length)
  PROVE  Range(first, length) \cap Range(volume.start, size) = {}
  BY DEF OverlapsProtectedRange, Range

LEMMA InitInv == Init => IInv
<1> SUFFICES ASSUME Init PROVE IInv
  OBVIOUS
<1>1. volume = Closed /\ writer = [w \in Writers |-> Idle] /\ triggered = FALSE
  BY DEF Init
<1>2. DOMAIN host = Host
  BY DEF Init, Container, Partition
<1>3. TypeOK
  BY <1>1, <1>2 DEF TypeOK, Closed, Idle
<1>4. volume.protection # "hidden"
  BY <1>1 DEF Closed
<1> QED
  BY <1>1, <1>3, <1>4 DEF IInv, ProtectedOK, ClosedOK, HiddenVolumeIntact

(* Every way of opening gives a volume of the right type, protected or not. *)
LEMMA OpenInv ==
  ASSUME IInv, OpenOuter \/ OpenHidden \/ OpenSystem
  PROVE  IInv'
<1> USE SizesAssumption
<1> DEFINE Opened == /\ volume = Closed /\ volume' # Closed
                     /\ volume'.type \in {"outer", "hidden", "system"}
                     /\ volume'.protection \in {"none", "readonly", "hidden"}
                     /\ volume'.offset \in Nat /\ volume'.size \in Nat
                     /\ volume'.start \in Nat /\ volume'.end \in Nat
                     /\ volume'.protection = "hidden" =>
                          volume'.start = HiddenOffset /\ volume'.end = HiddenOffset + HiddenSize
<1>1. Opened
  <2>1. CASE OpenOuter
    <3> PICK protection \in {"none", "readonly", "hidden"} :
          Opens([Closed EXCEPT !.type = "outer", !.protection = protection,
                               !.offset = OuterOffset, !.size = OuterSize, !.encrypted = OuterSize,
                               !.start = IF protection = "hidden" THEN HiddenOffset ELSE 0,
                               !.end = IF protection = "hidden" THEN HiddenOffset + HiddenSize ELSE 0])
      BY <2>1 DEF OpenOuter
    <3>1. volume = Closed /\ volume'.type = "outer" /\ volume'.protection = protection
      BY DEF Opens, Closed
    <3>2. volume'.offset = OuterOffset /\ volume'.size = OuterSize
      BY DEF Opens, Closed
    <3>3. volume'.start = IF protection = "hidden" THEN HiddenOffset ELSE 0
      BY DEF Opens, Closed
    <3>4. volume'.end = IF protection = "hidden" THEN HiddenOffset + HiddenSize ELSE 0
      BY DEF Opens, Closed
    <3>5. volume' # Closed
      BY <3>1 DEF Closed
    <3> QED
      BY <3>1, <3>2, <3>3, <3>4, <3>5
  <2>2. CASE OpenHidden
    <3> PICK protection \in {"none", "readonly"} :
          Opens([Closed EXCEPT !.type = "hidden", !.protection = protection,
                               !.offset = HiddenOffset, !.size = HiddenSize, !.encrypted = HiddenSize])
      BY <2>2 DEF OpenHidden
    <3> QED
      BY DEF Opens, Closed
  <2>3. CASE OpenSystem
    <3> PICK encrypted \in EncryptedSizes \ {0}, partial \in BOOLEAN, protection \in {"none", "readonly"} :
          Opens([Closed EXCEPT !.type = "system", !.protection = SystemProtection(partial, protection),
                               !.size = HostSize, !.encrypted = encrypted, !.partial = partial])
      BY <2>3 DEF OpenSystem
    <3>1. SystemProtection(partial, protection) \in {"none", "readonly"}
      BY DEF SystemProtection
    <3> QED
      BY <3>1 DEF Opens, Closed
  <2> QED
    BY <2>1, <2>2, <2>3
<1>2. opened' = HiddenBytes /\ UNCHANGED <<host, triggered, writer>>
  BY DEF OpenOuter, OpenHidden, OpenSystem, Opens
<1>3. \A w \in Writers : writer'[w] = Idle
  BY <1>1, <1>2 DEF IInv, ClosedOK
<1>4. TypeOK'
  BY <1>1, <1>2 DEF IInv, TypeOK
<1>5. ProtectedOK'
  BY <1>1, <1>3 DEF ProtectedOK, Idle
<1>6. HiddenVolumeIntact'
  BY <1>2 DEF HiddenVolumeIntact, HiddenBytes
<1> QED
  BY <1>1, <1>4, <1>5, <1>6 DEF IInv, ClosedOK

LEMMA CloseInv ==
  ASSUME IInv, Close
  PROVE  IInv'
<1>1. volume' = Closed /\ triggered' = FALSE /\ UNCHANGED <<host, writer, opened>> /\ \A w \in Writers : writer[w] = Idle
  BY DEF Close
<1>2. volume'.protection # "hidden"
  BY <1>1 DEF Closed
<1>3. TypeOK'
  BY <1>1 DEF IInv, TypeOK, Closed
<1> QED
  BY <1>1, <1>2, <1>3 DEF IInv, ProtectedOK, ClosedOK, HiddenVolumeIntact

(* A write that passes the checks is disjoint from the protected range.     *)
LEMMA CheckWriteInv ==
  ASSUME IInv, NEW w \in Writers, CheckWrite(w)
  PROVE  IInv'
<1> USE SizesAssumption
<1>1. PICK offset \in 0..volume.size, length \in Lengths, value \in Values :
        /\ triggered' = IsTriggered(offset, length)
        /\ writer' = IF triggered' THEN writer
                     ELSE [writer EXCEPT ![w] = [pc |-> "write", offset |-> offset, length |-> length, value |-> value]]
  BY DEF CheckWrite
<1>2. UNCHANGED <<volume, host, data, opened>> /\ volume # Closed
  BY DEF CheckWrite
<1>3. triggered' \in BOOLEAN
  BY <1>1, Zenon DEF IsTriggered, IInv, TypeOK
<1>4. offset \in Nat /\ length \in Nat /\ volume.offset + offset \in Nat
  BY DEF IInv, TypeOK
<1>5. TypeOK'
  BY <1>1, <1>2, <1>3, <1>4 DEF IInv, TypeOK
<1>6. CASE triggered'
  BY <1>1, <1>2, <1>5, <1>6 DEF IInv, ProtectedOK, ClosedOK, HiddenVolumeIntact, HiddenBytes
<1>7. CASE ~triggered'
  <2>1. volume.protection = "hidden" => ~OverlapsProtectedRange(volume.offset + offset, length)
    BY <1>1, <1>7, Zenon DEF IsTriggered
  <2>2. volume.protection = "hidden" => Range(volume.offset + offset, length) \cap Range(HiddenOffset, HiddenSize) = {}
    BY <1>4, <2>1, PassingIsDisjoint DEF IInv, TypeOK, ProtectedOK
  <2>3. writer' = [writer EXCEPT ![w] = [pc |-> "write", offset |-> offset, length |-> length, value |-> value]]
    BY <1>1, <1>7
  <2>4. ProtectedOK'
    BY <1>2, <2>2, <2>3 DEF IInv, TypeOK, ProtectedOK
  <2> QED
    BY <1>2, <1>5, <2>4 DEF IInv, ClosedOK, HiddenVolumeIntact, HiddenBytes
<1> QED
  BY <1>6, <1>7

(* The write itself changes bytes of its own range only.                    *)
LEMMA WriteSectorsInv ==
  ASSUME IInv, NEW w \in Writers, WriteSectors(w)
  PROVE  IInv'
<1> USE SizesAssumption
<1> DEFINE first == volume.offset + writer[w].offset
<1>1. /\ writer[w].pc = "write" /\ writer' = [writer EXCEPT ![w] = Idle]
      /\ host' = [b \in Host |-> IF b \in Range(first, writer[w].length)
                                 THEN Cell(writer[w].value, Layer(volume.type, Sector(b))) ELSE host[b]]
      /\ UNCHANGED <<volume, triggered, opened>>
  BY DEF WriteSectors
<1>2. TypeOK'
  BY <1>1 DEF IInv, TypeOK, Idle
<1>3. ProtectedOK'
  BY <1>1 DEF IInv, TypeOK, ProtectedOK, Idle
<1>4. ClosedOK'
  BY <1>1 DEF IInv, TypeOK, ClosedOK
<1>5. HiddenVolumeIntact'
  <2> SUFFICES ASSUME volume.protection = "hidden" PROVE HiddenBytes' = opened
    BY <1>1 DEF HiddenVolumeIntact
  <2>1. Range(first, writer[w].length) \cap Range(HiddenOffset, HiddenSize) = {}
    BY <1>1 DEF IInv, ProtectedOK
  <2>2. \A b \in Hidden : host'[b] = host[b]
    BY <1>1, <2>1 DEF Hidden
  <2>3. HiddenBytes' = HiddenBytes
    BY <2>2 DEF HiddenBytes, Hidden, Host
  <2> QED
    BY <2>3 DEF IInv, HiddenVolumeIntact
<1> QED
  BY <1>2, <1>3, <1>4, <1>5 DEF IInv

LEMMA StepInv == IInv /\ [Next]_vars => IInv'
<1> SUFFICES ASSUME IInv, [Next]_vars PROVE IInv'
  OBVIOUS
<1>1. CASE OpenOuter \/ OpenHidden \/ OpenSystem
  BY <1>1, OpenInv
<1>2. CASE Close
  BY <1>2, CloseInv
<1>3. CASE \E w \in Writers : CheckWrite(w)
  BY <1>3, CheckWriteInv
<1>4. CASE \E w \in Writers : WriteSectors(w)
  BY <1>4, WriteSectorsInv
<1>5. CASE UNCHANGED vars
  BY <1>5 DEF vars, IInv, TypeOK, ProtectedOK, ClosedOK, HiddenVolumeIntact, HiddenBytes, Hidden, Host
<1> QED
  BY <1>1, <1>2, <1>3, <1>4, <1>5 DEF Next

LEMMA Invariance == Spec => []IInv
<1>1. Init => IInv
  BY InitInv
<1>2. IInv /\ [Next]_vars => IInv'
  BY StepInv
<1> QED
  BY <1>1, <1>2, PTL DEF Spec

-----------------------------------------------------------------------------

(* Type correctness of VolumeAccess.                                        *)
THEOREM VolumeTypeCorrect == Spec => []TypeOK
<1>1. IInv => TypeOK
  BY DEF IInv
<1> QED
  BY <1>1, Invariance, PTL

(* No byte of a protected hidden volume changes.                            *)
THEOREM HiddenVolumeProtected == Spec => []HiddenVolumeIntact
<1>1. IInv => HiddenVolumeIntact
  BY DEF IInv
<1> QED
  BY <1>1, Invariance, PTL

(* After a denied write, only the writes under way still end.               *)
THEOREM DeniedWriteEndsWriting == Spec => DeniedWritesEndWriting
<1> DEFINE A == triggered => \A w \in Writers : writer'[w] \in {writer[w], Idle}
<1>1. TypeOK /\ [Next]_vars => [A]_vars
  <2> SUFFICES ASSUME TypeOK, Next, triggered, NEW w \in Writers
               PROVE  writer'[w] \in {writer[w], Idle}
    OBVIOUS
  <2>1. CASE OpenOuter \/ OpenHidden \/ OpenSystem \/ Close
    BY <2>1 DEF OpenOuter, OpenHidden, OpenSystem, Opens, Close
  <2>2. CASE \E u \in Writers : CheckWrite(u)
    <3>1. writer' = writer
      BY <2>2, Zenon DEF CheckWrite, IsTriggered
    <3> QED
      BY <3>1
  <2>3. CASE \E u \in Writers : WriteSectors(u)
    BY <2>3 DEF WriteSectors, TypeOK
  <2> QED
    BY <2>1, <2>2, <2>3 DEF Next
<1> QED
  BY <1>1, VolumeTypeCorrect, PTL DEF Spec, DeniedWritesEndWriting

-----------------------------------------------------------------------------
(* Sectors.                                                                *)

Multiple(n) == n \in Nat /\ n % SectorSize = 0

LEMMA DivMod ==
  ASSUME NEW n \in Nat
  PROVE  /\ Sector(n) \in Nat /\ n % SectorSize \in 0 .. SectorSize - 1
         /\ n = SectorSize * Sector(n) + (n % SectorSize)
  BY SizesAssumption DEF Sector

LEMMA ModIs ==
  ASSUME NEW k \in Nat, NEW r \in 0 .. SectorSize - 1
  PROVE  /\ (SectorSize * k + r) \in Nat
         /\ (SectorSize * k + r) % SectorSize = r /\ Sector(SectorSize * k + r) = k
  BY SizesAssumption DEF Sector

LEMMA MultipleIs ==
  ASSUME NEW n
  PROVE  Multiple(n) <=> \E k \in Nat : n = SectorSize * k
<1>1. ASSUME Multiple(n) PROVE \E k \in Nat : n = SectorSize * k
  <2>1. n = SectorSize * Sector(n) + 0 /\ Sector(n) \in Nat
    BY <1>1, DivMod DEF Multiple
  <2>2. SectorSize * Sector(n) \in Nat
    BY <2>1, SizesAssumption
  <2> QED
    BY <2>1, <2>2
<1>2. ASSUME NEW k \in Nat, n = SectorSize * k PROVE Multiple(n)
  <2>1. SectorSize * k \in Nat /\ 0 \in 0 .. SectorSize - 1
    BY SizesAssumption
  <2>2. n \in Nat /\ n + 0 = n
    BY <1>2, <2>1
  <2>3. n = SectorSize * k + 0
    BY <1>2, <2>1
  <2>4. n % SectorSize = 0
    BY <2>1, <2>3, ModIs
  <2> QED
    BY <2>2, <2>4 DEF Multiple
<1> QED
  BY <1>1, <1>2

LEMMA MultiplesAdd ==
  ASSUME NEW m, NEW n, Multiple(m), Multiple(n)
  PROVE  Multiple(m + n)
<1>1. PICK j \in Nat : m = SectorSize * j
  BY MultipleIs
<1>2. PICK k \in Nat : n = SectorSize * k
  BY MultipleIs
<1>3. m + n = SectorSize * (j + k) /\ j + k \in Nat
  BY <1>1, <1>2, SizesAssumption
<1> QED
  BY <1>3, MultipleIs

(* Multiples that are less than a sector apart are in order.               *)
LEMMA MultiplesOrder ==
  ASSUME NEW m, NEW n, Multiple(m), Multiple(n), m < n + SectorSize
  PROVE  m <= n
<1>1. PICK j \in Nat : m = SectorSize * j
  BY MultipleIs
<1>2. PICK k \in Nat : n = SectorSize * k
  BY MultipleIs
<1>3. SectorSize * j < SectorSize * k + SectorSize
  BY <1>1, <1>2
<1>4. j <= k
  BY <1>3, SizesAssumption
<1>5. SectorSize * j <= SectorSize * k
  BY <1>4, SizesAssumption
<1> QED
  BY <1>1, <1>2, <1>5

(* Rounding gives the least multiple that is not less.                     *)
LEMMA RoundedUpIs ==
  ASSUME NEW n \in Nat
  PROVE  /\ Multiple(RoundedUp(n)) /\ n <= RoundedUp(n) /\ RoundedUp(n) < n + SectorSize
<1> DEFINE r == n % SectorSize
           k == Sector(n)
<1>1. k \in Nat /\ r \in 0 .. SectorSize - 1 /\ n = SectorSize * k + r
  BY DivMod
<1>2. SectorSize \in Nat \ {0} /\ SectorSize * k \in Nat
  BY <1>1, SizesAssumption
<1>3. CASE r = 0
  <2>1. (SectorSize - r) % SectorSize = 0
    <3>1. SectorSize - r = SectorSize * 1 + 0 /\ 0 \in 0 .. SectorSize - 1
      BY <1>2, <1>3
    <3> QED
      BY <3>1, ModIs
  <2>2. RoundedUp(n) = n
    BY <2>1 DEF RoundedUp
  <2> QED
    BY <1>2, <1>3, <2>2 DEF Multiple
<1>4. CASE r # 0
  <2>1. (SectorSize - r) % SectorSize = SectorSize - r
    <3> DEFINE q == SectorSize - r
    <3>1. q \in 0 .. SectorSize - 1
      BY <1>1, <1>2, <1>4
    <3> HIDE DEF q
    <3>2. q = SectorSize * 0 + q /\ 0 \in Nat
      BY <1>2, <3>1
    <3>3. q % SectorSize = q
      BY <3>1, <3>2, ModIs
    <3> QED
      BY <3>3 DEF q
  <2>2. RoundedUp(n) = n + (SectorSize - r)
    BY <2>1 DEF RoundedUp
  <2>3. RoundedUp(n) = SectorSize * (k + 1)
    <3> HIDE DEF k, r
    <3>1. SectorSize * (k + 1) = SectorSize * k + SectorSize
      BY <1>1, <1>2
    <3> QED
      BY <1>1, <1>2, <2>2, <3>1
  <2>4. Multiple(RoundedUp(n))
    BY <1>1, <2>3, MultipleIs
  <2> QED
    BY <1>1, <1>2, <1>4, <2>2, <2>4
<1> QED
  BY <1>3, <1>4

(* The start of the sector of a byte.                                      *)
LEMMA AlignedDown ==
  ASSUME NEW n \in Nat
  PROVE  /\ Multiple(n - (n % SectorSize)) /\ n - (n % SectorSize) <= n
         /\ n < n - (n % SectorSize) + SectorSize
<1>1. Sector(n) \in Nat /\ n % SectorSize \in 0 .. SectorSize - 1
      /\ n = SectorSize * Sector(n) + (n % SectorSize)
  BY DivMod
<1>2. SectorSize * Sector(n) \in Nat /\ SectorSize \in Nat
  BY <1>1, SizesAssumption
<1>3. n - (n % SectorSize) = SectorSize * Sector(n)
  BY <1>1, <1>2
<1>4. Multiple(SectorSize * Sector(n))
  BY <1>1, MultipleIs
<1>5. SectorSize * Sector(n) <= n /\ n < SectorSize * Sector(n) + SectorSize
  BY <1>1, <1>2
<1> QED
  BY <1>3, <1>4, <1>5

(* The first sector.                                                       *)
LEMMA FirstSector ==
  ASSUME NEW n \in Nat
  PROVE  /\ n < SectorSize <=> Sector(n) = 0
         /\ Multiple(n) /\ n < SectorSize => n = 0
<1>1. Sector(n) \in Nat /\ n % SectorSize \in 0 .. SectorSize - 1
      /\ n = SectorSize * Sector(n) + (n % SectorSize)
  BY DivMod
<1>2. CASE Sector(n) = 0
  BY <1>1, <1>2, SizesAssumption DEF Multiple
<1>3. CASE Sector(n) # 0
  <2>1. SectorSize * Sector(n) >= SectorSize
    BY <1>1, <1>3, SizesAssumption
  <2>2. SectorSize * Sector(n) \in Nat /\ SectorSize \in Nat
    BY <1>1, SizesAssumption
  <2> QED
    BY <1>1, <1>3, <2>1, <2>2
<1> QED
  BY <1>2, <1>3

-----------------------------------------------------------------------------
(* What is read.                                                           *)

VolumeType ==
  volume \in [type : {"none", "outer", "hidden", "system"},
              protection : {"none", "readonly", "hidden"}, offset : Nat, size : Nat,
              encrypted : Nat, partial : BOOLEAN, start : Nat, end : Nat]

(* A file is encrypted in all its sectors; a partition has the layer of the *)
(* system or none, and its first sector one of them as a whole.            *)
FileHost ==
  /\ \A b \in Host : host[b].layer \in {Layer("outer", Sector(b)), Layer("hidden", Sector(b))}
  /\ host[HostSize - 1].layer = Layer("outer", Sector(HostSize - 1))
PartitionHost ==
  /\ \A b \in Host : host[b].layer \in {Layer("system", Sector(b)), Clear}
  /\ \A b \in Host : Sector(b) = 0 => (host[b].layer = Clear <=> host[0].layer = Clear)

(* An open volume lies on whole sectors of a host of its kind.             *)
OpenFile ==
  /\ FileHost /\ ~volume.partial /\ volume.type \in {"outer", "hidden"}
  /\ volume.type = "hidden" => volume.offset + volume.size < HostSize
OpenPartition ==
  /\ PartitionHost /\ volume.type = "system"
  /\ volume.offset = 0 /\ volume.size = HostSize
  /\ Multiple(volume.encrypted) /\ volume.encrypted # 0
  /\ volume.partial => volume.protection = "readonly"
  /\ ~volume.partial => HostSize <= volume.encrypted
  /\ \A b \in Host : Sector(b) # 0 => (host[b].layer # Clear <=> b < volume.encrypted)

HostInv == DOMAIN host = Host /\ (FileHost \/ PartitionHost)

GeometryInv ==
  volume # Closed =>
    /\ Multiple(volume.offset) /\ Multiple(volume.size)
    /\ volume.offset + volume.size <= HostSize
    /\ OpenFile \/ OpenPartition

(* A write under way is of whole sectors in the volume.                    *)
WriterInv ==
  \A w \in Writers : writer[w].pc = "write" =>
    /\ Multiple(writer[w].offset) /\ Multiple(writer[w].length)
    /\ writer[w].offset + writer[w].length <= volume.size
    /\ volume.protection # "readonly"

(* What the volume contains is what its own key and sectors make of the host. *)
DataInv == volume # Closed => data = Contents(volume)

ReadInv == TypeOK /\ ClosedOK /\ VolumeType /\ HostInv /\ GeometryInv /\ WriterInv /\ DataInv

LEMMA LayersDiffer ==
  ASSUME NEW m, NEW n
  PROVE  /\ Layer("outer", m) # Clear /\ Layer("hidden", m) # Clear /\ Layer("system", m) # Clear
         /\ Layer("outer", m) # Layer("system", n) /\ Layer("outer", m) # Layer("hidden", n)
         /\ Layer("hidden", m) # Layer("system", n)
  BY DEF Layer, Clear

LEMMA HostIsNotEmpty == HostSize \in Nat \ {0} /\ 0 \in Host /\ HostSize - 1 \in Host
  BY SizesAssumption, LayoutAssumption DEF Host

LEMMA SizesAreMultiples ==
  /\ Multiple(HostSize) /\ Multiple(OuterOffset) /\ Multiple(OuterSize)
  /\ Multiple(HiddenOffset) /\ Multiple(HiddenSize) /\ Multiple(0)
  /\ \A n \in EncryptedSizes : Multiple(n)
<1>1. Multiple(0)
  <2>1. SectorSize * 0 = 0
    BY SizesAssumption
  <2> QED
    BY <2>1, MultipleIs
<1> QED
  BY <1>1, LayoutAssumption DEF Multiple

LEMMA FileOrPartition == ~(FileHost /\ PartitionHost)
  BY HostIsNotEmpty, LayersDiffer DEF FileHost, PartitionHost

LEMMA ContainerIsFileHost ==
  ASSUME host = Container
  PROVE  FileHost
<1>1. \A b \in Host : host[b].layer = Layer(IF b \in Hidden THEN "hidden" ELSE "outer", Sector(b))
  BY DEF Container, Cell
<1>2. HostSize - 1 \notin Hidden
  BY SizesAssumption, LayoutAssumption DEF Hidden, Range
<1>3. host[HostSize - 1].layer = Layer("outer", Sector(HostSize - 1))
  BY <1>1, <1>2, HostIsNotEmpty
<1> QED
  BY <1>1, <1>3 DEF FileHost

LEMMA PartitionIsPartitionHost ==
  ASSUME NEW encrypted \in EncryptedSizes, NEW repaired \in BOOLEAN,
         host = Partition(encrypted, repaired)
  PROVE  PartitionHost
<1>1. \A b \in Host : host[b].layer = IF b < encrypted /\ (repaired => Sector(b) # 0)
                                      THEN Layer("system", Sector(b)) ELSE Clear
  BY DEF Partition, Cell
<1>2. ASSUME NEW b \in Host, Sector(b) = 0
      PROVE  host[b].layer = Clear <=> host[0].layer = Clear
  <2>1. b \in Nat /\ b < SectorSize /\ Sector(0) = 0 /\ SectorSize \in Nat
    BY <1>2, FirstSector, SizesAssumption, HostIsNotEmpty DEF Host
  <2>2. Multiple(encrypted) /\ encrypted \in Nat
    BY SizesAreMultiples DEF Multiple
  <2>3. encrypted < SectorSize => encrypted = 0
    BY <2>2, FirstSector
  <2>4. b < encrypted <=> 0 < encrypted
    BY <2>1, <2>2, <2>3
  <2>5. host[b].layer = Clear <=> ~(b < encrypted /\ ~repaired)
    BY <1>1, <1>2, LayersDiffer
  <2>6. host[0].layer = Clear <=> ~(0 < encrypted /\ ~repaired)
    BY <1>1, <2>1, LayersDiffer, HostIsNotEmpty
  <2> QED
    BY <2>4, <2>5, <2>6
<1> QED
  BY <1>1, <1>2 DEF PartitionHost

LEMMA RInit == Init => ReadInv
<1> SUFFICES ASSUME Init PROVE ReadInv
  OBVIOUS
<1>1. volume = Closed /\ \A w \in Writers : writer[w] = Idle
  BY DEF Init
<1>2. TypeOK /\ ClosedOK
  BY InitInv DEF IInv
<1>3. VolumeType
  BY <1>1 DEF VolumeType, Closed
<1>4. FileHost \/ PartitionHost
  BY ContainerIsFileHost, PartitionIsPartitionHost DEF Init
<1> QED
  BY <1>1, <1>2, <1>3, <1>4 DEF ReadInv, TypeOK, HostInv, GeometryInv, WriterInv, DataInv, Idle

(* Opening, by the fields of the volume that is opened.                    *)
LEMMA OpensKeeps ==
  ASSUME ReadInv, volume = Closed, data' = Contents(volume)', UNCHANGED <<host, writer>>,
         TypeOK', VolumeType', volume' # Closed,
         Multiple(volume'.offset), Multiple(volume'.size),
         volume'.offset + volume'.size <= HostSize, OpenFile' \/ OpenPartition'
  PROVE  ReadInv'
<1>1. \A w \in Writers : writer'[w] = Idle
  BY DEF ReadInv, ClosedOK
<1>2. HostInv'
  BY DEF ReadInv, HostInv, FileHost, PartitionHost
<1>3. GeometryInv'
  BY DEF GeometryInv, Multiple
<1>4. WriterInv'
  BY <1>1 DEF WriterInv, Idle
<1>5. DataInv'
  BY DEF DataInv
<1> QED
  BY <1>1, <1>2, <1>3, <1>4, <1>5 DEF ReadInv, ClosedOK

LEMMA OpensGives ==
  ASSUME NEW v, Opens(v)
  PROVE  /\ volume = Closed /\ volume' = v /\ data' = Contents(volume)'
         /\ UNCHANGED <<host, writer>>
  BY DEF Opens, Contents


LEMMA ContainerHost ==
  ASSUME ReadInv
  PROVE  /\ IsContainer => FileHost
         /\ ~IsContainer => PartitionHost
  BY HostIsNotEmpty, LayersDiffer DEF ReadInv, HostInv, FileHost, PartitionHost, IsContainer

LEMMA ROpenOuter ==
  ASSUME ReadInv, OpenOuter, TypeOK'
  PROVE  ReadInv'
<1> PICK protection \in {"none", "readonly", "hidden"} :
      Opens([Closed EXCEPT !.type = "outer", !.protection = protection,
                           !.offset = OuterOffset, !.size = OuterSize, !.encrypted = OuterSize,
                           !.start = IF protection = "hidden" THEN HiddenOffset ELSE 0,
                           !.end = IF protection = "hidden" THEN HiddenOffset + HiddenSize ELSE 0])
  BY DEF OpenOuter
<1> DEFINE first == IF protection = "hidden" THEN HiddenOffset ELSE 0
           last == IF protection = "hidden" THEN HiddenOffset + HiddenSize ELSE 0
           v == [Closed EXCEPT !.type = "outer", !.protection = protection,
                               !.offset = OuterOffset, !.size = OuterSize,
                               !.encrypted = OuterSize, !.start = first, !.end = last]
<1>1. /\ volume = Closed /\ volume' = v /\ data' = Contents(volume)'
      /\ UNCHANGED <<host, writer>>
  BY OpensGives
<1>2. first \in Nat /\ last \in Nat /\ OuterOffset \in Nat /\ OuterSize \in Nat
  BY SizesAssumption
<1> HIDE DEF first, last
<1>3. VolumeType'
  BY <1>1, <1>2 DEF VolumeType, Closed
<1>4. volume' # Closed
  BY <1>1 DEF Closed
<1>5. FileHost
  BY ContainerHost DEF OpenOuter
<1>6. OpenFile'
  BY <1>1, <1>5 DEF OpenFile, FileHost, Closed
<1> QED
  BY <1>1, <1>3, <1>4, <1>6, SizesAreMultiples, LayoutAssumption, OpensKeeps DEF Closed

LEMMA ROpenHidden ==
  ASSUME ReadInv, OpenHidden, TypeOK'
  PROVE  ReadInv'
<1> PICK protection \in {"none", "readonly"} :
      Opens([Closed EXCEPT !.type = "hidden", !.protection = protection,
                           !.offset = HiddenOffset, !.size = HiddenSize, !.encrypted = HiddenSize])
  BY DEF OpenHidden
<1> DEFINE v == [Closed EXCEPT !.type = "hidden", !.protection = protection,
                               !.offset = HiddenOffset, !.size = HiddenSize,
                               !.encrypted = HiddenSize]
<1>1. /\ volume = Closed /\ volume' = v /\ data' = Contents(volume)'
      /\ UNCHANGED <<host, writer>>
  BY OpensGives
<1>2. VolumeType'
  BY <1>1, SizesAssumption DEF VolumeType, Closed
<1>3. volume' # Closed
  BY <1>1 DEF Closed
<1>4. FileHost
  BY ContainerHost DEF OpenHidden
<1>5. HiddenOffset + HiddenSize < HostSize /\ HiddenOffset + HiddenSize <= HostSize
  BY SizesAssumption, LayoutAssumption
<1>6. OpenFile'
  BY <1>1, <1>4, <1>5 DEF OpenFile, FileHost, Closed
<1> QED
  BY <1>1, <1>2, <1>3, <1>5, <1>6, SizesAreMultiples, OpensKeeps DEF Closed

LEMMA ROpenSystem ==
  ASSUME ReadInv, OpenSystem, TypeOK'
  PROVE  ReadInv'
<1> PICK encrypted \in EncryptedSizes \ {0}, partial \in BOOLEAN,
         protection \in {"none", "readonly"} :
      /\ encrypted < HostSize => partial
      /\ \A b \in Host : Sector(b) # 0 => (host[b].layer # Clear <=> b < encrypted)
      /\ Opens([Closed EXCEPT !.type = "system",
                              !.protection = SystemProtection(partial, protection),
                              !.size = HostSize, !.encrypted = encrypted, !.partial = partial])
  BY DEF OpenSystem
<1> DEFINE p == SystemProtection(partial, protection)
           v == [Closed EXCEPT !.type = "system", !.protection = p, !.size = HostSize,
                               !.encrypted = encrypted, !.partial = partial]
<1>1. p \in {"none", "readonly"} /\ (partial => p = "readonly")
  BY DEF SystemProtection
<1>2. /\ volume = Closed /\ volume' = v /\ data' = Contents(volume)'
      /\ UNCHANGED <<host, writer>>
  BY OpensGives
<1> HIDE DEF p
<1>3. Multiple(encrypted) /\ encrypted \in Nat /\ encrypted # 0 /\ HostSize \in Nat
  BY SizesAreMultiples, SizesAssumption DEF Multiple
<1>4. VolumeType'
  BY <1>1, <1>2, <1>3 DEF VolumeType, Closed
<1>5. volume' # Closed
  BY <1>2 DEF Closed
<1>6. PartitionHost
  BY ContainerHost DEF OpenSystem
<1>7. PartitionHost'
  BY <1>2, <1>6 DEF PartitionHost
<1>8. Multiple(volume.encrypted)'
  BY <1>2, <1>3 DEF Multiple, Closed
<1>9. OpenPartition'
  <2>1. ~partial => HostSize <= encrypted
    BY <1>3
  <2> QED
    BY <1>1, <1>2, <1>3, <1>7, <1>8, <2>1 DEF OpenPartition, Closed
<1> QED
  BY <1>2, <1>3, <1>4, <1>5, <1>9, SizesAreMultiples, OpensKeeps DEF Closed

LEMMA RClose ==
  ASSUME ReadInv, Close
  PROVE  ReadInv'
<1>1. volume' = Closed /\ triggered' = FALSE /\ UNCHANGED <<host, writer>>
      /\ \A w \in Writers : writer[w] = Idle
  BY DEF Close
<1>2. TypeOK'
  BY <1>1 DEF ReadInv, TypeOK, Closed
<1>3. HostInv'
  BY <1>1 DEF ReadInv, HostInv, FileHost, PartitionHost
<1> QED
  BY <1>1, <1>2, <1>3 DEF ReadInv, ClosedOK, VolumeType, Closed, GeometryInv, WriterInv, DataInv, Idle

LEMMA RCheckWrite ==
  ASSUME ReadInv, NEW w \in Writers, CheckWrite(w), TypeOK'
  PROVE  ReadInv'
<1>1. PICK offset \in 0..volume.size, length \in Lengths, value \in Values :
        /\ ~Refused(offset, length)
        /\ writer' = IF triggered' THEN writer
                     ELSE [writer EXCEPT ![w] = [pc |-> "write", offset |-> offset,
                                                 length |-> length, value |-> value]]
  BY DEF CheckWrite
<1>2. UNCHANGED <<volume, host, data>> /\ volume # Closed
  BY DEF CheckWrite
<1>3. offset \in Nat /\ length \in Nat
  BY SizesAssumption DEF ReadInv, TypeOK
<1>4. /\ Multiple(offset) /\ Multiple(length) /\ offset + length <= volume.size
      /\ volume.protection # "readonly"
  BY <1>1, <1>3 DEF Refused, Multiple, ReadInv, TypeOK
<1>5. WriterInv'
  BY <1>1, <1>2, <1>4 DEF ReadInv, TypeOK, WriterInv, Multiple
<1>6. HostInv' /\ GeometryInv' /\ VolumeType'
  BY <1>2 DEF ReadInv, HostInv, GeometryInv, OpenFile, OpenPartition, FileHost, PartitionHost, Multiple,
              VolumeType
<1>7. DataInv'
  BY <1>2 DEF ReadInv, DataInv, Contents
<1> QED
  BY <1>2, <1>5, <1>6, <1>7 DEF ReadInv, ClosedOK

(* A write of whole sectors has all of the first sector or nothing of it.  *)
LEMMA WritesFirstSector ==
  ASSUME NEW first, NEW length, Multiple(first), Multiple(length),
         NEW b \in Nat, Sector(b) = 0
  PROVE  b \in Range(first, length) <=> 0 \in Range(first, length)
<1>1. b < SectorSize /\ first \in Nat /\ length \in Nat /\ SectorSize \in Nat \ {0}
  BY FirstSector, SizesAssumption DEF Multiple
<1>2. /\ first < SectorSize => first = 0
      /\ length < SectorSize => length = 0
  BY <1>1, FirstSector
<1> QED
  BY <1>1, <1>2 DEF Range

LEMMA RWriteSectors ==
  ASSUME ReadInv, NEW w \in Writers, WriteSectors(w), TypeOK'
  PROVE  ReadInv'
<1> DEFINE o == writer[w].offset
           length == writer[w].length
           value == writer[w].value
           first == volume.offset + o
           R == Range(first, length)
<1>1. /\ writer[w].pc = "write" /\ writer' = [writer EXCEPT ![w] = Idle]
      /\ UNCHANGED volume
  BY DEF WriteSectors
<1>2. host' = [b \in Host |-> IF b \in R THEN Cell(value, Layer(volume.type, Sector(b))) ELSE host[b]]
  BY DEF WriteSectors
<1>3. data' = [b \in Host |-> IF b \in Range(o, length) THEN value ELSE data[b]]
  BY DEF WriteSectors
<1>4. volume # Closed
  BY <1>1 DEF ReadInv, ClosedOK, Idle
<1>5. /\ Multiple(o) /\ Multiple(length) /\ o + length <= volume.size
      /\ volume.protection # "readonly"
  BY <1>1 DEF ReadInv, WriterInv
<1>6. /\ Multiple(volume.offset) /\ Multiple(volume.size)
      /\ volume.offset + volume.size <= HostSize
      /\ OpenFile \/ OpenPartition
  BY <1>4 DEF ReadInv, GeometryInv
<1>7. o \in Nat /\ length \in Nat /\ volume.offset \in Nat /\ volume.size \in Nat
      /\ HostSize \in Nat
  BY <1>5, <1>6, SizesAssumption DEF Multiple
<1>8. Multiple(first)
  BY <1>5, <1>6, MultiplesAdd
<1> HIDE DEF o, length, value
<1>9. \A b \in Host : host'[b] = IF b \in R THEN Cell(value, Layer(volume.type, Sector(b))) ELSE host[b]
  BY <1>2
<1>10. /\ \A b \in Host : b \in R => /\ host'[b].layer = Layer(volume.type, Sector(b))
                                     /\ host'[b].value = value
       /\ \A b \in Host : b \notin R => host'[b] = host[b]
  <2>1. ASSUME NEW b \in Host, b \in R
        PROVE  host'[b].layer = Layer(volume.type, Sector(b)) /\ host'[b].value = value
    <3>1. host'[b] = Cell(value, Layer(volume.type, Sector(b)))
      BY <1>9, <2>1
    <3> QED
      BY <3>1 DEF Cell
  <2> QED
    BY <1>9, <2>1
<1>11. DOMAIN host' = Host
  BY <1>2
<1>12. ASSUME OpenFile PROVE OpenFile'
  <2>1. HostSize - 1 \in R => volume.type = "outer"
    BY <1>5, <1>7, <1>12 DEF OpenFile, Range
  <2>2. host'[HostSize - 1].layer = Layer("outer", Sector(HostSize - 1))
    BY <1>10, <1>12, <2>1, HostIsNotEmpty DEF OpenFile, FileHost
  <2>3. FileHost'
    BY <1>10, <1>12, <2>2 DEF OpenFile, FileHost
  <2> QED
    BY <1>1, <1>12, <2>3 DEF OpenFile
<1>13. ASSUME OpenPartition PROVE OpenPartition'
  <2>1. ~volume.partial /\ HostSize <= volume.encrypted /\ PartitionHost /\ volume.type = "system"
    BY <1>5, <1>13 DEF OpenPartition
  <2>2. \A b \in Host : host'[b].layer \in {Layer("system", Sector(b)), Clear}
    BY <1>10, <2>1 DEF PartitionHost
  <2>3. ASSUME NEW b \in Host, Sector(b) = 0
        PROVE  host'[b].layer = Clear <=> host'[0].layer = Clear
    <3>1. b \in R <=> 0 \in R
      BY <1>5, <1>8, <2>3, WritesFirstSector DEF Host
    <3>2. host[b].layer = Clear <=> host[0].layer = Clear
      BY <2>1, <2>3 DEF PartitionHost
    <3> QED
      BY <1>10, <2>1, <3>1, <3>2, HostIsNotEmpty, LayersDiffer
  <2>4. ASSUME NEW b \in Host, Sector(b) # 0
        PROVE  host'[b].layer # Clear <=> b < volume.encrypted
    <3>1. b < volume.encrypted
      BY <1>7, <1>13, <2>1 DEF Host, OpenPartition, Multiple
    <3>2. host[b].layer # Clear
      BY <1>13, <2>4, <3>1 DEF OpenPartition
    <3> QED
      BY <1>10, <2>1, <3>1, <3>2, LayersDiffer
  <2>5. PartitionHost'
    BY <2>2, <2>3 DEF PartitionHost
  <2>6. \A b \in Host : Sector(b) # 0 => (host'[b].layer # Clear <=> b < volume'.encrypted)
    BY <1>1, <2>4
  <2> QED
    BY <1>1, <1>13, <2>5, <2>6 DEF OpenPartition, Multiple
<1>14. HostInv' /\ GeometryInv'
  <2>1. OpenFile' \/ OpenPartition'
    BY <1>6, <1>12, <1>13
  <2>2. FileHost' \/ PartitionHost'
    BY <2>1 DEF OpenFile, OpenPartition
  <2> QED
    BY <1>1, <1>6, <1>11, <2>1, <2>2 DEF HostInv, GeometryInv, Multiple
<1>15. WriterInv'
  BY <1>1 DEF ReadInv, TypeOK, WriterInv, Multiple, Idle
<1>16. DataInv'
  <2>1. data = Contents(volume)
    BY <1>4 DEF ReadInv, DataInv
  <2>2. ASSUME NEW b \in Host
        PROVE  data'[b] = Contents(volume)'[b]
    <3>1. b \in Nat
      BY DEF Host
    <3>2. CASE b >= volume.size
      <4>1. b \notin Range(o, length)
        BY <1>5, <1>7, <3>1, <3>2 DEF Range
      <4>2. data'[b] = data[b] /\ data[b] = Garbage
        BY <1>3, <2>1, <3>2, <4>1 DEF Contents
      <4> QED
        BY <1>1, <3>2, <4>2 DEF Contents
    <3>3. CASE ~(b >= volume.size)
      <4> DEFINE h == volume.offset + b
      <4>1. h \in Host
        BY <1>6, <1>7, <3>1, <3>3 DEF Host
      <4>2. b \in Range(o, length) <=> h \in R
        BY <1>7, <3>1 DEF Range
      <4>3. Contents(volume)[b] = IF host[h].layer \in {Clear, Layer(volume.type, Sector(h))}
                                  THEN host[h].value ELSE Garbage
        BY <3>3 DEF Contents
      <4>4. Contents(volume)'[b] = IF host'[h].layer \in {Clear, Layer(volume.type, Sector(h))}
                                   THEN host'[h].value ELSE Garbage
        BY <1>1, <3>3 DEF Contents
      <4> HIDE DEF h, R
      <4>5. CASE h \in R
        BY <1>3, <1>10, <4>1, <4>2, <4>4, <4>5
      <4>6. CASE h \notin R
        BY <1>3, <1>10, <2>1, <4>1, <4>2, <4>3, <4>4, <4>6
      <4> QED
        BY <4>5, <4>6
    <3> QED
      BY <3>2, <3>3
  <2>3. Contents(volume)' = [b \in Host |-> Contents(volume)'[b]]
    BY DEF Contents
  <2>4. data' = [b \in Host |-> data'[b]]
    BY <1>3
  <2> QED
    BY <2>2, <2>3, <2>4 DEF DataInv
<1>17. VolumeType' /\ ClosedOK'
  BY <1>1, <1>4 DEF ReadInv, VolumeType, ClosedOK
<1> QED
  BY <1>14, <1>15, <1>16, <1>17 DEF ReadInv

LEMMA RStep ==
  ASSUME ReadInv, TypeOK', [Next]_vars
  PROVE  ReadInv'
<1>1. CASE UNCHANGED vars
  BY <1>1 DEF vars, ReadInv, TypeOK, ClosedOK, VolumeType, HostInv, FileHost, PartitionHost, GeometryInv,
              OpenFile, OpenPartition, WriterInv, DataInv, Contents, Multiple
<1> QED
  BY <1>1, ROpenOuter, ROpenHidden, ROpenSystem, RClose, RCheckWrite, RWriteSectors DEF Next

LEMMA RInvariance == Spec => []ReadInv
<1>1. ReadInv /\ TypeOK' /\ [Next]_vars => ReadInv'
  BY RStep
<1> QED
  BY <1>1, RInit, VolumeTypeCorrect, PTL DEF Spec

(* A byte that is read is what the host holds under the volume's own key.  *)
LEMMA ReadsContents ==
  ASSUME ReadInv, volume # Closed, NEW start, NEW length, Multiple(start),
         NEW b \in Nat, start <= b, b < start + length, b < volume.size, length \in Nat
  PROVE  ReadSectors(start, length)[b - start] = data[b]
<1> DEFINE hostOffset == volume.offset + start
           h == volume.offset + b
           own == Layer(volume.type, Sector(h))
<1>1. /\ Multiple(volume.offset) /\ Multiple(volume.size)
      /\ volume.offset + volume.size <= HostSize
      /\ OpenFile \/ OpenPartition
  BY DEF ReadInv, GeometryInv
<1>2. volume.offset \in Nat /\ volume.size \in Nat /\ start \in Nat /\ HostSize \in Nat
      /\ SectorSize \in Nat
  BY <1>1, SizesAssumption DEF Multiple
<1>3. h \in Host /\ hostOffset + (b - start) = h /\ b - start \in 0 .. length - 1 /\ b \in Host
  BY <1>1, <1>2 DEF Host
<1>4. ReadSectors(start, length)[b - start] =
        IF Decrypts(h, hostOffset)
        THEN IF host[h].layer = own THEN host[h].value ELSE Garbage
        ELSE IF host[h].layer = Clear THEN host[h].value ELSE Garbage
  BY <1>3 DEF ReadSectors
<1>5. data[b] = IF host[h].layer \in {Clear, own} THEN host[h].value ELSE Garbage
  <2>1. data = Contents(volume)
    BY DEF ReadInv, DataInv
  <2> QED
    BY <1>2, <1>3, <2>1 DEF Contents
<1>6. Decrypts(h, hostOffset) => host[h].layer # Clear
  <2>1. CASE OpenFile
    BY <1>3, <2>1, LayersDiffer DEF OpenFile, FileHost
  <2>2. CASE OpenPartition
    <3>1. CASE Sector(h) = 0
      <4>1. h < SectorSize /\ hostOffset < SectorSize /\ Multiple(hostOffset)
        BY <1>1, <1>2, <1>3, <3>1, FirstSector, MultiplesAdd DEF Host
      <4>2. hostOffset = 0
        BY <1>2, <4>1, FirstSector DEF Multiple
      <4> QED
        BY <1>2, <1>3, <2>2, <3>1, <4>1, <4>2
        DEF Decrypts, FirstSectorInClear, OpenPartition, PartitionHost, Host
    <3>2. CASE Sector(h) # 0
      <4>1. host[h].layer # Clear <=> h < volume.encrypted
        BY <1>3, <2>2, <3>2 DEF OpenPartition
      <4>2. ~volume.partial => h < volume.encrypted
        BY <1>2, <1>3, <2>2 DEF OpenPartition, Multiple, Host
      <4> QED
        BY <4>1, <4>2 DEF Decrypts
    <3> QED
      BY <3>1, <3>2
  <2> QED
    BY <1>1, <2>1, <2>2
<1>7. ~Decrypts(h, hostOffset) => host[h].layer = Clear
  <2>1. CASE OpenFile
    BY <2>1 DEF OpenFile, Decrypts, FirstSectorInClear
  <2>2. CASE OpenPartition
    <3>1. CASE Sector(h) = 0
      <4>1. h < SectorSize
        BY <1>3, <3>1, FirstSector DEF Host
      <4>2. h < volume.encrypted
        BY <1>2, <1>3, <2>2, <4>1, FirstSector DEF OpenPartition, Multiple, Host
      <4>3. FirstSectorInClear(hostOffset) => host[h].layer = Clear
        BY <1>3, <2>2, <3>1 DEF FirstSectorInClear, OpenPartition, PartitionHost
      <4> QED
        BY <4>2, <4>3 DEF Decrypts
    <3>2. CASE Sector(h) # 0
      <4>1. host[h].layer # Clear <=> h < volume.encrypted
        BY <1>3, <2>2, <3>2 DEF OpenPartition
      <4>2. h >= SectorSize
        BY <1>2, <1>3, <3>2, FirstSector DEF Host
      <4> QED
        BY <4>1, <4>2 DEF Decrypts
    <3> QED
      BY <3>1, <3>2
  <2> QED
    BY <1>1, <2>1, <2>2
<1> HIDE DEF h, own, hostOffset
<1> QED
  BY <1>4, <1>5, <1>6, <1>7, LayersDiffer

LEMMA ReadsReturn ==
  ASSUME ReadInv
  PROVE  ReadsReturnData
<1> SUFFICES ASSUME volume # Closed, NEW offset \in 0 .. volume.size, NEW asked \in 0 .. volume.size
             PROVE  LET size == IF offset + asked > volume.size THEN volume.size - offset ELSE asked
                    IN Read(offset, asked) = [i \in 0..size - 1 |-> data[offset + i]]
  BY DEF ReadsReturnData
<1> DEFINE size == IF offset + asked > volume.size THEN volume.size - offset ELSE asked
           rest == offset % SectorSize
           start == offset - rest
           length == AlignedSize(offset, size)
<1>1. /\ Multiple(volume.offset) /\ Multiple(volume.size)
      /\ volume.offset + volume.size <= HostSize
  BY DEF ReadInv, GeometryInv
<1>2. volume.offset \in Nat /\ volume.size \in Nat /\ HostSize \in Nat /\ SectorSize \in Nat
      /\ offset \in Nat /\ asked \in Nat
  BY <1>1, SizesAssumption DEF Multiple
<1>3. size \in Nat /\ offset + size <= volume.size
  BY <1>2
<1>4. rest \in 0 .. SectorSize - 1
  BY <1>2, DivMod
<1>5. Multiple(start) /\ start <= offset
  BY <1>2, AlignedDown
<1> HIDE DEF size
<1>6. length = RoundedUp(size + rest)
  BY DEF AlignedSize
<1>7. size + rest \in Nat
  BY <1>3, <1>4
<1>8. /\ Multiple(length) /\ size + rest <= length /\ length < size + rest + SectorSize
  BY <1>6, <1>7, RoundedUpIs
<1>9. start \in Nat /\ length \in Nat /\ start + rest = offset
  BY <1>2, <1>4, <1>5, <1>8 DEF Multiple
<1> HIDE DEF start, length, rest
<1>10. start + length <= volume.size
  <2>1. Multiple(start + length)
    BY <1>5, <1>8, MultiplesAdd
  <2>2. start + length < volume.size + SectorSize
    BY <1>2, <1>3, <1>4, <1>8, <1>9
  <2> QED
    BY <1>1, <2>1, <2>2, MultiplesOrder
<1>11. ~(volume.offset + start + length > HostSize)
  BY <1>1, <1>2, <1>9, <1>10
<1>12. ASSUME NEW i \in 0 .. size - 1
       PROVE  rest + i < length /\ ReadSectors(start, length)[rest + i] = data[offset + i]
  <2>1. i \in Nat /\ rest + i < length /\ offset + i \in Nat /\ start <= offset + i
        /\ offset + i < start + length /\ offset + i < volume.size
        /\ (offset + i) - start = rest + i
    BY <1>2, <1>3, <1>4, <1>8, <1>9
  <2>2. ReadSectors(start, length)[(offset + i) - start] = data[offset + i]
    BY <1>5, <1>9, <2>1, ReadsContents
  <2> QED
    BY <2>1, <2>2
<1>13. Read(offset, asked) =
         [i \in 0 .. size - 1 |->
            IF rest + i < length THEN ReadSectors(start, length)[rest + i] ELSE Garbage]
  BY <1>11 DEF Read, size, start, length, rest
<1>14. Read(offset, asked) = [i \in 0 .. size - 1 |-> data[offset + i]]
  BY <1>12, <1>13
<1> QED
  BY <1>14 DEF size

(* A read returns what the volume contains, aligned or not, at the end of   *)
(* the volume, across the end of the encrypted part of a system partition, *)
(* and over a first sector that was repaired in the clear (ReadSectors,    *)
(* fuse_service_read).                                                     *)
THEOREM ReadsAreRight == Spec => []ReadsReturnData
<1>1. ReadInv => ReadsReturnData
  BY ReadsReturn
<1> QED
  BY <1>1, RInvariance, PTL

-----------------------------------------------------------------------------
(* The parts side by side: what is proved of each holds of the whole, as a *)
(* step of one leaves the variables of the others alone.                   *)

LEMMA MountsRun == PartsSpec => Mounts!Spec
<1>1. PartsInit => Mounts!Init
  BY DEF PartsInit
<1>2. [PartsNext]_AllVars => [Mounts!Next]_(Mounts!vars)
  BY DEF PartsNext, AllVars, mmVars, Mounts!vars
<1> QED BY <1>1, <1>2, PTL DEF PartsSpec, Mounts!Spec

LEMMA InPlaceRuns == PartsSpec => InPlace!Spec
<1>1. PartsInit => InPlace!Init
  BY DEF PartsInit
<1>2. [PartsNext]_AllVars => [InPlace!Next]_(InPlace!vars)
  BY DEF PartsNext, AllVars, ipVars, InPlace!vars
<1> QED BY <1>1, <1>2, PTL DEF PartsSpec, InPlace!Spec

(* A mount with the right password is never told that the password is      *)
(* wrong, for any number of aborting threads and attempts: without the     *)
(* user's abort no derivation is cut short.                                *)
THEOREM RightPassword == PartsSpec => []RightPasswordIsNotWrong
<1>1. Mounts!Spec => []Mounts!RightPasswordIsNotWrong
  BY PartsAssumption, Mounts!RightPassword
<1> QED BY <1>1, MountsRun, PTL DEF RightPasswordIsNotWrong

(* The step that sets the user's abort flag is that of a thread which may  *)
(* abort the very mount that owns the mutex then.                          *)
THEOREM AbortsHitTheirMount == PartsSpec => AbortHitsItsMount
<1>1. Mounts!Spec => Mounts!AbortHitsItsMount
  BY PartsAssumption, Mounts!AbortsHitTheirMount
<1> QED BY <1>1, MountsRun, PTL DEF AbortHitsItsMount

(* Every queued request is on a volume whose thread serves, of the mount   *)
(* it was sent to: the remove lock counts it.                              *)
THEOREM RequestsMeet == PartsSpec => []RequestsMeetAnOpenVolume
<1>1. Mounts!Spec => []Mounts!RequestsMeetAnOpenVolume
  BY PartsAssumption, Mounts!RequestsMeet
<1> QED BY <1>1, MountsRun, PTL DEF RequestsMeetAnOpenVolume

(* Whenever the wizard of in-place encryption is not at work, each         *)
(* position that no failure has spoiled is where the header says, in the   *)
(* form it says.                                                           *)
THEOREM Resumable ==
  ASSUME InPlace!NoShortRest
  PROVE  PartsSpec => []DeviceMatchesHeader
<1>1. InPlace!Spec => []InPlace!DeviceMatchesHeader
  BY PartsAssumption, InPlace!Resumable
<1> QED BY <1>1, InPlaceRuns, PTL DEF DeviceMatchesHeader

(* A process that says it has finished has encrypted, or decrypted and     *)
(* unmasked, all of the volume, but for what failures have spoiled.        *)
THEOREM Complete ==
  ASSUME InPlace!NoShortRest
  PROVE  PartsSpec => []FinishedIsComplete
<1>1. InPlace!Spec => []InPlace!FinishedIsComplete
  BY PartsAssumption, InPlace!Complete
<1> QED BY <1>1, InPlaceRuns, PTL DEF FinishedIsComplete

(* A power failure spoils, besides the masked portion, no more than what   *)
(* is converted between two updates of the header.                         *)
THEOREM LittleIsLost ==
  ASSUME InPlace!NoShortRest
  PROVE  PartsSpec => PowerFailureCostsLittle
<1>1. InPlace!Spec => InPlace!PowerFailureCostsLittle
  BY PartsAssumption, InPlace!LittleIsLost
<1> QED BY <1>1, InPlaceRuns, PTL DEF PowerFailureCostsLittle

-----------------------------------------------------------------------------
(* The volume expander, for any number of wipe passes, failures and        *)
(* cancels.  Until the primary header is replaced the old one is whole;     *)
(* while it is being replaced the backup header at the new end is written,  *)
(* and, unless its flush failed, on the disk, so that a torn or spoiled     *)
(* primary header costs nothing.                                            *)

ExpanderPcs ==
  {"idle", "grow", "fill", "shrink", "header", "reserved", "flush", "cancel", "wipe", "flushPass",
   "extend"}

WizardType ==
  evWizard \in [pc : ExpanderPcs, device : BOOLEAN, fill : BOOLEAN, place : Expander!Places,
                hostSize : Expander!Sizes, pass : 0 .. Passes + 1, warned : BOOLEAN,
                status : {"none", "ok", "error", "abort", "power"}]

FailuresType == evFailures \in [power : Nat, access : Nat, cancel : Nat, flush : BOOLEAN]

\* Which headers are written where, and when the file system is extended.
HeadersOK ==
  /\ evDisk["newEnd"] # "old" /\ evCache["newEnd"] # "old"
  /\ evDisk["oldEnd"] # "new" /\ evCache["oldEnd"] # "new"
  /\ evCache["primary"] # "old"
  /\ evFiles = "new" => evWizard.pc = "idle" /\ evWizard.status = "ok"

ExpanderTypes ==
  /\ Expander!TypeOK /\ WizardType /\ FailuresType /\ HeadersOK
  /\ evWizard.pc \in {"wipe", "flushPass"} => evWizard.pass \in 1 .. Passes

\* The backup header is written; it is on the disk unless a flush failed.
Backup ==
  /\ evLength = "new" /\ Expander!Content("newEnd") = "new"
  /\ ~evFailures.flush => evDisk["newEnd"] = "new" /\ evCache["newEnd"] = "none"

\* The primary header is the old one; the backup header is being written, or is written.
NotReplaced ==
  /\ evDisk["primary"] = "old" /\ evCache["primary"] = "none" /\ evFiles = "old"
  /\ evWizard.pc \in {"idle", "grow", "fill", "shrink", "header", "reserved", "flush"}
  /\ evWizard.pc \in {"fill", "header", "reserved", "flush"} => evLength = "new"
  /\ evWizard.pc \in {"grow", "fill", "reserved", "flush"} => evWizard.place = "newEnd"
  /\ evWizard.pc \in {"reserved", "flush"} => evCache["newEnd"] = "new"
  /\ evWizard.pc = "header" => evWizard.place = "newEnd" \/ (evWizard.place = "primary" /\ Backup)

\* The new primary header is written.
Replacing ==
  /\ evCache["primary"] = "new" /\ evFiles = "old" /\ Backup
  /\ evWizard.pc \in {"reserved", "flush"} /\ evWizard.place = "primary"

\* The thread has ended while it replaced the primary header, which may be torn or spoiled.
Held == evFiles = "old" /\ Backup /\ evWizard.pc = "idle"

Replaced ==
  /\ Expander!Content("primary") = "new" /\ Backup
  /\ ~evFailures.flush => evDisk["primary"] = "new" /\ evCache["primary"] = "none"
  /\ evWizard.pc \in {"idle", "cancel", "wipe", "flushPass", "extend"}

\* A flush and then the power failed.
Lost == evFailures.flush /\ evFailures.power > 0 /\ evWizard.pc = "idle"

Stage == NotReplaced \/ Replacing \/ Held \/ Replaced \/ Lost

ExpanderInv == ExpanderTypes /\ Stage

LEMMA BeginExpander ==
  ASSUME ExpanderInv, Expander!Begin
  PROVE  ExpanderInv'
<1> USE DEF Expander!Begin, Expander!Idle
<1>1. ExpanderTypes /\ Passes \in Nat \ {0}
  BY PartsAssumption DEF ExpanderInv, Expander!ConstantsOK
<1>2. WizardType'
  <2>1. PICK fill \in BOOLEAN :
          evWizard' = [Expander!Idle EXCEPT !.pc = "grow", !.device = evWizard.device,
                                            !.fill = fill, !.hostSize = evLength]
    OBVIOUS
  <2>2. evWizard' = [pc |-> "grow", device |-> evWizard.device, fill |-> fill, place |->
     "newEnd",
                     hostSize |-> evLength, pass |-> 0, warned |-> FALSE, status |-> "none"]
    BY <2>1
  <2>3. /\ evWizard.device \in BOOLEAN /\ evLength \in Expander!Sizes /\ 0 \in 0 .. Passes + 1
        /\ "newEnd" \in Expander!Places /\ "grow" \in ExpanderPcs
    BY <1>1 DEF ExpanderTypes, WizardType, ExpanderPcs, Expander!TypeOK, Expander!Places
  <2> HIDE DEF Expander!Begin, Expander!Idle
  <2> QED BY <2>2, <2>3 DEF WizardType
<1>3. Expander!TypeOK'
  BY <1>1, <1>2 DEF ExpanderTypes, WizardType, FailuresType, Expander!TypeOK, Expander!Places,
     Expander!Sizes
<1>4. (evWizard.pc \in {"wipe", "flushPass"} => evWizard.pass \in 1 .. Passes)'
  BY <1>1 DEF ExpanderTypes, WizardType
<1>5. FailuresType'
  BY <1>1 DEF ExpanderTypes, FailuresType
<1>6. HeadersOK'
  BY <1>1 DEF ExpanderTypes, WizardType, FailuresType, HeadersOK, NotReplaced, Replacing, Held,
       Replaced, Lost, Backup, Expander!Content, Expander!TypeOK, Expander!Places, Expander!Sizes
<1>7. Stage'
  <2>1. CASE NotReplaced
    BY <1>1, <2>1
    DEF Stage, ExpanderTypes, WizardType, FailuresType, HeadersOK, NotReplaced, Replacing, Held,
       Replaced, Lost, Backup, Expander!Content, Expander!TypeOK, Expander!Places, Expander!Sizes
  <2>2. CASE Replacing
    BY <1>1, <2>2
    DEF Stage, ExpanderTypes, WizardType, FailuresType, HeadersOK, NotReplaced, Replacing, Held,
       Replaced, Lost, Backup, Expander!Content, Expander!TypeOK, Expander!Places, Expander!Sizes
  <2>3. CASE Held
    BY <1>1, <2>3
    DEF Stage, ExpanderTypes, WizardType, FailuresType, HeadersOK, NotReplaced, Replacing, Held,
       Replaced, Lost, Backup, Expander!Content, Expander!TypeOK, Expander!Places, Expander!Sizes
  <2>4. CASE Replaced
    BY <1>1, <2>4
    DEF Stage, ExpanderTypes, WizardType, FailuresType, HeadersOK, NotReplaced, Replacing, Held,
       Replaced, Lost, Backup, Expander!Content, Expander!TypeOK, Expander!Places, Expander!Sizes
  <2>5. CASE Lost
    BY <1>1, <2>5
    DEF Stage, ExpanderTypes, WizardType, FailuresType, HeadersOK, NotReplaced, Replacing, Held,
       Replaced, Lost, Backup, Expander!Content, Expander!TypeOK, Expander!Places, Expander!Sizes
  <2> QED BY <2>1, <2>2, <2>3, <2>4, <2>5 DEF ExpanderInv, Stage
<1> QED BY <1>2, <1>3, <1>4, <1>5, <1>6, <1>7 DEF ExpanderInv, ExpanderTypes

LEMMA GrowExpander ==
  ASSUME ExpanderInv, Expander!Grow
  PROVE  ExpanderInv'
<1> USE DEF Expander!Grow, Expander!Go, Expander!End, Expander!Failed, Expander!MayFail,
   Expander!MayCancel, Expander!Cancelled
<1>1. ExpanderTypes /\ Passes \in Nat \ {0}
  BY PartsAssumption DEF ExpanderInv, Expander!ConstantsOK
<1>2. WizardType'
  BY <1>1, ZenonT(60) DEF ExpanderTypes, WizardType, ExpanderPcs, Expander!TypeOK, Expander!Places,
     Expander!Sizes
<1>3. Expander!TypeOK'
  BY <1>1, <1>2 DEF ExpanderTypes, WizardType, FailuresType, Expander!TypeOK, Expander!Places,
     Expander!Sizes
<1>4. (evWizard.pc \in {"wipe", "flushPass"} => evWizard.pass \in 1 .. Passes)'
  BY <1>1 DEF ExpanderTypes, WizardType
<1>5. FailuresType'
  BY <1>1 DEF ExpanderTypes, FailuresType
<1>6. HeadersOK'
  BY <1>1 DEF ExpanderTypes, WizardType, FailuresType, HeadersOK, NotReplaced, Replacing, Held,
       Replaced, Lost, Backup, Expander!Content, Expander!TypeOK, Expander!Places, Expander!Sizes
<1>7. Stage'
  <2>1. CASE NotReplaced
    BY <1>1, <2>1
    DEF Stage, ExpanderTypes, WizardType, FailuresType, HeadersOK, NotReplaced, Replacing, Held,
       Replaced, Lost, Backup, Expander!Content, Expander!TypeOK, Expander!Places, Expander!Sizes
  <2>2. CASE Replacing
    BY <1>1, <2>2
    DEF Stage, ExpanderTypes, WizardType, FailuresType, HeadersOK, NotReplaced, Replacing, Held,
       Replaced, Lost, Backup, Expander!Content, Expander!TypeOK, Expander!Places, Expander!Sizes
  <2>3. CASE Held
    BY <1>1, <2>3
    DEF Stage, ExpanderTypes, WizardType, FailuresType, HeadersOK, NotReplaced, Replacing, Held,
       Replaced, Lost, Backup, Expander!Content, Expander!TypeOK, Expander!Places, Expander!Sizes
  <2>4. CASE Replaced
    BY <1>1, <2>4
    DEF Stage, ExpanderTypes, WizardType, FailuresType, HeadersOK, NotReplaced, Replacing, Held,
       Replaced, Lost, Backup, Expander!Content, Expander!TypeOK, Expander!Places, Expander!Sizes
  <2>5. CASE Lost
    BY <1>1, <2>5
    DEF Stage, ExpanderTypes, WizardType, FailuresType, HeadersOK, NotReplaced, Replacing, Held,
       Replaced, Lost, Backup, Expander!Content, Expander!TypeOK, Expander!Places, Expander!Sizes
  <2> QED BY <2>1, <2>2, <2>3, <2>4, <2>5 DEF ExpanderInv, Stage
<1> QED BY <1>2, <1>3, <1>4, <1>5, <1>6, <1>7 DEF ExpanderInv, ExpanderTypes

LEMMA FillExpander ==
  ASSUME ExpanderInv, Expander!Fill
  PROVE  ExpanderInv'
<1> USE DEF Expander!Fill, Expander!Go, Expander!Failed, Expander!Cancelled, Expander!MayFail,
   Expander!MayCancel
<1>1. ExpanderTypes /\ Passes \in Nat \ {0}
  BY PartsAssumption DEF ExpanderInv, Expander!ConstantsOK
<1>2. WizardType'
  BY <1>1 DEF ExpanderTypes, WizardType, ExpanderPcs, Expander!TypeOK, Expander!Places,
     Expander!Sizes
<1>3. Expander!TypeOK'
  BY <1>1, <1>2 DEF ExpanderTypes, WizardType, FailuresType, Expander!TypeOK, Expander!Places,
     Expander!Sizes
<1>4. (evWizard.pc \in {"wipe", "flushPass"} => evWizard.pass \in 1 .. Passes)'
  BY <1>1 DEF ExpanderTypes, WizardType
<1>5. FailuresType'
  BY <1>1 DEF ExpanderTypes, FailuresType
<1>6. HeadersOK'
  BY <1>1 DEF ExpanderTypes, WizardType, FailuresType, HeadersOK, NotReplaced, Replacing, Held,
       Replaced, Lost, Backup, Expander!Content, Expander!TypeOK, Expander!Places, Expander!Sizes
<1>7. Stage'
  <2>1. CASE NotReplaced
    BY <1>1, <2>1
    DEF Stage, ExpanderTypes, WizardType, FailuresType, HeadersOK, NotReplaced, Replacing, Held,
       Replaced, Lost, Backup, Expander!Content, Expander!TypeOK, Expander!Places, Expander!Sizes
  <2>2. CASE Replacing
    BY <1>1, <2>2
    DEF Stage, ExpanderTypes, WizardType, FailuresType, HeadersOK, NotReplaced, Replacing, Held,
       Replaced, Lost, Backup, Expander!Content, Expander!TypeOK, Expander!Places, Expander!Sizes
  <2>3. CASE Held
    BY <1>1, <2>3
    DEF Stage, ExpanderTypes, WizardType, FailuresType, HeadersOK, NotReplaced, Replacing, Held,
       Replaced, Lost, Backup, Expander!Content, Expander!TypeOK, Expander!Places, Expander!Sizes
  <2>4. CASE Replaced
    BY <1>1, <2>4
    DEF Stage, ExpanderTypes, WizardType, FailuresType, HeadersOK, NotReplaced, Replacing, Held,
       Replaced, Lost, Backup, Expander!Content, Expander!TypeOK, Expander!Places, Expander!Sizes
  <2>5. CASE Lost
    BY <1>1, <2>5
    DEF Stage, ExpanderTypes, WizardType, FailuresType, HeadersOK, NotReplaced, Replacing, Held,
       Replaced, Lost, Backup, Expander!Content, Expander!TypeOK, Expander!Places, Expander!Sizes
  <2> QED BY <2>1, <2>2, <2>3, <2>4, <2>5 DEF ExpanderInv, Stage
<1> QED BY <1>2, <1>3, <1>4, <1>5, <1>6, <1>7 DEF ExpanderInv, ExpanderTypes

LEMMA ShrinkExpander ==
  ASSUME ExpanderInv, Expander!Shrink
  PROVE  ExpanderInv'
<1> USE DEF Expander!Shrink, Expander!End, Expander!Failed, Expander!MayFail
<1>1. ExpanderTypes /\ Passes \in Nat \ {0}
  BY PartsAssumption DEF ExpanderInv, Expander!ConstantsOK
<1>2. WizardType'
  BY <1>1 DEF ExpanderTypes, WizardType, ExpanderPcs, Expander!TypeOK, Expander!Places,
     Expander!Sizes
<1>3. Expander!TypeOK'
  BY <1>1, <1>2 DEF ExpanderTypes, WizardType, FailuresType, Expander!TypeOK, Expander!Places,
     Expander!Sizes
<1>4. (evWizard.pc \in {"wipe", "flushPass"} => evWizard.pass \in 1 .. Passes)'
  BY <1>1 DEF ExpanderTypes, WizardType
<1>5. FailuresType'
  BY <1>1 DEF ExpanderTypes, FailuresType
<1>6. HeadersOK'
  BY <1>1 DEF ExpanderTypes, WizardType, FailuresType, HeadersOK, NotReplaced, Replacing, Held,
       Replaced, Lost, Backup, Expander!Content, Expander!TypeOK, Expander!Places, Expander!Sizes
<1>7. Stage'
  <2>1. CASE NotReplaced
    BY <1>1, <2>1
    DEF Stage, ExpanderTypes, WizardType, FailuresType, HeadersOK, NotReplaced, Replacing, Held,
       Replaced, Lost, Backup, Expander!Content, Expander!TypeOK, Expander!Places, Expander!Sizes
  <2>2. CASE Replacing
    BY <1>1, <2>2
    DEF Stage, ExpanderTypes, WizardType, FailuresType, HeadersOK, NotReplaced, Replacing, Held,
       Replaced, Lost, Backup, Expander!Content, Expander!TypeOK, Expander!Places, Expander!Sizes
  <2>3. CASE Held
    BY <1>1, <2>3
    DEF Stage, ExpanderTypes, WizardType, FailuresType, HeadersOK, NotReplaced, Replacing, Held,
       Replaced, Lost, Backup, Expander!Content, Expander!TypeOK, Expander!Places, Expander!Sizes
  <2>4. CASE Replaced
    BY <1>1, <2>4
    DEF Stage, ExpanderTypes, WizardType, FailuresType, HeadersOK, NotReplaced, Replacing, Held,
       Replaced, Lost, Backup, Expander!Content, Expander!TypeOK, Expander!Places, Expander!Sizes
  <2>5. CASE Lost
    BY <1>1, <2>5
    DEF Stage, ExpanderTypes, WizardType, FailuresType, HeadersOK, NotReplaced, Replacing, Held,
       Replaced, Lost, Backup, Expander!Content, Expander!TypeOK, Expander!Places, Expander!Sizes
  <2> QED BY <2>1, <2>2, <2>3, <2>4, <2>5 DEF ExpanderInv, Stage
<1> QED BY <1>2, <1>3, <1>4, <1>5, <1>6, <1>7 DEF ExpanderInv, ExpanderTypes

LEMMA WriteHeaderExpander ==
  ASSUME ExpanderInv, Expander!WriteHeader
  PROVE  ExpanderInv'
<1> USE DEF Expander!WriteHeader, Expander!Go, Expander!End, Expander!Failed, Expander!MayFail,
   Expander!Spoil
<1>1. ExpanderTypes /\ Passes \in Nat \ {0}
  BY PartsAssumption DEF ExpanderInv, Expander!ConstantsOK
<1>2. WizardType'
  BY <1>1, ZenonT(60) DEF ExpanderTypes, WizardType, ExpanderPcs, Expander!TypeOK, Expander!Places,
     Expander!Sizes
<1>3. Expander!TypeOK'
  BY <1>1, <1>2 DEF ExpanderTypes, WizardType, FailuresType, Expander!TypeOK, Expander!Places,
     Expander!Sizes
<1>4. (evWizard.pc \in {"wipe", "flushPass"} => evWizard.pass \in 1 .. Passes)'
  BY <1>1 DEF ExpanderTypes, WizardType
<1>5. FailuresType'
  BY <1>1 DEF ExpanderTypes, FailuresType
<1>6. HeadersOK'
  <2>1. evWizard.pc = "header" => evWizard.place \in {"primary", "newEnd"}
    BY DEF ExpanderInv, Stage, NotReplaced, Replacing, Held, Replaced, Lost
  <2>2. \/ evCache' \in {[evCache EXCEPT !["primary"] = c] : c \in {"new", "junk"}}
        \/ evCache' \in {[evCache EXCEPT !["newEnd"] = c] : c \in {"new", "junk"}}
        \/ evCache' = evCache
    BY <2>1
  <2>3. evDisk' = evDisk /\ evFiles' = evFiles /\ (evFiles # "new")
    BY <1>1 DEF ExpanderTypes, HeadersOK
  <2> QED BY <1>1, <2>2, <2>3 DEF ExpanderTypes, HeadersOK, Expander!TypeOK, Expander!Places
<1>7. Stage'
  <2>1. CASE NotReplaced
    <3>1. CASE evWizard.place = "newEnd"
      <4>1. UNCHANGED <<evDisk, evFiles, evLength, evCache["primary"], evWizard.place>>
        BY <1>1, <2>1, <3>1 DEF ExpanderTypes, WizardType, Expander!TypeOK, Expander!Places
      <4>2. \/ evWizard'.pc = "reserved" /\ evCache'["newEnd"] = "new"
            \/ evWizard'.pc = "idle"
        BY <1>1, <3>1 DEF ExpanderTypes, WizardType, Expander!TypeOK, Expander!Places
      <4> QED BY <2>1, <3>1, <4>1, <4>2 DEF NotReplaced, Stage
    <3>2. CASE evWizard.place # "newEnd"
      <4>1. Backup /\ evWizard.place = "primary" /\ evFiles = "old"
        BY <2>1, <3>2 DEF NotReplaced
      <4>2. UNCHANGED <<evDisk, evFiles, evLength, evCache["newEnd"], evFailures.flush>>
        BY <1>1, <4>1 DEF ExpanderTypes, WizardType, FailuresType, Expander!TypeOK, Expander!Places
      <4>3. \/ evWizard'.pc = "reserved" /\ evWizard'.place = "primary" /\ evCache'["primary"] = "new"
            \/ evWizard'.pc = "idle"
        BY <1>1, <4>1 DEF ExpanderTypes, WizardType, Expander!TypeOK, Expander!Places
      <4> QED BY <4>1, <4>2, <4>3 DEF Backup, Expander!Content, Held, Replacing, Stage
    <3> QED BY <3>1, <3>2
  <2>2. CASE Replacing
    BY <1>1, <2>2
    DEF Stage, ExpanderTypes, WizardType, FailuresType, HeadersOK, NotReplaced, Replacing, Held,
       Replaced, Lost, Backup, Expander!Content, Expander!TypeOK, Expander!Places, Expander!Sizes
  <2>3. CASE Held
    BY <1>1, <2>3
    DEF Stage, ExpanderTypes, WizardType, FailuresType, HeadersOK, NotReplaced, Replacing, Held,
       Replaced, Lost, Backup, Expander!Content, Expander!TypeOK, Expander!Places, Expander!Sizes
  <2>4. CASE Replaced
    BY <1>1, <2>4
    DEF Stage, ExpanderTypes, WizardType, FailuresType, HeadersOK, NotReplaced, Replacing, Held,
       Replaced, Lost, Backup, Expander!Content, Expander!TypeOK, Expander!Places, Expander!Sizes
  <2>5. CASE Lost
    BY <1>1, <2>5
    DEF Stage, ExpanderTypes, WizardType, FailuresType, HeadersOK, NotReplaced, Replacing, Held,
       Replaced, Lost, Backup, Expander!Content, Expander!TypeOK, Expander!Places, Expander!Sizes
  <2> QED BY <2>1, <2>2, <2>3, <2>4, <2>5 DEF ExpanderInv, Stage
<1> QED BY <1>2, <1>3, <1>4, <1>5, <1>6, <1>7 DEF ExpanderInv, ExpanderTypes

LEMMA WriteReservedAreasExpander ==
  ASSUME ExpanderInv, Expander!WriteReservedAreas
  PROVE  ExpanderInv'
<1> USE DEF Expander!WriteReservedAreas, Expander!Go, Expander!End, Expander!Failed,
   Expander!MayFail, Expander!Spoil
<1>1. ExpanderTypes /\ Passes \in Nat \ {0}
  BY PartsAssumption DEF ExpanderInv, Expander!ConstantsOK
<1>2. WizardType'
  BY <1>1, ZenonT(60) DEF ExpanderTypes, WizardType, ExpanderPcs, Expander!TypeOK, Expander!Places,
     Expander!Sizes
<1>3. Expander!TypeOK'
  BY <1>1, <1>2 DEF ExpanderTypes, WizardType, FailuresType, Expander!TypeOK, Expander!Places,
     Expander!Sizes
<1>4. (evWizard.pc \in {"wipe", "flushPass"} => evWizard.pass \in 1 .. Passes)'
  BY <1>1 DEF ExpanderTypes, WizardType
<1>5. FailuresType'
  BY <1>1 DEF ExpanderTypes, FailuresType
<1>6. HeadersOK'
  BY <1>1 DEF ExpanderTypes, WizardType, FailuresType, HeadersOK, NotReplaced, Replacing, Held,
       Replaced, Lost, Backup, Expander!Content, Expander!TypeOK, Expander!Places, Expander!Sizes
<1>7. Stage'
  <2>1. CASE NotReplaced
    BY <1>1, <2>1
    DEF Stage, ExpanderTypes, WizardType, FailuresType, HeadersOK, NotReplaced, Replacing, Held,
       Replaced, Lost, Backup, Expander!Content, Expander!TypeOK, Expander!Places, Expander!Sizes
  <2>2. CASE Replacing
    BY <1>1, <2>2
    DEF Stage, ExpanderTypes, WizardType, FailuresType, HeadersOK, NotReplaced, Replacing, Held,
       Replaced, Lost, Backup, Expander!Content, Expander!TypeOK, Expander!Places, Expander!Sizes
  <2>3. CASE Held
    BY <1>1, <2>3
    DEF Stage, ExpanderTypes, WizardType, FailuresType, HeadersOK, NotReplaced, Replacing, Held,
       Replaced, Lost, Backup, Expander!Content, Expander!TypeOK, Expander!Places, Expander!Sizes
  <2>4. CASE Replaced
    BY <1>1, <2>4
    DEF Stage, ExpanderTypes, WizardType, FailuresType, HeadersOK, NotReplaced, Replacing, Held,
       Replaced, Lost, Backup, Expander!Content, Expander!TypeOK, Expander!Places, Expander!Sizes
  <2>5. CASE Lost
    BY <1>1, <2>5
    DEF Stage, ExpanderTypes, WizardType, FailuresType, HeadersOK, NotReplaced, Replacing, Held,
       Replaced, Lost, Backup, Expander!Content, Expander!TypeOK, Expander!Places, Expander!Sizes
  <2> QED BY <2>1, <2>2, <2>3, <2>4, <2>5 DEF ExpanderInv, Stage
<1> QED BY <1>2, <1>3, <1>4, <1>5, <1>6, <1>7 DEF ExpanderInv, ExpanderTypes

LEMMA FlushExpander ==
  ASSUME ExpanderInv, Expander!Flush
  PROVE  ExpanderInv'
<1> USE DEF Expander!Flush, Expander!FlushFileBuffers, Expander!AllOnDisk, Expander!Contents,
   Expander!SecondPlace
<1>1. ExpanderTypes /\ Passes \in Nat \ {0}
  BY PartsAssumption DEF ExpanderInv, Expander!ConstantsOK
<1>2. WizardType'
  BY <1>1 DEF ExpanderTypes, WizardType, ExpanderPcs, Expander!TypeOK, Expander!Places,
     Expander!Sizes
<1>3. Expander!TypeOK'
  <2>1. evDisk' \in [Expander!Places -> Expander!Sizes \cup {"junk"}]
    BY <1>1 DEF ExpanderTypes, Expander!Content, Expander!TypeOK
  <2>2. evCache' \in [Expander!Places -> Expander!Sizes \cup {"junk", "none"}]
    BY <1>1 DEF ExpanderTypes, Expander!TypeOK
  <2>3. evFailures'.flush \in BOOLEAN /\ UNCHANGED <<evLength, evFiles>>
    BY <1>1 DEF ExpanderTypes, FailuresType
  <2> QED BY <1>1, <1>2, <2>1, <2>2, <2>3 DEF WizardType, ExpanderTypes, Expander!TypeOK
<1>4. (evWizard.pc \in {"wipe", "flushPass"} => evWizard.pass \in 1 .. Passes)'
  BY <1>1 DEF ExpanderTypes, WizardType
<1>5. FailuresType'
  BY <1>1 DEF ExpanderTypes, FailuresType
<1>6. HeadersOK'
  BY <1>1 DEF ExpanderTypes, WizardType, FailuresType, HeadersOK, NotReplaced, Replacing, Held,
       Replaced, Lost, Backup, Expander!Content, Expander!TypeOK, Expander!Places, Expander!Sizes
<1>7. Stage'
  <2>1. CASE NotReplaced
    BY <1>1, <2>1
    DEF Stage, ExpanderTypes, WizardType, FailuresType, HeadersOK, NotReplaced, Replacing, Held,
       Replaced, Lost, Backup, Expander!Content, Expander!TypeOK, Expander!Places, Expander!Sizes
  <2>2. CASE Replacing
    BY <1>1, <2>2
    DEF Stage, ExpanderTypes, WizardType, FailuresType, HeadersOK, NotReplaced, Replacing, Held,
       Replaced, Lost, Backup, Expander!Content, Expander!TypeOK, Expander!Places, Expander!Sizes
  <2>3. CASE Held
    BY <1>1, <2>3
    DEF Stage, ExpanderTypes, WizardType, FailuresType, HeadersOK, NotReplaced, Replacing, Held,
       Replaced, Lost, Backup, Expander!Content, Expander!TypeOK, Expander!Places, Expander!Sizes
  <2>4. CASE Replaced
    BY <1>1, <2>4
    DEF Stage, ExpanderTypes, WizardType, FailuresType, HeadersOK, NotReplaced, Replacing, Held,
       Replaced, Lost, Backup, Expander!Content, Expander!TypeOK, Expander!Places, Expander!Sizes
  <2>5. CASE Lost
    BY <1>1, <2>5
    DEF Stage, ExpanderTypes, WizardType, FailuresType, HeadersOK, NotReplaced, Replacing, Held,
       Replaced, Lost, Backup, Expander!Content, Expander!TypeOK, Expander!Places, Expander!Sizes
  <2> QED BY <2>1, <2>2, <2>3, <2>4, <2>5 DEF ExpanderInv, Stage
<1> QED BY <1>2, <1>3, <1>4, <1>5, <1>6, <1>7 DEF ExpanderInv, ExpanderTypes

LEMMA TestCancelExpander ==
  ASSUME ExpanderInv, Expander!TestCancel
  PROVE  ExpanderInv'
<1> USE DEF Expander!TestCancel, Expander!End, Expander!MayCancel, Expander!Cancelled
<1>1. ExpanderTypes /\ Passes \in Nat \ {0}
  BY PartsAssumption DEF ExpanderInv, Expander!ConstantsOK
<1>2. WizardType'
  <2>1. 1 \in 0 .. Passes + 1 /\ 1 \in 1 .. Passes
    BY <1>1
  <2>2. evWizard' = [evWizard EXCEPT !.pc = "wipe", !.pass = 1]
        \/ evWizard' = [evWizard EXCEPT !.pc = "idle", !.status = "abort"]
    OBVIOUS
  <2> QED BY <1>1, <2>1, <2>2 DEF ExpanderTypes, WizardType, ExpanderPcs
<1>3. Expander!TypeOK'
  BY <1>1, <1>2 DEF ExpanderTypes, WizardType, FailuresType, Expander!TypeOK, Expander!Places,
     Expander!Sizes
<1>4. (evWizard.pc \in {"wipe", "flushPass"} => evWizard.pass \in 1 .. Passes)'
  <2>1. 1 \in 1 .. Passes
    BY <1>1
  <2> QED BY <1>1, <2>1 DEF ExpanderTypes, WizardType
<1>5. FailuresType'
  BY <1>1 DEF ExpanderTypes, FailuresType
<1>6. HeadersOK'
  BY <1>1 DEF ExpanderTypes, WizardType, FailuresType, HeadersOK, NotReplaced, Replacing, Held,
       Replaced, Lost, Backup, Expander!Content, Expander!TypeOK, Expander!Places, Expander!Sizes
<1>7. Stage'
  <2>1. CASE NotReplaced
    BY <1>1, <2>1
    DEF Stage, ExpanderTypes, WizardType, FailuresType, HeadersOK, NotReplaced, Replacing, Held,
       Replaced, Lost, Backup, Expander!Content, Expander!TypeOK, Expander!Places, Expander!Sizes
  <2>2. CASE Replacing
    BY <1>1, <2>2
    DEF Stage, ExpanderTypes, WizardType, FailuresType, HeadersOK, NotReplaced, Replacing, Held,
       Replaced, Lost, Backup, Expander!Content, Expander!TypeOK, Expander!Places, Expander!Sizes
  <2>3. CASE Held
    BY <1>1, <2>3
    DEF Stage, ExpanderTypes, WizardType, FailuresType, HeadersOK, NotReplaced, Replacing, Held,
       Replaced, Lost, Backup, Expander!Content, Expander!TypeOK, Expander!Places, Expander!Sizes
  <2>4. CASE Replaced
    BY <1>1, <2>4
    DEF Stage, ExpanderTypes, WizardType, FailuresType, HeadersOK, NotReplaced, Replacing, Held,
       Replaced, Lost, Backup, Expander!Content, Expander!TypeOK, Expander!Places, Expander!Sizes
  <2>5. CASE Lost
    BY <1>1, <2>5
    DEF Stage, ExpanderTypes, WizardType, FailuresType, HeadersOK, NotReplaced, Replacing, Held,
       Replaced, Lost, Backup, Expander!Content, Expander!TypeOK, Expander!Places, Expander!Sizes
  <2> QED BY <2>1, <2>2, <2>3, <2>4, <2>5 DEF ExpanderInv, Stage
<1> QED BY <1>2, <1>3, <1>4, <1>5, <1>6, <1>7 DEF ExpanderInv, ExpanderTypes

LEMMA WipeOldHeaderExpander ==
  ASSUME ExpanderInv, Expander!WipeOldHeader
  PROVE  ExpanderInv'
<1> USE DEF Expander!WipeOldHeader, Expander!AfterPass, Expander!MayFail, Expander!Failed,
   Expander!Spoil, Expander!Go
<1>1. ExpanderTypes /\ Passes \in Nat \ {0}
  BY PartsAssumption DEF ExpanderInv, Expander!ConstantsOK
<1>2. WizardType'
  <2>1. /\ evWizard.pass \in Int /\ evWizard.pass + 1 \in 0 .. Passes + 1
        /\ evWizard.pass < Passes => evWizard.pass + 1 \in 1 .. Passes
    BY <1>1 DEF ExpanderTypes
  <2>2. \/ evWizard' = [evWizard EXCEPT !.pc = "flushPass"]
        \/ \E pc \in {"wipe", "extend"} :
             evWizard' = [evWizard EXCEPT !.pc = pc, !.pass = evWizard.pass + 1, !.warned = TRUE]
    OBVIOUS
  <2> QED BY <1>1, <2>1, <2>2 DEF ExpanderTypes, WizardType, ExpanderPcs
<1>3. Expander!TypeOK'
  BY <1>1, <1>2 DEF ExpanderTypes, WizardType, FailuresType, Expander!TypeOK, Expander!Places,
     Expander!Sizes
<1>4. (evWizard.pc \in {"wipe", "flushPass"} => evWizard.pass \in 1 .. Passes)'
  <2>1. evWizard.pass \in 1 .. Passes
    BY <1>1 DEF ExpanderTypes
  <2>2. evWizard'.pass = evWizard.pass + 1 \/ (evWizard'.pass = evWizard.pass /\ evWizard'.pc =
     "flushPass")
    BY <1>1 DEF ExpanderTypes, WizardType
  <2>3. evWizard'.pc = "wipe" => evWizard.pass < Passes
    BY <1>1, <2>1 DEF ExpanderTypes, WizardType
  <2>4. evWizard'.pc = "flushPass" => evWizard'.pass = evWizard.pass
    BY <1>1 DEF ExpanderTypes, WizardType
  <2> QED BY <1>1, <2>1, <2>2, <2>3, <2>4
<1>5. FailuresType'
  BY <1>1 DEF ExpanderTypes, FailuresType
<1>6. HeadersOK'
  BY <1>1 DEF ExpanderTypes, WizardType, FailuresType, HeadersOK, NotReplaced, Replacing, Held,
       Replaced, Lost, Backup, Expander!Content, Expander!TypeOK, Expander!Places, Expander!Sizes
<1>7. Stage'
  <2>1. CASE NotReplaced
    BY <1>1, <2>1
    DEF Stage, ExpanderTypes, WizardType, FailuresType, HeadersOK, NotReplaced, Replacing, Held,
       Replaced, Lost, Backup, Expander!Content, Expander!TypeOK, Expander!Places, Expander!Sizes
  <2>2. CASE Replacing
    BY <1>1, <2>2
    DEF Stage, ExpanderTypes, WizardType, FailuresType, HeadersOK, NotReplaced, Replacing, Held,
       Replaced, Lost, Backup, Expander!Content, Expander!TypeOK, Expander!Places, Expander!Sizes
  <2>3. CASE Held
    BY <1>1, <2>3
    DEF Stage, ExpanderTypes, WizardType, FailuresType, HeadersOK, NotReplaced, Replacing, Held,
       Replaced, Lost, Backup, Expander!Content, Expander!TypeOK, Expander!Places, Expander!Sizes
  <2>4. CASE Replaced
    BY <1>1, <2>4
    DEF Stage, ExpanderTypes, WizardType, FailuresType, HeadersOK, NotReplaced, Replacing, Held,
       Replaced, Lost, Backup, Expander!Content, Expander!TypeOK, Expander!Places, Expander!Sizes
  <2>5. CASE Lost
    BY <1>1, <2>5
    DEF Stage, ExpanderTypes, WizardType, FailuresType, HeadersOK, NotReplaced, Replacing, Held,
       Replaced, Lost, Backup, Expander!Content, Expander!TypeOK, Expander!Places, Expander!Sizes
  <2> QED BY <2>1, <2>2, <2>3, <2>4, <2>5 DEF ExpanderInv, Stage
<1> QED BY <1>2, <1>3, <1>4, <1>5, <1>6, <1>7 DEF ExpanderInv, ExpanderTypes

LEMMA FlushPassExpander ==
  ASSUME ExpanderInv, Expander!FlushPass
  PROVE  ExpanderInv'
<1> USE DEF Expander!FlushPass, Expander!AfterPass, Expander!FlushFileBuffers,
   Expander!AllOnDisk, Expander!Contents
<1>1. ExpanderTypes /\ Passes \in Nat \ {0}
  BY PartsAssumption DEF ExpanderInv, Expander!ConstantsOK
<1>2. WizardType'
  <2>1. evWizard.pass \in Int /\ evWizard.pass + 1 \in 0 .. Passes + 1
    BY <1>1 DEF ExpanderTypes
  <2>2. \E pc \in {"wipe", "extend"} :
          evWizard' = [evWizard EXCEPT !.pc = pc, !.pass = evWizard.pass + 1]
    OBVIOUS
  <2> QED BY <1>1, <2>1, <2>2 DEF ExpanderTypes, WizardType, ExpanderPcs
<1>3. Expander!TypeOK'
  <2>1. evDisk' \in [Expander!Places -> Expander!Sizes \cup {"junk"}]
    BY <1>1 DEF ExpanderTypes, Expander!Content, Expander!TypeOK
  <2>2. evCache' \in [Expander!Places -> Expander!Sizes \cup {"junk", "none"}]
    BY <1>1 DEF ExpanderTypes, Expander!TypeOK
  <2>3. evFailures'.flush \in BOOLEAN /\ UNCHANGED <<evLength, evFiles>>
    BY <1>1 DEF ExpanderTypes, FailuresType
  <2> QED BY <1>1, <1>2, <2>1, <2>2, <2>3 DEF WizardType, ExpanderTypes, Expander!TypeOK
<1>4. (evWizard.pc \in {"wipe", "flushPass"} => evWizard.pass \in 1 .. Passes)'
  <2>1. evWizard.pass \in 1 .. Passes
    BY <1>1 DEF ExpanderTypes
  <2>2. evWizard'.pass = evWizard.pass + 1 \/ (evWizard'.pass = evWizard.pass /\ evWizard'.pc =
     "flushPass")
    BY <1>1 DEF ExpanderTypes, WizardType
  <2>3. evWizard'.pc = "wipe" => evWizard.pass < Passes
    BY <1>1, <2>1 DEF ExpanderTypes, WizardType
  <2>4. evWizard'.pc = "flushPass" => evWizard'.pass = evWizard.pass
    BY <1>1 DEF ExpanderTypes, WizardType
  <2> QED BY <1>1, <2>1, <2>2, <2>3, <2>4
<1>5. FailuresType'
  BY <1>1 DEF ExpanderTypes, FailuresType
<1>6. HeadersOK'
  BY <1>1 DEF ExpanderTypes, WizardType, FailuresType, HeadersOK, NotReplaced, Replacing, Held,
       Replaced, Lost, Backup, Expander!Content, Expander!TypeOK, Expander!Places, Expander!Sizes
<1>7. Stage'
  <2>1. CASE NotReplaced
    BY <1>1, <2>1
    DEF Stage, ExpanderTypes, WizardType, FailuresType, HeadersOK, NotReplaced, Replacing, Held,
       Replaced, Lost, Backup, Expander!Content, Expander!TypeOK, Expander!Places, Expander!Sizes
  <2>2. CASE Replacing
    BY <1>1, <2>2
    DEF Stage, ExpanderTypes, WizardType, FailuresType, HeadersOK, NotReplaced, Replacing, Held,
       Replaced, Lost, Backup, Expander!Content, Expander!TypeOK, Expander!Places, Expander!Sizes
  <2>3. CASE Held
    BY <1>1, <2>3
    DEF Stage, ExpanderTypes, WizardType, FailuresType, HeadersOK, NotReplaced, Replacing, Held,
       Replaced, Lost, Backup, Expander!Content, Expander!TypeOK, Expander!Places, Expander!Sizes
  <2>4. CASE Replaced
    BY <1>1, <2>4
    DEF Stage, ExpanderTypes, WizardType, FailuresType, HeadersOK, NotReplaced, Replacing, Held,
       Replaced, Lost, Backup, Expander!Content, Expander!TypeOK, Expander!Places, Expander!Sizes
  <2>5. CASE Lost
    BY <1>1, <2>5
    DEF Stage, ExpanderTypes, WizardType, FailuresType, HeadersOK, NotReplaced, Replacing, Held,
       Replaced, Lost, Backup, Expander!Content, Expander!TypeOK, Expander!Places, Expander!Sizes
  <2> QED BY <2>1, <2>2, <2>3, <2>4, <2>5 DEF ExpanderInv, Stage
<1> QED BY <1>2, <1>3, <1>4, <1>5, <1>6, <1>7 DEF ExpanderInv, ExpanderTypes

LEMMA ExtendFileSystemExpander ==
  ASSUME ExpanderInv, Expander!ExtendFileSystem
  PROVE  ExpanderInv'
<1> USE DEF Expander!ExtendFileSystem, Expander!End, Expander!MayFail, Expander!MayCancel,
   Expander!Failed, Expander!Cancelled
<1>1. ExpanderTypes /\ Passes \in Nat \ {0}
  BY PartsAssumption DEF ExpanderInv, Expander!ConstantsOK
<1>2. WizardType'
  BY <1>1, ZenonT(60) DEF ExpanderTypes, WizardType, ExpanderPcs, Expander!TypeOK, Expander!Places,
     Expander!Sizes
<1>3. Expander!TypeOK'
  BY <1>1, <1>2 DEF ExpanderTypes, WizardType, FailuresType, Expander!TypeOK, Expander!Places,
     Expander!Sizes
<1>4. (evWizard.pc \in {"wipe", "flushPass"} => evWizard.pass \in 1 .. Passes)'
  BY <1>1 DEF ExpanderTypes, WizardType
<1>5. FailuresType'
  BY <1>1 DEF ExpanderTypes, FailuresType
<1>6. HeadersOK'
  BY <1>1 DEF ExpanderTypes, WizardType, FailuresType, HeadersOK, NotReplaced, Replacing, Held,
       Replaced, Lost, Backup, Expander!Content, Expander!TypeOK, Expander!Places, Expander!Sizes
<1>7. Stage'
  <2>1. CASE NotReplaced
    BY <1>1, <2>1
    DEF Stage, ExpanderTypes, WizardType, FailuresType, HeadersOK, NotReplaced, Replacing, Held,
       Replaced, Lost, Backup, Expander!Content, Expander!TypeOK, Expander!Places, Expander!Sizes
  <2>2. CASE Replacing
    BY <1>1, <2>2
    DEF Stage, ExpanderTypes, WizardType, FailuresType, HeadersOK, NotReplaced, Replacing, Held,
       Replaced, Lost, Backup, Expander!Content, Expander!TypeOK, Expander!Places, Expander!Sizes
  <2>3. CASE Held
    BY <1>1, <2>3
    DEF Stage, ExpanderTypes, WizardType, FailuresType, HeadersOK, NotReplaced, Replacing, Held,
       Replaced, Lost, Backup, Expander!Content, Expander!TypeOK, Expander!Places, Expander!Sizes
  <2>4. CASE Replaced
    BY <1>1, <2>4
    DEF Stage, ExpanderTypes, WizardType, FailuresType, HeadersOK, NotReplaced, Replacing, Held,
       Replaced, Lost, Backup, Expander!Content, Expander!TypeOK, Expander!Places, Expander!Sizes
  <2>5. CASE Lost
    BY <1>1, <2>5
    DEF Stage, ExpanderTypes, WizardType, FailuresType, HeadersOK, NotReplaced, Replacing, Held,
       Replaced, Lost, Backup, Expander!Content, Expander!TypeOK, Expander!Places, Expander!Sizes
  <2> QED BY <2>1, <2>2, <2>3, <2>4, <2>5 DEF ExpanderInv, Stage
<1> QED BY <1>2, <1>3, <1>4, <1>5, <1>6, <1>7 DEF ExpanderInv, ExpanderTypes

LEMMA PowerFailureExpander ==
  ASSUME ExpanderInv, Expander!PowerFailure
  PROVE  ExpanderInv'
<1> USE DEF Expander!PowerFailure, Expander!End
<1>1. ExpanderTypes /\ Passes \in Nat \ {0}
  BY PartsAssumption DEF ExpanderInv, Expander!ConstantsOK
<1>2. WizardType'
  <2>1. evWizard' \in {evWizard, [evWizard EXCEPT !.pc = "idle", !.status = "power"]}
    OBVIOUS
  <2> HIDE DEF Expander!PowerFailure
  <2> QED BY <1>1, <2>1 DEF ExpanderTypes, WizardType, ExpanderPcs
<1>3. Expander!TypeOK'
  BY <1>1, <1>2 DEF ExpanderTypes, WizardType, FailuresType, Expander!TypeOK, Expander!Places,
     Expander!Sizes
<1>4. (evWizard.pc \in {"wipe", "flushPass"} => evWizard.pass \in 1 .. Passes)'
  BY <1>1 DEF ExpanderTypes, WizardType
<1>5. FailuresType'
  BY <1>1 DEF ExpanderTypes, FailuresType
<1>6. HeadersOK'
  BY <1>1 DEF ExpanderTypes, WizardType, FailuresType, HeadersOK, NotReplaced, Replacing, Held,
       Replaced, Lost, Backup, Expander!Content, Expander!TypeOK, Expander!Places, Expander!Sizes
<1>7. Stage'
  <2>1. CASE NotReplaced
    BY <1>1, <2>1
    DEF Stage, ExpanderTypes, WizardType, FailuresType, HeadersOK, NotReplaced, Replacing, Held,
       Replaced, Lost, Backup, Expander!Content, Expander!TypeOK, Expander!Places, Expander!Sizes
  <2>2. CASE Replacing
    <3>1. CASE evFailures.flush
      <4>1. evFailures.power \in Nat /\ evFailures' = [evFailures EXCEPT !.power = @ + 1]
        BY <1>1 DEF ExpanderTypes, FailuresType
      <4>2. evFailures'.power = evFailures.power + 1 /\ evFailures'.flush = evFailures.flush
        BY <1>1, <4>1 DEF ExpanderTypes, FailuresType
      <4>3. evWizard'.pc = "idle"
        BY <1>1 DEF ExpanderTypes, WizardType
      <4> QED BY <3>1, <4>1, <4>2, <4>3 DEF Lost, Stage
    <3>2. CASE ~evFailures.flush
      <4>1. /\ evDisk'["newEnd"] = "new" /\ evCache'["newEnd"] = "none"
            /\ evCache'["primary"] = "none" /\ UNCHANGED <<evLength, evFiles, evFailures.flush>>
            /\ evCache["primary"] = "none" => evDisk'["primary"] = evDisk["primary"]
        BY <1>1, <2>2, <3>2 DEF Replacing, Backup, ExpanderTypes, FailuresType, Expander!Places
      <4>2. evWizard'.pc = "idle"
        BY <1>1 DEF ExpanderTypes, WizardType
      <4> QED BY <2>2, <3>2, <4>1, <4>2
              DEF Replacing, Backup, Held, Replaced, Stage, Expander!Content
    <3> QED BY <3>1, <3>2
  <2>3. CASE Held
    BY <1>1, <2>3
    DEF Stage, ExpanderTypes, WizardType, FailuresType, HeadersOK, NotReplaced, Replacing, Held,
       Replaced, Lost, Backup, Expander!Content, Expander!TypeOK, Expander!Places, Expander!Sizes
  <2>4. CASE Replaced
    <3>1. CASE evFailures.flush
      <4>1. evFailures.power \in Nat /\ evFailures' = [evFailures EXCEPT !.power = @ + 1]
        BY <1>1 DEF ExpanderTypes, FailuresType
      <4>2. evFailures'.power = evFailures.power + 1 /\ evFailures'.flush = evFailures.flush
        BY <1>1, <4>1 DEF ExpanderTypes, FailuresType
      <4>3. evWizard'.pc = "idle"
        BY <1>1 DEF ExpanderTypes, WizardType
      <4> QED BY <3>1, <4>1, <4>2, <4>3 DEF Lost, Stage
    <3>2. CASE ~evFailures.flush
      <4>1. /\ evDisk'["newEnd"] = "new" /\ evCache'["newEnd"] = "none"
            /\ evCache'["primary"] = "none" /\ UNCHANGED <<evLength, evFiles, evFailures.flush>>
            /\ evCache["primary"] = "none" => evDisk'["primary"] = evDisk["primary"]
        BY <1>1, <2>4, <3>2 DEF Replaced, Backup, ExpanderTypes, FailuresType, Expander!Places
      <4>2. evWizard'.pc = "idle"
        BY <1>1 DEF ExpanderTypes, WizardType
      <4> QED BY <2>4, <3>2, <4>1, <4>2
              DEF Replaced, Backup, Held, Replaced, Stage, Expander!Content
    <3> QED BY <3>1, <3>2
  <2>5. CASE Lost
    BY <1>1, <2>5
    DEF Stage, ExpanderTypes, WizardType, FailuresType, HeadersOK, NotReplaced, Replacing, Held,
       Replaced, Lost, Backup, Expander!Content, Expander!TypeOK, Expander!Places, Expander!Sizes
  <2> QED BY <2>1, <2>2, <2>3, <2>4, <2>5 DEF ExpanderInv, Stage
<1> QED BY <1>2, <1>3, <1>4, <1>5, <1>6, <1>7 DEF ExpanderInv, ExpanderTypes

LEMMA InitExpander ==
  ASSUME Expander!Init
  PROVE  ExpanderInv
<1>1. Expander!TypeOK /\ evWizard.pc = "idle" /\ NotReplaced /\ FailuresType /\ HeadersOK
  BY PartsAssumption DEF Expander!ConstantsOK, Expander!Init, Expander!Idle, Expander!TypeOK,
     Expander!Places, Expander!Sizes, NotReplaced, FailuresType, HeadersOK
<1>2. WizardType
  <2>1. PICK d \in BOOLEAN :
          evWizard = [pc |-> "idle", device |-> d, fill |-> FALSE, place |-> "newEnd",
                      hostSize |-> "old", pass |-> 0, warned |-> FALSE, status |-> "none"]
    BY DEF Expander!Init, Expander!Idle
  <2>2. 0 \in 0 .. Passes + 1
    BY PartsAssumption DEF Expander!ConstantsOK
  <2> QED BY <2>1, <2>2 DEF WizardType, ExpanderPcs, Expander!Places, Expander!Sizes
<1> QED BY <1>1, <1>2 DEF ExpanderInv, ExpanderTypes, Stage

LEMMA ExpanderRuns == PartsSpec => Expander!Spec
<1>1. PartsInit => Expander!Init
  BY DEF PartsInit
<1>2. [PartsNext]_AllVars => [Expander!Next]_(Expander!vars)
  BY DEF PartsNext, AllVars, evVars, Expander!vars
<1> QED BY <1>1, <1>2, PTL DEF PartsSpec, Expander!Spec

THEOREM ExpanderInvariance == PartsSpec => []ExpanderInv
<1>1. Expander!Init => ExpanderInv
  BY InitExpander
<1>2. ExpanderInv /\ [Expander!Next]_(Expander!vars) => ExpanderInv'
  <2> SUFFICES ASSUME ExpanderInv, [Expander!Next]_(Expander!vars) PROVE ExpanderInv'
    OBVIOUS
  <2>1. CASE UNCHANGED Expander!vars
    BY <2>1 DEF Expander!vars, ExpanderInv, ExpanderTypes, WizardType, FailuresType, HeadersOK,
       Stage, NotReplaced, Replacing, Held, Replaced, Lost, Backup, Expander!Content,
       Expander!TypeOK
  <2> QED
    BY <2>1, BeginExpander, GrowExpander, FillExpander, ShrinkExpander, WriteHeaderExpander,
       WriteReservedAreasExpander, FlushExpander, TestCancelExpander, WipeOldHeaderExpander,
       FlushPassExpander, ExtendFileSystemExpander, PowerFailureExpander DEF Expander!Next
<1> QED BY <1>1, <1>2, ExpanderRuns, PTL DEF Expander!Spec

(* Whatever fails or is cancelled, the volume mounts by one of its headers, *)
(* and by each header that mounts it the file system fits into the volume  *)
(* and the volume into its host: by those on the disk, which a power       *)
(* failure leaves, unless FlushFileBuffers failed before; by those written *)
(* as long as the power does not fail.                                     *)
THEOREM Mountable == PartsSpec => []VolumeStaysMountable
<1>1. ExpanderInv => VolumeStaysMountable
  <2> SUFFICES ASSUME ExpanderInv PROVE VolumeStaysMountable
    OBVIOUS
  <2>1. ASSUME NEW h,
               \E p \in Expander!Reachable : h[p] \in Expander!Sizes,
               \A p \in Expander!Reachable : /\ h[p] = "old" => evFiles = "old"
                                             /\ h[p] = "new" => evLength = "new"
        PROVE  Expander!Mountable(h)
    BY <2>1 DEF Expander!Mountable
  <2>2. ASSUME ~evFailures.flush PROVE Expander!Mountable(evDisk)
    BY <2>1, <2>2 DEF ExpanderInv, Stage, ExpanderTypes, HeadersOK, NotReplaced, Replacing, Held,
       Replaced, Lost, Backup, Expander!Reachable, Expander!Sizes, Expander!TypeOK
  <2>3. ASSUME ~evFailures.flush \/ evFailures.power = 0
        PROVE  Expander!Mountable(Expander!Contents)
    <3>1. \A p \in Expander!Places : Expander!Contents[p] = Expander!Content(p)
      BY DEF Expander!Contents
    <3>2. \E p \in Expander!Reachable : Expander!Content(p) \in Expander!Sizes
      BY <2>3 DEF ExpanderInv, Stage, ExpanderTypes, FailuresType, NotReplaced, Replacing, Held,
         Replaced, Lost, Backup, Expander!Reachable, Expander!Sizes, Expander!Content
    <3>3. \A p \in Expander!Reachable : /\ Expander!Content(p) = "old" => evFiles = "old"
                                        /\ Expander!Content(p) = "new" => evLength = "new"
      BY <2>3 DEF ExpanderInv, Stage, ExpanderTypes, HeadersOK, FailuresType, NotReplaced,
         Replacing, Held, Replaced, Lost, Backup, Expander!Reachable, Expander!Sizes,
         Expander!Content, Expander!TypeOK
    <3>4. Expander!Reachable \subseteq Expander!Places
      BY DEF Expander!Reachable, Expander!Places
    <3> QED BY <2>1, <3>1, <3>2, <3>3, <3>4
  <2> QED BY <2>2, <2>3 DEF VolumeStaysMountable, Expander!VolumeStaysMountable
<1> QED BY <1>1, ExpanderInvariance, PTL

(* Every part keeps its types; those of the mount manager say that the     *)
(* remove lock counts the requests and that one volume at most is opened.  *)
THEOREM TypesCorrect ==
  ASSUME InPlace!NoShortRest
  PROVE  PartsSpec => []TypesOK
<1>1. PartsSpec => Spec
  <2>1. [PartsNext]_AllVars => [Next]_vars
    BY DEF PartsNext, AllVars
  <2> QED BY <2>1, PTL DEF PartsSpec, PartsInit, Spec
<1>2. Mounts!Spec => []Mounts!TypeOK
  BY PartsAssumption, Mounts!TypeCorrect
<1>3. InPlace!Spec => []InPlace!TypeOK
  BY PartsAssumption, InPlace!TypeCorrect
<1>4. ExpanderInv => Expander!TypeOK
  BY DEF ExpanderInv, ExpanderTypes
<1> QED
  BY <1>1, <1>2, <1>3, <1>4, VolumeTypeCorrect, MountsRun, InPlaceRuns, ExpanderInvariance, PTL
  DEF TypesOK
=============================================================================
