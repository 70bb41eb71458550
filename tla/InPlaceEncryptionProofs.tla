------------------------ MODULE InPlaceEncryptionProofs ------------------------
(***************************************************************************)
(* Theorems about the in-place encryption of partitions that are not the   *)
(* system's (InPlaceEncryption), for a file system, headers and chunks of  *)
(* every size, and any number of failures: the header describes the        *)
(* partition whenever the wizard is not at work, a process that finished   *)
(* is complete, and a power failure costs no more than what is converted   *)
(* between two updates of the header.                                      *)
(*                                                                         *)
(* They need the sizes to be such that a direction never changes inside    *)
(* the masked portion (NoShortRest), as the wizard masks too much when it  *)
(* does (DecryptionReveals of InPlaceEncryption).                          *)
(***************************************************************************)
EXTENDS InPlaceEncryption, FiniteSetTheorems, TLAPS

-----------------------------------------------------------------------------
(* The sizes.                                                              *)

\* Whole chunks.
Whole(n) == n \in Nat /\ n % ChunkSize = 0

\* Where the two directions may stop: whole chunks from either end.
Stops == {x \in 0 .. Size : x % ChunkSize = 0 \/ (Size - x) % ChunkSize = 0}

-----------------------------------------------------------------------------
(* The inductive invariant, in parts.                                      *)

Pcs == {"idle", "conceal", "open", "loop", "update", "check", "paused", "done", "primary",
        "unconceal", "erase", "closing"}
Content == [pos : -1 .. Size - 1, masked : BOOLEAN, cipher : BOOLEAN]

DeviceType == device \in [Cells -> Content]
BackupType == backup \in [present : BOOLEAN, start : 0 .. Size + Offset, length : 0 .. Size]
WizardType ==
  wizard \in [pc : Pcs, mode : {"none", "encrypt", "decrypt"}, start : 0 .. Size + Offset,
              length : 0 .. Size, distance : Nat, changed : BOOLEAN,
              finished : {"none", "encrypted", "decrypted"}]
LostType == lost \subseteq Positions
FailuresType == failures \in [accesses : Nat, at : SUBSET Pcs, power : Nat]

Types == DeviceType /\ BackupType /\ WizardType /\ LostType /\ FailuresType

\* The first position of the encrypted area: in the backup header, and as the wizard has it.
Saved == backup.start - Offset
Reached == wizard.start - Offset

Loaded == wizard.pc \notin {"idle", "conceal", "open"}
Encrypting == wizard.mode = "encrypt"

AreaInv ==
  /\ backup.present => backup.start + backup.length = Size + Offset /\ Saved \in Stops
  /\ ~backup.present => backup.length = 0
  /\ Loaded => wizard.start + wizard.length = Size + Offset /\ Reached \in Stops
  /\ wizard.pc # "idle" => backup.present /\ wizard.mode # "none"
  /\ wizard.pc = "conceal" => Saved = Size
  /\ wizard.pc \in {"conceal", "open"} => wizard.distance = 0 /\ ~wizard.changed
  /\ wizard.pc = "done" => Reached = IF Encrypting THEN 0 ELSE Size
  /\ wizard.pc = "primary" => Reached = 0
  /\ wizard.pc \in {"unconceal", "erase"} => Reached = Size

\* How far the backup header is behind the wizard.
Behind ==
  IF Encrypting THEN Saved = Reached + wizard.distance ELSE Reached = Saved + wizard.distance

DistanceInv ==
  /\ wizard.pc \in {"loop", "update", "check", "paused", "done"} => Behind
  /\ wizard.pc = "closing" => Behind \/ Saved = Reached
  /\ wizard.pc \in {"primary", "unconceal", "erase"} => Saved = Reached
  /\ Loaded => wizard.distance <= Interval
  /\ Loaded /\ ~wizard.changed => Saved = Reached
  /\ wizard.pc \in {"loop", "check"} =>
       /\ wizard.distance < Interval
       /\ Remaining > 0 => Whole(wizard.distance)

\* Position p is where it belongs when the encrypted area begins at position x.
Concealing(p) == IF p < Portion THEN Data(p, TRUE, FALSE) ELSE Data(p, FALSE, FALSE)
Right(p, x) ==
  IF p >= x THEN device[p + Offset] = Data(p, FALSE, TRUE) ELSE device[p] = Concealing(p)

Plain(p) == device[p] = Data(p, FALSE, FALSE)

\* Position p is where the backup header says it is.
AsSaved(p) == IF backup.present THEN Right(p, Saved) ELSE Plain(p)

ContentInv ==
  /\ wizard.pc = "idle" => \A p \in Positions \ lost : AsSaved(p)
  /\ wizard.pc = "conceal" =>
       FileSystemVisible /\ \A p \in Positions \ lost : Plain(p)
  /\ wizard.pc = "open" => \A p \in Positions \ lost : Right(p, Saved)
  /\ Loaded /\ wizard.pc # "erase" => \A p \in Positions \ lost : Right(p, Reached)
  /\ wizard.pc = "erase" => \A p \in Positions \ lost : Plain(p)

FinishedInv ==
  /\ wizard.finished = "encrypted" =>
       wizard.pc \in {"closing", "idle"} /\ \A p \in Positions \ lost : Right(p, 0)
  /\ wizard.finished = "decrypted" =>
       /\ wizard.pc = "idle" /\ ~backup.present
       /\ \A p \in Positions \ lost : Plain(p)

IInv == Types /\ AreaInv /\ DistanceInv /\ ContentInv /\ FinishedInv

-----------------------------------------------------------------------------
(* Arithmetic of the sizes.                                                *)

LEMMA Sizes ==
  ASSUME ConstantsOK
  PROVE  /\ Size \in Nat \ {0} /\ Offset \in Nat \ {0} /\ ChunkSize \in Nat \ {0}
         /\ Interval \in Nat \ {0} /\ Portion \in Nat \ {0}
         /\ Portion <= Offset /\ Portion <= ChunkSize /\ Portion <= Size
         /\ Interval % ChunkSize = 0
  BY DEF ConstantsOK

Chunks(n) == n \div ChunkSize

LEMMA DivMod ==
  ASSUME ConstantsOK, NEW n \in Nat
  PROVE  /\ Chunks(n) \in Nat /\ n % ChunkSize \in 0 .. ChunkSize - 1
         /\ n = ChunkSize * Chunks(n) + (n % ChunkSize)
<1>1. ChunkSize \in Nat \ {0}
  BY Sizes
<1> QED BY <1>1 DEF Chunks

LEMMA ModIs ==
  ASSUME ConstantsOK, NEW k \in Nat, NEW r \in 0 .. ChunkSize - 1
  PROVE  (ChunkSize * k + r) % ChunkSize = r
<1>1. ChunkSize \in Nat \ {0}
  BY Sizes
<1> QED BY <1>1

LEMMA WholeIs ==
  ASSUME ConstantsOK, NEW n
  PROVE  Whole(n) <=> \E k \in Nat : n = ChunkSize * k
<1>1. ASSUME Whole(n) PROVE \E k \in Nat : n = ChunkSize * k
  <2>1. n = ChunkSize * Chunks(n) + 0 /\ Chunks(n) \in Nat
    BY <1>1, DivMod DEF Whole
  <2>2. ChunkSize * Chunks(n) \in Nat
    BY <2>1, Sizes
  <2> QED BY <2>1, <2>2
<1>2. ASSUME NEW k \in Nat, n = ChunkSize * k PROVE Whole(n)
  <2>1. ChunkSize * k \in Nat /\ 0 \in 0 .. ChunkSize - 1
    BY Sizes
  <2>2. n \in Nat /\ n = ChunkSize * k + 0
    BY <1>2, <2>1
  <2>3. n % ChunkSize = 0
    BY <2>1, <2>2, ModIs
  <2> QED BY <2>2, <2>3 DEF Whole
<1> QED BY <1>1, <1>2

LEMMA WholePlus ==
  ASSUME ConstantsOK, NEW n, Whole(n)
  PROVE  /\ Whole(n + ChunkSize)
         /\ n >= ChunkSize => Whole(n - ChunkSize)
         /\ n # 0 => n >= ChunkSize
<1>1. PICK k \in Nat : n = ChunkSize * k
  BY WholeIs
<1>2. n + ChunkSize = ChunkSize * (k + 1) /\ k + 1 \in Nat
  BY <1>1, Sizes
<1>3. ASSUME n # 0
      PROVE  /\ n >= ChunkSize /\ k - 1 \in Nat
             /\ n - ChunkSize = ChunkSize * (k - 1)
  <2>1. k >= 1
    BY <1>1, <1>3, Sizes
  <2>2. ChunkSize * (k - 1) = ChunkSize * k - ChunkSize /\ ChunkSize * (k - 1) \in Nat
    BY <2>1, Sizes
  <2> QED BY <1>1, <2>1, <2>2, Sizes
<1>4. n >= ChunkSize => n # 0
  BY Sizes
<1> QED BY <1>2, <1>3, <1>4, WholeIs

\* Less than the interval, in whole chunks, leaves a chunk.
LEMMA WholeBelow ==
  ASSUME ConstantsOK, NEW n, Whole(n), n < Interval
  PROVE  n + ChunkSize <= Interval
<1>1. PICK k \in Nat : n = ChunkSize * k
  BY WholeIs
<1>2. Whole(Interval)
  BY Sizes DEF Whole
<1>3. PICK m \in Nat : Interval = ChunkSize * m
  BY <1>2, WholeIs
<1>4. k + 1 <= m
  BY <1>1, <1>3, Sizes
<1>5. ChunkSize * (k + 1) <= ChunkSize * m
  BY <1>4, Sizes
<1>6. ChunkSize * (k + 1) = n + ChunkSize
  BY <1>1, Sizes
<1> QED BY <1>3, <1>5, <1>6

LEMMA StopIs ==
  ASSUME ConstantsOK, NEW x
  PROVE  x \in Stops <=> x \in 0 .. Size /\ (Whole(x) \/ Whole(Size - x))
  BY Sizes DEF Stops, Whole

LEMMA WholeZero ==
  ASSUME ConstantsOK
  PROVE  Whole(0)
<1>1. ChunkSize * 0 = 0
  BY Sizes
<1> QED BY <1>1, WholeIs

LEMMA EndsAreStops ==
  ASSUME ConstantsOK
  PROVE  0 \in Stops /\ Size \in Stops
<1>1. Size - Size = 0 /\ 0 \in 0 .. Size /\ Size \in 0 .. Size
  BY Sizes
<1>2. Whole(0)
  BY WholeZero
<1> QED BY <1>1, <1>2, StopIs

\* Encryption stops a chunk further down, decryption a chunk further up.
LEMMA NextStops ==
  ASSUME ConstantsOK, NEW x \in Stops
  PROVE  /\ x - Lower(x, ChunkSize) \in Stops
         /\ x + Lower(Size - x, ChunkSize) \in Stops
<1>1. x \in 0 .. Size /\ Size \in Nat /\ ChunkSize \in Nat \ {0} /\ (Whole(x) \/ Whole(Size - x))
  BY StopIs, Sizes
<1>2. x - Lower(x, ChunkSize) \in Stops
  <2>1. CASE x < ChunkSize
    BY <1>1, <2>1, EndsAreStops DEF Lower
  <2>2. CASE ~(x < ChunkSize)
    <3>1. Lower(x, ChunkSize) = ChunkSize
      BY <1>1, <2>2 DEF Lower
    <3>2. Whole(x) => Whole(x - ChunkSize)
      BY <1>1, <2>2, WholePlus
    <3>3. Whole(Size - x) => Whole(Size - (x - ChunkSize))
      <4>1. Size - (x - ChunkSize) = (Size - x) + ChunkSize
        BY <1>1
      <4> QED BY <4>1, WholePlus
    <3> QED BY <1>1, <2>2, <3>1, <3>2, <3>3, StopIs
  <2> QED BY <2>1, <2>2
<1>3. x + Lower(Size - x, ChunkSize) \in Stops
  <2>1. CASE Size - x < ChunkSize
    BY <1>1, <2>1, EndsAreStops DEF Lower
  <2>2. CASE ~(Size - x < ChunkSize)
    <3>1. Lower(Size - x, ChunkSize) = ChunkSize
      BY <1>1, <2>2 DEF Lower
    <3>2. Whole(x) => Whole(x + ChunkSize)
      BY WholePlus
    <3>3. Whole(Size - x) => Whole(Size - (x + ChunkSize))
      <4>1. Size - (x + ChunkSize) = (Size - x) - ChunkSize /\ Size - x >= ChunkSize
        BY <1>1, <2>2
      <4> QED BY <4>1, WholePlus
    <3> QED BY <1>1, <2>2, <3>1, <3>2, <3>3, StopIs
  <2> QED BY <2>1, <2>2
<1> QED BY <1>2, <1>3

\* The wizard does not stop inside the masked portion.
LEMMA StopsAvoidPortion ==
  ASSUME ConstantsOK, NoShortRest, NEW x \in Stops, x < Portion
  PROVE  x = 0
<1>1. x \in 0 .. Size /\ (Whole(x) \/ Whole(Size - x)) /\ x < ChunkSize
  BY StopIs, Sizes
<1>2. CASE Whole(x)
  <2>1. x # 0 => x >= ChunkSize
    BY <1>2, WholePlus
  <2>2. ChunkSize \in Nat \ {0} /\ Size \in Nat
    BY Sizes
  <2> QED BY <1>1, <2>1, <2>2
<1>3. CASE Whole(Size - x)
  <2>1. PICK k \in Nat : Size - x = ChunkSize * k
    BY <1>3, WholeIs
  <2>2. ChunkSize * k \in Nat /\ x \in 0 .. ChunkSize - 1
    BY <1>1, Sizes
  <2>3. Size = ChunkSize * k + x
    BY <1>1, <2>1, <2>2, Sizes
  <2>4. Size % ChunkSize = x
    BY <2>2, <2>3, ModIs
  <2>5. x < Portion /\ Portion \in Nat \ {0} /\ Size \in Nat /\ x \in Int
    BY <1>1, Sizes
  <2>6. Size % ChunkSize = 0 \/ Size % ChunkSize >= Portion
    BY DEF NoShortRest
  <2> QED BY <2>4, <2>5, <2>6
<1> QED BY <1>1, <1>2, <1>3

-----------------------------------------------------------------------------
(* The content of the cells.                                               *)

LEMMA ContentTypes ==
  ASSUME ConstantsOK, NEW c \in Content
  PROVE  Junk \in Content /\ Encrypt(c) \in Content /\ Decrypt(c) \in Content /\ Mask(c) \in Content
<1>1. Junk \in Content
  BY Sizes DEF Junk, Data, Content
<1>2. [c EXCEPT !.cipher = TRUE] \in Content /\ [c EXCEPT !.cipher = FALSE] \in Content
      /\ [c EXCEPT !.masked = ~@] \in Content
  BY DEF Content
<1> QED BY <1>1, <1>2 DEF Encrypt, Decrypt, Mask

LEMMA Coding ==
  ASSUME ConstantsOK, NEW p \in Positions, NEW m \in BOOLEAN
  PROVE  /\ Encrypt(Data(p, m, FALSE)) = Data(p, m, TRUE)
         /\ Decrypt(Data(p, m, TRUE)) = Data(p, m, FALSE)
         /\ Mask(Data(p, m, FALSE)) = Data(p, ~m, FALSE)
<1>1. Data(p, m, FALSE) # Junk /\ Data(p, m, TRUE) # Junk
  BY Sizes DEF Positions, Junk, Data
<1>2. Data(p, m, FALSE) \in Content /\ Data(p, m, TRUE) \in Content
  BY Sizes DEF Positions, Data, Content
<1>3. ASSUME NEW c \in Content, NEW b \in BOOLEAN
      PROVE  /\ [c EXCEPT !.cipher = b] = Data(c.pos, c.masked, b)
             /\ [c EXCEPT !.masked = b] = Data(c.pos, b, c.cipher)
  <2>1. [c EXCEPT !.cipher = b] = [pos |-> c.pos, masked |-> c.masked, cipher |-> b]
    BY DEF Content
  <2>2. [c EXCEPT !.masked = b] = [pos |-> c.pos, masked |-> b, cipher |-> c.cipher]
    BY DEF Content
  <2> QED BY <2>1, <2>2 DEF Data
<1>4. \A b \in BOOLEAN : Data(p, m, b).pos = p /\ Data(p, m, b).masked = m /\ Data(p, m, b).cipher = b
  BY DEF Data
<1>5. PICK plain \in Content : plain = Data(p, m, FALSE)
  BY <1>2
<1>6. PICK coded \in Content : coded = Data(p, m, TRUE)
  BY <1>2
<1>7. /\ Encrypt(plain) = Data(plain.pos, plain.masked, TRUE)
      /\ Mask(plain) = Data(plain.pos, ~plain.masked, plain.cipher)
      /\ Decrypt(coded) = Data(coded.pos, coded.masked, FALSE)
  BY <1>1, <1>3, <1>4, <1>5, <1>6 DEF Encrypt, Decrypt, Mask
<1> QED BY <1>4, <1>5, <1>6, <1>7

LEMMA ConcealingIs ==
  ASSUME ConstantsOK, NEW p \in Positions
  PROVE  Concealing(p) = Data(p, p < Portion, FALSE)
<1>1. CASE p < Portion
  <2>1. (p < Portion) = TRUE
    BY <1>1
  <2> QED BY <1>1, <2>1 DEF Concealing
<1>2. CASE ~(p < Portion)
  <2>1. (p < Portion) = FALSE
    BY <1>2
  <2> QED BY <1>2, <2>1 DEF Concealing
<1> QED BY <1>1, <1>2

-----------------------------------------------------------------------------
(* The chunk at hand.                                                      *)

AtChunk == wizard.pc = "loop" /\ Remaining > 0

\* The positions of the chunk, and the cell that position p goes to.
Chunk ==
  IF Encrypting THEN Reached - WorkChunkSize .. Reached - 1
  ELSE Reached .. Reached + WorkChunkSize - 1
From(p) == IF Encrypting THEN p ELSE p + Offset
To(p) == IF Encrypting THEN p + Offset ELSE p

\* Where the wizard is when the chunk is done.
ReachedNext == IF Encrypting THEN Reached - WorkChunkSize ELSE Reached + WorkChunkSize

LEMMA ChunkIs ==
  ASSUME ConstantsOK, Types, AreaInv, AtChunk
  PROVE  /\ Reached \in Stops /\ ReachedNext \in Stops /\ Stops \subseteq 0 .. Size
         /\ WorkChunkSize \in 1 .. ChunkSize
         /\ wizard.mode = IF Encrypting THEN "encrypt" ELSE "decrypt"
         /\ Encrypting => /\ WorkChunkSize = Lower(Reached, ChunkSize)
                          /\ SourceStart = Reached - WorkChunkSize
                          /\ TargetStart = Reached - WorkChunkSize + Offset
                          /\ WorkChunkSize <= Reached
         /\ ~Encrypting => /\ WorkChunkSize = Lower(Size - Reached, ChunkSize)
                           /\ SourceStart = Reached + Offset
                           /\ TargetStart = Reached
                           /\ Reached + WorkChunkSize <= Size
<1>1. /\ Size \in Nat \ {0} /\ Offset \in Nat \ {0} /\ ChunkSize \in Nat \ {0}
      /\ wizard.start \in 0 .. Size + Offset /\ wizard.length \in 0 .. Size
      /\ wizard.start + wizard.length = Size + Offset /\ Reached \in Stops
      /\ wizard.mode \in {"encrypt", "decrypt"}
  BY Sizes DEF Types, WizardType, AreaInv, AtChunk, Loaded
<1>2. Stops \subseteq 0 .. Size
  BY DEF Stops
<1>3. Remaining = IF Encrypting THEN Reached ELSE Size - Reached
  BY <1>1 DEF Remaining, Encrypting, Reached
<1>4. Remaining > 0 /\ Remaining \in Nat
  BY <1>1, <1>3, <1>2 DEF AtChunk
<1>5. WorkChunkSize = Lower(Remaining, ChunkSize) /\ WorkChunkSize \in 1 .. ChunkSize
      /\ WorkChunkSize <= Remaining
  BY <1>1, <1>4 DEF WorkChunkSize, Lower
<1>6. ReachedNext \in Stops
  BY <1>1, <1>3, <1>5, NextStops DEF ReachedNext
<1>7. /\ SourceStart = IF Encrypting THEN Reached - WorkChunkSize ELSE Reached + Offset
      /\ TargetStart = IF Encrypting THEN Reached - WorkChunkSize + Offset ELSE Reached
  BY <1>1, <1>5 DEF SourceStart, TargetStart, Reached, Encrypting
<1> QED BY <1>1, <1>2, <1>3, <1>5, <1>6, <1>7 DEF Encrypting

\* The cells that are read and written.
LEMMA ChunkCells ==
  ASSUME ConstantsOK, Types, AreaInv, AtChunk
  PROVE  /\ Chunk \subseteq Positions
         /\ Target \subseteq Cells
         /\ \A i : i \in Target <=> \E p \in Chunk : i = To(p)
         /\ \A p \in Chunk : To(p) - TargetStart \in 0 .. WorkChunkSize - 1
                             /\ SourceStart + (To(p) - TargetStart) = From(p)
                             /\ From(p) \in Cells
<1>1. /\ Size \in Nat \ {0} /\ Offset \in Nat \ {0} /\ Reached \in 0 .. Size
      /\ WorkChunkSize \in Nat \ {0}
  BY Sizes, ChunkIs
<1>2. CASE Encrypting
  <2>1. /\ SourceStart = Reached - WorkChunkSize /\ TargetStart = Reached - WorkChunkSize + Offset
        /\ WorkChunkSize <= Reached
    BY <1>2, ChunkIs
  <2>2. ASSUME NEW i \in Target PROVE i \in Cells /\ i - Offset \in Chunk
    BY <1>1, <1>2, <2>1 DEF Target, Cells, Chunk
  <2>3. ASSUME NEW p \in Chunk
        PROVE  /\ p \in Positions /\ p \in Cells /\ p + Offset \in Target /\ p \in Int
               /\ p + Offset - TargetStart \in 0 .. WorkChunkSize - 1
               /\ SourceStart + (p + Offset - TargetStart) = p
    BY <1>1, <1>2, <2>1 DEF Target, Cells, Chunk, Positions
  <2>4. \A i \in Target : i = (i - Offset) + Offset
    BY <1>1, <2>1 DEF Target
  <2>5. /\ Chunk \subseteq Positions /\ Target \subseteq Cells
        /\ \A i : i \in Target <=> \E p \in Chunk : i = p + Offset
    BY <2>2, <2>3, <2>4
  <2>6. \A p \in Chunk : To(p) = p + Offset /\ From(p) = p
    BY <1>2 DEF To, From
  <2>7. ASSUME NEW p \in Chunk
        PROVE  /\ To(p) - TargetStart \in 0 .. WorkChunkSize - 1
               /\ SourceStart + (To(p) - TargetStart) = From(p) /\ From(p) \in Cells
    <3>1. To(p) = p + Offset /\ From(p) = p
      BY <2>6
    <3>2. /\ p \in Cells /\ p + Offset - TargetStart \in 0 .. WorkChunkSize - 1
          /\ SourceStart + (p + Offset - TargetStart) = p
      BY <2>3
    <3>3. p \in Int /\ Offset \in Int /\ TargetStart \in Int
      BY <1>1, <2>1, <2>3
    <3>4. To(p) - TargetStart = p + Offset - TargetStart
      BY <3>1, <3>3
    <3> QED BY <3>1, <3>2, <3>4
  <2>8. \A i : i \in Target <=> \E p \in Chunk : i = To(p)
    BY <2>5, <2>6
  <2> QED BY <2>5, <2>7, <2>8
<1>3. CASE ~Encrypting
  <2>1. SourceStart = Reached + Offset /\ TargetStart = Reached /\ Reached + WorkChunkSize <= Size
    BY <1>3, ChunkIs
  <2>2. ASSUME NEW i \in Target PROVE i \in Cells /\ i \in Chunk
    BY <1>1, <1>3, <2>1 DEF Target, Cells, Chunk
  <2>3. ASSUME NEW p \in Chunk
        PROVE  /\ p \in Positions /\ p + Offset \in Cells /\ p \in Target
               /\ p - TargetStart \in 0 .. WorkChunkSize - 1
               /\ SourceStart + (p - TargetStart) = p + Offset
    BY <1>1, <1>3, <2>1 DEF Target, Cells, Chunk, Positions
  <2> QED BY <1>3, <2>2, <2>3 DEF To, From
<1> QED BY <1>2, <1>3

\* The wizard masks, or unmasks, the cells of the chunk that belong to the masked portion.
LEMMA MaskedIs ==
  ASSUME ConstantsOK, NoShortRest, Types, AreaInv, AtChunk, NEW p \in Chunk
  PROVE  To(p) - TargetStart < MaskedCells <=> p < Portion
<1>1. /\ Size \in Nat \ {0} /\ Offset \in Nat \ {0} /\ ChunkSize \in Nat \ {0}
      /\ Portion \in Nat \ {0} /\ Portion <= ChunkSize /\ Portion <= Size
      /\ Reached \in 0 .. Size /\ WorkChunkSize \in Nat \ {0} /\ p \in Int
      /\ wizard.start \in Int
  BY Sizes, ChunkIs, ChunkCells DEF Positions, Types, WizardType
<1>2. CASE Encrypting
  <2>1. TargetStart = Reached - WorkChunkSize + Offset
    BY <1>2, ChunkIs
  <2>2. MaskedCells = Portion - (Reached - WorkChunkSize)
    <3>1. Remaining = Reached
      BY <1>1, <1>2 DEF Types, WizardType, AreaInv, AtChunk, Loaded, Remaining, Encrypting, Reached
    <3> QED BY <1>2, <3>1 DEF MaskedCells, Encrypting
  <2> QED BY <1>1, <1>2, <2>1, <2>2 DEF To
<1>3. CASE ~Encrypting
  <2>1. TargetStart = Reached /\ WorkChunkSize = Lower(Size - Reached, ChunkSize)
        /\ p \in Reached .. Reached + WorkChunkSize - 1
    BY <1>3, ChunkIs DEF Chunk
  <2>2. MaskedCells = IF Reached < Portion THEN Lower(Portion, Reached + WorkChunkSize) ELSE 0
    BY <1>3 DEF MaskedCells, Encrypting, Reached
  <2>3. CASE Reached < Portion
    <3>1. Reached = 0
      BY <2>3, StopsAvoidPortion, ChunkIs
    <3>2. MaskedCells = Portion
      BY <1>1, <2>1, <2>2, <3>1 DEF Lower
    <3> QED BY <1>1, <1>3, <2>1, <3>1, <3>2 DEF To
  <2>4. CASE ~(Reached < Portion)
    BY <1>1, <1>3, <2>1, <2>2, <2>4 DEF To
  <2> QED BY <2>3, <2>4
<1> QED BY <1>2, <1>3

LEMMA BufferTypes ==
  ASSUME ConstantsOK, Types, AreaInv, AtChunk
  PROVE  \A i \in Target : Buffer[i] \in Content
<1> SUFFICES ASSUME NEW i \in Target PROVE Buffer[i] \in Content
  OBVIOUS
<1>1. PICK p \in Chunk : i = To(p)
  BY ChunkCells
<1>2. device[SourceStart + (i - TargetStart)] \in Content
  BY <1>1, ChunkCells DEF Types, DeviceType
<1> DEFINE read == device[SourceStart + (i - TargetStart)]
<1>3. /\ Encrypt(read) \in Content /\ Encrypt(Mask(read)) \in Content
      /\ Decrypt(read) \in Content /\ Mask(Decrypt(read)) \in Content
  <2> HIDE DEF read
  <2>1. read \in Content
    BY <1>2 DEF read
  <2>2. PICK r \in Content : r = read
    BY <2>1
  <2>3. Mask(r) \in Content /\ Decrypt(r) \in Content /\ Encrypt(r) \in Content
    BY ContentTypes
  <2>4. \A x \in Content : Encrypt(x) \in Content /\ Mask(x) \in Content
    BY ContentTypes
  <2> QED BY <2>2, <2>3, <2>4
<1> QED BY <1>3 DEF Buffer

\* What the wizard makes of a position that is as it should be.
LEMMA BufferIs ==
  ASSUME ConstantsOK, NoShortRest, Types, AreaInv, AtChunk, NEW p \in Chunk, Right(p, Reached)
  PROVE  Buffer[To(p)] = IF Encrypting THEN Data(p, FALSE, TRUE) ELSE Concealing(p)
<1>1. /\ To(p) \in Target /\ SourceStart + (To(p) - TargetStart) = From(p)
      /\ p \in Positions /\ Portion \in Nat /\ p \in Int
  BY ChunkCells, Sizes DEF Positions
<1>2. To(p) - TargetStart < MaskedCells <=> p < Portion
  BY MaskedIs
<1>3. CASE Encrypting
  <2>1. ~(p >= Reached)
    <3>1. p < Reached /\ Reached \in Int
      BY <1>1, <1>3, ChunkIs DEF Chunk
    <3> QED BY <1>1, <3>1
  <2>2. device[From(p)] = Concealing(p)
    BY <1>3, <2>1, Zenon DEF Right, From
  <2>3. Buffer[To(p)] = Encrypt(IF p < Portion THEN Mask(device[From(p)]) ELSE device[From(p)])
    BY <1>1, <1>2, <1>3 DEF Buffer, Encrypting
  <2>4. CASE p < Portion
    <3>1. device[From(p)] = Data(p, TRUE, FALSE) /\ Buffer[To(p)] = Encrypt(Mask(device[From(p)]))
      BY <2>2, <2>3, <2>4 DEF Concealing
    <3> QED BY <1>1, <1>3, <3>1, Coding
  <2>5. CASE ~(p < Portion)
    <3>1. device[From(p)] = Data(p, FALSE, FALSE) /\ Buffer[To(p)] = Encrypt(device[From(p)])
      BY <2>2, <2>3, <2>5 DEF Concealing
    <3> QED BY <1>1, <1>3, <3>1, Coding
  <2> QED BY <2>4, <2>5
<1>4. CASE ~Encrypting
  <2>1. p >= Reached /\ Reached \in Int
    BY <1>1, <1>4, ChunkIs DEF Chunk
  <2>2. device[From(p)] = Data(p, FALSE, TRUE)
    BY <1>1, <1>4, <2>1 DEF Right, From
  <2>3. Buffer[To(p)] = IF p < Portion THEN Mask(Decrypt(device[From(p)]))
                        ELSE Decrypt(device[From(p)])
    BY <1>1, <1>2, <1>4 DEF Buffer, Encrypting
  <2>4. CASE p < Portion
    <3>1. Buffer[To(p)] = Data(p, TRUE, FALSE)
      BY <1>1, <2>2, <2>3, <2>4, Coding
    <3> QED BY <1>4, <2>4, <3>1 DEF Concealing
  <2>5. CASE ~(p < Portion)
    <3>1. Buffer[To(p)] = Data(p, FALSE, FALSE)
      BY <1>1, <2>2, <2>3, <2>5, Coding
    <3> QED BY <1>4, <2>5, <3>1 DEF Concealing
  <2> QED BY <2>4, <2>5
<1> QED BY <1>3, <1>4

-----------------------------------------------------------------------------
(* What the steps do to the state of the wizard.                           *)

LEMMA PcMoves ==
  ASSUME ConstantsOK, WizardType, NEW x \in Pcs, ToPc(x)
  PROVE  /\ WizardType' /\ wizard'.pc = x
         /\ wizard'.mode = wizard.mode /\ wizard'.start = wizard.start
         /\ wizard'.length = wizard.length /\ wizard'.distance = wizard.distance
         /\ wizard'.changed = wizard.changed /\ wizard'.finished = wizard.finished
  BY DEF WizardType, ToPc

LEMMA WizardFields ==
  ASSUME ConstantsOK, WizardType
  PROVE  /\ wizard.pc \in Pcs /\ wizard.mode \in {"none", "encrypt", "decrypt"}
         /\ wizard.start \in 0 .. Size + Offset /\ wizard.length \in 0 .. Size
         /\ wizard.distance \in Nat /\ wizard.changed \in BOOLEAN
         /\ wizard.finished \in {"none", "encrypted", "decrypted"}
  BY DEF WizardType

\* The wizard is idle, or has a direction to go.
LEMMA IdleMoves ==
  ASSUME ConstantsOK, NEW x \in Pcs, NEW m \in {"none", "encrypt", "decrypt"},
         wizard' = [Idle EXCEPT !.pc = x, !.mode = m]
  PROVE  /\ WizardType' /\ wizard'.pc = x /\ wizard'.mode = m
         /\ wizard'.distance = 0 /\ ~wizard'.changed /\ wizard'.finished = "none"
<1>1. 0 \in 0 .. Size + Offset /\ 0 \in 0 .. Size /\ 0 \in Nat
  BY Sizes
<1> QED BY <1>1 DEF WizardType, Idle, Pcs

LEMMA IdleAgain ==
  ASSUME ConstantsOK, NEW f \in {"none", "encrypted", "decrypted"},
         wizard' = [Idle EXCEPT !.finished = f]
  PROVE  /\ WizardType' /\ wizard'.pc = "idle" /\ wizard'.finished = f
<1>1. 0 \in 0 .. Size + Offset /\ 0 \in 0 .. Size /\ 0 \in Nat
  BY Sizes
<1> QED BY <1>1 DEF WizardType, Idle, Pcs

LEMMA BackupWritten ==
  ASSUME ConstantsOK, NEW s \in 0 .. Size + Offset, NEW n \in 0 .. Size,
         backup' = [present |-> TRUE, start |-> s, length |-> n]
  PROVE  BackupType' /\ backup'.present /\ backup'.start = s /\ backup'.length = n
  BY DEF BackupType

-----------------------------------------------------------------------------
(* What a resumed process looks for.                                       *)

LEMMA SavedIs ==
  ASSUME ConstantsOK, BackupType, NEW p \in Positions
  PROVE  /\ Place(p) = IF backup.present /\ p >= Saved THEN p + Offset ELSE p
         /\ Expected(p) = IF ~backup.present THEN Data(p, FALSE, FALSE)
                          ELSE IF p >= Saved THEN Data(p, FALSE, TRUE) ELSE Concealing(p)
         /\ Place(p) \in Cells
<1>1. p \in Int /\ Offset \in Nat /\ Size \in Nat /\ backup.start \in Int /\ p \in 0 .. Size - 1
  BY Sizes DEF Positions, BackupType
<1>2. p + Offset >= backup.start <=> p >= Saved
  BY <1>1 DEF Saved
<1>3. Concealing(p) = Data(p, p < Portion, FALSE)
  BY ConcealingIs
<1>4. p \in Cells /\ p + Offset \in Cells
  BY <1>1 DEF Cells
<1> QED BY <1>2, <1>3, <1>4 DEF Place, Expected

LEMMA MatchIs ==
  ASSUME ConstantsOK, BackupType, NEW p \in Positions
  PROVE  device[Place(p)] = Expected(p) <=> AsSaved(p)
<1>1. CASE backup.present
  BY <1>1, SavedIs DEF AsSaved, Right
<1>2. CASE ~backup.present
  BY <1>2, SavedIs DEF AsSaved, Plain
<1> QED BY <1>1, <1>2

\* What is not lost is not a mismatch.
LEMMA NoMismatch ==
  ASSUME ConstantsOK, BackupType, NEW p \in Positions, p \notin lost \cup Mismatch
  PROVE  AsSaved(p)
  BY MatchIs DEF Mismatch


LEMMA IdleIs ==
  ASSUME ConstantsOK, wizard' = Idle
  PROVE  WizardType' /\ wizard'.pc = "idle" /\ wizard'.finished = "none"
<1>1. 0 \in 0 .. Size + Offset /\ 0 \in 0 .. Size /\ 0 \in Nat
  BY Sizes
<1> QED BY <1>1 DEF WizardType, Idle, Pcs

\* A failing access is counted; the positions that are lost are positions.
LEMMA FailureCounted ==
  ASSUME ConstantsOK, FailuresType, AccessFails
  PROVE  FailuresType'
  BY DEF FailuresType, AccessFails

LEMMA MismatchType ==
  ASSUME ConstantsOK, LostType
  PROVE  lost \cup Mismatch \subseteq Positions
  BY DEF LostType, Mismatch

-----------------------------------------------------------------------------
(* The invariant, action by action: the start.                             *)

LEMMA BeginInv ==
  ASSUME ConstantsOK, IInv, Begin
  PROVE  IInv'
<1> USE DEF IInv, Types
<1>0. Size \in Nat \ {0} /\ Offset \in Nat \ {0} /\ Portion \in Nat /\ Portion <= Size
  BY Sizes
<1>1. /\ WizardType' /\ wizard'.pc = "conceal" /\ wizard'.mode = "encrypt"
      /\ wizard'.distance = 0 /\ ~wizard'.changed /\ wizard'.finished = "none"
  BY IdleMoves DEF Begin, Pcs
<1>2. Size + Offset \in 0 .. Size + Offset /\ 0 \in 0 .. Size
  BY <1>0
<1>3. /\ BackupType' /\ backup'.present /\ backup'.start = Size + Offset /\ backup'.length = 0
  BY <1>2, BackupWritten DEF Begin
<1>4. Types'
  BY <1>1, <1>3 DEF Begin, DeviceType, LostType, FailuresType
<1>5. AreaInv' /\ DistanceInv'
  <2>1. Saved' = Size /\ Size \in Stops
    BY <1>0, <1>3, EndsAreStops DEF Saved
  <2> QED BY <1>0, <1>1, <1>3, <2>1 DEF AreaInv, DistanceInv, Loaded
<1>6. ContentInv'
  <2>1. FileSystemVisible'
    BY DEF Begin, FileSystemVisible
  <2>2. ASSUME NEW p \in Positions \ lost PROVE device[p] = Data(p, FALSE, FALSE)
    <3>1. AsSaved(p) /\ p \in Int /\ p \in 0 .. Size - 1
      BY <2>2 DEF ContentInv, Begin, Positions
    <3>2. CASE p < Portion
      <4>1. p \in 0 .. Portion - 1
        BY <1>0, <3>1, <3>2
      <4> QED BY <4>1 DEF Begin, FileSystemVisible
    <3>3. CASE ~(p < Portion)
      <4>1. CASE backup.present
        <5>1. backup.start + backup.length = Size + Offset /\ backup.length = 0
              /\ backup.start \in Int
          BY <4>1 DEF AreaInv, Begin, BackupType
        <5>2. Saved = Size
          BY <1>0, <5>1 DEF Saved
        <5>3. ~(p >= Saved)
          BY <1>0, <3>1, <5>2
        <5> QED BY <3>1, <3>3, <4>1, <5>3 DEF AsSaved, Right, Concealing
      <4>2. CASE ~backup.present
        BY <3>1, <4>2 DEF AsSaved, Plain
      <4> QED BY <4>1, <4>2
    <3> QED BY <3>2, <3>3
  <2> QED BY <1>1, <2>1, <2>2 DEF ContentInv, Begin, Plain, Loaded
<1>7. FinishedInv'
  BY <1>1 DEF FinishedInv
<1> QED BY <1>4, <1>5, <1>6, <1>7

\* Concealing, in either direction.
LEMMA ConcealedIs ==
  ASSUME ConstantsOK, DeviceType, device' = Concealed
  PROVE  /\ DeviceType'
         /\ \A i \in Cells : device'[i] = IF i < Portion THEN Mask(device[i]) ELSE device[i]
         /\ \A p \in Positions : p \in Cells
<1>1. \A i \in Cells : Mask(device[i]) \in Content
  BY ContentTypes DEF DeviceType
<1>2. \A p \in Positions : p \in Cells
  BY Sizes DEF Positions, Cells
<1> QED BY <1>1, <1>2 DEF DeviceType, Concealed

LEMMA ConcealInv ==
  ASSUME ConstantsOK, IInv, Conceal
  PROVE  IInv'
<1> USE DEF IInv, Types
<1>0. Size \in Nat \ {0} /\ Portion \in Nat
  BY Sizes
<1>1. /\ WizardType' /\ wizard.pc = "conceal" /\ wizard'.pc = "open" /\ wizard'.mode = wizard.mode
      /\ wizard'.distance = wizard.distance /\ wizard'.changed = wizard.changed
      /\ wizard'.finished = wizard.finished
  BY PcMoves DEF Conceal, Pcs
<1>2. /\ DeviceType' /\ \A i \in Cells : device'[i] = IF i < Portion THEN Mask(device[i]) ELSE device[i]
  BY ConcealedIs DEF Conceal
<1>3. backup' = backup /\ lost' = lost /\ failures' = failures /\ Saved' = Saved
  BY DEF Conceal, Saved
<1>4. Types'
  BY <1>1, <1>2, <1>3 DEF BackupType, LostType, FailuresType
<1>5. AreaInv' /\ DistanceInv'
  BY <1>1, <1>3 DEF AreaInv, DistanceInv, Loaded
<1>6. ContentInv'
  <2>1. ASSUME NEW p \in Positions \ lost PROVE Right(p, Saved)'
    <3>1. device[p] = Data(p, FALSE, FALSE) /\ p \in Cells /\ p \in 0 .. Size - 1 /\ Saved = Size
      BY <1>1, <2>1, ConcealedIs DEF ContentInv, AreaInv, Plain, Conceal, Positions
    <3>2. device'[p] = Concealing(p)
      BY <1>2, <3>1, Coding DEF Concealing
    <3>3. ~(p >= Saved')
      BY <1>0, <1>3, <3>1
    <3> QED BY <3>2, <3>3 DEF Right
  <2> QED BY <1>1, <1>3, <2>1 DEF ContentInv, Loaded
<1>7. FinishedInv'
  BY <1>1 DEF FinishedInv
<1> QED BY <1>4, <1>5, <1>6, <1>7

LEMMA ConcealFailsInv ==
  ASSUME ConstantsOK, IInv, ConcealFails
  PROVE  IInv'
<1> USE DEF IInv, Types
<1>1. WizardType' /\ wizard'.pc = "idle" /\ wizard'.finished = "none"
  BY IdleIs DEF ConcealFails
<1>2. UNCHANGED <<device, backup>> /\ lost' = lost \cup Mismatch
  BY DEF ConcealFails
<1>3. Types'
  BY <1>1, <1>2, FailureCounted, MismatchType DEF ConcealFails, DeviceType, BackupType, LostType
<1>4. AreaInv' /\ DistanceInv'
  BY <1>1, <1>2 DEF AreaInv, DistanceInv, Loaded, Saved
<1>5. ContentInv'
  <2>1. ASSUME NEW p \in Positions \ lost' PROVE AsSaved(p)'
    <3>1. AsSaved(p)
      BY <1>2, <2>1, NoMismatch
    <3> QED BY <1>2, <3>1 DEF AsSaved, Right, Plain, Saved
  <2> QED BY <1>1, <2>1 DEF ContentInv, Loaded
<1>6. FinishedInv'
  BY <1>1 DEF FinishedInv
<1> QED BY <1>3, <1>4, <1>5, <1>6

LEMMA ResumeInv ==
  ASSUME ConstantsOK, IInv, NEW m \in {"encrypt", "decrypt"}, Resume(m)
  PROVE  IInv'
<1> USE DEF IInv, Types
<1>1. /\ WizardType' /\ wizard'.pc = "open" /\ wizard'.mode = m
      /\ wizard'.distance = 0 /\ ~wizard'.changed /\ wizard'.finished = "none"
  BY IdleMoves DEF Resume, Pcs
<1>2. UNCHANGED <<device, backup, lost, failures>> /\ wizard.pc = "idle" /\ backup.present
  BY DEF Resume
<1>3. Types'
  BY <1>1, <1>2 DEF DeviceType, BackupType, LostType, FailuresType
<1>4. AreaInv' /\ DistanceInv'
  BY <1>1, <1>2 DEF AreaInv, DistanceInv, Loaded, Saved
<1>5. ContentInv'
  <2>1. ASSUME NEW p \in Positions \ lost PROVE Right(p, Saved)'
    BY <1>2, <2>1 DEF ContentInv, AsSaved, Right, Saved
  <2> QED BY <1>1, <1>2, <2>1 DEF ContentInv, Loaded
<1>6. FinishedInv'
  BY <1>1 DEF FinishedInv
<1> QED BY <1>3, <1>4, <1>5, <1>6

LEMMA OpenInv ==
  ASSUME ConstantsOK, IInv, Open
  PROVE  IInv'
<1> USE DEF IInv, Types
<1>0. Interval \in Nat \ {0}
  BY Sizes
<1>1. /\ WizardType' /\ wizard.pc = "open" /\ wizard'.pc = "loop" /\ wizard'.mode = wizard.mode
      /\ wizard'.start = backup.start /\ wizard'.length = backup.length
      /\ wizard'.distance = wizard.distance /\ wizard'.changed = wizard.changed
      /\ wizard'.finished = wizard.finished
  BY DEF Open, WizardType, BackupType, Pcs
<1>2. UNCHANGED <<device, backup, lost, failures>>
  BY DEF Open
<1>3. Types'
  BY <1>1, <1>2 DEF DeviceType, BackupType, LostType, FailuresType
<1>4. Saved' = Saved /\ Reached' = Saved /\ Saved \in Int /\ wizard'.distance = 0 /\ ~wizard'.changed
      /\ backup.present /\ wizard.mode # "none"
  BY <1>1, <1>2, Sizes DEF Saved, Reached, BackupType, AreaInv
<1>5. AreaInv'
  BY <1>1, <1>2, <1>4 DEF AreaInv, Loaded
<1>6. DistanceInv'
  <2>1. Whole(0)
    BY WholeZero
  <2>2. Behind'
    BY <1>1, <1>4 DEF Behind
  <2> QED BY <1>0, <1>1, <1>4, <2>1, <2>2 DEF DistanceInv, Loaded
<1>7. ContentInv'
  <2>1. ASSUME NEW p \in Positions \ lost PROVE Right(p, Reached)'
    BY <1>1, <1>2, <1>4, <2>1 DEF ContentInv, Right
  <2> QED BY <1>1, <1>2, <2>1 DEF ContentInv, Loaded
<1>8. FinishedInv'
  BY <1>1 DEF FinishedInv
<1> QED BY <1>3, <1>5, <1>6, <1>7, <1>8


-----------------------------------------------------------------------------
(* The loops.                                                              *)

\* What is not in the chunk is not touched.
LEMMA OutsideChunk ==
  ASSUME ConstantsOK, Types, AreaInv, AtChunk, NEW p \in Positions, p \notin Chunk
  PROVE  /\ p >= ReachedNext <=> p >= Reached
         /\ p >= Reached => p + Offset \in Cells \ Target
         /\ ~(p >= Reached) => p \in Cells \ Target
<1>1. /\ Size \in Nat \ {0} /\ Offset \in Nat \ {0} /\ Reached \in 0 .. Size
      /\ WorkChunkSize \in Nat \ {0} /\ p \in 0 .. Size - 1
  BY Sizes, ChunkIs DEF Positions
<1>2. p \in Cells /\ p + Offset \in Cells
  BY <1>1 DEF Cells
<1>3. CASE Encrypting
  <2>1. TargetStart = Reached - WorkChunkSize + Offset
    BY <1>3, ChunkIs
  <2> QED BY <1>1, <1>2, <1>3, <2>1 DEF Chunk, Target, ReachedNext
<1>4. CASE ~Encrypting
  <2>1. TargetStart = Reached
    BY <1>4, ChunkIs
  <2> QED BY <1>1, <1>2, <1>4, <2>1 DEF Chunk, Target, ReachedNext
<1> QED BY <1>3, <1>4

LEMMA InChunk ==
  ASSUME ConstantsOK, Types, AreaInv, AtChunk, NEW p \in Chunk
  PROVE  /\ p \in Positions /\ To(p) \in Target /\ From(p) \in Cells
         /\ p >= ReachedNext <=> Encrypting
         /\ p >= Reached <=> ~Encrypting
<1>1. /\ Reached \in Int /\ WorkChunkSize \in Nat \ {0} /\ p \in Int
  BY ChunkIs, ChunkCells DEF Positions, Stops
<1>2. p \in Positions /\ To(p) \in Target /\ From(p) \in Cells
  BY ChunkCells
<1> QED BY <1>1, <1>2 DEF Chunk, ReachedNext

\* The type of what is written, whole or torn.
LEMMA WrittenType ==
  ASSUME ConstantsOK, Types, AreaInv, AtChunk, NEW area \in SUBSET Target
  PROVE  Written(area, Buffer) \in [Cells -> Content]
<1>1. \A i \in area : Buffer[i] \in Content
  BY BufferTypes
<1>2. \A i \in Cells : device[i] \in Content
  BY DEF Types, DeviceType
<1> QED BY <1>1, <1>2 DEF Written

\* A chunk that is written brings the wizard one chunk on.
LEMMA ChunkWritten ==
  ASSUME ConstantsOK, NoShortRest, Types, AreaInv, AtChunk, device' = Written(Target, Buffer),
         NEW p \in Positions, Right(p, Reached)
  PROVE  IF p >= ReachedNext THEN device'[p + Offset] = Data(p, FALSE, TRUE)
         ELSE device'[p] = Concealing(p)
<1>1. CASE p \in Chunk
  <2>1. Buffer[To(p)] = IF Encrypting THEN Data(p, FALSE, TRUE) ELSE Concealing(p)
    BY <1>1, BufferIs
  <2>2. To(p) \in Target /\ To(p) \in Cells /\ (p >= ReachedNext <=> Encrypting)
    BY <1>1, InChunk, ChunkCells
  <2>3. device'[To(p)] = Buffer[To(p)]
    BY <2>2 DEF Written
  <2> QED BY <2>1, <2>2, <2>3 DEF To
<1>2. CASE p \notin Chunk
  <2>1. /\ p >= ReachedNext <=> p >= Reached
        /\ p >= Reached => p + Offset \in Cells \ Target
        /\ ~(p >= Reached) => p \in Cells \ Target
    BY <1>2, OutsideChunk
  <2>2. \A i \in Cells \ Target : device'[i] = device[i]
    BY DEF Written
  <2> QED BY <2>1, <2>2 DEF Right
<1> QED BY <1>1, <1>2

LEMMA ConvertChunkInv ==
  ASSUME ConstantsOK, NoShortRest, IInv, ConvertChunk
  PROVE  IInv'
<1> USE DEF IInv, Types
<1> DEFINE c == WorkChunkSize
           d == wizard.distance + c
<1>0. /\ AtChunk /\ Size \in Nat \ {0} /\ Offset \in Nat \ {0} /\ ChunkSize \in Nat \ {0}
      /\ Interval \in Nat \ {0}
  BY Sizes DEF ConvertChunk, AtChunk
<1>1. /\ Reached \in 0 .. Size /\ ReachedNext \in 0 .. Size /\ ReachedNext \in Stops
      /\ c \in 1 .. ChunkSize
      /\ Encrypting => c = Lower(Reached, ChunkSize)
      /\ ~Encrypting => c = Lower(Size - Reached, ChunkSize)
  BY <1>0, ChunkIs
<1>2. /\ wizard.start \in Int /\ wizard.length \in Int /\ wizard.distance \in Nat
      /\ wizard.start + wizard.length = Size + Offset /\ backup.present /\ wizard.mode # "none"
      /\ wizard.pc = "loop" /\ Reached = wizard.start - Offset
  BY <1>0 DEF WizardType, AreaInv, Loaded, AtChunk, Reached
<1> DEFINE s == IF Encrypting THEN wizard.start - c ELSE wizard.start + c
           n == IF Encrypting THEN wizard.length + c ELSE wizard.length - c
<1>3. /\ s \in 0 .. Size + Offset /\ n \in 0 .. Size /\ s + n = Size + Offset
      /\ s - Offset = ReachedNext /\ d \in Nat
  BY <1>0, <1>1, <1>2 DEF ReachedNext
<1>4. AreaMoved.start = s /\ AreaMoved.length = n
  BY DEF AreaMoved, Encrypting
<1>5. /\ WizardType' /\ wizard'.mode = wizard.mode
      /\ wizard'.start = s /\ wizard'.length = n /\ wizard'.distance = d
      /\ wizard'.changed /\ wizard'.finished = wizard.finished
      /\ wizard'.pc = IF d >= Interval THEN "update" ELSE "check"
  <2> DEFINE x == IF d >= Interval THEN "update" ELSE "check"
  <2>1. wizard' = [wizard EXCEPT !.start = s, !.length = n, !.distance = d, !.changed = TRUE, !.pc = x]
    BY <1>4 DEF ConvertChunk, UpdateIsDue
  <2>2. x \in Pcs
    BY DEF Pcs
  <2> HIDE DEF x, s, n, d
  <2>3. /\ WizardType' /\ wizard'.mode = wizard.mode
        /\ wizard'.start = s /\ wizard'.length = n /\ wizard'.distance = d
        /\ wizard'.changed /\ wizard'.finished = wizard.finished /\ wizard'.pc = x
    BY <1>3, <2>1, <2>2 DEF WizardType
  <2> QED BY <2>3 DEF x
<1> HIDE DEF s, n
<1>6. UNCHANGED <<backup, lost, failures>> /\ Saved' = Saved /\ Reached' = ReachedNext
      /\ Encrypting' = Encrypting /\ Saved \in Int
  BY <1>0, <1>3, <1>5 DEF ConvertChunk, Saved, Reached, Encrypting, BackupType
<1>7. Types'
  <2>1. DeviceType'
    BY <1>0, WrittenType DEF ConvertChunk, DeviceType
  <2> QED BY <1>5, <1>6, <2>1 DEF BackupType, LostType, FailuresType
<1>8. AreaInv'
  BY <1>1, <1>2, <1>3, <1>5, <1>6 DEF AreaInv, Loaded
<1>9. DistanceInv'
  <2>1. Whole(wizard.distance) /\ wizard.distance < Interval /\ Behind
    BY <1>0, <1>2 DEF DistanceInv, AtChunk
  <2>2. wizard.distance + ChunkSize <= Interval /\ Whole(wizard.distance + ChunkSize)
    BY <2>1, WholeBelow, WholePlus
  <2>3. d <= Interval
    BY <1>0, <1>1, <1>2, <2>2
  <2>4. Behind'
    BY <1>1, <1>2, <1>5, <1>6, <2>1 DEF Behind, ReachedNext
  <2>5. ASSUME Remaining' > 0 PROVE Whole(d)
    <3>1. Remaining' = IF Encrypting THEN ReachedNext ELSE Size - ReachedNext
      BY <1>0, <1>3, <1>5, <1>6 DEF Remaining, Encrypting
    <3>2. c = ChunkSize
      BY <1>0, <1>1, <2>5, <3>1 DEF ReachedNext, Lower
    <3> QED BY <2>2, <3>2
  <2> QED BY <1>0, <1>3, <1>5, <2>3, <2>4, <2>5 DEF DistanceInv, Loaded
<1>10. ContentInv'
  <2>1. ASSUME NEW p \in Positions \ lost PROVE Right(p, Reached)'
    <3>1. Right(p, Reached)
      BY <1>2, <2>1 DEF ContentInv, Loaded
    <3>2. device' = Written(Target, Buffer)
      BY DEF ConvertChunk
    <3>3. IF p >= ReachedNext THEN device'[p + Offset] = Data(p, FALSE, TRUE)
          ELSE device'[p] = Concealing(p)
      BY <1>0, <3>1, <3>2, ChunkWritten
    <3> QED BY <1>6, <3>3 DEF Right
  <2> QED BY <1>5, <1>6, <2>1 DEF ContentInv, Loaded
<1>11. FinishedInv'
  BY <1>2, <1>5 DEF FinishedInv
<1> QED BY <1>7, <1>8, <1>9, <1>10, <1>11

\* A sector that is repaired is lost, and no other.
LEMMA ReadRepairedInv ==
  ASSUME ConstantsOK, IInv, ReadRepaired
  PROVE  IInv'
<1> USE DEF IInv, Types
<1>0. AtChunk /\ wizard.pc = "loop"
  BY DEF ReadRepaired, AtChunk
<1>1. PICK i \in SourceStart .. SourceStart + WorkChunkSize - 1 :
         /\ device' = [device EXCEPT ![i] = Junk]
         /\ lost' = lost \cup {IF Encrypting THEN i ELSE i - Offset}
  BY DEF ReadRepaired, Encrypting
<1>2. UNCHANGED <<backup, wizard>>
  BY DEF ReadRepaired
<1>3. PICK q : q = IF Encrypting THEN i ELSE i - Offset
  OBVIOUS
<1>4. /\ Size \in Nat \ {0} /\ Offset \in Nat \ {0} /\ Reached \in 0 .. Size
      /\ WorkChunkSize \in Nat \ {0}
  BY <1>0, Sizes, ChunkIs
<1>5. /\ q \in Chunk /\ i = From(q)
  <2>1. CASE Encrypting
    <3>1. SourceStart = Reached - WorkChunkSize
      BY <1>0, <2>1, ChunkIs
    <3> QED BY <1>3, <1>4, <2>1, <3>1 DEF Chunk, From
  <2>2. CASE ~Encrypting
    <3>1. SourceStart = Reached + Offset
      BY <1>0, <2>2, ChunkIs
    <3> QED BY <1>3, <1>4, <2>2, <3>1 DEF Chunk, From
  <2> QED BY <2>1, <2>2
<1>6. q \in Positions /\ i \in Cells
  BY <1>0, <1>5, InChunk
<1>7. Types'
  <2>1. Junk \in Content
    BY Sizes DEF Junk, Data, Content
  <2>2. DeviceType'
    BY <1>1, <2>1 DEF DeviceType
  <2>3. LostType'
    BY <1>1, <1>3, <1>6 DEF LostType
  <2>4. FailuresType'
    BY FailureCounted DEF ReadRepaired
  <2> QED BY <1>2, <2>2, <2>3, <2>4 DEF BackupType, WizardType
<1>8. AreaInv' /\ DistanceInv'
  BY <1>2 DEF AreaInv, DistanceInv, Loaded, Saved, Reached, Behind, Encrypting, Remaining
<1>9. ASSUME NEW p \in Positions \ lost' PROVE Right(p, Reached)'
  <2>1. Right(p, Reached) /\ p # q /\ p \in Int /\ q \in Int
    BY <1>0, <1>1, <1>3, <1>6, <1>9 DEF ContentInv, Loaded, Positions
  <2>2. p >= Reached => p + Offset # i
    BY <1>0, <1>4, <1>5, <2>1, InChunk DEF From
  <2>3. ~(p >= Reached) => p # i
    BY <1>0, <1>4, <1>5, <2>1, InChunk DEF From
  <2>4. Reached' = Reached /\ \A j \in Cells : j # i => device'[j] = device[j]
    BY <1>1, <1>2 DEF Reached, DeviceType
  <2>5. p \in Cells /\ p + Offset \in Cells
    BY <1>4, <1>9 DEF Positions, Cells
  <2> QED BY <2>1, <2>2, <2>3, <2>4, <2>5 DEF Right
<1>10. ContentInv'
  BY <1>0, <1>2, <1>9 DEF ContentInv, Loaded
<1>11. FinishedInv'
  BY <1>0, <1>2 DEF FinishedInv
<1> QED BY <1>7, <1>8, <1>10, <1>11


\* Steps that change no more of the wizard than its place, and not the device.
LEMMA OnlyPlace ==
  ASSUME ConstantsOK, IInv, NEW x \in Pcs, ToPc(x), UNCHANGED <<device, backup>>,
         lost' = lost \/ lost' = lost \cup Mismatch,
         FailuresType', Loaded, x \notin {"idle", "conceal", "open"}
  PROVE  /\ Types'
         /\ Loaded' /\ wizard'.pc = x /\ wizard'.finished = wizard.finished
         /\ Encrypting' = Encrypting /\ Behind' = Behind /\ Saved' = Saved /\ Reached' = Reached
         /\ Remaining' = Remaining
         /\ wizard'.distance = wizard.distance /\ wizard'.changed = wizard.changed
         /\ wizard'.mode = wizard.mode /\ wizard'.start = wizard.start
         /\ wizard'.length = wizard.length
         /\ \A p \in Positions : Right(p, Reached)' <=> Right(p, Reached)
         /\ \A p \in Positions : Plain(p)' <=> Plain(p)
<1> USE DEF IInv, Types
<1>1. /\ WizardType' /\ wizard'.pc = x
      /\ wizard'.mode = wizard.mode /\ wizard'.start = wizard.start
      /\ wizard'.length = wizard.length /\ wizard'.distance = wizard.distance
      /\ wizard'.changed = wizard.changed /\ wizard'.finished = wizard.finished
  BY PcMoves
<1>2. Types'
  BY <1>1, MismatchType DEF DeviceType, BackupType, LostType
<1>3. Saved' = Saved /\ Reached' = Reached /\ Encrypting' = Encrypting /\ Remaining' = Remaining
  BY <1>1 DEF Saved, Reached, Encrypting, Remaining
<1>4. Behind' = Behind
  BY <1>1, <1>3 DEF Behind
<1>5. ASSUME NEW p \in Positions
      PROVE  (Right(p, Reached)' <=> Right(p, Reached)) /\ (Plain(p)' <=> Plain(p))
  BY <1>3 DEF Right, Plain
<1>6. Loaded'
  BY <1>1 DEF Loaded
<1> QED BY <1>1, <1>2, <1>3, <1>4, <1>5, <1>6

\* The same, where the positions are as they were.
LEMMA PlaceInv ==
  ASSUME ConstantsOK, IInv, NEW x \in Pcs, ToPc(x), UNCHANGED <<device, backup, lost>>,
         FailuresType', Loaded, wizard.pc # "erase",
         \/ x = "closing" /\ wizard.pc \in {"loop", "update", "paused", "done"}
         \/ x \in {"paused", "loop"} /\ wizard.pc = "check"
         \/ x = "done" /\ wizard.pc = "loop" /\ Remaining = 0
  PROVE  IInv'
<1> USE DEF IInv
<1>1. /\ Types'
      /\ Loaded' /\ wizard'.pc = x /\ wizard'.finished = wizard.finished
      /\ Encrypting' = Encrypting /\ Behind' = Behind /\ Saved' = Saved /\ Reached' = Reached
      /\ Remaining' = Remaining
      /\ wizard'.distance = wizard.distance /\ wizard'.changed = wizard.changed
      /\ wizard'.mode = wizard.mode /\ wizard'.start = wizard.start
      /\ wizard'.length = wizard.length
      /\ \A p \in Positions : Right(p, Reached)' <=> Right(p, Reached)
  BY OnlyPlace
<1>2. AreaInv'
  <2>1. ASSUME x = "done" PROVE Reached = IF Encrypting THEN 0 ELSE Size
    <3>1. /\ Size \in Nat /\ Offset \in Nat /\ wizard.start \in Int /\ wizard.length \in Int
          /\ wizard.start + wizard.length = Size + Offset /\ Remaining = 0
      BY <2>1, Sizes, WizardFields DEF Types, AreaInv
    <3> QED BY <3>1 DEF Remaining, Encrypting, Reached
  <2> QED BY <1>1, <2>1 DEF AreaInv
<1>3. DistanceInv'
  BY <1>1 DEF DistanceInv
<1>4. ContentInv'
  BY <1>1 DEF ContentInv
<1>5. FinishedInv'
  BY <1>1 DEF FinishedInv
<1> QED BY <1>1, <1>2, <1>3, <1>4, <1>5

LEMMA ReadFailsInv ==
  ASSUME ConstantsOK, IInv, ReadFails
  PROVE  IInv'
<1>1. FailuresType'
  BY FailureCounted DEF ReadFails, IInv, Types
<1> QED BY <1>1, PlaceInv DEF ReadFails, Loaded, Pcs

LEMMA UpdateFailsInv ==
  ASSUME ConstantsOK, IInv, UpdateFails
  PROVE  IInv'
<1>1. FailuresType'
  BY FailureCounted DEF UpdateFails, IInv, Types
<1> QED BY <1>1, PlaceInv DEF UpdateFails, Loaded, Pcs

LEMMA CheckInv ==
  ASSUME ConstantsOK, IInv, Check
  PROVE  IInv'
<1>1. FailuresType'
  BY DEF Check, IInv, Types, FailuresType
<1> QED BY <1>1, PlaceInv DEF Check, Loaded, Pcs

LEMMA LoopEndsInv ==
  ASSUME ConstantsOK, IInv, LoopEnds
  PROVE  IInv'
<1>1. FailuresType'
  BY DEF LoopEnds, IInv, Types, FailuresType
<1> QED BY <1>1, PlaceInv DEF LoopEnds, Loaded, Pcs

\* A chunk that was written in part: the undo restores what the chunk was read from and
\* was overwritten, unless it fails.
LEMMA UndoneIs ==
  ASSUME ConstantsOK, NoShortRest, Types, AreaInv, AtChunk, Encrypting,
         NEW area \in SUBSET Target, NEW torn \in [Cells -> Content],
         \A j \in Cells \ area : torn[j] = device[j],
         NEW p \in Positions, Right(p, Reached)
  PROVE  IF p >= Reached THEN Undone(torn)[p + Offset] = Data(p, FALSE, TRUE)
         ELSE Undone(torn)[p] = Concealing(p)
<1> DEFINE c == WorkChunkSize
           restored == TargetStart .. TargetStart + c - Offset - 1
<1>1. /\ Size \in Nat \ {0} /\ Offset \in Nat \ {0} /\ Reached \in 0 .. Size
      /\ c \in Nat \ {0} /\ c <= Reached /\ TargetStart = Reached - c + Offset
      /\ Portion \in Nat /\ Portion <= Offset /\ p \in 0 .. Size - 1
  BY Sizes, ChunkIs DEF Positions
<1>2. p \in Cells /\ p + Offset \in Cells
  BY <1>1 DEF Cells
<1>3. \A i \in Cells : Undone(torn)[i] = IF c > Offset /\ i \in restored
                                         THEN Decrypt(Buffer[i + Offset]) ELSE torn[i]
  BY DEF Undone
<1>4. CASE p >= Reached
  <2>1. p + Offset \notin restored /\ p + Offset \notin Target
    BY <1>1, <1>4 DEF Target
  <2> QED BY <1>2, <1>3, <1>4, <2>1 DEF Right
<1>5. CASE ~(p >= Reached)
  <2>1. device[p] = Concealing(p)
    BY <1>5 DEF Right
  <2>2. CASE c > Offset /\ p \in restored
    <3>1. p \in Chunk /\ ~(p < Portion)
      BY <1>1, <1>5, <2>2 DEF Chunk
    <3>2. Buffer[p + Offset] = Data(p, FALSE, TRUE)
      BY <3>1, BufferIs DEF To
    <3>3. Undone(torn)[p] = Data(p, FALSE, FALSE)
      BY <1>2, <1>3, <2>2, <3>2, Coding
    <3> QED BY <1>5, <3>1, <3>3 DEF Concealing
  <2>3. CASE ~(c > Offset /\ p \in restored)
    <3>1. p \notin Target
      BY <1>1, <1>5, <2>3 DEF Target
    <3> QED BY <1>2, <1>3, <1>5, <2>1, <2>3, <3>1
  <2> QED BY <2>2, <2>3
<1> QED BY <1>4, <1>5

LEMMA WriteFailsInv ==
  ASSUME ConstantsOK, NoShortRest, IInv, WriteFails
  PROVE  IInv'
<1> USE DEF IInv, Types
<1>0. AtChunk /\ wizard.pc = "loop"
  BY DEF WriteFails, AtChunk
<1>1. PICK area \in SUBSET Target, wiped \in BOOLEAN :
        LET torn == Written(area, IF wiped THEN [i \in Cells |-> Junk] ELSE Buffer)
        IN /\ device' \in IF wizard.mode = "encrypt" THEN {torn, Undone(torn)} ELSE {torn}
           /\ lost' = IF wizard.mode = "encrypt" /\ device' = Undone(torn) THEN lost
                      ELSE lost \cup {p \in Positions : \E i \in area : p \in {i, i - Offset}}
  BY DEF WriteFails
<1> DEFINE torn == Written(area, IF wiped THEN [i \in Cells |-> Junk] ELSE Buffer)
<1>2. /\ device' = torn \/ (Encrypting /\ device' = Undone(torn))
      /\ \/ Encrypting /\ device' = Undone(torn) /\ lost' = lost
         \/ /\ device' = torn
            /\ lost' = lost \cup {p \in Positions : \E i \in area : p \in {i, i - Offset}}
  BY <1>1 DEF Encrypting
<1>3. /\ torn \in [Cells -> Content]
      /\ \A j \in Cells \ area : torn[j] = device[j]
  <2>1. Junk \in Content
    BY Sizes DEF Junk, Data, Content
  <2>2. area \subseteq Cells
    BY <1>0, ChunkCells
  <2>3. Written(area, [i \in Cells |-> Junk]) \in [Cells -> Content]
    BY <2>1, <2>2 DEF Written, DeviceType
  <2>4. Written(area, Buffer) \in [Cells -> Content]
    BY <1>0, WrittenType
  <2> QED BY <2>3, <2>4 DEF Written
<1>4. /\ WizardType' /\ wizard'.pc = "closing"
      /\ wizard'.mode = wizard.mode /\ wizard'.start = wizard.start
      /\ wizard'.length = wizard.length /\ wizard'.distance = wizard.distance
      /\ wizard'.changed = wizard.changed /\ wizard'.finished = wizard.finished
  BY PcMoves DEF WriteFails, Pcs
<1>5. backup' = backup /\ Reached' = Reached /\ Saved' = Saved /\ Encrypting' = Encrypting
  BY <1>4 DEF WriteFails, Reached, Saved, Encrypting
<1> HIDE DEF torn
<1>6. Undone(torn) \in [Cells -> Content] \/ ~Encrypting
  <2> SUFFICES ASSUME Encrypting PROVE Undone(torn) \in [Cells -> Content]
    OBVIOUS
  <2>1. ASSUME NEW i \in Cells, WorkChunkSize > Offset,
               i \in TargetStart .. TargetStart + WorkChunkSize - Offset - 1
        PROVE  Decrypt(Buffer[i + Offset]) \in Content
    <3>1. i + Offset \in Target
      <4>1. Offset \in Nat /\ TargetStart \in Int /\ WorkChunkSize \in Nat
        BY <1>0, Sizes, ChunkIs DEF Stops
      <4> QED BY <2>1, <4>1 DEF Target
    <3>2. PICK r \in Content : r = Buffer[i + Offset]
      BY <1>0, <3>1, BufferTypes
    <3> QED BY <3>2, ContentTypes
  <2> QED BY <1>3, <2>1 DEF Undone
<1>7. Types'
  BY <1>2, <1>3, <1>4, <1>5, <1>6, FailureCounted
     DEF WriteFails, DeviceType, BackupType, LostType
<1>8. AreaInv' /\ DistanceInv'
  BY <1>0, <1>4, <1>5 DEF AreaInv, DistanceInv, Loaded, Behind
<1>9. ASSUME NEW p \in Positions \ lost' PROVE Right(p, Reached)'
  <2>1. Right(p, Reached)
    BY <1>0, <1>2, <1>9 DEF ContentInv, Loaded
  <2>2. CASE Encrypting /\ device' = Undone(torn)
    <3>1. IF p >= Reached THEN Undone(torn)[p + Offset] = Data(p, FALSE, TRUE)
          ELSE Undone(torn)[p] = Concealing(p)
      BY <1>0, <1>3, <1>9, <2>1, <2>2, UndoneIs
    <3> QED BY <1>5, <2>2, <3>1 DEF Right
  <2>3. CASE /\ device' = torn
             /\ lost' = lost \cup {q \in Positions : \E i \in area : q \in {i, i - Offset}}
    <3>1. p \notin area /\ p + Offset \notin area
      <4>1. p \in Int /\ Offset \in Int /\ (p + Offset) - Offset = p
        BY Sizes, <1>9 DEF Positions
      <4> QED BY <1>9, <2>3, <4>1
    <3>2. p \in Cells /\ p + Offset \in Cells
      BY <1>9, Sizes DEF Positions, Cells
    <3>3. device'[p] = device[p] /\ device'[p + Offset] = device[p + Offset]
      BY <1>3, <2>3, <3>1, <3>2
    <3> QED BY <1>5, <2>1, <3>3 DEF Right
  <2> QED BY <1>2, <2>2, <2>3
<1>10. ContentInv'
  BY <1>4, <1>9 DEF ContentInv, Loaded
<1>11. FinishedInv'
  BY <1>0, <1>4 DEF FinishedInv
<1> QED BY <1>7, <1>8, <1>10, <1>11


\* The backup header catches up.
LEMMA UpdateInv ==
  ASSUME ConstantsOK, IInv, Update
  PROVE  IInv'
<1> USE DEF IInv, Types
<1>0. Interval \in Nat \ {0} /\ Whole(0)
  BY Sizes, WholeZero
<1>1. /\ wizard.pc = "update" /\ WizardType' /\ wizard'.pc = "check" /\ wizard'.distance = 0
      /\ wizard'.mode = wizard.mode /\ wizard'.start = wizard.start
      /\ wizard'.length = wizard.length /\ wizard'.changed = wizard.changed
      /\ wizard'.finished = wizard.finished
  BY DEF Update, WizardType, Pcs
<1>2. /\ wizard.start \in 0 .. Size + Offset /\ wizard.length \in 0 .. Size
      /\ wizard.start + wizard.length = Size + Offset /\ Reached \in Stops
      /\ wizard.mode # "none" /\ wizard.finished = "none"
  BY <1>1, WizardFields DEF AreaInv, Loaded, FinishedInv
<1>3. BackupType' /\ backup'.present /\ backup'.start = wizard.start /\ backup'.length = wizard.length
  BY <1>2, BackupWritten DEF Update
<1>4. UNCHANGED <<device, lost, failures>> /\ Saved' = Reached /\ Reached' = Reached /\ Reached \in Int
  BY <1>1, <1>2, <1>3, Sizes DEF Update, Saved, Reached
<1>5. Types'
  BY <1>1, <1>3, <1>4 DEF DeviceType, LostType, FailuresType
<1>6. AreaInv'
  BY <1>1, <1>2, <1>3, <1>4 DEF AreaInv, Loaded
<1>7. DistanceInv'
  <2>1. Behind'
    BY <1>1, <1>4 DEF Behind
  <2> QED BY <1>0, <1>1, <1>4, <2>1 DEF DistanceInv, Loaded
<1>8. ContentInv'
  <2>1. ASSUME NEW p \in Positions \ lost PROVE Right(p, Reached)'
    BY <1>1, <1>4, <2>1 DEF ContentInv, Loaded, Right
  <2> QED BY <1>1, <1>4, <2>1 DEF ContentInv, Loaded
<1>9. FinishedInv'
  BY <1>1, <1>2 DEF FinishedInv
<1> QED BY <1>5, <1>6, <1>7, <1>8, <1>9

LEMMA UpdateLastInv ==
  ASSUME ConstantsOK, IInv, UpdateLast
  PROVE  IInv'
<1> USE DEF IInv, Types
<1> DEFINE x == IF wizard.pc = "paused" THEN "closing"
                ELSE IF wizard.mode = "encrypt" THEN "primary" ELSE "unconceal"
           b == IF wizard.pc = "done" /\ wizard.mode = "decrypt" THEN FALSE ELSE wizard.changed
<1>1. /\ wizard.pc \in {"paused", "done"} /\ x \in Pcs /\ b \in BOOLEAN
      /\ wizard' = [wizard EXCEPT !.changed = b, !.pc = x]
  BY WizardFields DEF UpdateLast, Pcs
<1>2. /\ WizardType' /\ wizard'.pc = x /\ wizard'.distance = wizard.distance
      /\ wizard'.mode = wizard.mode /\ wizard'.start = wizard.start
      /\ wizard'.length = wizard.length /\ wizard'.finished = wizard.finished
  <2> HIDE DEF x, b
  <2> QED BY <1>1 DEF WizardType
<1>3. /\ wizard.start \in 0 .. Size + Offset /\ wizard.length \in 0 .. Size
      /\ wizard.start + wizard.length = Size + Offset /\ Reached \in Stops
      /\ wizard.mode # "none" /\ wizard.finished = "none"
  BY <1>1, WizardFields DEF AreaInv, Loaded, FinishedInv
<1>4. BackupType' /\ backup'.present /\ backup'.start = wizard.start /\ backup'.length = wizard.length
  BY <1>3, BackupWritten DEF UpdateLast
<1>5. UNCHANGED <<device, lost, failures>> /\ Saved' = Reached /\ Reached' = Reached
  BY <1>2, <1>4 DEF UpdateLast, Saved, Reached
<1>6. Types'
  BY <1>2, <1>4, <1>5 DEF DeviceType, LostType, FailuresType
<1>7. /\ wizard'.pc \in {"closing", "primary", "unconceal"}
      /\ wizard'.pc = "primary" => Reached = 0
      /\ wizard'.pc = "unconceal" => Reached = Size
  BY <1>1, <1>2 DEF AreaInv, Encrypting
<1>8. AreaInv'
  BY <1>2, <1>3, <1>4, <1>5, <1>7 DEF AreaInv, Loaded
<1>9. DistanceInv'
  BY <1>1, <1>2, <1>5, <1>7 DEF DistanceInv, Loaded
<1>10. ContentInv'
  <2>1. ASSUME NEW p \in Positions \ lost PROVE Right(p, Reached)'
    BY <1>1, <1>5, <2>1 DEF ContentInv, Loaded, Right
  <2> QED BY <1>5, <1>7, <2>1 DEF ContentInv, Loaded
<1>11. FinishedInv'
  BY <1>2, <1>3 DEF FinishedInv
<1> QED BY <1>6, <1>8, <1>9, <1>10, <1>11

LEMMA CloseInv ==
  ASSUME ConstantsOK, IInv, Close
  PROVE  IInv'
<1> USE DEF IInv, Types
<1>1. /\ WizardType' /\ wizard.pc = "closing" /\ wizard'.pc = "idle"
      /\ wizard'.finished = wizard.finished
  BY IdleAgain, WizardFields DEF Close
<1>2. /\ wizard.start \in 0 .. Size + Offset /\ wizard.length \in 0 .. Size
      /\ wizard.start + wizard.length = Size + Offset /\ Reached \in Stops
      /\ backup.present /\ wizard.finished # "decrypted" /\ device' = device
  BY <1>1, WizardFields DEF AreaInv, Loaded, FinishedInv, Close
<1>3. \A p \in Positions \ lost : Right(p, Reached)
  BY <1>1 DEF ContentInv, Loaded
<1>4. /\ BackupType' /\ LostType' /\ FailuresType' /\ lost \subseteq lost'
      /\ backup'.present /\ backup'.start + backup'.length = Size + Offset /\ Saved' \in Stops
      /\ \A p \in Positions \ lost' : AsSaved(p)'
  <2>1. CASE /\ backup' = [present |-> TRUE, start |-> wizard.start, length |-> wizard.length]
             /\ UNCHANGED <<lost, failures>>
    <3>1. BackupType' /\ backup'.present /\ backup'.start = wizard.start /\ backup'.length = wizard.length
      BY <1>2, <2>1, BackupWritten
    <3>2. Saved' = Reached
      BY <3>1 DEF Saved, Reached
    <3>3. ASSUME NEW p \in Positions \ lost PROVE AsSaved(p)'
      BY <1>2, <1>3, <3>1, <3>2, <3>3 DEF AsSaved, Right
    <3> QED BY <1>2, <2>1, <3>1, <3>2, <3>3 DEF LostType, FailuresType
  <2>2. CASE AccessFails /\ UNCHANGED backup /\ lost' = lost \cup Mismatch
    <3>1. ASSUME NEW p \in Positions \ lost' PROVE AsSaved(p)'
      <4>1. AsSaved(p)
        BY <2>2, <3>1, NoMismatch
      <4> QED BY <1>2, <2>2, <4>1 DEF AsSaved, Right, Plain, Saved
    <3>2. BackupType' /\ LostType' /\ FailuresType' /\ lost \subseteq lost'
      BY <2>2, FailureCounted, MismatchType DEF BackupType, LostType
    <3> QED BY <1>2, <2>2, <3>1, <3>2 DEF AreaInv, Saved
  <2>3. CASE ~wizard.changed /\ UNCHANGED <<backup, lost, failures>>
    <3>1. Saved = Reached /\ Saved' = Saved
      BY <1>1, <2>3 DEF DistanceInv, Loaded, Saved
    <3>2. ASSUME NEW p \in Positions \ lost PROVE AsSaved(p)'
      <4>1. Right(p, Saved)
        BY <1>3, <3>1, <3>2
      <4> QED BY <1>2, <2>3, <3>1, <4>1 DEF AsSaved, Right
    <3> QED BY <1>2, <2>3, <3>1, <3>2 DEF AreaInv, BackupType, LostType, FailuresType
  <2> QED BY <2>1, <2>2, <2>3 DEF Close
<1>5. Types'
  BY <1>1, <1>2, <1>4 DEF DeviceType
<1>6. AreaInv' /\ DistanceInv'
  BY <1>1, <1>4 DEF AreaInv, DistanceInv, Loaded
<1>7. ContentInv'
  BY <1>1, <1>4 DEF ContentInv, Loaded
<1>8. FinishedInv'
  <2>1. ASSUME wizard.finished = "encrypted", NEW p \in Positions \ lost' PROVE Right(p, 0)'
    BY <1>2, <1>4, <2>1 DEF FinishedInv, Right
  <2> QED BY <1>1, <1>2, <2>1 DEF FinishedInv
<1> QED BY <1>5, <1>6, <1>7, <1>8

-----------------------------------------------------------------------------
(* The invariant, action by action: the end, and power failures.           *)

LEMMA WritePrimaryHeaderInv ==
  ASSUME ConstantsOK, IInv, WritePrimaryHeader
  PROVE  IInv'
<1> USE DEF IInv, Types
<1>0. Offset \in Nat \ {0} /\ Size \in Nat \ {0}
  BY Sizes
<1>1. /\ WizardType' /\ wizard.pc = "primary" /\ wizard'.pc = "closing"
      /\ wizard'.finished = "encrypted" /\ wizard'.mode = wizard.mode
      /\ wizard'.start = wizard.start /\ wizard'.length = wizard.length
      /\ wizard'.distance = wizard.distance /\ wizard'.changed = wizard.changed
  BY DEF WritePrimaryHeader, WizardType, Pcs
<1>2. /\ UNCHANGED <<backup, lost, failures>> /\ Saved' = Saved /\ Reached' = Reached
      /\ Reached = 0
  BY <1>1 DEF WritePrimaryHeader, Saved, Reached, AreaInv
<1>3. \A i \in Cells : device'[i] = IF i < Offset THEN Junk ELSE device[i]
  BY DEF WritePrimaryHeader
<1>4. Types'
  <2>1. Junk \in Content
    BY Sizes DEF Junk, Data, Content
  <2>2. DeviceType'
    BY <2>1 DEF WritePrimaryHeader, DeviceType
  <2> QED BY <1>1, <1>2, <2>2 DEF BackupType, LostType, FailuresType
<1>5. AreaInv' /\ DistanceInv'
  BY <1>1, <1>2 DEF AreaInv, DistanceInv, Loaded
<1>6. ASSUME NEW p \in Positions \ lost PROVE Right(p, 0)'
  <2>1. p >= 0 /\ p + Offset \in Cells /\ ~(p + Offset < Offset) /\ Right(p, 0)
    BY <1>0, <1>1, <1>2, <1>6 DEF Positions, Cells, ContentInv, Loaded
  <2> QED BY <1>3, <2>1 DEF Right
<1>7. ContentInv' /\ FinishedInv'
  BY <1>1, <1>2, <1>6 DEF ContentInv, FinishedInv, Loaded
<1> QED BY <1>4, <1>5, <1>7

LEMMA UnconcealInv ==
  ASSUME ConstantsOK, IInv, Unconceal
  PROVE  IInv'
<1> USE DEF IInv, Types
<1>0. Size \in Nat \ {0} /\ Portion \in Nat
  BY Sizes
<1>1. /\ WizardType' /\ wizard.pc = "unconceal" /\ wizard'.pc = "erase" /\ wizard'.mode = wizard.mode
      /\ wizard'.start = wizard.start /\ wizard'.length = wizard.length
      /\ wizard'.distance = wizard.distance /\ wizard'.changed = wizard.changed
      /\ wizard'.finished = wizard.finished
  BY PcMoves DEF Unconceal, Pcs
<1>2. /\ DeviceType' /\ \A i \in Cells : device'[i] = IF i < Portion THEN Mask(device[i]) ELSE device[i]
  BY ConcealedIs DEF Unconceal
<1>3. /\ backup' = backup /\ lost' = lost /\ failures' = failures /\ Saved' = Saved
      /\ Reached' = Reached /\ Reached = Size
  BY <1>1 DEF Unconceal, Saved, Reached, AreaInv
<1>4. Types'
  BY <1>1, <1>2, <1>3 DEF BackupType, LostType, FailuresType
<1>5. AreaInv' /\ DistanceInv'
  BY <1>1, <1>3 DEF AreaInv, DistanceInv, Loaded
<1>6. ASSUME NEW p \in Positions \ lost PROVE Plain(p)'
  <2>1. p \in Cells /\ p \in 0 .. Size - 1 /\ Right(p, Size)
    BY <1>1, <1>3, <1>6, ConcealedIs DEF ContentInv, Unconceal, Positions, Loaded
  <2>2. device[p] = Concealing(p)
    <3>1. ~(p >= Size)
      BY <1>0, <2>1
    <3> QED BY <2>1, <3>1 DEF Right
  <2>3. device'[p] = Data(p, FALSE, FALSE)
    BY <1>2, <1>6, <2>1, <2>2, Coding DEF Concealing
  <2> QED BY <2>3 DEF Plain
<1>7. ContentInv'
  BY <1>1, <1>3, <1>6 DEF ContentInv, Loaded
<1>8. FinishedInv'
  BY <1>1 DEF FinishedInv
<1> QED BY <1>4, <1>5, <1>7, <1>8

LEMMA EraseBackupInv ==
  ASSUME ConstantsOK, IInv, EraseBackup
  PROVE  IInv'
<1> USE DEF IInv, Types
<1>0. Size \in Nat \ {0} /\ Offset \in Nat
  BY Sizes
<1>1. WizardType' /\ wizard.pc = "erase" /\ wizard'.pc = "idle" /\ wizard'.finished = "decrypted"
  BY IdleAgain DEF EraseBackup
<1>2. BackupType' /\ ~backup'.present /\ backup'.length = 0 /\ UNCHANGED <<lost, failures>>
  <2>1. 0 \in 0 .. Size + Offset /\ 0 \in 0 .. Size
    BY <1>0
  <2> QED BY <2>1 DEF EraseBackup, NoBackup, BackupType
<1>3. Types'
  <2>1. Junk \in Content
    BY Sizes DEF Junk, Data, Content
  <2>2. DeviceType'
    BY <2>1 DEF EraseBackup, DeviceType
  <2> QED BY <1>1, <1>2, <2>2 DEF LostType, FailuresType
<1>4. AreaInv' /\ DistanceInv'
  BY <1>1, <1>2 DEF AreaInv, DistanceInv, Loaded
<1>5. ASSUME NEW p \in Positions \ lost PROVE Plain(p)'
  <2>1. p \in Cells /\ ~(p >= Size) /\ Plain(p)
    BY <1>0, <1>1, <1>5 DEF Positions, Cells, ContentInv
  <2> QED BY <2>1 DEF Plain, EraseBackup
<1>6. ContentInv' /\ FinishedInv'
  BY <1>1, <1>2, <1>5 DEF ContentInv, FinishedInv, Loaded, AsSaved
<1> QED BY <1>3, <1>4, <1>6

LEMMA EndFailsInv ==
  ASSUME ConstantsOK, IInv, EndFails
  PROVE  IInv'
<1> USE DEF IInv
<1>1. /\ Types' /\ wizard.pc \in {"primary", "unconceal", "erase"}
      /\ Loaded /\ Loaded' /\ wizard'.pc = "closing" /\ wizard'.finished = wizard.finished
      /\ Behind' = Behind /\ Saved' = Saved /\ Reached' = Reached
      /\ wizard'.distance = wizard.distance /\ wizard'.changed = wizard.changed
      /\ wizard'.mode = wizard.mode /\ wizard'.start = wizard.start
      /\ wizard'.length = wizard.length /\ backup' = backup /\ lost' = lost \cup Mismatch
      /\ \A p \in Positions : Right(p, Reached)' <=> Right(p, Reached)
  <2>1. FailuresType'
    BY FailureCounted DEF EndFails, Types
  <2> QED BY <2>1, OnlyPlace DEF EndFails, Loaded, Pcs
<1>2. AreaInv' /\ DistanceInv'
  BY <1>1 DEF AreaInv, DistanceInv
<1>3. ASSUME NEW p \in Positions \ lost' PROVE Right(p, Reached)
  <2>1. AsSaved(p) /\ backup.present /\ Saved = Reached
    BY <1>1, <1>3, NoMismatch DEF AreaInv, DistanceInv, Types
  <2> QED BY <2>1 DEF AsSaved
<1>4. ContentInv'
  BY <1>1, <1>3 DEF ContentInv
<1>5. FinishedInv'
  BY <1>1 DEF FinishedInv
<1> QED BY <1>1, <1>2, <1>4, <1>5

LEMMA PowerFailureInv ==
  ASSUME ConstantsOK, IInv, PowerFailure
  PROVE  IInv'
<1> USE DEF IInv, Types
<1>1. WizardType' /\ wizard'.pc = "idle" /\ wizard'.finished = "none"
  BY IdleIs DEF PowerFailure
<1>2. /\ backup' = backup /\ wizard.pc # "idle"
      /\ lost' = lost \cup {p \in Positions : device'[Place(p)] # Expected(p)}
  BY DEF PowerFailure
<1>3. DeviceType'
  <2>1. CASE wizard.pc = "loop" /\ Remaining > 0
    <3>1. PICK area \in SUBSET Target : device' = Written(area, Buffer)
      BY <2>1 DEF PowerFailure
    <3> QED BY <2>1, <3>1, WrittenType DEF AtChunk, DeviceType
  <2>2. CASE ~(wizard.pc = "loop" /\ Remaining > 0)
    BY <2>2 DEF PowerFailure, DeviceType
  <2> QED BY <2>1, <2>2
<1>4. FailuresType'
  <2>1. failures.power + 1 \in Nat /\ failures.at \cup {wizard.pc} \in SUBSET Pcs
    BY WizardFields DEF FailuresType
  <2> QED BY <2>1 DEF PowerFailure, FailuresType
<1>5. Types'
  BY <1>1, <1>2, <1>3, <1>4 DEF BackupType, LostType
<1>6. AreaInv' /\ DistanceInv'
  BY <1>1, <1>2 DEF AreaInv, DistanceInv, Loaded, Saved
<1>7. ContentInv'
  <2>1. ASSUME NEW p \in Positions \ lost' PROVE AsSaved(p)'
    <3>1. device'[Place(p)] = Expected(p) /\ backup.present
      BY <1>2, <2>1 DEF AreaInv
    <3>2. Saved' = Saved
      BY <1>2 DEF Saved
    <3>3. IF p >= Saved THEN device'[p + Offset] = Data(p, FALSE, TRUE)
          ELSE device'[p] = Concealing(p)
      BY <2>1, <3>1, SavedIs
    <3> QED BY <1>2, <3>1, <3>2, <3>3 DEF AsSaved, Right
  <2> QED BY <1>1, <2>1 DEF ContentInv, Loaded
<1>8. FinishedInv'
  BY <1>1 DEF FinishedInv
<1> QED BY <1>5, <1>6, <1>7, <1>8


-----------------------------------------------------------------------------
(* What a power failure costs.                                             *)

\* Positions between two places that are no further apart than the interval.
LEMMA FewPositions ==
  ASSUME ConstantsOK, NEW u \in Int, NEW v \in Int, u <= v, v - u <= Interval,
         NEW S, S \subseteq u .. v - 1
  PROVE  Cardinality(S) <= Interval
<1>1. Interval \in Nat
  BY Sizes
<1>2. v - 1 \in Int
  OBVIOUS
<1>3. IsFiniteSet(u .. v - 1) /\ Cardinality(u .. v - 1) = IF u > v - 1 THEN 0 ELSE (v - 1) - u + 1
  BY <1>2, FS_Interval
<1>4. Cardinality(S) <= Cardinality(u .. v - 1) /\ Cardinality(S) \in Nat
  BY <1>3, FS_Subset, FS_CardinalityType
<1>5. Cardinality(u .. v - 1) <= Interval
  BY <1>1, <1>3
<1> QED BY <1>1, <1>3, <1>4, <1>5

\* What is right for the wizard, and on the same side of the backup header, is where a
\* resumed process looks for it.
LEMMA NotLost ==
  ASSUME ConstantsOK, BackupType, backup.present, NEW p \in Positions, NEW x \in Int,
         IF p >= x THEN device'[p + Offset] = Data(p, FALSE, TRUE)
         ELSE device'[p] = Concealing(p),
         p >= x <=> p >= Saved
  PROVE  device'[Place(p)] = Expected(p)
  BY SavedIs

LEMMA PowerFailureLosses ==
  ASSUME ConstantsOK, NoShortRest, IInv, PowerFailure
  PROVE  Cardinality((lost' \ lost) \ (0 .. Portion - 1)) <= Interval
<1> USE DEF IInv, Types
<1> DEFINE L == (lost' \ lost) \ (0 .. Portion - 1)
<1>0. Interval \in Nat /\ Size \in Nat /\ Offset \in Nat /\ ChunkSize \in Nat /\ Portion \in Nat
  BY Sizes
<1>1. /\ backup.present /\ wizard.pc # "idle" /\ Saved \in 0 .. Size /\ wizard.mode # "none"
      /\ Saved \in Int
  BY DEF PowerFailure, AreaInv, Stops
<1>2. \A p \in L : p \in Positions \ lost /\ ~(p < Portion) /\ p \in Int
                   /\ device'[Place(p)] # Expected(p)
  BY <1>0 DEF PowerFailure, Positions
<1> HIDE DEF L
<1>3. ASSUME NEW u \in Int, NEW v \in Int, u <= v, v - u <= Interval,
             \A p \in L : p >= u /\ p < v
      PROVE  Cardinality(L) <= Interval
  <2>1. L \subseteq u .. v - 1
    BY <1>2, <1>3
  <2> QED BY <1>3, <2>1, FewPositions
<1>4. ASSUME L = {} PROVE Cardinality(L) <= Interval
  BY <1>0, <1>3, <1>4
<1>5. CASE wizard.pc = "conceal"
  <2>1. device' = device /\ Saved = Size /\ \A p \in Positions \ lost : Plain(p)
    BY <1>5 DEF PowerFailure, AreaInv, ContentInv
  <2>2. ASSUME NEW p \in L PROVE FALSE
    <3>1. device'[p] = Concealing(p) /\ p \in Positions
      BY <1>2, <2>1 DEF Plain, Concealing
    <3>2. ~(p >= Saved)
      BY <1>0, <1>2, <2>1, <3>1 DEF Positions
    <3>3. device'[Place(p)] = Expected(p)
      BY <1>1, <3>1, <3>2, NotLost
    <3> QED BY <1>2, <3>3
  <2> QED BY <1>4, <2>2 DEF L
<1>6. CASE wizard.pc = "open"
  <2>1. device' = device /\ \A p \in Positions \ lost : Right(p, Saved)
    BY <1>6 DEF PowerFailure, ContentInv
  <2>2. ASSUME NEW p \in L PROVE FALSE
    <3>1. Right(p, Saved) /\ p \in Positions
      BY <1>2, <2>1
    <3>2. device'[Place(p)] = Expected(p)
      BY <1>1, <2>1, <3>1, NotLost DEF Right
    <3> QED BY <1>2, <3>2
  <2> QED BY <1>4, <2>2 DEF L
<1>7. CASE wizard.pc = "erase"
  <2>1. device' = device /\ Saved = Size /\ \A p \in Positions \ lost : Plain(p)
    BY <1>7 DEF PowerFailure, AreaInv, DistanceInv, ContentInv, Loaded
  <2>2. ASSUME NEW p \in L PROVE FALSE
    <3>1. device'[p] = Concealing(p) /\ p \in Positions
      BY <1>2, <2>1 DEF Plain, Concealing
    <3>2. ~(p >= Saved)
      BY <1>0, <1>2, <2>1, <3>1 DEF Positions
    <3>3. device'[Place(p)] = Expected(p)
      BY <1>1, <3>1, <3>2, NotLost
    <3> QED BY <1>2, <3>3
  <2> QED BY <1>4, <2>2 DEF L
<1>8. ASSUME Loaded, wizard.pc # "erase"
      PROVE  /\ \A p \in Positions \ lost : Right(p, Reached)
             /\ Reached \in 0 .. Size /\ Reached \in Int
             /\ wizard.distance \in Nat /\ wizard.distance <= Interval
             /\ Behind \/ Saved = Reached
  BY <1>1, <1>8, WizardFields DEF ContentInv, AreaInv, DistanceInv, Loaded, Stops, Pcs
<1>9. CASE Loaded /\ wizard.pc # "erase" /\ ~AtChunk
  <2>1. device' = device
    BY <1>9 DEF PowerFailure, AtChunk
  <2>2. ASSUME NEW p \in L PROVE ~(p >= Reached <=> p >= Saved)
    <3>1. Right(p, Reached) /\ p \in Positions
      BY <1>2, <1>8, <1>9
    <3> SUFFICES ASSUME p >= Reached <=> p >= Saved PROVE FALSE
      OBVIOUS
    <3>2. device'[Place(p)] = Expected(p)
      BY <1>1, <1>8, <1>9, <2>1, <3>1, NotLost DEF Right
    <3> QED BY <1>2, <3>2
  <2>3. CASE Reached <= Saved
    <3>1. Saved - Reached <= Interval
      BY <1>0, <1>1, <1>8, <1>9, <2>3 DEF Behind
    <3>2. \A p \in L : p >= Reached /\ p < Saved
      BY <1>1, <1>2, <1>8, <1>9, <2>2, <2>3
    <3> QED BY <1>1, <1>3, <1>8, <1>9, <2>3, <3>1, <3>2 DEF L
  <2>4. CASE ~(Reached <= Saved)
    <3>1. Reached - Saved <= Interval
      BY <1>0, <1>1, <1>8, <1>9, <2>4 DEF Behind
    <3>2. \A p \in L : p >= Saved /\ p < Reached
      BY <1>1, <1>2, <1>8, <1>9, <2>2, <2>4
    <3>3. Saved <= Reached
      BY <1>1, <1>8, <1>9, <2>4
    <3> QED BY <1>1, <1>3, <1>8, <1>9, <3>1, <3>2, <3>3 DEF L
  <2> QED BY <2>3, <2>4
<1>10. CASE AtChunk
  <2>1. PICK area \in SUBSET Target : device' = Written(area, Buffer)
    BY <1>10 DEF PowerFailure, AtChunk
  <2>2. Loaded /\ wizard.pc = "loop"
    BY <1>10 DEF AtChunk, Loaded
  <2>3. /\ WorkChunkSize \in Nat \ {0} /\ WorkChunkSize <= ChunkSize
        /\ ReachedNext \in Int /\ wizard.distance + ChunkSize <= Interval /\ Behind
    BY <1>10, <2>2, ChunkIs, WholeBelow DEF DistanceInv, AtChunk, Stops
  <2>4. wizard.distance + WorkChunkSize <= Interval
    BY <1>0, <1>8, <2>2, <2>3
  <2>5. ASSUME NEW p \in L PROVE p \in Chunk \/ ~(p >= Reached <=> p >= Saved)
    <3> SUFFICES ASSUME p \notin Chunk, p >= Reached <=> p >= Saved PROVE FALSE
      OBVIOUS
    <3>1. Right(p, Reached) /\ p \in Positions
      BY <1>2, <1>8, <2>2
    <3>2. /\ p >= Reached => p + Offset \in Cells \ Target
          /\ ~(p >= Reached) => p \in Cells \ Target
      BY <1>10, <3>1, OutsideChunk
    <3>3. \A i \in Cells \ Target : device'[i] = device[i]
      BY <2>1 DEF Written
    <3>4. device'[Place(p)] = Expected(p)
      BY <1>1, <1>8, <2>2, <3>1, <3>2, <3>3, NotLost DEF Right
    <3> QED BY <1>2, <3>4
  <2>6. CASE Encrypting
    <3>1. ReachedNext = Reached - WorkChunkSize /\ Saved = Reached + wizard.distance
          /\ \A p \in Chunk : p >= Reached - WorkChunkSize /\ p < Reached /\ p \in Int
      BY <1>8, <2>2, <2>3, <2>6 DEF ReachedNext, Behind, Chunk
    <3>2. \A p \in L : p >= ReachedNext /\ p < Saved
      BY <1>2, <1>8, <2>2, <2>3, <2>5, <3>1
    <3>3. ReachedNext <= Saved /\ Saved - ReachedNext <= Interval
      BY <1>0, <1>8, <2>2, <2>3, <2>4, <3>1
    <3> QED BY <1>1, <1>3, <2>3, <3>2, <3>3 DEF L
  <2>7. CASE ~Encrypting
    <3>1. ReachedNext = Reached + WorkChunkSize /\ Reached = Saved + wizard.distance
          /\ \A p \in Chunk : p >= Reached /\ p < Reached + WorkChunkSize /\ p \in Int
      BY <1>8, <2>2, <2>3, <2>7 DEF ReachedNext, Behind, Chunk
    <3>2. \A p \in L : p >= Saved /\ p < ReachedNext
      BY <1>1, <1>2, <1>8, <2>2, <2>3, <2>5, <3>1
    <3>3. Saved <= ReachedNext /\ ReachedNext - Saved <= Interval
      BY <1>0, <1>1, <1>8, <2>2, <2>3, <2>4, <3>1
    <3> QED BY <1>1, <1>3, <2>3, <3>2, <3>3 DEF L
  <2> QED BY <2>6, <2>7
<1> QED BY <1>1, <1>5, <1>6, <1>7, <1>9, <1>10 DEF Loaded, L

-----------------------------------------------------------------------------
(* Theorems.                                                               *)

LEMMA InitInv ==
  ASSUME ConstantsOK, Init
  PROVE  IInv
<1> USE DEF Init
<1>1. /\ Size \in Nat \ {0} /\ Offset \in Nat /\ 0 \in 0 .. Size + Offset /\ 0 \in 0 .. Size
      /\ Junk \in Content
  BY Sizes DEF Junk, Data, Content
<1>2. DeviceType
  <2>1. ASSUME NEW i \in Cells PROVE (IF i < Size THEN Data(i, FALSE, FALSE) ELSE Junk) \in Content
    BY <1>1 DEF Cells, Data, Content
  <2> QED BY <2>1 DEF DeviceType
<1>3. BackupType /\ ~backup.present /\ backup.length = 0
  BY <1>1 DEF BackupType, NoBackup
<1>4. WizardType /\ wizard.pc = "idle" /\ wizard.finished = "none"
  BY <1>1 DEF WizardType, Idle, Pcs
<1>5. Types
  BY <1>2, <1>3, <1>4 DEF Types, LostType, FailuresType
<1>6. AreaInv /\ DistanceInv
  BY <1>3, <1>4 DEF AreaInv, DistanceInv, Loaded
<1>7. ASSUME NEW p \in Positions PROVE Plain(p)
  <2>1. p \in Cells /\ p < Size
    BY <1>1 DEF Positions, Cells
  <2> QED BY <2>1 DEF Plain
<1>8. ContentInv /\ FinishedInv
  BY <1>3, <1>4, <1>7 DEF ContentInv, FinishedInv, AsSaved, Loaded
<1> QED BY <1>5, <1>6, <1>8 DEF IInv

LEMMA NextInv ==
  ASSUME ConstantsOK, NoShortRest, IInv, [Next]_vars
  PROVE  IInv'
<1>1. CASE Begin
  BY <1>1, BeginInv
<1>2. CASE Conceal
  BY <1>2, ConcealInv
<1>3. CASE ConcealFails
  BY <1>3, ConcealFailsInv
<1>4. CASE Resume("encrypt")
  BY <1>4, ResumeInv
<1>5. CASE Resume("decrypt")
  BY <1>5, ResumeInv
<1>6. CASE Open
  BY <1>6, OpenInv
<1>7. CASE ConvertChunk
  BY <1>7, ConvertChunkInv
<1>8. CASE ReadRepaired
  BY <1>8, ReadRepairedInv
<1>9. CASE ReadFails
  BY <1>9, ReadFailsInv
<1>10. CASE WriteFails
  BY <1>10, WriteFailsInv
<1>11. CASE Update
  BY <1>11, UpdateInv
<1>12. CASE UpdateFails
  BY <1>12, UpdateFailsInv
<1>13. CASE Check
  BY <1>13, CheckInv
<1>14. CASE LoopEnds
  BY <1>14, LoopEndsInv
<1>15. CASE UpdateLast
  BY <1>15, UpdateLastInv
<1>16. CASE Close
  BY <1>16, CloseInv
<1>17. CASE WritePrimaryHeader
  BY <1>17, WritePrimaryHeaderInv
<1>18. CASE Unconceal
  BY <1>18, UnconcealInv
<1>19. CASE EraseBackup
  BY <1>19, EraseBackupInv
<1>20. CASE EndFails
  BY <1>20, EndFailsInv
<1>21. CASE PowerFailure
  BY <1>21, PowerFailureInv
<1>22. CASE UNCHANGED vars
  <2> USE <1>22 DEF vars, IInv
  <2>1. Types'
    BY DEF Types, DeviceType, BackupType, WizardType, LostType, FailuresType
  <2>2. AreaInv' /\ DistanceInv'
    BY DEF AreaInv, DistanceInv, Saved, Reached, Loaded, Encrypting, Behind, Remaining
  <2>3. ContentInv' /\ FinishedInv'
    BY DEF ContentInv, FinishedInv, Saved, Reached, Loaded, Right, Plain, AsSaved,
        FileSystemVisible
  <2> QED BY <2>1, <2>2, <2>3
<1> QED BY <1>1, <1>2, <1>3, <1>4, <1>5, <1>6, <1>7, <1>8, <1>9, <1>10, <1>11, <1>12, <1>13,
      <1>14, <1>15, <1>16, <1>17, <1>18, <1>19, <1>20, <1>21, <1>22 DEF Next

\* The inductive invariant holds: with sizes as the code has them, and a file system that
\* leaves no short rest.
THEOREM Invariance ==
  ASSUME ConstantsOK, NoShortRest
  PROVE  Spec => []IInv
<1>1. Init => IInv
  BY InitInv
<1>2. IInv /\ [Next]_vars => IInv'
  BY NextInv
<1> QED BY <1>1, <1>2, PTL DEF Spec

\* The wizard's variables have their types.
THEOREM TypeCorrect ==
  ASSUME ConstantsOK, NoShortRest
  PROVE  Spec => []TypeOK
<1>1. IInv => TypeOK
  BY WizardFields DEF IInv, Types, DeviceType, BackupType, LostType, Content, TypeOK
<1> QED BY <1>1, Invariance, PTL

\* Whenever the wizard is not at work, whatever was paused, reversed, failed or interrupted
\* before, every position that no failure has hit is where a resumed process looks for it.
THEOREM Resumable ==
  ASSUME ConstantsOK, NoShortRest
  PROVE  Spec => []DeviceMatchesHeader
<1>1. IInv => DeviceMatchesHeader
  <2> SUFFICES ASSUME IInv, wizard.pc = "idle", NEW p \in Positions \ lost
               PROVE  device[Place(p)] = Expected(p)
    BY DEF DeviceMatchesHeader, Mismatch
  <2>1. AsSaved(p)
    BY DEF IInv, ContentInv
  <2> QED BY <2>1, MatchIs DEF IInv, Types
<1> QED BY <1>1, Invariance, PTL

\* A process that says it has finished has converted all the volume.
THEOREM Complete ==
  ASSUME ConstantsOK, NoShortRest
  PROVE  Spec => []FinishedIsComplete
<1>1. IInv => FinishedIsComplete
  <2> SUFFICES ASSUME IInv PROVE FinishedIsComplete
    OBVIOUS
  <2>1. ASSUME wizard.finished = "encrypted", NEW p \in Positions \ lost
        PROVE  device[p + Offset] = Data(p, FALSE, TRUE)
    <3>1. Right(p, 0)
      BY <2>1 DEF IInv, FinishedInv
    <3>2. p >= 0
      BY Sizes DEF Positions
    <3> QED BY <3>1, <3>2 DEF Right
  <2>2. ASSUME wizard.finished = "decrypted"
        PROVE  ~backup.present /\ \A p \in Positions \ lost : device[p] = Data(p, FALSE, FALSE)
    BY <2>2 DEF IInv, FinishedInv, Plain
  <2> QED BY <2>1, <2>2 DEF FinishedIsComplete
<1> QED BY <1>1, Invariance, PTL

\* A power failure spoils, besides the masked portion, no more than what is converted
\* between two updates of the backup header.
THEOREM LittleIsLost ==
  ASSUME ConstantsOK, NoShortRest
  PROVE  Spec => PowerFailureCostsLittle
<1>1. ASSUME IInv, [Next]_vars
      PROVE  [failures.power' > failures.power =>
                Cardinality((lost' \ lost) \ (0 .. Portion - 1)) <= Interval]_vars
  <2> SUFFICES ASSUME failures.power' > failures.power
               PROVE  Cardinality((lost' \ lost) \ (0 .. Portion - 1)) <= Interval
    OBVIOUS
  <2>1. failures.power \in Nat
    BY <1>1 DEF IInv, Types, FailuresType
  <2>2. PowerFailure
    <3>1. ~(failures.power > failures.power)
      BY <2>1
    <3>2. failures' = failures \/ AccessFails \/ PowerFailure
      BY <1>1 DEF Next, vars, Begin, Conceal, ConcealFails, Resume, Open, ConvertChunk,
          ReadRepaired, ReadFails, WriteFails, Update, UpdateFails, Check, LoopEnds, UpdateLast,
          Close, WritePrimaryHeader, Unconceal, EraseBackup, EndFails
    <3>3. AccessFails => failures'.power = failures.power
      BY <1>1 DEF AccessFails, IInv, Types, FailuresType
    <3> QED BY <3>1, <3>2, <3>3
  <2> QED BY <1>1, <2>2, PowerFailureLosses
<1> QED BY <1>1, Invariance, PTL DEF Spec, PowerFailureCostsLittle

=============================================================================
