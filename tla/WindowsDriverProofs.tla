-------------------------- MODULE WindowsDriverProofs --------------------------
(***************************************************************************)
(* Proofs about the in-place encryption of the system drive                *)
(* (BootEncryptionSetup), for any size of the drive, of its blocks and of  *)
(* the threshold of saving, any programs, and any number of failures; and  *)
(* about the derivation of header keys (HeaderKeyDerivation), for any      *)
(* number of PRFs and of threads.                                          *)
(*                                                                         *)
(* The inductive invariant IInv says who may do what when (no setup during *)
(* a password change, no program while the machine stops), where the setup *)
(* thread is with respect to the area (AtOffset, AtBlock), what a block on *)
(* its way contains, and how far the header on the drive is behind the     *)
(* area in memory.  All areas begin at the first sector, so that the area  *)
(* and the header come down to two lengths, AreaLength and HeaderLength.   *)
(***************************************************************************)
EXTENDS WindowsDriver, Sequences, FiniteSetTheorems, WellFoundedInduction, TLAPS

-----------------------------------------------------------------------------
(* The shape of the state.                                                 *)

SetupPcs == {"dead", "begin", "holdFirst", "loop", "hold", "write", "advance", "readHeader",
             "writeHeader", "end", "holdLast", "saved", "acquire", "dismount", "release",
             "ret", "exit"}
ClientPcs == {"idle", "locked", "checked", "read", "written", "wait", "handle", "join", "done"}
ClientOps == {"none", "encrypt", "decrypt", "abort", "reopen"}

DiskType == disk \in [Sectors -> Layers]
HeaderType == header \in Headers
DriveType ==
  drive \in [mounted : BOOLEAN, configured : BOOLEAN, keys : {NoKeys} \cup 0 .. MaxChanges,
             start : {-1, 1}, end : -1 .. Length]
SetupType ==
  setup \in [pc : SetupPcs, offset : 0 .. Length + 1, size : 0 .. BlockSize,
             todo : SUBSET Sectors, buffer : [Sectors -> Layers], wiping : BOOLEAN,
             required : BOOLEAN, written : 0 .. Length, copy : Headers, final : BOOLEAN]
ControlType ==
  control \in [inProgress : BOOLEAN, abort : BOOLEAN, thread : BOOLEAN,
               mode : {"encrypt", "decrypt"}]
RootType == root \in Clients \cup {Setup, Nobody}
SysEncType == sysEnc \in Apps \cup {Nobody}
ClientType == client \in [Clients -> [pc : ClientPcs, op : ClientOps, copy : Headers]]
MachineType == machine \in {"on", "hibernating", "image", "shutdown"}
LostType == lost \in [save : BOOLEAN, failures : Nat, failedSaves : Nat]

Types ==
  /\ DiskType /\ HeaderType /\ DriveType /\ SetupType /\ ControlType /\ RootType
  /\ SysEncType /\ ClientType /\ MachineType /\ LostType

-----------------------------------------------------------------------------
(* Who does what when.                                                     *)

Ended == setup.pc \in {"dead", "exit"}

\* The setup thread is there while a setup is in progress, and for its last moment.
ThreadInv ==
  /\ control.inProgress <=> ~Ended
  /\ setup.pc # "dead" => control.thread
  /\ setup.final =>
       setup.pc \in {"readHeader", "writeHeader", "holdLast", "saved", "acquire", "dismount",
                     "release", "ret", "exit"}
  /\ setup.pc \in {"holdLast", "saved"} => setup.final

\* The password is changed under the programs' mutex while no setup is in progress.
InPasswordChange(a) == client[a].pc \in {"checked", "read", "written"}

ClientInv ==
  /\ \A a \in Apps :
       /\ client[a].pc # "idle" => sysEnc = a
       /\ InPasswordChange(a) => Ended /\ header.present
       /\ client[a].pc \in {"checked", "read"} => header.keys < MaxChanges
       /\ client[a].pc = "read" => client[a].copy = header
       /\ client[a].pc # "done"
       /\ client[a].pc = "join" => client[a].op \in {"encrypt", "decrypt", "abort"}
  /\ client[System].pc \in {"wait", "handle", "join"} => client[System].op = "abort"
  /\ ~InPasswordChange(System)

\* When the machine is to stop, programs do nothing and the setup is over.
MachineInv ==
  /\ machine # "on" => Quiet
  /\ machine # "on" /\ client[System].pc \in {"idle", "done"} => Ended
  /\ machine = "image" => client[System].pc = "done"

-----------------------------------------------------------------------------
(* The area.                                                               *)

AreaLength == IF drive.start = -1 \/ drive.end = -1 THEN 0 ELSE drive.end
HeaderLength == IF header.present THEN header.length ELSE 0

\* Between two setups there is no area, or it has a sector.
Settled ==
  \/ drive.start = -1 /\ drive.end = -1
  \/ drive.start = 1 /\ drive.end >= 1

Encrypting == control.mode = "encrypt"

\* Where the setup thread goes on.
AtOffset ==
  /\ drive.start = 1 /\ setup.offset >= 1
  /\ AreaLength = setup.offset - 1
  /\ Encrypting => drive.end # 0
  /\ ~Encrypting => drive.end # -1

\* The block that the setup thread converts.
AtBlock ==
  /\ drive.start = 1 /\ setup.offset >= 1 /\ setup.size >= 1
  /\ setup.offset + setup.size <= Length + 1
  /\ Encrypting => AreaLength = setup.offset - 1 /\ drive.end # 0
  /\ ~Encrypting => drive.end = setup.offset + setup.size - 1

AreaInv ==
  /\ Ended \/ setup.pc \in {"begin", "holdFirst", "saved", "acquire", "dismount", "release",
                            "ret"} => Settled
  /\ setup.pc \in {"loop", "hold", "write", "advance", "begin", "holdFirst"} => setup.size >= 1
  /\ setup.pc = "loop" => AtOffset
  /\ setup.pc \in {"hold", "write", "advance"} => AtBlock
  /\ setup.pc \in {"readHeader", "writeHeader"} =>
       IF setup.final THEN Settled ELSE AtOffset /\ setup.size >= 1
  /\ setup.pc = "end" =>
       \/ Settled
       \/ drive.start = 1 /\ drive.end = IF Encrypting THEN -1 ELSE 0
  /\ setup.pc = "holdLast" => ~Encrypting /\ AreaLength = 0
  \* What an encryption has converted, it does not convert back.
  /\ ~Ended /\ Encrypting /\ setup.required => AreaLength >= 1
  /\ setup.pc \in {"readHeader", "writeHeader"} => setup.required

-----------------------------------------------------------------------------
(* The contents.                                                           *)

Layer(s) == IF InArea(s) THEN 1 ELSE 0
Converted == IF Encrypting THEN 1 ELSE 0

\* A block on its way is what it was read as, wiped, or converted.
BlockInv ==
  /\ setup.pc \in {"write", "advance"} =>
       \A s \in Sectors : s \notin Block => disk[s] \in {Lost, Layer(s)}
  /\ setup.pc = "write" =>
       /\ setup.todo # {} /\ setup.todo \subseteq Block
       /\ \A s \in Sectors : setup.buffer[s] \in {Lost, Layer(s)}
       /\ ~setup.wiping => \A s \in Block \ setup.todo : disk[s] \in {Lost, Converted}
  /\ setup.pc = "advance" => \A s \in Block : disk[s] \in {Lost, Converted}

-----------------------------------------------------------------------------
(* The header.                                                             *)

\* The thread has nothing to save, or saving it has failed.
SavedInv ==
  /\ setup.pc \in {"begin", "holdFirst"} => ~setup.required
  /\ Ended \/ setup.pc \in {"saved", "acquire", "dismount", "release", "ret"} =>
       ~setup.required \/ lost.save
  /\ ~setup.required /\ ~lost.save => AreaLength = HeaderLength

\* How far the header is behind the area.
Runs == {"begin", "holdFirst", "loop", "hold", "write", "advance"}
Far(n) == Threshold + BlockSize * n > Length
Bound(n) == Threshold + BlockSize * n
WrittenInv ==
  /\ ~Ended /\ ~setup.final =>
       IF Encrypting THEN setup.written <= AreaLength ELSE setup.written <= Length - AreaLength
  /\ ~Ended /\ ~setup.final /\ ~lost.save =>
       IF Encrypting THEN AreaLength = HeaderLength + setup.written
       ELSE AreaLength = HeaderLength - setup.written
  /\ ~lost.save /\ setup.pc \in Runs =>
       setup.written < Bound(lost.failedSaves) \/ Far(1 + lost.failedSaves)
  /\ ~lost.save /\ setup.pc \in {"readHeader", "writeHeader", "end"} /\ ~setup.final =>
       setup.written < Bound(1 + lost.failedSaves) \/ Far(1 + lost.failedSaves)
  /\ ~lost.save /\ setup.pc \in {"readHeader", "writeHeader", "holdLast"} /\ setup.final =>
       /\ AreaLength - HeaderLength < Bound(1 + lost.failedSaves)
       /\ HeaderLength - AreaLength < Bound(1 + lost.failedSaves)

IInv ==
  /\ Types /\ ThreadInv /\ ClientInv /\ MachineInv /\ AreaInv /\ DiskMatchesArea /\ BlockInv
  /\ SavedInv /\ WrittenInv

-----------------------------------------------------------------------------
(* The area and the header, as the lengths that they amount to.            *)

LEMMA AreaLengthIs ==
  ASSUME Types
  PROVE  /\ AreaLength \in 0 .. Length /\ HeaderLength \in 0 .. Length
         /\ \A s \in Sectors : /\ InArea(s) <=> s <= AreaLength
                               /\ InHeaderArea(s) <=> s <= HeaderLength
BY SizesAssumption
DEF Types, DriveType, HeaderType, Headers, AreaLength, HeaderLength, Sectors, InArea, InHeaderArea

LEMMA NextAreaLengthIs ==
  ASSUME Types'
  PROVE  /\ AreaLength' \in 0 .. Length /\ HeaderLength' \in 0 .. Length
         /\ \A s \in Sectors : /\ InArea(s)' <=> s <= AreaLength'
                               /\ InHeaderArea(s)' <=> s <= HeaderLength'
BY SizesAssumption
DEF Types, DriveType, HeaderType, Headers, AreaLength, HeaderLength, Sectors, InArea, InHeaderArea

\* After a restart the area is the one of the header.
LEMMA MountedArea ==
  ASSUME Types, drive' = Mounted(header), UNCHANGED header
  PROVE  /\ DriveType'
         /\ AreaLength' = HeaderLength /\ HeaderLength' = HeaderLength
         /\ Settled'
<1>1. header.length \in 0 .. Length /\ header.keys \in 0 .. MaxChanges /\ header.present \in BOOLEAN
  BY DEF Types, HeaderType, Headers
<1>2. CASE header.present /\ header.length # 0
  BY <1>1, <1>2, SizesAssumption
  DEF Mounted, DriveType, AreaLength, HeaderLength, Settled, NoKeys
<1>3. CASE ~(header.present /\ header.length # 0)
  BY <1>1, <1>3, SizesAssumption
  DEF Mounted, DriveType, AreaLength, HeaderLength, Settled, NoKeys
<1> QED BY <1>2, <1>3

LEMMA MismatchIs ==
  ASSUME Types
  PROVE  Mismatch = {s \in Sectors : disk[s] \notin {Lost, IF s <= HeaderLength THEN 1 ELSE 0}}
BY AreaLengthIs DEF Mismatch

\* The bounds on what is at stake grow by a block.
LEMMA BoundGrows ==
  ASSUME NEW n \in Nat
  PROVE  /\ Bound(n) \in Nat /\ Bound(n) >= Threshold
         /\ Bound(n + 1) = Bound(n) + BlockSize /\ Bound(1 + n) = Bound(n) + BlockSize
         /\ Far(n) <=> Bound(n) > Length
<1>1. BlockSize \in Nat /\ Threshold \in Nat BY SizesAssumption
<1>2. BlockSize * n \in Nat BY <1>1
<1>3. BlockSize * (n + 1) = BlockSize * n + BlockSize BY <1>1
<1>4. 1 + n = n + 1 OBVIOUS
<1> QED BY <1>1, <1>2, <1>3, <1>4 DEF Bound, Far

\* While a setup is in progress nothing of the programs and of the system depends
\* on what the setup thread does.
LEMMA RestKept ==
  ASSUME IInv, ~Ended, UNCHANGED <<client, sysEnc, machine>>
  PROVE  ClientInv' /\ MachineInv'
<1>1. ClientInv'
  BY DEF IInv, ClientInv, InPasswordChange
<1>2. MachineInv'
  BY DEF IInv, MachineInv, Quiet
<1> QED BY <1>1, <1>2

\* Nor do their properties when no setup is in progress, as long as they do nothing.
LEMMA IdleKept ==
  ASSUME IInv, Ended, Ended', UNCHANGED <<client, sysEnc, machine, header>>
  PROVE  ClientInv' /\ MachineInv'
<1>1. ClientInv'
  BY DEF IInv, ClientInv, InPasswordChange
<1>2. MachineInv'
  BY DEF IInv, MachineInv, Quiet
<1> QED BY <1>1, <1>2

\* The numbers that the steps reckon with.
LEMMA Ranges ==
  ASSUME Types
  PROVE  /\ Length \in Nat \ {0} /\ BlockSize \in Nat \ {0} /\ Threshold \in Nat \ {0}
         /\ drive.start \in {-1, 1} /\ drive.end \in -1 .. Length
         /\ setup.offset \in 0 .. Length + 1 /\ setup.size \in 0 .. BlockSize
         /\ setup.written \in 0 .. Length
         /\ control.mode \in {"encrypt", "decrypt"}
         /\ AreaLength \in 0 .. Length /\ HeaderLength \in 0 .. Length
         /\ lost.failedSaves \in Nat
BY SizesAssumption, AreaLengthIs
DEF Types, DriveType, SetupType, ControlType, LostType

LEMMA Bounds ==
  ASSUME Types
  PROVE  /\ Bound(lost.failedSaves) \in Nat /\ Bound(lost.failedSaves) >= Threshold
         /\ Bound(1 + lost.failedSaves) = Bound(lost.failedSaves) + BlockSize
         /\ Far(1 + lost.failedSaves) <=> Bound(1 + lost.failedSaves) > Length
BY Ranges, BoundGrows

\* A block that is not begun, or given up, leaves the area as an end finds it.
LEMMA BlockEnds ==
  ASSUME Types, AtBlock \/ AtOffset
  PROVE  Settled \/ (drive.start = 1 /\ drive.end = IF Encrypting THEN -1 ELSE 0)
BY Ranges DEF AtBlock, AtOffset, AreaLength, Settled, Encrypting

LEMMA BlockIsInside ==
  ASSUME Types, AtBlock
  PROVE  /\ Block \subseteq Sectors /\ Block # {}
         /\ \A s \in Block : Layer(s) = IF Encrypting THEN 0 ELSE 1
<1>1. Block \subseteq Sectors BY Ranges DEF AtBlock, Block, Sectors
<1>2. setup.offset \in Block BY Ranges DEF AtBlock, Block
<1>3. \A s \in Sectors : InArea(s) <=> s <= AreaLength BY AreaLengthIs
<1>4. CASE Encrypting
  BY <1>1, <1>2, <1>3, <1>4, Ranges DEF AtBlock, Block, Layer, Sectors
<1>5. CASE ~Encrypting
  <2>1. AreaLength = setup.offset + setup.size - 1
    BY <1>5, Ranges DEF AtBlock, AreaLength
  <2> QED BY <1>1, <1>2, <1>3, <1>5, <2>1, Ranges DEF AtBlock, Block, Layer, Sectors
<1> QED BY <1>4, <1>5

-----------------------------------------------------------------------------
(* The steps of the setup thread.                                          *)

\* What does not change when only the progress of the thread does.
Contents == <<disk, header, drive>>
Others == <<client, sysEnc, machine>>

LEMMA NextTypes ==
  ASSUME Types, SetupType', UNCHANGED <<Contents, Others, root>>, ControlType', LostType'
  PROVE  Types'
BY DEF Types, Contents, Others, DiskType, HeaderType, DriveType, RootType, SysEncType, ClientType,
       MachineType

LEMMA SameArea ==
  ASSUME Types, UNCHANGED Contents
  PROVE  /\ AreaLength' = AreaLength /\ HeaderLength' = HeaderLength
         /\ Settled' <=> Settled
         /\ \A s : Layer(s)' = Layer(s) /\ (InArea(s)' <=> InArea(s))
BY DEF Contents, AreaLength, HeaderLength, Settled, Layer, InArea

LEMMA SameAreaOnly ==
  ASSUME Types, UNCHANGED <<header, drive>>
  PROVE  /\ AreaLength' = AreaLength /\ HeaderLength' = HeaderLength
         /\ Settled' <=> Settled
         /\ \A s : Layer(s)' = Layer(s) /\ (InArea(s)' <=> InArea(s))
BY DEF AreaLength, HeaderLength, Settled, Layer, InArea

LEMMA DeadThreadIs ==
  /\ DeadThread.pc = "dead" /\ DeadThread.offset = 0 /\ DeadThread.size = BlockSize
  /\ DeadThread.todo = {} /\ DeadThread.buffer = NoBuffer /\ DeadThread.wiping = FALSE
  /\ DeadThread.required = FALSE /\ DeadThread.written = 0 /\ DeadThread.copy = NoHeader
  /\ DeadThread.final = FALSE
  /\ DeadThread \in [pc : SetupPcs, offset : 0 .. Length + 1, size : 0 .. BlockSize,
       todo : SUBSET Sectors, buffer : [Sectors -> Layers], wiping : BOOLEAN,
       required : BOOLEAN, written : 0 .. Length, copy : Headers, final : BOOLEAN]
<1>1. NoBuffer \in [Sectors -> Layers] BY DEF NoBuffer, Layers
<1>2. NoHeader \in Headers BY SizesAssumption, OptionsAssumption DEF NoHeader, Headers
<1>3. /\ 0 \in 0 .. Length /\ 0 \in 0 .. Length + 1 /\ BlockSize \in 0 .. BlockSize
  BY SizesAssumption
<1> QED BY <1>1, <1>2, <1>3 DEF DeadThread, SetupPcs

LEMMA SetupBeginStep ==
  ASSUME IInv, SetupBegin
  PROVE  IInv'
<1> DEFINE pc == IF drive.keys = NoKeys THEN "ret" ELSE "holdFirst"
<1>1. /\ setup.pc = "begin"
      /\ setup' = [setup EXCEPT !.pc = pc]
      /\ pc \in {"ret", "holdFirst"}
      /\ UNCHANGED <<Contents, Others, root, control, lost>>
  BY DEF SetupBegin, ToPc, Contents, Others
<1>2. Types BY DEF IInv
<1> HIDE DEF pc
<1>3. /\ setup'.pc = pc /\ setup'.offset = setup.offset /\ setup'.size = setup.size
      /\ setup'.todo = setup.todo /\ setup'.buffer = setup.buffer
      /\ setup'.wiping = setup.wiping /\ setup'.required = setup.required
      /\ setup'.written = setup.written /\ setup'.copy = setup.copy
      /\ setup'.final = setup.final /\ SetupType'
  BY <1>1, <1>2 DEF Types, SetupType, SetupPcs
<1>4. Types' BY <1>1, <1>2, <1>3, NextTypes DEF Types, ControlType, LostType
<1>5. ThreadInv' BY <1>1, <1>3 DEF IInv, ThreadInv, Ended
<1>6. ClientInv' /\ MachineInv' BY <1>1, RestKept DEF Others, Ended
<1>7. AreaInv'
  BY <1>1, <1>2, <1>3, SameArea, Ranges DEF IInv, AreaInv, Ended, Encrypting, AtOffset, AtBlock,
    Contents
<1>8. DiskMatchesArea' /\ BlockInv'
  BY <1>1, <1>2, <1>3, SameArea, Ranges DEF IInv, DiskMatchesArea, BlockInv, Contents
<1>9. SavedInv' BY <1>1, <1>2, <1>3, SameArea, Ranges DEF IInv, SavedInv, Ended, Encrypting
<1>10. WrittenInv'
  BY <1>1, <1>2, <1>3, SameArea, Ranges, Bounds DEF IInv, WrittenInv, Ended, Encrypting, Runs
<1> QED BY <1>4, <1>5, <1>6, <1>7, <1>8, <1>9, <1>10 DEF IInv

LEMMA SetupHoldAbortedStep ==
  ASSUME IInv, SetupHoldAborted
  PROVE  IInv'
<1> DEFINE pc == "end"
<1>1. /\ setup.pc \in {"holdFirst", "hold"}
      /\ setup' = [setup EXCEPT !.pc = pc]
      /\ pc \in {"end"}
      /\ UNCHANGED <<Contents, Others, root, control, lost>>
  BY DEF SetupHoldAborted, ToPc, Contents, Others
<1>2. Types BY DEF IInv
<1> HIDE DEF pc
<1>3. /\ setup'.pc = pc /\ setup'.offset = setup.offset /\ setup'.size = setup.size
      /\ setup'.todo = setup.todo /\ setup'.buffer = setup.buffer
      /\ setup'.wiping = setup.wiping /\ setup'.required = setup.required
      /\ setup'.written = setup.written /\ setup'.copy = setup.copy
      /\ setup'.final = setup.final /\ SetupType'
  BY <1>1, <1>2 DEF Types, SetupType, SetupPcs
<1>4. Types' BY <1>1, <1>2, <1>3, NextTypes DEF Types, ControlType, LostType
<1>5. ThreadInv' BY <1>1, <1>3 DEF IInv, ThreadInv, Ended
<1>6. ClientInv' /\ MachineInv' BY <1>1, RestKept DEF Others, Ended
<1>7. AreaInv'
  BY <1>1, <1>2, <1>3, SameArea, Ranges, BlockEnds DEF IInv, AreaInv, Ended, Encrypting, AtOffset,
    AtBlock, Contents
<1>8. DiskMatchesArea' /\ BlockInv'
  BY <1>1, <1>2, <1>3, SameArea, Ranges DEF IInv, DiskMatchesArea, BlockInv, Contents
<1>9. SavedInv' BY <1>1, <1>2, <1>3, SameArea, Ranges DEF IInv, SavedInv, Ended, Encrypting
<1>10. WrittenInv'
  BY <1>1, <1>2, <1>3, SameArea, Ranges, Bounds DEF IInv, WrittenInv, Ended, Encrypting, Runs
<1> QED BY <1>4, <1>5, <1>6, <1>7, <1>8, <1>9, <1>10 DEF IInv

LEMMA SetupSavedStep ==
  ASSUME IInv, SetupSaved
  PROVE  IInv'
<1> DEFINE pc == IF control.mode = "decrypt" /\ ~drive.configured /\ drive.mounted
                 THEN "acquire" ELSE "ret"
<1>1. /\ setup.pc = "saved"
      /\ setup' = [setup EXCEPT !.pc = pc]
      /\ pc \in {"acquire", "ret"}
      /\ UNCHANGED <<Contents, Others, root, control, lost>>
  BY DEF SetupSaved, ToPc, Contents, Others
<1>2. Types BY DEF IInv
<1> HIDE DEF pc
<1>3. /\ setup'.pc = pc /\ setup'.offset = setup.offset /\ setup'.size = setup.size
      /\ setup'.todo = setup.todo /\ setup'.buffer = setup.buffer
      /\ setup'.wiping = setup.wiping /\ setup'.required = setup.required
      /\ setup'.written = setup.written /\ setup'.copy = setup.copy
      /\ setup'.final = setup.final /\ SetupType'
  BY <1>1, <1>2 DEF Types, SetupType, SetupPcs
<1>4. Types' BY <1>1, <1>2, <1>3, NextTypes DEF Types, ControlType, LostType
<1>5. ThreadInv' BY <1>1, <1>3 DEF IInv, ThreadInv, Ended
<1>6. ClientInv' /\ MachineInv' BY <1>1, RestKept DEF Others, Ended
<1>7. AreaInv'
  BY <1>1, <1>2, <1>3, SameArea, Ranges DEF IInv, AreaInv, Ended, Encrypting, AtOffset, AtBlock,
    Contents
<1>8. DiskMatchesArea' /\ BlockInv'
  BY <1>1, <1>2, <1>3, SameArea, Ranges DEF IInv, DiskMatchesArea, BlockInv, Contents
<1>9. SavedInv' BY <1>1, <1>2, <1>3, SameArea, Ranges DEF IInv, SavedInv, Ended, Encrypting
<1>10. WrittenInv'
  BY <1>1, <1>2, <1>3, SameArea, Ranges, Bounds DEF IInv, WrittenInv, Ended, Encrypting, Runs
<1> QED BY <1>4, <1>5, <1>6, <1>7, <1>8, <1>9, <1>10 DEF IInv

\* The block that is read is plain before an encryption, encrypted before a decryption.
LEMMA SetupHoldStep ==
  ASSUME IInv, SetupHold
  PROVE  IInv'
<1> DEFINE wiping == MayWipe /\ control.mode = "encrypt"
<1>1. /\ setup.pc = "hold"
      /\ setup' = [setup EXCEPT !.pc = "write", !.todo = Block, !.buffer = disk, !.wiping = wiping]
      /\ wiping \in BOOLEAN
      /\ UNCHANGED <<Contents, Others, root, control, lost>>
  BY DEF SetupHold, Contents, Others
<1>2. Types BY DEF IInv
<1> HIDE DEF wiping
<1>b. Block \subseteq Sectors /\ Block # {}
  BY <1>1, <1>2, BlockIsInside DEF IInv, AreaInv
<1>3. /\ setup'.pc = "write" /\ setup'.offset = setup.offset /\ setup'.size = setup.size
      /\ setup'.todo = Block /\ setup'.buffer = disk /\ setup'.wiping = wiping
      /\ setup'.required = setup.required /\ setup'.written = setup.written
      /\ setup'.copy = setup.copy /\ setup'.final = setup.final /\ SetupType'
  BY <1>1, <1>2, <1>b DEF Types, SetupType, SetupPcs, DiskType
<1>4. Types' BY <1>1, <1>2, <1>3, NextTypes DEF Types, ControlType, LostType
<1>5. ThreadInv' BY <1>1, <1>3 DEF IInv, ThreadInv, Ended
<1>6. ClientInv' /\ MachineInv' BY <1>1, RestKept DEF Others, Ended
<1>7. AreaInv'
  BY <1>1, <1>2, <1>3, SameArea, Ranges DEF IInv, AreaInv, Ended, Encrypting, AtOffset, AtBlock,
    Contents
<1>8. DiskMatchesArea' /\ BlockInv'
  BY <1>1, <1>2, <1>3, <1>b, SameArea DEF IInv, DiskMatchesArea, BlockInv, Contents, Block, Layer
<1>9. SavedInv' BY <1>1, <1>2, <1>3, SameArea, Ranges DEF IInv, SavedInv, Ended, Encrypting
<1>10. WrittenInv'
  BY <1>1, <1>2, <1>3, SameArea, Ranges, Bounds DEF IInv, WrittenInv, Ended, Encrypting, Runs
<1> QED BY <1>4, <1>5, <1>6, <1>7, <1>8, <1>9, <1>10 DEF IInv

LEMMA SaveReadStep ==
  ASSUME IInv, SaveRead
  PROVE  IInv'
<1>1. /\ setup.pc = "readHeader"
      /\ setup' = [setup EXCEPT !.pc = "writeHeader", !.copy = header]
      /\ UNCHANGED <<Contents, Others, root, control, lost>>
  BY DEF SaveRead, Contents, Others
<1>2. Types BY DEF IInv
<1>3. /\ setup'.pc = "writeHeader" /\ setup'.offset = setup.offset /\ setup'.size = setup.size
      /\ setup'.todo = setup.todo /\ setup'.buffer = setup.buffer
      /\ setup'.wiping = setup.wiping /\ setup'.required = setup.required
      /\ setup'.written = setup.written /\ setup'.copy = header /\ setup'.final = setup.final
      /\ SetupType'
  BY <1>1, <1>2 DEF Types, SetupType, SetupPcs, HeaderType
<1>4. Types' BY <1>1, <1>2, <1>3, NextTypes DEF Types, ControlType, LostType
<1>5. ThreadInv' BY <1>1, <1>3 DEF IInv, ThreadInv, Ended
<1>6. ClientInv' /\ MachineInv' BY <1>1, RestKept DEF Others, Ended
<1>7. AreaInv'
  BY <1>1, <1>2, <1>3, SameArea, Ranges DEF IInv, AreaInv, Ended, Encrypting, AtOffset, AtBlock,
    Contents
<1>8. DiskMatchesArea' /\ BlockInv'
  BY <1>1, <1>2, <1>3, SameArea, Ranges DEF IInv, DiskMatchesArea, BlockInv, Contents
<1>9. SavedInv' BY <1>1, <1>2, <1>3, SameArea, Ranges DEF IInv, SavedInv, Ended, Encrypting
<1>10. WrittenInv'
  BY <1>1, <1>2, <1>3, SameArea, Ranges, Bounds DEF IInv, WrittenInv, Ended, Encrypting, Runs
<1> QED BY <1>4, <1>5, <1>6, <1>7, <1>8, <1>9, <1>10 DEF IInv

LEMMA SetupReadFailsStep ==
  ASSUME IInv, SetupReadFails
  PROVE  IInv'
<1>1. /\ setup.pc = "hold"
      /\ setup' = [setup EXCEPT !.pc = "end"]
      /\ lost' = [lost EXCEPT !.failures = @ + 1]
      /\ UNCHANGED <<Contents, Others, root, control>>
  BY DEF SetupReadFails, ToPc, Contents, Others
<1>2. Types BY DEF IInv
<1>3. /\ setup'.pc = "end" /\ setup'.offset = setup.offset /\ setup'.size = setup.size
      /\ setup'.todo = setup.todo /\ setup'.buffer = setup.buffer
      /\ setup'.wiping = setup.wiping /\ setup'.required = setup.required
      /\ setup'.written = setup.written /\ setup'.copy = setup.copy
      /\ setup'.final = setup.final /\ lost'.save = lost.save
      /\ lost'.failedSaves = lost.failedSaves /\ LostType' /\ SetupType'
  BY <1>1, <1>2 DEF Types, SetupType, SetupPcs, LostType
<1>4. Types' BY <1>1, <1>2, <1>3, NextTypes DEF Types, ControlType, LostType
<1>5. ThreadInv' BY <1>1, <1>3 DEF IInv, ThreadInv, Ended
<1>6. ClientInv' /\ MachineInv' BY <1>1, RestKept DEF Others, Ended
<1>7. AreaInv'
  BY <1>1, <1>2, <1>3, SameArea, Ranges, BlockEnds DEF IInv, AreaInv, Ended, Encrypting, AtOffset,
    AtBlock, Contents
<1>8. DiskMatchesArea' /\ BlockInv'
  BY <1>1, <1>2, <1>3, SameArea, Ranges DEF IInv, DiskMatchesArea, BlockInv, Contents
<1>9. SavedInv' BY <1>1, <1>2, <1>3, SameArea, Ranges DEF IInv, SavedInv, Ended, Encrypting
<1>10. WrittenInv'
  BY <1>1, <1>2, <1>3, SameArea, Ranges, Bounds DEF IInv, WrittenInv, Ended, Encrypting, Runs
<1> QED BY <1>4, <1>5, <1>6, <1>7, <1>8, <1>9, <1>10 DEF IInv

\* The next block lies between the area and the rest of the drive.
LEMMA NextBlock ==
  ASSUME IInv, setup.pc = "loop", NEW size, size = CutBlock
  PROVE  /\ size \in 0 .. BlockSize
         /\ IF Encrypting
            THEN setup.offset <= Length => size >= 1 /\ setup.offset + size <= Length + 1
            ELSE setup.offset - size >= 1 /\ (size = 0 => setup.offset = 1)
<1>1. AtOffset /\ setup.size >= 1 /\ Types BY DEF IInv, AreaInv
<1> QED BY <1>1, Ranges DEF AtOffset, CutBlock, Encrypting

LEMMA SetupLoopStep ==
  ASSUME IInv, SetupLoop
  PROVE  IInv'
<1> DEFINE size == IF control.abort THEN setup.size ELSE CutBlock
           offset == IF control.abort \/ Encrypting THEN setup.offset ELSE setup.offset - size
           done == IF Encrypting THEN offset > Length ELSE size = 0 \/ offset < drive.start
           pc == IF control.abort \/ done THEN "end" ELSE "hold"
<1>0. Types BY DEF IInv
<1>1. /\ setup.pc = "loop"
      /\ setup' = [setup EXCEPT !.pc = pc, !.size = size, !.offset = offset]
      /\ UNCHANGED <<Contents, Others, root, control, lost>>
  <2>1. CASE control.abort
    <3>1. setup' = [setup EXCEPT !.pc = "end"] BY <1>0, <2>1 DEF SetupLoop, ToPc
    <3>2. /\ pc = "end" /\ size = setup.size /\ offset = setup.offset BY <2>1
    <3> QED BY <1>0, <2>1, <3>1, <3>2 DEF SetupLoop, ToPc, Contents, Others, Types, SetupType
  <2>2. CASE ~control.abort BY <2>2 DEF SetupLoop, Encrypting, Contents, Others
  <2> QED BY <2>1, <2>2
<1>2. Types BY DEF IInv
<1>l. AtOffset /\ setup.size >= 1 BY <1>1, <1>2 DEF IInv, AreaInv
<1>n. /\ size \in 0 .. BlockSize /\ offset \in 0 .. Length + 1
      /\ pc \in {"end", "hold"}
      /\ pc = "hold" => /\ size >= 1 /\ offset >= 1 /\ offset + size <= Length + 1
                       /\ IF Encrypting THEN offset = setup.offset
                          ELSE offset + size = setup.offset
  <2>1. CASE control.abort BY <1>2, <2>1, Ranges DEF size, offset, pc
  <2>2. CASE ~control.abort
    <3>1. size = CutBlock BY <2>2 DEF size
    <3>2. offset = IF Encrypting THEN setup.offset ELSE setup.offset - size BY <2>2 DEF offset
    <3>3. pc = IF done THEN "end" ELSE "hold" BY <2>2 DEF pc
    <3>4. done <=> IF Encrypting THEN offset > Length ELSE size = 0 \/ offset < drive.start
      BY DEF done
    <3> HIDE DEF size, offset, pc, done
    <3> QED BY <1>1, <1>2, <1>l, <3>1, <3>2, <3>3, <3>4, NextBlock, Ranges DEF AtOffset
  <2> QED BY <2>1, <2>2
<1> HIDE DEF size, offset, done, pc
<1>3. /\ setup'.pc = pc /\ setup'.offset = offset /\ setup'.size = size
      /\ setup'.todo = setup.todo /\ setup'.buffer = setup.buffer
      /\ setup'.wiping = setup.wiping /\ setup'.required = setup.required
      /\ setup'.written = setup.written /\ setup'.copy = setup.copy
      /\ setup'.final = setup.final /\ SetupType'
  BY <1>1, <1>2, <1>n DEF Types, SetupType, SetupPcs
<1>b. pc = "hold" => AtBlock'
  BY <1>1, <1>2, <1>3, <1>l, <1>n, SameArea, Ranges
  DEF AtOffset, AtBlock, Encrypting, Contents, AreaLength
<1>4. Types' BY <1>1, <1>2, <1>3, NextTypes DEF Types, ControlType, LostType
<1>5. ThreadInv' BY <1>1, <1>3, <1>n DEF IInv, ThreadInv, Ended
<1>6. ClientInv' /\ MachineInv' BY <1>1, RestKept DEF Others, Ended
<1>7. AreaInv'
  BY <1>1, <1>2, <1>3, SameArea, Ranges, <1>b, <1>l, <1>n, BlockEnds DEF IInv, AreaInv, Ended,
    Encrypting, AtOffset, AtBlock, Contents
<1>8. DiskMatchesArea' /\ BlockInv'
  BY <1>1, <1>2, <1>3, SameArea, Ranges, <1>n DEF IInv, DiskMatchesArea, BlockInv, Contents
<1>9. SavedInv' BY <1>1, <1>2, <1>3, SameArea, Ranges, <1>n DEF IInv, SavedInv, Ended, Encrypting
<1>10. WrittenInv'
  BY <1>1, <1>2, <1>3, SameArea, Ranges, Bounds, <1>n DEF IInv, WrittenInv, Ended, Encrypting,
    Runs
<1> QED BY <1>4, <1>5, <1>6, <1>7, <1>8, <1>9, <1>10 DEF IInv

\* Wiped sectors lie in the block, which the area does not take in before it is written.
LEMMA SetupWipeStep ==
  ASSUME IInv, NEW s \in Sectors, SetupWipe(s)
  PROVE  IInv'
<1> DEFINE todo == IF setup.todo = {s} THEN Block ELSE setup.todo \ {s}
           wiping == (setup.todo # {s})
<1>1. /\ setup.pc = "write" /\ setup.wiping /\ s \in setup.todo
      /\ disk' = [disk EXCEPT ![s] = Wiped]
      /\ setup' = [setup EXCEPT !.todo = todo, !.wiping = wiping]
      /\ wiping \in BOOLEAN
      /\ UNCHANGED <<header, drive, Others, root, control, lost>>
  BY DEF SetupWipe, Others
<1>2. Types BY DEF IInv
<1>b. AtBlock /\ Block \subseteq Sectors /\ Block # {} /\ s \in Block /\ setup.todo \subseteq Block
  BY <1>1, <1>2, BlockIsInside DEF IInv, AreaInv, BlockInv
<1>t. /\ todo # {} /\ todo \subseteq Block
      /\ ~wiping => todo = Block
  BY <1>1, <1>b
<1> HIDE DEF todo, wiping
<1>3. /\ setup'.pc = setup.pc /\ setup'.offset = setup.offset /\ setup'.size = setup.size
      /\ setup'.todo = todo /\ setup'.buffer = setup.buffer /\ setup'.wiping = wiping
      /\ setup'.required = setup.required /\ setup'.written = setup.written
      /\ setup'.copy = setup.copy /\ setup'.final = setup.final /\ SetupType'
  BY <1>1, <1>2, <1>b, <1>t DEF Types, SetupType
<1>4. Types'
  BY <1>1, <1>2, <1>3 DEF Layers, Wiped, Types, DiskType, HeaderType, DriveType, ControlType,
    RootType, SysEncType, ClientType, MachineType, LostType, Contents, Others
<1>5. ThreadInv' BY <1>1, <1>3 DEF IInv, ThreadInv, Ended
<1>6. ClientInv' /\ MachineInv' BY <1>1, RestKept DEF Others, Ended
<1>7. AreaInv'
  BY <1>1, <1>2, <1>3, SameAreaOnly, Ranges, <1>b DEF IInv, AreaInv, Ended, Encrypting, AtOffset,
    AtBlock, Contents
<1>8. DiskMatchesArea' /\ BlockInv'
  <2>1. Block' = Block BY <1>3 DEF Block
  <2>2. \A r \in Sectors : r # s => disk'[r] = disk[r]
    BY <1>1, <1>2 DEF Types, DiskType
  <2> QED
    BY <1>1, <1>2, <1>3, <1>b, <1>t, <2>1, <2>2, SameAreaOnly
    DEF IInv, DiskMatchesArea, BlockInv, Converted, Encrypting
<1>9. SavedInv' BY <1>1, <1>2, <1>3, SameAreaOnly, Ranges DEF IInv, SavedInv, Ended, Encrypting
<1>10. WrittenInv'
  BY <1>1, <1>2, <1>3, SameAreaOnly, Ranges, Bounds DEF IInv, WrittenInv, Ended, Encrypting, Runs
<1> QED BY <1>4, <1>5, <1>6, <1>7, <1>8, <1>9, <1>10 DEF IInv

\* A sector of the block is converted from what was read, so that it is converted once.
LEMMA SetupWriteStep ==
  ASSUME IInv, NEW s \in Sectors, SetupWrite(s)
  PROVE  IInv'
<1> DEFINE layer == IF Encrypting THEN Encrypt(setup.buffer[s]) ELSE Decrypt(setup.buffer[s])
           todo == setup.todo \ {s}
           pc == IF setup.todo = {s} THEN "advance" ELSE setup.pc
<1>1. /\ setup.pc = "write" /\ ~setup.wiping /\ s \in setup.todo
      /\ disk' = [disk EXCEPT ![s] = layer]
      /\ setup' = [setup EXCEPT !.todo = todo, !.pc = pc]
      /\ UNCHANGED <<header, drive, Others, root, control, lost>>
  BY DEF SetupWrite, Others, Encrypting
<1>2. Types BY DEF IInv
<1>b. /\ AtBlock /\ Block \subseteq Sectors /\ s \in Block /\ setup.todo \subseteq Block
      /\ Layer(s) = IF Encrypting THEN 0 ELSE 1
  BY <1>1, <1>2, BlockIsInside DEF IInv, AreaInv, BlockInv
<1>t. /\ todo \subseteq Block
      /\ pc \in {"write", "advance"}
      /\ pc = "write" => todo # {}
      /\ pc = "advance" => todo = {}
  BY <1>1, <1>b
<1>l. layer \in {Lost, Converted} /\ layer \in Layers
  <2>1. setup.buffer[s] \in {Lost, Layer(s)} BY <1>1 DEF IInv, BlockInv
  <2> QED BY <1>b, <2>1 DEF Encrypt, Decrypt, Lost, Wiped, Converted, Layers
<1> HIDE DEF todo, pc, layer
<1>3. /\ setup'.pc = pc /\ setup'.offset = setup.offset /\ setup'.size = setup.size
      /\ setup'.todo = todo /\ setup'.buffer = setup.buffer /\ setup'.wiping = setup.wiping
      /\ setup'.required = setup.required /\ setup'.written = setup.written
      /\ setup'.copy = setup.copy /\ setup'.final = setup.final /\ SetupType'
  BY <1>1, <1>2, <1>b, <1>t DEF Types, SetupType, SetupPcs
<1>4. Types'
  BY <1>1, <1>2, <1>3, <1>l DEF Types, DiskType, HeaderType, DriveType, ControlType, RootType,
    SysEncType, ClientType, MachineType, LostType, Contents, Others
<1>5. ThreadInv' BY <1>1, <1>3, <1>t DEF IInv, ThreadInv, Ended
<1>6. ClientInv' /\ MachineInv' BY <1>1, RestKept DEF Others, Ended
<1>7. AreaInv'
  BY <1>1, <1>2, <1>3, SameAreaOnly, Ranges, <1>b, <1>t DEF IInv, AreaInv, Ended, Encrypting,
    AtOffset, AtBlock, Contents
<1>8. DiskMatchesArea' /\ BlockInv'
  <2>1. Block' = Block BY <1>3 DEF Block
  <2>2. disk'[s] = layer /\ \A r \in Sectors : r # s => disk'[r] = disk[r]
    BY <1>1, <1>2 DEF Types, DiskType
  <2>3. Converted' = Converted BY <1>1 DEF Converted, Encrypting
  <2>4. todo = setup.todo \ {s} BY DEF todo
  <2> QED
    BY <1>1, <1>2, <1>3, <1>b, <1>t, <1>l, <2>1, <2>2, <2>3, <2>4, SameAreaOnly
    DEF IInv, DiskMatchesArea, BlockInv
<1>9. SavedInv'
  BY <1>1, <1>2, <1>3, SameAreaOnly, Ranges, <1>t DEF IInv, SavedInv, Ended, Encrypting
<1>10. WrittenInv'
  BY <1>1, <1>2, <1>3, SameAreaOnly, Ranges, Bounds, <1>t DEF IInv, WrittenInv, Ended, Encrypting,
    Runs
<1> QED BY <1>4, <1>5, <1>6, <1>7, <1>8, <1>9, <1>10 DEF IInv

\* The block is again what the area says, or lost.
LEMMA SetupUndoStep ==
  ASSUME IInv, SetupUndo
  PROVE  IInv'
<1>1. /\ setup.pc = "write"
      /\ setup' = [setup EXCEPT !.pc = "end", !.todo = {}, !.buffer = NoBuffer, !.wiping = FALSE]
      /\ lost' = [lost EXCEPT !.failures = @ + 1]
      /\ disk' = setup.buffer \/ Spoil(Block)
      /\ UNCHANGED <<header, drive, Others, root, control>>
  BY DEF SetupUndo, Others
<1>2. Types BY DEF IInv
<1>b. AtBlock BY <1>1 DEF IInv, AreaInv
<1>f. lost'.save = lost.save /\ lost'.failedSaves = lost.failedSaves /\ LostType'
  BY <1>1, <1>2 DEF Types, LostType
<1>n. NoBuffer \in [Sectors -> Layers] BY DEF NoBuffer, Layers
<1>d. \A s \in Sectors : disk'[s] \in {Lost, Layer(s)}
  <2>1. \A s \in Sectors : setup.buffer[s] \in {Lost, Layer(s)} BY <1>1 DEF IInv, BlockInv
  <2>2. CASE Spoil(Block) BY <1>1, <2>2 DEF IInv, BlockInv, Spoil
  <2> QED BY <1>1, <2>1, <2>2
<1>t. disk' \in [Sectors -> Layers]
  BY <1>1, <1>2, <1>d DEF Types, SetupType, DiskType, Spoil, Layers
<1>3. /\ setup'.pc = "end" /\ setup'.offset = setup.offset /\ setup'.size = setup.size
      /\ setup'.todo = {} /\ setup'.buffer = NoBuffer /\ setup'.wiping = FALSE
      /\ setup'.required = setup.required /\ setup'.written = setup.written
      /\ setup'.copy = setup.copy /\ setup'.final = setup.final /\ lost'.save = lost.save
      /\ lost'.failedSaves = lost.failedSaves /\ LostType' /\ SetupType'
  BY <1>1, <1>2, <1>n, <1>f DEF Types, SetupType, SetupPcs
<1>4. Types'
  BY <1>1, <1>2, <1>3, <1>t DEF Types, DiskType, HeaderType, DriveType, ControlType, RootType,
    SysEncType, ClientType, MachineType, LostType, Contents, Others
<1>5. ThreadInv' BY <1>1, <1>3 DEF IInv, ThreadInv, Ended
<1>6. ClientInv' /\ MachineInv' BY <1>1, RestKept DEF Others, Ended
<1>7. AreaInv'
  BY <1>1, <1>2, <1>3, SameAreaOnly, Ranges, <1>b, BlockEnds DEF IInv, AreaInv, Ended, Encrypting,
    AtOffset, AtBlock, Contents
<1>8. DiskMatchesArea' /\ BlockInv'
  BY <1>1, <1>2, <1>3, <1>d, SameAreaOnly DEF IInv, DiskMatchesArea, BlockInv, Layer
<1>9. SavedInv' BY <1>1, <1>2, <1>3, SameAreaOnly, Ranges DEF IInv, SavedInv, Ended, Encrypting
<1>10. WrittenInv'
  BY <1>1, <1>2, <1>3, SameAreaOnly, Ranges, Bounds DEF IInv, WrittenInv, Ended, Encrypting, Runs
<1> QED BY <1>4, <1>5, <1>6, <1>7, <1>8, <1>9, <1>10 DEF IInv

\* The end of the area passes over the block that was converted.
LEMMA SetupAdvanceStep ==
  ASSUME IInv, SetupAdvance
  PROVE  IInv'
<1> DEFINE offset == setup.offset + IF Encrypting THEN setup.size ELSE 0
           written == setup.written + setup.size
           pc == IF SaveIsDue(written) THEN "readHeader" ELSE "loop"
<1>1. /\ setup.pc = "advance"
      /\ drive' = [drive EXCEPT !.end = offset - 1]
      /\ setup' = [setup EXCEPT !.offset = offset, !.written = written, !.required = TRUE,
                              !.buffer = NoBuffer, !.pc = pc]
      /\ UNCHANGED <<disk, header, Others, root, control, lost>>
  BY DEF SetupAdvance, Others, Encrypting
<1>2. Types BY DEF IInv
<1>b. AtBlock /\ setup.size >= 1 /\ ~setup.final
  BY <1>1 DEF IInv, AreaInv, ThreadInv
<1>n. NoBuffer \in [Sectors -> Layers] BY DEF NoBuffer, Layers
<1>o. /\ offset \in 0 .. Length + 1 /\ offset >= 1 /\ written \in 0 .. Length
      /\ offset = IF Encrypting THEN setup.offset + setup.size ELSE setup.offset
      /\ written = setup.written + setup.size
      /\ pc \in {"readHeader", "loop"} /\ (pc = "loop" => written < Threshold)
  <2>1. /\ Encrypting => setup.written <= AreaLength
        /\ ~Encrypting => setup.written <= Length - AreaLength
    BY <1>1, <1>b DEF IInv, WrittenInv, Ended
  <2>2. ~Encrypting => AreaLength = setup.offset + setup.size - 1
    BY <1>2, <1>b, Ranges DEF AtBlock, AreaLength
  <2> QED BY <1>1, <1>2, <1>b, <2>1, <2>2, Ranges DEF AtBlock, SaveIsDue
<1> HIDE DEF offset, written, pc
<1>e. /\ drive'.start = 1 /\ drive'.end = offset - 1 /\ DriveType'
  BY <1>1, <1>2, <1>b, <1>o, SizesAssumption DEF Types, DriveType, AtBlock
<1>a. /\ AreaLength' = offset - 1 /\ HeaderLength' = HeaderLength /\ (Encrypting' <=> Encrypting)
      /\ AreaLength = IF Encrypting THEN setup.offset - 1 ELSE setup.offset + setup.size - 1
  BY <1>1, <1>2, <1>b, <1>e, <1>o, Ranges DEF AtBlock, AreaLength, HeaderLength, Encrypting
<1>3. /\ setup'.pc = pc /\ setup'.offset = offset /\ setup'.size = setup.size
      /\ setup'.todo = setup.todo /\ setup'.buffer = NoBuffer /\ setup'.wiping = setup.wiping
      /\ setup'.required = TRUE /\ setup'.written = written /\ setup'.copy = setup.copy
      /\ setup'.final = setup.final /\ SetupType'
  BY <1>1, <1>2, <1>o, <1>n DEF Types, SetupType, SetupPcs
<1>4. Types'
  BY <1>1, <1>2, <1>3, <1>e DEF Types, DiskType, HeaderType, DriveType, ControlType, RootType,
    SysEncType, ClientType, MachineType, LostType, Contents, Others
<1>5. ThreadInv' BY <1>1, <1>3, <1>o DEF IInv, ThreadInv, Ended
<1>6. ClientInv' /\ MachineInv' BY <1>1, RestKept DEF Others, Ended
<1>7. AreaInv'
  BY <1>1, <1>2, <1>3, <1>b, <1>o, <1>e, <1>a, Ranges DEF IInv, AreaInv, Ended, Encrypting,
    AtOffset, AtBlock, Contents, AreaLength
<1>8. DiskMatchesArea' /\ BlockInv'
  <2>1. \A s \in Sectors : Layer(s)' = IF s <= offset - 1 THEN 1 ELSE 0
    BY <1>4, <1>a, NextAreaLengthIs DEF Layer
  <2>2. \A s \in Sectors : Layer(s) = IF s <= AreaLength THEN 1 ELSE 0
    BY <1>2, AreaLengthIs DEF Layer
  <2>3. \A s \in Sectors : disk[s] \in {Lost, Layer(s)'}
    <3> SUFFICES ASSUME NEW s \in Sectors PROVE disk[s] \in {Lost, Layer(s)'}
      OBVIOUS
    <3>1. s \in Block <=> setup.offset <= s /\ s <= setup.offset + setup.size - 1
      BY <1>2, Ranges DEF Block, Sectors
    <3>2. s \in Int BY DEF Sectors
    <3>3. Layer(s)' = IF s <= offset - 1 THEN 1 ELSE 0 BY <2>1
    <3>4. Layer(s) = IF s <= AreaLength THEN 1 ELSE 0 BY <2>2
    <3>5. s \in Block => disk[s] \in {Lost, Converted} BY <1>1 DEF IInv, BlockInv
    <3>5a. s \notin Block => disk[s] \in {Lost, Layer(s)} BY <1>1 DEF IInv, BlockInv
    <3>6. CASE s \in Block
      <4>1. Layer(s)' = Converted
        BY <1>2, <1>o, <1>a, <3>1, <3>2, <3>3, <3>6, Ranges DEF Converted
      <4> QED BY <3>5, <3>6, <4>1
    <3>7. CASE s \notin Block
      <4>1. Layer(s)' = Layer(s)
        BY <1>2, <1>b, <1>o, <1>a, <3>1, <3>2, <3>3, <3>4, <3>7, Ranges
      <4> QED BY <3>7, <3>5a, <4>1
    <3> QED BY <3>6, <3>7
  <2> QED BY <1>1, <1>3, <1>o, <2>3 DEF DiskMatchesArea, BlockInv, Layer
<1>9. SavedInv'
  BY <1>1, <1>2, <1>3, <1>b, <1>o, <1>e, <1>a, Ranges DEF IInv, SavedInv, Ended, Encrypting
<1>10. WrittenInv'
  BY <1>1, <1>2, <1>3, <1>b, <1>o, <1>e, <1>a, Ranges, Bounds DEF IInv, WrittenInv, Ended,
    Encrypting, Runs
<1> QED BY <1>4, <1>5, <1>6, <1>7, <1>8, <1>9, <1>10 DEF IInv

\* The header takes the length of the area.
LEMMA SaveWriteStep ==
  ASSUME IInv, SaveWrite
  PROVE  IInv'
<1> DEFINE pc == IF setup.final THEN "saved" ELSE "loop"
<1>1. /\ setup.pc = "writeHeader" /\ HeaderOpens
      /\ header' = SavedHeader
      /\ setup' = [setup EXCEPT !.pc = pc, !.required = FALSE, !.written = 0, !.copy = NoHeader]
      /\ lost' = [lost EXCEPT !.save = FALSE, !.failedSaves = 0]
      /\ UNCHANGED <<disk, drive, Others, root, control>>
  BY DEF SaveWrite, Saved, Others
<1>2. Types BY DEF IInv
<1>p. /\ pc \in {"saved", "loop"} /\ (pc = "saved" <=> setup.final)
  OBVIOUS
<1> HIDE DEF pc
<1>f. lost'.save = FALSE /\ lost'.failedSaves = 0 /\ LostType'
  BY <1>1, <1>2 DEF Types, LostType
<1>z. /\ 0 \in 0 .. Length /\ Bound(lost'.failedSaves) \in Nat
      /\ Bound(lost'.failedSaves) >= Threshold /\ Threshold >= 1
  BY <1>f, SizesAssumption, BoundGrows
<1>n. NoHeader \in Headers /\ ~NoHeader.present
  BY SizesAssumption, OptionsAssumption DEF NoHeader, Headers
<1>s. setup.required /\ (setup.final => Settled) /\ (~setup.final => AtOffset)
  BY <1>1 DEF IInv, AreaInv
<1>h. /\ HeaderType' /\ HeaderLength' = AreaLength
  <2>1. setup.copy \in Headers BY <1>2 DEF Types, SetupType
  <2>2. Encrypting => AreaLength >= 1 BY <1>1, <1>s DEF IInv, AreaInv, Ended
  <2>3. IsEmptyArea <=> AreaLength = 0
    BY <1>2, <1>s, Ranges DEF IsEmptyArea, AreaLength, AtOffset, Settled
  <2>4. CASE IsEmptyArea
    <3>1. header' = NoHeader BY <1>1, <1>2, <2>2, <2>3, <2>4, Ranges DEF SavedHeader, Encrypting
    <3> QED BY <1>n, <2>3, <2>4, <3>1 DEF HeaderType, HeaderLength
  <2>5. CASE ~IsEmptyArea
    <3>1. drive.start = 1 /\ drive.end = AreaLength
      BY <1>2, <2>5, Ranges DEF IsEmptyArea, AreaLength
    <3>2. PICK n \in 0 .. Length : n = drive.end + 1 - drive.start /\ n = AreaLength
      BY <1>2, <3>1, Ranges
    <3>3. header' = [setup.copy EXCEPT !.length = n]
      BY <1>1, <2>5, <3>2 DEF SavedHeader
    <3>4. setup.copy.present BY <1>1, <2>5 DEF HeaderOpens
    <3> QED BY <2>1, <3>2, <3>3, <3>4 DEF HeaderType, Headers, HeaderLength
  <2> QED BY <2>4, <2>5
<1>a. /\ AreaLength' = AreaLength /\ (Encrypting' <=> Encrypting) /\ (Settled' <=> Settled)
  BY <1>1 DEF AreaLength, Encrypting, Settled
<1>3. /\ setup'.pc = pc /\ setup'.offset = setup.offset /\ setup'.size = setup.size
      /\ setup'.todo = setup.todo /\ setup'.buffer = setup.buffer
      /\ setup'.wiping = setup.wiping /\ setup'.required = FALSE /\ setup'.written = 0
      /\ setup'.copy = NoHeader /\ setup'.final = setup.final /\ SetupType'
  BY <1>1, <1>2, <1>p, <1>n, <1>z DEF Types, SetupType, SetupPcs
<1>4. Types'
  BY <1>1, <1>2, <1>3, <1>f, <1>h DEF Types, DiskType, HeaderType, DriveType, ControlType,
    RootType, SysEncType, ClientType, MachineType, LostType, Contents, Others
<1>5. ThreadInv' BY <1>1, <1>3, <1>p DEF IInv, ThreadInv, Ended
<1>6. ClientInv' /\ MachineInv' BY <1>1, RestKept DEF Others, Ended
<1>7. AreaInv'
  BY <1>1, <1>2, <1>3, <1>p, <1>f, <1>s, <1>h, <1>a, <1>z, Ranges DEF IInv, AreaInv, Ended,
    Encrypting, AtOffset, AtBlock, Contents
<1>8. DiskMatchesArea' /\ BlockInv'
  BY <1>1, <1>3, <1>p DEF IInv, DiskMatchesArea, BlockInv, InArea
<1>9. SavedInv'
  BY <1>1, <1>2, <1>3, <1>p, <1>f, <1>s, <1>h, <1>a, <1>z, Ranges DEF IInv, SavedInv, Ended,
    Encrypting
<1>10. WrittenInv'
  BY <1>1, <1>2, <1>3, <1>p, <1>f, <1>s, <1>h, <1>a, <1>z, Ranges, Bounds DEF IInv, WrittenInv,
    Ended, Encrypting, Runs
<1> QED BY <1>4, <1>5, <1>6, <1>7, <1>8, <1>9, <1>10 DEF IInv

\* What is at stake grows, and with it the bound.
LEMMA SaveFailsStep ==
  ASSUME IInv, SaveFails
  PROVE  IInv'
<1> DEFINE pc == IF setup.final THEN "saved" ELSE "loop"
<1>1. /\ setup.pc \in {"readHeader", "writeHeader"}
      /\ setup' = [setup EXCEPT !.pc = pc, !.copy = NoHeader]
      /\ lost' = SaveFailed \/ lost' = [SaveFailed EXCEPT !.failures = @ + 1]
      /\ UNCHANGED <<Contents, Others, root, control>>
  BY DEF SaveFails, Contents, Others
<1>2. Types BY DEF IInv
<1>p. /\ pc \in {"saved", "loop"} /\ (pc = "saved" <=> setup.final)
  OBVIOUS
<1> HIDE DEF pc
<1>f. /\ LostType' /\ lost'.save = (lost.save \/ setup.final)
      /\ lost'.failedSaves \in Nat
      /\ Bound(lost'.failedSaves) = Bound(1 + lost.failedSaves) \/ Far(1 + lost.failedSaves)
      /\ Far(1 + lost.failedSaves) => lost'.failedSaves = lost.failedSaves
  <2> DEFINE n == IF Far(1 + lost.failedSaves) THEN lost.failedSaves ELSE lost.failedSaves + 1
             save == lost.save \/ setup.final
  <2>1. n \in Nat /\ save \in BOOLEAN BY <1>2, Ranges DEF Types, LostType, SetupType
  <2>2. SaveFailed = [lost EXCEPT !.save = save, !.failedSaves = n]
    <3>1. Threshold + BlockSize * (1 + lost.failedSaves) <= Length <=> ~Far(1 + lost.failedSaves)
      <4>1. 1 + lost.failedSaves \in Nat BY <1>2, Ranges
      <4>2. Bound(1 + lost.failedSaves) = Threshold + BlockSize * (1 + lost.failedSaves)
        BY DEF Bound
      <4> QED BY <1>2, <4>1, <4>2, Ranges, BoundGrows
    <3> QED BY <1>2, <3>1 DEF SaveFailed, Types, LostType
  <2>3. Bound(n) = Bound(1 + lost.failedSaves) \/ Far(1 + lost.failedSaves)
    BY <1>2, Ranges, BoundGrows
  <2>4. Far(1 + lost.failedSaves) => n = lost.failedSaves OBVIOUS
  <2> HIDE DEF n, save
  <2>5. LostType' /\ lost'.save = save /\ lost'.failedSaves = n
    <3>2. \E f \in Nat : lost' = [save |-> save, failures |-> f, failedSaves |-> n]
      <4>1. lost.failures \in Nat /\ lost.failures + 1 \in Nat BY <1>2 DEF Types, LostType
      <4>2. SaveFailed = [save |-> save, failures |-> lost.failures, failedSaves |-> n]
        BY <1>2, <2>2 DEF Types, LostType
      <4>3. CASE lost' = SaveFailed BY <4>1, <4>2, <4>3
      <4>4. CASE lost' = [SaveFailed EXCEPT !.failures = @ + 1]
        <5>1. lost' = [save |-> save, failures |-> lost.failures + 1, failedSaves |-> n]
          BY <4>2, <4>4
        <5> QED BY <4>1, <5>1
      <4> QED BY <1>1, <4>3, <4>4
    <3> QED BY <2>1, <3>2 DEF LostType
  <2> QED BY <2>1, <2>3, <2>4, <2>5 DEF save
<1>n. NoHeader \in Headers
  BY SizesAssumption, OptionsAssumption DEF NoHeader, Headers
<1>s. setup.required /\ (setup.final => Settled) /\ (~setup.final => AtOffset /\ setup.size >= 1)
  BY <1>1 DEF IInv, AreaInv
<1>3. /\ setup'.pc = pc /\ setup'.offset = setup.offset /\ setup'.size = setup.size
      /\ setup'.todo = setup.todo /\ setup'.buffer = setup.buffer
      /\ setup'.wiping = setup.wiping /\ setup'.required = setup.required
      /\ setup'.written = setup.written /\ setup'.copy = NoHeader /\ setup'.final = setup.final
      /\ SetupType'
  BY <1>1, <1>2, <1>p, <1>n, SizesAssumption DEF Types, SetupType, SetupPcs
<1>4. Types'
  BY <1>1, <1>2, <1>3, <1>f DEF Types, DiskType, HeaderType, DriveType, ControlType, RootType,
    SysEncType, ClientType, MachineType, LostType, Contents, Others
<1>5. ThreadInv' BY <1>1, <1>3, <1>p DEF IInv, ThreadInv, Ended
<1>6. ClientInv' /\ MachineInv' BY <1>1, RestKept DEF Others, Ended
<1>7. AreaInv'
  BY <1>1, <1>2, <1>3, <1>p, <1>f, <1>s, SameArea, Ranges DEF IInv, AreaInv, Ended, Encrypting,
    AtOffset, AtBlock, Contents
<1>8. DiskMatchesArea' /\ BlockInv'
  BY <1>1, <1>2, <1>3, <1>p, <1>f, <1>s, SameArea, Ranges, <1>p DEF IInv, DiskMatchesArea,
    BlockInv, Contents
<1>9. SavedInv'
  BY <1>1, <1>2, <1>3, <1>p, <1>f, <1>s, SameArea, Ranges DEF IInv, SavedInv, Ended, Encrypting
<1>10. WrittenInv'
  BY <1>1, <1>2, <1>3, <1>p, <1>f, <1>s, SameArea, Ranges, Bounds DEF IInv, WrittenInv, Ended,
    Encrypting, Runs
<1> QED BY <1>4, <1>5, <1>6, <1>7, <1>8, <1>9, <1>10 DEF IInv

LEMMA DriveFields ==
  ASSUME Types
  PROVE  /\ drive.mounted \in BOOLEAN /\ drive.configured \in BOOLEAN
         /\ drive.keys \in {NoKeys} \cup 0 .. MaxChanges
         /\ drive = [mounted |-> drive.mounted, configured |-> drive.configured,
                    keys |-> drive.keys, start |-> drive.start, end |-> drive.end]
BY DEF Types, DriveType

\* The thread goes on where the area ends.
LEMMA SetupHoldFirstStep ==
  ASSUME IInv, SetupHoldFirst
  PROVE  IInv'
<1> DEFINE begins == Encrypting /\ (drive.start = -1 \/ drive.end = -1)
           offset == IF begins THEN 1 ELSE drive.end + 1
           pc == IF begins THEN "loop"
                 ELSE IF Encrypting THEN IF drive.end = Length THEN "end" ELSE "loop"
                 ELSE IF drive.start = -1 \/ drive.end = -1 THEN "end" ELSE "loop"
<1>1. /\ setup.pc = "holdFirst"
      /\ drive' = IF begins THEN [drive EXCEPT !.start = 1, !.end = -1] ELSE drive
      /\ setup' = [setup EXCEPT !.pc = pc, !.offset = offset]
      /\ UNCHANGED <<disk, header, Others, root, control, lost>>
  BY DEF SetupHoldFirst, Others, Encrypting
<1>2. Types BY DEF IInv
<1>o. /\ offset \in 0 .. Length + 1 /\ pc \in {"loop", "end"}
  BY <1>2, Ranges
<1>d. /\ drive'.start = (IF begins THEN 1 ELSE drive.start)
      /\ drive'.end = (IF begins THEN -1 ELSE drive.end)
      /\ DriveType'
  <2>0. -1 \in -1 .. Length BY SizesAssumption
  <2>1. CASE begins BY <1>1, <1>2, <2>0, <2>1 DEF Types, DriveType
  <2>2. CASE ~begins BY <1>1, <1>2, <2>2 DEF Types, DriveType
  <2> HIDE DEF begins
  <2> QED BY <2>1, <2>2
<1>a. /\ AreaLength' = AreaLength /\ HeaderLength' = HeaderLength /\ (Encrypting' <=> Encrypting)
      /\ \A s : InArea(s)' <=> InArea(s)
  BY <1>1, <1>2, <1>d, Ranges DEF AreaLength, HeaderLength, Encrypting, InArea
<1>s. /\ Settled /\ setup.size >= 1 /\ ~setup.required BY <1>1 DEF IInv, AreaInv, SavedInv
<1>3. /\ setup'.pc = pc /\ setup'.offset = offset /\ setup'.size = setup.size
      /\ setup'.todo = setup.todo /\ setup'.buffer = setup.buffer
      /\ setup'.wiping = setup.wiping /\ setup'.required = setup.required
      /\ setup'.written = setup.written /\ setup'.copy = setup.copy
      /\ setup'.final = setup.final /\ SetupType'
  BY <1>1, <1>2, <1>o DEF Types, SetupType, SetupPcs
<1>n. /\ pc = "loop" => AtOffset'
      /\ pc = "end" => Settled'
  BY <1>1, <1>2, <1>3, <1>s, <1>d, <1>a, <1>o, Ranges
  DEF AtOffset, Settled, Encrypting, AreaLength
<1> HIDE DEF begins, offset, pc
<1>4. Types'
  BY <1>1, <1>2, <1>3, <1>d DEF Types, DiskType, HeaderType, DriveType, ControlType, RootType,
    SysEncType, ClientType, MachineType, LostType, Contents, Others
<1>5. ThreadInv' BY <1>1, <1>3, <1>o DEF IInv, ThreadInv, Ended
<1>6. ClientInv' /\ MachineInv' BY <1>1, RestKept DEF Others, Ended
<1>7. AreaInv'
  BY <1>1, <1>2, <1>3, <1>o, <1>d, <1>s, <1>n, <1>a, Ranges DEF IInv, AreaInv, Ended, Encrypting,
    AtOffset, AtBlock, Contents
<1>8. DiskMatchesArea' /\ BlockInv'
  BY <1>1, <1>3, <1>o, <1>a DEF IInv, DiskMatchesArea, BlockInv, Layer
<1>9. SavedInv'
  BY <1>1, <1>2, <1>3, <1>o, <1>d, <1>s, <1>n, <1>a, Ranges DEF IInv, SavedInv, Ended, Encrypting
<1>10. WrittenInv'
  BY <1>1, <1>2, <1>3, <1>o, <1>d, <1>s, <1>n, <1>a, Ranges, Bounds DEF IInv, WrittenInv, Ended,
    Encrypting, Runs
<1> QED BY <1>4, <1>5, <1>6, <1>7, <1>8, <1>9, <1>10 DEF IInv

\* An encryption that has not got anywhere leaves no area; a decryption that is done, an empty one.
LEMMA SetupEndStep ==
  ASSUME IInv, SetupEnd
  PROVE  IInv'
<1> DEFINE start == IF drive.end = -1 THEN -1 ELSE drive.start
           pc == IF control.mode = "decrypt" /\ (drive.end = -1 \/ drive.start > drive.end)
                 THEN "holdLast" ELSE IF setup.required THEN "readHeader" ELSE "saved"
<1>1. /\ setup.pc = "end"
      /\ drive' = [drive EXCEPT !.start = start]
      /\ setup' = [setup EXCEPT !.final = TRUE, !.offset = 0, !.size = BlockSize, !.written = 0,
                              !.pc = pc]
      /\ UNCHANGED <<disk, header, Others, root, control, lost>>
  BY DEF SetupEnd, Others, Encrypting
<1>2. Types BY DEF IInv
<1>o. /\ start \in {-1, 1} /\ pc \in {"holdLast", "readHeader", "saved"}
      /\ 0 \in 0 .. Length /\ 0 \in 0 .. Length + 1 /\ BlockSize \in 0 .. BlockSize
  BY <1>2, Ranges
<1>d. /\ drive'.start = start /\ drive'.end = drive.end /\ DriveType'
  <2> HIDE DEF start
  <2> QED BY <1>1, <1>2, <1>o DEF Types, DriveType
<1>a. /\ AreaLength' = AreaLength /\ HeaderLength' = HeaderLength /\ (Encrypting' <=> Encrypting)
      /\ \A s : InArea(s)' <=> InArea(s)
  BY <1>1, <1>2, <1>d, <1>o, Ranges DEF AreaLength, HeaderLength, Encrypting, InArea
<1>s. /\ Settled \/ (drive.start = 1 /\ drive.end = IF Encrypting THEN -1 ELSE 0)
      /\ Encrypting /\ setup.required => AreaLength >= 1
      /\ ~setup.final
  BY <1>1 DEF IInv, AreaInv, Ended, ThreadInv
<1>n. /\ pc = "holdLast" => ~Encrypting /\ AreaLength = 0
      /\ pc = "readHeader" => setup.required
      /\ pc = "saved" => ~setup.required
      /\ pc # "holdLast" => Settled'
  BY <1>1, <1>2, <1>s, <1>d, Ranges DEF Settled, Encrypting, AreaLength
<1>w. /\ ~lost.save => /\ AreaLength - HeaderLength < Bound(1 + lost.failedSaves)
                      /\ HeaderLength - AreaLength < Bound(1 + lost.failedSaves)
  BY <1>1, <1>2, <1>s, Ranges, Bounds DEF IInv, WrittenInv, Ended
<1> HIDE DEF start, pc
<1>3. /\ setup'.pc = pc /\ setup'.offset = 0 /\ setup'.size = BlockSize
      /\ setup'.todo = setup.todo /\ setup'.buffer = setup.buffer
      /\ setup'.wiping = setup.wiping /\ setup'.required = setup.required /\ setup'.written = 0
      /\ setup'.copy = setup.copy /\ setup'.final = TRUE /\ SetupType'
  BY <1>1, <1>2, <1>o DEF Types, SetupType, SetupPcs
<1>4. Types'
  BY <1>1, <1>2, <1>3, <1>d DEF Types, DiskType, HeaderType, DriveType, ControlType, RootType,
    SysEncType, ClientType, MachineType, LostType, Contents, Others
<1>5. ThreadInv' BY <1>1, <1>3, <1>o DEF IInv, ThreadInv, Ended
<1>6. ClientInv' /\ MachineInv' BY <1>1, RestKept DEF Others, Ended
<1>7. AreaInv'
  BY <1>1, <1>2, <1>3, <1>o, <1>d, <1>s, <1>n, <1>a, <1>w, Ranges DEF IInv, AreaInv, Ended,
    Encrypting, AtOffset, AtBlock, Contents
<1>8. DiskMatchesArea' /\ BlockInv'
  BY <1>1, <1>3, <1>o, <1>a DEF IInv, DiskMatchesArea, BlockInv, Layer
<1>9. SavedInv'
  BY <1>1, <1>2, <1>3, <1>o, <1>d, <1>s, <1>n, <1>a, <1>w, Ranges DEF IInv, SavedInv, Ended,
    Encrypting
<1>10. WrittenInv'
  BY <1>1, <1>2, <1>3, <1>o, <1>d, <1>s, <1>n, <1>a, <1>w, Ranges, Bounds DEF IInv, WrittenInv,
    Ended, Encrypting, Runs
<1> QED BY <1>4, <1>5, <1>6, <1>7, <1>8, <1>9, <1>10 DEF IInv

\* The empty area is taken away.
LEMMA SetupHoldLastStep ==
  ASSUME IInv, SetupHoldLast
  PROVE  IInv'
<1>1. /\ setup.pc = "holdLast"
      /\ drive' = [drive EXCEPT !.configured = FALSE, !.start = -1, !.end = -1]
      /\ setup' = [setup EXCEPT !.required = TRUE, !.pc = "readHeader"]
      /\ UNCHANGED <<disk, header, Others, root, control, lost>>
  BY DEF SetupHoldLast, Others
<1>2. Types BY DEF IInv
<1>d. /\ drive'.start = -1 /\ drive'.end = -1 /\ DriveType'
  <2>1. -1 \in -1 .. Length BY SizesAssumption
  <2> QED BY <1>1, <1>2, <2>1 DEF Types, DriveType
<1>s. ~Encrypting /\ AreaLength = 0 /\ setup.final BY <1>1 DEF IInv, AreaInv, ThreadInv
<1>a. /\ AreaLength' = AreaLength /\ HeaderLength' = HeaderLength /\ (Encrypting' <=> Encrypting)
      /\ \A s \in Sectors : InArea(s)' <=> InArea(s)
  <2>1. AreaLength' = 0 BY <1>d DEF AreaLength
  <2>2. \A s \in Sectors : ~InArea(s)
    BY <1>2, <1>s, AreaLengthIs DEF Sectors
  <2> QED BY <1>1, <1>d, <1>s, <2>1, <2>2 DEF HeaderLength, Encrypting, InArea
<1>n. Settled' BY <1>d DEF Settled
<1>3. /\ setup'.pc = "readHeader" /\ setup'.offset = setup.offset /\ setup'.size = setup.size
      /\ setup'.todo = setup.todo /\ setup'.buffer = setup.buffer
      /\ setup'.wiping = setup.wiping /\ setup'.required = TRUE
      /\ setup'.written = setup.written /\ setup'.copy = setup.copy
      /\ setup'.final = setup.final /\ SetupType'
  BY <1>1, <1>2 DEF Types, SetupType, SetupPcs
<1>4. Types'
  BY <1>1, <1>2, <1>3, <1>d DEF Types, DiskType, HeaderType, DriveType, ControlType, RootType,
    SysEncType, ClientType, MachineType, LostType, Contents, Others
<1>5. ThreadInv' BY <1>1, <1>3 DEF IInv, ThreadInv, Ended
<1>6. ClientInv' /\ MachineInv' BY <1>1, RestKept DEF Others, Ended
<1>7. AreaInv'
  BY <1>1, <1>2, <1>3, <1>d, <1>s, <1>n, <1>a, Ranges DEF IInv, AreaInv, Ended, Encrypting,
    AtOffset, AtBlock, Contents
<1>8. DiskMatchesArea' /\ BlockInv'
  BY <1>1, <1>3, <1>a DEF IInv, DiskMatchesArea, BlockInv, Layer
<1>9. SavedInv'
  BY <1>1, <1>2, <1>3, <1>d, <1>s, <1>n, <1>a, Ranges DEF IInv, SavedInv, Ended, Encrypting
<1>10. WrittenInv'
  BY <1>1, <1>2, <1>3, <1>d, <1>s, <1>n, <1>a, Ranges, Bounds DEF IInv, WrittenInv, Ended,
    Encrypting, Runs
<1> QED BY <1>4, <1>5, <1>6, <1>7, <1>8, <1>9, <1>10 DEF IInv

LEMMA SetupAcquireStep ==
  ASSUME IInv, SetupAcquire
  PROVE  IInv'
<1>1. /\ setup.pc = "acquire"
      /\ setup' = [setup EXCEPT !.pc = "dismount"]
      /\ root' \in {root, Setup}
      /\ UNCHANGED <<Contents, Others, control, lost>>
  BY DEF SetupAcquire, ToPc, Contents, Others
<1>2. Types BY DEF IInv
<1>3. /\ setup'.pc = "dismount" /\ setup'.offset = setup.offset /\ setup'.size = setup.size
      /\ setup'.todo = setup.todo /\ setup'.buffer = setup.buffer
      /\ setup'.wiping = setup.wiping /\ setup'.required = setup.required
      /\ setup'.written = setup.written /\ setup'.copy = setup.copy
      /\ setup'.final = setup.final /\ SetupType'
  BY <1>1, <1>2 DEF Types, SetupType, SetupPcs
<1>4. Types'
  BY <1>1, <1>2, <1>3 DEF Types, DiskType, HeaderType, DriveType, ControlType, RootType,
    SysEncType, ClientType, MachineType, LostType, Contents, Others
<1>5. ThreadInv' BY <1>1, <1>3 DEF IInv, ThreadInv, Ended
<1>6. ClientInv' /\ MachineInv' BY <1>1, RestKept DEF Others, Ended
<1>7. AreaInv'
  BY <1>1, <1>2, <1>3, SameArea, Ranges DEF IInv, AreaInv, Ended, Encrypting, AtOffset, AtBlock,
    Contents
<1>8. DiskMatchesArea' /\ BlockInv'
  BY <1>1, <1>2, <1>3, SameArea, Ranges DEF IInv, DiskMatchesArea, BlockInv, Contents
<1>9. SavedInv' BY <1>1, <1>2, <1>3, SameArea, Ranges DEF IInv, SavedInv, Ended, Encrypting
<1>10. WrittenInv'
  BY <1>1, <1>2, <1>3, SameArea, Ranges, Bounds DEF IInv, WrittenInv, Ended, Encrypting, Runs
<1> QED BY <1>4, <1>5, <1>6, <1>7, <1>8, <1>9, <1>10 DEF IInv

LEMMA SetupReleaseStep ==
  ASSUME IInv, SetupRelease
  PROVE  IInv'
<1>1. /\ setup.pc = "release"
      /\ setup' = [setup EXCEPT !.pc = "ret"]
      /\ root' \in {root, Nobody}
      /\ UNCHANGED <<Contents, Others, control, lost>>
  BY DEF SetupRelease, ToPc, Contents, Others
<1>2. Types BY DEF IInv
<1>3. /\ setup'.pc = "ret" /\ setup'.offset = setup.offset /\ setup'.size = setup.size
      /\ setup'.todo = setup.todo /\ setup'.buffer = setup.buffer
      /\ setup'.wiping = setup.wiping /\ setup'.required = setup.required
      /\ setup'.written = setup.written /\ setup'.copy = setup.copy
      /\ setup'.final = setup.final /\ SetupType'
  BY <1>1, <1>2 DEF Types, SetupType, SetupPcs
<1>4. Types'
  BY <1>1, <1>2, <1>3 DEF Types, DiskType, HeaderType, DriveType, ControlType, RootType,
    SysEncType, ClientType, MachineType, LostType, Contents, Others
<1>5. ThreadInv' BY <1>1, <1>3 DEF IInv, ThreadInv, Ended
<1>6. ClientInv' /\ MachineInv' BY <1>1, RestKept DEF Others, Ended
<1>7. AreaInv'
  BY <1>1, <1>2, <1>3, SameArea, Ranges DEF IInv, AreaInv, Ended, Encrypting, AtOffset, AtBlock,
    Contents
<1>8. DiskMatchesArea' /\ BlockInv'
  BY <1>1, <1>2, <1>3, SameArea, Ranges DEF IInv, DiskMatchesArea, BlockInv, Contents
<1>9. SavedInv' BY <1>1, <1>2, <1>3, SameArea, Ranges DEF IInv, SavedInv, Ended, Encrypting
<1>10. WrittenInv'
  BY <1>1, <1>2, <1>3, SameArea, Ranges, Bounds DEF IInv, WrittenInv, Ended, Encrypting, Runs
<1> QED BY <1>4, <1>5, <1>6, <1>7, <1>8, <1>9, <1>10 DEF IInv

LEMMA SetupRetStep ==
  ASSUME IInv, SetupRet
  PROVE  IInv'
<1>1. /\ setup.pc = "ret"
      /\ setup' = [setup EXCEPT !.pc = "exit"]
      /\ control' = [control EXCEPT !.inProgress = FALSE]
      /\ UNCHANGED <<Contents, Others, root, lost>>
  BY DEF SetupRet, ToPc, Contents, Others
<1>2. Types BY DEF IInv
<1>c. /\ control'.inProgress = FALSE /\ control'.thread = control.thread
      /\ control'.mode = control.mode /\ ControlType'
  BY <1>1, <1>2 DEF Types, ControlType
<1>3. /\ setup'.pc = "exit" /\ setup'.offset = setup.offset /\ setup'.size = setup.size
      /\ setup'.todo = setup.todo /\ setup'.buffer = setup.buffer
      /\ setup'.wiping = setup.wiping /\ setup'.required = setup.required
      /\ setup'.written = setup.written /\ setup'.copy = setup.copy
      /\ setup'.final = setup.final /\ SetupType'
  BY <1>1, <1>2 DEF Types, SetupType, SetupPcs
<1>4. Types'
  BY <1>1, <1>2, <1>3, <1>c DEF Types, DiskType, HeaderType, DriveType, ControlType, RootType,
    SysEncType, ClientType, MachineType, LostType, Contents, Others
<1>5. ThreadInv' BY <1>1, <1>3, <1>c DEF IInv, ThreadInv, Ended
<1>6. ClientInv' /\ MachineInv' BY <1>1, RestKept DEF Others, Ended
<1>7. AreaInv'
  BY <1>1, <1>2, <1>3, SameArea, Ranges, <1>c DEF IInv, AreaInv, Ended, Encrypting, AtOffset,
    AtBlock, Contents
<1>8. DiskMatchesArea' /\ BlockInv'
  BY <1>1, <1>2, <1>3, SameArea, Ranges, <1>c DEF IInv, DiskMatchesArea, BlockInv, Contents
<1>9. SavedInv' BY <1>1, <1>2, <1>3, SameArea, Ranges, <1>c DEF IInv, SavedInv, Ended, Encrypting
<1>10. WrittenInv'
  BY <1>1, <1>2, <1>3, SameArea, Ranges, Bounds, <1>c DEF IInv, WrittenInv, Ended, Encrypting,
    Runs
<1> QED BY <1>4, <1>5, <1>6, <1>7, <1>8, <1>9, <1>10 DEF IInv

LEMMA SetupDismountStep ==
  ASSUME IInv, SetupDismount
  PROVE  IInv'
<1>1. /\ setup.pc = "dismount"
      /\ setup' = [setup EXCEPT !.pc = "release"]
      /\ drive' = [drive EXCEPT !.keys = NoKeys, !.mounted = FALSE]
      /\ UNCHANGED <<disk, header, Others, root, control, lost>>
  BY DEF SetupDismount, ToPc, Others
<1>2. Types BY DEF IInv
<1>d. /\ drive'.start = drive.start /\ drive'.end = drive.end /\ DriveType'
  BY <1>1, <1>2 DEF Types, DriveType
<1>a. /\ AreaLength' = AreaLength /\ HeaderLength' = HeaderLength /\ (Encrypting' <=> Encrypting)
      /\ \A s : InArea(s)' <=> InArea(s)
  BY <1>1, <1>2, <1>d, Ranges DEF AreaLength, HeaderLength, Encrypting, InArea
<1>n. Settled' <=> Settled BY <1>d DEF Settled
<1>3. /\ setup'.pc = "release" /\ setup'.offset = setup.offset /\ setup'.size = setup.size
      /\ setup'.todo = setup.todo /\ setup'.buffer = setup.buffer
      /\ setup'.wiping = setup.wiping /\ setup'.required = setup.required
      /\ setup'.written = setup.written /\ setup'.copy = setup.copy
      /\ setup'.final = setup.final /\ SetupType'
  BY <1>1, <1>2 DEF Types, SetupType, SetupPcs
<1>4. Types'
  BY <1>1, <1>2, <1>3, <1>d DEF Types, DiskType, HeaderType, DriveType, ControlType, RootType,
    SysEncType, ClientType, MachineType, LostType, Contents, Others
<1>5. ThreadInv' BY <1>1, <1>3 DEF IInv, ThreadInv, Ended
<1>6. ClientInv' /\ MachineInv' BY <1>1, RestKept DEF Others, Ended
<1>7. AreaInv'
  BY <1>1, <1>2, <1>3, <1>d, <1>n, <1>a, Ranges DEF IInv, AreaInv, Ended, Encrypting, AtOffset,
    AtBlock, Contents
<1>8. DiskMatchesArea' /\ BlockInv'
  BY <1>1, <1>3, <1>a DEF IInv, DiskMatchesArea, BlockInv, Layer
<1>9. SavedInv'
  BY <1>1, <1>2, <1>3, <1>d, <1>n, <1>a, Ranges DEF IInv, SavedInv, Ended, Encrypting
<1>10. WrittenInv'
  BY <1>1, <1>2, <1>3, <1>d, <1>n, <1>a, Ranges, Bounds DEF IInv, WrittenInv, Ended, Encrypting,
    Runs
<1> QED BY <1>4, <1>5, <1>6, <1>7, <1>8, <1>9, <1>10 DEF IInv

LEMMA SetupExitStep ==
  ASSUME IInv, SetupExit
  PROVE  IInv'
<1>1. /\ setup.pc = "exit"
      /\ setup' = DeadThread
      /\ UNCHANGED <<Contents, Others, root, control, lost>>
  BY DEF SetupExit, Contents, Others
<1>2. Types BY DEF IInv
<1>3. /\ setup'.pc = "dead" /\ setup'.offset = 0 /\ setup'.size = BlockSize /\ setup'.todo = {}
      /\ setup'.buffer = NoBuffer /\ setup'.wiping = FALSE /\ setup'.required = FALSE
      /\ setup'.written = 0 /\ setup'.copy = NoHeader /\ setup'.final = FALSE /\ SetupType'
  BY <1>1, DeadThreadIs DEF SetupType
<1>4. Types' BY <1>1, <1>2, <1>3, NextTypes DEF Types, ControlType, LostType
<1>5. ThreadInv' BY <1>1, <1>3 DEF IInv, ThreadInv, Ended
<1>6. ClientInv' /\ MachineInv'
  BY <1>1, <1>3, IdleKept DEF Contents, Others, Ended
<1>7. AreaInv'
  BY <1>1, <1>2, <1>3, SameArea, Ranges DEF IInv, AreaInv, Ended, Encrypting, AtOffset, AtBlock,
    Contents
<1>8. DiskMatchesArea' /\ BlockInv'
  BY <1>1, <1>2, <1>3, SameArea, Ranges DEF IInv, DiskMatchesArea, BlockInv, Contents
<1>9. SavedInv' BY <1>1, <1>2, <1>3, SameArea, Ranges DEF IInv, SavedInv, Ended, Encrypting
<1>10. WrittenInv'
  BY <1>1, <1>2, <1>3, SameArea, Ranges, Bounds DEF IInv, WrittenInv, Ended, Encrypting, Runs
<1> QED BY <1>4, <1>5, <1>6, <1>7, <1>8, <1>9, <1>10 DEF IInv

-----------------------------------------------------------------------------
(* The device controls and the programs.                                   *)

\* The area, the drive and the header as long as no setup moves.
ConvertInv == AreaInv /\ DiskMatchesArea /\ BlockInv /\ SavedInv /\ WrittenInv

LEMMA ConvertKept ==
  ASSUME IInv, UNCHANGED <<disk, header, setup>>,
         drive'.start = drive.start, drive'.end = drive.end,
         control'.mode = control.mode,
         lost'.save = lost.save, lost'.failedSaves = lost.failedSaves
  PROVE  ConvertInv'
<1>1. /\ AreaLength' = AreaLength /\ HeaderLength' = HeaderLength
      /\ (Settled' <=> Settled) /\ (Encrypting' <=> Encrypting)
      /\ \A s : Layer(s)' = Layer(s) /\ (InArea(s)' <=> InArea(s))
  BY DEF AreaLength, HeaderLength, Settled, Encrypting, Layer, InArea
<1>2. AreaInv' BY <1>1 DEF IInv, AreaInv, Ended, AtOffset, AtBlock
<1>3. DiskMatchesArea' BY <1>1 DEF IInv, DiskMatchesArea
<1>4. BlockInv' BY <1>1 DEF IInv, BlockInv, Block, Converted
<1>5. SavedInv' BY <1>1 DEF IInv, SavedInv, Ended
<1>6. WrittenInv' BY <1>1 DEF IInv, WrittenInv, Ended, Runs
<1> QED BY <1>2, <1>3, <1>4, <1>5, <1>6 DEF ConvertInv

\* A new setup finds the header of the area, unless the result of the last one was an error.
LEMMA NewThread ==
  ASSUME IInv, Ended, UNCHANGED <<disk, header, drive, lost>>,
         setup' = [DeadThread EXCEPT !.pc = "begin"]
  PROVE  /\ setup'.pc = "begin" /\ setup'.final = FALSE /\ SetupType'
         /\ ConvertInv'
<1>1. Types BY DEF IInv
<1>2. /\ setup'.pc = "begin" /\ setup'.size = BlockSize /\ setup'.required = FALSE
      /\ setup'.written = 0 /\ setup'.final = FALSE /\ SetupType'
  BY DeadThreadIs DEF SetupType, SetupPcs
<1>3. /\ AreaLength' = AreaLength /\ HeaderLength' = HeaderLength /\ (Settled' <=> Settled)
      /\ \A s : Layer(s)' = Layer(s) /\ (InArea(s)' <=> InArea(s))
  BY DEF AreaLength, HeaderLength, Settled, Layer, InArea
<1>4. AreaInv' BY <1>1, <1>2, <1>3, Ranges DEF IInv, AreaInv, Ended
<1>5. DiskMatchesArea' BY <1>2, <1>3 DEF IInv, DiskMatchesArea, Ended
<1>6. BlockInv' BY <1>2 DEF BlockInv
<1>7. SavedInv' BY <1>2, <1>3 DEF IInv, SavedInv, Ended
<1>8. ~lost.save => AreaLength = HeaderLength BY DEF IInv, SavedInv, Ended
<1>9. WrittenInv' BY <1>1, <1>2, <1>3, <1>8, Ranges, Bounds DEF WrittenInv, Ended, Runs
<1> QED BY <1>2, <1>4, <1>5, <1>6, <1>7, <1>9 DEF ConvertInv

\* One client moves.
LEMMA ClientMoves ==
  ASSUME Types, NEW c \in Clients, NEW pc \in ClientPcs, NEW op \in ClientOps, NEW copy \in Headers,
         client' = [client EXCEPT ![c] = [pc |-> pc, op |-> op, copy |-> copy]]
  PROVE  /\ ClientType'
         /\ client'[c].pc = pc /\ client'[c].op = op /\ client'[c].copy = copy
         /\ \A d \in Clients : d # c => client'[d] = client[d]
BY DEF Types, ClientType

\* The same when not all of what it knows changes.
LEMMA ClientPcMoves ==
  ASSUME Types, NEW c \in Clients, NEW pc \in ClientPcs, client' = [client EXCEPT ![c].pc = pc]
  PROVE  /\ ClientType'
         /\ client'[c].pc = pc /\ client'[c].op = client[c].op
         /\ client'[c].copy = client[c].copy
         /\ \A d \in Clients : d # c => client'[d] = client[d]
BY DEF Types, ClientType

LEMMA ClientAnswered ==
  ASSUME Types, NEW c \in Clients, Answer(c)
  PROVE  /\ ClientType' /\ RootType'
         /\ client'[c].pc = (IF c = System THEN "done" ELSE "locked")
         /\ client'[c].op = "none" /\ client'[c].copy = NoHeader
         /\ \A d \in Clients : d # c => client'[d] = client[d]
<1> DEFINE pc == IF c = System THEN "done" ELSE "locked"
<1>1. NoHeader \in Headers BY SizesAssumption, OptionsAssumption DEF NoHeader, Headers
<1>2. pc \in ClientPcs BY DEF ClientPcs
<1>3. client' = [client EXCEPT ![c].pc = pc, ![c].op = "none", ![c].copy = NoHeader]
  BY DEF Answer
<1>4. RootType' BY DEF Answer, RootType
<1> HIDE DEF pc
<1>5. /\ ClientType'
      /\ client'[c].pc = pc /\ client'[c].op = "none" /\ client'[c].copy = NoHeader
      /\ \A d \in Clients : d # c => client'[d] = client[d]
  BY <1>1, <1>2, <1>3 DEF Types, ClientType, ClientOps
<1> QED BY <1>4, <1>5 DEF pc

\* A client that is served finds the machine on, or is the system that aborts the setup.
LEMMA ServedClient ==
  ASSUME IInv, NEW c \in Clients, client[c].pc \in {"wait", "handle", "join"}
  PROVE  /\ c # System => c \in Apps /\ machine = "on" /\ sysEnc = c
         /\ c = System => client[c].op = "abort"
         /\ System \notin Apps
BY ActorsAssumption DEF IInv, ClientInv, MachineInv, Quiet, Clients

\* What the programs and the system may rely on survives the step of one of them that
\* is served, while the header stays as it is.
LEMMA ServedKept ==
  ASSUME IInv, NEW c \in Clients, client[c].pc \in {"wait", "handle", "join"},
         \A d \in Clients : d # c => client'[d] = client[d],
         UNCHANGED <<header, machine, sysEnc>>,
         client'[c].pc \in {"handle", "join", IF c = System THEN "done" ELSE "locked"},
         client'[c].pc \in {"handle", "join"} => client'[c].op = client[c].op,
         client'[c].pc = "join" => client[c].op \in {"encrypt", "decrypt", "abort"},
         c = System => (Ended => Ended'),
         c = System /\ client'[c].pc = "done" => Ended'
  PROVE  ClientInv' /\ MachineInv'
<1>1. CASE c = System
  <2>1. MachineInv' BY <1>1, ServedClient DEF IInv, MachineInv, Quiet, Clients
  <2>2. ClientInv'
    BY <1>1, ServedClient DEF IInv, ClientInv, InPasswordChange, Clients
  <2> QED BY <2>1, <2>2
<1>2. CASE c # System
  <2>1. MachineInv' BY <1>2, ServedClient DEF MachineInv
  <2>2. \A a \in Apps : a # c => client[a].pc = "idle"
    BY <1>2, ServedClient DEF IInv, ClientInv
  <2>3. ClientInv'
    BY <1>2, <2>2, ServedClient DEF IInv, ClientInv, InPasswordChange, Clients
  <2> QED BY <2>1, <2>3
<1> QED BY <1>1, <1>2

LEMMA EnterStep ==
  ASSUME IInv, NEW c \in Clients, Enter(c)
  PROVE  IInv'
<1>1. /\ client[c].pc = "wait" /\ root' = c /\ client' = [client EXCEPT ![c].pc = "handle"]
      /\ UNCHANGED <<disk, header, drive, setup, control, sysEnc, machine, lost>>
  BY DEF Enter
<1>2. Types BY DEF IInv
<1>3. /\ ClientType' /\ client'[c].pc = "handle" /\ client'[c].op = client[c].op
      /\ \A d \in Clients : d # c => client'[d] = client[d]
  BY <1>1, <1>2, ClientPcMoves DEF ClientPcs
<1>4. Types'
  BY <1>1, <1>2, <1>3
  DEF Types, DiskType, HeaderType, DriveType, SetupType, ControlType, RootType, SysEncType,
      MachineType, LostType
<1>5. ThreadInv' BY <1>1 DEF IInv, ThreadInv, Ended
<1>6. ClientInv' /\ MachineInv' BY <1>1, <1>3, ServedKept DEF Ended
<1>7. ConvertInv' BY <1>1, ConvertKept
<1> QED BY <1>4, <1>5, <1>6, <1>7 DEF IInv, ConvertInv

\* A setup starts.
LEMMA StartStep ==
  ASSUME IInv, NEW c \in Clients, client[c].pc \in {"handle", "join"}, c # System, Ended,
         client[c].op \in {"encrypt", "decrypt"}, Answer(c), StartThread(c),
         UNCHANGED <<disk, header, drive, sysEnc, machine, lost>>
  PROVE  IInv'
<1>1. Types BY DEF IInv
<1>2. /\ control'.inProgress = TRUE /\ control'.thread = TRUE /\ ControlType'
  BY DEF StartThread, ControlType
<1>3. /\ setup'.pc = "begin" /\ setup'.final = FALSE /\ SetupType' /\ ConvertInv'
  BY NewThread DEF StartThread
<1>4. /\ ClientType' /\ RootType' /\ client'[c].pc = "locked"
      /\ \A d \in Clients : d # c => client'[d] = client[d]
  BY <1>1, ClientAnswered
<1>5. Types'
  BY <1>1, <1>2, <1>3, <1>4
  DEF Types, DiskType, HeaderType, DriveType, SysEncType, MachineType, LostType
<1>6. ThreadInv' BY <1>2, <1>3 DEF ThreadInv, Ended
<1>7. ClientInv' /\ MachineInv' BY <1>4, ServedKept
<1> QED BY <1>3, <1>5, <1>6, <1>7 DEF IInv, ConvertInv

\* A device control is answered without a new setup, or goes on to wait for the end of
\* the last one.
LEMMA AnswerStep ==
  ASSUME IInv, NEW c \in Clients, client[c].pc \in {"handle", "join"},
         Answer(c), c = System => Ended,
         UNCHANGED <<disk, header, setup, sysEnc, machine, lost>>,
         ControlType', control'.mode = control.mode, control'.inProgress = control.inProgress,
         setup.pc # "dead" => control'.thread,
         DriveType', drive'.start = drive.start, drive'.end = drive.end
  PROVE  IInv'
<1>1. Types BY DEF IInv
<1>2. /\ ClientType' /\ RootType' /\ client'[c].pc = (IF c = System THEN "done" ELSE "locked")
      /\ \A d \in Clients : d # c => client'[d] = client[d]
  BY <1>1, ClientAnswered
<1>3. Types'
  BY <1>1, <1>2
  DEF Types, DiskType, HeaderType, SetupType, SysEncType, MachineType, LostType
<1>4. ThreadInv' BY DEF IInv, ThreadInv, Ended
<1>5. ClientInv' /\ MachineInv' BY <1>2, ServedKept DEF Ended
<1>6. ConvertInv' BY ConvertKept
<1> QED BY <1>3, <1>4, <1>5, <1>6 DEF IInv, ConvertInv

LEMMA WaitStep ==
  ASSUME IInv, NEW c \in Clients, client[c].pc = "handle",
         client[c].op \in {"encrypt", "decrypt", "abort"},
         control' = [control EXCEPT !.abort = TRUE],
         client' = [client EXCEPT ![c].pc = "join"],
         UNCHANGED <<disk, header, drive, setup, root, sysEnc, machine, lost>>
  PROVE  IInv'
<1>1. Types BY DEF IInv
<1>2. /\ control'.inProgress = control.inProgress /\ control'.thread = control.thread
      /\ control'.mode = control.mode /\ ControlType'
  BY <1>1 DEF Types, ControlType
<1>3. /\ ClientType' /\ client'[c].pc = "join" /\ client'[c].op = client[c].op
      /\ \A d \in Clients : d # c => client'[d] = client[d]
  BY <1>1, ClientPcMoves DEF ClientPcs
<1>4. Types'
  BY <1>1, <1>2, <1>3
  DEF Types, DiskType, HeaderType, DriveType, SetupType, RootType, SysEncType, MachineType,
      LostType
<1>5. ThreadInv' BY <1>2 DEF IInv, ThreadInv, Ended
<1>6. ClientInv' /\ MachineInv' BY <1>3, ServedKept DEF Ended
<1>7. ConvertInv' BY <1>2, ConvertKept
<1> QED BY <1>4, <1>5, <1>6, <1>7 DEF IInv, ConvertInv

LEMMA HandleStartStep ==
  ASSUME IInv, NEW c \in Clients, HandleStart(c)
  PROVE  IInv'
<1>1. /\ client[c].pc = "handle" /\ client[c].op \in {"encrypt", "decrypt"}
      /\ UNCHANGED <<disk, header, drive, sysEnc, machine, lost>>
  BY DEF HandleStart
<1>2. c # System BY <1>1, ServedClient
<1>3. Types /\ ControlType /\ DriveType BY DEF IInv, Types
<1>4. CASE Answer(c) /\ UNCHANGED <<setup, control>>
  <2>1. ControlType' /\ DriveType' BY <1>1, <1>3, <1>4 DEF ControlType, DriveType
  <2> QED BY <1>1, <1>2, <1>4, <2>1, AnswerStep DEF IInv, ThreadInv
<1>5. CASE ~control.inProgress /\ Answer(c) /\ StartThread(c)
  BY <1>1, <1>2, <1>5, StartStep DEF IInv, ThreadInv
<1>6. CASE /\ control' = [control EXCEPT !.abort = TRUE]
           /\ client' = [client EXCEPT ![c].pc = "join"]
           /\ UNCHANGED <<root, setup>>
  BY <1>1, <1>6, WaitStep
<1> QED BY <1>4, <1>5, <1>6 DEF HandleStart

LEMMA HandleAbortStep ==
  ASSUME IInv, NEW c \in Clients, HandleAbort(c)
  PROVE  IInv'
<1>1. /\ client[c].pc = "handle" /\ client[c].op = "abort"
      /\ UNCHANGED <<disk, header, drive, setup, sysEnc, machine, lost>>
  BY DEF HandleAbort
<1>2. ControlType /\ DriveType BY DEF IInv, Types
<1>3. CASE ~control.thread /\ Answer(c) /\ UNCHANGED control
  <2>1. Ended /\ setup.pc = "dead" BY <1>3 DEF IInv, ThreadInv, Ended
  <2>2. ControlType' /\ DriveType' BY <1>1, <1>2, <1>3 DEF ControlType, DriveType
  <2> QED BY <1>1, <1>3, <2>1, <2>2, AnswerStep
<1>4. CASE /\ control' = [control EXCEPT !.abort = TRUE]
           /\ client' = [client EXCEPT ![c].pc = "join"]
           /\ UNCHANGED root
  BY <1>1, <1>4, WaitStep
<1> QED BY <1>3, <1>4 DEF HandleAbort

LEMMA JoinStep ==
  ASSUME IInv, NEW c \in Clients, Join(c)
  PROVE  IInv'
<1>1. /\ client[c].pc = "join" /\ setup.pc = "dead" /\ Answer(c)
      /\ UNCHANGED <<disk, header, drive, sysEnc, machine, lost>>
  BY DEF Join
<1>2. Types /\ ControlType /\ DriveType BY DEF IInv, Types
<1>3. CASE client[c].op = "abort" /\ control' = [control EXCEPT !.thread = FALSE] /\ UNCHANGED setup
  <2>1. /\ control'.inProgress = control.inProgress /\ control'.mode = control.mode
        /\ ControlType' /\ DriveType'
    BY <1>1, <1>2, <1>3 DEF ControlType, DriveType
  <2> QED BY <1>1, <1>3, <2>1, AnswerStep DEF Ended
<1>4. CASE client[c].op # "abort" /\ StartThread(c)
  <2>1. c # System BY <1>1, <1>4, ServedClient
  <2>2. client[c].op \in {"encrypt", "decrypt"}
    BY <1>1, <1>4, <2>1, ServedClient DEF IInv, ClientInv
  <2> QED BY <1>1, <1>4, <2>1, <2>2, StartStep DEF Ended
<1> QED BY <1>3, <1>4 DEF Join

LEMMA HandleReopenStep ==
  ASSUME IInv, NEW c \in Clients, HandleReopen(c)
  PROVE  IInv'
<1> DEFINE keys == IF ~drive.mounted \/ drive.keys = NoKeys THEN drive.keys
                   ELSE IF header.present /\ header.keys = client[c].copy.keys
                   THEN header.keys ELSE NoKeys
<1>1. /\ client[c].pc = "handle" /\ client[c].op = "reopen" /\ Answer(c)
      /\ drive' = [drive EXCEPT !.keys = keys]
      /\ UNCHANGED <<disk, header, setup, control, sysEnc, machine, lost>>
  BY DEF HandleReopen
<1>2. Types BY DEF IInv
<1>3. keys \in {NoKeys} \cup 0 .. MaxChanges
  BY <1>2 DEF Types, DriveType, HeaderType, Headers
<1> HIDE DEF keys
<1>4. /\ DriveType' /\ drive'.start = drive.start /\ drive'.end = drive.end
  BY <1>1, <1>2, <1>3 DEF Types, DriveType
<1>5. ControlType' BY <1>1, <1>2 DEF Types, ControlType
<1>6. c # System BY <1>1, ServedClient
<1> QED BY <1>1, <1>4, <1>5, <1>6, AnswerStep DEF IInv, ThreadInv

\* The steps of a program by itself.
LEMMA AppStep ==
  ASSUME IInv, NEW a \in Apps, machine = "on",
         UNCHANGED <<disk, header, drive, setup, control, root, machine>>,
         lost'.save = lost.save, lost'.failedSaves = lost.failedSaves, LostType',
         ClientType', SysEncType',
         \A d \in Clients : d # a => client'[d] = client[d],
         \A b \in Apps : b # a => client[b].pc = "idle",
         client'[a].pc # "idle" => sysEnc' = a,
         InPasswordChange(a)' => Ended /\ header.present,
         client'[a].pc \in {"checked", "read"} => header.keys < MaxChanges,
         client'[a].pc = "read" => client'[a].copy = header,
         client'[a].pc \notin {"done", "join"}
  PROVE  IInv'
<1>1. Types'
  BY DEF IInv, Types, DiskType, HeaderType, DriveType, SetupType, ControlType, RootType,
         MachineType
<1>2. ThreadInv' BY DEF IInv, ThreadInv, Ended
<1>3. a # System /\ System \in Clients /\ Apps \subseteq Clients BY ActorsAssumption DEF Clients
<1>4. ClientInv' BY <1>3 DEF IInv, ClientInv, InPasswordChange, Ended
<1>5. MachineInv' BY DEF MachineInv
<1>6. ConvertInv' BY ConvertKept
<1> QED BY <1>1, <1>2, <1>4, <1>5, <1>6 DEF IInv, ConvertInv

\* Who has the mutex of the programs is the only one of them that does anything.
LEMMA OneApp ==
  ASSUME IInv, NEW a \in Apps, client[a].pc # "idle" \/ sysEnc = Nobody
  PROVE  /\ \A b \in Apps : b # a => client[b].pc = "idle"
         /\ client[a].pc # "idle" => sysEnc = a
         /\ a \in Clients
         /\ Types /\ SysEncType /\ LostType
BY ActorsAssumption DEF IInv, ClientInv, Types, Clients

LEMMA CreateSysEncMutexStep ==
  ASSUME IInv, NEW a \in Apps, CreateSysEncMutex(a)
  PROVE  IInv'
<1>1. /\ machine = "on" /\ sysEnc = Nobody /\ sysEnc' = a
      /\ client' = [client EXCEPT ![a].pc = "locked"]
      /\ UNCHANGED <<disk, header, drive, setup, control, root, machine, lost>>
  BY DEF CreateSysEncMutex, Running, AppToPc
<1>2. /\ ClientType' /\ client'[a].pc = "locked"
      /\ \A d \in Clients : d # a => client'[d] = client[d]
  BY <1>1, OneApp, ClientPcMoves DEF ClientPcs
<1>3. SysEncType' /\ LostType' BY <1>1, OneApp DEF SysEncType, LostType
<1> QED BY <1>1, <1>2, <1>3, OneApp, AppStep DEF InPasswordChange

LEMMA LeaveStep ==
  ASSUME IInv, NEW a \in Apps, Leave(a)
  PROVE  IInv'
<1>1. /\ machine = "on" /\ sysEnc' = Nobody /\ client[a].pc # "idle"
      /\ client' = [client EXCEPT ![a] = IdleClient]
      /\ lost' = lost \/ lost' = [lost EXCEPT !.failures = @ + 1]
      /\ UNCHANGED <<disk, header, drive, setup, control, root, machine>>
  BY DEF Leave, Running
<1>2. NoHeader \in Headers BY SizesAssumption, OptionsAssumption DEF NoHeader, Headers
<1>3. /\ ClientType' /\ client'[a].pc = "idle"
      /\ \A d \in Clients : d # a => client'[d] = client[d]
  BY <1>1, <1>2, OneApp, ClientMoves DEF ClientPcs, ClientOps, IdleClient
<1>4. /\ lost'.save = lost.save /\ lost'.failedSaves = lost.failedSaves /\ LostType'
  BY <1>1, OneApp DEF LostType
<1>5. SysEncType' BY <1>1 DEF SysEncType
<1> QED BY <1>1, <1>3, <1>4, <1>5, OneApp, AppStep DEF InPasswordChange

LEMMA SendStep ==
  ASSUME IInv, NEW a \in Apps, Send(a)
  PROVE  IInv'
<1>1. PICK op \in {"encrypt", "decrypt", "abort"} :
        client' = [client EXCEPT ![a].pc = "wait", ![a].op = op]
  BY DEF Send
<1>2. /\ machine = "on" /\ client[a].pc = "locked"
      /\ UNCHANGED <<disk, header, drive, setup, control, root, sysEnc, machine, lost>>
  BY DEF Send, Running
<1>3. /\ ClientType' /\ client'[a].pc = "wait"
      /\ \A d \in Clients : d # a => client'[d] = client[d]
  BY <1>1, <1>2, OneApp DEF Types, ClientType, ClientPcs, ClientOps
<1>4. SysEncType' /\ LostType' BY <1>2, OneApp DEF SysEncType, LostType
<1> QED BY <1>2, <1>3, <1>4, OneApp, AppStep DEF InPasswordChange

LEMMA CheckStatusStep ==
  ASSUME IInv, NEW a \in Apps, CheckStatus(a)
  PROVE  IInv'
<1>1. /\ machine = "on" /\ client[a].pc = "locked"
      /\ ~control.inProgress /\ header.present /\ header.keys < MaxChanges
      /\ client' = [client EXCEPT ![a].pc = "checked"]
      /\ UNCHANGED <<disk, header, drive, setup, control, root, sysEnc, machine, lost>>
  BY DEF CheckStatus, Running, AppToPc
<1>2. /\ ClientType' /\ client'[a].pc = "checked"
      /\ \A d \in Clients : d # a => client'[d] = client[d]
  BY <1>1, OneApp, ClientPcMoves DEF ClientPcs
<1>3. SysEncType' /\ LostType' BY <1>1, OneApp DEF SysEncType, LostType
<1>4. Ended BY <1>1 DEF IInv, ThreadInv
<1> QED BY <1>1, <1>2, <1>3, <1>4, OneApp, AppStep DEF InPasswordChange

LEMMA ReadHeaderStep ==
  ASSUME IInv, NEW a \in Apps, ReadHeader(a)
  PROVE  IInv'
<1>1. /\ machine = "on" /\ client[a].pc = "checked"
      /\ client' = [client EXCEPT ![a].pc = "read", ![a].copy = header]
      /\ UNCHANGED <<disk, header, drive, setup, control, root, sysEnc, machine, lost>>
  BY DEF ReadHeader, Running
<1>2. header \in Headers BY OneApp DEF IInv, Types, HeaderType
<1>3. /\ ClientType' /\ client'[a].pc = "read" /\ client'[a].copy = header
      /\ \A d \in Clients : d # a => client'[d] = client[d]
  BY <1>1, <1>2, OneApp DEF Types, ClientType, ClientPcs
<1>4. SysEncType' /\ LostType' BY <1>1, OneApp DEF SysEncType, LostType
<1>5. Ended /\ header.present /\ header.keys < MaxChanges
  BY <1>1 DEF IInv, ClientInv, InPasswordChange
<1> QED BY <1>1, <1>3, <1>4, <1>5, OneApp, AppStep DEF InPasswordChange

\* The length that was read is still the one of the header.
LEMMA WriteHeaderStep ==
  ASSUME IInv, NEW a \in Apps, WriteHeader(a)
  PROVE  IInv'
<1> DEFINE copy == [header EXCEPT !.keys = @ + 1]
<1>1. /\ machine = "on" /\ client[a].pc = "read" /\ client[a].copy = header
      /\ Ended /\ header.present /\ header.keys < MaxChanges
  BY DEF WriteHeader, Running, IInv, ClientInv, InPasswordChange
<1>2. /\ header' = copy
      /\ client' = [client EXCEPT ![a].pc = "written", ![a].copy = copy]
      /\ UNCHANGED <<disk, drive, setup, control, root, sysEnc, machine, lost>>
  BY <1>1 DEF WriteHeader
<1>3. Types BY DEF IInv
<1>4. copy \in Headers /\ copy.length = header.length /\ copy.present = header.present
  <2>1. PICK k \in 0 .. MaxChanges : k = header.keys + 1
    BY <1>1, <1>3, OptionsAssumption DEF Types, HeaderType, Headers
  <2>2. copy = [header EXCEPT !.keys = k] BY <2>1
  <2> HIDE DEF copy
  <2> QED BY <1>3, <2>2 DEF Types, HeaderType, Headers
<1> HIDE DEF copy
<1>5. /\ ClientType' /\ client'[a].pc = "written"
      /\ \A d \in Clients : d # a => client'[d] = client[d]
  BY <1>1, <1>2, <1>3, <1>4, OneApp DEF Types, ClientType, ClientPcs
<1>6. Types'
  BY <1>2, <1>3, <1>4, <1>5
  DEF Types, DiskType, HeaderType, DriveType, SetupType, ControlType, RootType, SysEncType,
      MachineType, LostType
<1>7. ThreadInv' BY <1>2 DEF IInv, ThreadInv, Ended
<1>8. ClientInv'
  <2>1. a # System /\ System \in Clients /\ Apps \subseteq Clients BY ActorsAssumption DEF Clients
  <2>2. \A b \in Apps : b # a => client[b].pc = "idle" BY <1>1, OneApp
  <2> QED BY <1>1, <1>2, <1>4, <1>5, <2>1, <2>2, ZenonT(60)
    DEF IInv, ClientInv, InPasswordChange, Ended
<1>9. MachineInv' BY <1>1, <1>2 DEF MachineInv
<1>10. /\ AreaLength' = AreaLength /\ HeaderLength' = HeaderLength
       /\ (Settled' <=> Settled) /\ (Encrypting' <=> Encrypting)
       /\ \A s : Layer(s)' = Layer(s)
  BY <1>2, <1>4 DEF AreaLength, HeaderLength, Settled, Encrypting, Layer, InArea
<1>11. AreaInv' /\ DiskMatchesArea' /\ BlockInv' /\ SavedInv' /\ WrittenInv'
  <2>1. AreaInv' BY <1>1, <1>2, <1>10 DEF IInv, AreaInv, Ended
  <2>2. DiskMatchesArea' BY <1>1, <1>2, <1>10 DEF IInv, DiskMatchesArea, Ended, Layer
  <2>3. BlockInv' BY <1>1, <1>2 DEF BlockInv, Ended
  <2>4. SavedInv' BY <1>1, <1>2, <1>10 DEF IInv, SavedInv, Ended
  <2>5. WrittenInv' BY <1>1, <1>2 DEF WrittenInv, Ended, Runs
  <2> QED BY <2>1, <2>2, <2>3, <2>4, <2>5
<1> QED BY <1>6, <1>7, <1>8, <1>9, <1>11 DEF IInv

LEMMA SendReopenStep ==
  ASSUME IInv, NEW a \in Apps, SendReopen(a)
  PROVE  IInv'
<1>1. /\ machine = "on" /\ client[a].pc = "written"
      /\ client' = [client EXCEPT ![a].pc = "wait", ![a].op = "reopen"]
      /\ UNCHANGED <<disk, header, drive, setup, control, root, sysEnc, machine, lost>>
  BY DEF SendReopen, Running
<1>2. /\ ClientType' /\ client'[a].pc = "wait"
      /\ \A d \in Clients : d # a => client'[d] = client[d]
  BY <1>1, OneApp DEF Types, ClientType, ClientPcs, ClientOps
<1>3. SysEncType' /\ LostType' BY <1>1, OneApp DEF SysEncType, LostType
<1> QED BY <1>1, <1>2, <1>3, OneApp, AppStep DEF InPasswordChange

-----------------------------------------------------------------------------
(* The system.                                                             *)

LEMMA ClientsOfSystem ==
  /\ System \in Clients /\ System \notin Apps /\ Apps \subseteq Clients
  /\ \A c \in Clients : c # System => c \in Apps
BY ActorsAssumption DEF Clients

LEMMA IdleClientIs ==
  IdleClient \in [pc : ClientPcs, op : ClientOps, copy : Headers]
<1>1. NoHeader \in Headers BY SizesAssumption, OptionsAssumption DEF NoHeader, Headers
<1> QED BY <1>1 DEF IdleClient, ClientPcs, ClientOps

\* The machine is to stop: the system aborts the setup if there is one.
LEMMA StopStep ==
  ASSUME IInv, NEW yes \in BOOLEAN, ~yes => Ended, SystemAborts(yes), Quiet,
         machine' \in {"hibernating", "shutdown"},
         UNCHANGED <<disk, header, drive, setup, control, root, sysEnc, lost>>
  PROVE  IInv'
<1> DEFINE pc == IF yes THEN "wait" ELSE "done"
           op == IF yes THEN "abort" ELSE "none"
<1>1. Types BY DEF IInv
<1>3. pc \in ClientPcs /\ op \in ClientOps BY DEF ClientPcs, ClientOps
<1>4. PICK q : q = [IdleClient EXCEPT !.pc = pc, !.op = op] OBVIOUS
<1>5. client' = [c \in Clients |-> IF c # System THEN client[c] ELSE q]
  BY <1>4 DEF SystemAborts
<1>6. /\ pc \in {"wait", "done"} /\ (pc = "wait" => op = "abort") /\ (pc = "done" => Ended)
  OBVIOUS
<1> HIDE DEF pc, op
<1>7. /\ ClientType' /\ client'[System].pc = pc /\ client'[System].op = op
      /\ \A a \in Apps : client'[a] = client[a]
  <2>1. q.pc = pc /\ q.op = op /\ q \in [pc : ClientPcs, op : ClientOps, copy : Headers]
    BY <1>3, <1>4, IdleClientIs
  <2> QED BY <1>1, <1>5, <2>1, ClientsOfSystem DEF Types, ClientType
<1>8. Types'
  BY <1>1, <1>7
  DEF Types, DiskType, HeaderType, DriveType, SetupType, ControlType, RootType, SysEncType,
      MachineType, LostType
<1>9. ThreadInv' BY DEF IInv, ThreadInv, Ended
<1>10. ClientInv' BY <1>6, <1>7 DEF IInv, ClientInv, InPasswordChange, Ended
<1>11. MachineInv' BY <1>6, <1>7 DEF MachineInv, Quiet, Ended
<1>12. ConvertInv' BY ConvertKept
<1> QED BY <1>8, <1>9, <1>10, <1>11, <1>12 DEF IInv, ConvertInv

LEMMA HibernateStep ==
  ASSUME IInv, Hibernate
  PROVE  IInv'
<1>1. control.inProgress \in BOOLEAN BY DEF IInv, Types, ControlType
<1>2. ~control.inProgress => Ended BY DEF IInv, ThreadInv
<1> QED BY <1>1, <1>2, StopStep DEF Hibernate

LEMMA ShutdownStep ==
  ASSUME IInv, Shutdown
  PROVE  IInv'
<1>1. control.thread \in BOOLEAN BY DEF IInv, Types, ControlType
<1>2. ~control.thread => Ended BY DEF IInv, ThreadInv, Ended
<1> QED BY <1>1, <1>2, StopStep DEF Shutdown

LEMMA BeginImageStep ==
  ASSUME IInv, BeginImage
  PROVE  IInv'
<1>1. /\ machine = "hibernating" /\ client[System].pc = "done" /\ machine' = "image"
      /\ UNCHANGED <<disk, header, drive, setup, control, root, sysEnc, client, lost>>
  BY DEF BeginImage
<1>2. Types'
  BY <1>1
  DEF IInv, Types, DiskType, HeaderType, DriveType, SetupType, ControlType, RootType, SysEncType,
      ClientType, MachineType, LostType
<1>3. ThreadInv' BY <1>1 DEF IInv, ThreadInv, Ended
<1>4. ClientInv' BY <1>1 DEF IInv, ClientInv, InPasswordChange, Ended
<1>5. MachineInv' BY <1>1 DEF IInv, MachineInv, Quiet, Ended
<1>6. ConvertInv' BY <1>1, ConvertKept
<1> QED BY <1>2, <1>3, <1>4, <1>5, <1>6 DEF IInv, ConvertInv

\* The image takes the layers that the area asks for.
LEMMA DumpFilterWriteStep ==
  ASSUME IInv, NEW s \in Sectors, DumpFilterWrite(s)
  PROVE  IInv'
<1>1. /\ machine = "image" /\ disk' = [disk EXCEPT ![s] = Layer(s)]
      /\ UNCHANGED <<header, drive, setup, control, root, sysEnc, client, machine, lost>>
  BY DEF DumpFilterWrite, Layer
<1>2. Types BY DEF IInv
<1>3. Ended BY <1>1 DEF IInv, MachineInv
<1>4. Layer(s) \in Layers BY DEF Layer, Layers
<1>5. disk' \in [Sectors -> Layers] /\ disk'[s] = Layer(s)
      /\ \A r \in Sectors : r # s => disk'[r] = disk[r]
  BY <1>1, <1>2, <1>4 DEF Types, DiskType
<1>6. Types'
  BY <1>1, <1>2, <1>5
  DEF Types, DiskType, HeaderType, DriveType, SetupType, ControlType, RootType, SysEncType,
      ClientType, MachineType, LostType
<1>7. ThreadInv' BY <1>1 DEF IInv, ThreadInv, Ended
<1>8. ClientInv' /\ MachineInv' BY <1>1, <1>3, IdleKept DEF Ended
<1>9. /\ AreaLength' = AreaLength /\ HeaderLength' = HeaderLength
      /\ (Settled' <=> Settled) /\ (Encrypting' <=> Encrypting)
      /\ \A r : Layer(r)' = Layer(r)
  BY <1>1 DEF AreaLength, HeaderLength, Settled, Encrypting, Layer, InArea
<1>10. AreaInv' BY <1>1, <1>3, <1>9 DEF IInv, AreaInv, Ended
<1>11. DiskMatchesArea' BY <1>1, <1>3, <1>5, <1>9 DEF IInv, DiskMatchesArea, Ended, Layer
<1>12. BlockInv' BY <1>1, <1>3 DEF BlockInv, Ended
<1>13. SavedInv' BY <1>1, <1>9 DEF IInv, SavedInv, Ended
<1>14. WrittenInv' BY <1>1, <1>3 DEF WrittenInv, Ended, Runs
<1> QED BY <1>6, <1>7, <1>8, <1>10, <1>11, <1>12, <1>13, <1>14 DEF IInv

LEMMA ResumeStep ==
  ASSUME IInv, Resume
  PROVE  IInv'
<1>1. /\ machine' = "on" /\ client' = [client EXCEPT ![System] = IdleClient]
      /\ UNCHANGED <<disk, header, drive, setup, control, root, sysEnc, lost>>
  BY DEF Resume
<1>2. Types BY DEF IInv
<1>3. NoHeader \in Headers BY SizesAssumption, OptionsAssumption DEF NoHeader, Headers
<1>4. /\ ClientType' /\ client'[System].pc = "idle"
      /\ \A d \in Clients : d # System => client'[d] = client[d]
  BY <1>1, <1>2, <1>3, ClientsOfSystem, ClientMoves DEF ClientPcs, ClientOps, IdleClient
<1>5. Types'
  BY <1>1, <1>2, <1>4
  DEF Types, DiskType, HeaderType, DriveType, SetupType, ControlType, RootType, SysEncType,
      MachineType, LostType
<1>6. ThreadInv' BY <1>1 DEF IInv, ThreadInv, Ended
<1>7. ClientInv' BY <1>1, <1>4, ClientsOfSystem DEF IInv, ClientInv, InPasswordChange, Ended
<1>8. MachineInv' BY <1>1 DEF MachineInv
<1>9. ConvertInv' BY <1>1, ConvertKept
<1> QED BY <1>5, <1>6, <1>7, <1>8, <1>9 DEF IInv, ConvertInv

\* The system is started, after what the header does not describe was lost.
LEMMA BootMachine ==
  ASSUME IInv, NEW sectors \in SUBSET Sectors, Spoil(sectors), Mismatch \subseteq sectors,
         Boot(header), UNCHANGED header, machine' = "on",
         LostType', lost'.save = FALSE, lost'.failedSaves = 0
  PROVE  IInv'
<1>1. Types BY DEF IInv
<1>2. /\ drive' = Mounted(header) /\ setup' = DeadThread /\ control' = IdleControl
      /\ root' = Nobody /\ sysEnc' = Nobody /\ client' = [c \in Clients |-> IdleClient]
  BY DEF Boot
<1>3. DriveType' /\ AreaLength' = HeaderLength /\ HeaderLength' = HeaderLength /\ Settled'
  BY <1>1, <1>2, MountedArea
<1>4. /\ setup'.pc = "dead" /\ setup'.required = FALSE /\ setup'.final = FALSE /\ SetupType'
  BY <1>2, DeadThreadIs DEF SetupType
<1>5. NoHeader \in Headers BY SizesAssumption, OptionsAssumption DEF NoHeader, Headers
<1>6. /\ ClientType' /\ \A c \in Clients : client'[c].pc = "idle"
  BY <1>2, <1>5 DEF ClientType, ClientPcs, ClientOps, IdleClient
<1>7. /\ ControlType' /\ control'.inProgress = FALSE
  BY <1>2 DEF ControlType, IdleControl
<1>8. disk' \in [Sectors -> Layers]
  BY <1>1 DEF Spoil, Types, DiskType, Layers
<1>9. Types'
  BY <1>1, <1>2, <1>3, <1>4, <1>6, <1>7, <1>8
  DEF Types, DiskType, HeaderType, RootType, SysEncType, MachineType
<1>10. ThreadInv' BY <1>4, <1>7 DEF ThreadInv, Ended
<1>11. ClientInv' BY <1>6, ClientsOfSystem DEF ClientInv, InPasswordChange
<1>12. MachineInv' BY DEF MachineInv
<1>13. AreaInv' BY <1>3, <1>4 DEF AreaInv, Ended
<1>14. DiskMatchesArea'
  <2>1. \A s \in Sectors : Layer(s)' = IF s <= HeaderLength THEN 1 ELSE 0
    BY <1>3, <1>9, NextAreaLengthIs DEF Layer
  <2>2. \A s \in Sectors \ sectors : disk[s] \in {Lost, IF s <= HeaderLength THEN 1 ELSE 0}
    BY <1>1, MismatchIs
  <2>3. \A s \in Sectors : disk'[s] = Lost \/ (s \notin sectors /\ disk'[s] = disk[s])
    BY DEF Spoil
  <2>4. \A s \in Sectors : disk'[s] \in {Lost, Layer(s)'} BY <2>1, <2>2, <2>3
  <2> QED BY <2>4 DEF DiskMatchesArea, Layer
<1>15. BlockInv' BY <1>4 DEF BlockInv
<1>16. SavedInv' BY <1>3, <1>4 DEF SavedInv
<1>17. WrittenInv' BY <1>4 DEF WrittenInv, Ended, Runs
<1> QED BY <1>9, <1>10, <1>11, <1>12, <1>13, <1>14, <1>15, <1>16, <1>17 DEF IInv

\* Without a setup the header describes the drive, unless it could not be saved.
LEMMA EndedMatches ==
  ASSUME IInv, Ended, ~lost.save
  PROVE  /\ AreaLength = HeaderLength
         /\ Mismatch = {}
<1>1. AreaLength = HeaderLength BY DEF IInv, SavedInv, Ended
<1>2. \A s \in Sectors : disk[s] \in {Lost, IF InArea(s) THEN 1 ELSE 0}
  BY DEF IInv, DiskMatchesArea, Ended
<1>3. Types BY DEF IInv
<1>4. \A s \in Sectors : disk[s] \in {Lost, IF s <= HeaderLength THEN 1 ELSE 0}
  BY <1>1, <1>2, <1>3, AreaLengthIs
<1> QED BY <1>1, <1>3, <1>4, MismatchIs

LEMMA RestartStep ==
  ASSUME IInv, Restart
  PROVE  IInv'
<1> DEFINE sectors == IF lost.save THEN Mismatch ELSE {}
<1>1. Ended BY DEF Restart, IInv, MachineInv
<1>2. LostType' /\ lost'.save = FALSE /\ lost'.failedSaves = 0
  BY DEF Restart, Saved, IInv, Types, LostType
<1>3. Mismatch \subseteq sectors /\ sectors \in SUBSET Sectors
  BY <1>1, EndedMatches DEF Mismatch
<1> HIDE DEF sectors
<1>4. Spoil(sectors) /\ Boot(header) /\ UNCHANGED header /\ machine' = "on"
  BY DEF Restart, sectors
<1> QED BY <1>2, <1>3, <1>4, BootMachine

LEMMA PowerFailureStep ==
  ASSUME IInv, PowerFailure
  PROVE  IInv'
<1>1. LostType' /\ lost'.save = FALSE /\ lost'.failedSaves = 0
  <2>1. LostType BY DEF IInv, Types
  <2>2. PICK k \in Nat : k = lost.failures + 1 BY <2>1 DEF LostType
  <2>3. lost' = [Saved EXCEPT !.failures = k]
    BY <2>1, <2>2 DEF PowerFailure, Saved, LostType
  <2> QED BY <2>1, <2>3 DEF Saved, LostType
<1>2. Mismatch \in SUBSET Sectors BY DEF Mismatch
<1> QED BY <1>1, <1>2, BootMachine DEF PowerFailure

-----------------------------------------------------------------------------
(* The invariant.                                                          *)

LEMMA IInvInit == Init => IInv
<1> SUFFICES ASSUME Init PROVE IInv
  OBVIOUS
<1>1. PICK n \in Lengths : /\ header = [present |-> TRUE, keys |-> 0, length |-> n]
                           /\ disk = [s \in Sectors |-> IF s <= n THEN 1 ELSE 0]
  BY DEF Init
<1>2. n \in 0 .. Length BY SizesAssumption
<1>3. /\ header \in Headers /\ header.present /\ header.length = n /\ header.keys = 0
  BY <1>1, <1>2, OptionsAssumption DEF Headers
<1>4. /\ DriveType /\ AreaLength = n /\ HeaderLength = n /\ Settled
      /\ \A s \in Sectors : InArea(s) <=> s <= n
  <2>1. drive = Mounted(header) BY DEF Init
  <2>2. CASE n # 0
    BY <1>2, <1>3, <2>1, <2>2, OptionsAssumption
    DEF Mounted, DriveType, AreaLength, HeaderLength, Settled, InArea, Sectors, NoKeys
  <2>3. CASE n = 0
    <3>1. drive = [mounted |-> TRUE, configured |-> TRUE, keys |-> 0, start |-> -1, end |-> -1]
      BY <1>3, <2>1, <2>3 DEF Mounted
    <3>2. -1 \in -1 .. Length /\ 0 \in 0 .. MaxChanges BY SizesAssumption, OptionsAssumption
    <3> QED BY <1>3, <2>3, <3>1, <3>2
    DEF Mounted, DriveType, AreaLength, HeaderLength, Settled, InArea, Sectors, NoKeys
  <2> QED BY <2>2, <2>3
<1>5. /\ setup.pc = "dead" /\ setup.required = FALSE /\ setup.final = FALSE /\ SetupType
  BY DeadThreadIs DEF Init, SetupType
<1>6. NoHeader \in Headers BY SizesAssumption, OptionsAssumption DEF NoHeader, Headers
<1>7. /\ ClientType /\ \A c \in Clients : client[c].pc = "idle"
  BY <1>6 DEF Init, ClientType, ClientPcs, ClientOps, IdleClient
<1>8. /\ ControlType /\ control.inProgress = FALSE BY DEF Init, ControlType, IdleControl
<1>9. Types
  BY <1>1, <1>3, <1>4, <1>5, <1>7, <1>8
  DEF Init, Types, DiskType, HeaderType, RootType, SysEncType, MachineType, LostType, Layers
<1>10. ThreadInv BY <1>5, <1>8 DEF ThreadInv, Ended
<1>11. ClientInv BY <1>7, ClientsOfSystem DEF ClientInv, InPasswordChange
<1>12. MachineInv BY DEF Init, MachineInv
<1>13. AreaInv BY <1>4, <1>5 DEF AreaInv, Ended
<1>14. DiskMatchesArea BY <1>1, <1>4 DEF DiskMatchesArea
<1>15. BlockInv BY <1>5 DEF BlockInv
<1>16. SavedInv BY <1>4, <1>5 DEF SavedInv
<1>17. WrittenInv BY <1>5 DEF WrittenInv, Ended, Runs
<1> QED BY <1>9, <1>10, <1>11, <1>12, <1>13, <1>14, <1>15, <1>16, <1>17 DEF IInv

LEMMA IInvUnchanged ==
  ASSUME IInv, UNCHANGED vars
  PROVE  IInv'
<1>1. UNCHANGED <<disk, header, drive, setup, control, root, sysEnc, client, machine, lost>>
  BY DEF vars
<1>2. Types'
  BY <1>1
  DEF IInv, Types, DiskType, HeaderType, DriveType, SetupType, ControlType, RootType, SysEncType,
      ClientType, MachineType, LostType
<1>3. ThreadInv' BY <1>1 DEF IInv, ThreadInv, Ended
<1>4. ClientInv' BY <1>1 DEF IInv, ClientInv, InPasswordChange, Ended
<1>5. MachineInv' BY <1>1 DEF IInv, MachineInv, Quiet, Ended
<1>6. ConvertInv' BY <1>1, ConvertKept
<1> QED BY <1>2, <1>3, <1>4, <1>5, <1>6 DEF IInv, ConvertInv

LEMMA SetupThreadStep ==
  ASSUME IInv, SetupThread
  PROVE  IInv'
<1>1. SetupBusy \/ SetupRuns BY DEF SetupThread
<1> USE SetupBeginStep, SetupHoldFirstStep, SetupHoldAbortedStep, SetupLoopStep, SetupHoldStep,
        SetupReadFailsStep, SetupWipeStep, SetupWriteStep, SetupUndoStep, SetupAdvanceStep,
        SaveReadStep, SaveWriteStep, SaveFailsStep, SetupEndStep, SetupHoldLastStep,
        SetupSavedStep, SetupAcquireStep, SetupDismountStep, SetupReleaseStep, SetupRetStep,
        SetupExitStep
<1>2. CASE SetupBusy BY <1>2 DEF SetupBusy
<1>3. CASE SetupRuns BY <1>3 DEF SetupRuns
<1> QED BY <1>1, <1>2, <1>3

LEMMA IInvStep == IInv /\ [Next]_vars => IInv'
<1> SUFFICES ASSUME IInv, [Next]_vars PROVE IInv'
  OBVIOUS
<1>1. CASE SetupThread BY <1>1, SetupThreadStep
<1>2. CASE \E c \in Clients : DeviceControl(c)
  BY <1>2, EnterStep, HandleStartStep, HandleAbortStep, JoinStep, HandleReopenStep
  DEF DeviceControl
<1>3. CASE \E a \in Apps : App(a)
  BY <1>3, CreateSysEncMutexStep, LeaveStep, SendStep, CheckStatusStep, ReadHeaderStep,
     WriteHeaderStep, SendReopenStep
  DEF App
<1>4. CASE Power
  BY <1>4, HibernateStep, BeginImageStep, ResumeStep, DumpFilterWriteStep, ShutdownStep,
     RestartStep, PowerFailureStep
  DEF Power
<1>5. CASE UNCHANGED vars BY <1>5, IInvUnchanged
<1> QED BY <1>1, <1>2, <1>3, <1>4, <1>5 DEF Next

\* The inductive invariant holds in every state that the program can reach.
THEOREM Invariant == Spec => []IInv
BY IInvInit, IInvStep, PTL DEF Spec

-----------------------------------------------------------------------------
(* What follows from it.                                                   *)

\* The types that the model gives its variables.
LEMMA IInvImpliesTypes == IInv => TypeOK
BY DEF IInv, Types, TypeOK, DiskType, HeaderType, DriveType, SetupType, ControlType, RootType,
       SysEncType, MachineType

\* Every variable keeps its type, whatever the sizes and however many programs there are.
THEOREM TypeCorrect == Spec => []TypeOK
BY Invariant, IInvImpliesTypes, PTL

\* Outside of the block that the setup thread holds the queue for, the contents of the
\* drive are what the encrypted area says (DriveFilter.c, SetupThreadProc), whatever was
\* aborted, restarted or has failed.
THEOREM AreaIsRight == Spec => []DiskMatchesArea
<1>1. IInv => DiskMatchesArea BY DEF IInv
<1> QED BY <1>1, Invariant, PTL

LEMMA IInvImpliesHeader == IInv => DiskMatchesHeader
BY EndedMatches DEF DiskMatchesHeader, IInv, ThreadInv

\* Once a setup has ended without an error, the saved header describes the drive, and no
\* later password change brings an older length back (SaveDriveVolumeHeader).
THEOREM HeaderIsRight == Spec => []DiskMatchesHeader
BY Invariant, IInvImpliesHeader, PTL

LEMMA IInvImpliesImage == IInv => HibernationImageReadable
<1> SUFFICES ASSUME IInv, machine = "image"
             PROVE  /\ Ended
                    /\ lost.save \/ \A s \in Sectors : InArea(s) <=> InHeaderArea(s)
  BY DEF HibernationImageReadable, Ended
<1>1. Ended BY DEF IInv, MachineInv
<1>2. Types BY DEF IInv
<1>3. CASE ~lost.save BY <1>1, <1>2, <1>3, EndedMatches, AreaLengthIs
<1> QED BY <1>1, <1>3

\* The boot loader decrypts a hibernation image by the area that it was encrypted by
\* (DumpFilter.c, DumpFilterWrite).
THEOREM ImageIsReadable == Spec => []HibernationImageReadable
BY Invariant, IInvImpliesImage, PTL

\* Sectors between two places.
LEMMA IntervalSize ==
  ASSUME NEW S \in SUBSET Int, NEW a \in Int, NEW n \in Nat,
         \A s \in S : a <= s /\ s < a + n
  PROVE  IsFiniteSet(S) /\ Cardinality(S) \in Nat /\ Cardinality(S) <= n
<1>1. S \subseteq a .. (a + n - 1) OBVIOUS
<1>2. /\ IsFiniteSet(a .. (a + n - 1))
      /\ Cardinality(a .. (a + n - 1)) = IF a > a + n - 1 THEN 0 ELSE (a + n - 1) - a + 1
  BY FS_Interval
<1>3. Cardinality(a .. (a + n - 1)) = n BY <1>2
<1> QED BY <1>1, <1>2, <1>3, FS_Subset, FS_CardinalityType

\* What a power failure spoils fits where all else matches the header.
LEMMA StakeIsSmall ==
  ASSUME Types, NEW a \in Int, NEW n \in Nat,
         \A s \in Sectors : s < a \/ s >= a + n =>
           disk[s] \in {Lost, IF s <= HeaderLength THEN 1 ELSE 0}
  PROVE  Cardinality(Mismatch) \in Nat /\ Cardinality(Mismatch) <= n
<1>1. Mismatch \in SUBSET Int BY DEF Mismatch, Sectors
<1>2. \A s \in Mismatch : a <= s /\ s < a + n BY MismatchIs, SizesAssumption DEF Sectors
<1> QED BY <1>1, <1>2, IntervalSize

\* When no block is on its way, what is at stake lies between the length in the header
\* and the end of the area.
LEMMA StakeBetweenLengths ==
  ASSUME IInv, setup.pc \notin {"write", "advance"}, NEW n \in Nat,
         AreaLength - HeaderLength <= n, HeaderLength - AreaLength <= n
  PROVE  Cardinality(Mismatch) \in Nat /\ Cardinality(Mismatch) <= n
<1>1. Types BY DEF IInv
<1>2. \A s \in Sectors : disk[s] \in {Lost, IF s <= AreaLength THEN 1 ELSE 0}
  BY <1>1, AreaLengthIs DEF IInv, DiskMatchesArea
<1>3. CASE HeaderLength <= AreaLength
  <2>1. PICK a \in Int : a = HeaderLength + 1 BY <1>1, Ranges
  <2>2. \A s \in Sectors : s < a \/ s >= a + n =>
          disk[s] \in {Lost, IF s <= HeaderLength THEN 1 ELSE 0}
    BY <1>1, <1>2, <1>3, <2>1, Ranges DEF Sectors
  <2> QED BY <1>1, <2>2, StakeIsSmall
<1>4. CASE AreaLength < HeaderLength
  <2>1. PICK a \in Int : a = AreaLength + 1 BY <1>1, Ranges
  <2>2. \A s \in Sectors : s < a \/ s >= a + n =>
          disk[s] \in {Lost, IF s <= HeaderLength THEN 1 ELSE 0}
    BY <1>1, <1>2, <1>4, <2>1, Ranges DEF Sectors
  <2> QED BY <1>1, <2>2, StakeIsSmall
<1> QED BY <1>1, <1>3, <1>4, Ranges

\* The block that is converted lies next to what was converted since the header was saved.
LEMMA StakeWithBlock ==
  ASSUME IInv, setup.pc \in {"write", "advance"}, ~lost.save
  PROVE  /\ Cardinality(Mismatch) \in Nat
         /\ Cardinality(Mismatch) <= setup.written + setup.size
<1>1. Types /\ AtBlock BY DEF IInv, AreaInv
<1>2. PICK n \in Nat : n = setup.written + setup.size BY <1>1, Ranges
<1>3. IF Encrypting THEN AreaLength = HeaderLength + setup.written
      ELSE AreaLength = HeaderLength - setup.written
  BY DEF IInv, WrittenInv, ThreadInv, Ended
<1>4. \A s \in Sectors : s \notin Block => disk[s] \in {Lost, IF s <= AreaLength THEN 1 ELSE 0}
  BY <1>1, AreaLengthIs DEF IInv, BlockInv, Layer
<1>5. CASE Encrypting
  <2>1. PICK a \in Int : a = HeaderLength + 1 BY <1>1, Ranges
  <2>2. AreaLength = setup.offset - 1 BY <1>1, <1>5 DEF AtBlock
  <2>3. \A s \in Sectors : s < a \/ s >= a + n =>
          s \notin Block /\ (s <= AreaLength <=> s <= HeaderLength)
    BY <1>1, <1>2, <1>3, <1>5, <2>1, <2>2, Ranges DEF Sectors, Block
  <2>4. \A s \in Sectors : s < a \/ s >= a + n =>
          disk[s] \in {Lost, IF s <= HeaderLength THEN 1 ELSE 0}
    BY <1>4, <2>3
  <2> QED BY <1>1, <1>2, <2>4, StakeIsSmall
<1>6. CASE ~Encrypting
  <2>1. PICK a \in Int : a = setup.offset BY <1>1, Ranges
  <2>2. AreaLength = setup.offset + setup.size - 1
    BY <1>1, <1>6, Ranges DEF AtBlock, AreaLength
  <2>3. \A s \in Sectors : s < a \/ s >= a + n =>
          s \notin Block /\ (s <= AreaLength <=> s <= HeaderLength)
    BY <1>1, <1>2, <1>3, <1>6, <2>1, <2>2, Ranges DEF Sectors, Block
  <2>4. \A s \in Sectors : s < a \/ s >= a + n =>
          disk[s] \in {Lost, IF s <= HeaderLength THEN 1 ELSE 0}
    BY <1>4, <2>3
  <2> QED BY <1>1, <1>2, <2>4, StakeIsSmall
<1> QED BY <1>5, <1>6

LEMMA IInvImpliesLittle == IInv => PowerFailureCostsLittle
<1> SUFFICES ASSUME IInv, ~lost.save
             PROVE  Cardinality(Mismatch) < Bound(1 + lost.failedSaves)
  BY DEF PowerFailureCostsLittle, Bound
<1>1. Types BY DEF IInv
<1>2. Bound(1 + lost.failedSaves) \in Nat /\ Bound(1 + lost.failedSaves) > 0
  BY <1>1, Ranges, Bounds
<1>3. CASE Far(1 + lost.failedSaves)
  <2>1. PICK a \in Int : a = 1 OBVIOUS
  <2>2. PICK n \in Nat : n = Length BY SizesAssumption
  <2>3. \A s \in Sectors : s < a \/ s >= a + n =>
          disk[s] \in {Lost, IF s <= HeaderLength THEN 1 ELSE 0}
    BY <2>1, <2>2 DEF Sectors
  <2>4. Cardinality(Mismatch) \in Nat /\ Cardinality(Mismatch) <= Length
    BY <1>1, <2>2, <2>3, StakeIsSmall
  <2> QED BY <1>1, <1>2, <1>3, <2>4, Ranges, Bounds
<1>4. CASE Ended
  BY <1>2, <1>4, EndedMatches, FS_EmptySet
<1>5. CASE setup.pc \in {"write", "advance"} /\ ~Far(1 + lost.failedSaves)
  <2>1. setup.written < Bound(lost.failedSaves) BY <1>5 DEF IInv, WrittenInv, Runs
  <2> QED BY <1>1, <1>2, <1>5, <2>1, StakeWithBlock, Ranges, Bounds
<1>6. CASE /\ ~Ended /\ setup.pc \notin {"write", "advance"} /\ ~setup.final
           /\ setup.required
           /\ ~Far(1 + lost.failedSaves)
  <2>1. setup.written < Bound(1 + lost.failedSaves)
    BY <1>1, <1>6, Ranges, Bounds
    DEF IInv, WrittenInv, SavedInv, ThreadInv, Runs, Types, SetupType, SetupPcs, Ended
  <2>2. IF Encrypting THEN AreaLength = HeaderLength + setup.written
        ELSE AreaLength = HeaderLength - setup.written
    BY <1>6 DEF IInv, WrittenInv
  <2>3. Cardinality(Mismatch) \in Nat /\ Cardinality(Mismatch) <= setup.written
    BY <1>1, <1>6, <2>2, StakeBetweenLengths, Ranges
  <2> QED BY <1>1, <1>2, <2>1, <2>3, Ranges
<1>7. CASE ~setup.required /\ setup.pc \notin {"write", "advance"}
  <2>1. AreaLength = HeaderLength BY <1>7 DEF IInv, SavedInv
  <2>2. Cardinality(Mismatch) \in Nat /\ Cardinality(Mismatch) <= 0
    BY <1>1, <1>7, <2>1, StakeBetweenLengths, Ranges
  <2> QED BY <1>2, <2>2
<1>8. CASE setup.final /\ setup.required /\ ~Ended
  <2>1. setup.pc \in {"readHeader", "writeHeader", "holdLast"}
    BY <1>8 DEF IInv, ThreadInv, SavedInv, Ended
  <2>2. PICK n \in Nat : /\ AreaLength - HeaderLength <= n /\ HeaderLength - AreaLength <= n
                         /\ n < Bound(1 + lost.failedSaves)
    <3>1. /\ AreaLength - HeaderLength < Bound(1 + lost.failedSaves)
          /\ HeaderLength - AreaLength < Bound(1 + lost.failedSaves)
      BY <1>8, <2>1 DEF IInv, WrittenInv
    <3>2. Bound(1 + lost.failedSaves) - 1 \in Nat BY <1>2
    <3> QED BY <1>1, <1>2, <3>1, <3>2, Ranges
  <2>3. Cardinality(Mismatch) \in Nat /\ Cardinality(Mismatch) <= n
    BY <2>1, <2>2, StakeBetweenLengths
  <2> QED BY <1>2, <2>2, <2>3
<1> QED BY <1>3, <1>4, <1>5, <1>6, <1>7, <1>8

\* A power failure while the system drive is converted costs less than a threshold and a
\* block of sectors, and a block more for each save of the header that failed.
THEOREM FailureCostsLittle == Spec => []PowerFailureCostsLittle
BY Invariant, IInvImpliesLittle, PTL

-----------------------------------------------------------------------------
(* The derivation of header keys (HeaderKeyDerivation), for any number of  *)
(* PRFs and of threads.  The inductive invariant KeyInv says that every    *)
(* PRF that had its turn was tested or has a work item (TriedOK): which    *)
(* that is follows from the place of the reader in its list, which it      *)
(* winds back while the pool is full (Reached).  It takes the counters, so *)
(* that a loop that ends has no work item left (QueuedOK), and that no two *)
(* threads or slots of the ring share a work item (RingOK, WorkersOK).     *)

ReaderPcs ==
  {"loop", "count", "clear", "enqueue", "scan", "wait", "test", "err", "ret", "returned"}
WorkerPcs == {"idle", "derive", "ready", "signal", "decrement", "signalNone", "free"}
Item == [free : BOOLEAN, ready : BOOLEAN, failed : BOOLEAN, prf : HeaderKeys!Prfs]
WorkerState == [pc : WorkerPcs, item : HeaderKeys!Prfs]

KeyTypes ==
  /\ hkReader \in [pc : ReaderPcs, enq : 0 .. LastPrf + 1, queued : Nat, item : HeaderKeys!Prfs]
  /\ hkItems \in [HeaderKeys!Prfs -> Item] /\ hkRing \in Seq(HeaderKeys!Prfs)
  /\ hkWorker \in [Workers -> WorkerState]
  /\ hkTested \subseteq HeaderKeys!Prfs \ Skipped

Inserting == {"count", "clear", "enqueue"}
Scanning == {"scan", "wait", "test"}
Going == {"loop"} \cup Inserting \cup Scanning
Busy == {i \in HeaderKeys!Prfs : ~hkItems[i].free}

(* Where the reader is in its list.                                        *)
PlaceOK ==
  /\ hkReader.pc = "loop" => hkReader.enq \in 1 .. LastPrf + 1
  /\ hkReader.pc \in Inserting =>
       /\ hkReader.enq \in HeaderKeys!Prfs \ Skipped /\ hkReader.queued < HeaderKeys!ThreadCount
       /\ ~hkItems[hkReader.item].free /\ ~hkItems[hkReader.item].ready
       /\ hkItems[hkReader.item].prf = hkReader.enq
  /\ hkReader.pc \in Scanning => hkReader.enq \in 0 .. LastPrf
  /\ hkReader.pc = "test" => hkItems[hkReader.item].prf \notin Skipped

(* The last PRF that has had its turn, but for the skipped ones.           *)
Reached ==
  IF hkReader.pc = "loop" THEN hkReader.enq - 1
  ELSE IF hkReader.pc \in Going THEN hkReader.enq ELSE LastPrf

(* Work items in use are those of different PRFs that had their turn.      *)
ItemsOK ==
  /\ \A i \in HeaderKeys!Prfs : ~hkItems[i].free =>
       hkItems[i].prf \notin Skipped /\ hkItems[i].prf <= Reached
  /\ \A i, j \in HeaderKeys!Prfs : ~hkItems[i].free /\ ~hkItems[j].free /\ hkItems[i].prf = hkItems[j].prf => i = j

(* A PRF that had its turn is tested, or has a work item, or is being      *)
(* tested.                                                                 *)
Tried(p) ==
  \/ p \in hkTested
  \/ \E i \in HeaderKeys!Prfs : ~hkItems[i].free /\ hkItems[i].prf = p
  \/ hkReader.pc = "test" /\ hkItems[hkReader.item].prf = p
TriedOK ==
  hkReader.pc \in Going => \A p \in HeaderKeys!Prfs \ Skipped : p <= Reached => Tried(p)

QueuedOK ==
  /\ hkReader.queued = Cardinality(Busy) - (IF hkReader.pc \in Inserting THEN 1 ELSE 0)
  /\ hkReader.queued <= HeaderKeys!ThreadCount

(* Derivations that are counted.                                           *)
Counted == {w \in Workers : hkWorker[w].pc \in {"derive", "ready", "signal", "decrement"}}
CountOK ==
  /\ hkCount = Len(hkRing) + Cardinality(Counted) + (IF hkReader.pc \in {"clear", "enqueue"} THEN 1 ELSE 0)
  /\ hkCount <= IF hkReader.pc = "count" THEN hkReader.enq - 1 ELSE Reached

(* Items in the ring and at the workers are in use, and are nobody else's. *)
Owned(i) == ~hkItems[i].free /\ ~hkItems[i].ready /\ (hkReader.pc \in Inserting => i # hkReader.item)
RingOK ==
  /\ \A j \in 1 .. Len(hkRing) : Owned(hkRing[j])
  /\ \A j, k \in 1 .. Len(hkRing) : hkRing[j] = hkRing[k] => j = k
Deriving(w) == hkWorker[w].pc \in {"derive", "ready"}
WorkersOK ==
  /\ \A w \in Workers : Deriving(w) =>
       Owned(hkWorker[w].item) /\ \A j \in 1 .. Len(hkRing) : hkRing[j] # hkWorker[w].item
  /\ \A v, w \in Workers : Deriving(v) /\ Deriving(w) /\ hkWorker[v].item = hkWorker[w].item =>
       v = w

KeyInv ==
  /\ KeyTypes /\ PlaceOK /\ ItemsOK /\ TriedOK /\ QueuedOK /\ CountOK /\ RingOK /\ WorkersOK
  /\ HeaderKeys!NoPrfMissed

-----------------------------------------------------------------------------

LEMMA LeastOf ==
  ASSUME NEW S, S \subseteq Nat, S # {}
  PROVE  HeaderKeys!First(S) \in S
<1>1. PICK m \in S : \A k \in S : <<k, m>> \notin OpToRel(<, Nat)
  BY WFMin, NatLessThanWellFounded, Zenon
<1>2. \A k \in S : ~(k < m)
  <2> SUFFICES ASSUME NEW k \in S, k < m PROVE FALSE
    OBVIOUS
  <2>1. k \in Nat /\ m \in Nat
    OBVIOUS
  <2> QED BY <1>1, <2>1, Zenon DEF OpToRel
<1>3. \A k \in S : m <= k
  BY <1>2
<1> QED BY <1>3 DEF HeaderKeys!First

(* The definitions that HeaderKeyDerivation has from FiniteSets are those  *)
(* of this module.                                                         *)
LEMMA SameSizes ==
  /\ \A S : HeaderKeys!IsFiniteSet(S) <=> IsFiniteSet(S)
  /\ \A S : HeaderKeys!Cardinality(S) = Cardinality(S)
<1>1. \A S : HeaderKeys!IsFiniteSet(S) <=> IsFiniteSet(S)
  BY DEF HeaderKeys!IsFiniteSet, IsFiniteSet
<1>2. \A S : HeaderKeys!Cardinality(S) = Cardinality(S)
  BY DEF HeaderKeys!Cardinality, Cardinality
<1> QED BY <1>1, <1>2

LEMMA ThreadCountIs ==
  ASSUME HeaderKeys!ConstantsOK
  PROVE  /\ IsFiniteSet(Workers) /\ HeaderKeys!ThreadCount = Cardinality(Workers)
         /\ HeaderKeys!ThreadCount \in Nat
<1>1. IsFiniteSet(Workers) /\ HeaderKeys!ThreadCount = Cardinality(Workers)
  BY SameSizes DEF HeaderKeys!ConstantsOK, HeaderKeys!ThreadCount
<1> QED BY <1>1, FS_CardinalityType

LEMMA BusyIsFinite ==
  ASSUME HeaderKeys!ConstantsOK
  PROVE  IsFiniteSet(Busy) /\ IsFiniteSet(Counted)
<1>1. IsFiniteSet(HeaderKeys!Prfs) /\ IsFiniteSet(Workers)
  BY FS_Interval, ThreadCountIs DEF HeaderKeys!ConstantsOK, HeaderKeys!Prfs
<1> QED BY <1>1, FS_Subset DEF Busy, Counted

LEMMA ReachedIs ==
  ASSUME HeaderKeys!ConstantsOK, KeyTypes, PlaceOK
  PROVE  Reached \in Int /\ Reached <= LastPrf
  BY DEF HeaderKeys!ConstantsOK, KeyTypes, PlaceOK, Reached, Going, Inserting, Scanning,
     HeaderKeys!Prfs

LEMMA NoLength == Len(<<>>) = 0
  OBVIOUS

LEMMA ReaderUpdated ==
  ASSUME KeyTypes
  PROVE  \A p \in ReaderPcs :
           /\ [hkReader EXCEPT !.pc = p] \in
                [pc : ReaderPcs, enq : 0 .. LastPrf + 1, queued : Nat, item : HeaderKeys!Prfs]
           /\ \A e \in 0 .. LastPrf + 1 : [hkReader EXCEPT !.pc = p, !.enq = e] \in
                [pc : ReaderPcs, enq : 0 .. LastPrf + 1, queued : Nat, item : HeaderKeys!Prfs]
  BY DEF KeyTypes

LEMMA PlaceIs ==
  ASSUME PlaceOK
  PROVE  /\ hkReader.pc = "loop" => hkReader.enq \in 1 .. LastPrf + 1
         /\ hkReader.pc \in Scanning => hkReader.enq \in 0 .. LastPrf
  BY DEF PlaceOK

LEMMA InitKeys == HeaderKeys!ConstantsOK /\ HeaderKeys!Init => KeyInv
<1> SUFFICES ASSUME HeaderKeys!ConstantsOK, HeaderKeys!Init PROVE KeyInv
  OBVIOUS
<1> USE DEF HeaderKeys!Init, HeaderKeys!ConstantsOK
<1>1. 1 \in HeaderKeys!Prfs /\ HeaderKeys!FreeItem \in Item
  BY DEF HeaderKeys!Prfs, HeaderKeys!FreeItem, Item
<1>2. KeyTypes
  BY <1>1 DEF KeyTypes, ReaderPcs, WorkerPcs, WorkerState
<1>3. PlaceOK /\ ItemsOK /\ RingOK /\ WorkersOK /\ HeaderKeys!NoPrfMissed
  BY <1>1
    DEF PlaceOK, ItemsOK, RingOK, WorkersOK, HeaderKeys!NoPrfMissed, HeaderKeys!FreeItem,
     Inserting, Scanning, Deriving
<1>4. TriedOK
  BY DEF TriedOK, Reached, HeaderKeys!Prfs
<1>5. Cardinality(Busy) = 0 /\ Cardinality(Counted) = 0
  <2>1. Busy = {} /\ Counted = {}
    BY DEF Busy, Counted, HeaderKeys!FreeItem
  <2> QED BY <2>1, FS_EmptySet
<1>6. QueuedOK /\ CountOK
  <2>1. Len(hkRing) = 0
    <3>1. hkRing = <<>>
      OBVIOUS
    <3> QED BY <3>1, NoLength
  <2>2. hkReader.pc = "loop" /\ hkReader.enq = 1 /\ hkReader.queued = 0 /\ hkCount = 0
    OBVIOUS
  <2> HIDE DEF HeaderKeys!Init, HeaderKeys!ConstantsOK
  <2>3. QueuedOK
    <3>1. hkReader.pc \notin Inserting
      BY <2>2 DEF Inserting
    <3>2. HeaderKeys!ThreadCount \in Nat
      BY ThreadCountIs
    <3>3. hkReader.queued = 0 /\ 0 <= HeaderKeys!ThreadCount
      BY <2>2, <3>2
    <3> DEFINE busy == Cardinality(Busy)
               inserted == IF hkReader.pc \in Inserting THEN 1 ELSE 0
    <3>4. busy - inserted = 0
      <4>1. busy = 0
        BY <1>5
      <4>2. inserted = 0
        BY <3>1
      <4> HIDE DEF busy, inserted
      <4> QED BY <4>1, <4>2
    <3> QED BY <3>3, <3>4 DEF QueuedOK
  <2>4. Reached = 0
    BY <2>2 DEF Reached
  <2>5. CountOK
    BY <1>5, <2>1, <2>2, <2>4 DEF CountOK
  <2> QED BY <2>3, <2>5
<1> QED BY <1>2, <1>3, <1>4, <1>6 DEF KeyInv

LEMMA GiveUpKeys ==
  ASSUME HeaderKeys!ConstantsOK, KeyInv, NEW st, HeaderKeys!GiveUp(st),
         hkReader.pc \in {"loop", "scan", "test"},
         st = "wrong" => hkTested = HeaderKeys!Prfs \ Skipped
  PROVE  KeyInv'
<1> USE DEF HeaderKeys!GiveUp, Inserting, Scanning, Going
<1>1. KeyTypes /\ PlaceOK /\ Reached \in Int /\ Reached <= LastPrf /\ LastPrf \in Nat
  BY ReachedIs DEF KeyInv, HeaderKeys!ConstantsOK
<1>2. /\ UNCHANGED <<hkItems, hkRing, hkWorker>> /\ LastPrf \in Nat
      /\ Skipped \subseteq HeaderKeys!Prfs
  BY DEF HeaderKeys!ConstantsOK
<1>3. KeyTypes'
  <2>1. hkReader' \in [pc : ReaderPcs, enq : 0 .. LastPrf + 1, queued : Nat, item : HeaderKeys!Prfs]
    <3>1. /\ hkReader.enq \in 0 .. LastPrf + 1 /\ hkReader.queued \in Nat
          /\ hkReader.item \in HeaderKeys!Prfs
          /\ hkReader = [pc |-> hkReader.pc, enq |-> hkReader.enq, queued |-> hkReader.queued,
                       item |-> hkReader.item]
      BY <1>1 DEF KeyTypes
    <3>2. /\ hkReader.pc = "loop" => hkReader.enq \in 1 .. LastPrf + 1
          /\ hkReader.pc \in Scanning => hkReader.enq \in 0 .. LastPrf
      <4> HIDE DEF HeaderKeys!GiveUp, Inserting, Scanning, Going
      <4> QED BY <1>1, PlaceIs
    <3> QED BY <1>1, <1>2, <3>1, <3>2 DEF ReaderPcs, HeaderKeys!Prfs, HeaderKeys!More
  <2>2. hkTested' \subseteq HeaderKeys!Prfs \ Skipped
    BY <1>1 DEF KeyTypes, PlaceOK, Item
  <2> QED BY <1>1, <1>2, <2>1, <2>2 DEF KeyTypes
<1>4. PlaceOK'
  BY <1>1, <1>2
    DEF KeyTypes, PlaceOK, ReaderPcs, HeaderKeys!Prfs, KeyInv, QueuedOK, HeaderKeys!MayEnqueue,
     HeaderKeys!More
<1>5. Reached' \in Int /\ Reached <= Reached'
  BY <1>1, <1>2 DEF KeyTypes, Reached, PlaceOK, HeaderKeys!Prfs, ReaderPcs
<1>6. ItemsOK'
  BY <1>1, <1>2, <1>5 DEF ItemsOK, KeyInv, KeyTypes, Item, HeaderKeys!Prfs
<1>7. TriedOK'
  BY <1>1, <1>2, <1>5
    DEF TriedOK, Tried, KeyInv, KeyTypes, Reached, HeaderKeys!Prfs, PlaceOK, Item, ReaderPcs
<1>8. QueuedOK'
  BY <1>1, <1>2 DEF QueuedOK, KeyInv, Busy, KeyTypes
<1>9. CountOK'
  <2>1. Counted' = Counted /\ Cardinality(Counted) \in Nat /\ Len(hkRing) \in Nat
    BY <1>1, <1>2, BusyIsFinite, FS_CardinalityType DEF Counted, KeyTypes
  <2> QED BY <1>1, <1>2, <1>5, <2>1 DEF CountOK, KeyInv, KeyTypes, Reached, PlaceOK, ReaderPcs
<1>10. RingOK' /\ WorkersOK'
  BY <1>1, <1>2 DEF RingOK, WorkersOK, Owned, Deriving, KeyInv, KeyTypes, PlaceOK
<1>11. HeaderKeys!NoPrfMissed'
  <2>1. hkTested \subseteq hkTested' /\ hkTested' \subseteq HeaderKeys!Prfs \ Skipped
    BY <1>3 DEF KeyTypes
  <2> QED BY <2>1 DEF HeaderKeys!NoPrfMissed, KeyInv
<1> QED BY <1>3, <1>4, <1>6, <1>7, <1>8, <1>9, <1>10, <1>11 DEF KeyInv

LEMMA SkipPrfKeys ==
  ASSUME HeaderKeys!ConstantsOK, KeyInv, HeaderKeys!SkipPrf
  PROVE  KeyInv'
<1> USE DEF HeaderKeys!SkipPrf, Inserting, Scanning, Going
<1>1. KeyTypes /\ PlaceOK /\ Reached \in Int /\ Reached <= LastPrf /\ LastPrf \in Nat
  BY ReachedIs DEF KeyInv, HeaderKeys!ConstantsOK
<1>2. /\ UNCHANGED <<hkItems, hkRing, hkWorker>> /\ LastPrf \in Nat
      /\ Skipped \subseteq HeaderKeys!Prfs
  BY DEF HeaderKeys!ConstantsOK
<1>3. KeyTypes'
  <2>1. hkReader' \in [pc : ReaderPcs, enq : 0 .. LastPrf + 1, queued : Nat, item : HeaderKeys!Prfs]
    <3>1. /\ hkReader.enq \in 0 .. LastPrf + 1 /\ hkReader.queued \in Nat
          /\ hkReader.item \in HeaderKeys!Prfs
          /\ hkReader = [pc |-> hkReader.pc, enq |-> hkReader.enq, queued |-> hkReader.queued,
                       item |-> hkReader.item]
      BY <1>1 DEF KeyTypes
    <3>2. /\ hkReader.pc = "loop" => hkReader.enq \in 1 .. LastPrf + 1
          /\ hkReader.pc \in Scanning => hkReader.enq \in 0 .. LastPrf
      <4> HIDE DEF HeaderKeys!SkipPrf, Inserting, Scanning, Going
      <4> QED BY <1>1, PlaceIs
    <3> QED BY <1>1, <1>2, <3>1, <3>2 DEF ReaderPcs, HeaderKeys!Prfs, HeaderKeys!More
  <2>2. hkTested' \subseteq HeaderKeys!Prfs \ Skipped
    BY <1>1 DEF KeyTypes, PlaceOK, Item
  <2> QED BY <1>1, <1>2, <2>1, <2>2 DEF KeyTypes
<1>4. PlaceOK'
  BY <1>1, <1>2
    DEF KeyTypes, PlaceOK, ReaderPcs, HeaderKeys!Prfs, KeyInv, QueuedOK, HeaderKeys!MayEnqueue,
     HeaderKeys!More
<1>5. Reached' \in Int /\ Reached <= Reached'
  BY <1>1, <1>2 DEF KeyTypes, Reached, PlaceOK, HeaderKeys!Prfs, ReaderPcs
<1>6. ItemsOK'
  BY <1>1, <1>2, <1>5 DEF ItemsOK, KeyInv, KeyTypes, Item, HeaderKeys!Prfs
<1>7. TriedOK'
  BY <1>1, <1>2, <1>5
    DEF TriedOK, Tried, KeyInv, KeyTypes, Reached, HeaderKeys!Prfs, PlaceOK, Item, ReaderPcs
<1>8. QueuedOK'
  BY <1>1, <1>2 DEF QueuedOK, KeyInv, Busy, KeyTypes
<1>9. CountOK'
  <2>1. Counted' = Counted /\ Cardinality(Counted) \in Nat /\ Len(hkRing) \in Nat
    BY <1>1, <1>2, BusyIsFinite, FS_CardinalityType DEF Counted, KeyTypes
  <2> QED BY <1>1, <1>2, <1>5, <2>1 DEF CountOK, KeyInv, KeyTypes, Reached, PlaceOK, ReaderPcs
<1>10. RingOK' /\ WorkersOK'
  BY <1>1, <1>2 DEF RingOK, WorkersOK, Owned, Deriving, KeyInv, KeyTypes, PlaceOK
<1>11. HeaderKeys!NoPrfMissed'
  <2>1. hkTested \subseteq hkTested' /\ hkTested' \subseteq HeaderKeys!Prfs \ Skipped
    BY <1>3 DEF KeyTypes
  <2> QED BY <2>1 DEF HeaderKeys!NoPrfMissed, KeyInv
<1> QED BY <1>3, <1>4, <1>6, <1>7, <1>8, <1>9, <1>10, <1>11 DEF KeyInv

LEMMA EnqueueLaterKeys ==
  ASSUME HeaderKeys!ConstantsOK, KeyInv, HeaderKeys!EnqueueLater
  PROVE  KeyInv'
<1> USE DEF HeaderKeys!EnqueueLater, Inserting, Scanning, Going
<1>1. KeyTypes /\ PlaceOK /\ Reached \in Int /\ Reached <= LastPrf /\ LastPrf \in Nat
  BY ReachedIs DEF KeyInv, HeaderKeys!ConstantsOK
<1>2. /\ UNCHANGED <<hkItems, hkRing, hkWorker>> /\ LastPrf \in Nat
      /\ Skipped \subseteq HeaderKeys!Prfs
  BY DEF HeaderKeys!ConstantsOK
<1>3. KeyTypes'
  <2>1. hkReader' \in [pc : ReaderPcs, enq : 0 .. LastPrf + 1, queued : Nat, item : HeaderKeys!Prfs]
    <3>1. /\ hkReader.enq \in 0 .. LastPrf + 1 /\ hkReader.queued \in Nat
          /\ hkReader.item \in HeaderKeys!Prfs
          /\ hkReader = [pc |-> hkReader.pc, enq |-> hkReader.enq, queued |-> hkReader.queued,
                       item |-> hkReader.item]
      BY <1>1 DEF KeyTypes
    <3>2. /\ hkReader.pc = "loop" => hkReader.enq \in 1 .. LastPrf + 1
          /\ hkReader.pc \in Scanning => hkReader.enq \in 0 .. LastPrf
      <4> HIDE DEF HeaderKeys!EnqueueLater, Inserting, Scanning, Going
      <4> QED BY <1>1, PlaceIs
    <3>3. hkReader.pc = "loop" /\ hkReader' = [hkReader EXCEPT !.pc = "scan", !.enq = @ - 1]
      OBVIOUS
    <3> HIDE DEF HeaderKeys!EnqueueLater
    <3>4. hkReader.enq - 1 \in 0 .. LastPrf + 1 /\ hkReader.enq \in Int
      BY <1>1, <3>1, <3>2, <3>3
    <3>5. "wait" \in ReaderPcs /\ "loop" \in ReaderPcs /\ "scan" \in ReaderPcs
      BY DEF ReaderPcs
    <3> QED BY <1>1, <3>3, <3>4, <3>5, ReaderUpdated
  <2>2. hkTested' \subseteq HeaderKeys!Prfs \ Skipped
    BY <1>1 DEF KeyTypes, PlaceOK, Item
  <2> QED BY <1>1, <1>2, <2>1, <2>2 DEF KeyTypes
<1>4. PlaceOK'
  BY <1>1, <1>2
    DEF KeyTypes, PlaceOK, ReaderPcs, HeaderKeys!Prfs, KeyInv, QueuedOK, HeaderKeys!MayEnqueue,
     HeaderKeys!More
<1>5. Reached' \in Int /\ Reached <= Reached'
  BY <1>1, <1>2 DEF KeyTypes, Reached, PlaceOK, HeaderKeys!Prfs, ReaderPcs
<1>6. ItemsOK'
  BY <1>1, <1>2, <1>5 DEF ItemsOK, KeyInv, KeyTypes, Item, HeaderKeys!Prfs
<1>7. TriedOK'
  BY <1>1, <1>2, <1>5
    DEF TriedOK, Tried, KeyInv, KeyTypes, Reached, HeaderKeys!Prfs, PlaceOK, Item, ReaderPcs
<1>8. QueuedOK'
  BY <1>1, <1>2 DEF QueuedOK, KeyInv, Busy, KeyTypes
<1>9. CountOK'
  <2>1. Counted' = Counted /\ Cardinality(Counted) \in Nat /\ Len(hkRing) \in Nat
    BY <1>1, <1>2, BusyIsFinite, FS_CardinalityType DEF Counted, KeyTypes
  <2> QED BY <1>1, <1>2, <1>5, <2>1 DEF CountOK, KeyInv, KeyTypes, Reached, PlaceOK, ReaderPcs
<1>10. RingOK' /\ WorkersOK'
  BY <1>1, <1>2 DEF RingOK, WorkersOK, Owned, Deriving, KeyInv, KeyTypes, PlaceOK
<1>11. HeaderKeys!NoPrfMissed'
  <2>1. hkTested \subseteq hkTested' /\ hkTested' \subseteq HeaderKeys!Prfs \ Skipped
    BY <1>3 DEF KeyTypes
  <2> QED BY <2>1 DEF HeaderKeys!NoPrfMissed, KeyInv
<1> QED BY <1>3, <1>4, <1>6, <1>7, <1>8, <1>9, <1>10, <1>11 DEF KeyInv

LEMMA NothingReadyKeys ==
  ASSUME HeaderKeys!ConstantsOK, KeyInv, HeaderKeys!NothingReady
  PROVE  KeyInv'
<1> USE DEF HeaderKeys!NothingReady, Inserting, Scanning, Going
<1>1. KeyTypes /\ PlaceOK /\ Reached \in Int /\ Reached <= LastPrf /\ LastPrf \in Nat
  BY ReachedIs DEF KeyInv, HeaderKeys!ConstantsOK
<1>2. /\ UNCHANGED <<hkItems, hkRing, hkWorker>> /\ LastPrf \in Nat
      /\ Skipped \subseteq HeaderKeys!Prfs
  BY DEF HeaderKeys!ConstantsOK
<1>3. KeyTypes'
  <2>1. hkReader' \in [pc : ReaderPcs, enq : 0 .. LastPrf + 1, queued : Nat, item : HeaderKeys!Prfs]
    <3>1. /\ hkReader.enq \in 0 .. LastPrf + 1 /\ hkReader.queued \in Nat
          /\ hkReader.item \in HeaderKeys!Prfs
          /\ hkReader = [pc |-> hkReader.pc, enq |-> hkReader.enq, queued |-> hkReader.queued,
                       item |-> hkReader.item]
      BY <1>1 DEF KeyTypes
    <3>2. /\ hkReader.pc = "loop" => hkReader.enq \in 1 .. LastPrf + 1
          /\ hkReader.pc \in Scanning => hkReader.enq \in 0 .. LastPrf
      <4> HIDE DEF HeaderKeys!NothingReady, Inserting, Scanning, Going
      <4> QED BY <1>1, PlaceIs
    <3>3. \/ hkReader.pc = "scan" /\ hkReader' = [hkReader EXCEPT !.pc = "wait"]
          \/ hkReader.pc = "scan" /\ hkReader' = [hkReader EXCEPT !.pc = "loop", !.enq = @ + 1]
      OBVIOUS
    <3> HIDE DEF HeaderKeys!NothingReady
    <3>4. hkReader.enq + 1 \in 0 .. LastPrf + 1 /\ hkReader.enq \in Int
      BY <1>1, <3>1, <3>2, <3>3
    <3>5. "wait" \in ReaderPcs /\ "loop" \in ReaderPcs /\ "scan" \in ReaderPcs
      BY DEF ReaderPcs
    <3> QED BY <1>1, <3>3, <3>4, <3>5, ReaderUpdated
  <2>2. hkTested' \subseteq HeaderKeys!Prfs \ Skipped
    BY <1>1 DEF KeyTypes, PlaceOK, Item
  <2> QED BY <1>1, <1>2, <2>1, <2>2 DEF KeyTypes
<1>4. PlaceOK'
  BY <1>1, <1>2
    DEF KeyTypes, PlaceOK, ReaderPcs, HeaderKeys!Prfs, KeyInv, QueuedOK, HeaderKeys!MayEnqueue,
     HeaderKeys!More
<1>5. Reached' \in Int /\ Reached <= Reached'
  BY <1>1, <1>2 DEF KeyTypes, Reached, PlaceOK, HeaderKeys!Prfs, ReaderPcs
<1>6. ItemsOK'
  BY <1>1, <1>2, <1>5 DEF ItemsOK, KeyInv, KeyTypes, Item, HeaderKeys!Prfs
<1>7. TriedOK'
  BY <1>1, <1>2, <1>5
    DEF TriedOK, Tried, KeyInv, KeyTypes, Reached, HeaderKeys!Prfs, PlaceOK, Item, ReaderPcs
<1>8. QueuedOK'
  BY <1>1, <1>2 DEF QueuedOK, KeyInv, Busy, KeyTypes
<1>9. CountOK'
  <2>1. Counted' = Counted /\ Cardinality(Counted) \in Nat /\ Len(hkRing) \in Nat
    BY <1>1, <1>2, BusyIsFinite, FS_CardinalityType DEF Counted, KeyTypes
  <2> QED BY <1>1, <1>2, <1>5, <2>1 DEF CountOK, KeyInv, KeyTypes, Reached, PlaceOK, ReaderPcs
<1>10. RingOK' /\ WorkersOK'
  BY <1>1, <1>2 DEF RingOK, WorkersOK, Owned, Deriving, KeyInv, KeyTypes, PlaceOK
<1>11. HeaderKeys!NoPrfMissed'
  <2>1. hkTested \subseteq hkTested' /\ hkTested' \subseteq HeaderKeys!Prfs \ Skipped
    BY <1>3 DEF KeyTypes
  <2> QED BY <2>1 DEF HeaderKeys!NoPrfMissed, KeyInv
<1> QED BY <1>3, <1>4, <1>6, <1>7, <1>8, <1>9, <1>10, <1>11 DEF KeyInv

LEMMA WaitForCompletionKeys ==
  ASSUME HeaderKeys!ConstantsOK, KeyInv, HeaderKeys!WaitForCompletion
  PROVE  KeyInv'
<1> USE DEF HeaderKeys!WaitForCompletion, HeaderKeys!MoveReader, Inserting, Scanning, Going
<1>1. KeyTypes /\ PlaceOK /\ Reached \in Int /\ Reached <= LastPrf /\ LastPrf \in Nat
  BY ReachedIs DEF KeyInv, HeaderKeys!ConstantsOK
<1>2. /\ UNCHANGED <<hkItems, hkRing, hkWorker>> /\ LastPrf \in Nat
      /\ Skipped \subseteq HeaderKeys!Prfs
  BY DEF HeaderKeys!ConstantsOK
<1>3. KeyTypes'
  <2>1. hkReader' \in [pc : ReaderPcs, enq : 0 .. LastPrf + 1, queued : Nat, item : HeaderKeys!Prfs]
    <3>1. /\ hkReader.enq \in 0 .. LastPrf + 1 /\ hkReader.queued \in Nat
          /\ hkReader.item \in HeaderKeys!Prfs
          /\ hkReader = [pc |-> hkReader.pc, enq |-> hkReader.enq, queued |-> hkReader.queued,
                       item |-> hkReader.item]
      BY <1>1 DEF KeyTypes
    <3>2. /\ hkReader.pc = "loop" => hkReader.enq \in 1 .. LastPrf + 1
          /\ hkReader.pc \in Scanning => hkReader.enq \in 0 .. LastPrf
      <4> HIDE DEF HeaderKeys!WaitForCompletion, HeaderKeys!MoveReader, Inserting, Scanning, Going
      <4> QED BY <1>1, PlaceIs
    <3> QED BY <1>1, <1>2, <3>1, <3>2 DEF ReaderPcs, HeaderKeys!Prfs, HeaderKeys!More
  <2>2. hkTested' \subseteq HeaderKeys!Prfs \ Skipped
    BY <1>1 DEF KeyTypes, PlaceOK, Item
  <2> QED BY <1>1, <1>2, <2>1, <2>2 DEF KeyTypes
<1>4. PlaceOK'
  BY <1>1, <1>2
    DEF KeyTypes, PlaceOK, ReaderPcs, HeaderKeys!Prfs, KeyInv, QueuedOK, HeaderKeys!MayEnqueue,
     HeaderKeys!More
<1>5. Reached' \in Int /\ Reached <= Reached'
  BY <1>1, <1>2 DEF KeyTypes, Reached, PlaceOK, HeaderKeys!Prfs, ReaderPcs
<1>6. ItemsOK'
  BY <1>1, <1>2, <1>5 DEF ItemsOK, KeyInv, KeyTypes, Item, HeaderKeys!Prfs
<1>7. TriedOK'
  BY <1>1, <1>2, <1>5
    DEF TriedOK, Tried, KeyInv, KeyTypes, Reached, HeaderKeys!Prfs, PlaceOK, Item, ReaderPcs
<1>8. QueuedOK'
  BY <1>1, <1>2 DEF QueuedOK, KeyInv, Busy, KeyTypes
<1>9. CountOK'
  <2>1. Counted' = Counted /\ Cardinality(Counted) \in Nat /\ Len(hkRing) \in Nat
    BY <1>1, <1>2, BusyIsFinite, FS_CardinalityType DEF Counted, KeyTypes
  <2> QED BY <1>1, <1>2, <1>5, <2>1 DEF CountOK, KeyInv, KeyTypes, Reached, PlaceOK, ReaderPcs
<1>10. RingOK' /\ WorkersOK'
  BY <1>1, <1>2 DEF RingOK, WorkersOK, Owned, Deriving, KeyInv, KeyTypes, PlaceOK
<1>11. HeaderKeys!NoPrfMissed'
  <2>1. hkTested \subseteq hkTested' /\ hkTested' \subseteq HeaderKeys!Prfs \ Skipped
    BY <1>3 DEF KeyTypes
  <2> QED BY <2>1 DEF HeaderKeys!NoPrfMissed, KeyInv
<1> QED BY <1>3, <1>4, <1>6, <1>7, <1>8, <1>9, <1>10, <1>11 DEF KeyInv

LEMMA RightKeyKeys ==
  ASSUME HeaderKeys!ConstantsOK, KeyInv, HeaderKeys!RightKey
  PROVE  KeyInv'
<1> USE DEF HeaderKeys!RightKey, HeaderKeys!MoveReader, Inserting, Scanning, Going
<1>1. KeyTypes /\ PlaceOK /\ Reached \in Int /\ Reached <= LastPrf /\ LastPrf \in Nat
  BY ReachedIs DEF KeyInv, HeaderKeys!ConstantsOK
<1>2. /\ UNCHANGED <<hkItems, hkRing, hkWorker>> /\ LastPrf \in Nat
      /\ Skipped \subseteq HeaderKeys!Prfs
  BY DEF HeaderKeys!ConstantsOK
<1>3. KeyTypes'
  <2>1. hkReader' \in [pc : ReaderPcs, enq : 0 .. LastPrf + 1, queued : Nat, item : HeaderKeys!Prfs]
    <3>1. /\ hkReader.enq \in 0 .. LastPrf + 1 /\ hkReader.queued \in Nat
          /\ hkReader.item \in HeaderKeys!Prfs
          /\ hkReader = [pc |-> hkReader.pc, enq |-> hkReader.enq, queued |-> hkReader.queued,
                       item |-> hkReader.item]
      BY <1>1 DEF KeyTypes
    <3>2. /\ hkReader.pc = "loop" => hkReader.enq \in 1 .. LastPrf + 1
          /\ hkReader.pc \in Scanning => hkReader.enq \in 0 .. LastPrf
      <4> HIDE DEF HeaderKeys!RightKey, HeaderKeys!MoveReader, Inserting, Scanning, Going
      <4> QED BY <1>1, PlaceIs
    <3> QED BY <1>1, <1>2, <3>1, <3>2 DEF ReaderPcs, HeaderKeys!Prfs, HeaderKeys!More
  <2>2. hkTested' \subseteq HeaderKeys!Prfs \ Skipped
    BY <1>1 DEF KeyTypes, PlaceOK, Item
  <2> QED BY <1>1, <1>2, <2>1, <2>2 DEF KeyTypes
<1>4. PlaceOK'
  BY <1>1, <1>2
    DEF KeyTypes, PlaceOK, ReaderPcs, HeaderKeys!Prfs, KeyInv, QueuedOK, HeaderKeys!MayEnqueue,
     HeaderKeys!More
<1>5. Reached' \in Int /\ Reached <= Reached'
  BY <1>1, <1>2 DEF KeyTypes, Reached, PlaceOK, HeaderKeys!Prfs, ReaderPcs
<1>6. ItemsOK'
  BY <1>1, <1>2, <1>5 DEF ItemsOK, KeyInv, KeyTypes, Item, HeaderKeys!Prfs
<1>7. TriedOK'
  BY <1>1, <1>2, <1>5
    DEF TriedOK, Tried, KeyInv, KeyTypes, Reached, HeaderKeys!Prfs, PlaceOK, Item, ReaderPcs
<1>8. QueuedOK'
  BY <1>1, <1>2 DEF QueuedOK, KeyInv, Busy, KeyTypes
<1>9. CountOK'
  <2>1. Counted' = Counted /\ Cardinality(Counted) \in Nat /\ Len(hkRing) \in Nat
    BY <1>1, <1>2, BusyIsFinite, FS_CardinalityType DEF Counted, KeyTypes
  <2> QED BY <1>1, <1>2, <1>5, <2>1 DEF CountOK, KeyInv, KeyTypes, Reached, PlaceOK, ReaderPcs
<1>10. RingOK' /\ WorkersOK'
  BY <1>1, <1>2 DEF RingOK, WorkersOK, Owned, Deriving, KeyInv, KeyTypes, PlaceOK
<1>11. HeaderKeys!NoPrfMissed'
  <2>1. hkTested \subseteq hkTested' /\ hkTested' \subseteq HeaderKeys!Prfs \ Skipped
    BY <1>3 DEF KeyTypes
  <2> QED BY <2>1 DEF HeaderKeys!NoPrfMissed, KeyInv
<1> QED BY <1>3, <1>4, <1>6, <1>7, <1>8, <1>9, <1>10, <1>11 DEF KeyInv

LEMMA SignalAbortKeys ==
  ASSUME HeaderKeys!ConstantsOK, KeyInv, HeaderKeys!SignalAbort
  PROVE  KeyInv'
<1> USE DEF HeaderKeys!SignalAbort, HeaderKeys!MoveReader, Inserting, Scanning, Going
<1>1. KeyTypes /\ PlaceOK /\ Reached \in Int /\ Reached <= LastPrf /\ LastPrf \in Nat
  BY ReachedIs DEF KeyInv, HeaderKeys!ConstantsOK
<1>2. /\ UNCHANGED <<hkItems, hkRing, hkWorker>> /\ LastPrf \in Nat
      /\ Skipped \subseteq HeaderKeys!Prfs
  BY DEF HeaderKeys!ConstantsOK
<1>3. KeyTypes'
  <2>1. hkReader' \in [pc : ReaderPcs, enq : 0 .. LastPrf + 1, queued : Nat, item : HeaderKeys!Prfs]
    <3>1. /\ hkReader.enq \in 0 .. LastPrf + 1 /\ hkReader.queued \in Nat
          /\ hkReader.item \in HeaderKeys!Prfs
          /\ hkReader = [pc |-> hkReader.pc, enq |-> hkReader.enq, queued |-> hkReader.queued,
                       item |-> hkReader.item]
      BY <1>1 DEF KeyTypes
    <3>2. /\ hkReader.pc = "loop" => hkReader.enq \in 1 .. LastPrf + 1
          /\ hkReader.pc \in Scanning => hkReader.enq \in 0 .. LastPrf
      <4> HIDE DEF HeaderKeys!SignalAbort, HeaderKeys!MoveReader, Inserting, Scanning, Going
      <4> QED BY <1>1, PlaceIs
    <3> QED BY <1>1, <1>2, <3>1, <3>2 DEF ReaderPcs, HeaderKeys!Prfs, HeaderKeys!More
  <2>2. hkTested' \subseteq HeaderKeys!Prfs \ Skipped
    BY <1>1 DEF KeyTypes, PlaceOK, Item
  <2> QED BY <1>1, <1>2, <2>1, <2>2 DEF KeyTypes
<1>4. PlaceOK'
  BY <1>1, <1>2
    DEF KeyTypes, PlaceOK, ReaderPcs, HeaderKeys!Prfs, KeyInv, QueuedOK, HeaderKeys!MayEnqueue,
     HeaderKeys!More
<1>5. Reached' \in Int /\ Reached <= Reached'
  BY <1>1, <1>2 DEF KeyTypes, Reached, PlaceOK, HeaderKeys!Prfs, ReaderPcs
<1>6. ItemsOK'
  BY <1>1, <1>2, <1>5 DEF ItemsOK, KeyInv, KeyTypes, Item, HeaderKeys!Prfs
<1>7. TriedOK'
  BY <1>1, <1>2, <1>5
    DEF TriedOK, Tried, KeyInv, KeyTypes, Reached, HeaderKeys!Prfs, PlaceOK, Item, ReaderPcs
<1>8. QueuedOK'
  BY <1>1, <1>2 DEF QueuedOK, KeyInv, Busy, KeyTypes
<1>9. CountOK'
  <2>1. Counted' = Counted /\ Cardinality(Counted) \in Nat /\ Len(hkRing) \in Nat
    BY <1>1, <1>2, BusyIsFinite, FS_CardinalityType DEF Counted, KeyTypes
  <2> QED BY <1>1, <1>2, <1>5, <2>1 DEF CountOK, KeyInv, KeyTypes, Reached, PlaceOK, ReaderPcs
<1>10. RingOK' /\ WorkersOK'
  BY <1>1, <1>2 DEF RingOK, WorkersOK, Owned, Deriving, KeyInv, KeyTypes, PlaceOK
<1>11. HeaderKeys!NoPrfMissed'
  <2>1. hkTested \subseteq hkTested' /\ hkTested' \subseteq HeaderKeys!Prfs \ Skipped
    BY <1>3 DEF KeyTypes
  <2> QED BY <2>1 DEF HeaderKeys!NoPrfMissed, KeyInv
<1> QED BY <1>3, <1>4, <1>6, <1>7, <1>8, <1>9, <1>10, <1>11 DEF KeyInv

LEMMA CleanUpKeys ==
  ASSUME HeaderKeys!ConstantsOK, KeyInv, HeaderKeys!CleanUp
  PROVE  KeyInv'
<1> USE DEF HeaderKeys!CleanUp, HeaderKeys!MoveReader, Inserting, Scanning, Going
<1>1. KeyTypes /\ PlaceOK /\ Reached \in Int /\ Reached <= LastPrf /\ LastPrf \in Nat
  BY ReachedIs DEF KeyInv, HeaderKeys!ConstantsOK
<1>2. /\ UNCHANGED <<hkItems, hkRing, hkWorker>> /\ LastPrf \in Nat
      /\ Skipped \subseteq HeaderKeys!Prfs
  BY DEF HeaderKeys!ConstantsOK
<1>3. KeyTypes'
  <2>1. hkReader' \in [pc : ReaderPcs, enq : 0 .. LastPrf + 1, queued : Nat, item : HeaderKeys!Prfs]
    <3>1. /\ hkReader.enq \in 0 .. LastPrf + 1 /\ hkReader.queued \in Nat
          /\ hkReader.item \in HeaderKeys!Prfs
          /\ hkReader = [pc |-> hkReader.pc, enq |-> hkReader.enq, queued |-> hkReader.queued,
                       item |-> hkReader.item]
      BY <1>1 DEF KeyTypes
    <3>2. /\ hkReader.pc = "loop" => hkReader.enq \in 1 .. LastPrf + 1
          /\ hkReader.pc \in Scanning => hkReader.enq \in 0 .. LastPrf
      <4> HIDE DEF HeaderKeys!CleanUp, HeaderKeys!MoveReader, Inserting, Scanning, Going
      <4> QED BY <1>1, PlaceIs
    <3> QED BY <1>1, <1>2, <3>1, <3>2 DEF ReaderPcs, HeaderKeys!Prfs, HeaderKeys!More
  <2>2. hkTested' \subseteq HeaderKeys!Prfs \ Skipped
    BY <1>1 DEF KeyTypes, PlaceOK, Item
  <2> QED BY <1>1, <1>2, <2>1, <2>2 DEF KeyTypes
<1>4. PlaceOK'
  BY <1>1, <1>2
    DEF KeyTypes, PlaceOK, ReaderPcs, HeaderKeys!Prfs, KeyInv, QueuedOK, HeaderKeys!MayEnqueue,
     HeaderKeys!More
<1>5. Reached' \in Int /\ Reached <= Reached'
  BY <1>1, <1>2 DEF KeyTypes, Reached, PlaceOK, HeaderKeys!Prfs, ReaderPcs
<1>6. ItemsOK'
  BY <1>1, <1>2, <1>5 DEF ItemsOK, KeyInv, KeyTypes, Item, HeaderKeys!Prfs
<1>7. TriedOK'
  BY <1>1, <1>2, <1>5
    DEF TriedOK, Tried, KeyInv, KeyTypes, Reached, HeaderKeys!Prfs, PlaceOK, Item, ReaderPcs
<1>8. QueuedOK'
  BY <1>1, <1>2 DEF QueuedOK, KeyInv, Busy, KeyTypes
<1>9. CountOK'
  <2>1. Counted' = Counted /\ Cardinality(Counted) \in Nat /\ Len(hkRing) \in Nat
    BY <1>1, <1>2, BusyIsFinite, FS_CardinalityType DEF Counted, KeyTypes
  <2> QED BY <1>1, <1>2, <1>5, <2>1 DEF CountOK, KeyInv, KeyTypes, Reached, PlaceOK, ReaderPcs
<1>10. RingOK' /\ WorkersOK'
  BY <1>1, <1>2 DEF RingOK, WorkersOK, Owned, Deriving, KeyInv, KeyTypes, PlaceOK
<1>11. HeaderKeys!NoPrfMissed'
  <2>1. hkTested \subseteq hkTested' /\ hkTested' \subseteq HeaderKeys!Prfs \ Skipped
    BY <1>3 DEF KeyTypes
  <2> QED BY <2>1 DEF HeaderKeys!NoPrfMissed, KeyInv
<1> QED BY <1>3, <1>4, <1>6, <1>7, <1>8, <1>9, <1>10, <1>11 DEF KeyInv

LEMMA CountWorkItemKeys ==
  ASSUME HeaderKeys!ConstantsOK, KeyInv, HeaderKeys!CountWorkItem
  PROVE  KeyInv'
<1> USE DEF HeaderKeys!CountWorkItem, HeaderKeys!MoveReader, Inserting, Scanning, Going
<1>1. KeyTypes /\ PlaceOK /\ Reached \in Int /\ Reached <= LastPrf /\ LastPrf \in Nat
  BY ReachedIs DEF KeyInv, HeaderKeys!ConstantsOK
<1>2. /\ UNCHANGED <<hkItems, hkRing, hkWorker>> /\ LastPrf \in Nat
      /\ Skipped \subseteq HeaderKeys!Prfs
  BY DEF HeaderKeys!ConstantsOK
<1>3. KeyTypes'
  <2>1. hkReader' \in [pc : ReaderPcs, enq : 0 .. LastPrf + 1, queued : Nat, item : HeaderKeys!Prfs]
    <3>1. /\ hkReader.enq \in 0 .. LastPrf + 1 /\ hkReader.queued \in Nat
          /\ hkReader.item \in HeaderKeys!Prfs
          /\ hkReader = [pc |-> hkReader.pc, enq |-> hkReader.enq, queued |-> hkReader.queued,
                       item |-> hkReader.item]
      BY <1>1 DEF KeyTypes
    <3>2. /\ hkReader.pc = "loop" => hkReader.enq \in 1 .. LastPrf + 1
          /\ hkReader.pc \in Scanning => hkReader.enq \in 0 .. LastPrf
      <4> HIDE DEF HeaderKeys!CountWorkItem, HeaderKeys!MoveReader, Inserting, Scanning, Going
      <4> QED BY <1>1, PlaceIs
    <3> QED BY <1>1, <1>2, <3>1, <3>2 DEF ReaderPcs, HeaderKeys!Prfs, HeaderKeys!More
  <2>2. hkTested' \subseteq HeaderKeys!Prfs \ Skipped
    BY <1>1 DEF KeyTypes, PlaceOK, Item
  <2> QED BY <1>1, <1>2, <2>1, <2>2 DEF KeyTypes
<1>4. PlaceOK'
  BY <1>1, <1>2
    DEF KeyTypes, PlaceOK, ReaderPcs, HeaderKeys!Prfs, KeyInv, QueuedOK, HeaderKeys!MayEnqueue,
     HeaderKeys!More
<1>5. Reached' \in Int /\ Reached <= Reached'
  BY <1>1, <1>2 DEF KeyTypes, Reached, PlaceOK, HeaderKeys!Prfs, ReaderPcs
<1>6. ItemsOK'
  BY <1>1, <1>2, <1>5 DEF ItemsOK, KeyInv, KeyTypes, Item, HeaderKeys!Prfs
<1>7. TriedOK'
  BY <1>1, <1>2, <1>5
    DEF TriedOK, Tried, KeyInv, KeyTypes, Reached, HeaderKeys!Prfs, PlaceOK, Item, ReaderPcs
<1>8. QueuedOK'
  BY <1>1, <1>2 DEF QueuedOK, KeyInv, Busy, KeyTypes
<1>9. CountOK'
  <2>1. Counted' = Counted /\ Cardinality(Counted) \in Nat /\ Len(hkRing) \in Nat
    BY <1>1, <1>2, BusyIsFinite, FS_CardinalityType DEF Counted, KeyTypes
  <2> QED BY <1>1, <1>2, <1>5, <2>1 DEF CountOK, KeyInv, KeyTypes, Reached, PlaceOK, ReaderPcs
<1>10. RingOK' /\ WorkersOK'
  BY <1>1, <1>2 DEF RingOK, WorkersOK, Owned, Deriving, KeyInv, KeyTypes, PlaceOK
<1>11. HeaderKeys!NoPrfMissed'
  <2>1. hkTested \subseteq hkTested' /\ hkTested' \subseteq HeaderKeys!Prfs \ Skipped
    BY <1>3 DEF KeyTypes
  <2> QED BY <2>1 DEF HeaderKeys!NoPrfMissed, KeyInv
<1> QED BY <1>3, <1>4, <1>6, <1>7, <1>8, <1>9, <1>10, <1>11 DEF KeyInv

LEMMA ClearNoOutstandingKeys ==
  ASSUME HeaderKeys!ConstantsOK, KeyInv, HeaderKeys!ClearNoOutstanding
  PROVE  KeyInv'
<1> USE DEF HeaderKeys!ClearNoOutstanding, HeaderKeys!MoveReader, Inserting, Scanning, Going
<1>1. KeyTypes /\ PlaceOK /\ Reached \in Int /\ Reached <= LastPrf /\ LastPrf \in Nat
  BY ReachedIs DEF KeyInv, HeaderKeys!ConstantsOK
<1>2. /\ UNCHANGED <<hkItems, hkRing, hkWorker>> /\ LastPrf \in Nat
      /\ Skipped \subseteq HeaderKeys!Prfs
  BY DEF HeaderKeys!ConstantsOK
<1>3. KeyTypes'
  <2>1. hkReader' \in [pc : ReaderPcs, enq : 0 .. LastPrf + 1, queued : Nat, item : HeaderKeys!Prfs]
    <3>1. /\ hkReader.enq \in 0 .. LastPrf + 1 /\ hkReader.queued \in Nat
          /\ hkReader.item \in HeaderKeys!Prfs
          /\ hkReader = [pc |-> hkReader.pc, enq |-> hkReader.enq, queued |-> hkReader.queued,
                       item |-> hkReader.item]
      BY <1>1 DEF KeyTypes
    <3>2. /\ hkReader.pc = "loop" => hkReader.enq \in 1 .. LastPrf + 1
          /\ hkReader.pc \in Scanning => hkReader.enq \in 0 .. LastPrf
      <4> HIDE DEF HeaderKeys!ClearNoOutstanding, HeaderKeys!MoveReader, Inserting, Scanning, Going
      <4> QED BY <1>1, PlaceIs
    <3> QED BY <1>1, <1>2, <3>1, <3>2 DEF ReaderPcs, HeaderKeys!Prfs, HeaderKeys!More
  <2>2. hkTested' \subseteq HeaderKeys!Prfs \ Skipped
    BY <1>1 DEF KeyTypes, PlaceOK, Item
  <2> QED BY <1>1, <1>2, <2>1, <2>2 DEF KeyTypes
<1>4. PlaceOK'
  BY <1>1, <1>2
    DEF KeyTypes, PlaceOK, ReaderPcs, HeaderKeys!Prfs, KeyInv, QueuedOK, HeaderKeys!MayEnqueue,
     HeaderKeys!More
<1>5. Reached' \in Int /\ Reached <= Reached'
  BY <1>1, <1>2 DEF KeyTypes, Reached, PlaceOK, HeaderKeys!Prfs, ReaderPcs
<1>6. ItemsOK'
  BY <1>1, <1>2, <1>5 DEF ItemsOK, KeyInv, KeyTypes, Item, HeaderKeys!Prfs
<1>7. TriedOK'
  BY <1>1, <1>2, <1>5
    DEF TriedOK, Tried, KeyInv, KeyTypes, Reached, HeaderKeys!Prfs, PlaceOK, Item, ReaderPcs
<1>8. QueuedOK'
  BY <1>1, <1>2 DEF QueuedOK, KeyInv, Busy, KeyTypes
<1>9. CountOK'
  <2>1. Counted' = Counted /\ Cardinality(Counted) \in Nat /\ Len(hkRing) \in Nat
    BY <1>1, <1>2, BusyIsFinite, FS_CardinalityType DEF Counted, KeyTypes
  <2> QED BY <1>1, <1>2, <1>5, <2>1 DEF CountOK, KeyInv, KeyTypes, Reached, PlaceOK, ReaderPcs
<1>10. RingOK' /\ WorkersOK'
  BY <1>1, <1>2 DEF RingOK, WorkersOK, Owned, Deriving, KeyInv, KeyTypes, PlaceOK
<1>11. HeaderKeys!NoPrfMissed'
  <2>1. hkTested \subseteq hkTested' /\ hkTested' \subseteq HeaderKeys!Prfs \ Skipped
    BY <1>3 DEF KeyTypes
  <2> QED BY <2>1 DEF HeaderKeys!NoPrfMissed, KeyInv
<1> QED BY <1>3, <1>4, <1>6, <1>7, <1>8, <1>9, <1>10, <1>11 DEF KeyInv

LEMMA WrongKeyKeys ==
  ASSUME HeaderKeys!ConstantsOK, KeyInv, HeaderKeys!WrongKey
  PROVE  KeyInv'
<1> USE DEF HeaderKeys!WrongKey, Inserting, Scanning, Going
<1>1. KeyTypes /\ PlaceOK /\ Reached \in Int /\ Reached <= LastPrf /\ LastPrf \in Nat
  BY ReachedIs DEF KeyInv, HeaderKeys!ConstantsOK
<1>2. /\ UNCHANGED <<hkItems, hkRing, hkWorker>> /\ LastPrf \in Nat
      /\ Skipped \subseteq HeaderKeys!Prfs
  BY DEF HeaderKeys!ConstantsOK
<1>3. KeyTypes'
  <2>1. hkReader' \in [pc : ReaderPcs, enq : 0 .. LastPrf + 1, queued : Nat, item : HeaderKeys!Prfs]
    <3>1. /\ hkReader.enq \in 0 .. LastPrf + 1 /\ hkReader.queued \in Nat
          /\ hkReader.item \in HeaderKeys!Prfs
          /\ hkReader = [pc |-> hkReader.pc, enq |-> hkReader.enq, queued |-> hkReader.queued,
                       item |-> hkReader.item]
      BY <1>1 DEF KeyTypes
    <3>2. /\ hkReader.pc = "loop" => hkReader.enq \in 1 .. LastPrf + 1
          /\ hkReader.pc \in Scanning => hkReader.enq \in 0 .. LastPrf
      <4> HIDE DEF HeaderKeys!WrongKey, Inserting, Scanning, Going
      <4> QED BY <1>1, PlaceIs
    <3>3. hkReader.pc = "test" /\ hkReader' = [hkReader EXCEPT !.pc = "loop", !.enq = @ + 1]
      OBVIOUS
    <3> HIDE DEF HeaderKeys!WrongKey
    <3>4. hkReader.enq + 1 \in 0 .. LastPrf + 1 /\ hkReader.enq \in Int
      BY <1>1, <3>1, <3>2, <3>3
    <3>5. "wait" \in ReaderPcs /\ "loop" \in ReaderPcs /\ "scan" \in ReaderPcs
      BY DEF ReaderPcs
    <3> QED BY <1>1, <3>3, <3>4, <3>5, ReaderUpdated
  <2>2. hkTested' \subseteq HeaderKeys!Prfs \ Skipped
    BY <1>1 DEF KeyTypes, PlaceOK, Item
  <2> QED BY <1>1, <1>2, <2>1, <2>2 DEF KeyTypes
<1>4. PlaceOK'
  BY <1>1, <1>2
    DEF KeyTypes, PlaceOK, ReaderPcs, HeaderKeys!Prfs, KeyInv, QueuedOK, HeaderKeys!MayEnqueue,
     HeaderKeys!More
<1>5. Reached' \in Int /\ Reached <= Reached'
  BY <1>1, <1>2 DEF KeyTypes, Reached, PlaceOK, HeaderKeys!Prfs, ReaderPcs
<1>6. ItemsOK'
  BY <1>1, <1>2, <1>5 DEF ItemsOK, KeyInv, KeyTypes, Item, HeaderKeys!Prfs
<1>7. TriedOK'
  BY <1>1, <1>2, <1>5
    DEF TriedOK, Tried, KeyInv, KeyTypes, Reached, HeaderKeys!Prfs, PlaceOK, Item, ReaderPcs
<1>8. QueuedOK'
  BY <1>1, <1>2 DEF QueuedOK, KeyInv, Busy, KeyTypes
<1>9. CountOK'
  <2>1. Counted' = Counted /\ Cardinality(Counted) \in Nat /\ Len(hkRing) \in Nat
    BY <1>1, <1>2, BusyIsFinite, FS_CardinalityType DEF Counted, KeyTypes
  <2> QED BY <1>1, <1>2, <1>5, <2>1 DEF CountOK, KeyInv, KeyTypes, Reached, PlaceOK, ReaderPcs
<1>10. RingOK' /\ WorkersOK'
  BY <1>1, <1>2 DEF RingOK, WorkersOK, Owned, Deriving, KeyInv, KeyTypes, PlaceOK
<1>11. HeaderKeys!NoPrfMissed'
  <2>1. hkTested \subseteq hkTested' /\ hkTested' \subseteq HeaderKeys!Prfs \ Skipped
    BY <1>3 DEF KeyTypes
  <2> QED BY <2>1 DEF HeaderKeys!NoPrfMissed, KeyInv
<1> QED BY <1>3, <1>4, <1>6, <1>7, <1>8, <1>9, <1>10, <1>11 DEF KeyInv

LEMMA BeginKeys ==
  ASSUME HeaderKeys!ConstantsOK, KeyInv, HeaderKeys!BeginKeyDerivation
  PROVE  KeyInv'
<1> DEFINE i == HeaderKeys!First(HeaderKeys!FreeItems)
<1> DEFINE x == [HeaderKeys!FreeItem EXCEPT !.free = FALSE, !.prf = hkReader.enq]
<1>1. KeyTypes /\ PlaceOK /\ LastPrf \in Nat \ {0} /\ Skipped \subseteq HeaderKeys!Prfs
  BY DEF KeyInv, HeaderKeys!ConstantsOK
<1>2. /\ hkReader.pc = "loop" /\ hkReader.enq \notin Skipped
      /\ hkReader.queued < HeaderKeys!ThreadCount /\ hkReader.enq <= LastPrf
      /\ hkItems' = [hkItems EXCEPT ![i] = x]
      /\ hkReader' = [hkReader EXCEPT !.pc = "count", !.item = i]
      /\ UNCHANGED <<hkCount, hkRing, hkWorker, hkTested, hkStatus>>
  BY DEF HeaderKeys!BeginKeyDerivation, HeaderKeys!MayEnqueue
<1>3. /\ hkReader.enq \in HeaderKeys!Prfs \ Skipped /\ hkReader.enq \in Nat
      /\ Reached = hkReader.enq - 1
  BY <1>1, <1>2, PlaceIs DEF HeaderKeys!Prfs, Reached
<1>4. HeaderKeys!FreeItems # {}
  <2> SUFFICES ASSUME HeaderKeys!FreeItems = {} PROVE FALSE
    OBVIOUS
  <2>1. \A j \in HeaderKeys!Prfs : ~hkItems[j].free
    BY DEF HeaderKeys!FreeItems
  <2> DEFINE f == [j \in HeaderKeys!Prfs |-> hkItems[j].prf]
  <2>2. f \in Injection(HeaderKeys!Prfs, 1 .. hkReader.enq - 1)
    <3>1. \A j \in HeaderKeys!Prfs : hkItems[j].prf \in HeaderKeys!Prfs /\ hkItems[j].prf <= hkReader.enq - 1
      BY <1>1, <1>3, <2>1 DEF KeyInv, ItemsOK, KeyTypes, Item
    <3>2. \A j, k \in HeaderKeys!Prfs : hkItems[j].prf = hkItems[k].prf => j = k
      BY <2>1 DEF KeyInv, ItemsOK
    <3>3. f \in [HeaderKeys!Prfs -> 1 .. hkReader.enq - 1]
      BY <1>3, <3>1 DEF HeaderKeys!Prfs
    <3> QED BY <3>2, <3>3 DEF Injection, IsInjective
  <2>3. /\ Cardinality(1 .. hkReader.enq - 1) = hkReader.enq - 1
        /\ IsFiniteSet(1 .. hkReader.enq - 1)
        /\ Cardinality(HeaderKeys!Prfs) = LastPrf
    <3>1. \A n \in Nat : IsFiniteSet(1 .. n) /\ Cardinality(1 .. n) = n
      <4> SUFFICES ASSUME NEW n \in Nat PROVE IsFiniteSet(1 .. n) /\ Cardinality(1 .. n) = n
        OBVIOUS
      <4>1. IsFiniteSet(1 .. n) /\ Cardinality(1 .. n) = IF 1 > n THEN 0 ELSE n - 1 + 1
        BY FS_Interval
      <4> QED BY <4>1
    <3>2. hkReader.enq - 1 \in Nat /\ LastPrf \in Nat
      BY <1>1, <1>3 DEF HeaderKeys!Prfs
    <3> QED BY <3>1, <3>2 DEF HeaderKeys!Prfs
  <2> HIDE DEF f
  <2>4. Cardinality(HeaderKeys!Prfs) <= Cardinality(1 .. hkReader.enq - 1)
    BY <2>2, <2>3, FS_Injection
  <2> QED BY <1>1, <1>2, <1>3, <2>3, <2>4
<1>5. i \in HeaderKeys!Prfs /\ hkItems[i].free
  <2>1. HeaderKeys!FreeItems \subseteq Nat
    BY DEF HeaderKeys!FreeItems, HeaderKeys!Prfs
  <2> QED BY <1>4, <2>1, LeastOf DEF HeaderKeys!FreeItems
<1>6. x \in Item /\ x.free = FALSE /\ x.ready = FALSE /\ x.prf = hkReader.enq
  BY <1>3 DEF HeaderKeys!FreeItem, Item
<1> HIDE DEF i, x
<1>7. /\ hkItems' \in [HeaderKeys!Prfs -> Item] /\ hkItems'[i] = x
      /\ \A j \in HeaderKeys!Prfs \ {i} : hkItems'[j] = hkItems[j]
  BY <1>1, <1>2, <1>5, <1>6 DEF KeyTypes
<1>8. /\ hkReader' \in [pc : ReaderPcs, enq : 0 .. LastPrf + 1, queued : Nat, item : HeaderKeys!Prfs]
      /\ hkReader'.pc = "count" /\ hkReader'.item = i /\ hkReader'.enq = hkReader.enq
      /\ hkReader'.queued = hkReader.queued
  BY <1>1, <1>2, <1>5 DEF KeyTypes, ReaderPcs
<1>9. KeyTypes'
  BY <1>1, <1>2, <1>7, <1>8 DEF KeyTypes
<1>10. PlaceOK'
  BY <1>2, <1>3, <1>5, <1>6, <1>7, <1>8 DEF PlaceOK, Inserting, Scanning, HeaderKeys!Prfs
<1>11. Reached' = hkReader.enq
  BY <1>8 DEF Reached, Inserting, Going
<1>12. ItemsOK'
  <2>1. \A j \in HeaderKeys!Prfs \ {i} : ~hkItems[j].free =>
          /\ hkItems[j].prf \notin Skipped /\ hkItems[j].prf < hkReader.enq
    <3>1. \A j \in HeaderKeys!Prfs : hkItems[j].prf \in Int
      BY <1>1 DEF KeyTypes, Item, HeaderKeys!Prfs
    <3>2. \A j \in HeaderKeys!Prfs : ~hkItems[j].free =>
               hkItems[j].prf \notin Skipped /\ hkItems[j].prf <= Reached
      BY DEF KeyInv, ItemsOK
    <3>3. \A n \in Int : n <= hkReader.enq - 1 => n < hkReader.enq
      BY <1>3
    <3> QED BY <1>3, <3>1, <3>2, <3>3
  <2>2. \A j \in HeaderKeys!Prfs : ~hkItems'[j].free =>
          hkItems'[j].prf \notin Skipped /\ hkItems'[j].prf <= hkReader.enq
    <3> SUFFICES ASSUME NEW j \in HeaderKeys!Prfs, ~hkItems'[j].free
                 PROVE  hkItems'[j].prf \notin Skipped /\ hkItems'[j].prf <= hkReader.enq
      OBVIOUS
    <3>1. CASE j = i
      BY <1>3, <1>6, <1>7, <3>1
    <3>2. CASE j # i
      <4>1. hkItems'[j] = hkItems[j] /\ hkItems[j].prf \in Nat
        BY <1>1, <1>7, <3>2 DEF KeyTypes, Item, HeaderKeys!Prfs
      <4> QED BY <1>3, <2>1, <3>2, <4>1
    <3> QED BY <3>1, <3>2
  <2>3. \A j, k \in HeaderKeys!Prfs : ~hkItems'[j].free /\ ~hkItems'[k].free /\ hkItems'[j].prf = hkItems'[k].prf => j = k
    <3>1. \A j \in HeaderKeys!Prfs \ {i} : ~hkItems'[j].free => hkItems'[j].prf # hkReader.enq
      BY <1>3, <1>7, <2>1
    <3>2. \A j, k \in HeaderKeys!Prfs \ {i} :
            ~hkItems'[j].free /\ ~hkItems'[k].free /\ hkItems'[j].prf = hkItems'[k].prf => j = k
      BY <1>7 DEF KeyInv, ItemsOK
    <3> QED BY <1>6, <1>7, <3>1, <3>2
  <2> QED BY <1>11, <2>2, <2>3 DEF ItemsOK
<1>13. TriedOK'
  <2> SUFFICES ASSUME NEW p \in HeaderKeys!Prfs \ Skipped, p <= hkReader.enq PROVE Tried(p)'
    BY <1>11 DEF TriedOK
  <2>1. CASE p = hkReader.enq
    BY <2>1, <1>5, <1>6, <1>7 DEF Tried
  <2>2. CASE p # hkReader.enq
    <3>1. Tried(p) /\ hkReader.pc # "test"
      BY <1>2, <1>3, <2>2 DEF KeyInv, TriedOK, HeaderKeys!Prfs, Going
    <3> QED BY <1>2, <1>5, <1>7, <3>1 DEF Tried
  <2> QED BY <2>1, <2>2
<1>14. QueuedOK'
  <2>1. Busy' = Busy \cup {i} /\ i \notin Busy
    BY <1>5, <1>6, <1>7 DEF Busy
  <2>2. Cardinality(Busy') = Cardinality(Busy) + 1 /\ Cardinality(Busy) \in Nat
    BY <2>1, BusyIsFinite, FS_AddElement, FS_CardinalityType
  <2>3. hkReader.queued = Cardinality(Busy) - 0 /\ hkReader.queued <= HeaderKeys!ThreadCount
    BY <1>2 DEF KeyInv, QueuedOK, Inserting
  <2> QED BY <1>8, <2>2, <2>3 DEF QueuedOK, Inserting
<1>15. CountOK'
  <2>1. Counted' = Counted /\ Cardinality(Counted) \in Nat /\ Len(hkRing) \in Nat
    BY <1>1, <1>2, BusyIsFinite, FS_CardinalityType DEF Counted, KeyTypes
  <2> QED BY <1>2, <1>3, <1>8, <1>11, <2>1 DEF CountOK, KeyInv
<1>16. \A j \in HeaderKeys!Prfs : Owned(j) => j # i /\ Owned(j)'
  BY <1>2, <1>5, <1>7, <1>8 DEF Owned, Inserting
<1>17. RingOK' /\ WorkersOK'
  BY <1>1, <1>2, <1>16 DEF RingOK, WorkersOK, Deriving, KeyInv, KeyTypes, WorkerState
<1>18. HeaderKeys!NoPrfMissed'
  BY <1>2 DEF HeaderKeys!NoPrfMissed, KeyInv
<1> QED BY <1>9, <1>10, <1>12, <1>13, <1>14, <1>15, <1>17, <1>18 DEF KeyInv

LEMMA EnqueueKeys ==
  ASSUME HeaderKeys!ConstantsOK, KeyInv, HeaderKeys!Enqueue
  PROVE  KeyInv'
<1>1. KeyTypes /\ PlaceOK /\ LastPrf \in Nat \ {0} /\ Skipped \subseteq HeaderKeys!Prfs
  BY DEF KeyInv, HeaderKeys!ConstantsOK
<1>2. /\ hkReader.pc = "enqueue" /\ hkRing' = Append(hkRing, hkReader.item)
      /\ hkReader' = [hkReader EXCEPT !.queued = @ + 1,
           !.pc = IF hkReader.enq < LastPrf THEN "loop" ELSE "scan",
           !.enq = IF hkReader.enq < LastPrf THEN @ + 1 ELSE @]
      /\ UNCHANGED <<hkItems, hkCount, hkWorker, hkTested, hkStatus>>
  BY DEF HeaderKeys!Enqueue
<1>3. /\ hkReader.enq \in HeaderKeys!Prfs \ Skipped /\ hkReader.enq \in 1 .. LastPrf
      /\ Reached = hkReader.enq
      /\ hkReader.queued < HeaderKeys!ThreadCount /\ hkReader.queued \in Nat
      /\ hkReader.item \in HeaderKeys!Prfs
      /\ ~hkItems[hkReader.item].free /\ ~hkItems[hkReader.item].ready
  BY <1>1, <1>2 DEF PlaceOK, HeaderKeys!Prfs, Reached, Inserting, Going, KeyTypes
<1>4. /\ hkReader' \in [pc : ReaderPcs, enq : 0 .. LastPrf + 1, queued : Nat, item : HeaderKeys!Prfs]
      /\ hkReader'.item = hkReader.item /\ hkReader'.queued = hkReader.queued + 1
      /\ \/ hkReader'.pc = "loop" /\ hkReader'.enq = hkReader.enq + 1
         \/ hkReader'.pc = "scan" /\ hkReader'.enq = hkReader.enq
  <2>1. /\ hkReader \in [pc : ReaderPcs, enq : 0 .. LastPrf + 1, queued : Nat, item : HeaderKeys!Prfs]
        /\ "loop" \in ReaderPcs /\ "scan" \in ReaderPcs
    BY <1>1 DEF KeyTypes, ReaderPcs
  <2>2. hkReader.enq + 1 \in 0 .. LastPrf + 1 /\ hkReader.queued + 1 \in Nat
    BY <1>1, <1>3
  <2>3. CASE hkReader.enq < LastPrf
    <3>1. hkReader' = [hkReader EXCEPT !.queued = @ + 1, !.pc = "loop", !.enq = @ + 1]
      BY <1>2, <2>3
    <3> QED BY <2>1, <2>2, <3>1
  <2>4. CASE ~(hkReader.enq < LastPrf)
    <3>1. hkReader' = [hkReader EXCEPT !.queued = @ + 1, !.pc = "scan"]
      BY <1>2, <2>1, <2>4
    <3> QED BY <2>1, <2>2, <3>1
  <2> QED BY <2>3, <2>4
<1>5. KeyTypes'
  BY <1>1, <1>2, <1>3, <1>4 DEF KeyTypes
<1>6. PlaceOK'
  BY <1>1, <1>3, <1>4 DEF PlaceOK, Inserting, Scanning
<1>7. Reached' = Reached
  BY <1>3, <1>4 DEF Reached, Inserting, Scanning, Going
<1>8. ItemsOK'
  BY <1>2, <1>7 DEF ItemsOK, KeyInv
<1>9. TriedOK'
  BY <1>2, <1>4, <1>7 DEF TriedOK, Tried, KeyInv, Going, Inserting
<1>10. QueuedOK'
  <2>1. Busy' = Busy /\ Cardinality(Busy) \in Nat
    BY <1>2, BusyIsFinite, FS_CardinalityType DEF Busy
  <2>2. hkReader.queued = Cardinality(Busy) - 1 /\ HeaderKeys!ThreadCount \in Nat
    BY <1>2, ThreadCountIs DEF KeyInv, QueuedOK, Inserting
  <2> QED BY <1>3, <1>4, <2>1, <2>2 DEF QueuedOK, Inserting
<1>11. CountOK'
  <2>1. Counted' = Counted /\ Cardinality(Counted) \in Nat /\ Len(hkRing) \in Nat
        /\ Len(hkRing') = Len(hkRing) + 1
    BY <1>1, <1>2, BusyIsFinite, FS_CardinalityType DEF Counted, KeyTypes
  <2> QED BY <1>2, <1>3, <1>4, <1>7, <2>1 DEF CountOK, KeyInv
<1>12. /\ (\A x : x = hkReader.item => Owned(x)') /\ ~Owned(hkReader.item)
       /\ \A j \in HeaderKeys!Prfs : Owned(j) => Owned(j)'
  BY <1>2, <1>3, <1>4 DEF Owned, Inserting
<1>13. /\ Len(hkRing') = Len(hkRing) + 1 /\ Len(hkRing) \in Nat
       /\ hkRing'[Len(hkRing) + 1] = hkReader.item
       /\ \A j \in 1 .. Len(hkRing) : hkRing'[j] = hkRing[j] /\ hkRing[j] \in HeaderKeys!Prfs
  BY <1>1, <1>2, <1>3 DEF KeyTypes
<1>14. RingOK'
  <2>1. \A j \in 1 .. Len(hkRing) : Owned(hkRing[j]) /\ hkRing[j] # hkReader.item
    BY <1>12, <1>13 DEF RingOK, KeyInv
  <2>2. \A j \in 1 .. Len(hkRing') : j \in 1 .. Len(hkRing) \/ j = Len(hkRing) + 1
    BY <1>13
  <2>3. \A j \in 1 .. Len(hkRing') : \A x : x = hkRing'[j] => Owned(x)'
    BY <1>3, <1>12, <1>13, <2>1, <2>2
  <2>4. \A j, k \in 1 .. Len(hkRing') : hkRing'[j] = hkRing'[k] => j = k
    BY <1>13, <2>1, <2>2 DEF RingOK, KeyInv
  <2> QED BY <2>3, <2>4 DEF RingOK, Owned
<1>15. WorkersOK'
  <2>1. \A w \in Workers : Deriving(w) =>
             hkWorker[w].item # hkReader.item /\ hkWorker[w].item \in HeaderKeys!Prfs
    BY <1>1, <1>12 DEF WorkersOK, KeyInv, KeyTypes, WorkerState
  <2> QED BY <1>2, <1>12, <1>13, <2>1 DEF WorkersOK, Deriving, KeyInv
<1>16. HeaderKeys!NoPrfMissed'
  BY <1>2 DEF HeaderKeys!NoPrfMissed, KeyInv
<1> QED BY <1>5, <1>6, <1>8, <1>9, <1>10, <1>11, <1>14, <1>15, <1>16 DEF KeyInv

LEMMA TakeReadyKeys ==
  ASSUME HeaderKeys!ConstantsOK, KeyInv, HeaderKeys!TakeReady
  PROVE  KeyInv'
<1> DEFINE i == HeaderKeys!First(HeaderKeys!ReadyItems)
<1>1. KeyTypes /\ PlaceOK /\ LastPrf \in Nat \ {0} /\ Skipped \subseteq HeaderKeys!Prfs
  BY DEF KeyInv, HeaderKeys!ConstantsOK
<1>2. /\ hkReader.pc = "scan" /\ HeaderKeys!ReadyItems # {}
      /\ hkItems' = [hkItems EXCEPT ![i].free = TRUE]
      /\ hkReader' = [hkReader EXCEPT !.pc = IF hkItems[i].failed THEN "scan" ELSE "test",
                                  !.queued = @ - 1, !.item = i]
      /\ hkTested' = IF hkItems[i].failed THEN hkTested \cup {hkItems[i].prf} ELSE hkTested
      /\ UNCHANGED <<hkCount, hkRing, hkWorker, hkStatus>>
  BY DEF HeaderKeys!TakeReady
<1>3. i \in HeaderKeys!Prfs /\ ~hkItems[i].free /\ hkItems[i].ready /\ hkItems[i] \in Item
  <2>1. HeaderKeys!ReadyItems \subseteq Nat
    BY DEF HeaderKeys!ReadyItems, HeaderKeys!Prfs
  <2> QED BY <1>1, <1>2, <2>1, LeastOf DEF HeaderKeys!ReadyItems, KeyTypes
<1> HIDE DEF i
<1>4. /\ hkItems' \in [HeaderKeys!Prfs -> Item] /\ hkItems'[i].free = TRUE
      /\ hkItems'[i].prf = hkItems[i].prf /\ \A j \in HeaderKeys!Prfs \ {i} : hkItems'[j] = hkItems[j]
  BY <1>1, <1>2, <1>3 DEF KeyTypes, Item
<1>5. hkItems[i].prf \in HeaderKeys!Prfs \ Skipped
  BY <1>3 DEF KeyInv, ItemsOK, Item
<1>6. Busy' = Busy \ {i} /\ i \in Busy
  BY <1>3, <1>4 DEF Busy
<1>7. /\ Cardinality(Busy') = Cardinality(Busy) - 1
      /\ Cardinality(Busy) \in Nat /\ Cardinality(Busy') \in Nat
  BY <1>6, BusyIsFinite, FS_RemoveElement, FS_CardinalityType
<1>8. hkReader.queued = Cardinality(Busy) /\ hkReader.queued <= HeaderKeys!ThreadCount
  BY <1>2, <1>7 DEF KeyInv, QueuedOK, Inserting
<1>9. /\ hkReader' \in [pc : ReaderPcs, enq : 0 .. LastPrf + 1, queued : Nat, item : HeaderKeys!Prfs]
      /\ hkReader'.pc \in {"scan", "test"} /\ hkReader'.item = i /\ hkReader'.enq = hkReader.enq
      /\ hkReader'.queued = hkReader.queued - 1
  BY <1>1, <1>2, <1>3, <1>7, <1>8 DEF KeyTypes, ReaderPcs
<1>10. hkTested' \subseteq HeaderKeys!Prfs \ Skipped /\ hkTested \subseteq hkTested'
  BY <1>1, <1>2, <1>5 DEF KeyTypes
<1>11. KeyTypes'
  BY <1>1, <1>2, <1>4, <1>9, <1>10 DEF KeyTypes
<1>12. PlaceOK'
  BY <1>1, <1>2, <1>4, <1>5, <1>9 DEF PlaceOK, Inserting, Scanning
<1>13. Reached' = Reached
  BY <1>2, <1>9 DEF Reached, Inserting, Scanning, Going
<1>14. ItemsOK'
  BY <1>4, <1>13 DEF ItemsOK, KeyInv
<1>15. TriedOK'
  <2> SUFFICES ASSUME NEW p \in HeaderKeys!Prfs \ Skipped, p <= Reached PROVE Tried(p)'
    BY <1>13 DEF TriedOK
  <2>1. Tried(p) /\ hkReader.pc # "test"
    BY <1>2 DEF KeyInv, TriedOK, Going, Scanning
  <2>2. CASE p = hkItems[i].prf
    <3>1. hkItems[i].failed => p \in hkTested'
      BY <1>2, <2>2
    <3>2. ~hkItems[i].failed => hkReader'.pc = "test" /\ hkReader'.item = i
      BY <1>1, <1>2 DEF KeyTypes
    <3> QED BY <1>4, <2>2, <3>1, <3>2 DEF Tried
  <2>3. CASE p # hkItems[i].prf
    BY <1>4, <1>10, <2>1, <2>3 DEF Tried
  <2> QED BY <2>2, <2>3
<1>16. QueuedOK'
  <2>1. HeaderKeys!ThreadCount \in Nat
    BY ThreadCountIs
  <2> QED BY <1>7, <1>8, <1>9, <2>1 DEF QueuedOK, Inserting
<1>17. CountOK'
  <2>1. Counted' = Counted /\ Cardinality(Counted) \in Nat /\ Len(hkRing) \in Nat
    BY <1>1, <1>2, BusyIsFinite, FS_CardinalityType DEF Counted, KeyTypes
  <2> QED BY <1>2, <1>9, <1>13, <2>1 DEF CountOK, KeyInv
<1>18. \A j \in HeaderKeys!Prfs : Owned(j) => j # i /\ Owned(j)'
  BY <1>3, <1>4, <1>9 DEF Owned, Inserting
<1>19. RingOK' /\ WorkersOK'
  BY <1>1, <1>2, <1>18 DEF RingOK, WorkersOK, Deriving, KeyInv, KeyTypes, WorkerState
<1>20. HeaderKeys!NoPrfMissed'
  BY <1>2, <1>10 DEF HeaderKeys!NoPrfMissed, KeyInv
<1> QED BY <1>11, <1>12, <1>14, <1>15, <1>16, <1>17, <1>19, <1>20 DEF KeyInv

(* A step of a worker, which leaves the reader and what it has tested.     *)
LEMMA WorkerKeeps ==
  ASSUME HeaderKeys!ConstantsOK, KeyInv, UNCHANGED <<hkReader, hkTested, hkStatus>>, KeyTypes',
         \A j \in HeaderKeys!Prfs : hkItems'[j].free = hkItems[j].free /\ hkItems'[j].prf = hkItems[j].prf,
         hkReader.pc \in Inserting => ~hkItems'[hkReader.item].ready,
         CountOK', RingOK', WorkersOK'
  PROVE  KeyInv'
<1>1. KeyTypes /\ Reached' = Reached
  BY DEF KeyInv, Reached
<1>2. PlaceOK'
  BY <1>1 DEF KeyInv, PlaceOK, KeyTypes, Inserting
<1>3. ItemsOK'
  BY <1>1 DEF KeyInv, ItemsOK
<1>4. TriedOK'
  <2> SUFFICES ASSUME hkReader.pc \in Going, NEW p \in HeaderKeys!Prfs \ Skipped,
         p <= Reached PROVE Tried(p)'
    BY <1>1 DEF TriedOK
  <2>1. Tried(p) /\ hkReader.item \in HeaderKeys!Prfs
    BY <1>1 DEF KeyInv, TriedOK, KeyTypes
  <2> QED BY <2>1 DEF Tried
<1>5. QueuedOK'
  <2>1. Busy' = Busy
    BY DEF Busy
  <2> QED BY <2>1 DEF KeyInv, QueuedOK
<1> QED BY <1>2, <1>3, <1>4, <1>5 DEF KeyInv, HeaderKeys!NoPrfMissed

LEMMA DequeueKeys ==
  ASSUME HeaderKeys!ConstantsOK, KeyInv, NEW w \in Workers, HeaderKeys!Dequeue(w)
  PROVE  KeyInv'
<1>1. KeyTypes /\ PlaceOK
  BY DEF KeyInv
<1>2. /\ hkWorker[w].pc = "idle" /\ hkRing # <<>> /\ hkRing' = Tail(hkRing)
      /\ hkWorker' = [hkWorker EXCEPT ![w] = [pc |-> "derive", item |-> Head(hkRing)]]
      /\ UNCHANGED <<hkReader, hkItems, hkCount, hkTested, hkStatus>>
  BY DEF HeaderKeys!Dequeue
<1>3. /\ Len(hkRing) \in Nat \ {0} /\ Head(hkRing) = hkRing[1] /\ Head(hkRing) \in HeaderKeys!Prfs
      /\ hkRing' \in Seq(HeaderKeys!Prfs) /\ Len(hkRing') = Len(hkRing) - 1
      /\ \A j \in 1 .. Len(hkRing') : hkRing'[j] = hkRing[j + 1]
      /\ \A j \in 1 .. Len(hkRing) : hkRing[j] \in HeaderKeys!Prfs
  BY <1>1, <1>2 DEF KeyTypes
<1>4. /\ hkWorker'[w].pc = "derive" /\ hkWorker'[w].item = hkRing[1]
      /\ \A v \in Workers \ {w} : hkWorker'[v] = hkWorker[v]
      /\ hkWorker' \in [Workers -> WorkerState]
  BY <1>1, <1>2, <1>3 DEF KeyTypes, WorkerState, WorkerPcs
<1>5. KeyTypes'
  BY <1>1, <1>2, <1>3, <1>4 DEF KeyTypes
<1>6. \A j : Owned(j)' = Owned(j)
  BY <1>2 DEF Owned
<1>7. RingOK'
  <2>1. \A j \in 1 .. Len(hkRing') : j + 1 \in 1 .. Len(hkRing) /\ hkRing'[j] = hkRing[j + 1]
    BY <1>3
  <2>2. \A j \in 1 .. Len(hkRing') : Owned(hkRing'[j])
    BY <2>1 DEF RingOK, KeyInv
  <2>3. \A j, k \in 1 .. Len(hkRing') : hkRing'[j] = hkRing'[k] => j + 1 = k + 1
    BY <2>1 DEF RingOK, KeyInv
  <2>4. \A j, k \in 1 .. Len(hkRing') : j + 1 = k + 1 => j = k
    BY <1>3
  <2> QED BY <1>2, <2>2, <2>3, <2>4 DEF RingOK, Owned
<1>8. WorkersOK'
  <2>1. Owned(hkRing[1]) /\ \A j \in 1 .. Len(hkRing') : hkRing'[j] # hkRing[1]
    BY <1>3 DEF RingOK, KeyInv
  <2>2. \A v \in Workers \ {w} : Deriving(v)' = Deriving(v)
    BY <1>4 DEF Deriving
  <2>3. \A v \in Workers \ {w} : Deriving(v) =>
          /\ Owned(hkWorker[v].item) /\ hkWorker[v].item # hkRing[1]
          /\ \A j \in 1 .. Len(hkRing') : hkRing'[j] # hkWorker[v].item
    BY <1>3 DEF WorkersOK, KeyInv
  <2> QED BY <1>4, <1>6, <2>1, <2>2, <2>3 DEF WorkersOK, KeyInv
<1>9. CountOK'
  <2>1. Counted' = Counted \cup {w} /\ w \notin Counted
    BY <1>2, <1>4 DEF Counted
  <2>2. Cardinality(Counted') = Cardinality(Counted) + 1 /\ Cardinality(Counted) \in Nat
    BY <2>1, BusyIsFinite, FS_AddElement, FS_CardinalityType
  <2>3. Reached' = Reached
    BY <1>2 DEF Reached
  <2> QED BY <1>2, <1>3, <2>2, <2>3 DEF CountOK, KeyInv
<1> QED BY <1>1, <1>2, <1>5, <1>7, <1>8, <1>9, WorkerKeeps DEF PlaceOK

(* A worker changes the work item that is its own.                         *)
LEMMA DeriveKeys ==
  ASSUME HeaderKeys!ConstantsOK, KeyInv, NEW w \in Workers,
         HeaderKeys!DeriveKey(w) \/ HeaderKeys!SetKeyReady(w)
  PROVE  KeyInv'
<1> DEFINE i == hkWorker[w].item
<1>1. KeyTypes /\ PlaceOK
  BY DEF KeyInv
<1>2. /\ \/ hkWorker[w].pc = "derive" /\ hkWorker' = [hkWorker EXCEPT ![w].pc = "ready"]
         \/ hkWorker[w].pc = "ready" /\ hkWorker' = [hkWorker EXCEPT ![w].pc = "signal"]
      /\ UNCHANGED <<hkReader, hkRing, hkCount, hkTested, hkStatus>>
  BY DEF HeaderKeys!DeriveKey, HeaderKeys!SetKeyReady, HeaderKeys!MoveWorker
<1>3. i \in HeaderKeys!Prfs /\ Owned(i) /\ hkItems[i] \in Item /\ Deriving(w)
  BY <1>1, <1>2 DEF KeyTypes, WorkerState, KeyInv, WorkersOK, Deriving
<1>4. /\ hkItems' \in [HeaderKeys!Prfs -> Item] /\ \A j \in HeaderKeys!Prfs \ {i} : hkItems'[j] = hkItems[j]
      /\ hkItems'[i].free = hkItems[i].free /\ hkItems'[i].prf = hkItems[i].prf
      /\ hkWorker[w].pc = "derive" => hkItems'[i].ready = hkItems[i].ready
  <2>1. CASE HeaderKeys!DeriveKey(w)
    <3>1. PICK failed \in BOOLEAN : hkItems' = [hkItems EXCEPT ![i].failed = failed]
      BY <2>1 DEF HeaderKeys!DeriveKey
    <3> QED BY <1>1, <1>3, <3>1 DEF KeyTypes, Item
  <2>2. CASE HeaderKeys!SetKeyReady(w)
    <3>1. hkItems' = [hkItems EXCEPT ![i].ready = TRUE] /\ hkWorker[w].pc = "ready"
      BY <2>2 DEF HeaderKeys!SetKeyReady, HeaderKeys!MoveWorker
    <3> QED BY <1>1, <1>3, <3>1 DEF KeyTypes, Item
  <2> QED BY <2>1, <2>2
<1>5. /\ hkWorker'[w].item = i /\ \A v \in Workers \ {w} : hkWorker'[v] = hkWorker[v]
      /\ hkWorker[w].pc = "derive" => hkWorker'[w].pc = "ready"
      /\ hkWorker[w].pc = "ready" => hkWorker'[w].pc = "signal"
      /\ hkWorker' \in [Workers -> WorkerState]
  BY <1>1, <1>2 DEF KeyTypes, WorkerState, WorkerPcs
<1> HIDE DEF i
<1>6. KeyTypes'
  BY <1>1, <1>2, <1>4, <1>5 DEF KeyTypes
<1>7. \A j \in HeaderKeys!Prfs \ {i} : Owned(j)' = Owned(j)
  BY <1>2, <1>4 DEF Owned
<1>8. \A j \in 1 .. Len(hkRing) : hkRing[j] \in HeaderKeys!Prfs \ {i}
  BY <1>1, <1>3 DEF KeyTypes, KeyInv, WorkersOK, i
<1>9. RingOK'
  BY <1>2, <1>7, <1>8 DEF RingOK, KeyInv
<1>10. WorkersOK'
  <2>1. \A v \in Workers \ {w} : Deriving(v) =>
             hkWorker[v].item \in HeaderKeys!Prfs \ {i} /\ Owned(hkWorker[v].item)
    BY <1>1, <1>3 DEF KeyTypes, WorkerState, KeyInv, WorkersOK, i
  <2>2. \A v \in Workers \ {w} : Deriving(v)' = Deriving(v)
    BY <1>5 DEF Deriving
  <2>3. Deriving(w)' => \A x : x = i => Owned(x)'
    <3>1. Deriving(w)' => hkWorker[w].pc = "derive"
      BY <1>2, <1>5 DEF Deriving
    <3>2. hkWorker[w].pc = "derive" => \A x : x = i => Owned(x)'
      <4>1. hkWorker[w].pc = "derive" => ~hkItems'[i].free /\ ~hkItems'[i].ready
        BY <1>3, <1>4 DEF Owned
      <4> QED BY <1>2, <1>3, <4>1 DEF Owned
    <3> QED BY <3>1, <3>2
  <2>4. \A v \in Workers : Deriving(v)' => \A x : x = hkWorker'[v].item =>
          Owned(x)' /\ \A j \in 1 .. Len(hkRing) : hkRing[j] # x
    BY <1>3, <1>5, <1>7, <1>8, <2>1, <2>2, <2>3 DEF WorkersOK, KeyInv
  <2>5. \A u, v \in Workers : (Deriving(u) /\ Deriving(v))' /\ hkWorker'[u].item = hkWorker'[v].item => u = v
    BY <1>3, <1>5, <2>1, <2>2 DEF WorkersOK, KeyInv
  <2> QED BY <1>2, <2>4, <2>5 DEF WorkersOK, Owned
<1>11. CountOK'
  <2>1. Counted' = Counted
    BY <1>2, <1>5 DEF Counted
  <2> QED BY <1>2, <2>1 DEF CountOK, KeyInv, Reached
<1>12. hkReader.pc \in Inserting => ~hkItems'[hkReader.item].ready
  BY <1>1, <1>3, <1>4 DEF PlaceOK, Owned, KeyTypes
<1> QED BY <1>2, <1>4, <1>6, <1>9, <1>10, <1>11, <1>12, WorkerKeeps

LEMMA WorkerEnds ==
  ASSUME HeaderKeys!ConstantsOK, KeyInv, NEW w \in Workers,
         HeaderKeys!SignalCompletion(w) \/ HeaderKeys!DecrementCount(w) \/
         HeaderKeys!SignalNoOutstanding(w) \/ HeaderKeys!FreeSlot(w)
  PROVE  KeyInv'
<1>1. KeyTypes /\ PlaceOK
  BY DEF KeyInv
<1>2. PICK pc \in WorkerPcs \ {"derive", "ready"} : hkWorker' = [hkWorker EXCEPT ![w].pc = pc]
  BY DEF HeaderKeys!SignalCompletion, HeaderKeys!DecrementCount, HeaderKeys!SignalNoOutstanding,
     HeaderKeys!FreeSlot, HeaderKeys!MoveWorker, WorkerPcs
<1>3. ~Deriving(w) /\ UNCHANGED <<hkReader, hkItems, hkRing, hkTested, hkStatus>>
  BY DEF HeaderKeys!SignalCompletion, HeaderKeys!DecrementCount, HeaderKeys!SignalNoOutstanding,
     HeaderKeys!FreeSlot, HeaderKeys!MoveWorker, Deriving
<1>4. /\ hkWorker' \in [Workers -> WorkerState] /\ hkWorker'[w].pc = pc
      /\ \A v \in Workers \ {w} : hkWorker'[v] = hkWorker[v]
  BY <1>1, <1>2 DEF KeyTypes, WorkerState, WorkerPcs
<1>5. KeyTypes'
  BY <1>1, <1>3, <1>4 DEF KeyTypes
<1>6. RingOK'
  BY <1>3 DEF RingOK, Owned, KeyInv
<1>7. WorkersOK'
  <2>1. ~Deriving(w)' /\ \A v \in Workers \ {w} : Deriving(v)' = Deriving(v)
    BY <1>2, <1>4 DEF Deriving
  <2> QED BY <1>3, <1>4, <2>1 DEF WorkersOK, Owned, KeyInv
<1>8. CountOK'
  <2>1. Reached' = Reached /\ Reached \in Int /\ Reached <= LastPrf /\ LastPrf \in Nat
    BY <1>1, <1>3, ReachedIs DEF Reached, HeaderKeys!ConstantsOK
  <2>2. CASE HeaderKeys!DecrementCount(w)
    <3>1. /\ hkWorker[w].pc = "decrement" /\ hkCount' = hkCount - 1
          /\ hkWorker'[w].pc \in {"signalNone", "free"}
      BY <1>1, <2>2 DEF HeaderKeys!DecrementCount, HeaderKeys!MoveWorker, KeyTypes, WorkerState
    <3>2. Counted' = Counted \ {w} /\ w \in Counted
      BY <1>4, <3>1 DEF Counted
    <3>3. Cardinality(Counted') = Cardinality(Counted) - 1 /\ Cardinality(Counted) \in Nat
      BY <3>2, BusyIsFinite, FS_RemoveElement, FS_CardinalityType
    <3>4. Len(hkRing) \in Nat /\ (hkReader.pc = "count" => hkReader.enq \in Int)
      BY <1>1 DEF KeyTypes
    <3> QED BY <1>3, <2>1, <3>1, <3>3, <3>4 DEF CountOK, KeyInv
  <2>3. CASE ~HeaderKeys!DecrementCount(w)
    <3>1. hkCount' = hkCount /\ Counted' = Counted
      BY <1>4, <2>3
        DEF HeaderKeys!SignalCompletion, HeaderKeys!SignalNoOutstanding, HeaderKeys!FreeSlot,
         HeaderKeys!MoveWorker, Counted, KeyTypes,
         WorkerState
    <3> QED BY <1>3, <2>1, <3>1 DEF CountOK, KeyInv
  <2> QED BY <2>2, <2>3
<1> QED BY <1>1, <1>3, <1>5, <1>6, <1>7, <1>8, WorkerKeeps DEF PlaceOK

(* What ends the loop has no work item in use: every PRF was tried.        *)
LEMMA LoopEndKeys ==
  ASSUME HeaderKeys!ConstantsOK, KeyInv, HeaderKeys!LoopEnd
  PROVE  KeyInv'
<1>1. /\ hkReader.pc = "loop" /\ ~(hkReader.enq <= LastPrf) /\ ~(hkReader.queued > 0)
      /\ HeaderKeys!GiveUp("wrong")
  BY DEF HeaderKeys!LoopEnd, HeaderKeys!More
<1>2. KeyTypes /\ LastPrf \in Nat
  BY DEF KeyInv, HeaderKeys!ConstantsOK
<1>3. Busy = {}
  <2>1. hkReader.queued = 0 /\ IsFiniteSet(Busy) /\ Cardinality(Busy) \in Nat
    BY <1>1, <1>2, BusyIsFinite, FS_CardinalityType DEF KeyTypes
  <2>2. Cardinality(Busy) = 0
    BY <1>1, <2>1 DEF KeyInv, QueuedOK, Inserting
  <2> QED BY <2>1, <2>2, FS_EmptySet
<1>4. \A p \in HeaderKeys!Prfs \ Skipped : p \in hkTested
  <2> SUFFICES ASSUME NEW p \in HeaderKeys!Prfs \ Skipped PROVE p \in hkTested
    OBVIOUS
  <2>1. p <= Reached
    BY <1>1, <1>2 DEF Reached, HeaderKeys!Prfs, KeyTypes
  <2>2. Tried(p)
    BY <1>1, <2>1 DEF KeyInv, TriedOK, Going
  <2> QED BY <1>1, <1>3, <2>2 DEF Tried, Busy
<1>5. hkTested = HeaderKeys!Prfs \ Skipped
  BY <1>2, <1>4 DEF KeyTypes
<1> QED BY <1>1, <1>5, GiveUpKeys

LEMMA KeysInvariance == ASSUME HeaderKeys!ConstantsOK PROVE HeaderKeys!Spec => []KeyInv
<1>1. HeaderKeys!Init => KeyInv
  BY InitKeys
<1>2. KeyInv /\ [HeaderKeys!Next]_(HeaderKeys!vars) => KeyInv'
  <2> SUFFICES ASSUME KeyInv, [HeaderKeys!Next]_(HeaderKeys!vars) PROVE KeyInv'
    OBVIOUS
  <2>1. CASE UNCHANGED HeaderKeys!vars
    BY <2>1
      DEF HeaderKeys!vars, KeyInv, KeyTypes, PlaceOK, ItemsOK, TriedOK, Tried, Reached, QueuedOK,
       Busy,
       CountOK, Counted, RingOK, Owned, WorkersOK, Deriving, HeaderKeys!NoPrfMissed
  <2>2. CASE HeaderKeys!UserAbort \/ HeaderKeys!TestError
    BY <2>2, GiveUpKeys DEF HeaderKeys!UserAbort, HeaderKeys!TestError
  <2>3. CASE HeaderKeys!ReadVolumeHeader
    BY <2>2, <2>3, LoopEndKeys, SkipPrfKeys, BeginKeys, CountWorkItemKeys, ClearNoOutstandingKeys,
       EnqueueKeys, EnqueueLaterKeys, TakeReadyKeys, NothingReadyKeys, WaitForCompletionKeys,
       WrongKeyKeys, RightKeyKeys, SignalAbortKeys, CleanUpKeys DEF HeaderKeys!ReadVolumeHeader
  <2>4. ASSUME NEW w \in Workers, HeaderKeys!EncryptionThreadProc(w) PROVE KeyInv'
    BY <2>4, DequeueKeys, DeriveKeys, WorkerEnds DEF HeaderKeys!EncryptionThreadProc
  <2> QED BY <2>1, <2>3, <2>4 DEF HeaderKeys!Next
<1> QED BY <1>1, <1>2, PTL DEF HeaderKeys!Spec

LEMMA KeysTyped ==
  ASSUME HeaderKeys!ConstantsOK, KeyInv
  PROVE  HeaderKeys!TypeOK
<1>1. KeyTypes /\ PlaceOK /\ LastPrf \in Nat /\ HeaderKeys!ThreadCount \in Nat
  BY ThreadCountIs DEF KeyInv, HeaderKeys!ConstantsOK
<1>2. /\ hkReader.enq \in 0 .. LastPrf + 1 /\ hkReader.queued \in 0 .. HeaderKeys!ThreadCount
      /\ hkTested \subseteq HeaderKeys!Prfs \ Skipped
  BY <1>1 DEF KeyInv, KeyTypes, QueuedOK
<1>3. /\ Busy = HeaderKeys!Prfs \ HeaderKeys!FreeItems /\ IsFiniteSet(Busy)
      /\ Cardinality(Busy) \in Nat
      /\ Cardinality(Counted) \in Nat
  BY BusyIsFinite, FS_CardinalityType DEF Busy, HeaderKeys!FreeItems
<1>4. hkReader.queued = HeaderKeys!Cardinality(HeaderKeys!Prfs \ HeaderKeys!FreeItems)
       - (IF hkReader.pc \in {"count", "clear", "enqueue"} THEN 1 ELSE 0)
  BY <1>3, SameSizes DEF KeyInv, QueuedOK, Inserting
<1>5. hkCount \in 0 .. LastPrf
  <2>1. Reached \in Int /\ Reached <= LastPrf /\ Len(hkRing) \in Nat
    BY <1>1, ReachedIs DEF KeyTypes
  <2>2. hkReader.pc = "count" => hkReader.enq - 1 <= LastPrf /\ hkReader.enq \in Int
    BY <1>1 DEF PlaceOK, Inserting, HeaderKeys!Prfs
  <2> QED BY <1>1, <1>3, <2>1, <2>2 DEF KeyInv, CountOK
<1>6. Len(hkRing) <= HeaderKeys!ThreadCount
  <2> DEFINE T == IF hkReader.pc \in Inserting THEN Busy \ {hkReader.item} ELSE Busy
  <2>1. IsFiniteSet(T) /\ Cardinality(T) = hkReader.queued
    <3>1. CASE hkReader.pc \in Inserting
      <4>1. hkReader.item \in Busy
        BY <1>1, <3>1 DEF PlaceOK, Busy, KeyTypes
      <4> QED BY <1>3, <3>1, <4>1, FS_RemoveElement DEF KeyInv, QueuedOK
    <3>2. CASE hkReader.pc \notin Inserting
      BY <1>3, <3>2 DEF KeyInv, QueuedOK
    <3> QED BY <3>1, <3>2
  <2>2. hkRing \in Injection(1 .. Len(hkRing), T)
    <3>1. \A j \in 1 .. Len(hkRing) : hkRing[j] \in T
      BY <1>1 DEF KeyInv, RingOK, Owned, Busy, KeyTypes
    <3>2. \A j, k \in 1 .. Len(hkRing) : hkRing[j] = hkRing[k] => j = k
      BY DEF KeyInv, RingOK
    <3>3. hkRing \in [1 .. Len(hkRing) -> T]
      BY <1>1, <3>1 DEF KeyTypes
    <3> QED BY <3>2, <3>3 DEF Injection, IsInjective
  <2>3. Len(hkRing) \in Nat /\ Cardinality(1 .. Len(hkRing)) = Len(hkRing)
    <3>1. Len(hkRing) \in Nat
      BY <1>1 DEF KeyTypes
    <3>2. Cardinality(1 .. Len(hkRing)) = IF 1 > Len(hkRing) THEN 0 ELSE Len(hkRing) - 1 + 1
      BY <3>1, FS_Interval
    <3> QED BY <3>1, <3>2
  <2> HIDE DEF T
  <2>4. Cardinality(1 .. Len(hkRing)) <= Cardinality(T)
    BY <2>1, <2>2, FS_Injection
  <2> QED BY <1>1, <1>2, <2>1, <2>3, <2>4
<1> QED BY <1>2, <1>4, <1>5, <1>6 DEF HeaderKeys!TypeOK

-----------------------------------------------------------------------------
(* The driver.                                                             *)

LEMMA KeysRun == PartsSpec => HeaderKeys!Spec
<1>1. [PartsNext]_AllVars => [HeaderKeys!Next]_(HeaderKeys!vars)
  BY DEF PartsNext, BootStep, KeysStep, AllVars, hkVars, HeaderKeys!vars
<1> QED BY <1>1, PTL DEF PartsSpec, PartsInit, HeaderKeys!Spec

LEMMA BootRuns == PartsSpec => Spec
<1>1. [PartsNext]_AllVars => [Next]_vars
  BY DEF PartsNext, BootStep, KeysStep, AllVars
<1> QED BY <1>1, PTL DEF PartsSpec, PartsInit, Spec

\* "Wrong password" is the answer of ReadVolumeHeader (Volumes.c) only after the key of every
\* PRF was tried or its derivation failed, for any number of PRFs and of threads.
THEOREM PasswordIsWrong == PartsSpec => []NoPrfMissed
<1>1. KeyInv => NoPrfMissed
  BY DEF KeyInv, NoPrfMissed
<1> QED BY <1>1, PartsAssumption, KeysInvariance, KeysRun, PTL

\* Both parts keep their types; those of the key derivation say that the reader counts the
\* work items in use and that the ring of the pool never overflows.
THEOREM TypesCorrect == PartsSpec => []TypesOK
<1>1. KeyInv => HeaderKeys!TypeOK
  BY KeysTyped, PartsAssumption
<1> QED BY <1>1, PartsAssumption, KeysInvariance, KeysRun, BootRuns, TypeCorrect, PTL DEF TypesOK

=============================================================================
