-------------------------- MODULE BootEncryptionSetup --------------------------
(***************************************************************************)
(* In-place encryption and decryption of the Windows system drive          *)
(* (src/src/Driver/DriveFilter.c) with all that may cut it short: an       *)
(* abort, a shutdown, hibernation, a failing device, a power failure.      *)
(*                                                                         *)
(* The setup thread converts the drive block by block.  It holds the I/O   *)
(* queue for each block (EncryptedIoQueue shows what a hold gives it),     *)
(* moves the end of the encrypted area in memory and now and then saves    *)
(* the length of the area in the volume header on the drive.  Programs     *)
(* start and abort it through device controls of the root device, which    *)
(* are served one at a time under RootDeviceControlMutex; programs also    *)
(* rewrite the header when the password is changed, and exclude each other *)
(* with a mutex of their own, which is lost when a program dies.           *)
(*                                                                         *)
(* Sectors 1 .. Length are the configured area.  The content of a sector   *)
(* is its number of encryption layers: 0 is plain, 1 encrypted; a sector   *)
(* may also have been wiped, or be lost to a failure until it is written   *)
(* anew.                                                                   *)
(***************************************************************************)
EXTENDS Integers, FiniteSets

CONSTANTS
  Length,             \* sectors in the configured area
  BlockSize,          \* TC_ENCRYPTION_SETUP_IO_BLOCK_SIZE, in sectors
  Threshold,          \* TC_ENCRYPTION_SETUP_HEADER_UPDATE_THRESHOLD, in sectors
  Lengths,            \* the encrypted lengths that the header may have at first
  Apps, System,       \* programs; the system's own power and shutdown handling
  Setup, Nobody,
  MayWipe,            \* whether sectors are wiped before they are encrypted
  MaxChanges,         \* bound: password changes
  MaxFailures         \* bound: failures of the power, of the device and of programs

ASSUME SizesAssumption ==
  /\ Length \in Nat \ {0} /\ BlockSize \in Nat \ {0} /\ Threshold \in Nat \ {0}
  /\ Lengths \subseteq 0 .. Length
ASSUME OptionsAssumption ==
  /\ MayWipe \in BOOLEAN
  /\ MaxChanges \in Nat /\ MaxFailures \in Nat
ASSUME ActorsAssumption ==
  /\ System \notin Apps /\ Setup \notin Apps \cup {System}
  /\ Nobody \notin Apps \cup {System, Setup}

VARIABLES
  disk,     \* layers of each sector
  header,   \* the volume header on the drive
  drive,    \* BootDriveFilterExtension: mounted, configured, area, HeaderCryptoInfo
  setup,    \* the setup thread and its locals
  control,  \* SetupInProgress, the abort flag, EncryptionSetupThread, SetupRequest
  root,     \* owner of RootDeviceControlMutex
  sysEnc,   \* owner of the programs' system encryption mutex
  client,   \* the programs and the system as senders of device controls
  machine,  \* on, in a power transition, or writing a hibernation image
  lost      \* what failures have spoiled (history)

vars == <<disk, header, drive, setup, control, root, sysEnc, client, machine, lost>>

-----------------------------------------------------------------------------

Sectors == 1 .. Length
Wiped == 98
Lost == 99
NoKeys == -1
Clients == Apps \cup {System}

Encrypt(n) == IF n \in {Wiped, Lost} THEN n ELSE n + 1
Decrypt(n) == IF n \in {Wiped, Lost} THEN n ELSE n - 1

\* Intersection of a sector with the encrypted area; -1 means no area.  In the
\* code both ends are byte positions, so that an area whose end is not above its
\* start has no whole sector.
InArea(s) == drive.start # -1 /\ drive.end # -1 /\ drive.start <= s /\ s <= drive.end
IsEmptyArea == drive.start = -1 \/ drive.end = -1 \/ drive.end < drive.start
InHeaderArea(s) == header.present /\ s <= header.length

\* Sectors that would be misread after a restart from the header as it is now.
Mismatch == {s \in Sectors : disk[s] \notin {Lost, IF InHeaderArea(s) THEN 1 ELSE 0}}

\* The sectors are spoiled by a failure.
Spoil(sectors) == disk' = [s \in Sectors |-> IF s \in sectors THEN Lost ELSE disk[s]]

NoBuffer == [s \in Sectors |-> 0]
NoHeader == [present |-> FALSE, keys |-> 0, length |-> 0]

DeadThread == [pc |-> "dead", offset |-> 0, size |-> BlockSize, todo |-> {}, buffer |-> NoBuffer, wiping |-> FALSE,
               required |-> FALSE, written |-> 0, copy |-> NoHeader, final |-> FALSE]

\* MountDrive: the area is what the header says; a length of 0 is no area.
Mounted(h) ==
  [mounted |-> h.present, configured |-> h.present, keys |-> IF h.present THEN h.keys ELSE NoKeys,
   start |-> IF h.present /\ h.length # 0 THEN 1 ELSE -1,
   end |-> IF h.present /\ h.length # 0 THEN h.length ELSE -1]

IdleControl == [inProgress |-> FALSE, abort |-> FALSE, thread |-> FALSE, mode |-> "encrypt"]
IdleClient == [pc |-> "idle", op |-> "none", copy |-> NoHeader]

\* The memory of a system that was just booted.
Boot(h) ==
  /\ drive' = Mounted(h)
  /\ setup' = DeadThread /\ control' = IdleControl
  /\ root' = Nobody /\ sysEnc' = Nobody
  /\ client' = [c \in Clients |-> IdleClient]

Init ==
  /\ \E n \in Lengths :
       /\ header = [present |-> TRUE, keys |-> 0, length |-> n]
       /\ disk = [s \in Sectors |-> IF s <= n THEN 1 ELSE 0]
  /\ drive = Mounted(header)
  /\ setup = DeadThread /\ control = IdleControl
  /\ root = Nobody /\ sysEnc = Nobody
  /\ client = [c \in Clients |-> IdleClient]
  /\ machine = "on"
  /\ lost = [save |-> FALSE, failures |-> 0, failedSaves |-> 0]

-----------------------------------------------------------------------------
(* SetupThreadProc.                                                        *)

ToPc(pc) == setup' = [setup EXCEPT !.pc = pc]
MayFail == lost.failures < MaxFailures

\* Make sure volume header can be updated.
SetupBegin ==
  /\ setup.pc = "begin"
  /\ ToPc(IF drive.keys = NoKeys THEN "ret" ELSE "holdFirst")
  /\ UNCHANGED <<disk, header, drive, control, root, sysEnc, client, machine, lost>>

\* The first hold: the area a new encryption starts with, the sector to go on from.
SetupHoldFirst ==
  /\ setup.pc = "holdFirst"
  /\ IF control.mode = "encrypt"
     THEN IF drive.start = -1 \/ drive.end = -1
          THEN /\ drive' = [drive EXCEPT !.start = 1, !.end = -1]
               /\ setup' = [setup EXCEPT !.pc = "loop", !.offset = 1]
          ELSE /\ UNCHANGED drive
               /\ setup' = [setup EXCEPT !.pc = IF drive.end = Length THEN "end" ELSE "loop",
                                         !.offset = drive.end + 1]
     ELSE /\ UNCHANGED drive
          /\ setup' = [setup EXCEPT !.pc = IF drive.start = -1 \/ drive.end = -1
                                           THEN "end" ELSE "loop",
                                    !.offset = drive.end + 1]
  /\ UNCHANGED <<disk, header, control, root, sysEnc, client, machine, lost>>

\* While the queue is busy the thread tests whether it shall stop.
SetupHoldAborted ==
  /\ setup.pc \in {"holdFirst", "hold"} /\ control.abort
  /\ ToPc("end")
  /\ UNCHANGED <<disk, header, drive, control, root, sysEnc, client, machine, lost>>

\* The next block is cut at the end of the area.
\* (Mutant: it is not.)
UncutBlock == setup.size

CutBlock ==
  IF control.mode = "encrypt"
  THEN IF setup.offset + setup.size > Length + 1 THEN Length + 1 - setup.offset ELSE setup.size
  ELSE IF setup.offset - setup.size < drive.start THEN setup.offset - drive.start ELSE setup.size

\* The head of the loop.
SetupLoop ==
  /\ setup.pc = "loop"
  /\ LET size == CutBlock
         offset == IF control.mode = "encrypt" THEN setup.offset ELSE setup.offset - size
         done == IF control.mode = "encrypt" THEN offset > Length
                 ELSE size = 0 \/ offset < drive.start
     IN IF control.abort THEN ToPc("end")
        ELSE setup' = [setup EXCEPT !.size = size, !.offset = offset,
                                    !.pc = IF done THEN "end" ELSE "hold"]
  /\ UNCHANGED <<disk, header, drive, control, root, sysEnc, client, machine, lost>>

Block == setup.offset .. setup.offset + setup.size - 1

\* The queue is held and the block is read.
SetupHold ==
  /\ setup.pc = "hold"
  /\ setup' = [setup EXCEPT !.pc = "write", !.todo = Block, !.buffer = disk,
                            !.wiping = MayWipe /\ control.mode = "encrypt"]
  /\ UNCHANGED <<disk, header, drive, control, root, sysEnc, client, machine, lost>>

\* The block cannot be read, and is not to be zeroed or skipped either.
SetupReadFails ==
  /\ setup.pc = "hold" /\ MayFail
  /\ ToPc("end")
  /\ lost' = [lost EXCEPT !.failures = @ + 1]
  /\ UNCHANGED <<disk, header, drive, control, root, sysEnc, client, machine>>

\* The sectors of a block reach the drive one after another, in any order.
SetupWipe(s) ==
  /\ setup.pc = "write" /\ setup.wiping /\ s \in setup.todo
  /\ disk' = [disk EXCEPT ![s] = Wiped]
  /\ setup' = [setup EXCEPT !.todo = IF @ = {s} THEN Block ELSE @ \ {s},
                            !.wiping = (setup.todo # {s})]
  /\ UNCHANGED <<header, drive, control, root, sysEnc, client, machine, lost>>

SetupWrite(s) ==
  /\ setup.pc = "write" /\ ~setup.wiping /\ s \in setup.todo
  /\ disk' = [disk EXCEPT ![s] = IF control.mode = "encrypt" THEN Encrypt(setup.buffer[s])
                                 ELSE Decrypt(setup.buffer[s])]
  /\ setup' = [setup EXCEPT !.todo = @ \ {s}, !.pc = IF setup.todo = {s} THEN "advance" ELSE @]
  /\ UNCHANGED <<header, drive, control, root, sysEnc, client, machine, lost>>

\* (Mutant: a failed write is not undone.)
SetupUndoForgotten ==
  /\ setup.pc = "write" /\ MayFail
  /\ setup' = [setup EXCEPT !.pc = "end", !.todo = {}, !.buffer = NoBuffer, !.wiping = FALSE]
  /\ lost' = [lost EXCEPT !.failures = @ + 1]
  /\ UNCHANGED <<disk, header, drive, control, root, sysEnc, client, machine>>

\* A failed write is undone: the block gets back what it was read as, unless this
\* write fails as well.
SetupUndo ==
  /\ setup.pc = "write" /\ MayFail
  /\ setup' = [setup EXCEPT !.pc = "end", !.todo = {}, !.buffer = NoBuffer, !.wiping = FALSE]
  /\ lost' = [lost EXCEPT !.failures = @ + 1]
  /\ disk' = setup.buffer \/ Spoil(Block)
  /\ UNCHANGED <<header, drive, control, root, sysEnc, client, machine>>

\* (Mutant: the counter counts blocks, not what was written.)
SaveIsDueLate(written) == written > Threshold + 1

SaveIsDue(written) == written >= Threshold

\* The end of the area moves, the queue is resumed, a save of the header may be due.
SetupAdvance ==
  /\ setup.pc = "advance"
  /\ LET offset == setup.offset + IF control.mode = "encrypt" THEN setup.size ELSE 0
         written == setup.written + setup.size
     IN /\ drive' = [drive EXCEPT !.end = offset - 1]
        /\ setup' = [setup EXCEPT !.offset = offset, !.written = written, !.required = TRUE,
                                  !.buffer = NoBuffer,
                                  !.pc = IF SaveIsDue(written) THEN "readHeader" ELSE "loop"]
  /\ UNCHANGED <<disk, header, control, root, sysEnc, client, machine, lost>>

\* SaveDriveVolumeHeader reads the header,
SaveRead ==
  /\ setup.pc = "readHeader"
  /\ setup' = [setup EXCEPT !.pc = "writeHeader", !.copy = header]
  /\ UNCHANGED <<disk, header, drive, control, root, sysEnc, client, machine, lost>>

\* sets the length of the area, unless there is no area: after decryption the header is
\* erased, and a header that HeaderCryptoInfo does not decrypt is left alone.
HeaderOpens == IsEmptyArea \/ (setup.copy.present /\ setup.copy.keys = drive.keys)
SavedHeader ==
  IF ~IsEmptyArea THEN [setup.copy EXCEPT !.length = drive.end + 1 - drive.start]
  ELSE IF control.mode = "decrypt" THEN NoHeader ELSE setup.copy

\* Nothing that was converted before is at stake any longer.
Saved == [lost EXCEPT !.save = FALSE, !.failedSaves = 0]

\* and writes it.  The thread goes on to the loop, or to its end.
SaveWrite ==
  /\ setup.pc = "writeHeader" /\ HeaderOpens
  /\ header' = SavedHeader
  /\ setup' = [setup EXCEPT !.pc = IF setup.final THEN "saved" ELSE "loop",
                            !.required = FALSE, !.written = 0, !.copy = NoHeader]
  /\ lost' = Saved
  /\ UNCHANGED <<disk, drive, control, root, sysEnc, client, machine>>

\* (Failed saves are counted until all sectors may be at stake.)
SaveFailed ==
  [lost EXCEPT !.save = @ \/ setup.final,
               !.failedSaves = IF Threshold + BlockSize * (1 + @) <= Length THEN @ + 1 ELSE @]

\* A save that fails in the loop is tried again after the next block; one that
\* fails at the end makes the result of the setup an error.
SaveFails ==
  /\ setup.pc = "readHeader" \/ setup.pc = "writeHeader"
  /\ \/ MayFail /\ lost' = [SaveFailed EXCEPT !.failures = @ + 1]
     \/ setup.pc = "writeHeader" /\ ~HeaderOpens /\ lost' = SaveFailed
  /\ setup' = [setup EXCEPT !.pc = IF setup.final THEN "saved" ELSE "loop", !.copy = NoHeader]
  /\ UNCHANGED <<disk, header, drive, control, root, sysEnc, client, machine>>

\* The labels abort and err: an encryption that has not encrypted anything leaves
\* no area, and the queue is resumed.
SetupEnd ==
  /\ setup.pc = "end"
  /\ drive' = [drive EXCEPT !.start = IF drive.end = -1 THEN -1 ELSE @]
  /\ setup' = [setup EXCEPT !.final = TRUE, !.offset = 0, !.size = BlockSize, !.written = 0,
                 !.pc = IF control.mode = "decrypt" /\ (drive.end = -1 \/ drive.start > drive.end)
                        THEN "holdLast"
                        ELSE IF setup.required THEN "readHeader" ELSE "saved"]
  /\ UNCHANGED <<disk, header, control, root, sysEnc, client, machine, lost>>

\* Everything is decrypted: the last hold takes the area away.
SetupHoldLast ==
  /\ setup.pc = "holdLast"
  /\ drive' = [drive EXCEPT !.configured = FALSE, !.start = -1, !.end = -1]
  /\ setup' = [setup EXCEPT !.required = TRUE, !.pc = "readHeader"]
  /\ UNCHANGED <<disk, header, control, root, sysEnc, client, machine, lost>>

SetupSaved ==
  /\ setup.pc = "saved"
  /\ ToPc(IF control.mode = "decrypt" /\ ~drive.configured /\ drive.mounted
          THEN "acquire" ELSE "ret")
  /\ UNCHANGED <<disk, header, drive, control, root, sysEnc, client, machine, lost>>

\* (Mutant: the thread insists on the mutex.)
SetupInsists ==
  /\ setup.pc = "acquire" /\ root = Nobody /\ root' = Setup
  /\ ToPc("dismount")
  /\ UNCHANGED <<disk, header, drive, control, sysEnc, client, machine, lost>>

\* RootDeviceControlMutexAcquireNoWait, until it succeeds or the thread that has the
\* mutex turns out to be waiting for this one.
SetupAcquire ==
  /\ setup.pc = "acquire"
  /\ \/ root = Nobody /\ root' = Setup
     \/ root # Nobody /\ control.abort /\ UNCHANGED root
  /\ ToPc("dismount")
  /\ UNCHANGED <<disk, header, drive, control, sysEnc, client, machine, lost>>

SetupDismount ==
  /\ setup.pc = "dismount"
  /\ drive' = [drive EXCEPT !.keys = NoKeys, !.mounted = FALSE]
  /\ ToPc("release")
  /\ UNCHANGED <<disk, header, control, root, sysEnc, client, machine, lost>>

SetupRelease ==
  /\ setup.pc = "release"
  /\ root' = IF control.abort THEN root ELSE Nobody
  /\ ToPc("ret")
  /\ UNCHANGED <<disk, header, drive, control, sysEnc, client, machine, lost>>

SetupRet ==
  /\ setup.pc = "ret"
  /\ control' = [control EXCEPT !.inProgress = FALSE]
  /\ ToPc("exit")
  /\ UNCHANGED <<disk, header, drive, root, sysEnc, client, machine, lost>>

SetupExit ==
  /\ setup.pc = "exit"
  /\ setup' = DeadThread
  /\ UNCHANGED <<disk, header, drive, control, root, sysEnc, client, machine, lost>>

-----------------------------------------------------------------------------
(* Device controls of the root device, one at a time.                      *)

\* A client is done with its device control.
Answer(c) ==
  /\ root' = Nobody
  /\ client' = [client EXCEPT ![c].pc = IF c = System THEN "done" ELSE "locked",
                              ![c].op = "none", ![c].copy = NoHeader]

Enter(c) ==
  /\ client[c].pc = "wait" /\ root = Nobody
  /\ root' = c
  /\ client' = [client EXCEPT ![c].pc = "handle"]
  /\ UNCHANGED <<disk, header, drive, setup, control, sysEnc, machine, lost>>

StartThread(c) ==
  /\ control' = [inProgress |-> TRUE, abort |-> FALSE, thread |-> TRUE, mode |-> client[c].op]
  /\ setup' = [DeadThread EXCEPT !.pc = "begin"]

\* StartBootEncryptionSetup: refused while a setup is in progress; a thread that
\* has come to its end is joined first.
HandleStart(c) ==
  /\ client[c].pc = "handle" /\ client[c].op \in {"encrypt", "decrypt"}
  /\ \/ /\ control.inProgress \/ ~drive.mounted
        /\ Answer(c) /\ UNCHANGED <<setup, control>>
     \/ /\ ~control.inProgress /\ drive.mounted
        /\ IF control.thread
           THEN /\ control' = [control EXCEPT !.abort = TRUE]
                /\ client' = [client EXCEPT ![c].pc = "join"]
                /\ UNCHANGED <<root, setup>>
           ELSE Answer(c) /\ StartThread(c)
  /\ UNCHANGED <<disk, header, drive, sysEnc, machine, lost>>

\* AbortBootEncryptionSetup: the mutex is kept until the thread has ended.
HandleAbort(c) ==
  /\ client[c].pc = "handle" /\ client[c].op = "abort"
  /\ IF control.thread
     THEN /\ control' = [control EXCEPT !.abort = TRUE]
          /\ client' = [client EXCEPT ![c].pc = "join"]
          /\ UNCHANGED root
     ELSE Answer(c) /\ UNCHANGED control
  /\ UNCHANGED <<disk, header, drive, setup, sysEnc, machine, lost>>

\* TCStopThread returns.
Join(c) ==
  /\ client[c].pc = "join" /\ setup.pc = "dead"
  /\ Answer(c)
  /\ IF client[c].op = "abort"
     THEN control' = [control EXCEPT !.thread = FALSE] /\ UNCHANGED setup
     ELSE StartThread(c)
  /\ UNCHANGED <<disk, header, drive, sysEnc, machine, lost>>

\* ReopenBootVolumeHeader: the keys of the header as it is now on the drive.
HandleReopen(c) ==
  /\ client[c].pc = "handle" /\ client[c].op = "reopen"
  /\ Answer(c)
  /\ drive' = [drive EXCEPT !.keys =
                 IF ~drive.mounted \/ @ = NoKeys THEN @
                 ELSE IF header.present /\ header.keys = client[c].copy.keys
                 THEN header.keys ELSE NoKeys]
  /\ UNCHANGED <<disk, header, setup, control, sysEnc, machine, lost>>

-----------------------------------------------------------------------------
(* Programs.                                                               *)

Running(a, pc) == machine = "on" /\ client[a].pc = pc
AppToPc(a, pc) == client' = [client EXCEPT ![a].pc = pc]

CreateSysEncMutex(a) ==
  /\ Running(a, "idle") /\ sysEnc = Nobody
  /\ sysEnc' = a /\ AppToPc(a, "locked")
  /\ UNCHANGED <<disk, header, drive, setup, control, root, machine, lost>>

\* CloseSysEncMutex, or the program dies: it may do so before it has told the driver of
\* the new header.
Leave(a) ==
  /\ \/ /\ Running(a, "locked") \/ Running(a, "checked") \/ Running(a, "read")
        /\ UNCHANGED lost
     \/ /\ Running(a, "written") /\ MayFail
        /\ lost' = [lost EXCEPT !.failures = @ + 1]
  /\ sysEnc' = Nobody
  /\ client' = [client EXCEPT ![a] = IdleClient]
  /\ UNCHANGED <<disk, header, drive, setup, control, root, machine>>

Send(a) ==
  /\ Running(a, "locked")
  /\ \E op \in {"encrypt", "decrypt", "abort"} :
       client' = [client EXCEPT ![a].pc = "wait", ![a].op = op]
  /\ UNCHANGED <<disk, header, drive, setup, control, root, sysEnc, machine, lost>>

\* (Mutant: the password is changed while the drive is being converted.)
CheckNothing(a) ==
  /\ Running(a, "locked") /\ root = Nobody
  /\ drive.mounted /\ header.present /\ header.keys < MaxChanges
  /\ AppToPc(a, "checked")
  /\ UNCHANGED <<disk, header, drive, setup, control, root, sysEnc, machine, lost>>

\* BootEncryption::ChangePassword: GetStatus says that no setup is in progress,
CheckStatus(a) ==
  /\ Running(a, "locked") /\ root = Nobody
  /\ ~control.inProgress /\ drive.mounted /\ header.present /\ header.keys < MaxChanges
  /\ AppToPc(a, "checked")
  /\ UNCHANGED <<disk, header, drive, setup, control, root, sysEnc, machine, lost>>

\* the header is read,
ReadHeader(a) ==
  /\ Running(a, "checked")
  /\ client' = [client EXCEPT ![a].pc = "read", ![a].copy = header]
  /\ UNCHANGED <<disk, header, drive, setup, control, root, sysEnc, machine, lost>>

\* much later it is written with new keys and the length that was read,
WriteHeader(a) ==
  /\ Running(a, "read")
  /\ LET copy == [client[a].copy EXCEPT !.keys = @ + 1]
     IN header' = copy /\ client' = [client EXCEPT ![a].pc = "written", ![a].copy = copy]
  /\ UNCHANGED <<disk, drive, setup, control, root, sysEnc, machine, lost>>

\* and the driver is told.
SendReopen(a) ==
  /\ Running(a, "written")
  /\ client' = [client EXCEPT ![a].pc = "wait", ![a].op = "reopen"]
  /\ UNCHANGED <<disk, header, drive, setup, control, root, sysEnc, machine, lost>>

-----------------------------------------------------------------------------
(* The system.                                                             *)

\* Programs are frozen or gone when the devices get their power IRPs; none is in
\* the middle of a device control or of a password change.
Quiet == \A a \in Apps : client[a].pc \in {"idle", "locked"}

SystemAborts(yes) ==
  client' = [c \in Clients |->
               IF c # System THEN client[c]
               ELSE [IdleClient EXCEPT !.pc = IF yes THEN "wait" ELSE "done",
                                       !.op = IF yes THEN "abort" ELSE "none"]]

\* (Mutant: hibernation does not abort the setup.)
HibernateAnyway ==
  /\ machine = "on" /\ Quiet
  /\ machine' = "hibernating"
  /\ SystemAborts(FALSE)
  /\ UNCHANGED <<disk, header, drive, setup, control, root, sysEnc, lost>>

\* DispatchPower with PowerActionHibernate.
Hibernate ==
  /\ machine = "on" /\ Quiet
  /\ machine' = "hibernating"
  /\ SystemAborts(control.inProgress)
  /\ UNCHANGED <<disk, header, drive, setup, control, root, sysEnc, lost>>

\* DumpFilterStart: the system stops all else and writes the image through the dump
\* filter, if the drive is mounted.
BeginImage ==
  /\ machine = "hibernating" /\ client[System].pc = "done" /\ drive.mounted
  /\ machine' = "image"
  /\ UNCHANGED <<disk, header, drive, setup, control, root, sysEnc, client, lost>>

\* DumpFilterWrite encrypts what lies in the area that memory knows.
DumpFilterWrite(s) ==
  /\ machine = "image"
  /\ disk' = [disk EXCEPT ![s] = IF InArea(s) THEN 1 ELSE 0]
  /\ UNCHANGED <<header, drive, setup, control, root, sysEnc, client, machine, lost>>

\* The boot loader has read the image back, or there was none.
Resume ==
  /\ \/ machine = "image"
     \/ machine = "hibernating" /\ client[System].pc = "done" /\ ~drive.mounted
  /\ machine' = "on"
  /\ client' = [client EXCEPT ![System] = IdleClient]
  /\ UNCHANGED <<disk, header, drive, setup, control, root, sysEnc, lost>>

\* IRP_MJ_SHUTDOWN.
Shutdown ==
  /\ machine = "on" /\ Quiet
  /\ machine' = "shutdown"
  /\ SystemAborts(control.thread)
  /\ UNCHANGED <<disk, header, drive, setup, control, root, sysEnc, lost>>

\* The drive is dismounted on its power IRP, and the system started again.
Restart ==
  /\ machine = "shutdown" /\ client[System].pc = "done"
  /\ machine' = "on"
  /\ lost' = Saved
  /\ Spoil(IF lost.save THEN Mismatch ELSE {})
  /\ Boot(header)
  /\ UNCHANGED header

PowerFailure ==
  /\ machine # "image" /\ MayFail
  /\ machine' = "on"
  /\ lost' = [Saved EXCEPT !.failures = @ + 1]
  /\ Spoil(Mismatch)
  /\ Boot(header)
  /\ UNCHANGED header

-----------------------------------------------------------------------------

SetupBusy ==
  \/ SetupHoldFirst \/ SetupHold \/ SetupReadFails

\* The steps that do not depend on a moment without requests.
SetupRuns ==
  \/ SetupBegin \/ SetupHoldAborted \/ SetupLoop \/ SetupUndo \/ SetupAdvance
  \/ \E s \in Sectors : SetupWipe(s) \/ SetupWrite(s)
  \/ SaveRead \/ SaveWrite \/ SaveFails
  \/ SetupEnd \/ SetupHoldLast \/ SetupSaved
  \/ SetupAcquire \/ SetupDismount \/ SetupRelease \/ SetupRet \/ SetupExit

\* While the image is written nothing else runs.
SetupThread == machine # "image" /\ (SetupBusy \/ SetupRuns)

DeviceControl(c) ==
  Enter(c) \/ HandleStart(c) \/ HandleAbort(c) \/ Join(c) \/ HandleReopen(c)

App(a) ==
  \/ CreateSysEncMutex(a) \/ Leave(a) \/ Send(a)
  \/ CheckStatus(a) \/ ReadHeader(a) \/ WriteHeader(a) \/ SendReopen(a)

Power ==
  \/ Hibernate \/ BeginImage \/ Resume \/ (\E s \in Sectors : DumpFilterWrite(s))
  \/ Shutdown \/ Restart \/ PowerFailure

Next ==
  \/ SetupThread
  \/ \E c \in Clients : DeviceControl(c)
  \/ \E a \in Apps : App(a)
  \/ Power

Spec == Init /\ [][Next]_vars

\* The setup thread is scheduled, and so is who serves a device control.  The drive
\* need not become idle for the holds of the loop; for the last hold, which the
\* thread insists on, it has to.
FairSpec ==
  /\ Spec
  /\ WF_vars(machine # "image" /\ SetupRuns)
  /\ \A c \in Clients : WF_vars(HandleStart(c) \/ HandleAbort(c) \/ Join(c) \/ HandleReopen(c))

-----------------------------------------------------------------------------
(* Properties.                                                             *)

Headers == [present : BOOLEAN, keys : 0 .. MaxChanges, length : 0 .. Length]
Layers == {0, 1, Wiped, Lost}

\* Type invariant.
TypeOK ==
  /\ header \in Headers
  /\ drive \in [mounted : BOOLEAN, configured : BOOLEAN, keys : {NoKeys} \cup 0 .. MaxChanges,
                start : {-1, 1}, end : -1 .. Length]
  /\ setup.offset \in 0 .. Length + 1 /\ setup.size \in 0 .. BlockSize
  /\ setup.todo \subseteq Sectors /\ setup.copy \in Headers
  /\ setup.written \in 0 .. Length
  /\ control \in [inProgress : BOOLEAN, abort : BOOLEAN, thread : BOOLEAN,
                  mode : {"encrypt", "decrypt"}]
  /\ root \in Clients \cup {Setup, Nobody} /\ sysEnc \in Apps \cup {Nobody}
  /\ machine \in {"on", "hibernating", "image", "shutdown"}
  /\ disk \in [Sectors -> Layers]

\* Whenever the setup thread does not hold the queue, each sector of the drive is
\* encrypted if it lies in the area that requests are encrypted by, and plain
\* otherwise, across aborts, restarts, failures and changes of direction; only
\* what a failure has hit is excepted, and the damage never spreads.
DiskMatchesArea ==
  setup.pc \notin {"write", "advance"} =>
    \A s \in Sectors : disk[s] \in {Lost, IF InArea(s) THEN 1 ELSE 0}

\* When no setup is in progress the header on the drive describes the drive, so that
\* the next start of the system loses nothing: unless the setup's result told that
\* the header could not be saved.  A password change meanwhile does not bring
\* back an old length.
DiskMatchesHeader ==
  ~control.inProgress /\ ~lost.save => Mismatch = {}

\* A power failure in the middle of a setup costs the sectors converted since the
\* header was saved, less than a threshold and a block of them, and a block more for
\* each save that failed since: all of them fail when a program has died between
\* writing a header with new keys and telling the driver.
PowerFailureCostsLittle ==
  ~lost.save =>
    Cardinality(Mismatch) < Threshold + BlockSize * (1 + lost.failedSaves)

\* "Hibernation should always abort the setup thread" (DumpFilterWrite): while the
\* image is written the area in memory, by which it is encrypted, is the one that the
\* header tells the boot loader to decrypt it by, and no block is half converted.
HibernationImageReadable ==
  machine = "image" =>
    /\ setup.pc \in {"dead", "exit"}
    /\ lost.save \/ \A s \in Sectors : InArea(s) <=> InHeaderArea(s)

\* Whoever waits for the setup thread to end gets on, although the thread may need
\* the mutex that the waiting thread holds.
AbortReturns ==
  \A c \in Clients : (client[c].pc = "join") ~> (client[c].pc # "join")

=============================================================================
