# A verification development for VeraCrypt

TLA+ modules that model the concurrent core of VeraCrypt and the parts of it that
move data or must survive failures, the TLC runs that
check them on small instances, and proofs, checked by TLAPS, of what matters
most for every value of the constants. Paths are relative to the repository
(`src/` is the source tree this directory sits beside).

Contents: [inventory](#inventory), [plan](#plan), [modules and
code](#modules-and-code), [runs](#runs), [bounds](#bounds),
[fairness](#fairness), [proofs](#proofs), [disagreements](#disagreements-found),
[abstractions](#abstractions), [not modelled](#not-modelled).

## Inventory

VeraCrypt encrypts volumes (files, partitions) and, on Windows, the system drive.
A C code base holds the Windows driver, the boot loader and the Windows tools;
a C++ code base holds the library and the programs of Unix. Data units of 512
bytes are encrypted and decrypted; a header, encrypted with keys derived from a
password, holds the master keys and the extent of the encrypted area.

| component | state it keeps | operations | hard behaviour |
|---|---|---|---|
| Encrypted I/O queue, `Driver/EncryptedIoQueue.c` | outstanding count, IRP/I-O/completion queues, two fragment buffers, pool buffers, work items, read-ahead buffer, flags and events of hold and stop | `AddIrp`, main, I/O and completion thread, work item routine, `HoldWhenIdle`, `ResumeFromHold`, `Stop` | six kinds of thread, double buffering, read-ahead after the request is over, holds against requests, stop against requests |
| Encryption thread pool, `Common/EncryptionThreadPool.c` (and `Volume/EncryptionThreadPool.cpp`) | ring of work items, its two cursors, two mutexes, two auto-reset events and one per work item | `DoWork`, worker thread, `Start`, `Stop`, `BeginKeyDerivation` | a work item is reused while pointers read from it are followed; one auto-reset event for many waiters |
| Header key derivation, `Common/Volumes.c` | work items, count and events of the reader | `ReadVolumeHeader`, `DeriveKeyWork` | memory of the reader used by workers, aborts |
| Header key derivation in C++, `Volume/VolumeHeader.cpp` | the same, with a mutex around count and event | `Decrypt`, `DrainKeyDerivationWorkItems` | exceptions in every step |
| Boot drive filter, `Driver/DriveFilter.c` | boot drive, setup status, encrypted area end, header on disk | mount, setup thread, start, abort, power and PnP events | crash in the middle of conversion, abort and dismount against the setup thread |
| Crash dump filter, `Driver/DumpFilter.c` | write buffer, copy of the encrypted area | write | reads the encrypted area that the setup thread moves |
| Driver mount manager, `Driver/Ntdriver.c`, `Ntvol.c` | mounted volumes, root device mutex | mount, dismount, shutdown, device control | dismount against open files, remove locks |
| In-place encryption of other volumes, `Format/InPlace.c` | moving end of the encrypted area, two headers | start, resume, decrypt | interruption between data and header |
| Volumes in C++, `Volume/Volume.cpp`, `VolumeLayout.cpp` | open file, header, protected range | open, read, write, re-encrypt header | hidden volume protection |
| FUSE service, `Driver/Fuse/FuseService.cpp` | mounted volume | read, write, control file | alignment, concurrent calls |
| Core service, `Core/Unix/CoreService.cpp` | two pipes, elevated flag | request, response, elevate, exit | request and answer streams of two processes |
| Unix mounting, `Core/CoreBase.cpp`, `Core/Unix/CoreUnix.cpp` | mounted volumes, loop devices | mount, dismount | steps that must be undone |
| Creation and formatting, `Core/VolumeCreator.cpp`, `Common/Format.c`, `Common/Fat.c` | write position, abort flag, FAT parameters | create, abort | progress thread, FAT size arithmetic |
| Volume expander, `ExpandVolume/` | file size, headers | extend, fill, write headers | order of the steps, failure between them |
| Password caches, `Common/Cache.c`, `Volume/VolumePasswordCache.cpp` | ring of passwords | add, read, wipe | reuse of slots |
| Random pool, `Common/Random.c`, `Core/RandomNumberGenerator.cpp` | pool, read and write position | add, mix, get | background threads |
| Platform library, `Platform/` | events, shared pointers | wait, signal | an auto-reset event made of a condition variable |
| Boot loader, `Boot/Windows/` | encrypted area, interrupt filter | read and write filter | sequential |

How they meet: a volume's read or write enters the I/O queue as an IRP; the
queue's main and completion threads call `EncryptDataUnits` and
`DecryptDataUnits`, which are requests to the thread pool. The drive filter's
setup thread holds the queue (`HoldWhenIdle`), converts a block of the drive with
the pool, moves `EncryptedAreaEnd` and resumes the queue. Mounting reads a header
with `ReadVolumeHeader` (or `VolumeHeader::Decrypt`), which puts key derivations
on the same pool. All shared state is memory under mutexes, spin locks and
interlocked operations; all waiting is on events and semaphores.

What makes each part correct:

* I/O queue: to its senders it is a plain disk: a read returns what was
  written, decrypted exactly once; every accepted IRP is completed, once; a held queue
  touches nothing; what is encrypted on the device is what the area says.
* Thread pool: when `DoWork` returns, every data unit of the request was
  transformed exactly once, and no worker will touch the request any more.
* Key derivation: every PRF is tried before a password is called wrong, and no
  worker uses the reader's memory after the reader is gone.
* Drive filter, in-place encryption, expander: after an interruption the header and the data
  agree, but for a bounded loss in a power failure; an abort ends the setup thread.
* Hidden volume protection: no write ever reaches the protected range, and after
  the first refused one nothing is written at all.
* Core service: each answer belongs to the request it is read for, and no operation is executed twice.
* Mounts and unmounts: an abort hits the mount it is meant for; an unmounted volume has no request
  left, unless its mount gave it up; what a failed mount has set up is removed as far as the code can.

`PROJECT.json` lists under "hazards" the places in the code where these could go wrong
and a test would hardly tell, with the properties that cover them. Some that are
real but out of the models' reach are named under [not modelled](#not-modelled).

## Plan

The order was by importance to the data and by how much runs concurrently.

| | modules | state |
|---|---|---|
| 1 | `EncryptedIoQueue`, abstract: `PlainDisk` | checked; its safety and the refinement proved |
| 2 | `EncryptionThreadPool`, abstract: `DataUnitService` | checked; its safety and the refinement proved |
| 3 | `HeaderKeyDerivation` (C), `VolumeHeaderDecrypt` (C++) | checked; their safety proved, but for what `keys_free` shows |
| 4, 5 | `BootEncryptionSetup`, with the dump filter in it | checked, with aborts, shutdown, hibernation, password changes and power failures; its safety proved |
| 6 | `VolumeAccess` | checked; all its properties proved |
| 7 | `CoreService` | checked, safety and liveness, with the death of each process; its safety proved |
| 8 | `InPlaceEncryption` | checked, with pauses, errors, changes of direction and power failures; its safety proved |
| 9 | `MountManager` | checked; its three properties and its types proved |
| 10 | `UnixMount` | checked, with every failing command; types and `FailedMountUndone` proved |
| 11 | `ExpandVolume` | checked, with cancels, errors, torn and lost writes; its property proved |

Left for later: the password caches and the arithmetic of FAT parameters as small modules.

Modules that are proved about declare no recursive operator; recursion is
written as recursive functions or avoided.

## Modules and code

`PROJECT.json` maps every definition to its lines. Each module names its actions
for the functions or steps they model. Definitions marked "Mutant" are
deliberately wrong forms of an action that show that the properties can fail; no
specification uses them.

### `EncryptionThreadPool`, `DataUnitService`

`src/src/Common/EncryptionThreadPool.c`. The ring is `state`, `firstFragment`,
`outstanding`, `itemCompleted` and `task`, one function per field of
`EncryptionThreadPoolWorkItem`; `enqueuePosition`, `dequeuePosition`,
the two mutexes and events are variables of their own. A caller is at one of the
waiting or updating points of `EncryptionThreadPoolDoWork`, a worker at one of
those of `EncryptionThreadProc`. Testing the state of a work item and waiting for the
shared event are separate steps, because the code has them so, and so are
the decrement of the outstanding count, freeing a fragment's item, and
following its `FirstFragment` pointer, which happens after the item was freed.

`DataUnitService` is what a caller is promised: a request is accepted, its
data units are transformed, each exactly once, the request returns.
`ImplementsService` says the pool implements it.

### `EncryptedIoQueue`, `PlainDisk`

`src/src/Driver/EncryptedIoQueue.c`. `gate` is the state that requests, hold
and stop share; `main`, `io`, `completion` are the three threads, each
with its queue, its event and its program counter; `work` the system worker
threads that complete IRPs; `pool`, `fragment`, `cache` the buffers. The sender's
`AddIrp` is two steps: counted (`AddIrp`), and then accepted or refused after `StopPending`
is read (`AcceptIrp`, `RejectIrp`). The holder converts one sector
and moves the end of the encrypted area in separate steps, as the setup thread of
`DriveFilter.c` does.

`PlainDisk` is a disk with atomic reads and writes of single sectors and requests
that may fail. `ImplementsPlainDisk` states that the queue's senders cannot tell
the queue from it.

### `HeaderKeyDerivation`

`ReadVolumeHeader` of `src/src/Common/Volumes.c` with the pool's `DeriveKeyWork`
case and `EncryptionThreadPoolBeginKeyDerivation`. The C code changes the
count with interlocked operations and the event separately: so does the model.

### `VolumeHeaderDecrypt`

`VolumeHeader::Decrypt` and `DrainKeyDerivationWorkItems` of
`src/src/Volume/VolumeHeader.cpp` with the derivation work of
`src/src/Volume/EncryptionThreadPool.cpp`, where count and event change under one mutex.
Every call that may throw may do so.

### `BootEncryptionSetup`

`src/src/Driver/DriveFilter.c`, with the device controls of the root device, the
password change of `src/src/Common/BootEncryption.cpp`, and the crash dump filter
(`src/src/Driver/DumpFilter.c`). `setup` is the setup thread with its locals, block by block: hold,
read, wipe, write, undo, advance, save, resume; `control` is what the device controls and
the thread share; `drive` is what the driver has in memory of the mounted drive, `header` and `disk` what a
power failure leaves. `root` is `RootDeviceControlMutex`, which the thread needs at its end
while the program that waits for that end may hold it. `sysEnc` is the mutex by which programs
exclude each other, which a dying program gives up. `machine` goes to hibernation, in which the dump filter
writes by the area in memory, to shutdown, and back. It takes the queue's holds as
atomic: `EncryptedIoQueue` (`HeldQueueIsQuiet`, `DiskMatchesArea`) shows what they give.

### `InPlaceEncryption`

`src/src/Format/InPlace.c`. `device` maps cells to the position of the file system they hold, masked
or not, encrypted or not; `backup` is the header at the end of the partition; `wizard` the program, which
converts chunk after chunk and updates the header every so often. A chunk's old and new place overlap,
so that a chunk whose old place is partly overwritten cannot be read again. `lost` and `failures` are history: the
positions that failures have spoiled, and where they struck.

### `VolumeAccess`

`Volume::ReadSectors`, `WriteSectors` and `CheckProtectedRange` of `src/src/Volume/Volume.cpp`, the
layouts of `VolumeLayout.cpp`, the alignment of `src/src/Driver/Fuse/FuseService.cpp`. Bytes carry the layer of encryption
(key and sector number) they are under. The check of a write and the write are two steps, as
several threads of the service make them.

### `MountManager`

`MountDevice`, `UnmountDevice`, `UnmountAllDevices`, `AbortPendingMount` and the dispatcher of
`src/src/Driver/Ntdriver.c`, with the abort flags that `Cache.c` and `Volumes.c` read. The device controls run one at a
time under `root`, the abort beside them; `context` is `ActiveMountCancelContext`. The volume thread
(`opening`) tries headers and cached passwords while its creator waits. A request meets an unmount in
the remove lock. A mounted device takes requests before `MountDevice` has looked a second time whether its drive letter is
free (`MountEnds`, then `CheckDriveLetter`); when it is not, the device is deleted as it is, and its id goes to the history variable
`givenUp`, so that properties can tell such volumes apart.

### `ExpandVolume`

`src/src/ExpandVolume/ExpandVolume.c`. `disk` is what the places of headers hold for certain, `cache` what was
written and not flushed; a power failure keeps, loses or tears each of these writes. A failing write leaves what was there or
junk (`Spoil`). `FlushFileBuffers` may do nothing and say so: nobody looks at its result, and `failures.flush` remembers
that the last one failed.

### `UnixMount`

`src/src/Core/Unix/CoreUnix.cpp` and `Linux/CoreLinux.cpp`. What exists in the kernel (`loop`,
`layers`, `fs`, `dirs`) and what the FUSE service knows (`info`) is all the state there is: an unmount reads it from
there. Every command may fail, up to a bound in one operation; lazy unmounts and deferred removals end
when the programs that use the volume do. The making of a mapper device may fail before the device exists or, in the wait for its
node, after it: `nativeDevCreated` is not yet set for it then, and `core.unmade` tells these failures from others.

### `CoreService`

`src/src/Core/Unix/CoreService.cpp`: threads of the application, the service it forks, the
elevated service that sudo starts; four streams as sequences. Processes fork (`Fork`): the FUSE service of a volume and its
handler of signals, and programs that the application starts, inherit the ends of the pipes and do not close them. `held` says whose ends such
children have. A stream ends after what was written, and writing to it throws, only when the process at the other end is dead and no child of it has its
ends (`Gone`); until they end (`ChildrenEnd`), what is written is not read, and who reads waits. The synchronization code that precedes the elevated service's answers
is read as the code reads it.

### Modules that put parts together, and modules for TLC

`MCEncryptionThreadPool`, `MCEncryptedIoQueue` and `MCHeaderKeyDerivation` give the constants of one module.
`WindowsDriver`, `UnixServices` and `Volumes` put components side by side that share no state: the initial
state chooses the part that runs, and the others stay in an initial state. That is no
composition; it lets one run check several parts that need the same effort. A property of such a module
is the property of the part of the same name, for any values of the constants. Fairness is asked of the part that runs.
`MCDriver`, `MCUnixServices` and `MCVolumes` are their instances for TLC. The `ConstantsOK` of the parts are
assumed in these modules, so that TLC evaluates them for the instance it runs.

### Modules of proofs

`EncryptionThreadPoolProofs`, `EncryptedIoQueueProofs`, `WindowsDriverProofs`, `UnixServicesProofs`, `UnixMountProofs`,
`VolumesProofs`, `MountManagerProofs` and `InPlaceEncryptionProofs`
hold the proofs. Those of `WindowsDriver`, `UnixServices` and `Volumes` state the properties the runs check:
every behaviour of the module that puts the parts together is one of each of its parts. `Volumes` and `UnixServices` therefore
instance `MountManagerProofs`, `InPlaceEncryptionProofs` and `UnixMountProofs` instead of the modules these extend.

## Runs

| run | instance | checks |
|---|---|---|
| `pool_fair` | 2 callers, 2 workers, 3 work items, requests of up to 3 units, start and stop, fair | `TypeOK`; `FirstFragmentStable`: the pointer a worker follows from a freed item still leads to its own request, which has not returned; `ImplementsService`; `RequestsComplete`: no wake-up is lost although all work items share one event; `StopCompletes`: one event set once gets all workers out |
| `queue_pipeline` | one IRP of up to three fragments after the other (read, write, misaligned, refused), every failure, three requests for two fragment buffers | `TypeOK` (with the counters' bounds), `NoUseAfterCompletion`, `ImplementsPlainDisk` with both fragment buffers and read-ahead in use; no deadlock |
| `queue_hold` | 2 IRPs against a holder that encrypts and decrypts | `HeldQueueIsQuiet`, `DiskMatchesArea` |
| `queue_fair` | one IRP (a flush or a refused one), sent again and again, endless holds, `Stop`, fair | `StopCompletesIrps`: no accepted request is left behind; `StopReturns`; `IrpsComplete` |
| `driver` | boot: 5 sectors, blocks of 2, a save every 3, two programs, one password change, one failure; keys: 4 PRFs, one skipped, 2 threads, aborts; fair | `DiskMatchesArea`: whenever requests run the sectors are as the area in memory says; `DiskMatchesHeader`: when no setup is under way the header agrees too; `PowerFailureCostsLittle`: the loss is bounded; `HibernationImageReadable`; `AbortReturns`: who waits for the setup thread gets on; `NoPrfMissed`, `ReaderReturns` |
| `unix_services` | keys: 3 KDFs, 2 workers, exceptions; mounts: cascades of 1 to 3 ciphers, two failing commands; services: 3 requests of 2 threads, 2 passwords, one death, children that keep pipes; fair | `LocalsOutliveWorkers`, `NoKdfMissed`, `DecryptReturns`; `FailedMountUndone`: the rollbacks leave nothing, or, when a mapper device could not be made, no more than mapper devices with their loop device; `EmergencyUnmountEnds`; `OwnAnswer`: answers stay in step with requests; `ExecutedOnce`; `ServicesEnd`: requests end and no service is orphaned, but for as long as children of a dead process keep its pipes |
| `volumes` | access: a file of 12 bytes in sectors of 2, a hidden volume of 4, a system partition; mounts: 2 users, an aborter, 2 drives, 2 attempts; expander: 3 passes, two failures of each kind; in place: 11 positions, headers of 2 cells, chunks of 3, an update every 6, a masked portion of 2, one power failure and one failing access | `HiddenVolumeIntact`, `ReadsReturnData`; `RightPasswordIsNotWrong`, `AbortHitsItsMount`, `RequestsMeetAnOpenVolume`; `VolumeStaysMountable`; `DeviceMatchesHeader`: a resumed or reversed process finds every position where the header says, masked and encrypted as it expects; `FinishedIsComplete`; `PowerFailureCostsLittle` |
| `queue_stopitems`, `keys_free`, `inplace_resume`, `inplace_decrypt`, `unmount_keys` | see [disagreements](#disagreements-found) | expected to be violated |

`TypesOK` in the runs `driver`, `unix_services` and `volumes` is the type invariants of the parts.

## Bounds

* `pool_fair`: `QueueSize` is the number of work items. The code has room for twice as
  many items as threads; the run takes three for two threads, because the hard cases begin where requests meet in the ring. A pooled
  request is of two fragments, which do not divide three items: requests begin at every item, wrap around in the middle
  (first fragment in the last item, second in the first one), and the second fragment waits for an item that the other request
  still uses (lines 696-699 of `EncryptionThreadPool.c`). In a ring of two none of this could happen.
  `MaxUnits` bounds a request, and `MCSpec` the units of two requests
  together, so that at most one has a remainder; the remainder takes both values, and requests with fewer units than threads occur.
  The `VIEW` leaves out what nobody reads before it is overwritten: what a request has left in a work item that
  is free and that no worker carries, and the item and request of a worker that is back in its loop. Two states with the same view have the
  same steps, and the properties do not tell them apart.
* `queue_*`: three sectors are enough for a request of more fragments than there are buffers, for the read-ahead
  of the next sector and for an area that ends between two. Two fragment
  buffers are what the code has. One IRP is under way at a time but in `queue_hold`, and `Stop` meets requests without
  data; that several IRPs with data may be under way when the queue is stopped is covered by the theorems on the queue, which are for
  any number of any requests. `ItemCount` and `RequestCount`, the
  preallocated pool buffers, are at the least with which the queue works where
  exhaustion is the question. `MayHold`, `MayStop`, `MayFail`,
  `MayResend` switch whole kinds of behaviour off to keep each run small; each
  is on in some run.
* `driver`: five sectors are two blocks and a half, so that the last block is cut; the threshold is above the block
  size, so that saves are put off, and below the length, so that they occur in the middle. `MaxFailures` bounds failures of
  the power, of device accesses and of programs together; one of each kind at every place is what shows the order
  of steps. With one program instead of two, two failures were checked as well. Keys: more PRFs than threads,
  so that items and threads are reused.
* `unix_services`: three KDFs for two workers. Two faults, because a rollback may fail as
  well; `FailedMountUndone` is about single failures. A cascade of three is the longest the code has; shorter ones are in the same run. One death of any of the three processes
  at any time; three requests, made by two threads in any way, so that an answer left behind would be taken for another and a thread meets the streams again
  that another one has used. Any process forks children that stay, and they end at any time.
* `volumes`: ranges of 4 of 8 bytes, with writes of 0, 1, 2 and 4 bytes at every offset, meet both ends of the protected range from
  either side; the encrypted part of the system partition ends at 0, in the middle and at the end. Two
  mounts, so that an abort of the first can meet the second.
* `volumes`, in place: eleven positions are three chunks and a rest of two, shorter than a chunk and as long as the
  masked portion, with a header update in the middle; chunks are longer than what lies between their old and new place, so
  that the two overlap. One power failure and one failing access may meet in one process. The violated runs take
  what shows the disagreement: no failing access, or a rest of one cell and a portion of two.
* Symmetry of IRPs and buffers is used in runs of safety properties only.
* `CHECK_DEADLOCK FALSE` stands only where the modelled part really may come to rest:
  a header that was read, IRPs that were all sent and completed, programs that ask for nothing more.

## Fairness

Threads that can go on go on: weak fairness of each thread's steps. The one
strong fairness is that of taking `EnqueueMutex`: a thread that waits for the mutex gets it some day,
although others take it in between. A sender that entered
`AddIrp` goes through with it, and who holds the queue resumes it, as the setup
thread does after every block. The setup thread runs, and a device control that was accepted is served.
Each process of the Unix services runs, and the user answers a question for a password. The Linux kernel releases what is no longer
used, and programs that use an unmounted volume end. Nothing makes the children end that keep the pipes of a dead process (a FUSE service runs until its volume is
unmounted), so `ServicesEnd` promises an answer only while no child of a dead service keeps them, and the end of a service once no child
of its parent does. Nobody has to call `DoWork`, `Start`,
`Stop`, `AddIrp` or `HoldWhenIdle`, to start or abort a setup, to mount or to unmount. `StopReturns` is under the premise that refused
senders stop trying: they are counted for a moment, and the code gives no
bound on how often `Stop` may find one.

## Proofs

`EncryptionThreadPoolProofs`: `TypeCorrectness`: `Spec => []TypeOK` for any callers,
workers, ring and request sizes that satisfy the module's assumptions
(finitely many workers, at least two threads, a ring of at
least that many items). One lemma per group of actions; the cursor stays in the
ring by arithmetic on `NextSlot`.

`PointerStability`: `Spec => []FirstFragmentStable`, under the
same assumptions. The property is not inductive; the invariant `IInv` is, and has
these parts, which but for the first two hold while the pool serves requests
(it runs and is not being stopped):

* `StoppedOK`: otherwise no request is under way and no worker carries a fragment;
* `MutexOK`: `EnqueueMutex` is held exactly by the caller that is enqueueing;
* `EnqueuerOK`: where that caller is in the ring and in its request;
* `CountOK`: `OutstandingFragmentCount` is the number of fragments of the request
  still to be placed, in the ring, and with workers;
* `FirstOK`, `DistinctFirsts`: a request owns its first work item, alone, until it ends;
* `ReadyOK`, `WorkersOK`, `DistinctItems`: a work item that is ready or was taken still says
  whose fragment it carries, and lies around the ring between that request's first work item and
  the place of the enqueuer (`InRun`);
* `SignalOK`, `EventOK`, `EndedOK`: the completion event of a request is set once, after its count
  became 0, and the caller gets past its wait only then.

`InRun` is the heart of it: the enqueuer overwrites the work item at its place, which
lies in no request's run unless it is that request's first one, and the first one
is not free while the request is under way. So it waits there, and the freed
items behind it keep their pointers. Steps that move
a caller or a worker without touching the ring are covered by two frame lemmas
(`CallerFrame`, `WorkerFrame`); every other action has its own.

`PoolIsService`: `Spec => ImplementsService`, under the same assumptions: the pool implements `DataUnitService`, so a request
returns only after each of its data units was transformed, none twice, whether or not they divide by the number of threads. A
caller's `touched` and phase are the state of the abstract service; all steps but taking a request, running a fragment and
returning are stutters. The invariant it needs beside `IInv` is `CoverInv`, which says of each request what its fragments cover:

* `DivisionOK`: the data units before `job.unit` lie in fragments that were placed, and the rest is what the fragments still to be
  placed (`ToPlace`) hold: `Base` units each and one more in as many as the remainder says;
* `CoverOK`: fragments in the ring, or with a worker that has not run them (`Pending`), do not overlap, and a unit has been
  transformed, once, exactly when it is before `job.unit` and waits in no such fragment;
* `AllTouched`: when the caller is past its wait all of its units are transformed, because by `CountOK` a count of 0 leaves no fragment
  pending or to be placed; `IdleOK`: a caller without a request has no marks.

`UnixServicesProofs`, header keys: for any number of KDFs greater than one and any finite set of
workers, whatever throws,

* `TypeCorrectness`: `Spec => []TypeOK`;
* `CountExactness`: `Spec => []CountIsExact`: the count is always the
  number of derivations in the ring, under way, or about to be enqueued;
* `NoUseAfterReturn`: `Spec => []LocalsOutliveWorkers`: when `Decrypt` returns or
  throws no worker uses its locals;
* `NoKdfIsMissed`: `Spec => []NoKdfMissed`.

None is inductive. The invariant `IInv` adds: where the reader is in its list
(`PlaceOK`); that the mutex is held exactly by the one worker between decrement
and release, for which the count stays what it saw (`MutexOK`); that the event is
set only while the count is 0 (`EventOK`); and that a reader that has drained, or
has enqueued nothing, leaves a pool without derivations (`DrainedOK`). The mutex is
what makes `EventOK` inductive: between a decrement to 0 and the signal nobody
counts a new derivation. The C code base has no such mutex, and there the event
may be set while the count is positive (run `keys_free`). `NoKdfIsMissed` has a second
invariant, `ProcessedOK`: the loop ends by `processedWorkItemCount`, which is a counter beside the flags of the work items, and the
invariant is that it is the number of the items whose flag is set, that these have ended, and that nobody is told to give up
on the way to FALSE. A counter that has reached the number of KDFs then leaves none out; an item that were taken twice would break it.
Cardinalities of the set of busy workers are handled by two lemmas on adding and
removing an element.

`VolumesProofs`, access: for any sizes, any number of threads, any writes:

* `RangeCheckIsExact`: the comparison of `CheckProtectedRange` is true exactly when the write and
  the range share a byte (writes of at least one byte);
* `VolumeTypeCorrect`: `Spec => []TypeOK`;
* `HiddenVolumeProtected`: `Spec => []HiddenVolumeIntact`. The invariant adds that every write under way
  that passed its check is disjoint from the hidden volume, which is what `RangeCheckIsExact` gives for
  the volume's own offset, and that no write is under way when the volume is opened or closed;
* `DeniedWriteEndsWriting`: after a denied write only those under way end, and none begins;
* `ReadsAreRight`: `Spec => []ReadsReturnData`. Its invariant `ReadInv` says that the host is a file whose every byte is
  under the layer of one of its two volumes, or a partition whose first sector is under one layer as a whole
  (`HostInv`); that the open volume lies on whole sectors of a host of its kind (`GeometryInv`); that writes under
  way are of whole sectors of a volume that may be written (`WriterInv`); and that the volume contains what its own key
  makes of the host (`DataInv`). Lemmas on multiples of the sector size (`MultiplesOrder`, `RoundedUpIs`) show that the sectors
  a request is widened to lie in the volume. The assumption `LayoutAssumption` is that sizes and offsets are multiples
  of the sector size, to which the size of a new volume is rounded up (`src/src/Main/TextUserInterface.cpp:791`), and that the
  headers behind the data are no part of it.

`MountManagerProofs`, for any number of clients, aborting threads, drives, requests and attempts, from
`ConstantsOK` (`Nobody` is neither a thread nor a user, requests are finite in number), which `Volumes` assumes
of its instance, so that TLC evaluates it there. `TypeCorrect` is `Spec => []TypeOK`; the other theorems state properties that the
run `volumes` checks, and `VolumesProofs` has them under the same names for the run's specification:

* `AbortsHitTheirMount`: `Spec => AbortHitsItsMount`;
* `RightPassword`: `Spec => []RightPasswordIsNotWrong`;
* `RequestsMeet`: `Spec => []RequestsMeetAnOpenVolume`.

The invariant has three layers. `Base` says who owns `RootDeviceControlMutex`, that the owner's device
exists, and that a volume is being opened exactly while the owner waits for it (`BaseHolds`). `AbortInv`
adds that the mount in the abort context is the owner's; that a thread which has looked at this mount
may abort it; that a derivation is cut short only once the user's flag is set, because `AbortPendingMount`
sets that flag first and each attempt clears the other; and so that no attempt gets past the right one
(`AbortHolds`). `RequestInv` adds that the remove lock counts the queued requests; that a volume with an id that
does not refuse new holders is served; and that an unmount past its wait finds no request queued
(`RequestHolds`); the last two except for volumes that were given up.
The property makes the same exception: a mount that finds its letter taken deletes a device that may have requests, without refusing others and
without waiting. The last two do not need each other. `TypeCorrect` needs all that and `CounterInv`, where
the counters of the threads stay between their bounds.

`VolumesProofs`, expander: for hosts and volumes of any sizes, any passes, failures and power failures,

* `Mountable`: `PartsSpec => []VolumeStaysMountable`.

The property speaks of two sets of headers: those on the disk, for as long as the last flush did not fail; and those that were written, flushed or
not, for as long as no flush failed or the power did not. Its invariant `ExpanderInv` goes by the order in which the wizard's writes are made. Until the new primary header is
written the old one is in its place (`NotReplaced`), and before that is begun the backup header at the new end is written, and, unless its flush failed, on the
disk (`Backup`). While the primary header is replaced (`Replacing`) the backup header does not depend on it, so that a power failure that tears the primary header, or
a failing write that spoils it, leaves a volume that mounts by the other (`Held`), which a mount finds because the host has its new length by then. Afterwards both headers are
new (`Replaced`), and only then is the old backup header wiped and the file system extended. `Lost` is what the property
leaves out: a flush failed, which the code does not look at, and then the power.

`TypesCorrect`: `PartsSpec => []TypesOK`, the type invariants of the four parts, from the theorems on types of each (in-place
encryption under `NoShortRest`, see below).

`EncryptedIoQueueProofs`, for a device of any (finite) size, any finite number of IRPs, any
requests that read or write at least one sector, pools of any size and any number of work items:

* `TypeCorrect`: `Spec => []TypeOK`, with the bounds of the counters: none gets below 0, and no more pool
  buffers are returned than were taken;
* `CompletionIsLast`: `Spec => []NoUseAfterCompletion`;
* `HoldIsQuiet`: `Spec => []HeldQueueIsQuiet`;
* `AreaIsRight`: `Spec => []DiskMatchesArea`;
* `StopLeavesNone`: `Spec => []StopCompletesIrps`.

The invariant `IInv` has these parts beside the types:

* `GateInv`, `EndInv`: the flags by which threads are held and stopped, and who sets them;
* `MainInv`, `RequestInv`, `ServedInv`, `WorkInv`: the IRP that a thread or a queue has is accepted and not
  completed, and a work item completes an IRP that no other one completes;
* `OrderInv`, `BeforeMainInv`: fragments of an IRP follow each other through both queues and the three threads,
  and the one that completes it is the last. This is why nothing of an IRP is left when it
  is completed, although the threads that serve it do not know of each other;
* `BufferInv`: a fragment buffer is taken exactly while one request has it. With two buffers and
  the main thread in need of one, one fragment at most is behind another;
* `OutstandingInv`, `ActiveInv`, `PendingInv`, `RequestPoolInv`, `ItemPoolInv`: each counter is the number of what it
  counts. Two lemmas on adding and removing an element of a finite set carry them. `HoldIsQuiet` and
  `StopLeavesNone` follow from the first: with a count of 0 nothing is under way;
* `StopInv`: when the threads are told to exit only IRPs are counted that `AddIrp` will reject;
* the contents (`WriteInv`, `CacheInv`, and those of the data a read has returned so far): a fragment of a write is encrypted as
  the area says it must be on the device, the read-ahead buffer agrees with the device until a write is finished, and
  a read has collected, sector by sector, what the device held when it was accessed. They need the area not to move
  while a request is under way, which `HeldQueueIsQuiet` gives.

The proof found a property that said more than is true: an IRP is reused when its sender has
collected the result, and a work item may then still be in its last steps for the IRP's former use.
`NoUseAfterCompletion` therefore compares only work items that still have an IRP to complete
(`Completing`). The runs had one work item where IRPs were sent again, so they could not show it. It also made the assumptions
of the module explicit: a read or write has a length above 0 (`MainThreadProc` refuses others), and
devices, IRPs and work items are finite in number.

`QueueIsPlainDisk`: `Spec => ImplementsPlainDisk`, from the same invariant. One lemma for each
kind of step of `PlainDisk` says when a step of the queue is that step; then each action is one of them or a stutter.
A sector is accessed for the sender where the I/O thread reads or writes the device, or takes the read-ahead buffer;
all that the completion thread does to decrypt is a stutter, because what the mapping shows is the value that
will be seen.

`WindowsDriverProofs`, boot encryption: for a drive of any length, any block, threshold and wiping, any programs and any number of
failures:

* `TypeCorrect`: `Spec => []TypeOK`;
* `AreaIsRight`: `Spec => []DiskMatchesArea`;
* `HeaderIsRight`: `Spec => []DiskMatchesHeader`;
* `ImageIsReadable`: `Spec => []HibernationImageReadable`;
* `FailureCostsLittle`: `Spec => []PowerFailureCostsLittle`.

The invariant `IInv`:

* `ThreadInv`, `ClientInv`, `MachineInv`: a setup is in progress exactly while its thread has not ended; a
  program changes a password only under the programs' mutex and without a setup, so that what it read of the header is
  still the header when it writes; a program that waits for the thread's end came from a device control that does so;
  a machine that goes to sleep has no program at work and no setup;
* `AreaInv`: every area begins with the first sector, so that the area is a length (`AreaLength`). The thread goes on exactly
  behind it, in either direction (`AtOffset`, `AtBlock`), and between setups start and end are both set or neither;
* `DiskMatchesArea`, `BlockInv`: outside the block that is converted the drive is as the area says; of the
  block, what is still to be written is as it was read or wiped, the rest is converted;
* `SavedInv`, `WrittenInv`: how far the area is ahead of the length in the header (`HeaderLength`): by what
  was converted since the last save, plus a block for each save that failed.

`FailureCostsLittle` is then arithmetic: what differs lies between the two lengths and in the block, and an interval's cardinality is its length.

`WindowsDriverProofs`, header keys: for any number of PRFs and workers and any ring that satisfy `ConstantsOK`, which
`WindowsDriver` assumes,

* `PasswordIsWrong`: `PartsSpec => []NoPrfMissed`;
* `TypesCorrect`: `PartsSpec => []TypesOK`, of both parts.

The property is that no PRF was skipped, but the reader keeps no record of that: it winds its counter back, takes completions as
they come and counts them. The invariant `KeyInv` follows each PRF through the work items:

* `PlaceOK`: where the reader is in its list;
* `TriedOK`: every PRF that had its turn was tested, or has a work item, or is being tested. This is what winding the counter back
  must preserve;
* `ItemsOK`: the work items in use are those of different PRFs that had their turn;
* `QueuedOK`: the reader's count of queued derivations is the number of work items in use, so that it leaves its loop with
  none in use, and then `TriedOK` says that every PRF was tested;
* `RingOK`, `WorkersOK`: an item in the ring or with a worker is in use, not completed, and is there once. The reader therefore
  frees no item that a worker is still to complete;
* `CountOK`: the count of outstanding derivations is that of those in the ring, with workers and being enqueued.

The error that `keys_free` shows does not touch this: it is about memory that is used after the reader has left.

`InPlaceEncryptionProofs`, for a file system, headers, chunks and a masked portion of any sizes and any number of
failures (`ConstantsOK`, which `Volumes` assumes; `VolumesProofs` has the last three for the run's specification):

* `TypeCorrect`: `Spec => []TypeOK`;
* `Resumable`: `Spec => []DeviceMatchesHeader`;
* `Complete`: `Spec => []FinishedIsComplete`;
* `LittleIsLost`: `Spec => PowerFailureCostsLittle`.

The invariant `IInv` (theorem `Invariance`) has these parts:

* `AreaInv`: the encrypted area ends behind the last position, in the header and in the wizard, and begins a number of whole
  chunks from one of the two ends (`Stops`), because each direction converts whole chunks but for its last one;
* `DistanceInv`: how far the wizard is ahead of the header, in its direction: no more than an interval, and
  nothing when nothing has changed;
* `ContentInv`: every position that no failure has spoiled is encrypted at its new place, or plain at its old place and masked if
  it lies in the first portion (`Right`), with respect to the start of the area that
  counts at that step: the header's while no wizard has read it, the wizard's own once it has;
* `FinishedInv`: what a process that says it has finished leaves.

The lemmas on a chunk (`ChunkCells`, `BufferIs`, `ChunkWritten`) say that the cells it overwrites hold, besides its own
positions, only such as are nowhere looked for; `UndoneIs` says the same of the undo after a failed
write, which cannot restore what the chunk's new place has of its old one and need not. `PowerFailureLosses` counts: what
a resumed process looks for in the wrong place lies between the two starts of the area.

The theorems assume `NoShortRest`: the rest that whole chunks leave of the file system is none, or no shorter
than the masked portion. It came out of the proof, as the case that would not go through: without it the
decryption of a partly encrypted partition may begin inside the portion, and then masks too much. The code does not exclude it: that
is the run `inplace_decrypt`. `SizesAssumption` has what the code's constants give (portions of 8 KB, headers of 128 KB,
chunks of 2 MB that divide the interval of updates).

`UnixServicesProofs`, core service: for any number of threads, requests, refused passwords and deaths of processes,

* `AnswersAreOwn`: `PartsSpec => []OwnAnswer`;
* `NoSecondExecution`: `PartsSpec => []ExecutedOnce`.

Neither is inductive, because both are about streams that outlive those who wrote to them. The parts of the invariant `CoreInv`:

* `CoreTypes`, `ThreadInv`: a thread that is not idle has the mutex of `SendRequest`, and a request that it is about to send was not
  executed;
* `ServiceInv`: a living service is idle with nothing to read, or has the request of the thread that waits for it in its stream
  or in hand, and then no answer is under way;
* `AnswerInv`, `ResultInv`: an answer in a stream is, while its reader lives, the only one there, belongs to the request of the one that waits for it, and is
  true: it says "done" of what was executed, and "not elevated" of what was not;
* `ElevatedInv`: the elevated service is idle, or has a request in its stream or in hand that is `Waiting`: asked for, not executed, and
  sent by a living service that relays it, or by one that has died. The second case is needed: the orphan executes the request
  later, and the sender was told of an error by then, so nobody sends it again;
* `ExecutedInv`: what was executed was asked for, and was executed once.

Children that keep a dead process's ends of the pipes do not break any of it, though what is written to such a process is lost without an error: nothing
reads from a stream but the process it leads to. The lemma `Ends` has what is needed of them: a living process can be written to, and its stream does not end.

`UnixMountProofs`, for cascades of any length and any number of failing commands: `TypeCorrect`: `Spec => []TypeOK`, and `MountUndone`:
`Spec => []FailedMountUndone`. `UnixServicesProofs` has both for the run's specification (`TypesCorrect`, the types of all parts, and `FailedMounts`).
`Typing` adds to the types that only an emergency dismount leaves a device to its last user. While at most one command has failed,
`MountInv` says of each stage of a mount what exists: nothing but the FUSE service before devices are made (`Before`), what each stage has
made so far (`Making`; of a cascade, the devices `LayersFrom` the one made last), what the rollback that runs knows of and has still to remove (`Undoing`), with a service that is there
as soon as it was awaited (`Serving`) and nothing left to the kernel but a loop device below mapper devices that remain (`Settled`). Three lemmas on intervals (`Intervals`, `LayerSteps`,
`Detached`) say what a step along the cascade does to them.

`FailedInv` is what a failed mount leaves. Unless the command that failed was the making of a mapper device, that is nothing, or
a listed volume with its devices, for a cascade as for one cipher: the rollback then begins at the device that was made last and finds the others by
their names. When a device could not be made (`core.unmade`) the code leaves mapper devices: the rollback looks for the device that failed, not for those made before it, and a device that
was made but whose node did not come is not yet known to exist. For this the theorem says what is *not* left, which the rollbacks
that follow must see to although one was incomplete: no FUSE service, no file system, and no loop device but the one those mapper devices hold, which
goes with them. A second failure may hit the rollback itself, and then more is left; the bound on failures must
therefore be two at least (`ConstantsOK`), or the count could not tell one failure from more.

Not proved, only model-checked:

* liveness (`RequestsComplete`, `StopCompletes`, `StopReturns`, `IrpsComplete`, `AbortReturns`, `ReaderReturns`,
  `DecryptReturns`, `EmergencyUnmountEnds`, `ServicesEnd`): the prover has no rules for fairness and ENABLED;
* of unmounts, that they remove all devices of a cascade: `EmergencyUnmountEnds` is liveness, and `UnmountErasesKeys` does not hold.

## Disagreements found

Five runs are expected to find a statement of the code or its documentation violated.

* `queue_stopitems`: `EncryptedIoQueueStop` says "Wait for active work items to
  complete" (`src/src/Driver/EncryptedIoQueue.c:1556`) and frees work items and pool buffers
  afterwards, but `CompleteIrpWorkItemRoutine` counts itself out
  (lines 422-425) before it returns its work item, releases the semaphore and
  releases its queue item (427-439).
* `keys_free`: `ReadVolumeHeader` says "Wait for all outstanding threads to finish
  or cancel" (`src/src/Common/Volumes.c:739`), but a worker decrements the count to 0 and sets the
  event in two steps (`src/src/Common/EncryptionThreadPool.c:293`), between which the reader may count a new
  derivation and clear the event; the event is then set too early, and the
  reader frees memory that a derivation uses. The C++ code base closes this with a mutex.
* `inplace_resume`: once the backup header is written, "we know we should be able to safely resume
  in-place encryption of this partition even if the system/app crashes"
  (`src/src/Format/InPlace.c:672`). The first portion of the file system is masked after that, and
  a resume takes it as masked (line 961): after a crash between the two it is masked instead of unmasked, and the
  finished volume holds it so.
* `inplace_decrypt`, an error of the code: `DecryptPartitionInPlace` masks "the initial
  TC_INITIAL_NTFS_CONCEAL_PORTION_SIZE bytes of the filesystem" (`src/src/Format/InPlace.c:1616`) and unmasks them in the end
  (1695). How many bytes of a chunk it masks is counted from the beginning of the file system, where it
  begins to mask is the beginning of the chunk (1619). A chunk that begins inside the portion, which is what the reversal of an
  encryption that was paused with less than 8 KB to go begins with, is masked beyond the portion, and stays so.
* `unmount_keys`: "When a non-system VeraCrypt volume is unmounted, VeraCrypt erases its master keys"
  (`src/doc/html/en/Unencrypted Data in RAM.html:45`). The mapper devices of a cascade are removed
  by name until the first that does not exist (`src/src/Core/Unix/Linux/CoreLinux.cpp:198`). When an unmount removed the first and
  failed on the second, the next one removes none and reports success.

## Abstractions

* A fragment is one sector; the content of a sector is its value and the number of encryption
  layers over it. Encrypting adds one, decrypting removes one; only layer 0
  shows the value. So sectors encrypted twice, not at all, or read while
  half converted are told apart, which is all the properties need. `BootEncryptionSetup` keeps the
  layers only, `InPlaceEncryption` which position a cell holds and how, `VolumeAccess` the key and sector number of the
  layer.
* Spin locks and mutexes around one update, and interlocked operations, are one
  step. `DecrementOutstandingIoCount` is one step: the event it sets
  late can only wake a thread that looks at the count again.
* A failed device access of the queue changes nothing; in the setup thread, the in-place
  encryption and the expander it may leave junk. A failed flush of the expander leaves everything unflushed. A power failure may leave the write under way half done.
  Sub-fragments at the remapped area of an MBR, and the
  substitution of security regions, are left out; hidden volume protection and a failing remove lock
  are a request of the queue that is refused.
* Buffers forget their content when they are released; an IRP is reused when its
  sender has collected the result.
* `QueueRawIrpCompletion` for want of a pool buffer is left out: the pool grows on demand
  only while it starts, and then always has buffers of the sizes asked for.
* `Stop` is called on a queue that is not held; a queue is held by one thread.
* The pool's ring is a FIFO in the key derivation modules, with more slots than
  derivations, and one reader reads one header; the path for a PRF that
  was selected is sequential: `MountManager` has it as a derivation that an abort may cut short.
* `Start` failing half-way is left out of the thread pool's module (listed as a hazard).
* Operations of the core service are executed or throw; what they do is `UnixMount`.

## Not modelled

User interfaces, setup, translations and documentation keep no state the
volumes depend on, and are most of the tree's lines. Ciphers, hashes and key derivation functions
(`src/src/Crypto`) are functions with published test vectors. Third-party libraries in the tree
(zlib, lzma, libzip, Argon2, PKCS #11) are used as they come. What random numbers are worth is not a
property of states. The boot loader and the creation of volumes are
sequential; a volume under creation holds no data yet. `PROJECT.json` says for every component what is
left out. The lines that carry concurrency, failure handling and moving data are a few files of the
several hundred, so that the share of the tree that the map covers stays small whatever is added.

Hazards of the code that no model reaches, besides those listed with a note in `PROJECT.json`: fragments of one
request that throw in several workers of the C++ pool reset the same `ItemException` without a lock
(`src/src/Volume/EncryptionThreadPool.cpp:347`); `Stop` of the pool during a request, and `Stop` of the queue
during a hold, would wait for ever, but no caller does so; `HoldWhenIdle` may fail because
`NoOutstandingIoEvent` was set at an earlier idle moment (`src/src/Driver/EncryptedIoQueue.c:1250`), and its callers try
again.
