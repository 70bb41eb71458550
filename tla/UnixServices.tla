----------------------------- MODULE UnixServices -----------------------------
(***************************************************************************)
(* Three parts of the Unix code: the derivation of header keys, the steps  *)
(* of mounting and unmounting a volume, and the services that execute them *)
(* for the user.  They share no state, so they stand side by side: the     *)
(* initial state chooses the part that runs, and the variables of the      *)
(* others stay as they are.  Fairness is asked of the part that runs.  The *)
(* theorems about mounting come with it.                                   *)
(***************************************************************************)
EXTENDS VolumeHeaderDecrypt

CONSTANTS
  MaxCiphers, MaxFaults,
  Threads, App, Service, Elevated, MaxRequests, MaxPasswords, MaxDeaths

VARIABLES
  part,
  umCore, umFuse, umInfo, umLoop, umLayers, umDeferred, umFs, umDirs, umUsed, umFaults,
  umOutcome,
  csThread, csMutex, csKnown, csService, csElevated, csPipe, csAlive, csHeld, csExecuted,
  csDeaths

Mounting == INSTANCE UnixMountProofs WITH
  core <- umCore, fuse <- umFuse, info <- umInfo, loop <- umLoop, layers <- umLayers,
  deferred <- umDeferred, fs <- umFs, dirs <- umDirs, used <- umUsed, faults <- umFaults,
  outcome <- umOutcome

Core == INSTANCE CoreService WITH
  thread <- csThread, mutex <- csMutex, known <- csKnown, service <- csService,
  elevated <- csElevated, pipe <- csPipe, alive <- csAlive, held <- csHeld,
  executed <- csExecuted, deaths <- csDeaths

ASSUME PartsAssumption == Mounting!ConstantsOK /\ Core!ConstantsOK

umVars == <<umCore, umFuse, umInfo, umLoop, umLayers, umDeferred, umFs, umDirs, umUsed,
            umFaults, umOutcome>>
csVars == <<csThread, csMutex, csKnown, csService, csElevated, csPipe, csAlive, csHeld,
            csExecuted, csDeaths>>

AllVars == <<part, vars, umVars, csVars>>

\* A part that does not run stays in its initial state.
PartsInit ==
  /\ part \in {"keys", "mount", "core"}
  /\ Init /\ Mounting!Init /\ Core!Init

KeysStep(step) == part = "keys" /\ step /\ UNCHANGED <<part, umVars, csVars>>
MountStep(step) == part = "mount" /\ step /\ UNCHANGED <<part, vars, csVars>>
CoreStep(step) == part = "core" /\ step /\ UNCHANGED <<part, vars, umVars>>

PartsNext ==
  KeysStep(Next) \/ MountStep(Mounting!Next) \/ CoreStep(Core!Next)

\* The fairness of the three modules.
PartsSpec ==
  /\ PartsInit /\ [][PartsNext]_AllVars
  /\ WF_vars(KeysStep(Decrypt))
  /\ \A w \in Workers : WF_vars(KeysStep(WorkThreadProc(w)))
  /\ WF_umVars(MountStep(Mounting!KernelReleases))
  /\ WF_umVars(MountStep(Mounting!Close))
  /\ \A t \in Threads : WF_csVars(CoreStep(Core!MoveThread(t)))
  /\ WF_csVars(CoreStep(Core!MoveService)) /\ WF_csVars(CoreStep(Core!MoveElevated))

-----------------------------------------------------------------------------

\* Every part keeps its types.
TypesOK == TypeOK /\ Mounting!TypeOK /\ Core!TypeOK

\* VolumeHeader::Decrypt ends.
DecryptReturns == part = "keys" => DecryptEnds

\* A mount in which one command fails leaves nothing, unless the command was the making of a
\* mapper device: then mapper devices at most, with their loop device (MountVolumeNative).
FailedMountUndone == Mounting!FailedMountUndone

\* An emergency unmount of a cascade ends with nothing left (EmergencyDismountVolume).
EmergencyUnmountEnds == part = "mount" => Mounting!EmergencyUnmountEnds

\* SendRequest returns the answer to the request it sent.
OwnAnswer == Core!OwnAnswer

\* No operation is executed twice, and none is reported that was not executed.
ExecutedOnce == Core!ExecutedOnce

\* Every request is answered, and no service outlives the process that started it, as long as
\* no child of a dead process holds its ends of the pipes.
ServicesEnd == part = "core" => Core!RequestsEnd /\ Core!NoOrphans
=============================================================================
