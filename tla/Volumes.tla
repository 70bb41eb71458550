-------------------------------- MODULE Volumes --------------------------------
(***************************************************************************)
(* Four parts that keep the data of volumes in order: access to an open    *)
(* volume, the driver's mount manager, the volume expander and in-place    *)
(* encryption.  They share no state and work on different volumes, so they *)
(* stand side by side: the initial state chooses the part that runs, and   *)
(* the variables of the others stay as they are.                           *)
(*                                                                         *)
(* The theorems of a part that has a module of proofs come with it.        *)
(***************************************************************************)
EXTENDS VolumeAccess

CONSTANTS
  Clients, Aborters, System, Nobody, Admin, UserOf, Drives, Requests, Attempts, MaxMounts,
  Passes, ExpanderFailures,
  Size, Offset, ChunkSize, Interval, Portion, InPlaceFailures

VARIABLES
  part,
  mmRoot, mmClient, mmVolume, mmLast, mmGivenUp, mmContext, mmOpening, mmAborter, mmRequest,
  evLength, evDisk, evCache, evFiles, evWizard, evFailures,
  ipDevice, ipBackup, ipWizard, ipLost, ipFailures

Mounts == INSTANCE MountManagerProofs WITH
  root <- mmRoot, client <- mmClient, volume <- mmVolume, last <- mmLast, givenUp <- mmGivenUp,
  context <- mmContext, opening <- mmOpening, aborter <- mmAborter, request <- mmRequest

\* As many power failures as failing accesses and cancels.
Expander == INSTANCE ExpandVolume WITH
  MaxPowerFailures <- ExpanderFailures, MaxFailures <- ExpanderFailures,
  MaxCancels <- ExpanderFailures,
  length <- evLength, disk <- evDisk, cache <- evCache, files <- evFiles,
  wizard <- evWizard, failures <- evFailures

InPlace == INSTANCE InPlaceEncryptionProofs WITH
  MaxPowerFailures <- InPlaceFailures, MaxFailures <- InPlaceFailures,
  device <- ipDevice, backup <- ipBackup, wizard <- ipWizard, lost <- ipLost,
  failures <- ipFailures

ASSUME PartsAssumption ==
  Mounts!ConstantsOK /\ Expander!ConstantsOK /\ InPlace!ConstantsOK

mmVars == <<mmRoot, mmClient, mmVolume, mmLast, mmGivenUp, mmContext, mmOpening, mmAborter,
            mmRequest>>
evVars == <<evLength, evDisk, evCache, evFiles, evWizard, evFailures>>
ipVars == <<ipDevice, ipBackup, ipWizard, ipLost, ipFailures>>

AllVars == <<part, vars, mmVars, evVars, ipVars>>

\* A part that does not run stays in one of its initial states.
PartsInit ==
  /\ part \in {"access", "mounts", "expander", "inplace"}
  /\ Init /\ Mounts!Init /\ Expander!Init /\ InPlace!Init
  /\ part # "access" => host = Container
  /\ part # "expander" => evLength = "old"

PartsNext ==
  \/ part = "access" /\ Next /\ UNCHANGED <<part, mmVars, evVars, ipVars>>
  \/ part = "mounts" /\ Mounts!Next /\ UNCHANGED <<part, vars, evVars, ipVars>>
  \/ part = "expander" /\ Expander!Next /\ UNCHANGED <<part, vars, mmVars, ipVars>>
  \/ part = "inplace" /\ InPlace!Next /\ UNCHANGED <<part, vars, mmVars, evVars>>

PartsSpec == PartsInit /\ [][PartsNext]_AllVars

-----------------------------------------------------------------------------

\* Every part keeps its types.
TypesOK == TypeOK /\ Mounts!TypeOK /\ Expander!TypeOK /\ InPlace!TypeOK

\* An abort only ever hits a mount of a user whom the aborting user may abort (AbortPendingMount).
AbortHitsItsMount == Mounts!AbortHitsItsMount

\* A mount with the right password is never told that the password is wrong, whatever aborts
\* and failed attempts have left behind (ReadVolumeHeader, AbortPendingMount).
RightPasswordIsNotWrong == Mounts!RightPasswordIsNotWrong

\* No request is left behind on a volume that its thread has closed (UnmountDevice), but on one
\* whose mount has found its drive letter taken (MountDevice).
RequestsMeetAnOpenVolume == Mounts!RequestsMeetAnOpenVolume

\* A volume that was being expanded mounts by every header that a mount can find, and its file
\* system fits into it (ExtendVolumeThreadProc).
VolumeStaysMountable == Expander!VolumeStaysMountable

\* While the wizard is not at work, the device holds what the header says, but for what
\* failures have spoiled (InPlace.c).
DeviceMatchesHeader == InPlace!DeviceMatchesHeader

\* A volume that is said to be encrypted, or decrypted, is that as a whole (InPlace.c).
FinishedIsComplete == InPlace!FinishedIsComplete

\* A power failure spoils no more than what was converted since the last update of the header.
PowerFailureCostsLittle == InPlace!PowerFailureCostsLittle
=============================================================================
