----------------------------- MODULE WindowsDriver -----------------------------
(***************************************************************************)
(* Two parts of the Windows driver whose threads wait for each other: the  *)
(* setup of boot encryption and the derivation of header keys.  They share *)
(* no state, so they stand side by side: the initial state chooses the     *)
(* part that runs, and the variables of the other stay as they are.        *)
(* Fairness is asked of the part that runs.                                *)
(***************************************************************************)
EXTENDS BootEncryptionSetup

CONSTANTS LastPrf, Skipped, Workers, MayAbort

VARIABLES
  part,
  hkReader, hkItems, hkCount, hkNone, hkCompleted, hkAbort, hkRing, hkWorker, hkTested, hkStatus

HeaderKeys == INSTANCE HeaderKeyDerivation WITH
  reader <- hkReader, items <- hkItems, count <- hkCount, none <- hkNone,
  completed <- hkCompleted, abort <- hkAbort, ring <- hkRing, worker <- hkWorker,
  tested <- hkTested, status <- hkStatus

ASSUME PartsAssumption == HeaderKeys!ConstantsOK

hkVars == <<hkReader, hkItems, hkCount, hkNone, hkCompleted, hkAbort, hkRing, hkWorker,
            hkTested, hkStatus>>

AllVars == <<part, vars, hkVars>>

\* A part that does not run stays in one of its initial states.
PartsInit ==
  /\ part \in {"boot", "keys"}
  /\ Init /\ HeaderKeys!Init
  /\ part # "boot" => header.length = 0

BootStep(step) == part = "boot" /\ step /\ UNCHANGED <<part, hkVars>>
KeysStep(step) == part = "keys" /\ step /\ UNCHANGED <<part, vars>>

PartsNext == BootStep(Next) \/ KeysStep(HeaderKeys!Next)

\* The fairness of the two modules.
PartsSpec ==
  /\ PartsInit /\ [][PartsNext]_AllVars
  /\ WF_vars(BootStep(machine # "image" /\ SetupRuns))
  /\ \A c \in Clients :
       WF_vars(BootStep(HandleStart(c) \/ HandleAbort(c) \/ Join(c) \/ HandleReopen(c)))
  /\ WF_hkVars(KeysStep(HeaderKeys!ReadVolumeHeader))
  /\ \A w \in Workers : WF_hkVars(KeysStep(HeaderKeys!EncryptionThreadProc(w)))

-----------------------------------------------------------------------------

\* Both parts keep their types.
TypesOK == TypeOK /\ HeaderKeys!TypeOK

\* ReadVolumeHeader tries every PRF before it says that the password is wrong.
NoPrfMissed == HeaderKeys!NoPrfMissed

\* ReadVolumeHeader returns.
ReaderReturns == part = "keys" => HeaderKeys!ReaderReturns
=============================================================================
