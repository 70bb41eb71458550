-------------------------------- MODULE MCDriver --------------------------------
(* An instance of WindowsDriver for TLC. *)
EXTENDS WindowsDriver

CONSTANTS a1, a2, w1, w2

TwoApps == {a1, a2}
TwoWorkers == {w1, w2}
=============================================================================
