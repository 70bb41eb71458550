---------------------------- MODULE MCUnixServices ----------------------------
(* An instance of UnixServices for TLC. *)
EXTENDS UnixServices

CONSTANTS w1, w2, t1, t2

TwoWorkers == {w1, w2}
TwoThreads == {t1, t2}
=============================================================================
