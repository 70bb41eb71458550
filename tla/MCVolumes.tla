------------------------------- MODULE MCVolumes -------------------------------
(* An instance of Volumes for TLC. *)
EXTENDS Volumes

CONSTANTS w1, w2, zeros, text, c1, c2, m1, alice, bob

TwoWriters == {w1, w2}

\* Two users mount on two drives; a second thread of the first user aborts mounts.
TwoDrives == 1 .. 2
Users ==
  [t \in {c1, c2, m1, System} |->
     CASE t \in {c1, m1} -> alice [] t = c2 -> bob [] OTHER -> Admin]
=============================================================================
