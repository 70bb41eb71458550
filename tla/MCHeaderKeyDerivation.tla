------------------------ MODULE MCHeaderKeyDerivation ------------------------
(* Instances of HeaderKeyDerivation for TLC. *)
EXTENDS HeaderKeyDerivation, TLC

CONSTANTS w1, w2, w3

TwoWorkers == {w1, w2}
ThreeWorkers == {w1, w2, w3}

Symmetry == Permutations(Workers)

=============================================================================
