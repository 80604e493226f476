---------------------------- MODULE MCJsonlFile ----------------------------
(* Instances of JsonlFile for TLC. *)
EXTENDS JsonlFile, TLC

CONSTANTS c1, c2, c3, c4, c5

FiveAppends == {c1, c2, c3, c4, c5}
TwoWide     == {c1, c2}

AppendSymmetry == Permutations({c1, c2}) \cup Permutations({c3, c4, c5})
=============================================================================
