--------------------------- MODULE MCProjectSetup ---------------------------
(* Two commands, two states of the sources, one Decision. *)
EXTENDS ProjectSetup, TLC

CONSTANTS c1, c2, s1, s2, d1
Symmetry == Permutations({c1, c2})
=============================================================================
