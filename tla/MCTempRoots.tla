---------------------------- MODULE MCTempRoots ----------------------------
(* Model-checking instances of TempRoots.                                  *)
EXTENDS TempRoots, TLC

CONSTANTS s1, s2, w1, w2, c1, c2

Symmetry == Permutations({s1, s2}) \cup Permutations({w1, w2}) \cup Permutations({c1, c2})

=============================================================================
