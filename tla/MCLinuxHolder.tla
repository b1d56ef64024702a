--------------------------- MODULE MCLinuxHolder ---------------------------
(* Small instances of LinuxHolder for TLC.                                 *)
EXTENDS LinuxHolder, TLC

CONSTANTS c1, c2, p1, p2, b1, b2, b3, r1, r2, w1, w2

Symmetry ==
    Permutations(Clients) \cup Permutations(Pids) \cup Permutations(Births)
        \cup Permutations(Paths) \cup Permutations(Ids)

=============================================================================
