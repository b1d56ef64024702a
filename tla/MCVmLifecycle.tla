--------------------------- MODULE MCVmLifecycle ---------------------------
(* Model-checking instances of VmLifecycle.                                *)
EXTENDS VmLifecycle, TLC

CONSTANTS n1, n2, o1, o2, o3, c1, c2

\* Owners are drawn at random and play no other role; so do the clients.
Symmetry ==
    Permutations({n1, n2}) \cup Permutations({o1, o2}) \cup Permutations({c1, c2})

=============================================================================
