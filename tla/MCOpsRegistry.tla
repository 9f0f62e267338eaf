---------------------------- MODULE MCOpsRegistry ----------------------------
(* Small instances of OpsRegistry for TLC. *)
EXTENDS OpsRegistry, TLC

CONSTANTS k1, p1, p2, a1, c1, c2, c3

Symmetry == Permutations(People) \cup Permutations(Calls)
=============================================================================
