---------------------------- MODULE MCSettlement ----------------------------
(* Small instances of Settlement for TLC. *)
EXTENDS Settlement, TLC

CONSTANTS c1, c2, i1, s1, s2, t1, t2

MCContribution == [p \in {c1, c2, i1} \cap Pledges |-> IF p = c1 THEN 2 ELSE 1]

(* The settlers run the same code on the same rows. *)
SettlerSymmetry == Permutations(Settlers)
=============================================================================
