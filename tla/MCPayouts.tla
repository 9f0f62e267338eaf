------------------------------ MODULE MCPayouts ------------------------------
(* Small instances of Payouts for TLC. *)
EXTENDS Payouts, TLC

CONSTANTS m1, m2, c1, c2, o1, o2, t1, t2, w1, w2

(* Two milestones of half the money each. *)
Halves == [m \in Milestones |-> 50]

Recovered == [c \in {c1} |-> 2]
Backers == [c \in {c2} |-> 2]
Nobody == [c \in {} |-> 0]

FaultSymmetry == Permutations(Milestones) \cup Permutations(Tabs)
=============================================================================
