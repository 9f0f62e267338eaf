-------------------------------- MODULE MCIntake --------------------------------
(* Small instances of Intake for TLC. *)
EXTENDS Intake, TLC

CONSTANTS p1, p2, p3, r1, r2

(* The third pledge is the first backer's second, and a BNPL intent.        *)
TwoBackers == p1 :> p1 @@ p2 :> p2 @@ p3 :> p1

Symmetry == Permutations({r1, r2})
=============================================================================
