-------------------------------- MODULE MCReview --------------------------------
(* Small instances of Review for TLC. *)
EXTENDS Review, TLC

CONSTANTS o1, o2, t1, t2, a1, a2
=============================================================================
