------------------------------ MODULE MCProcurement ------------------------------
(* Small instances of Procurement for TLC. *)
EXTENDS Procurement, TLC

CONSTANTS b1, b2, b3, d1, d2, t1, t2

(* One supplier has two rows: he can bid twice, or withdraw and bid again.  *)
TwoSuppliers == b1 :> b1 @@ b2 :> b1 @@ b3 :> b3

(* Operators disabled nothing, or the winner's notice.                      *)
AnySilence == {{}, {"RFQ_AWARDED"}}
NoSilence == {{}}

Symmetry == Permutations({d1, d2}) \cup Permutations({t1, t2})
=============================================================================
