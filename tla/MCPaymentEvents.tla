---------------------------- MODULE MCPaymentEvents ----------------------------
(* Small instances of PaymentEvents for TLC. *)
EXTENDS PaymentEvents, TLC

CONSTANTS p1, p2, o1, d1

OneBacker == [p \in Pledges |-> p1]
=============================================================================
