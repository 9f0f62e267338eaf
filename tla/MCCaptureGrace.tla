---------------------------- MODULE MCCaptureGrace ----------------------------
(* Small instances of CaptureGrace for TLC. *)
EXTENDS CaptureGrace, TLC

CONSTANTS c1, i1, w1, w2, o1, t1, d1
=============================================================================
