---------------------------- MODULE MCCheckQueue ----------------------------
(* CheckQueue for TLC. *)
EXTENDS CheckQueue, TLC

CONSTANTS w1, w2, m1, m2, c1, c2, c3, c4
=============================================================================
