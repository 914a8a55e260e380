---------------------------- MODULE MCScheduler ----------------------------
(* Scheduler for TLC. *)
EXTENDS Scheduler, TLC

CONSTANTS t1, t2, p1, j1
=============================================================================
