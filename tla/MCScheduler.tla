---------------------------- MODULE MCScheduler -----------------------------
(* Bounded instances of Scheduler.                                         *)
EXTENDS Scheduler

CONSTANTS s1, s2, o1
=============================================================================
