------------------------------ MODULE MCScheduler ------------------------------
(* Scheduler for TLC: no timeout, none, and one of a millisecond. *)
EXTENDS Scheduler

AllTimeouts == {-1, 0, 1}
===============================================================================
