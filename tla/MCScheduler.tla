---------------------------- MODULE MCScheduler ----------------------------
(* A small instance of Scheduler for TLC. *)
EXTENDS Scheduler

CONSTANTS w1, w2, w3

ThreeWorkers == {w1, w2, w3}

=============================================================================
