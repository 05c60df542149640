------------------------------ MODULE MCScheduler ------------------------------
(***************************************************************************)
(* A small fleet for Scheduler: two processes of which one drives a run of *)
(* its own.  Liveness is checked with MCSchedulerLiveness.                 *)
(***************************************************************************)
EXTENDS Scheduler

=============================================================================
