-------------------------- MODULE MCCronScheduler --------------------------
(* Instances of CronScheduler for TLC. *)
EXTENDS CronScheduler

MCSchedules == {[kind |-> "at", n |-> 2], [kind |-> "every", n |-> 1]}
=============================================================================
