---------------------------- MODULE MCScheduler ----------------------------
(* Instances of Scheduler for TLC: one recurring job, two one-shots.       *)
EXTENDS Scheduler

CONSTANTS cron, once1, once2, t1, t2
=============================================================================
