---------------------------- MODULE MCScheduler -----------------------------
(* Two instances, a job of one fetch and a history job of up to two, and   *)
(* pools of two connections: as many as there are jobs.                    *)
EXTENDS Scheduler
=============================================================================
