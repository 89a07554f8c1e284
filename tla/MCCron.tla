------------------------------- MODULE MCCron -------------------------------
(* Cron for TLC: the processes are interchangeable.                         *)
EXTENDS Cron, TLC

ProcSymmetry == Permutations(Procs)
=============================================================================
