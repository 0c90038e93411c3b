---------------------------- MODULE MC_Scheduler ----------------------------
(* Model-checking instance of Scheduler: three PIDs, the code's quantum.   *)
EXTENDS Scheduler

MC_MaxPid == 3
MC_Quantum == 5
=============================================================================
