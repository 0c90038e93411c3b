---------------------------- MODULE MC_KernelLock ----------------------------
(* Model-checking instance of KernelLock: three PIDs, the code's quantum.  *)
EXTENDS KernelLock

MC_MaxPid == 3
MC_Quantum == 5
=============================================================================
