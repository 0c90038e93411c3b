CONSTANTS
    MaxPid <- MC_MaxPid
    QUANTUM <- MC_Quantum

SPECIFICATION LockSpec

INVARIANT NoSchedulerSelfDeadlock
