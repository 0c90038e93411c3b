CONSTANTS
    MaxPid <- MC_MaxPid
    QUANTUM <- MC_Quantum

SPECIFICATION Spec

INVARIANT QueueIsReadySet
