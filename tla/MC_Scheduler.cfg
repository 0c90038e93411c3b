CONSTANTS
    MaxPid <- MC_MaxPid
    QUANTUM <- MC_Quantum

SPECIFICATION Spec

INVARIANT TypeOK
INVARIANT RunningIsCurrent
INVARIANT ReadyInQueue
INVARIANT NoDanglingPid
PROPERTY RoundRobinRotation
