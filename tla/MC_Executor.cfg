CONSTANTS
    QCap <- MC_QCapSmall
    SCap <- MC_SCap
    MaxReads <- MC_MaxReads
    MaxKeys <- MC_MaxKeysMany
SPECIFICATION Spec
INVARIANTS
    TypeOK
    NoLostWakeup
    NoTaskQueueOverflow
PROPERTY KeysPrinted
