CONSTANTS
    QCap <- MC_QCapSmall
    SCap <- MC_SCap
    MaxReads <- MC_MaxReads
    MaxKeys <- MC_MaxKeysMany
SPECIFICATION Spec
INVARIANT SleepOnlyWhenIdle
