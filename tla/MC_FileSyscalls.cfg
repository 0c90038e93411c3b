CONSTANTS
    n1 = n1
    n2 = n2
    Name <- MC_Name
    MaxIno <- MC_MaxIno
    MaxFd <- MC_MaxFd
    MaxSize <- MC_MaxSize
    MaxLen <- MC_MaxLen
SPECIFICATION Spec
INVARIANTS
    TypeOK
    StdioPinned
    OffsetWithinFile
PROPERTY
    LowestFreeFd
