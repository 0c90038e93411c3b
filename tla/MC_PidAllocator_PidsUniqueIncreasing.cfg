CONSTANTS
    Width <- MC_Width
    MaxCalls <- MC_MaxCalls
SPECIFICATION Spec
INVARIANT PidsUniqueIncreasing
