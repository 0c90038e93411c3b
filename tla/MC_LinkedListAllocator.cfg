CONSTANTS
    HeapStart <- MC_HeapStart
    HeapSize <- MC_HeapSize
    Sizes <- MC_Sizes
    Aligns <- MC_Aligns
SPECIFICATION Spec
INVARIANTS
    NoOverlap
    LiveAligned
    FreeRegionsHoldNode
