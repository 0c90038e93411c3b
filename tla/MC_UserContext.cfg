CONSTANTS
    Width <- MC_Width
    Entries <- MC_Entries
    StackTops <- MC_StackTops
    Roots <- MC_Roots
SPECIFICATION Spec
INVARIANTS
    ContextContract
