CONSTANTS
    NumBlocks = 4
    Functions <- MCFunctions
SPECIFICATION Spec
INVARIANTS
    IDomIsImmediate
    LoopsAreNatural
    LoopsNest
    EveryBlockOnce
    DominatorsFirst
