CONSTANTS
    NumBlocks = 4
    Functions <- OrderedFunctions
SPECIFICATION Spec
INVARIANT LoopVerticesWhite
