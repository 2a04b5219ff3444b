CONSTANTS
    NumBlocks = 4
    SizeMax = 40
    MaxEnd = 30
    Functions <- MCFunctions
    Instructions <- MCInstructions
SPECIFICATION Spec
INVARIANTS
    LifetimesCover
    LifetimesTight
    LiveIntoHeaders
    SegmentFoundStartsHere
