CONSTANTS
    NumBlocks = 3
    Fuel = 20
    Families <- MCFamilies
    Inputs <- MCInputs
    Width <- MCWidth
    End = End
    Freed = Freed
SPECIFICATION Spec
INVARIANTS
    KeepsMeaning
    GoesWrongOnly
    StaleOnlyBehind
