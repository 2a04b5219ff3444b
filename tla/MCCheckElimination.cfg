CONSTANTS
    NumBlocks = 4
    Functions <- MCFunctions
    Checks <- MCChecks
SPECIFICATION Spec
INVARIANTS
    StillChecked
    NoneTooMany
