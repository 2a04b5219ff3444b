CONSTANTS
    Instr = {i1, i2, i3, i4}
    NumRegs = 2
    MaxPoint = 4
    HeapReused = FALSE
SPECIFICATION Spec
INVARIANTS
    NoSharedRegister
    FreeRegisterFoundIfEndsDiffer
    SpillOnlyUnderPressure
PROPERTIES
    SpillsTheLast
    ImplementsAssignment
    AllPlaced
