CONSTANTS
    Instr = {i1, i2, i3}
    NumRegs = 2
    MaxPoint = 4
    HeapReused = FALSE
SPECIFICATION OneBlockSpec
INVARIANT FreeRegisterFound
