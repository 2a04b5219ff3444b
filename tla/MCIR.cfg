CONSTANTS
    Block = {b1, b2}
    Instr = {i1, i2, i3}
    Callee = {f}
    Opcodes = {"const", "bin", "ret", "br", "phi", "check", "call"}
    End = End
    Freed = Freed
SYMMETRY IRSymmetry
SPECIFICATION Spec
CHECK_DEADLOCK FALSE
INVARIANTS
    OperandsExist
    PhisBeforeFirstNonPhi
PROPERTIES
    UsersWrongOnly
    GoesWrongOnly
