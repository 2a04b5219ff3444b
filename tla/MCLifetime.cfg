CONSTANTS
    SizeMax = 8
    MaxEnd = 7
SPECIFICATION Spec
INVARIANTS
    Separated
    QueriesMeanPoints
PROPERTIES
    ImplementsPoints
