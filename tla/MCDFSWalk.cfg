CONSTANT NumBlocks = 3
SPECIFICATION Spec
INVARIANTS
    TypeOK
    CallsNest
    AncestorsByTime
    PostOrderForward
    FindsReachable
