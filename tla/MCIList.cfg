CONSTANTS
    List = {l1, l2}
    Node = {n1, n2, n3, n4}
    Null = Null
    SpliceInPlace = FALSE
SPECIFICATION Spec
INVARIANTS
    LinksInverse
    SizeIsLength
    EachNodeOwnedOnce
PROPERTIES
    ImplementsSequences
