CONSTANTS
    NumBlocks = 5
    Fuel = 4
    Families <- MCFamilies
    Inputs <- MCInputs
    Width <- MCWidth
    End = End
    Freed = Freed
SPECIFICATION Spec
PROPERTIES
    StepsKeepMeaning
    ListsStayKnown
    GoesWrongOnly
    FoldsAll
