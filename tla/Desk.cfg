CONSTANTS
    Names = {1, 2, 3}
    Dotted = {1}
    MaxDepth = 2
    FirstTree <- MCFirstTree
    MaxChanges = 1
    Rows = 2
    Gone = Gone
    Tels = {"t1", "t2"}
    MaxNodes = 4
    NoData = NoData
SPECIFICATION DeskSpec
CHECK_DEADLOCK FALSE
INVARIANTS
    SelectionInList
    WindowShowsSelection
    WellLinked
PROPERTIES
    UpIsUndone
    KeepsBook
