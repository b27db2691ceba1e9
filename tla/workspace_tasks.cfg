SPECIFICATION FairSpec
CONSTANTS
    Procs = {"p1", "p2"}
    Sources = {"s", "t"}
    Target = "s"
    Selections <- MCSelections
    Keys = {"k1", "k2"}
    Formats = {"export-markdown"}
    MaxEdits = 1
    MaxCrashes = 1
    MaxCalls = 3
INVARIANT RecordsHonest
PROPERTY ResultGetsBound
CHECK_DEADLOCK FALSE
