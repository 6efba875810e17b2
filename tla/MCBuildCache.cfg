SPECIFICATION Spec
CONSTANTS
    Units <- MCUnits
    Kind <- MCKind
    Files <- MCFiles
    Sources <- MCSources
    Headers <- MCHeaders
    OutputsIn <- MCOutputsIn
    Imports <- MCImports
    Closure <- MCClosure
    Requests <- MCRequests
    MaxClock = 3
    MaxBuilds = 3
    MaxEdits = 1
INVARIANTS FreshUnlessRaced ConfigKept SecondBuildReuses OutputIsLinked
CHECK_DEADLOCK FALSE
