\* Every import graph of three files, one of which has two paths.
SPECIFICATION DSpec
CONSTANTS
    Paths <- MCPaths
    Idents = {"a", "b", "c"}
    Programs <- MCPrograms
INVARIANTS OpenedOnce MergesAll FailsForAReason ImportsComeFirst ExitCodeTells TempRemoved
PROPERTIES OutputKept Exits
CHECK_DEADLOCK FALSE
