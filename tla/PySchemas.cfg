\* Values and records between two processes.
SPECIFICATION Spec
CONSTANTS
    B = 8
    W = 8388608
    Procs = {"p", "q"}
    Startup <- MCStartup
    Values <- MCValues
    Records <- MCRecords
INVARIANTS RoundTrip CutIsNoticed
CHECK_DEADLOCK FALSE
