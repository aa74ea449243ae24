\* Two processes on one file.
SPECIFICATION Spec
CONSTANTS
    p1 = p1
    p2 = p2
    Procs <- MCProcs
    Lengths = {2, 3}
    BufSize = 2
    MaxCalls = 3
INVARIANTS TypeOK ReadsWhole AppendsSurvive
PROPERTIES WritesAlone
SYMMETRY Symmetry
CHECK_DEADLOCK FALSE
