\* Either implementation at either end; schema headers from Vex to Vex.
SPECIFICATION Spec
CONSTANTS
    B = 8
    W = 8388608
    Items <- MCItems
    Cap = 15
    MaxItems = 2
    Ends <- MCEnds
INVARIANTS TypeOK GotIsSent CodecLaw
PROPERTIES FailsOnlyWhenShort AllArrive
CHECK_DEADLOCK FALSE
