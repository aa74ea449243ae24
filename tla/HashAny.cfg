\* Any caller: deletes in the middle of a chain included.
SPECIFICATION UseSpec
CONSTANTS
    a = a
    b = b
    c = c
    nil = nil
    Keys <- MCKeys
    Vals = {1, 2}
    Cap = 3
    Hash <- MCHash
    NoKey = nil
    Missing = 9
INVARIANTS TypeOK LenExact OnlyOwnValues
PROPERTIES SetVisible OthersKeepValue
CHECK_DEADLOCK FALSE
