\* A deleted key comes back when its chain is mended.
SPECIFICATION UseSpec
CONSTANTS
    a = a
    b = b
    c = c
    nil = nil
    Keys <- MCKeys
    Vals = {1, 2}
    Cap = 3
    Hash <- MCHash
    NoKey = nil
    Missing = 9
INVARIANTS DeletedStaysDeleted
CHECK_DEADLOCK FALSE
