\* A caller that only deletes at the end of a chain.
SPECIFICATION SafeSpec
CONSTANTS
    a = a
    b = b
    c = c
    d = d
    nil = nil
    Keys <- MCKeys
    Vals = {1, 2}
    Cap = 3
    Hash <- MCHash
    NoKey = nil
    Missing = 9
INVARIANTS ChainsIntact NoDuplicates HasIffStored
PROPERTIES ImplementsMap
CHECK_DEADLOCK FALSE
