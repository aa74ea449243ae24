\* Local names that no function has, no initializer that names its own variable.
SPECIFICATION Spec
CONSTANTS
    Locals = {"x", "y"}
    VexFns = {"f"}
    ExternFns = {"e"}
    Builtins = {"print"}
    LoopIndex = "_i"
    SelfRef = FALSE
    MaxStmts = 4
    MaxDepth = 2
    MaxUses = 1
INVARIANTS SameMeaning ChainsAgree
CHECK_DEADLOCK FALSE
