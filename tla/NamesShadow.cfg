\* A local variable with the name of a function.
SPECIFICATION Spec
CONSTANTS
    Locals = {"x", "f"}
    VexFns = {"f"}
    ExternFns = {"e"}
    Builtins = {"print"}
    LoopIndex = "_i"
    SelfRef = FALSE
    MaxStmts = 4
    MaxDepth = 2
    MaxUses = 1
INVARIANTS SameMeaning
CHECK_DEADLOCK FALSE
