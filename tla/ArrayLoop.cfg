SPECIFICATION Spec
CONSTANTS
  Params <- MCParams
  Fns <- MCFns
  Structs <- MCStructs
  Declared <- MCDeclared
  BinOps = {"+"}
  MaxNodes = 1
INVARIANT ForVisitsAll
CHECK_DEADLOCK FALSE
