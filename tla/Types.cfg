SPECIFICATION Spec
CONSTANTS
  Params <- MCParams
  Fns <- MCFns
  Structs <- MCStructs
  Declared <- MCDeclared
  BinOps = {"+", "-", "=="}
  MaxNodes = 2
INVARIANTS
  TypesAgree
  StoredAsChecked
  MutabilityKept
CHECK_DEADLOCK FALSE
