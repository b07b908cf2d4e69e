SPECIFICATION Spec
CONSTANTS
  Programs <- TwoDeclarations
  Values <- MCValues
  Reasons <- MCReasons
  KeyOrder <- MCKeyOrder
  MaxAwaits = 2
  Lossy = {}
  Unguarded = {}
INVARIANTS Transparent
CHECK_DEADLOCK FALSE
