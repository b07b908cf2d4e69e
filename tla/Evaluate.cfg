SPECIFICATION Spec
CONSTANTS
  Programs <- MCPrograms
  Values <- MCValues
  Reasons <- MCReasons
  KeyOrder <- MCKeyOrder
  MaxAwaits = 2
  Lossy <- MCLossy
  Unguarded <- MCUnguarded
INVARIANTS Transparent ContextRestored FinallyOnce ConstantsKept
CHECK_DEADLOCK FALSE
