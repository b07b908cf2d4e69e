\* Three holders and one key; at most two accessors and loops run at a time.
SPECIFICATION Spec
CONSTANTS
  h1 = h1
  h2 = h2
  h3 = h3
  v1 = v1
  f1 = f1
  Undef = Undef
  NoFn = NoFn
  None = None
  Absent = Absent
  Holders <- ThreeHolders
  FirstKinds <- ObjectFirst
  Default <- BuiltIn
  FirstProtos <- UnderSecond
  KeyOrder <- OneKey
  Vals <- TwoVals
  Fns <- OneFn
  Descriptors <- SomeDescriptors
  MaxDepth = 2
INVARIANTS HeldSteady AttributesKept
PROPERTIES LockedStays
\* a run ends where the program panics or hangs
CHECK_DEADLOCK FALSE
