\* An array of at most three elements under a sort or another method, a
\* collection of three keys with two iterators and two calls of forEach, a value
\* of few limbs of four bits, or three generators that run each other.
SPECIFICATION Spec
CONSTANTS
  e1 = e1
  e2 = e2
  k1 = k1
  k2 = k2
  k3 = k3
  x1 = x1
  it1 = it1
  it2 = it2
  Undefined = Undefined
  Elements <- ThreeElements
  Ranks <- TwoRanks
  SPARSE_GAP = 0
  DENSE_LIMIT = 2
  MaxLength = 3
  MaxCalls = 1
  MaxChanges = 1
  Keys <- ThreeKeys
  Vals <- OneVal
  FirstItems <- SomeItems
  Iterators <- TwoIterators
  MaxMade = 4
  MaxLoops = 2
  W = 4
  DECIMAL = 3
  MAX_EXP_BITS = 2
  MAX_SHIFT_BITS = 4
  MAX_MASK = 14
  FirstValues <- SomeFirst
  MaxValue = 255
  Operands <- SignedTwoLimbs
  BitCounts <- SomeBitCounts
  Halves <- SomeHalves
  Radices <- SomeRadices
  g1 = g1
  g2 = g2
  g3 = g3
  Gens <- ThreeGens
  MaxYields = 2
  MaxBodies = 3
INVARIANTS IndexExact YieldsOnce ReadableBelowLength ResultsSound OwnYields
PROPERTY OperatorsExact
\* a collection that panicked does nothing more
CHECK_DEADLOCK FALSE
