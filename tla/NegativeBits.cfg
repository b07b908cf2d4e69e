\* The operators &, | and ^ on values of a limb or two, with one negative operand.
SPECIFICATION BigIntsSpec
CONSTANTS
  W = 4
  DECIMAL = 3
  MAX_EXP_BITS = 2
  MAX_SHIFT_BITS = 4
  MAX_MASK = 14
  FirstValues <- OnlyZero
  MaxValue = 255
  Operands <- OneNegative
  BitCounts <- SomeBitCounts
  Halves <- SomeHalves
  Radices <- SomeRadices
PROPERTY BitwiseExact
CHECK_DEADLOCK FALSE
