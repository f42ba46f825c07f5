SPECIFICATION Spec
CONSTANTS
  MaxInt = 2047
  LargestWhole = 60
CHECK_DEADLOCK FALSE
INVARIANT
  AmountsPrecise
