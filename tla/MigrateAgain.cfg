SPECIFICATION Spec
CONSTANTS
  m1 = m1
  m2 = m2
  Migrator = {m1}
  MaxCrashes = 1
CHECK_DEADLOCK FALSE
INVARIANT
  AmountsInCents
