SPECIFICATION FairSpec
CONSTANTS
  m1 = m1
  m2 = m2
  Migrator = {m1, m2}
  MaxCrashes = 2
CHECK_DEADLOCK FALSE
INVARIANTS
  RecordedMeansApplied
  SeededOnce
  CentsUnlessInterrupted
PROPERTY
  MigratesEventually
