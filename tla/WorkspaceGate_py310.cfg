SPECIFICATION Spec
CONSTANTS
  r1 = r1
  r2 = r2
  r3 = r3
  w1 = w1
  w2 = w2
  Readers <- TwoReaders
  Writers <- TwoWriters
  Recurring <- TwoReaders
  NotifyOnCancel = FALSE
INVARIANTS
  TypeOK
  CountersMatch
  Exclusion
PROPERTIES
  LeaseSpec
  WriterNotStarved
CHECK_DEADLOCK FALSE
