\* An ingest run in which every search fails.
SPECIFICATION Spec
CONSTANTS
  Ids = {i1, i2, i3}
  None = none
  Keywords = {k1, k2}
  Threads = {t1}
  Day = 5
  IngestInterval = 2
  CheckInterval = 4
  CheckBudget = 1
  DailyLimit = 9
INVARIANT SystematicFaultIsHeard
