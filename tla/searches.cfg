\* Two requests at a time; two of four searches fit the allowance.
SPECIFICATION Spec
CONSTANTS
  Ids = {i1, i2, i3, i4}
  None = none
  Keywords = {k1, k2}
  Threads = {t1, t2}
  Day = 5
  IngestInterval = 2
  CheckInterval = 4
  CheckBudget = 1
  DailyLimit = 6
SYMMETRY Symmetry
INVARIANT TypeOK
INVARIANT OvershootBounded
INVARIANT CopiesBounded
INVARIANT OffCostsOneCallAtMost
INVARIANT MostFailedIsHeard
