\* Three listings compete for a pass of two calls.
SPECIFICATION Spec
CONSTANTS
  Listings = {l1, l2, l3}
  Budget = 2
  Poison = {}
  MaxErrors = 2
  Watched = l1
CHECK_DEADLOCK FALSE
INVARIANT NobodyOvertakesTwice
PROPERTY WatchedComesRound
