\* Three listings compete for a pass of two calls.
SPECIFICATION Spec
CONSTANTS
  Listings = {l1, l2}
  Budget = 2
  Poison = {l2}
  MaxErrors = 0
  Watched = l1
CHECK_DEADLOCK FALSE
PROPERTY SteadyRotationComesRound
