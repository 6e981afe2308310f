\* Six calls a day, of which two are reserved, and attempts that fail at once, in
\* ten seconds or late; three deals, two per message.
SPECIFICATION Spec
CONSTANTS
  Limit = 6
  Reserve = 2
  Configured = 3
  Candidates = 3
  Searches = 2
  Durations = {0, 10, 11, 20, 30, 60}
  Listings = {1, 2, 3}
  MaxAlerts = 2
  MaxScans = 4
  MaxFaults = 2
  NoScan = none
INVARIANT TypeOK
INVARIANT ReserveIsLeft
INVARIANT LapsesOnlyAfterSlowAttempts
INVARIANT FeedIsNoOlderThanItSays
INVARIANT RepeatsAreFaults
INVARIANT SilentOnlyForABetterOne
CHECK_DEADLOCK FALSE
