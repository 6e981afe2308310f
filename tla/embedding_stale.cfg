\* Two API threads capture one listing, an ingest adds another.
SPECIFICATION Spec
CONSTANTS
  Table <- OneTask
  Interval <- EveryPoll
  QueueOf <- TheirQueues
  Wanted = "embed"
  Clients = {c1, c2}
  Scheduler = scheduler
  None = none
  MaxFaults = 1
  Listings = {1, 2}
  Captured = {1}
  Photos = {p1, p2}
  Chunk = 2
  Limit = 2
  MaxCaptures = 2




INVARIANT VectorShowsThePhoto
