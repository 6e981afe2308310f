\* Three tasks on two queues, two listings, one API thread.
SPECIFICATION Spec
CONSTANTS
  Table <- ThreeTasks
  Interval <- IngestLessOften
  QueueOf <- TheirQueues
  Wanted = "embed"
  Clients = {c1}
  Scheduler = scheduler
  None = none
  MaxFaults = 2
  Listings = {1, 2}
  Captured = {1}
  Photos = {}
  Chunk = 1
  Limit = 1
  MaxCaptures = 1
INVARIANT JobsDoNotPileUp
PROPERTY RunIsBackedByAJob
PROPERTY TasksKeepRunning
PROPERTY PendingIsEmbedded
