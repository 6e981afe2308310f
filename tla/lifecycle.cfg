\* One worker, as deployed, with every fault.
SPECIFICATION HSpec
CONSTANTS
  Listings = {l1, l2}
  Slots = {worker}
  CheckSlots = {worker}
  IngestSlots = {worker}
  Budget = 2
  Reserve = 1
  Quotas = {1, 2, 3}
  ProvenAlive = 0
  StaleAfter = 1
  UnseenAfter = 1
  Faults = {"blip", "quota", "itemError", "searchError", "crash"}
  MaxTime = 3
SYMMETRY Symmetry
INVARIANT TypeOK
INVARIANT StrikeOutlivesNoSighting
PROPERTY KeepsContract
PROPERTY OneMissOnlyAfterLostNews
