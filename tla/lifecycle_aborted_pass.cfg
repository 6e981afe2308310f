\* One worker; get_item may fail on one item and so lose the whole pass.
SPECIFICATION HSpec
CONSTANTS
  Listings = {l1, l2}
  Slots = {worker}
  CheckSlots = {worker}
  IngestSlots = {worker}
  Budget = 2
  Reserve = 0
  Quotas = {2}
  ProvenAlive = 0
  StaleAfter = 9
  UnseenAfter = 9
  Faults = {"blip", "itemError"}
  MaxTime = 4
PROPERTY TwoConsecutiveMisses
