\* Two sessions and two requests of the API on one listing's columns; a check
\* and an ingest beside it on its status and clocks.
SPECIFICATION SessionsSpec
CONSTANTS
  Null = null
  None = none
  Sources = {"ebay", "depop"}
  Writers = {w1, w2}
  Offers <- SomeOffers
  Captures <- SomeCaptures
  Bodies <- SomeBodies
  MaxTx = 4
  Threads = {t1, t2}
  MaxRequests = 2
SYMMETRY Symmetry
INVARIANT TypeOK
 
INVARIANT KeptPricesAreOnRecord
INVARIANT HiddenInSightIsRaced
INVARIANT StaleStrikeIsRaced
PROPERTY SoldIsFinal
PROPERTY ClocksAdvance
PROPERTY KnowledgeStays
PROPERTY OnlyMovesAreRecorded
CHECK_DEADLOCK FALSE
