\* Four listings of one product, and titles of up to three phrases.
SPECIFICATION Spec
CONSTANTS
  Null = null
  None = none
  SearchK = 3
  MinComps = 2
  MaxRows = 4
  Kinds <- SomeKinds
  Items <- SomeItems
  Leap = 22
  MaxDay = 22
INVARIANT TypeOK
INVARIANT KitIsOneOffer
INVARIANT MissingIsBareOrBroken
INVARIANT RelistedIsNoComp
INVARIANT EstimateSplitsTheWeight
INVARIANT KeyedDealsAreFound
INVARIANT UnusableOnlyBySharedPhoto
PROPERTY QuickSaleIsLostOnlyToATwin
CHECK_DEADLOCK FALSE
