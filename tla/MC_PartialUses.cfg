CONSTANTS
  Keys = {0, 1, 5, 7, 12, 14}
  Vals = {r1, r2}
  NoVal = NoVal
  ExpectedCounts = {0, 1, 3}
  SlotBytes = 12
  GrowRows = 4
SPECIFICATION Spec
INVARIANTS
  SlotsBacked
  LoadAccounting
  PrimeSearchCorrect
PROPERTY
  RefinesUseMap
