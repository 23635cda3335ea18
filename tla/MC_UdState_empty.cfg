CONSTANTS
  AddrBits = 3
  MaxAffectedCount = 2
  Sizes = {0, 1, 2}
  AccessLimit = 7
  MaxDefs = 4
  MaxReads = 1
SPECIFICATION MCSpec
INVARIANTS
  LiveMapPartition
