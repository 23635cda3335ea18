CONSTANTS
  AddrBits = 3
  MaxAffectedCount = 2
  Sizes = {1, 2, 3}
  AccessLimit = 6
  MaxDefs = 4
  MaxReads = 1
SPECIFICATION MCSpec
INVARIANTS
  TypeOK
  LiveMapPartition
  LiveWriterIsLatest
  ReadsResolved
