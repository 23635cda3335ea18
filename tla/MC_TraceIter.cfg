CONSTANTS
  MaxSeq = 3
  Targets = {0, 1}
  EntryBits = 3
  Files <- MCFiles
  Magics = {"4M", "M8", "XX"}
  HdrLens = {8}
  Cuts = {0, 4}
  MaxRecs = 3
  RecordsOf <- WellFormed
SPECIFICATION FairSpec
INVARIANTS
  TypeOK
  CursorAtEntry
  SeekLandsOnInsn
  FieldsDecode
  SeekMatchesUdTrace
PROPERTY
  SeekReturns
