CONSTANTS
  Targets = {0, 1, 2}
  EntryBits = 3
  Files <- MCFiles
  Magics = {"4M", "M8", "XX"}
  HdrLens = {8}
  Cuts = {0, 4}
  MaxSeq = 3
  MaxRecs = 2
  RecordsOf <- WithZeroLength
SPECIFICATION FairSpec
PROPERTY SeekReturns
