CONSTANTS
  AddrBits = 2
  MaxAffectedCount = 1
  Pcs = {4}
  InsnSeqs = {1, 2}
  AheadRecords = TRUE
  Accesses <- MCAccesses
  MaxRows = 4
SPECIFICATION Spec
CONSTRAINT StreamBound
INVARIANT
  CodeIndicesInBounds
