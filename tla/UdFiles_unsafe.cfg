CONSTANTS
  GrowRows = 2
  Words = {4, 8}
  Expected = {0, 1}
  Machines = {"EM_X86_64", "EM_S390", "EM_PPC"}
  HostEndianness = "Little"
  MaxRows = 2
  MaxBuilds = 2
SPECIFICATION Spec
INVARIANTS
  LoadedGraphSafe
