SPECIFICATION Spec
CONSTANTS
  c1 = c1
  Callers = {c1}
  Ops = {"command"}
  Names = {"getUID", "version"}
  DevTable <- MCDevTable
  DevResult <- MCDevResult
  Faults = {}
  CRP_RETRIES = 3
  MaxPipe = 3
  MaxXdata = 1
  MaxBlobs = 0
  ReadSizes = {}
  MaxResets = 0
  PIXY_BLOCK_CAPACITY = 1
INVARIANTS
  VersionFromResponse
