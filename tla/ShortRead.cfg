SPECIFICATION Spec
CONSTANTS
  c1 = c1
  Callers = {c1}
  Ops = {"command"}
  Names = {"getUID"}
  DevTable <- MCDevTable
  DevResult <- MCDevResult
  Faults = {"dup"}
  CRP_RETRIES = 2
  MaxPipe = 1
  MaxXdata = 3
  MaxBlobs = 2
  ReadSizes = {1}
  MaxResets = 0
  PIXY_BLOCK_CAPACITY = 3
INVARIANTS
  StaleIsRetrieved
