SPECIFICATION FairSpec
CONSTANTS
  c1 = c1
  c2 = c2
  Callers = {c1, c2}
  Ops = {"command", "update"}
  Names = {"getUID", "getAWB"}
  DevTable <- MCDevTable
  DevResult <- MCDevResult
  Faults = {"fail", "late", "lose", "dup"}
  CRP_RETRIES = 2
  MaxPipe = 2
  MaxXdata = 0
  MaxBlobs = 0
  ReadSizes = {}
  MaxResets = 0
  PIXY_BLOCK_CAPACITY = 1
INVARIANTS
  ObjectAlive
  OpenIsConnected
PROPERTIES
  CloseEnds
  MutexIsReleased
