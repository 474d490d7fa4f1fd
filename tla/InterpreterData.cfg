SPECIFICATION FairSpec
CONSTANTS
  c1 = c1
  Callers = {c1}
  Ops = {"command", "update"}
  Names = {"getUID"}
  DevTable <- MCDevTable
  DevResult <- MCDevResult
  Faults = {}
  CRP_RETRIES = 2
  MaxPipe = 3
  MaxXdata = 2
  MaxBlobs = 2
  ReadSizes = {3}
  MaxResets = 1
  PIXY_BLOCK_CAPACITY = 3
INVARIANTS
  FramesBounded
  StaleIsRetrieved
  BlocksAreNewest

  
