SPECIFICATION Spec
CONSTANTS
  c1 = c1
  c2 = c2
  Callers = {c1, c2}
  Ops = {"command", "update"}
  Names = {"getUID", "getAWB", "version", "unknown"}
  DevTable <- MCDevTable
  DevResult <- MCDevResult
  Faults = {"fail"}
  CRP_RETRIES = 3
  MaxPipe = 4
  MaxXdata = 1
  MaxBlobs = 0
  ReadSizes = {}
  MaxResets = 0
  PIXY_BLOCK_CAPACITY = 1
SYMMETRY CallerSymmetry
INVARIANTS
  TypeOK
  CommandAnswered
  ProcsSound
