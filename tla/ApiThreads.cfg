SPECIFICATION Spec
CONSTANTS
  t1 = t1
  t2 = t2
  d1 = d1
  d2 = d2
  d3 = d3
  d4 = d4
  u1 = u1
  u3 = u3
  u4 = u4
  Threads = {t1, t2}
  DeviceList <- MCDeviceList
  Uid <- MCUid
  MaxCount = 3
  Handles = {h1, h2, h3, h4}
  None = None
INVARIANTS
  TypeOK
  HandlesOwned
  CallHasLink
PROPERTIES
  ReleasedFirst
  ReportedUsable
SYMMETRY
  HandleSymmetry
