SPECIFICATION Spec
CONSTANTS
  Coloured <- MCColoured
  MaxRows = 5
  MaxFiltered = 1
  HeapFails = TRUE
INVARIANTS
  TypeOK
  NeverSplit
  CurrentIsFresh
  ActiveOrdered
  BoxIsExact
  FinishedSorted
  PixelsKept
PROPERTIES
  FrameKeepsBlobs
