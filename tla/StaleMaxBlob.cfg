SPECIFICATION Spec
CONSTANTS
  m_mergeDist = 1
  m_maxCodedDist = 1
  MAX_BLOBS = 9
  MAX_COLOR_CODE_MODELS = 5
  Signatures = {1, 2, 3}
  CodeTypes = {1, 2}
  Frames <- MCFrames
  ParamSets <- MCParams
  MAX_BLOBS_PER_MODEL = 3
  MIN_AREA = 2
  MIN_COLOR_CODE_AREA = 4
INVARIANTS
  MaxBlobAmongBlobs
