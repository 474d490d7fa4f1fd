SPECIFICATION Spec
CONSTANTS
  u = u
  v = v
  Values = {u, v}
  QQ_MEM_SIZE = 3
  Word = 8
  MaxSize = 3
INVARIANTS
  TypeOK
  RingInv
PROPERTIES
  IsFifo
SYMMETRY
  ValueSymmetry
