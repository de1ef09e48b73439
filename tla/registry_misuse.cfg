SPECIFICATION Spec
CONSTANTS
  Frames = {f1, f2}
  Addrs = {a1, a2}
  X = X
  Y = Y
  NoAddr = NoAddr
  NoTarget = NoTarget
  Pointers <- OnePointerPerType
  Disciplined = FALSE
  MaxRefs = 2
SYMMETRY Symmetry
CHECK_DEADLOCK FALSE
INVARIANTS
  TypeOK
  RefsAccounted
  RecordDescribesMemory
