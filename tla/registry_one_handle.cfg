SPECIFICATION Spec
CONSTANTS
  Frames = {f1}
  Addrs = {a1, a2}
  X = X
  Y = Y
  NoAddr = NoAddr
  NoTarget = NoTarget
  Pointers <- OnePointerPerType
  Disciplined = FALSE
  MaxRefs = 3
SYMMETRY Symmetry
CHECK_DEADLOCK FALSE
INVARIANTS
  SoundAccess
