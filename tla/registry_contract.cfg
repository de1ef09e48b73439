SPECIFICATION Spec
CONSTANTS
  Frames = {f1, f2}
  Addrs = {a1, a2}
  X = X
  Y = Y
  NoAddr = NoAddr
  NoTarget = NoTarget
  Pointers <- OnePointerPerType
  Disciplined = TRUE
  MaxRefs = 3
SYMMETRY Symmetry
INVARIANTS
  SoundAccess
  NoFalseAlarm
  MutIsExclusive
  GuardFlagExact
  OwnersAreHandles
