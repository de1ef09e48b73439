SPECIFICATION Spec
CONSTANTS
  Threads = {t1, t2, t3}
  Objects = {o1, o2}
  Addrs = {a1, a2}
  Null = Null
  Unmade = Unmade
  NoAddr = NoAddr
  NoTarget = NoTarget
  String = String
INVARIANTS
  NothingLeaks
PROPERTIES
  KeepsTheContract
  IsANativeObject
