SPECIFICATION Spec
CONSTANTS
  Threads = {t1, t2}
  Objects = {o1, o2}
  Handles = {h1, h2}
  Null = Null
  Unmade = Unmade
  Reentrant = TRUE
  Consuming = TRUE
  MaxDepth = 2
SYMMETRY Symmetry
CHECK_DEADLOCK FALSE
INVARIANTS
  LockBalanced
PROPERTIES
  DestroyedOnce
