SPECIFICATION Spec
CONSTANTS
  Threads = {t1}
  Objects = {o1}
  Handles = {h1}
  Null = Null
  Unmade = Unmade
  Reentrant = FALSE
  Consuming = TRUE
  MaxDepth = 1
CHECK_DEADLOCK FALSE
INVARIANTS
  HandlesAreLive
