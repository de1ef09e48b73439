SPECIFICATION FairSpec
CONSTANTS
  Threads = {t1, t2, t3}
  Objects = {o1, o2}
  Handles = {h1, h2}
  Null = Null
  Unmade = Unmade
  Reentrant = FALSE
  Consuming = FALSE
  MaxDepth = 1
INVARIANTS
  TypeOK
  HandlesAreLive
  BorrowRules
PROPERTIES
  ImplementsBorrowCell
  CallsReturn
