SPECIFICATION Spec
CONSTANTS
  Plans <- MCPlans
  ProjectOf <- MCProjectOf
  ClassName <- MCClassName
  JavaName <- MCJavaName
  Wire <- MCWire
  Fits <- MCFits
CHECK_DEADLOCK FALSE
INVARIANTS
  TypeOK
  ClosureExact
  CleanMeansLinked
  NoFalseAlarm
  SlotsExact
  SymbolsDistinct
  AcceptedExists
  MissingIsReal
  HandleFieldExact
PROPERTIES
  ClosureSpec
  CheckerEnds
