SPECIFICATION RunSpec
CONSTANTS
  Slots <- MCSlots
  Fields <- MCFields
  FieldPtr <- MCFieldPtr
  NoField = "none"
  Callees <- MCCallees
  ExposedFields = {}
  SuppressedFields <- NothingSuppressed
  SuppressedClass = {"transmute"}
  Methods <- MCMethods
  MaxObjects = 6
  StackMap <- MCStackMap
CHECK_DEADLOCK FALSE
INVARIANTS
  UnannotatedIsReal
  OpcodesBalanced
  Covered
  Described
  ProvenanceIsReal
  UseAfterMoveIsReal
  AliasIsReal
  OverwriteIsReported
  InScope
PROPERTIES
  AnalysisEnds
