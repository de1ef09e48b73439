SPECIFICATION RunSpec
CONSTANTS
  Slots <- MCSlots
  Fields <- MCFields
  FieldPtr <- MCFieldPtr
  NoField = "none"
  Callees <- MCCallees
  ExposedFields = {}
  SuppressedFields <- NothingSuppressed
  SuppressedClass = {"transmute"}
  Methods <- TakeField
  MaxObjects = 6
  StackMap <- MCStackMap
CHECK_DEADLOCK FALSE
INVARIANTS
  TakeIsReal
