SPECIFICATION Spec
CONSTANTS
  MaxBinds = 2
  LastBuffer = 1
  Slots = 2
  Usages <- MCUsages
  MaxCalls <- MCMaxCalls
INVARIANTS
  TypeOK
  CallsServed
  CleanRemove
  InForce
  MemorySafe
  OpenAsListed
PROPERTIES
  ResetGiven
CHECK_DEADLOCK FALSE
