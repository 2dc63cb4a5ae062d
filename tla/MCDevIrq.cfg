SPECIFICATION Spec
CONSTANTS
  Readers = {r1, r2}
  RingSize = 2
  MaxPushes = 4
  MaxLoads = 2
INVARIANTS
  TypeOK
  HandlerSafe
  IrqRearmed
  CleanUnload
PROPERTIES
  WokenByNext
CHECK_DEADLOCK FALSE
