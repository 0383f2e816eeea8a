SPECIFICATION Spec
CONSTANTS
  Roles = {r1}
  Settings <- MCSettings
  MaxNames = 3
INVARIANTS TypeOK
PROPERTIES EventuallyInPlace OwnerNeverReverts DeletesAsListed
CHECK_DEADLOCK FALSE
