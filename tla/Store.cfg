SPECIFICATION Spec
CONSTANTS
  Clients = {c1, c2}
  Stored0 = {"workspace", "kind", "secret", "pvc"}
  MaxVersions = 3
  MaxRequests = 3
  MaxLag = 1
INVARIANTS TypeOK
PROPERTIES ImplementsRegister
CHECK_DEADLOCK FALSE
SYMMETRY Symmetry
