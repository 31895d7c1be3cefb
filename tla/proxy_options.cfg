CONSTANTS
  Containers <- AllContainers
  MaxListed = 2
  Backends = {"nginx"}
  OverrideAddress = ""
SPECIFICATION Spec
INVARIANTS
  SSLOnlyHonoured
CHECK_DEADLOCK FALSE
