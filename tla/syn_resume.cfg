CONSTANTS
  MaxNodes = 2
  MaxProxies = 2
  TTL = 2
  MaxWork = 5
  MaxTime = 4
  Ports = 2
SPECIFICATION ReloadSpec
INVARIANTS
  ResumesAfterReload
CHECK_DEADLOCK FALSE
