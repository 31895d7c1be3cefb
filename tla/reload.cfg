CONSTANTS
  MaxNodes = 4
  MaxProxies = 6
  TTL = 2
  MaxWork = 5
  MaxTime = 8
  Ports = 2
SPECIFICATION ReloadSpec
INVARIANTS
  TypeOK
  EachProxyExactlyOnce
  ComputesShare
  DropsDuringRestart
PROPERTIES
  
  Prompt
CHECK_DEADLOCK FALSE
