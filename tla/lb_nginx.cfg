CONSTANTS
  n1 = n1
  n2 = n2
  p1 = p1
  p2 = p2
  a1 = a1
  a2 = a2
  Nodes = {n1}
  NodeSeq <- OneNode
  Proxies = {p1}
  FirstProxies <- OneProxy
  Apps = {a1, a2}
  Overlay = {a2}
  Exposed = {a1, a2}
  Backend = "nginx"
  ConnectRetries = 1
  Ops = {"start", "stop", "kill", "remove", "connect", "disconnect"}
  MaxChanges = 2
  MaxFaults = 0
  MaxCrashes = 1
SPECIFICATION FairSpec
INVARIANTS
  TypeOK
  NoLostUpdate
  QuietMeansCurrent
  QuietMeansReloaded
  ReachableUpstreams
PROPERTIES
  ImplementsSignal
  Converges
  ComesToRest
CHECK_DEADLOCK FALSE
