CONSTANTS
  n1 = n1
  n2 = n2
  p1 = p1
  p2 = p2
  a1 = a1
  a2 = a2
  Nodes = {n1, n2}
  NodeSeq <- TwoNodes
  Proxies = {p1, p2}
  FirstProxies <- TwoProxies
  Apps = {a1}
  Overlay = {}
  Exposed = {a1}
  Backend = "nginx"
  ConnectRetries = 1
  Ops = {"kill"}
  MaxChanges = 1
  MaxFaults = 0
  MaxCrashes = 0
SPECIFICATION Spec
INVARIANTS
  QuietMeansReloaded
CHECK_DEADLOCK FALSE
