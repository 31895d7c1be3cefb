CONSTANTS
  n1 = n1
  n2 = n2
  p1 = p1
  p2 = p2
  a1 = a1
  a2 = a2
  Nodes = {n1, n2}
  NodeSeq <- TwoNodes
  Proxies = {p1, p2}
  FirstProxies <- OneProxy
  Apps = {a1}
  Overlay = {a1}
  Exposed = {a1}
  Backend = "haproxy"
  ConnectRetries = 1
  Ops = {"remove", "kill", "proxy"}
  MaxChanges = 1
  MaxFaults = 1
  MaxCrashes = 0
SPECIFICATION Spec
INVARIANTS
  AbortIsCovered
  QuietMeansReachable
  QuietMeansSaved
CHECK_DEADLOCK FALSE
