CONSTANTS
  c1 = c1
  c2 = c2
  web = web
  job = job
  Containers = {c1, c2}
  Image <- MCImage
  Rules <- MCRules
  Backends = {"prometheus", "influxdb"}
  Modes = {"stream", "poll"}
  Ops = {"start", "stop", "remove", "signal", "drop"}
  MaxChanges = 3
  MaxFaults = 1
SPECIFICATION FairSpec
INVARIANTS
  TypeOK
  MonitorsRunning
  LeftoverWasInFlight
PROPERTIES
  ExposesRunning
  GatewayFollows
CHECK_DEADLOCK FALSE
