CONSTANTS
  c1 = c1
  c2 = c2
  web = web
  job = job
  Containers = {c1, c2}
  Image <- MCImage
  Rules <- MCRules
  Backends = {"prometheus", "influxdb"}
  Modes = {"poll"}
  Ops = {"start", "stop", "remove", "signal", "drop"}
  MaxChanges = 3
  MaxFaults = 1
SPECIFICATION FairSpec
PROPERTIES
  ExposesPolled
CHECK_DEADLOCK FALSE
