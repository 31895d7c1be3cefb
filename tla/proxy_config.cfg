CONSTANTS
  Containers <- AllContainers
  MaxListed = 3
  Backends = {"nginx", "haproxy"}
  OverrideAddress = ""
SPECIFICATION Spec
INVARIANTS
  TypeOK
  UpstreamsExact
  NetworksExact
  HostsRender
  OptionsOfLastListed
CHECK_DEADLOCK FALSE
