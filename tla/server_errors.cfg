CONSTANTS
  Modes = {"stream"}
  Polled = {1, 2}
  PublicPorts = {1, 2}
  Extensions = 1
  FailKinds = {"500"}
  MaxItems = 2
  MaxChanges = 0
  MaxErrors = 2
  MaxFlaps = 0
  MaxBreaks = 0
SPECIFICATION FairSpec
PROPERTIES
  ErrorHandlerReturns
CHECK_DEADLOCK FALSE
