CONSTANTS
  Modes = {"stream", "poll"}
  Polled = {1, 2}
  PublicPorts = {1, 2}
  Extensions = 1
  FailKinds = {"500", "other"}
  MaxItems = 2
  MaxChanges = 3
  MaxErrors = 2
  MaxFlaps = 1
  MaxBreaks = 1
SPECIFICATION FairSpec
INVARIANTS
  TypeOK
  NoBlindSpot
  PolledIsRead
PROPERTIES
  OnlyCirclesBlock
  EventsDrain
  OutageResubscribes
  PollKeepsUp
CHECK_DEADLOCK FALSE
