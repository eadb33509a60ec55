SPECIFICATION Spec
CONSTANTS
  InitCommands = 6
  MaxPosts = 5
  MaxFaults = 2
INVARIANTS
  DisplayTypeOK
  OneSpiUser
  NoStaleMessage
PROPERTIES
  InOrder
  LatestShown
CHECK_DEADLOCK FALSE
