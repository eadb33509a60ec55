SPECIFICATION Spec
CONSTANTS
  k1 = k1
  k2 = k2
  Keys <- CardputerKeys
  HighKeys <- NoKeys
  BoardId = "CARDPUTER_ADV"
  FifoDepth = 2
  PollLimit = 2
  MaxFaults = 1
  Timeouts <- Forever
  MaxRestarts = 1
PROPERTY
  AnyKeyPressConfirms
