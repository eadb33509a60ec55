SPECIFICATION HSpec
CONSTANTS
  k1 = k1
  k2 = k2
  Keys <- CardputerKeys
  HighKeys <- NoKeys
  BoardId = "CARDPUTER_ADV"
  FifoDepth = 2
  PollLimit = 2
  MaxFaults = 0
  Timeouts <- Forever
  MaxRestarts = 0
INVARIANT
  FreshPress
