SPECIFICATION HSpec
CONSTANTS
  k1 = k1
  k2 = k2
  Keys <- StickKeys
  HighKeys <- NoKeys
  BoardId = "STICK_S3"
  FifoDepth = 2
  PollLimit = 2
  MaxFaults = 1
  Timeouts <- Forever
  MaxRestarts = 0
INVARIANT
  NothingConfirmsAlone
