SPECIFICATION Spec
CONSTANTS
  k1 = k1
  k2 = k2
  Keys <- CardputerKeys
  HighKeys <- CardputerHighKeys
  BoardId = "CARDPUTER_ADV"
  FifoDepth = 3
  PollLimit = 3
  MaxFaults = 2
  Timeouts <- ForeverOrTwo
  MaxRestarts = 1
INVARIANTS
  TypeOK
  InitializedMeansReady
  InitSound
  DrainComplete
PROPERTIES
  Contract
  RefusalJustified
  TimedWaitReturns
  QueuedPressConfirms
  NoPressSwallowed
  CallsReturn
