SPECIFICATION FirmwareSpec
CONSTANTS
  Keys <- StickKeys
  HighKeys <- NoKeys
  BoardId = "STICK_S3"
  FifoDepth = 1
  PollLimit = 1
  MaxFaults = 1
  Timeouts <- ForeverOrTwo
  MaxRestarts = 1
  InitCommands = 1
  MaxPosts = 4
  MaxSpiFaults = 1
  DefaultTimeout = 2
INVARIANTS
  FirmwareTypeOK
  ProvisioningRespected
PROPERTIES
  BootCompletes
  DefaultWaitEnds
  BootPictureShown
CHECK_DEADLOCK FALSE
