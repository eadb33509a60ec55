SPECIFICATION Spec
CONSTANTS
  Pins <- MCPins
  PowerOnRegs <- MCPowerOnRegs
  MaxFaults = 3
  BoardId = "STICK_S3"
INVARIANTS
  BoardTypeOK
  PowerAsDocumented
  InitializedHasDevice
PROPERTIES
  AmpNeverRaised
  RailNeverDropped
  ImplementsPeripherals
