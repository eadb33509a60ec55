SPECIFICATION Pm1Spec
CONSTANTS
  Pins <- MCPins
  PowerOnRegs <- MCPowerOnRegs
  MaxFaults = 2
INVARIANTS
  Pm1TypeOK
  SuccessMeansDriven
PROPERTIES
  OtherPinsUntouched
  NoWrongPulse
