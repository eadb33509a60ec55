SPECIFICATION Spec
CONSTANTS
  Written = {"EF_PIV_KEY_RETIRED12", "EF_OTP_PIN"}
  Values = {v1, v2}
INVARIANTS
  FoundIsMeant
  ReadInBounds
