SPECIFICATION Spec
CONSTANTS
  Written = {"EF_OTP_PIN"}
  Values = {v1}
INVARIANTS
  SelectsOpenPgp
