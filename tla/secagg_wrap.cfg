SPECIFICATION Spec
CONSTANTS
  N = 3
  Threshold = 2
  Prime = 5
  SelfSecret <- Selves
  SecretKey <- Keys
  Tails <- Affine
  Moduli = {12}
  Deltas <- LowAndHigh
  Garbled = garbled
INVARIANT SumNeverWraps
CHECK_DEADLOCK FALSE
