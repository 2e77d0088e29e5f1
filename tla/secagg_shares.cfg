SPECIFICATION Spec
CONSTANTS
  N = 3
  Threshold = 2
  Prime = 5
  SelfSecret <- Selves
  SecretKey <- Keys
  Tails <- Affine
  Moduli = {14}
  Deltas <- LowAndHigh
  Garbled = garbled
INVARIANT NoMaskRevealed
CHECK_DEADLOCK FALSE
