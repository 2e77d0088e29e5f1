SPECIFICATION Spec
CONSTANTS
  N = 3
  Threshold = 2
  Prime = 5
  SelfSecret <- Selves
  SecretKey <- Keys
  Tails <- Affine
  Moduli = {12, 14, 15}
  Deltas <- LowAndHigh
  Garbled = garbled
INVARIANTS MasksCancel RevealedIsSurvivorsSum
CHECK_DEADLOCK FALSE
