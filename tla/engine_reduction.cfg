SPECIFICATION Spec
CONSTANTS
  Participant = {p1, p2}
  Delta = {d}
  Malformed = bad
  NoHash = none
  MinParticipants = 2
  SecureAggThreshold = 2
  Faults = {"reduction"}
  MaxRounds = 2
  MaxFaults = 1
  RunSizes = {}
INVARIANT NeverWedged
