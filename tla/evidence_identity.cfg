SPECIFICATION EvidenceSpec
CONSTANTS
  c1 = c1
  c2 = c2
  Config = {c1, c2}
  LegacyConfig = c1
  Builds = {1}
  Controls <- MCControls
  MaxRuns = 2
  Absent = Absent
  Cut = Cut
INVARIANT OneIdentity
CHECK_DEADLOCK FALSE
