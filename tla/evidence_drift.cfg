SPECIFICATION EvidenceSpec
CONSTANTS
  c1 = c1
  c2 = c2
  Config = {c1}
  LegacyConfig = c2
  Builds = {1, 2}
  Controls <- MCControls
  MaxRuns = 2
  Absent = Absent
  Cut = Cut
INVARIANT ReportCannotDrift
CHECK_DEADLOCK FALSE
