SPECIFICATION RecordsSpec
CONSTANTS
  Episode = {1, 2, 3, 4}
  Version <- MCVersion
  Refused = Refused
  DataSets <- MCDataSets
  Claims <- MCClaims
  RoundIndex = {0, 1}
  MaxLines = 3
  MaxMishaps = 2
  c1 = c1
  c2 = c2
  Config = {c1, c2}
  LegacyConfig = c1
  Builds = {1}
  Controls <- MCControls
  MaxRuns = 2
  Absent = Absent
  Cut = Cut
INVARIANTS ReceiptFixesHistory IntactLedgerVerifies AcknowledgedIsKept AuditTellsData
  CurrentIsCorrected RegenerationSucceeds LauncherCheckpointIsReports
CHECK_DEADLOCK FALSE
