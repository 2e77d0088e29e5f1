SPECIFICATION FairSpec
CONSTANTS
  Trainer = {p1, p2, p3}
  Delta = {d1, d2}
  MinParticipants = 2
  SecureAggThreshold = 1
  RetryBudget = 0
  BudgetContributors = 2
  Rosters <- MCRosters
  Target = 2
  MaxRuns = 2
  Leftovers = {"artifacts", "agents"}
  Nothing = Nothing
  Torn = Torn
  p1 = p1
  p2 = p2
  p3 = p3
INVARIANTS LedgerTellsRun BundleBindsOneRun
PROPERTY BootedRunReports
CHECK_DEADLOCK FALSE
