SPECIFICATION FairSpec
CONSTANTS
  Trainer = {p1, p2}
  Delta = {d}
  Malformed = {bad}
  MinParticipants = 1
  SecureAggThreshold = 1
  RetryBudget = 1
  BudgetContributors = 1
  EngineFaults = {"raises", "stuck"}
  MaxRounds = 2
INVARIANTS AcceptedIsAveraged AbortEndsRun TraceTellsRun
PROPERTY AssignedRoundEnds
CHECK_DEADLOCK FALSE
