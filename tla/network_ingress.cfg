SPECIFICATION Spec
CONSTANTS
  Participant = {p1, p2}
  Root = {r1, r2}
  NoRoot = none
  Quorum = 1
  RetryBudget = 1
  MaxRounds = 2
  MaxSends = 4
SYMMETRY Symmetry
INVARIANTS AveragedWasBound NoUpdateLost ReportWithinRecord GivenUpForLack
PROPERTY ImplementsCommitChain
CHECK_DEADLOCK FALSE
