SPECIFICATION FairSpec
CONSTANTS
  Participant = {p1, p2}
  Root = {r1}
  NoRoot = none
  Quorum = 2
  RetryBudget = 1
  MaxRounds = 1
  MaxSends = 5
PROPERTY QuorumCommits
CHECK_DEADLOCK FALSE
