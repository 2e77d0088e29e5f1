SPECIFICATION FairSpec
CONSTANTS
  Participant = {p1, p2, p3}
  Delta = {d}
  Malformed = bad
  NoHash = none
  MinParticipants = 1
  SecureAggThreshold = 2
  Faults <- AllFaults
  MaxRounds = 2
  MaxFaults = 2
  RunSizes = {2}
INVARIANTS TypeOK LedgerAccountsForModel LedgerResolves PublishedIsCanonical AbortLeavesModel
PROPERTIES ImplementsCommitChain ReadyRoundCommits
