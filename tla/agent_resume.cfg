SPECIFICATION FairSpec
CONSTANTS
  Release = {r1, r2}
  Nothing = nothing
  Torn = torn
  MaxRounds = 2
  MaxCrashes = 3
INVARIANTS ResumeReplaysRelease
PROPERTY AssignedIsReleased
