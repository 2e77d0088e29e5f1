SPECIFICATION FairSpec
CONSTANTS
  Role = "participant"
  MaxEvents = 2
  MaxVersion = 2
  MaxBeats = 1
  MaxBreaks = 1
  MaxEdits = 1
INVARIANTS ReplayIsGapless
PROPERTY PageShowsFinalRun
