SPECIFICATION FairSpec
CONSTANTS
  Client = {a, b, c}
  Thread = {t}
  Width = {w1, w2}
  MaxParticipants = 3
  Quorum = 2
  Rounds = 2
INVARIANTS RoundIsStaffed SubmissionCounts RoundsAreAveraged
PROPERTIES RoundEnds PausedResumes
