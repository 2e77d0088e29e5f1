SPECIFICATION Spec
CONSTANTS
  Client = {a, b}
  Thread = {t, u}
  Width = {w1}
  MaxParticipants = 2
  Quorum = 2
  Rounds = 1
INVARIANT RevisionsAreChained
