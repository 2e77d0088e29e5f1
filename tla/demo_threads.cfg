SPECIFICATION Spec
CONSTANTS
  Client = {a, b}
  Thread = {t, u}
  Width = {w1, w2}
  MaxParticipants = 2
  Quorum = 1
  Rounds = 2
INVARIANT RoundsAreAveraged
