SPECIFICATION PageFairSpec
CONSTANTS
  Client = {me, b}
  Thread = {t}
  Width = {w}
  MaxParticipants = 2
  Quorum = 2
  Rounds = 2
  Me = me
  MaxFaults = 1
INVARIANTS JobsTellService
PROPERTIES PageDelivers
