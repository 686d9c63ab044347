SPECIFICATION FairSpec
CONSTANTS
  MaxTickets = 3
  MaxIds = 2
  MaxRestarts = 1
INVARIANTS
  TypeOK
  QueueInv
  EventFollowsOutcome
PROPERTIES
  KeepsContract
  OthersUntouched
  WaitingJobSettles
CHECK_DEADLOCK FALSE
