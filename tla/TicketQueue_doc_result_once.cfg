SPECIFICATION Spec
CONSTANTS
  MaxTickets = 2
  MaxIds = 2
  MaxRestarts = 0
INVARIANTS
  ResultOnce
CHECK_DEADLOCK FALSE
