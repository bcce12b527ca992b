CONSTANTS
  MaxPlayers = 4
  MaxClients = 1
SPECIFICATION Spec
INVARIANT IdsWithinTable
CHECK_DEADLOCK FALSE
