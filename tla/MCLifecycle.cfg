\* Two places for clients and four ids: failed handshakes can use them up.
CONSTANTS
  MaxPlayers = 5
  MaxClients = 2
SPECIFICATION PoliteSpec
INVARIANT TypeOK
INVARIANT ThreadsTakeTurns
PROPERTY SpaceStartsGame
PROPERTY CloseEndsProcess
CHECK_DEADLOCK FALSE
