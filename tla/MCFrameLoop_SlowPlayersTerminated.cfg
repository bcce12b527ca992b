CONSTANTS
  Players = {1, 2}
  Lobbies = {{1, 2}}
  SendBuffer = 2
  MayFragment = FALSE
  MaxFrame = 2
  Crowd = 3
SPECIFICATION Spec
PROPERTY SlowPlayersTerminated
CHECK_DEADLOCK FALSE
