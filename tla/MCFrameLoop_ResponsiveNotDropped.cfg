CONSTANTS
  Players = {1, 2}
  Lobbies = {{1, 2}}
  SendBuffer = 2
  MayFragment = TRUE
  MaxFrame = 2
  Crowd = 3
SPECIFICATION Spec
PROPERTY ResponsiveNotDropped
CHECK_DEADLOCK FALSE
