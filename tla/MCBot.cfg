\* Two players for three frames on 3 x 2 cells.
CONSTANTS
  GridWidth = 3
  GridHeight = 2
  MaxPlayers = 3
  BaseTailLength = 1
  FramesPerTailCell = 2
  MaxFrame = 2
  AllocMayFail = FALSE
  MaxAttempts = 2
  Inertias = {0, 2}
  WordSize = 8
SPECIFICATION FairBotSpec
INVARIANT BotTypeOK
INVARIANT WaysOutOffered
INVARIANT Unbiased
PROPERTY DeathsExplained
PROPERTY DecisionEnds
CHECK_DEADLOCK FALSE
