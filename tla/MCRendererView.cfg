\* Two players on 3 x 2 cells through four frames: the tails reach the limit of
\* one node in the second and are trimmed, and each player can die or be dropped
\* in any of them.  The model stops at a read of freed memory.
CONSTANTS
  GridWidth = 3
  GridHeight = 2
  MaxPlayers = 3
  BaseTailLength = 1
  FramesPerTailCell = 2
  MaxFrame = 3
  AllocMayFail = FALSE
SPECIFICATION FairViewSpec
INVARIANT ViewTypeOK
INVARIANT StaleReadExplained
INVARIANT HeadWhereItWas
PROPERTY WinnerNotReplaced
PROPERTY OutcomeShown
CHECK_DEADLOCK FALSE
