\* Three players on 2 x 2 cells: every kind of collision, and a tail that
\* reaches its limit.
CONSTANTS
  GridWidth = 2
  GridHeight = 2
  MaxPlayers = 4
  BaseTailLength = 1
  FramesPerTailCell = 1
  MaxFrame = 1
  AllocMayFail = TRUE
SPECIFICATION FairStepsSpec
INVARIANT JudgementHolds
INVARIANT TrailsMarkedMeanwhile
PROPERTY Refines
PROPERTY MoveReturns
