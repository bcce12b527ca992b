\* Three joiners fit the table of four slots, the fourth id overruns it.
\* BaseTailLength 1 and FramesPerTailCell 1: the limit moves between 1 and 3.
CONSTANTS
  GridWidth = 3
  GridHeight = 2
  MaxPlayers = 4
  BaseTailLength = 1
  FramesPerTailCell = 1
  MaxFrame = 2
  AllocMayFail = FALSE
SPECIFICATION Spec
INVARIANT TypeOK
INVARIANT GridMatchesTrails
INVARIANT TrailsSimple
INVARIANT TrailsConnected
INVARIANT TailsWithinLimit
INVARIANT SizeCountsPlayers
INVARIANT ColoursDistinct
PROPERTY NoCellStolen
