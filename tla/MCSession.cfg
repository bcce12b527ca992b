\* Two states and two moves, every packet cut anywhere and every send failing
\* anywhere.
CONSTANTS
  MaxPacket = 52
  NameLimit = 1
  MaxString = 2
  MaxFrame = 2
  Name <- MCName
  Colour <- MCColour
  Worlds <- MCWorlds
  Moves <- MCMoves
  Pieces <- MCPieces
SPECIFICATION FairSpec
INVARIANT TypeOK
INVARIANT ConnectedMeansJoined
PROPERTY OnlyTooLongRefused
PROPERTY StatesDelivered
PROPERTY MovesDelivered
PROPERTY LetGo
CHECK_DEADLOCK FALSE
