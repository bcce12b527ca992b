------------------------------ MODULE MCSession ------------------------------
(* A small instance of Session: the client's name is one byte longer than   *)
(* the server keeps, a second player without a name may be in the game, and *)
(* the grid has one or two cells, or so many that the client refuses it.    *)
EXTENDS Session

MCName == <<7, 8>>

MCColour == <<9, 0, 1>>

Other == [x |-> 0, y |-> 1, colour |-> <<5, 5, 5>>, name |-> <<>>, id |-> 2]

MCWorlds ==
  {[x |-> 0, y |-> 0, others |-> <<>>, w |-> 1, h |-> 1, grid |-> <<1>>],
   [x |-> 0, y |-> 0, others |-> <<Other>>, w |-> 1, h |-> 2, grid |-> <<1, 2>>],
   [x |-> 0, y |-> 0, others |-> <<>>, w |-> 1, h |-> 20, grid |-> [i \in 1 .. 20 |-> 1]]}

MCMoves == {-1, 260}

MCPieces == {1}
=============================================================================
