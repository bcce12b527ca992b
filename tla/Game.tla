-------------------------------- MODULE Game --------------------------------
(***************************************************************************)
(* The game state of game_logic.c, with every call of its interface one    *)
(* atomic action: the contract that the callers of game_move_players and   *)
(* of the other functions see.  GameSteps.tla refines MovePlayers into the *)
(* loops of the code.                                                      *)
(*                                                                         *)
(* MovePlayers is written as the rule of the game: all players move at     *)
(* once, a move is judged against the grid as it was when the frame began, *)
(* and whoever runs into a wall, a trail or another mover is removed.      *)
(***************************************************************************)
EXTENDS Arena, PlayerMap, Sequences

CONSTANTS
  BaseTailLength,    (* 55 in the code: the tail limit of frame 0; not 0,   *)
                     (* or the trimming loop would free the head of a list  *)
                     (* the player still points to                          *)
  FramesPerTailCell, (* 100 in the code: the frames that raise it by one    *)
  MaxFrame,          (* bound: the frames game_set_frame is called with     *)
  AllocMayFail       (* whether malloc of a tail node may return NULL       *)

ASSUME GameAssumption ==
  /\ BaseTailLength \in Nat \ {0}
  /\ FramesPerTailCell \in Nat \ {0}
  /\ MaxFrame \in Nat
  /\ AllocMayFail \in BOOLEAN

VARIABLES
  players,        (* game->players                                          *)
  grid,           (* game->grid: 0, or the id of the player on the cell     *)
  frame,          (* game->frame                                            *)
  maxTailLength,  (* game->max_tail_length                                  *)
  idCounter,      (* game->id_counter                                       *)
  gameStarted,    (* game->game_started                                     *)
  overrun         (* a slot past the end of the player table was written:   *)
                  (* from there on C gives the program no meaning, and the  *)
                  (* model stops                                            *)

gameVars == <<players, grid, frame, maxTailLength, idCounter, gameStarted,
              overrun>>

-----------------------------------------------------------------------------
(* Players and their trails.                                               *)

Active == Occupied(players)

Bug_PaletteIndex(id) == MapSize(players) % MaxPlayers

(* The palette has MAX_PLAYERS colours, all different. *)
PaletteIndex(id) == id % MaxPlayers

PlayerCreate(id, pos) ==
  [id |-> id, colour |-> PaletteIndex(id), position |-> pos, tail |-> <<>>]

TailCells(p) == {p.tail[i] : i \in DOMAIN p.tail}

(* The cells a player occupies, its head included. *)
TrailCells(p) == {p.position} \cup TailCells(p)

Bug_Cleared(ids) ==
  [c \in Cell |->
     IF \E id \in ids : c \in TailCells(players.entries[id])
     THEN 0 ELSE grid[c]]

(* The grid without the trails of the players ids. *)
Cleared(ids) ==
  [c \in Cell |->
     IF \E id \in ids : c \in TrailCells(players.entries[id])
     THEN 0 ELSE grid[c]]

-----------------------------------------------------------------------------
(* game_move_players.                                                      *)

TailLimit(f) == BaseTailLength + f \div FramesPerTailCell

(* Where each player wants to go. *)
Targets(dirs) ==
  [id \in Active |-> Step(players.entries[id].position, dirs[id])]

Bug_IsLegalMove_NoBounds(pos) == pos \in Cell => grid[pos] = 0

Bug_IsLegalMove_NoTrails(pos) == pos \in Cell

IsLegalMove(pos) == pos \in Cell /\ grid[pos] = 0

Bug_Colliding(new) ==
  LET shared == {id \in Active : \E other \in Active \ {id} : new[other] = new[id]}
  IN  shared \cup {id \in Active :
                    new[id] \in Cell => Cleared(shared)[new[id]] # 0}

Bug_Colliding_NotShared(new) == {id \in Active : ~IsLegalMove(new[id])}

(* The movers that die: the target is taken, off the grid, or shared. *)
Colliding(new) ==
  {id \in Active :
     \/ ~IsLegalMove(new[id])
     \/ \E other \in Active \ {id} : new[other] = new[id]}

Bug_Grown(p, lost) == IF p.id \in lost THEN p.tail ELSE Append(p.tail, p.position)

(* The tail with the cell the head leaves, unless its malloc failed. *)
Grown(p, lost) == IF p.id \in lost THEN p.tail ELSE <<p.position>> \o p.tail

Bug_Kept(tail, limit) ==
  IF Len(tail) <= limit + 1 THEN tail ELSE SubSeq(tail, 1, limit + 1)

(* The nodes the trimming loop keeps: the newest limit ones. *)
Kept(tail, limit) ==
  IF Len(tail) <= limit THEN tail ELSE SubSeq(tail, 1, limit)

Bug_TrimmedCells(tail, limit) == {tail[i] : i \in limit + 2 .. Len(tail)}

(* The cells of the nodes that it frees. *)
TrimmedCells(tail, limit) == {tail[i] : i \in limit + 1 .. Len(tail)}

Moved(p, pos, lost, limit) ==
  [p EXCEPT !.position = pos, !.tail = Kept(Grown(p, lost), limit)]

(* The grid once the dead are gone and the survivors have moved. *)
GridAfter(new, dead, lost, limit) ==
  LET movers == Active \ dead
      left(id) == Grown(players.entries[id], lost)
  IN  [c \in Cell |->
         IF \E id \in movers : c \in TrimmedCells(left(id), limit)
         THEN 0
         ELSE IF \E id \in movers : new[id] = c
              THEN CHOOSE id \in movers : new[id] = c
              ELSE Cleared(dead)[c]]

PlayersAfter(new, dead, lost, limit) ==
  LET remaining == MapDeleteAll(players, dead)
  IN  [remaining EXCEPT !.entries =
         [id \in Occupied(remaining) |->
            Moved(@[id], new[id], lost, limit)]]

(* dirs: the direction of every player; lost: the players whose tail node  *)
(* could not be allocated.                                                 *)
MovePlayers(dirs, lost) ==
  LET new   == Targets(dirs)
      dead  == Colliding(new)
      limit == TailLimit(frame)
  IN  /\ ~overrun
      /\ maxTailLength' = limit
      /\ players' = PlayersAfter(new, dead, lost, limit)
      /\ grid' = GridAfter(new, dead, lost, limit)
      /\ UNCHANGED <<frame, idCounter, gameStarted, overrun>>

-----------------------------------------------------------------------------
(* The other calls.                                                        *)

(* game_create *)
Init ==
  /\ players = MapCreate
  /\ grid = [c \in Cell |-> 0]
  /\ frame = 0
  /\ maxTailLength = BaseTailLength
  /\ idCounter = 1
  /\ gameStarted = FALSE
  /\ overrun = FALSE

(* game_add_player placed the newcomer on the free cell pos. *)
AddPlayer(pos) ==
  /\ ~overrun
  /\ grid[pos] = 0
  /\ gameStarted' = TRUE
  /\ IF idCounter \in Slot
     THEN /\ players' = MapInsert(players, idCounter, PlayerCreate(idCounter, pos))
          /\ grid' = [grid EXCEPT ![pos] = idCounter]
          /\ idCounter' = idCounter + 1
          /\ UNCHANGED overrun
     ELSE /\ overrun' = TRUE
          /\ UNCHANGED <<players, grid, idCounter>>
  /\ UNCHANGED <<frame, maxTailLength>>

(* 10000 draws found no free cell: the call fails, the game has started. *)
AddPlayerNoRoom ==
  /\ ~overrun
  /\ \E c \in Cell : grid[c] # 0
  /\ gameStarted' = TRUE
  /\ UNCHANGED <<players, grid, frame, maxTailLength, idCounter, overrun>>

(* game_remove_player; a no-op when the player is gone already. *)
RemovePlayer(id) ==
  /\ ~overrun
  /\ players' = MapDelete(players, id)
  /\ grid' = Cleared({id} \cap Active)
  /\ UNCHANGED <<frame, maxTailLength, idCounter, gameStarted, overrun>>

SetFrame(f) ==
  /\ ~overrun
  /\ frame' = f
  /\ UNCHANGED <<players, grid, maxTailLength, idCounter, gameStarted, overrun>>

GameIsOver == gameStarted /\ MapSize(players) <= 1

(* Past the overrun nothing is said any more. *)
Undefined == overrun /\ UNCHANGED gameVars

(* The players for whom an allocation of this move may fail. *)
LostSets == IF AllocMayFail THEN SUBSET Active ELSE {{}}

Next ==
  \/ \E pos \in Cell : AddPlayer(pos)
  \/ AddPlayerNoRoom
  \/ \E id \in Slot : RemovePlayer(id)
  \/ \E dirs \in [Active -> Direction], lost \in LostSets : MovePlayers(dirs, lost)
  \/ \E f \in 0 .. MaxFrame : SetFrame(f)
  \/ Undefined

Spec == Init /\ [][Next]_gameVars

-----------------------------------------------------------------------------
(* Properties.                                                             *)

PlayerRecord ==
  [id : Slot, colour : Slot, position : Cell, tail : Seq(Cell)]

(* Every variable has the type its C declaration and its use give it. *)
TypeOK ==
  /\ Active \subseteq Slot
  /\ players = [entries |-> [id \in Active |-> players.entries[id]],
                size    |-> players.size]
  /\ \A id \in Active : players.entries[id] \in PlayerRecord
  /\ players.size \in Int
  /\ grid \in [Cell -> Slot]
  /\ frame \in 0 .. MaxFrame
  /\ maxTailLength \in Nat
  /\ idCounter \in 1 .. MaxPlayers
  /\ gameStarted \in BOOLEAN
  /\ overrun \in BOOLEAN

(* The grid and the tails, which every call updates separately, never      *)
(* disagree: the cells of a player carry its id, and, as long as every     *)
(* tail node could be allocated, a cell that is not free belongs to a      *)
(* player who is still in the game (no trail outlives its player or the    *)
(* trimming of its tail).                                                  *)
TrailsMarked ==
  \A id \in Active : \A c \in TrailCells(players.entries[id]) : grid[c] = id

NoOrphanCells ==
  \A c \in Cell : grid[c] # 0 =>
    /\ grid[c] \in Active
    /\ c \in TrailCells(players.entries[grid[c]])

GridMatchesTrails == TrailsMarked /\ (~AllocMayFail => NoOrphanCells)

SimpleTrail(p) ==
  /\ p.position \notin TailCells(p)
  /\ \A i, j \in DOMAIN p.tail : p.tail[i] = p.tail[j] => i = j

(* No player is ever on one cell twice: neither its head on its own tail   *)
(* nor two tail nodes on one cell.  Trimming and removal rely on it: they  *)
(* free a cell without asking who else is on it.                           *)
TrailsSimple == \A id \in Active : SimpleTrail(players.entries[id])

(* The tail list runs from the head backwards cell by cell: what is        *)
(* trimmed is the oldest end, and no move is skipped.                      *)
TrailsConnected ==
  ~AllocMayFail =>
    \A id \in Active : LET p == players.entries[id] IN
      /\ p.tail # <<>> => Adjacent(p.tail[1], p.position)
      /\ \A i \in 1 .. Len(p.tail) - 1 : Adjacent(p.tail[i + 1], p.tail[i])

(* No tail is longer than the limit in force, also when the frame number   *)
(* and with it the limit goes down between two moves.                      *)
TailsWithinLimit ==
  \A id \in Active : Len(players.entries[id].tail) <= maxTailLength

(* The size field, from which game_is_over decides, counts the players.    *)
SizeCountsPlayers == players.size = Cardinality(Active)

(* A bot finds itself in a state packet by its colour alone, so no two     *)
(* players in the game may have the same one.                              *)
ColoursDistinct ==
  \A i, j \in Active :
    players.entries[i].colour = players.entries[j].colour => i = j

(* A cell never passes from one player to another in one call: the trail   *)
(* of a player who dies in a frame still blocks the others in that frame.  *)
NoCellStolen ==
  [][\A c \in Cell : grid[c] # 0 /\ grid'[c] # 0 => grid'[c] = grid[c]]_gameVars
=============================================================================
