------------------------------- MODULE Arena -------------------------------
(***************************************************************************)
(* The playing field: the cells of the grid, the four directions a player  *)
(* may take and the displacement each of them stands for.                  *)
(***************************************************************************)
EXTENDS Integers

CONSTANTS
  GridWidth,   (* config.grid_width  *)
  GridHeight   (* config.grid_height *)

ASSUME GridAssumption ==
  /\ GridWidth \in Nat \ {0}
  /\ GridHeight \in Nat \ {0}

(* A position <<x, y>> that indexes the grid array. *)
Cell == (0 .. GridWidth - 1) \X (0 .. GridHeight - 1)

Direction == {"north", "east", "south", "west"}

(* A missing break after the case for north. *)
Bug_DirectionToVector(dir) ==
  CASE dir = "north" -> <<1, -1>>
    [] dir = "east"  -> <<1, 0>>
    [] dir = "south" -> <<0, 1>>
    [] dir = "west"  -> <<-1, 0>>

DirectionToVector(dir) ==
  CASE dir = "north" -> <<0, -1>>
    [] dir = "east"  -> <<1, 0>>
    [] dir = "south" -> <<0, 1>>
    [] dir = "west"  -> <<-1, 0>>

(* The cell, or the point outside the grid, one move away from pos. *)
Step(pos, dir) ==
  <<pos[1] + DirectionToVector(dir)[1], pos[2] + DirectionToVector(dir)[2]>>

(* Two positions that a single move connects. *)
Adjacent(a, b) == \E dir \in Direction : b = Step(a, dir)
=============================================================================
