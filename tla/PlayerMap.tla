----------------------------- MODULE PlayerMap -----------------------------
(***************************************************************************)
(* The table of players.  entries is a partial function whose domain is    *)
(* the set of occupied slots; size is the counter the code keeps beside    *)
(* the slots and that game_is_over relies on.  The code checks no key      *)
(* against MAX_PLAYERS: a caller that passes a larger one leaves the       *)
(* array, so the callers here establish that key is a Slot first.          *)
(***************************************************************************)
EXTENDS Integers, FiniteSets

CONSTANT MaxPlayers    (* MAX_PLAYERS: the number of slots, 64 in the code *)

ASSUME MaxPlayersAssumption == MaxPlayers \in 2 .. 255

(* The slots of the entries array. *)
Slot == 0 .. MaxPlayers - 1

Occupied(map) == DOMAIN map.entries

MapCreate == [entries |-> <<>>, size |-> 0]

(* An occupied slot is left as it is: map_insert then returns -1. *)
MapInsert(map, key, player) ==
  IF key \in Occupied(map)
  THEN map
  ELSE [entries |-> [k \in Occupied(map) \cup {key} |->
                       IF k = key THEN player ELSE map.entries[k]],
        size    |-> map.size + 1]

Bug_MapDelete(map, key) ==
  [entries |-> [k \in Occupied(map) \ {key} |-> map.entries[k]],
   size    |-> map.size - 1]

(* Deleting a key that is not there changes nothing. *)
MapDelete(map, key) ==
  IF key \in Occupied(map)
  THEN [entries |-> [k \in Occupied(map) \ {key} |-> map.entries[k]],
        size    |-> map.size - 1]
  ELSE map

MapSize(map) == map.size

(* What a loop that calls map_delete on every key of keys leaves. *)
MapDeleteAll(map, keys) ==
  [entries |-> [k \in Occupied(map) \ keys |-> map.entries[k]],
   size    |-> map.size - Cardinality(keys \cap Occupied(map))]
=============================================================================
