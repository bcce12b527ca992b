----------------------------- MODULE GameSteps -----------------------------
(***************************************************************************)
(* game_move_players as the server thread executes it: the removing loop   *)
(* and the advancing loop one player at a time, the trimming loop one tail *)
(* node at a time.  The atomic MovePlayers of Game.tla is what the whole   *)
(* call amounts to (Refines); between the steps the renderer thread, which *)
(* takes no lock for the trails, can read what these variables hold.       *)
(***************************************************************************)
EXTENDS Game, FiniteSetsExt

VARIABLES
  pc,         (* where the server thread is: "idle" outside the call       *)
  ptrs,       (* player_ptrs: the slots map_get_all collected              *)
  todo,       (* the slots of ptrs the current loop has not visited        *)
  new,        (* new_positions                                             *)
  colliding,  (* colliding                                                 *)
  lost,       (* the players whose malloc returned NULL in this call       *)
  tailLen,    (* tail_len                                                  *)
  current,    (* current: the tail nodes from this one on                  *)
  saved       (* players, grid and maxTailLength when the call began, for  *)
              (* the refinement mapping alone                              *)

locals == <<ptrs, todo, new, colliding, lost, tailLen, current>>

stepVars == <<gameVars, pc, locals, saved>>

-----------------------------------------------------------------------------
(* player_ptrs[i]->id.  The pointer is into the table, so it still can be  *)
(* read after the slot was cleared; the id found there is then 0.          *)
PtrId(slot) == IF slot \in Active THEN players.entries[slot].id ELSE 0

NoSnapshot == [players |-> MapCreate, grid |-> <<>>, maxTailLength |-> 0]

ClearLocals ==
  /\ saved' = NoSnapshot
  /\ ptrs' = {} /\ todo' = {} /\ new' = <<>> /\ colliding' = {}
  /\ lost' = {} /\ tailLen' = 0 /\ current' = <<>>

(* The removing loop takes the slots in increasing order; the advancing    *)
(* loop then starts from the first again.                                  *)
NextRemoval ==
  LET left == todo \ {Min(todo)} IN
  /\ pc' = IF left # {} THEN "remove" ELSE "advance"
  /\ todo' = IF left # {} THEN left ELSE ptrs

(* The same for the advancing loop, after which the call returns. *)
NextMover ==
  LET left == todo \ {Min(todo)} IN
  IF left # {}
  THEN /\ pc' = "advance" /\ todo' = left /\ tailLen' = 0 /\ current' = <<>>
       /\ UNCHANGED <<ptrs, new, colliding, lost, saved>>
  ELSE pc' = "idle" /\ ClearLocals

-----------------------------------------------------------------------------
(* The loops up to the legality check read the game and change only local  *)
(* variables: one step.                                                    *)
Begin(dirs) ==
  /\ pc = "idle" /\ ~overrun
  /\ maxTailLength' = TailLimit(frame)
  /\ IF Active = {}
     THEN UNCHANGED <<pc, locals, saved>>
     ELSE /\ pc' = "remove"
          /\ ptrs' = Active /\ todo' = Active
          /\ new' = Targets(dirs)
          /\ colliding' = Colliding(Targets(dirs))
          /\ saved' = [players |-> players, grid |-> grid,
                       maxTailLength |-> maxTailLength]
          /\ UNCHANGED <<lost, tailLen, current>>
  /\ UNCHANGED <<players, grid, frame, idCounter, gameStarted, overrun>>

(* Only the head of the dead leaves the grid. *)
Bug_RemoveOne ==
  LET id == PtrId(Min(todo)) IN
  /\ pc = "remove"
  /\ IF id \in colliding
     THEN /\ players' = MapDelete(players, id)
          /\ grid' = [grid EXCEPT ![players.entries[id].position] = 0]
     ELSE UNCHANGED <<players, grid>>
  /\ NextRemoval
  /\ UNCHANGED <<frame, maxTailLength, idCounter, gameStarted, overrun,
                 ptrs, new, colliding, lost, tailLen, current, saved>>

RemoveOne ==
  LET id == PtrId(Min(todo)) IN
  /\ pc = "remove"
  /\ IF id \in colliding
     THEN players' = MapDelete(players, id) /\ grid' = Cleared({id} \cap Active)
     ELSE UNCHANGED <<players, grid>>
  /\ NextRemoval
  /\ UNCHANGED <<frame, maxTailLength, idCounter, gameStarted, overrun,
                 ptrs, new, colliding, lost, tailLen, current, saved>>

(* has_direction is set for the slots of ptrs, hence not for the id 0 that *)
(* a cleared slot shows.                                                   *)
Skipped(id) == id \notin ptrs \/ id \in colliding \/ id \notin Active

SkipOne ==
  /\ pc = "advance"
  /\ Skipped(PtrId(Min(todo)))
  /\ NextMover
  /\ UNCHANGED gameVars

(* The new head is stamped on the grid and a node for the old one pushed,  *)
(* unless malloc fails.                                                    *)
StampAndPush(failed) ==
  LET id == PtrId(Min(todo))
      p  == players.entries[id]
      tail == IF failed THEN p.tail ELSE <<p.position>> \o p.tail
  IN  /\ pc = "advance"
      /\ ~Skipped(id)
      /\ grid' = [grid EXCEPT ![new[id]] = id]
      /\ players' = [players EXCEPT !.entries[id].tail = tail]
      /\ lost' = IF failed THEN lost \cup {id} ELSE lost
      /\ pc' = "trim" /\ tailLen' = 0 /\ current' = tail
      /\ UNCHANGED <<frame, maxTailLength, idCounter, gameStarted, overrun,
                     ptrs, todo, new, colliding, saved>>

(* The cell is freed, the node stays in the list. *)
Bug_TrimNode ==
  /\ pc = "trim" /\ current # <<>>
  /\ tailLen' = tailLen + 1
  /\ grid' = IF tailLen + 1 > maxTailLength
             THEN [grid EXCEPT ![Head(current)] = 0] ELSE grid
  /\ current' = Tail(current)
  /\ UNCHANGED <<players, frame, maxTailLength, idCounter, gameStarted, overrun,
                 pc, ptrs, todo, new, colliding, lost, saved>>

(* current = current->next is forgotten for the nodes that are freed. *)
Bug_TrimNode_Stuck ==
  /\ pc = "trim" /\ current # <<>>
  /\ tailLen < maxTailLength
  /\ tailLen' = tailLen + 1
  /\ current' = Tail(current)
  /\ UNCHANGED <<gameVars, pc, ptrs, todo, new, colliding, lost, saved>>

(* One node too many is freed. *)
Bug_TrimNode_Early ==
  /\ pc = "trim" /\ current # <<>>
  /\ tailLen' = tailLen + 1
  /\ IF tailLen + 1 >= maxTailLength
     THEN /\ grid' = [grid EXCEPT ![Head(current)] = 0]
          /\ players' = [players EXCEPT !.entries[Min(todo)].tail =
                           SubSeq(@, 1, maxTailLength - 1)]
     ELSE UNCHANGED <<players, grid>>
  /\ current' = Tail(current)
  /\ UNCHANGED <<frame, maxTailLength, idCounter, gameStarted, overrun, pc,
                 ptrs, todo, new, colliding, lost, saved>>

(* One round of the trimming loop.  A node past the limit is freed, and    *)
(* the list ends at prev, the last node that was kept.                     *)
TrimNode ==
  LET id == Min(todo) IN
  /\ pc = "trim" /\ current # <<>>
  /\ tailLen' = tailLen + 1
  /\ IF tailLen + 1 > maxTailLength
     THEN /\ grid' = [grid EXCEPT ![Head(current)] = 0]
          /\ players' = [players EXCEPT !.entries[id].tail =
                           SubSeq(@, 1, maxTailLength)]
     ELSE UNCHANGED <<players, grid>>
  /\ current' = Tail(current)
  /\ UNCHANGED <<frame, maxTailLength, idCounter, gameStarted, overrun, pc,
                 ptrs, todo, new, colliding, lost, saved>>

Place ==
  LET id == Min(todo) IN
  /\ pc = "trim" /\ current = <<>>
  /\ players' = [players EXCEPT !.entries[id].position = new[id]]
  /\ NextMover
  /\ UNCHANGED <<grid, frame, maxTailLength, idCounter, gameStarted, overrun>>

-----------------------------------------------------------------------------
Idle == pc = "idle" /\ UNCHANGED <<pc, locals, saved>>

StepsInit ==
  /\ Init
  /\ pc = "idle" /\ ptrs = {} /\ todo = {} /\ new = <<>> /\ colliding = {}
  /\ lost = {} /\ tailLen = 0 /\ current = <<>>
  /\ saved = NoSnapshot

(* One step of a call of game_move_players that is under way. *)
MoveStep ==
  \/ RemoveOne
  \/ SkipOne
  \/ \E failed \in (IF AllocMayFail THEN BOOLEAN ELSE {FALSE}) : StampAndPush(failed)
  \/ TrimNode
  \/ Place

(* The server thread makes the other calls between the moves. *)
StepsNext ==
  \/ MoveStep
  \/ \E dirs \in [Active -> Direction] : Begin(dirs)
  \/ Idle /\ \E pos \in Cell : AddPlayer(pos)
  \/ Idle /\ AddPlayerNoRoom
  \/ Idle /\ \E id \in Slot : RemovePlayer(id)
  \/ Idle /\ \E f \in 0 .. MaxFrame : SetFrame(f)
  \/ Idle /\ Undefined

StepsSpec == StepsInit /\ [][StepsNext]_stepVars

(* The thread that is in the call keeps running. *)
FairStepsSpec == StepsSpec /\ WF_stepVars(MoveStep)

-----------------------------------------------------------------------------
(* Properties.                                                             *)

(* The types of the local variables of the call, and of the game's.        *)
StepsTypeOK ==
  /\ TypeOK
  /\ pc \in {"idle", "remove", "advance", "trim"}
  /\ ptrs \subseteq Slot /\ todo \subseteq ptrs
  /\ (pc = "idle") = (todo = {})
  /\ colliding \subseteq ptrs /\ lost \subseteq ptrs \ colliding
  /\ tailLen \in Nat /\ current \in Seq(Cell)

(* Seen from outside, nothing happens until the call returns, and then     *)
(* everything does: the loops amount to the atomic MovePlayers, however    *)
(* they remove the dead, move the survivors and trim the tails in turn.    *)
Atomic ==
  INSTANCE Game WITH
    players <- IF pc = "idle" THEN players ELSE saved.players,
    grid <- IF pc = "idle" THEN grid ELSE saved.grid,
    maxTailLength <- IF pc = "idle" THEN maxTailLength ELSE saved.maxTailLength

Refines == Atomic!Spec

(* The survivors that the advancing loop has still to move. *)
Waiting ==
  CASE pc = "idle"    -> {}
    [] pc = "remove"  -> ptrs \ colliding
    [] pc = "advance" -> todo \ colliding
    [] pc = "trim"    -> (todo \ {Min(todo)}) \ colliding

(* Legality is judged once, before anyone is removed or moved, and used    *)
(* later: until its turn comes, the target of every survivor stays free,   *)
(* so stamping it overwrites no other trail.                               *)
JudgementHolds ==
  \A id \in Waiting : new[id] \in Cell /\ grid[new[id]] = 0

(* Also between the steps of a call, while one trail is half trimmed and   *)
(* another half removed, the tail of everyone in the table is on the grid  *)
(* under its own id.                                                       *)
TrailsMarkedMeanwhile ==
  \A id \in Active : \A c \in TailCells(players.entries[id]) : grid[c] = id

(* A call that has begun returns: every loop of it terminates.             *)
MoveReturns == (pc # "idle") ~> (pc = "idle")
=============================================================================
