---------------------------- MODULE RendererView ----------------------------
(***************************************************************************)
(* The main thread draws the game while another thread changes it: in the  *)
(* lobby the accept thread adds players, afterwards the server thread      *)
(* drops and moves them (GameSteps.tla).  The renderer holds game_mutex    *)
(* while it collects the player pointers and at no other time; it follows  *)
(* the tail lists and reads positions and names as they are at that step.  *)
(* Once it has read a freed node C gives the program no meaning, and the   *)
(* model stops.                                                            *)
(***************************************************************************)
EXTENDS GameSteps

VARIABLES
  phase,      (* "lobby", then the server thread in its loop: "first",     *)
              (* "drops", "moving", "head", and "done" when it has returned *)
  destroying, (* the player whose tail nodes player_destroy has freed and  *)
              (* whose entry it has not cleared yet, or 0                  *)
  rpc,        (* what the renderer does next                               *)
  toDraw,     (* the slots of player_ptrs that are not drawn yet           *)
  node,       (* tail_node: its place in the list, 1 the newest; 0 is NULL *)
  head,       (* <<head_x, head_y>> as far as read                         *)
  been,       (* history: where the player was since head_x was read, as   *)
              (* long as it is in the table and moved once at most         *)
  picture     (* the last finished picture: NoBanner, or Game Over with    *)
              (* the winner, 0 when it names none                          *)

drawVars == <<toDraw, node, head, been>>

viewVars == <<stepVars, phase, destroying, rpc, drawVars, picture>>

NoBanner == -1

Drawn == Min(toDraw)

TailOf(id) == players.entries[id].tail

-----------------------------------------------------------------------------
(* The other threads.                                                      *)

(* A step of theirs leaves the renderer where it is.  A node pushed on the *)
(* list it walks moves its node one place back; and the history is kept.   *)
SeenByRenderer(pushed) ==
  /\ rpc # "stale"
  /\ UNCHANGED <<rpc, toDraw, head, picture>>
  /\ node' = IF pushed # 0 /\ rpc = "tail" /\ pushed = Drawn /\ node # 0
             THEN node + 1 ELSE node
  /\ been' = IF rpc # "headY" \/ been = <<>> THEN been
             ELSE IF Drawn \notin Occupied(players') THEN <<>>
             ELSE LET pos == players'.entries[Drawn].position IN
                  IF pos = been[Len(been)] THEN been
                  ELSE IF Len(been) = 1 THEN Append(been, pos) ELSE <<>>

(* The accept thread adds a player, as long as there is a slot for it. *)
Join ==
  /\ phase = "lobby" /\ idCounter \in Slot
  /\ Idle /\ (AddPlayerNoRoom \/ \E pos \in Cell : AddPlayer(pos))
  /\ UNCHANGED <<phase, destroying>>
  /\ SeenByRenderer(0)

(* Between two pictures the main thread joins the accept thread and starts *)
(* the server thread.                                                      *)
StartPlay ==
  /\ phase = "lobby" /\ rpc = "idle"
  /\ phase' = "first"
  /\ UNCHANGED <<stepVars, destroying, rpc, drawVars, picture>>

(* The head of the loop in server_run: the frames count from 0. *)
LoopHead ==
  /\ phase \in {"first", "head"}
  /\ IF GameIsOver
     THEN phase' = "done" /\ UNCHANGED stepVars
     ELSE /\ phase' = "drops"
          /\ Idle
          /\ LET f == IF phase = "first" THEN 0 ELSE frame + 1
             IN  f <= MaxFrame /\ SetFrame(f)
  /\ UNCHANGED destroying
  /\ SeenByRenderer(0)

(* The players game_remove_player is about to take out: in the loop over   *)
(* the clients any of them, in game_move_players the one that collided.    *)
Condemned ==
  IF phase = "drops" THEN Active
  ELSE IF pc = "remove" THEN {PtrId(Min(todo))} \cap colliding \cap Active
  ELSE {}

(* player_destroy: the nodes are freed first, then the entry is cleared.   *)
(* The mutex is held from here to the end of the removal.                  *)
DestroyTail ==
  /\ destroying = 0
  /\ destroying' \in Condemned
  /\ UNCHANGED <<stepVars, phase>>
  /\ SeenByRenderer(0)

FinishRemoval ==
  /\ destroying # 0
  /\ destroying' = 0
  /\ IF phase = "drops" THEN Idle /\ RemovePlayer(destroying) ELSE RemoveOne
  /\ UNCHANGED phase
  /\ SeenByRenderer(0)

BeginMove ==
  /\ phase = "drops" /\ destroying = 0
  /\ \E dirs \in [Active -> Direction] : Begin(dirs)
  /\ phase' = "moving"
  /\ UNCHANGED destroying
  /\ SeenByRenderer(0)

(* A step of game_move_players that removes nobody. *)
Moving ==
  /\ destroying = 0
  /\ \/ /\ pc = "remove" /\ Condemned = {} /\ RemoveOne
        /\ SeenByRenderer(0)
     \/ (SkipOne \/ TrimNode \/ Place) /\ SeenByRenderer(0)
     \/ \E failed \in (IF AllocMayFail THEN BOOLEAN ELSE {FALSE}) :
          /\ StampAndPush(failed)
          /\ SeenByRenderer(IF failed THEN 0 ELSE Min(todo))
  /\ UNCHANGED <<phase, destroying>>

EndFrame ==
  /\ phase = "moving"
  /\ Idle /\ UNCHANGED gameVars
  /\ phase' = "head"
  /\ UNCHANGED destroying
  /\ SeenByRenderer(0)

Others ==
  Join \/ LoopHead \/ DestroyTail \/ FinishRemoval \/ BeginMove \/ Moving \/ EndFrame

-----------------------------------------------------------------------------
(* render_players.                                                         *)

OthersUnchanged == UNCHANGED <<stepVars, phase, destroying>>

(* After the last player the splash screen is finished; in play the        *)
(* renderer asks whether the game is over.                                 *)
AfterPlayers == IF phase = "lobby" THEN "idle" ELSE "over"

(* The first node of a slot's list; a cleared entry has none. *)
FirstNode(id) == IF id \in Active /\ TailOf(id) # <<>> THEN 1 ELSE 0

(* game_get_players, under the mutex that a removal holds throughout. *)
Collect ==
  /\ rpc = "idle" /\ destroying = 0
  /\ IF Active = {}
     THEN rpc' = AfterPlayers /\ UNCHANGED <<toDraw, node>>
     ELSE /\ rpc' = "tail" /\ toDraw' = Active
          /\ node' = FirstNode(Min(Active))
  /\ UNCHANGED <<head, been, picture>>
  /\ OthersUnchanged

(* The nodes that are in the list of id, or were cut off it and have not   *)
(* been freed yet.                                                         *)
LiveNode(id, i) ==
  /\ id \in Active \ {destroying}
  /\ \/ i \in DOMAIN TailOf(id)
     \/ pc = "trim" /\ id = Min(todo) /\ i \in tailLen + 1 .. tailLen + Len(current)

(* tail_node = tail_node->next is forgotten. *)
Bug_NextNode(id, i) == i

(* next of the last node that is kept is NULL once the rest is cut off. *)
NextNode(id, i) ==
  IF i = Len(TailOf(id)) \/ ~LiveNode(id, i + 1) THEN 0 ELSE i + 1

(* The body of the walk: the node's position and next are read. *)
DrawNode ==
  /\ rpc = "tail" /\ node # 0
  /\ IF LiveNode(Drawn, node)
     THEN node' = NextNode(Drawn, node) /\ UNCHANGED rpc
     ELSE rpc' = "stale" /\ UNCHANGED node
  /\ UNCHANGED <<toDraw, head, been, picture>>
  /\ OthersUnchanged

(* A cleared entry shows zeros. *)
PositionOf(id) == IF id \in Active THEN players.entries[id].position ELSE <<0, 0>>

ReadHeadX ==
  /\ rpc = "tail" /\ node = 0
  /\ rpc' = "headY"
  /\ head' = <<PositionOf(Drawn)[1], 0>>
  /\ been' = IF Drawn \in Active THEN <<PositionOf(Drawn)>> ELSE <<>>
  /\ UNCHANGED <<toDraw, node, picture>>
  /\ OthersUnchanged

ReadHeadY ==
  /\ rpc = "headY"
  /\ rpc' = "head"
  /\ head' = <<head[1], PositionOf(Drawn)[2]>>
  /\ UNCHANGED <<toDraw, node, been, picture>>
  /\ OthersUnchanged

DrawHead ==
  LET left == toDraw \ {Drawn} IN
  /\ rpc = "head"
  /\ toDraw' = left
  /\ head' = <<0, 0>> /\ been' = <<>>
  /\ IF left = {} THEN rpc' = AfterPlayers /\ UNCHANGED node
                  ELSE rpc' = "tail" /\ node' = FirstNode(Min(left))
  /\ UNCHANGED picture
  /\ OthersUnchanged

-----------------------------------------------------------------------------
(* renderer_render and render_game_over.                                   *)

Finish(banner) ==
  /\ rpc' = "idle"
  /\ picture' = banner
  /\ toDraw' = {}
  /\ UNCHANGED <<node, head, been>>

(* size is not asked for. *)
Bug_CheckOver ==
  /\ rpc = "over"
  /\ IF gameStarted THEN rpc' = "winner" /\ UNCHANGED <<drawVars, picture>>
                    ELSE Finish(NoBanner)
  /\ OthersUnchanged

(* game_is_over takes no lock. *)
CheckOver ==
  /\ rpc = "over"
  /\ IF GameIsOver THEN rpc' = "winner" /\ UNCHANGED <<drawVars, picture>>
                   ELSE Finish(NoBanner)
  /\ OthersUnchanged

Bug_CollectWinner ==
  /\ rpc = "winner" /\ destroying = 0
  /\ rpc' = "name" /\ toDraw' = {id \in Active : \A k \in Active : id <= k}
  /\ UNCHANGED <<node, head, been, picture>>
  /\ OthersUnchanged

CollectWinner ==
  /\ rpc = "winner" /\ destroying = 0
  /\ IF Active = {} THEN Finish(0)
     ELSE rpc' = "name" /\ toDraw' = {Min(Active)} /\ UNCHANGED <<node, head, been, picture>>
  /\ OthersUnchanged

(* The name in an entry that has been cleared is empty. *)
ShowWinner ==
  /\ rpc = "name"
  /\ Finish(IF Drawn \in Active THEN Drawn ELSE 0)
  /\ OthersUnchanged

Renderer ==
  \/ Collect \/ DrawNode \/ ReadHeadX \/ ReadHeadY \/ DrawHead
  \/ CheckOver \/ CollectWinner \/ ShowWinner

-----------------------------------------------------------------------------
ViewInit ==
  /\ StepsInit
  /\ phase = "lobby" /\ destroying = 0
  /\ rpc = "idle" /\ toDraw = {} /\ node = 0
  /\ head = <<0, 0>> /\ been = <<>> /\ picture = NoBanner

ViewNext == Others \/ StartPlay \/ Renderer

ViewSpec == ViewInit /\ [][ViewNext]_viewVars

(* The main thread draws picture after picture. *)
FairViewSpec == ViewSpec /\ WF_viewVars(Renderer)

-----------------------------------------------------------------------------
(* Properties.                                                             *)

(* The renderer's variables keep their types, and those of the game too.   *)
ViewTypeOK ==
  /\ StepsTypeOK
  /\ phase \in {"lobby", "first", "drops", "moving", "head", "done"}
  /\ destroying \in Slot
  /\ rpc \in {"idle", "tail", "headY", "head", "over", "winner", "name", "stale"}
  /\ toDraw \subseteq Slot
  /\ (toDraw = {}) = (rpc \in {"idle", "over", "winner"})
  /\ node \in Nat /\ head \in Cell /\ been \in Seq(Cell)
  /\ picture \in Slot \cup {NoBanner}

(* Walking the lists without the lock goes wrong in two cases only: the    *)
(* player was removed since the pointers were collected, or its tail has   *)
(* BaseTailLength nodes at least, the smallest limit that is ever in       *)
(* force: shorter ones are not trimmed.  Nothing else that is done to the  *)
(* lists, pushing included, can hurt the walk.                             *)
StaleReadExplained ==
  rpc = "stale" =>
    \/ Drawn \notin Active \ {destroying}
    \/ Len(TailOf(Drawn)) >= BaseTailLength

(* The two coordinates of a head are read one after the other while the    *)
(* server thread may move it; still the head is drawn on a cell where the  *)
(* player has been since, unless it was removed or moved twice between.    *)
HeadWhereItWas ==
  rpc = "head" /\ been # <<>> => \E i \in DOMAIN been : head = been[i]

(* game_is_over and the winner's name are read without the lock from a     *)
(* table that loses players one by one in the middle of a frame.  A winner *)
(* that dies in that same frame can be shown, but never is one winner      *)
(* replaced by another, and Game Over is never taken back.                 *)
WinnerNotReplaced ==
  [][picture # NoBanner => picture' \in {0, picture}]_viewVars

Survivor == IF Active = {} THEN 0 ELSE Min(Active)

(* However the renderer and the server thread raced, when server_run has   *)
(* returned the picture ends up naming the player that is left.            *)
OutcomeShown ==
  phase = "done" ~> rpc = "stale" \/ picture = Survivor
=============================================================================
