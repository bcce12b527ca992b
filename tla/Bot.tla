-------------------------------- MODULE Bot --------------------------------
(***************************************************************************)
(* The sample bots in the game: in every frame each is shown the grid,     *)
(* draws directions until one leads to a free cell, and the server moves   *)
(* all players at once with what has been answered in time (Game.tla).     *)
(*                                                                         *)
(* A bot that misses a deadline answers an older frame from then on        *)
(* (FrameLoop.tla); all that is said of its moves is that they are moves.  *)
(* The same goes for a player whose client was lost in the handshake.      *)
(***************************************************************************)
EXTENDS Game, FiniteSetsExt

CONSTANTS
  MaxAttempts,  (* MAX_ATTEMPTS, 200 in the code                           *)
  Inertias,     (* what rand_int_inclusive(.., 50) in main() may give      *)
  WordSize      (* the numbers pcg32 returns are those below it, 2^32      *)

ASSUME BotAssumption ==
  /\ MaxAttempts \in Nat
  /\ Inertias \subseteq Nat
  /\ WordSize \in Nat /\ \A n \in Inertias : n + 4 <= WordSize

VARIABLES
  stage,     (* "lobby", then the frame: "send" to the move, "head"; "over" *)
  unsent,    (* the bots that have not been shown this frame yet           *)
  late,      (* the players whose moves do not answer the current frame    *)
  doing,     (* what each bot is at: "wait", "draw", "decided", "gaveUp"   *)
  attempts,  (* attempts                                                   *)
  damped,    (* inertial_damping is 0                                      *)
  direction, (* direction of main(): the last one chosen, -1 at first      *)
  inertia,   (* inertia of main()                                          *)
  shown,     (* the grid in the state each bot was sent                    *)
  used       (* history: the directions of the last game_move_players      *)

botVars == <<doing, attempts, damped, direction, inertia, shown>>

vars == <<gameVars, stage, unsent, late, botVars, used>>

-----------------------------------------------------------------------------
(* c_utils.h.                                                              *)

Bug_Threshold(bound) == 0

(* -bound % bound in unsigned arithmetic *)
Threshold(bound) == (WordSize - bound) % bound

(* The numbers rand_int_inclusive does not reject. *)
Accepted(bound) == Threshold(bound) .. WordSize - 1

(* The directions by their number in the enum; the remainder is made       *)
(* positive.                                                               *)
DirectionFromValue(v) == <<"north", "east", "south", "west">>[(v % 4) + 1]

Bug_IsValidMove(g, pos, dir) == Step(pos, dir) \in Cell => g[Step(pos, dir)] = 0

IsValidMove(g, pos, dir) == Step(pos, dir) \in Cell /\ g[Step(pos, dir)] = 0

-----------------------------------------------------------------------------
(* decide_move.                                                            *)

Position(id) == players.entries[id].position

Bug_Upper(id) == IF damped[id] THEN 2 ELSE 3 + inertia[id]

(* The largest proposal: four directions, and as often as inertia says the *)
(* one before.                                                             *)
Upper(id) == IF damped[id] THEN 3 ELSE 3 + inertia[id]

Choose(id, what, value) ==
  /\ doing' = [doing EXCEPT ![id] = what]
  /\ direction' = [direction EXCEPT ![id] = value]
  /\ attempts' = [attempts EXCEPT ![id] = 0]
  /\ damped' = [damped EXCEPT ![id] = FALSE]

(* A bot that has drawn often enough says north. *)
GiveUp(id) ==
  /\ doing[id] = "draw" /\ attempts[id] >= MaxAttempts
  /\ Choose(id, "gaveUp", 0)
  /\ UNCHANGED <<gameVars, stage, unsent, late, inertia, shown, used>>

(* What is made of the draw r. *)
Proposal(id, r) ==
  LET proposal == r % (Upper(id) + 1) IN
  IF proposal >= 4 THEN direction[id] ELSE proposal

Bug_Draw(id, r) ==
  /\ doing[id] = "draw" /\ attempts[id] < MaxAttempts
  /\ IF IsValidMove(shown[id], Position(id), DirectionFromValue(Proposal(id, r)))
     THEN Choose(id, "decided", Proposal(id, r) % 4)
     ELSE /\ damped' = [damped EXCEPT ![id] = @ \/ r % (Upper(id) + 1) >= 4]
          /\ UNCHANGED <<doing, direction, attempts>>
  /\ UNCHANGED <<gameVars, stage, unsent, late, inertia, shown, used>>

(* Once round the loop with an accepted draw; a rejected one changes only  *)
(* the state of the generator.                                             *)
Draw(id, r) ==
  /\ doing[id] = "draw" /\ attempts[id] < MaxAttempts
  /\ IF IsValidMove(shown[id], Position(id), DirectionFromValue(Proposal(id, r)))
     THEN Choose(id, "decided", Proposal(id, r) % 4)
     ELSE /\ attempts' = [attempts EXCEPT ![id] = @ + 1]
          /\ damped' = [damped EXCEPT ![id] = @ \/ r % (Upper(id) + 1) >= 4]
          /\ UNCHANGED <<doing, direction>>
  /\ UNCHANGED <<gameVars, stage, unsent, late, inertia, shown, used>>

Decide(id) == GiveUp(id) \/ \E r \in Accepted(Upper(id) + 1) : Draw(id, r)

-----------------------------------------------------------------------------
(* The server.                                                             *)

(* A player joins, with a bot of some inertia or without a client. *)
Join(pos) ==
  /\ stage = "lobby" /\ idCounter \in Slot
  /\ AddPlayer(pos)
  /\ \E n \in Inertias : inertia' = [inertia EXCEPT ![idCounter] = n]
  /\ late' = late \/ late' = late \cup {idCounter}
  /\ UNCHANGED <<stage, unsent, doing, attempts, damped, direction, shown, used>>

(* The head of the loop in server_run. *)
StartFrame(f) ==
  /\ IF GameIsOver
     THEN stage' = "over" /\ UNCHANGED <<gameVars, unsent>>
     ELSE stage' = "send" /\ unsent' = Active \ late /\ SetFrame(f)

Start ==
  /\ stage = "lobby"
  /\ StartFrame(0)
  /\ UNCHANGED <<late, botVars, used>>

SendState ==
  LET id == Min(unsent) IN
  /\ stage = "send" /\ unsent # {}
  /\ shown' = [shown EXCEPT ![id] = grid]
  /\ doing' = [doing EXCEPT ![id] = "draw"]
  /\ unsent' = unsent \ {id}
  /\ UNCHANGED <<gameVars, stage, late, attempts, damped, direction, inertia, used>>

(* clients_unsent keeps the client. *)
Bug_Drop(id) ==
  /\ stage = "send" /\ id \in Active
  /\ RemovePlayer(id)
  /\ late' = late \ {id}
  /\ Choose(id, "wait", direction[id])
  /\ UNCHANGED <<stage, unsent, inertia, shown, used>>

(* A client whose socket fails is dropped, with its player.  (A player     *)
(* without a client cannot be; letting it go frees cells, no more.)        *)
Drop(id) ==
  /\ stage = "send" /\ id \in Active
  /\ RemovePlayer(id)
  /\ unsent' = unsent \ {id} /\ late' = late \ {id}
  /\ Choose(id, "wait", direction[id])
  /\ UNCHANGED <<stage, inertia, shown, used>>

(* All have answered or the time is up: who has not answered moves north,  *)
(* and is late.                                                            *)
Answers ==
  {dirs \in [Active -> Direction] :
     \A id \in Active \ late :
       dirs[id] = IF doing[id] \in {"decided", "gaveUp"}
                  THEN DirectionFromValue(direction[id]) ELSE "north"}

Move(dirs) ==
  /\ stage = "send" /\ unsent = {}
  /\ MovePlayers(dirs, {})
  /\ used' = dirs
  /\ late' = late \cup {id \in Active : doing[id] = "draw"}
  /\ doing' = [id \in Slot |-> IF doing[id] = "draw" THEN "wait" ELSE doing[id]]
  /\ stage' = "head"
  /\ UNCHANGED <<unsent, attempts, damped, direction, inertia, shown>>

(* The bots of the players that are left wait for the next state. *)
NextFrame ==
  /\ stage = "head" /\ (frame < MaxFrame \/ GameIsOver)
  /\ StartFrame(frame + 1)
  /\ doing' = [id \in Slot |-> "wait"]
  /\ attempts' = [id \in Slot |-> 0]
  /\ damped' = [id \in Slot |-> FALSE]
  /\ UNCHANGED <<late, direction, inertia, shown, used>>

-----------------------------------------------------------------------------
NoGrid == [c \in Cell |-> 0]

BotInit ==
  /\ Init
  /\ stage = "lobby" /\ unsent = {} /\ late = {}
  /\ doing = [id \in Slot |-> "wait"]
  /\ attempts = [id \in Slot |-> 0]
  /\ damped = [id \in Slot |-> FALSE]
  /\ direction = [id \in Slot |-> -1]
  /\ inertia = [id \in Slot |-> 0]
  /\ shown = [id \in Slot |-> NoGrid]
  /\ used = <<>>

BotNext ==
  \/ \E pos \in Cell : Join(pos)
  \/ Start \/ SendState \/ NextFrame
  \/ \E id \in Slot : Drop(id) \/ Decide(id)
  \/ \E dirs \in Answers : Move(dirs)

BotSpec == BotInit /\ [][BotNext]_vars

(* A bot's process runs on, and the generator does not return rejected     *)
(* numbers for ever.                                                       *)
FairBotSpec == BotSpec /\ \A id \in Slot : WF_vars(Decide(id))

-----------------------------------------------------------------------------
(* Properties.                                                             *)

(* The variables of the loop and of the bots keep their types.             *)
BotTypeOK ==
  /\ TypeOK
  /\ stage \in {"lobby", "send", "head", "over"}
  /\ unsent \subseteq Active \ late
  /\ late \subseteq Slot
  /\ doing \in [Slot -> {"wait", "draw", "decided", "gaveUp"}]
  /\ attempts \in [Slot -> 0 .. MaxAttempts]
  /\ damped \in [Slot -> BOOLEAN]
  /\ direction \in [Slot -> -1 .. 3]

(* A bot that answers in time and has not given up can die in one way      *)
(* only: another player enters the same cell in the same frame.  Neither   *)
(* the frame that passes between the state it saw and the move, nor the    *)
(* clients dropped meanwhile, can turn its choice into a wall or a trail.  *)
DeathsExplained ==
  [][\A id \in Active \ Active' :
       stage = "send" /\ stage' = "head" /\ doing[id] = "decided" =>
         \E other \in Active \ {id} :
           Step(Position(other), used'[other]) = Step(Position(id), used'[id])]_vars

(* While a bot has attempts left, every way out it has can still be drawn, *)
(* whatever its inertia and after the previous direction was refused.      *)
WaysOutOffered ==
  \A id \in Active : doing[id] = "draw" =>
    \A dir \in Direction : IsValidMove(shown[id], Position(id), dir) =>
      \E r \in Accepted(Upper(id) + 1) : DirectionFromValue(Proposal(id, r)) = dir

(* "Uses bounded rejection to avoid modulo bias" (c_utils.h): as many of   *)
(* the numbers that are not rejected give one proposal as any other.       *)
Unbiased ==
  \A id \in Active : doing[id] = "draw" =>
    LET bound == Upper(id) + 1
        ways(k) == Cardinality({r \in Accepted(bound) : r % bound = k})
    IN  \A k \in 0 .. Upper(id) : ways(k) = ways(0)

(* A bot boxed in on all sides does not draw for ever. *)
DecisionEnds ==
  \A id \in Slot : doing[id] = "draw" ~> doing[id] # "draw"
=============================================================================
