----------------------------- MODULE FrameLoop -----------------------------
(***************************************************************************)
(* server_run with the clients it serves.  In every frame the server sends *)
(* its state to each connected client, takes at most one move from each    *)
(* until all have answered or the time is up, and moves the players.       *)
(*                                                                         *)
(* A state packet is the frame it shows and the players in it; a move is   *)
(* the frame whose state it answers, which is what the properties need of  *)
(* it.  game_move_players is here what Game.tla promises of it to this     *)
(* loop: some of the players die.                                          *)
(***************************************************************************)
EXTENDS Integers, Sequences, FiniteSetsExt

CONSTANTS
  Players,     (* the ids in the game when the server thread starts        *)
  Lobbies,     (* which of them may have a socket then: those whose        *)
               (* handshake ended well                                     *)
  SendBuffer,  (* bound: the state packets a socket holds unread           *)
  MayFragment, (* whether a move may arrive in two pieces                  *)
  MaxFrame,    (* bound: the frames played                                 *)
  Crowd        (* bound: so many clients or more play one frame only       *)

ASSUME FrameLoopAssumption ==
  /\ Players \subseteq Nat \ {0} /\ IsFiniteSet(Players)
  /\ Lobbies \subseteq SUBSET Players
  /\ SendBuffer \in Nat \ {0}
  /\ MayFragment \in BOOLEAN
  /\ MaxFrame \in Nat /\ Crowd \in Nat

VARIABLES
  pc,         (* where server_run is                                       *)
  running,    (* server->running                                           *)
  frame,      (* server->frame                                             *)
  sock,       (* the ids with client_sockets[id] >= 0                      *)
  alive,      (* the ids in game->players                                  *)
  unsent,     (* clients_unsent                                            *)
  toRecv,     (* to_recv                                                   *)
  ready,      (* rfds after select, less what has been read                *)
  directions, (* directions; NoMove is the zero it is initialised to       *)
  client,     (* what each client is doing                                 *)
  answering,  (* the frame whose state the client is deciding on           *)
  states,     (* the state packets on their way to each client             *)
  moves,      (* the moves in the server's receive buffer                  *)
  dropped,    (* history: the clients the server has given up              *)
  taken,      (* history: the moves taken from each client                 *)
  missed      (* history: the deadlines each client has missed             *)

serverVars ==
  <<pc, running, frame, sock, alive, dropped, unsent, toRecv, ready, directions>>
clientVars == <<client, answering>>
channels == <<states, moves>>
history == <<taken, missed>>
vars == <<serverVars, clientVars, channels, history>>

NoMove == -1

-----------------------------------------------------------------------------
(* server_run.                                                             *)

(* The flag goes up, whatever server_stop made of it before. *)
RunStart ==
  /\ pc = "start"
  /\ pc' = "head"
  /\ running' = TRUE
  /\ UNCHANGED <<frame, sock, alive, dropped, unsent, toRecv, ready,
                 directions, clientVars, channels, history>>

(* game_is_over: game_started is set when the first player is added, which *)
(* is before this thread begins or never.                                  *)
GameIsOver == Players # {} /\ Cardinality(alive) <= 1

(* The loop condition and the per-frame buffers. *)
FrameStart ==
  /\ pc = "head"
  /\ IF running /\ ~GameIsOver
     THEN /\ frame < MaxFrame
          /\ frame = 0 \/ Cardinality(sock \cup dropped) < Crowd
          /\ pc' = "send"
          /\ unsent' = sock /\ toRecv' = {}
          /\ directions' = [id \in Players |-> NoMove]
     ELSE pc' = "done" /\ UNCHANGED <<unsent, toRecv, directions>>
  /\ UNCHANGED <<running, frame, sock, alive, dropped, ready, clientVars,
                 channels, history>>

Bug_Drop(id) ==
  /\ sock' = sock \ {id} /\ dropped' = dropped \cup {id}
  /\ toRecv' = toRecv \ {id} /\ UNCHANGED alive

Bug_Drop_StillAwaited(id) ==
  /\ sock' = sock \ {id} /\ dropped' = dropped \cup {id}
  /\ alive' = alive \ {id} /\ UNCHANGED toRecv

Bug_Drop_SocketLeft(id) ==
  toRecv' = toRecv \ {id} /\ alive' = alive \ {id} /\ UNCHANGED <<sock, dropped>>

(* close the socket and game_remove_player *)
Drop(id) ==
  /\ sock' = sock \ {id} /\ dropped' = dropped \cup {id}
  /\ toRecv' = toRecv \ {id}
  /\ alive' = alive \ {id}

Bug_Sent(id) ==
  /\ states' = IF client[id] = "closed" \/ Len(states[id]) = SendBuffer THEN states
               ELSE [states EXCEPT ![id] =
                       Append(@, [frame |-> frame, players |-> alive])]
  /\ toRecv' = toRecv \cup {id}
  /\ UNCHANGED <<sock, alive, dropped>>

(* attempt_send_to_clients, one client.  The packet shows the players that *)
(* are left when its turn comes.  A socket whose client is gone may still  *)
(* accept the packet; a full one refuses it (EAGAIN).                      *)
Sent(id) ==
  /\ Len(states[id]) < SendBuffer
  /\ states' = IF client[id] = "closed" THEN states
               ELSE [states EXCEPT ![id] =
                       Append(@, [frame |-> frame, players |-> alive])]
  /\ toRecv' = toRecv \cup {id}
  /\ UNCHANGED <<sock, alive, dropped>>

SendFailed(id) ==
  /\ Len(states[id]) = SendBuffer \/ client[id] = "closed"
  /\ Drop(id)
  /\ UNCHANGED states

SendState ==
  LET id == Min(unsent) IN
  /\ pc = "send" /\ unsent # {}
  /\ Sent(id) \/ SendFailed(id)
  /\ unsent' = unsent \ {id}
  /\ UNCHANGED <<pc, running, frame, ready, directions, clientVars, moves, history>>

(* A packet takes several send calls.  When a closed peer has answered the *)
(* first of them with a reset, the next raises SIGPIPE, which nothing in   *)
(* the server catches or ignores.                                          *)
Killed ==
  /\ pc = "send" /\ unsent # {}
  /\ client[Min(unsent)] = "closed"
  /\ pc' = "killed"
  /\ UNCHANGED <<running, frame, sock, alive, dropped, unsent, toRecv, ready,
                 directions, clientVars, channels, history>>

SendsDone ==
  /\ pc = "send" /\ unsent = {}
  /\ pc' = "select"
  /\ UNCHANGED <<running, frame, sock, alive, dropped, unsent, toRecv, ready,
                 directions, clientVars, channels, history>>

Readable(id) ==
  moves[id] # <<>> \/ client[id] \in {"half", "closed"}

(* prepare_read_fds and select *)
Select ==
  /\ pc = "select"
  /\ IF toRecv = {}
     THEN pc' = "move" /\ UNCHANGED ready
     ELSE pc' = "recv" /\ ready' = {id \in toRecv : Readable(id)}
  /\ UNCHANGED <<running, frame, sock, alive, dropped, unsent, toRecv, directions,
                 clientVars, channels, history>>

Bug_RecvMove_Newest(id) ==
  /\ moves[id] # <<>>
  /\ directions' = [directions EXCEPT ![id] = moves[id][Len(moves[id])]]
  /\ moves' = [moves EXCEPT ![id] = <<>>]
  /\ toRecv' = toRecv \ {id}
  /\ taken' = [taken EXCEPT ![id] = @ + 1]
  /\ UNCHANGED <<sock, alive, dropped>>

(* recv_move_direction succeeds: the oldest move is taken. *)
RecvMove(id) ==
  /\ moves[id] # <<>>
  /\ directions' = [directions EXCEPT ![id] = Head(moves[id])]
  /\ moves' = [moves EXCEPT ![id] = Tail(@)]
  /\ toRecv' = toRecv \ {id}
  /\ taken' = [taken EXCEPT ![id] = @ + 1]
  /\ UNCHANGED <<sock, alive, dropped>>

(* It fails: end of file, or EAGAIN with half a packet read. *)
RecvFailed(id) ==
  /\ moves[id] = <<>> /\ client[id] \in {"half", "closed"}
  /\ Drop(id)
  /\ UNCHANGED <<directions, moves, taken>>

(* The rest of a half packet arrived after select: the client is readable  *)
(* with a whole move, and RecvMove takes it.                               *)
RecvOne ==
  LET id == Min(ready) IN
  /\ pc = "recv" /\ ready # {}
  /\ RecvMove(id) \/ RecvFailed(id)
  /\ ready' = ready \ {id}
  /\ UNCHANGED <<pc, running, frame, unsent, clientVars, states, missed>>

(* The end of a pass: all have answered, or the time is up, or once more.  *)
RecvsDone(following) ==
  /\ pc = "recv" /\ ready = {}
  /\ pc' = following
  /\ UNCHANGED <<running, frame, sock, alive, dropped, unsent, toRecv, ready,
                 directions, clientVars, channels, history>>

AllAnswered == toRecv = {} /\ RecvsDone("move")

Bug_TimeUp == toRecv = {} /\ RecvsDone("move")

(* More than max_comm_ms have passed. *)
TimeUp == RecvsDone("move")

AnotherPass == toRecv # {} /\ RecvsDone("select")

(* game_move_players, and the frame counter. *)
MovePlayers(dead) ==
  /\ pc = "move"
  /\ alive' = alive \ dead
  /\ missed' = [id \in Players |-> missed[id] + IF id \in toRecv THEN 1 ELSE 0]
  /\ frame' = frame + 1
  /\ toRecv' = {}
  /\ pc' = "head"
  /\ UNCHANGED <<running, sock, dropped, unsent, ready, directions, clientVars,
                 channels, taken>>

(* server_stop, called by the main thread.  Before RunStart the flag is     *)
(* down already and the call changes nothing.                              *)
Stop ==
  /\ running
  /\ running' = FALSE
  /\ UNCHANGED <<pc, frame, sock, alive, dropped, unsent, toRecv, ready,
                 directions, clientVars, channels, history>>

-----------------------------------------------------------------------------
(* The clients.                                                            *)

(* cycles_recv_game_state: the oldest packet; a client that is not in it   *)
(* any more leaves.                                                        *)
ClientRecv(id) ==
  /\ client[id] = "waiting" /\ states[id] # <<>>
  /\ LET state == Head(states[id]) IN
       IF id \in state.players
       THEN /\ client' = [client EXCEPT ![id] = "thinking"]
            /\ answering' = [answering EXCEPT ![id] = state.frame]
            /\ states' = [states EXCEPT ![id] = Tail(@)]
       ELSE /\ client' = [client EXCEPT ![id] = "closed"]
            /\ states' = [states EXCEPT ![id] = <<>>]
            /\ UNCHANGED answering
  /\ UNCHANGED <<serverVars, moves, history>>

(* cycles_send_move_i32 *)
ClientSend(id) ==
  /\ client[id] \in {"thinking", "half"}
  /\ client' = [client EXCEPT ![id] = "waiting"]
  /\ answering' = [answering EXCEPT ![id] = NoMove]
  /\ moves' = [moves EXCEPT ![id] = Append(@, answering[id])]
  /\ UNCHANGED <<serverVars, states, history>>

(* The length has arrived and the direction has not: the eight bytes the   *)
(* client sends are a stream to TCP, not a message.                        *)
ClientSendHalf(id) ==
  /\ MayFragment
  /\ client[id] = "thinking"
  /\ client' = [client EXCEPT ![id] = "half"]
  /\ UNCHANGED <<serverVars, answering, channels, history>>

(* A client disconnects, crashes, or finds its socket closed. *)
ClientClose(id) ==
  /\ client[id] # "closed"
  /\ client' = [client EXCEPT ![id] = "closed"]
  /\ answering' = [answering EXCEPT ![id] = NoMove]
  /\ states' = [states EXCEPT ![id] = <<>>]
  /\ UNCHANGED <<serverVars, moves, history>>

-----------------------------------------------------------------------------
(* server_create, and the sockets and players that the lobby has stored. *)
Init ==
  /\ pc = "start" /\ running = FALSE /\ frame = 0
  /\ sock \in Lobbies /\ alive = Players /\ dropped = {}
  /\ unsent = {} /\ toRecv = {} /\ ready = {}
  /\ directions = [id \in Players |-> NoMove]
  /\ client = [id \in Players |-> IF id \in sock THEN "waiting" ELSE "closed"]
  /\ answering = [id \in Players |-> NoMove]
  /\ states = [id \in Players |-> <<>>]
  /\ moves = [id \in Players |-> <<>>]
  /\ taken = [id \in Players |-> 0]
  /\ missed = [id \in Players |-> 0]

Server ==
  \/ RunStart \/ FrameStart \/ SendState \/ Killed \/ SendsDone
  \/ Select \/ RecvOne \/ AllAnswered \/ TimeUp \/ AnotherPass
  \/ \E dead \in SUBSET alive : MovePlayers(dead)

Clients ==
  \E id \in Players :
    ClientRecv(id) \/ ClientSend(id) \/ ClientSendHalf(id) \/ ClientClose(id)

Next == Server \/ Stop \/ Clients

Spec == Init /\ [][Next]_vars

(* The server thread runs on, and each time round the loop is later than   *)
(* the last: the time limit is hit if the loop goes round for ever.        *)
Fairness == WF_vars(Server) /\ SF_vars(TimeUp)

FairSpec == Spec /\ Fairness

-----------------------------------------------------------------------------
(* Properties.                                                             *)

(* The variables hold what their C types and the loop's structure allow.   *)
TypeOK ==
  /\ pc \in {"start", "head", "send", "select", "recv", "move", "done", "killed"}
  /\ running \in BOOLEAN /\ frame \in 0 .. MaxFrame
  /\ sock \subseteq Players /\ alive \subseteq Players /\ dropped \subseteq Players
  /\ unsent \subseteq sock /\ toRecv \subseteq sock /\ ready \subseteq toRecv
  /\ directions \in [Players -> -1 .. MaxFrame]
  /\ client \in [Players -> {"waiting", "thinking", "half", "closed"}]
  /\ answering \in [Players -> -1 .. MaxFrame]
  /\ taken \in [Players -> Nat] /\ missed \in [Players -> Nat]

(* The frames a client has been shown and the server has no answer to yet, *)
(* oldest first, wherever they are on the round trip.                      *)
Pipeline(id) ==
  moves[id]
  \o (IF client[id] \in {"thinking", "half"} THEN <<answering[id]>> ELSE <<>>)
  \o [i \in DOMAIN states[id] |-> states[id][i].frame]

(* Between the state sent and the move taken nothing is lost, duplicated   *)
(* or reordered: the moves taken from a client answered the first frames,  *)
(* one each, and what is under way follows on without a gap up to the      *)
(* frame sent last.                                                        *)
PipelineConsecutive ==
  \A id \in sock :
    /\ \A i \in DOMAIN Pipeline(id) : Pipeline(id)[i] = taken[id] + i - 1
    /\ client[id] # "closed" =>
         Len(Pipeline(id)) + taken[id] =
           frame + IF pc \in {"start", "head", "done"} \/ id \in unsent THEN 0 ELSE 1

(* A deadline missed is never made good: the move the server uses for a    *)
(* client is as many frames old as the client has missed deadlines, for    *)
(* the rest of the game.                                                   *)
LagIsMissedDeadlines ==
  pc = "move" =>
    \A id \in sock \ toRecv : directions[id] = frame - missed[id]

(* A client that the server gave up has no player left in the game, and    *)
(* the server does not wait for its move.                                  *)
DroppedClientsLeave ==
  \A id \in dropped : id \notin alive \cup sock \cup toRecv \cup unsent

(* A frame can be shown in several versions, because the players of        *)
(* clients dropped while its states are sent are missing from the later    *)
(* packets.  The versions differ by those players alone, and whoever is    *)
(* sent the state later never sees more.                                   *)
VersionsDifferByDropped ==
  \A first, later \in Players :
    \A i \in DOMAIN states[first], j \in DOMAIN states[later] :
      LET p == states[first][i]
          q == states[later][j]
      IN  first < later /\ p.frame = q.frame =>
            q.players \subseteq p.players
            /\ (p.players \ q.players) \subseteq dropped

(* No client can hold a frame up for ever, whatever it does, and none can  *)
(* keep a server_stop from having its effect once server_run has raised    *)
(* the flag: it "causes server_run to exit" (server.h).                    *)
FramesEnd ==
  /\ pc = "send" ~> pc \in {"head", "done", "killed"}
  /\ pc # "start" /\ ~running ~> pc \in {"done", "killed"}

(* "If a player takes too long to send its move, the player is terminated" *)
(* (docs/source/writing-a-bot.rst).                                        *)
SlowPlayersTerminated ==
  [][\A id \in Players : missed'[id] > missed[id] => id \notin alive']_vars

(* A client that is there and whose buffer is not full is not dropped: the *)
(* two reasons for a kick in docs/source/writing-a-bot.rst are inactivity  *)
(* and termination of the player.                                          *)
ResponsiveNotDropped ==
  [][\A id \in sock \ sock' :
       client[id] = "closed" \/ Len(states[id]) = SendBuffer]_vars

(* "Drops clients on failure" (server.c): a send to a client that is gone  *)
(* costs that client its place, not everyone the server.                   *)
SendFailureOnlyDrops == pc # "killed"
=============================================================================
