----------------------------- MODULE Lifecycle -----------------------------
(***************************************************************************)
(* The three threads of the server program: main (server_main.c), the      *)
(* accept thread (server_accept_clients) and the server thread             *)
(* (server_run), with the flags, the sockets and the game they share.      *)
(* A newcomer's handshake is modelled call by call; a frame of the server  *)
(* thread is one step that may kill players (FrameLoop.tla has the rest).  *)
(* The user may press SPACE or close the window at any time.               *)
(***************************************************************************)
EXTENDS Integers, FiniteSets

CONSTANTS
  MaxPlayers,  (* MAX_PLAYERS: the slots of the tables, 64 in the code     *)
  MaxClients   (* config.max_clients                                       *)

ASSUME LifecycleAssumption ==
  /\ MaxPlayers \in 2 .. 255
  /\ MaxClients \in Nat

VARIABLES
  main,       (* where main() is                                           *)
  accept,     (* where the accept thread is                                *)
  server,     (* where the server thread is; "none" before it is created   *)
  accepting,  (* server->accepting                                         *)
  running,    (* server->running                                           *)
  sockets,    (* the ids with client_sockets[id] >= 0                      *)
  players,    (* the ids in game->players                                  *)
  idCounter,  (* game->id_counter                                          *)
  started,    (* game->game_started                                        *)
  overrun,    (* id MAX_PLAYERS was handed out: the player table is        *)
              (* written past its end, and the model stops                 *)
  freed,      (* server_destroy and game_destroy were called               *)
  newcomer,   (* the id the handshake under way was given, or 0            *)
  peer        (* what the client of the handshake under way has done       *)

vars == <<main, accept, server, accepting, running, sockets, players,
          idCounter, started, overrun, freed, newcomer, peer>>

Slot == 0 .. MaxPlayers - 1

(* The process exists, and C still gives what it does a meaning. *)
Defined == main # "exited" /\ ~overrun

-----------------------------------------------------------------------------
(* main.                                                                   *)

(* The window is closed on the splash screen: everything is freed, with    *)
(* the accept thread still there.                                          *)
QuitSplash ==
  /\ Defined /\ main = "splash"
  /\ main' = "quitting"
  /\ freed' = TRUE
  /\ UNCHANGED <<accept, server, accepting, running, sockets, players,
                 idCounter, started, overrun, newcomer, peer>>

(* exit(0) *)
ExitProcess ==
  /\ Defined /\ main = "quitting"
  /\ main' = "exited"
  /\ UNCHANGED <<accept, server, accepting, running, sockets, players,
                 idCounter, started, overrun, freed, newcomer, peer>>

PressSpace ==
  /\ Defined /\ main = "splash"
  /\ main' = "joinAccept"
  /\ accepting' = FALSE
  /\ UNCHANGED <<accept, server, running, sockets, players,
                 idCounter, started, overrun, freed, newcomer, peer>>

(* pthread_join(accept_thread), then pthread_create(&server_thread). *)
StartServer ==
  /\ Defined /\ main = "joinAccept" /\ accept = "exited"
  /\ main' = "play"
  /\ server' = "created"
  /\ UNCHANGED <<accept, accepting, running, sockets, players,
                 idCounter, started, overrun, freed, newcomer, peer>>

(* The window is closed during the game: server_stop. *)
QuitGame ==
  /\ Defined /\ main = "play"
  /\ main' = "joinServer"
  /\ running' = FALSE
  /\ UNCHANGED <<accept, server, accepting, sockets, players,
                 idCounter, started, overrun, freed, newcomer, peer>>

Bug_Cleanup ==
  /\ Defined /\ main = "joinServer"
  /\ main' = "cleanup"
  /\ freed' = TRUE
  /\ UNCHANGED <<accept, server, accepting, running, sockets, players,
                 idCounter, started, overrun, newcomer, peer>>

(* pthread_join(server_thread), then everything is freed. *)
Cleanup ==
  /\ Defined /\ main = "joinServer" /\ server = "exited"
  /\ main' = "cleanup"
  /\ freed' = TRUE
  /\ UNCHANGED <<accept, server, accepting, running, sockets, players,
                 idCounter, started, overrun, newcomer, peer>>

Return ==
  /\ Defined /\ main = "cleanup"
  /\ main' = "exited"
  /\ UNCHANGED <<accept, server, accepting, running, sockets, players,
                 idCounter, started, overrun, freed, newcomer, peer>>

-----------------------------------------------------------------------------
(* The accept thread.  Once the server is freed nothing is said of it.     *)

AcceptUnchanged == UNCHANGED <<main, server, accepting, running, freed>>

AcceptAlive == Defined /\ ~freed

AcceptExit ==
  /\ AcceptAlive /\ accept = "check" /\ ~accepting
  /\ accept' = "exited"
  /\ UNCHANGED <<sockets, players, idCounter, started, overrun, newcomer, peer>>
  /\ AcceptUnchanged

Bug_AcceptClient ==
  /\ AcceptAlive /\ accept = "check" /\ accepting
  /\ Cardinality(sockets) <= MaxClients
  /\ accept' = "name" /\ peer' = "silent"
  /\ UNCHANGED <<sockets, players, idCounter, started, overrun, newcomer>>
  /\ AcceptUnchanged

(* There is room, and a client is waiting to be accepted.  With no room or *)
(* no client the thread sleeps and checks again.                           *)
AcceptClient ==
  /\ AcceptAlive /\ accept = "check" /\ accepting
  /\ Cardinality(sockets) < MaxClients
  /\ accept' = "name" /\ peer' = "silent"
  /\ UNCHANGED <<sockets, players, idCounter, started, overrun, newcomer>>
  /\ AcceptUnchanged

(* recv_string_packet blocks until the name is there, or fails when the    *)
(* client has closed without one or a length in the packet is past its     *)
(* limit.                                                                  *)
NameReceived ==
  /\ AcceptAlive /\ accept = "name" /\ peer \in {"named", "namedGone"}
  /\ accept' = "add"
  /\ UNCHANGED <<sockets, players, idCounter, started, overrun, newcomer, peer>>
  /\ AcceptUnchanged

Bug_NameFailed ==
  /\ AcceptAlive /\ accept = "name" /\ peer \in {"gone", "malformed"}
  /\ peer' = "none"
  /\ UNCHANGED <<accept, sockets, players, idCounter, started, overrun, newcomer>>
  /\ AcceptUnchanged

NameFailed ==
  /\ AcceptAlive /\ accept = "name" /\ peer \in {"gone", "malformed"}
  /\ accept' = "check" /\ peer' = "none"
  /\ UNCHANGED <<sockets, players, idCounter, started, overrun, newcomer>>
  /\ AcceptUnchanged

(* game_add_player *)
PlayerAdded ==
  /\ AcceptAlive /\ accept = "add"
  /\ started' = TRUE
  /\ IF idCounter \in Slot
     THEN /\ players' = players \cup {idCounter}
          /\ newcomer' = idCounter /\ idCounter' = idCounter + 1
          /\ accept' = "colour"
          /\ UNCHANGED overrun
     ELSE overrun' = TRUE /\ UNCHANGED <<players, newcomer, idCounter, accept>>
  /\ UNCHANGED <<sockets, peer>>
  /\ AcceptUnchanged

(* It found no free cell. *)
NotAdded ==
  /\ AcceptAlive /\ accept = "add" /\ players # {}
  /\ started' = TRUE
  /\ accept' = "check" /\ peer' = "none"
  /\ UNCHANGED <<sockets, players, idCounter, overrun, newcomer>>
  /\ AcceptUnchanged

(* send_color_packet: a client that has gone may not have been noticed.    *)
ColourSent ==
  /\ AcceptAlive /\ accept = "colour"
  /\ sockets' = sockets \cup {newcomer}
  /\ accept' = "check" /\ newcomer' = 0 /\ peer' = "none"
  /\ UNCHANGED <<players, idCounter, started, overrun>>
  /\ AcceptUnchanged

(* The socket is closed; the player stays in the game. *)
ColourFailed ==
  /\ AcceptAlive /\ accept = "colour" /\ peer = "namedGone"
  /\ accept' = "check" /\ newcomer' = 0 /\ peer' = "none"
  /\ UNCHANGED <<sockets, players, idCounter, started, overrun>>
  /\ AcceptUnchanged

AcceptStep ==
  \/ AcceptExit \/ NameReceived \/ NameFailed \/ PlayerAdded \/ NotAdded
  \/ ColourSent \/ ColourFailed

-----------------------------------------------------------------------------
(* The server thread.                                                      *)

ServerUnchanged ==
  UNCHANGED <<main, accept, accepting, idCounter, started, overrun, freed,
              newcomer, peer>>

(* server_run sets the flag that server_stop clears. *)
RunStart ==
  /\ Defined /\ server = "created"
  /\ server' = "loop" /\ running' = TRUE
  /\ UNCHANGED <<sockets, players>>
  /\ ServerUnchanged

GameIsOver == started /\ Cardinality(players) <= 1

(* A frame: clients are dropped, each with its player, and players die. *)
RunFrame(dropped, dead) ==
  /\ Defined /\ server = "loop" /\ running /\ ~GameIsOver
  /\ sockets' = sockets \ dropped
  /\ players' = players \ (dropped \cup dead)
  /\ UNCHANGED <<server, running>>
  /\ ServerUnchanged

Bug_RunEnd ==
  /\ Defined /\ server = "loop" /\ GameIsOver
  /\ server' = "exited"
  /\ UNCHANGED <<running, sockets, players>>
  /\ ServerUnchanged

RunEnd ==
  /\ Defined /\ server = "loop" /\ (~running \/ GameIsOver)
  /\ server' = "exited"
  /\ UNCHANGED <<running, sockets, players>>
  /\ ServerUnchanged

ServerStep ==
  \/ RunStart \/ RunEnd
  \/ \E dropped \in SUBSET sockets, dead \in SUBSET players : RunFrame(dropped, dead)

-----------------------------------------------------------------------------
(* The client whose handshake is under way sends its name, or what is no   *)
(* name, and may close its connection at any time.                         *)
PeerUnchanged ==
  UNCHANGED <<main, accept, server, accepting, running, sockets, players,
              idCounter, started, overrun, freed, newcomer>>

PeerSendsName ==
  /\ Defined /\ peer = "silent"
  /\ peer' \in {"named", "malformed"}
  /\ PeerUnchanged

PeerCloses ==
  /\ Defined
  /\ \/ peer \in {"silent", "malformed"} /\ peer' = "gone"
     \/ peer = "named" /\ peer' = "namedGone"
  /\ PeerUnchanged

Init ==
  /\ main = "splash" /\ accept = "check" /\ server = "none"
  /\ accepting = TRUE /\ running = FALSE
  /\ sockets = {} /\ players = {} /\ idCounter = 1
  /\ started = FALSE /\ overrun = FALSE /\ freed = FALSE
  /\ newcomer = 0 /\ peer = "none"

MainStep == ExitProcess \/ StartServer \/ Cleanup \/ Return

UserStep == QuitSplash \/ PressSpace \/ QuitGame

Next ==
  MainStep \/ UserStep \/ AcceptStep \/ AcceptClient \/ ServerStep
  \/ PeerSendsName \/ PeerCloses

Spec == Init /\ [][Next]_vars

(* The operating system runs every thread that can go on. *)
FairSpec == Spec /\ WF_vars(MainStep) /\ WF_vars(AcceptStep) /\ WF_vars(ServerStep)

(* In addition every client that connects sends its name or goes away. *)
PoliteSpec == FairSpec /\ WF_vars(PeerSendsName \/ PeerCloses)

-----------------------------------------------------------------------------
(* Properties.                                                             *)

(* The program counters, flags and ids keep their types, no more clients   *)
(* than configured are connected, and while the lobby is open each has a   *)
(* player of its own in the game.                                          *)
TypeOK ==
  /\ main \in {"splash", "quitting", "joinAccept", "play", "joinServer",
               "cleanup", "exited"}
  /\ accept \in {"check", "name", "add", "colour", "exited"}
  /\ server \in {"none", "created", "loop", "exited"}
  /\ {accepting, running, started, overrun, freed} \subseteq BOOLEAN
  /\ sockets \subseteq Slot \ {0} /\ players \subseteq Slot \ {0}
  /\ idCounter \in 1 .. MaxPlayers
  /\ newcomer \in Slot
  /\ peer \in {"none", "silent", "named", "malformed", "gone", "namedGone"}
  /\ Cardinality(sockets) <= MaxClients
  /\ server = "none" => sockets \subseteq players

(* The accept thread and the server thread share the sockets and the game  *)
(* without a lock of their own: they never run at the same time, and both  *)
(* are gone before main frees what they use, whatever the user and the     *)
(* clients do, unless the user quits on the splash screen.                 *)
ThreadsTakeTurns ==
  /\ server # "none" => accept = "exited"
  /\ freed /\ main # "exited" /\ main # "quitting" =>
       accept = "exited" /\ server = "exited"

(* SPACE starts the game, provided every client that has connected sends   *)
(* its name or goes away: until then the accept thread is not joined.      *)
SpaceStartsGame == main = "joinAccept" ~> main # "joinAccept" \/ overrun

(* Closing the window ends the process: at once if server_run has raised   *)
(* its flag, because that then stays down, and when the game is over if    *)
(* the stop came first and was overwritten.  The server thread leaves its  *)
(* loop, and main joins it and frees everything.                           *)
CloseEndsProcess ==
  main = "joinServer" /\ ((server = "loop" /\ ~running) \/ GameIsOver)
    ~> main = "exited"

(* "Maximum capacity: MAX_PLAYERS players (0..MAX_PLAYERS-1)"              *)
(* (player_map.h): no id is handed out that the table has no slot for.     *)
IdsWithinTable == ~overrun
=============================================================================
