--------------------------- MODULE LifecycleProofs ---------------------------
(***************************************************************************)
(* The order of the three threads, proved for any table size and any       *)
(* number of clients: who may run when, and what a handshake under way     *)
(* may rely on.                                                            *)
(***************************************************************************)
EXTENDS Lifecycle, TLAPS, FiniteSetTheorems

-----------------------------------------------------------------------------
(* The inductive invariant.                                                *)

Flags ==
  /\ accepting \in BOOLEAN /\ running \in BOOLEAN /\ started \in BOOLEAN
  /\ overrun \in BOOLEAN /\ freed \in BOOLEAN

Counters ==
  /\ main \in {"splash", "quitting", "joinAccept", "play", "joinServer",
               "cleanup", "exited"}
  /\ accept \in {"check", "name", "add", "colour", "exited"}
  /\ server \in {"none", "created", "loop", "exited"}
  /\ peer \in {"none", "silent", "named", "malformed", "gone", "namedGone"}

(* main creates the server thread after it has joined the accept thread,   *)
(* and frees what they use after it has joined the server thread; only     *)
(* closing the splash screen frees it with the accept thread about.        *)
MainOrdersThreads ==
  /\ server # "none" => accept = "exited"
  /\ main \in {"splash", "quitting", "joinAccept"} => server = "none"
  /\ main \in {"play", "joinServer", "cleanup"} => server # "none"
  /\ main = "cleanup" => server = "exited"
  /\ freed => main \in {"quitting", "cleanup", "exited"}

(* The tables of the lobby.  The capacity that was checked when a client   *)
(* was accepted is still there when its socket is stored, and the player   *)
(* it was given is still in the game.                                      *)
Tables ==
  /\ sockets \subseteq Slot \ {0} /\ players \subseteq Slot \ {0}
  /\ idCounter \in 1 .. MaxPlayers /\ newcomer \in Slot
  /\ accept = "colour" => newcomer \in players
  /\ accept \in {"name", "add", "colour"} => Cardinality(sockets) < MaxClients
  /\ Cardinality(sockets) <= MaxClients
  /\ server = "none" => sockets \subseteq players

IInv == Flags /\ Counters /\ MainOrdersThreads /\ Tables

-----------------------------------------------------------------------------
(* Every action keeps each part.                                           *)

(* A flag is only ever set to TRUE or FALSE. *)
LEMMA FlagsStep ==
  ASSUME Flags, [Next]_vars
  PROVE  Flags'
<1>1. CASE MainStep \/ UserStep
  BY <1>1, Zenon DEF MainStep, UserStep, Flags, ExitProcess, StartServer, Cleanup, Return,
     QuitSplash, PressSpace, QuitGame
<1>2. CASE AcceptStep \/ AcceptClient
  BY <1>2 DEF AcceptStep, Flags, AcceptExit, AcceptClient, NameReceived, NameFailed, PlayerAdded,
     NotAdded, ColourSent, ColourFailed, AcceptUnchanged
<1>3. CASE ServerStep \/ PeerSendsName \/ PeerCloses \/ UNCHANGED vars
  BY <1>3 DEF ServerStep, Flags, RunStart, RunEnd, RunFrame, ServerUnchanged,
     PeerSendsName, PeerCloses, PeerUnchanged, vars
<1>4. QED BY <1>1, <1>2, <1>3 DEF Next

(* The three program counters only take their own values. *)
LEMMA CountersStep ==
  ASSUME Counters, [Next]_vars
  PROVE  Counters'
<1>1. CASE MainStep \/ UserStep
  BY <1>1 DEF MainStep, UserStep, Counters, ExitProcess, StartServer, Cleanup, Return,
     QuitSplash, PressSpace, QuitGame
<1>2. CASE AcceptStep \/ AcceptClient
  BY <1>2 DEF AcceptStep, Counters, AcceptExit, AcceptClient, NameReceived, NameFailed, PlayerAdded,
     NotAdded, ColourSent, ColourFailed, AcceptUnchanged
<1>3. CASE ServerStep \/ PeerSendsName \/ PeerCloses \/ UNCHANGED vars
  BY <1>3 DEF ServerStep, Counters, RunStart, RunEnd, RunFrame, ServerUnchanged,
     PeerSendsName, PeerCloses, PeerUnchanged, vars
<1>4. QED BY <1>1, <1>2, <1>3 DEF Next

(* The joins and creates of main keep the threads apart. *)
LEMMA MainOrdersThreadsStep ==
  ASSUME Counters, MainOrdersThreads, [Next]_vars
  PROVE  MainOrdersThreads'
<1>1. CASE MainStep
  <2>1. CASE ExitProcess
    BY <2>1 DEF ExitProcess, MainOrdersThreads
  <2>2. CASE StartServer
    BY <2>2 DEF StartServer, MainOrdersThreads
  <2>3. CASE Cleanup
    BY <2>3 DEF Cleanup, MainOrdersThreads
  <2>4. CASE Return
    BY <2>4 DEF Return, MainOrdersThreads
  <2>5. QED BY <1>1, <2>1, <2>2, <2>3, <2>4 DEF MainStep
<1>2. CASE UserStep
  BY <1>2 DEF UserStep, QuitSplash, PressSpace, QuitGame, MainOrdersThreads
<1>3. CASE AcceptStep \/ AcceptClient
  <2>1. accept # "exited" /\ UNCHANGED <<main, server, freed>>
    BY <1>3 DEF AcceptStep, AcceptExit, AcceptClient, NameReceived, NameFailed, PlayerAdded,
       NotAdded, ColourSent, ColourFailed, AcceptUnchanged
  <2>2. QED BY <2>1 DEF MainOrdersThreads
<1>4. CASE ServerStep
  <2>1. /\ server \in {"created", "loop"} /\ server' \in {"created", "loop", "exited"}
        /\ UNCHANGED <<main, accept, freed>>
    BY <1>4 DEF ServerStep, RunStart, RunEnd, RunFrame, ServerUnchanged
  <2>2. QED BY <2>1 DEF MainOrdersThreads
<1>5. CASE PeerSendsName \/ PeerCloses \/ UNCHANGED vars
  BY <1>5 DEF PeerSendsName, PeerCloses, PeerUnchanged, vars, MainOrdersThreads
<1>6. QED BY <1>1, <1>2, <1>3, <1>4, <1>5 DEF Next

(* A set of ids is finite, and storing one more makes it one larger at     *)
(* most.                                                                   *)
LEMMA SocketCount ==
  ASSUME NEW S, S \subseteq Slot \ {0}
  PROVE  /\ IsFiniteSet(S) /\ Cardinality(S) \in Nat
         /\ \A id \in Slot : Cardinality(S \cup {id}) <= Cardinality(S) + 1
         /\ \A T \in SUBSET S : Cardinality(T) <= Cardinality(S)
<1>1. IsFiniteSet(S)
  <2>1. IsFiniteSet(Slot)
    BY LifecycleAssumption, FS_Interval DEF LifecycleAssumption, Slot
  <2>2. QED BY <2>1, FS_Subset
<1>2. Cardinality(S) \in Nat
  BY <1>1, FS_CardinalityType
<1>3. ASSUME NEW id \in Slot
      PROVE  Cardinality(S \cup {id}) <= Cardinality(S) + 1
  <2>1. Cardinality(S \cup {id}) = IF id \in S THEN Cardinality(S) ELSE Cardinality(S) + 1
    BY <1>1, FS_AddElement
  <2>2. QED BY <1>2, <2>1
<1>4. ASSUME NEW T \in SUBSET S
      PROVE  Cardinality(T) <= Cardinality(S)
  BY <1>1, FS_Subset
<1>5. QED BY <1>1, <1>2, <1>3, <1>4

(* While the lobby is open only the accept thread touches the tables; the  *)
(* server thread only takes clients and players out of them.               *)
LEMMA TablesStep ==
  ASSUME Counters, MainOrdersThreads, Tables, [Next]_vars
  PROVE  Tables'
<1>0. MaxClients \in Nat /\ MaxPlayers \in Nat
  BY LifecycleAssumption DEF LifecycleAssumption
<1>1. CASE MainStep \/ UserStep
  <2>1. UNCHANGED <<sockets, players, idCounter, newcomer, accept>> /\ (server' = "none" => server = "none")
    BY <1>1 DEF MainStep, UserStep, ExitProcess, StartServer, Cleanup, Return,
       QuitSplash, PressSpace, QuitGame
  <2>2. QED BY <2>1 DEF Tables, Slot
<1>2. CASE AcceptStep \/ AcceptClient
  <2>0. server = "none" /\ server' = "none"
    BY <1>2 DEF MainOrdersThreads, AcceptStep, AcceptExit, AcceptClient, NameReceived, NameFailed,
       PlayerAdded, NotAdded, ColourSent, ColourFailed, AcceptUnchanged
  <2>1. CASE AcceptExit \/ NameFailed \/ NotAdded
    BY <2>1 DEF AcceptExit, NameFailed, NotAdded, AcceptUnchanged, Tables, Slot
  <2>2. CASE AcceptClient
    BY <2>2 DEF AcceptClient, AcceptUnchanged, Tables, Slot
  <2>3. CASE NameReceived
    BY <2>3 DEF NameReceived, AcceptUnchanged, Tables, Slot
  <2>4. CASE PlayerAdded
    <3>1. CASE idCounter \in Slot
      <4>1. /\ players' = players \cup {idCounter} /\ newcomer' = idCounter
            /\ idCounter' = idCounter + 1 /\ sockets' = sockets /\ accept = "add"
        BY <2>4, <3>1 DEF PlayerAdded
      <4>2. idCounter \in Slot \ {0} /\ idCounter + 1 \in 1 .. MaxPlayers
        BY <1>0, <3>1 DEF Tables, Slot
      <4>3. QED BY <2>0, <4>1, <4>2 DEF Tables
    <3>2. CASE idCounter \notin Slot
      BY <2>4, <3>2 DEF PlayerAdded, Tables, Slot, AcceptUnchanged
    <3>3. QED BY <3>1, <3>2
  <2>5. CASE ColourSent
    <3>1. /\ sockets' = sockets \cup {newcomer} /\ newcomer \in players
          /\ newcomer \in Slot \ {0} /\ Cardinality(sockets) < MaxClients
          /\ accept' = "check" /\ newcomer' = 0 /\ UNCHANGED <<players, idCounter>>
      BY <2>5 DEF ColourSent, Tables
    <3>2. Cardinality(sockets') <= Cardinality(sockets) + 1 /\ Cardinality(sockets) \in Nat
      BY <3>1, SocketCount DEF Tables
    <3>3. Cardinality(sockets') \in Nat
      BY <3>1, SocketCount DEF Tables
    <3>4. Cardinality(sockets') <= MaxClients
      BY <1>0, <3>1, <3>2, <3>3
    <3>5. 0 \in Slot
      BY <1>0, LifecycleAssumption DEF Slot, LifecycleAssumption
    <3>6. QED BY <2>0, <3>1, <3>4, <3>5 DEF Tables
  <2>6. CASE ColourFailed
    <3>1. 0 \in Slot
      BY <1>0, LifecycleAssumption DEF Slot, LifecycleAssumption
    <3>2. QED BY <2>6, <3>1 DEF ColourFailed, AcceptUnchanged, Tables
  <2>7. QED BY <1>2, <2>1, <2>2, <2>3, <2>4, <2>5, <2>6 DEF AcceptStep
<1>3. CASE ServerStep
  <2>1. /\ server # "none" /\ server' # "none"
        /\ sockets' \subseteq sockets /\ players' \subseteq players
        /\ UNCHANGED <<accept, idCounter, newcomer>>
    BY <1>3 DEF ServerStep, RunStart, RunEnd, RunFrame, ServerUnchanged
  <2>2. accept = "exited"
    BY <2>1 DEF MainOrdersThreads
  <2>3. /\ Cardinality(sockets') <= Cardinality(sockets)
        /\ Cardinality(sockets') \in Nat /\ Cardinality(sockets) \in Nat
    BY <2>1, SocketCount DEF Tables
  <2>4. Cardinality(sockets') <= MaxClients
    BY <1>0, <2>3 DEF Tables
  <2>5. QED BY <2>1, <2>2, <2>4 DEF Tables
<1>4. CASE PeerSendsName \/ PeerCloses \/ UNCHANGED vars
  BY <1>4 DEF PeerSendsName, PeerCloses, PeerUnchanged, vars, Tables
<1>5. QED BY <1>1, <1>2, <1>3, <1>4 DEF Next

-----------------------------------------------------------------------------
(* The theorems.                                                           *)

(* The invariant holds in every reachable state of the program. *)
THEOREM LifecycleInductive == Spec => []IInv
<1>1. Init => IInv
  <2> SUFFICES ASSUME Init PROVE IInv
    OBVIOUS
  <2>1. /\ 0 \in Slot /\ 1 \in 1 .. MaxPlayers /\ MaxClients \in Nat
    BY LifecycleAssumption DEF LifecycleAssumption, Slot
  <2>2. Cardinality(sockets) = 0
    BY FS_EmptySet DEF Init
  <2>3. Tables
    BY <2>1, <2>2 DEF Init, Tables
  <2>4. Flags /\ Counters /\ MainOrdersThreads
    BY DEF Init, Flags, Counters, MainOrdersThreads
  <2>5. QED BY <2>3, <2>4 DEF IInv
<1>2. IInv /\ [Next]_vars => IInv'
  BY FlagsStep, CountersStep, MainOrdersThreadsStep, TablesStep DEF IInv
<1>3. QED BY <1>1, <1>2, PTL DEF Spec

(* The shared tables keep their types, never hold more sockets than        *)
(* max_clients, and while the lobby is open every socket has a player.     *)
THEOREM LifecycleTypeCorrect == Spec => []TypeOK
<1>1. IInv => TypeOK
  BY DEF IInv, Flags, Counters, Tables, TypeOK
<1>2. QED BY <1>1, LifecycleInductive, PTL

(* The accept thread and the server thread never run together, and neither *)
(* runs when main frees the server and the game after the window was       *)
(* closed during a game.                                                   *)
THEOREM ThreadsAreOrdered == Spec => []ThreadsTakeTurns
<1>1. IInv => ThreadsTakeTurns
  BY DEF IInv, MainOrdersThreads, ThreadsTakeTurns, Counters
<1>2. QED BY <1>1, LifecycleInductive, PTL
=============================================================================
