------------------------------ MODULE Session ------------------------------
(***************************************************************************)
(* One client and the server, byte by byte: the handshake, then frame      *)
(* after frame a state packet down and a move up, to the end of either.    *)
(* send_all hands its bytes to TCP in pieces and may fail between two of   *)
(* them; the connection carries what it was handed, in order.  The loop    *)
(* that serves several clients at once is in FrameLoop.tla.                *)
(***************************************************************************)
EXTENDS Wire, FiniteSets

CONSTANTS
  Name,        (* the name the client joins with                           *)
  NameLimit,   (* MAX_PLAYER_NAME_LEN - 1, 31 in the code                  *)
  Colour,      (* the colour the server will give it                       *)
  Worlds,      (* what the rest of a snapshot may be: a set of             *)
               (* [x, y, others, w, h, grid]                               *)
  Moves,       (* the directions the client passes to cycles_send_move_i32 *)
  Pieces,      (* bound: how many of its bytes a send may leave over for   *)
               (* the next one                                             *)
  MaxFrame     (* bound: the states sent                                   *)

(* A name is a command line argument, a move an int32_t; a game has cells, *)
(* as its players stand on them, and names as long as the table takes,     *)
(* which is less than a packet does.                                       *)
ASSUME SessionAssumption ==
  /\ Name \in Seq(Letter) /\ Len(Name) + 4 <= 2147483647
  /\ NameLimit \in Nat /\ NameLimit <= MaxString
  /\ Colour \in [1 .. 3 -> Byte]
  /\ Moves \subseteq Int
  /\ \A dir \in Moves : -2147483647 - 1 <= dir /\ dir <= 2147483647
  /\ Worlds \subseteq
       [x : Word, y : Word, others : Seq(PlayerBlock), w : Nat \ {0}, h : Nat \ {0},
        grid : Seq(Byte)]
  /\ \A world \in Worlds :
       /\ Len(world.grid) = world.w * world.h
       /\ \A i \in DOMAIN world.others : Len(world.others[i].name) <= NameLimit
  /\ Pieces \subseteq Nat
  /\ MaxFrame \in Nat /\ MaxFrame <= 2147483647

VARIABLES
  cl,        (* where the client is                                        *)
  fd,        (* conn->sock: "none", the socket, or 1, which is "stdout"    *)
  ret,       (* what cycles_connect returned, Pending before               *)
  colour,    (* conn->color                                                *)
  clOut,     (* the bytes of the client's send_all that are still to go    *)
  srv,       (* where the server is with this client                       *)
  player,    (* the player's name in the table, empty before it is there   *)
  frame,     (* server->frame                                              *)
  sends,     (* the calls of send_all still to be made, the first under way *)
  failed,    (* failed, in a player's block                                *)
  showing,   (* the snapshot being sent                                    *)
  up, down,  (* the bytes in the connection, to the server and to the client *)
  asked,     (* history: the moves the client has sent                     *)
  taken,     (* history: the directions the server has taken               *)
  sent,      (* history: the snapshots sent to the end                     *)
  got        (* history: the snapshots the client has accepted             *)

clientVars == <<cl, fd, ret, colour, clOut>>
serverVars == <<srv, player, frame, sends, failed, showing>>
history == <<asked, taken, sent, got>>
vars == <<clientVars, serverVars, up, down, history>>

Pending == 1
NoSnapshot == [frame |-> -1]
NoColour == [i \in 1 .. 3 |-> 0]

(* The server has closed its end; the client has. *)
ServerGone == srv = "closed"
ClientGone == cl = "ended"

-----------------------------------------------------------------------------
(* The client: cycles_connect.                                             *)

(* cycles_create_socket returns EXIT_FAILURE when the host cannot be       *)
(* resolved or reached: 1, which is a descriptor like any other.           *)
CreateSocket(ok) ==
  /\ cl = "start"
  /\ fd' = IF ok THEN "socket" ELSE "stdout"
  /\ cl' = "sendName"
  /\ clOut' = IF ok THEN NamePacket(Name) ELSE <<>>
  /\ srv' = IF ok THEN "name" ELSE srv
  /\ UNCHANGED <<ret, colour, player, frame, sends, failed, showing, up, down, history>>

ConnectFails ==
  /\ cl' = "ended" /\ ret' = -1
  /\ clOut' = <<>> /\ down' = <<>>
  /\ UNCHANGED <<fd, colour, serverVars, up, history>>

(* send on a descriptor that is no socket, or whose peer is gone. *)
SendNameFails ==
  /\ cl = "sendName"
  /\ fd = "stdout" \/ ServerGone
  /\ ConnectFails

(* The bytes one send takes of the bytes left: all of them, or fewer. *)
Pushed(bytes) == {Len(bytes)} \cup {Len(bytes) - k : k \in Pieces \cap 1 .. Len(bytes) - 1}

(* The client's send_all: some more bytes go, and after the last it waits  *)
(* for the server.                                                         *)
ClientPush(n) ==
  /\ cl \in {"sendName", "sendMove"} /\ fd = "socket"
  /\ clOut # <<>>
  /\ up' = IF ServerGone THEN up ELSE up \o SubSeq(clOut, 1, n)
  /\ clOut' = SubSeq(clOut, n + 1, Len(clOut))
  /\ cl' = IF n < Len(clOut) THEN cl
           ELSE IF cl = "sendName" THEN "recvColour" ELSE "recvState"
  /\ UNCHANGED <<fd, ret, colour, serverVars, down, history>>

(* The 0 of an orderly end is no error. *)
Bug_EndOfStream(needed) == ServerGone /\ up # <<>>

(* recv on the client's side returns 0 or an error: the server has closed  *)
(* and what is left is not enough, or is lost with a reset because the     *)
(* server had not read all it was sent.                                    *)
EndOfStream(needed) == ServerGone /\ (Len(down) < needed \/ up # <<>>)

(* A packet's length, and the bytes the packet takes in all: none behind a *)
(* length that is 0 or past the limit, which is refused as soon as it is   *)
(* here.                                                                   *)
Announced == Length(SubSeq(down, 1, 4))
PacketBytes ==
  IF Len(down) < 4 \/ Announced \notin 1 .. MaxPacket THEN 4 ELSE 4 + Announced

PacketHere == Len(down) >= 4 /\ Len(down) >= PacketBytes

Payload == SubSeq(down, 5, PacketBytes)

NextPacket == SubSeq(down, PacketBytes + 1, Len(down))

(* The errors of recv_all are not looked at. *)
Bug_RecvColour ==
  /\ cl = "recvColour"
  /\ PacketHere \/ EndOfStream(PacketBytes)
  /\ ret' = 0 /\ cl' = "recvState"
  /\ IF PacketHere
     THEN colour' = Payload /\ down' = NextPacket
     ELSE UNCHANGED <<colour, down>>
  /\ UNCHANGED <<fd, clOut, serverVars, up, history>>

(* recv_cycles_color, and the end of cycles_connect. *)
RecvColour ==
  /\ cl = "recvColour" /\ PacketHere
  /\ down' = NextPacket
  /\ IF Announced = 3
     THEN ret' = 0 /\ colour' = Payload /\ cl' = "recvState"
     ELSE ret' = -1 /\ cl' = "malformed" /\ UNCHANGED colour
  /\ UNCHANGED <<fd, clOut, serverVars, up, history>>

RecvColourFails ==
  /\ cl = "recvColour" /\ EndOfStream(PacketBytes)
  /\ ConnectFails

-----------------------------------------------------------------------------
(* The client: its loop over the states.                                   *)

(* What has not been read yet is lost with the socket. *)
ClientEnds ==
  /\ cl' = "ended" /\ clOut' = <<>> /\ down' = <<>>
  /\ UNCHANGED <<fd, ret, colour, serverVars, up, history>>

(* cycles_recv_game_state.  The client finds itself by its colour; a       *)
(* client that is not in the snapshot leaves.                              *)
RecvState ==
  /\ cl = "recvState" /\ PacketHere
  /\ down' = NextPacket
  /\ \E state \in {Parse(Payload)} :
     IF Announced \in 1 .. MaxPacket /\ state.ok
     THEN /\ got' = Append(got, state.snapshot)
          /\ cl' = IF \E i \in DOMAIN state.snapshot.players :
                        state.snapshot.players[i].colour = colour
                   THEN "decide" ELSE "leaving"
     ELSE cl' = "malformed" /\ UNCHANGED got
  /\ UNCHANGED <<fd, ret, colour, clOut, serverVars, up, asked, taken, sent>>

RecvStateFails ==
  /\ cl = "recvState" /\ EndOfStream(PacketBytes)
  /\ ClientEnds

(* cycles_send_move_i32 *)
SendMove(dir) ==
  /\ cl = "decide"
  /\ cl' = "sendMove"
  /\ clOut' = MovePacket(dir)
  /\ asked' = Append(asked, dir)
  /\ UNCHANGED <<fd, ret, colour, serverVars, up, down, taken, sent, got>>

SendMoveFails ==
  /\ cl = "sendMove" /\ ServerGone
  /\ ClientEnds

(* cycles_disconnect *)
Leave ==
  /\ cl \in {"leaving", "malformed"}
  /\ ClientEnds

(* The client's process is killed. *)
ClientCrash ==
  /\ cl \notin {"start", "ended"}
  /\ ClientEnds

ClientSends ==
  \/ SendNameFails \/ SendMoveFails
  \/ \E n \in Pushed(clOut) : ClientPush(n)
  \/ \E dir \in Moves : SendMove(dir)

ClientReceives ==
  RecvColour \/ RecvColourFails \/ RecvState \/ RecvStateFails \/ Leave

-----------------------------------------------------------------------------
(* The server: the handshake.                                              *)

Close == srv' = "closed" /\ sends' = <<>> /\ failed' = FALSE /\ showing' = NoSnapshot

(* strncpy into player.name *)
PlayerName(s) == IF Len(s) <= NameLimit THEN s ELSE SubSeq(s, 1, NameLimit)

(* The two lengths in front of a name, each looked at as soon as it is here. *)
NameFits ==
  /\ Len(up) >= 4 => Length(SubSeq(up, 1, 4)) \in 4 .. MaxPacket
  /\ Len(up) >= 8 => Length(SubSeq(up, 5, 8)) <= MaxString

NameBytes == 8 + Length(SubSeq(up, 5, 8))

NameHere == Len(up) >= 8 /\ NameFits /\ Len(up) >= NameBytes

(* recv_string_packet on the blocking socket, and game_add_player. *)
RecvName ==
  /\ srv = "name" /\ NameHere
  /\ player' = PlayerName(SubSeq(up, 9, NameBytes))
  /\ up' = SubSeq(up, NameBytes + 1, Len(up))
  /\ srv' = "colour"
  /\ sends' = <<[of |-> 0, bytes |-> ColourPacket(Colour)]>>
  /\ UNCHANGED <<frame, failed, showing, clientVars, down, history>>

(* End of file, a length past the limits, or no room for another player. *)
Refused ==
  /\ srv = "name"
  /\ ClientGone \/ ~NameFits \/ NameHere
  /\ Close
  /\ UNCHANGED <<player, frame, clientVars, up, down, history>>

-----------------------------------------------------------------------------
(* The server: the frames.                                                 *)

Me(world, name) ==
  [x |-> world.x, y |-> world.y, colour |-> Colour, name |-> name, id |-> 1]

(* What the world looks like with the player under that name. *)
View(world, alive, name, number) ==
  [w |-> world.w, h |-> world.h,
   players |-> (IF alive THEN <<Me(world, name)>> ELSE <<>>) \o world.others,
   frame |-> number, grid |-> world.grid]

SnapshotOf(world, alive) == View(world, alive, player, frame)

(* The sizes in the source are uint32_t and wrap: worlds are those of which *)
(* the cells and the whole packet can be counted in 32 bits.               *)
ASSUME SizeAssumption ==
  \A world \in Worlds, alive \in BOOLEAN, number \in 0 .. MaxFrame :
    PacketSize(View(world, alive, PlayerName(Name), number)) \div 65536 < 65536

(* send_game_state_packet begins.  The player may be out of the game. *)
SendState(world, alive) ==
  /\ srv = "frame" /\ frame < MaxFrame
  /\ srv' = "send"
  /\ showing' = SnapshotOf(world, alive)
  /\ sends' = StateSends(SnapshotOf(world, alive))
  /\ failed' = FALSE
  /\ UNCHANGED <<player, frame, clientVars, up, down, history>>

(* Under way: the call at the head of sends. *)
Call == Head(sends)

(* failed is not looked at after a player's block. *)
Bug_CallReturns(error) ==
  LET rest == Tail(sends)
  IN  IF error /\ Call.of = 0
      THEN Close /\ UNCHANGED sent
      ELSE IF rest # <<>>
      THEN sends' = rest /\ failed' = FALSE /\ UNCHANGED <<srv, showing, sent>>
      ELSE /\ sends' = <<>> /\ failed' = FALSE /\ showing' = NoSnapshot
           /\ IF srv = "colour" THEN srv' = "frame" /\ UNCHANGED sent
              ELSE srv' = "recv" /\ sent' = Append(sent, showing)

(* The call returned.  A player's block is gone through to its end also    *)
(* when a call in it has failed.                                           *)
CallReturns(error) ==
  LET rest == Tail(sends)
      goOn == Call.of # 0 /\ Head(rest).of = Call.of
  IN  IF error /\ ~goOn
      THEN Close /\ UNCHANGED sent
      ELSE IF rest # <<>>
      THEN sends' = rest /\ failed' = error /\ UNCHANGED <<srv, showing, sent>>
      ELSE /\ sends' = <<>> /\ failed' = FALSE /\ showing' = NoSnapshot
           /\ IF srv = "colour" THEN srv' = "frame" /\ UNCHANGED sent
              ELSE srv' = "recv" /\ sent' = Append(sent, showing)

(* send_all: some more bytes go, or nothing is left to go. *)
ServerPush(n) ==
  /\ srv \in {"colour", "send"} /\ sends # <<>>
  /\ down' = IF ClientGone THEN down ELSE down \o SubSeq(Call.bytes, 1, n)
  /\ IF n < Len(Call.bytes)
     THEN /\ sends' = [sends EXCEPT ![1].bytes = SubSeq(@, n + 1, Len(@))]
          /\ UNCHANGED <<srv, failed, showing, sent>>
     ELSE CallReturns(failed)
  /\ UNCHANGED <<player, frame, clientVars, up, asked, taken, got>>

(* send fails: the buffer is full, as the socket does not block, or the    *)
(* client is gone.                                                         *)
PushFails ==
  /\ srv \in {"colour", "send"} /\ sends # <<>> /\ Call.bytes # <<>>
  /\ srv = "colour" => ClientGone
  /\ CallReturns(TRUE)
  /\ UNCHANGED <<player, frame, clientVars, up, down, asked, taken, got>>

Bug_Clamp(dir) == IF dir < 0 THEN 0 ELSE dir

(* server_run: from int32_t to Direction. *)
Clamp(dir) == IF dir < 0 THEN 0 ELSE IF dir > 3 THEN 3 ELSE dir

MoveHere == Len(up) >= 8 /\ Length(SubSeq(up, 1, 4)) = 4

(* recv_move_direction *)
RecvMove ==
  /\ srv = "recv" /\ MoveHere
  /\ taken' = Append(taken, Clamp(Int32(SubSeq(up, 5, 8))))
  /\ up' = SubSeq(up, 9, Len(up))
  /\ srv' = "move"
  /\ UNCHANGED <<player, frame, sends, failed, showing, clientVars, down, asked, sent, got>>

(* A part of the packet is there and recv says EAGAIN, the client is gone, *)
(* or the packet is none of four bytes: the client is dropped.             *)
RecvMoveFails ==
  /\ srv = "recv" /\ ~MoveHere
  /\ up # <<>> \/ ClientGone
  /\ Close
  /\ UNCHANGED <<player, frame, clientVars, up, down, history>>

RecvTimeout ==
  /\ srv = "recv"
  /\ srv' = "move"
  /\ UNCHANGED <<player, frame, sends, failed, showing, clientVars, up, down, history>>

(* The players have moved.  When the game is over server_run returns, and  *)
(* the clients are told nothing.                                           *)
EndFrame(over) ==
  /\ srv = "move"
  /\ frame' = frame + 1
  /\ srv' = IF over THEN "over" ELSE "frame"
  /\ UNCHANGED <<player, sends, failed, showing, clientVars, up, down, history>>

(* server_destroy, once the window is closed and server_run has returned.  *)
CloseWindow ==
  /\ srv \in {"frame", "over"}
  /\ Close
  /\ UNCHANGED <<player, frame, clientVars, up, down, history>>

-----------------------------------------------------------------------------
Init ==
  /\ cl = "start" /\ fd = "none" /\ ret = Pending /\ colour = NoColour
  /\ clOut = <<>>
  /\ srv = "listening" /\ player = <<>> /\ frame = 0
  /\ sends = <<>> /\ failed = FALSE /\ showing = NoSnapshot
  /\ up = <<>> /\ down = <<>>
  /\ asked = <<>> /\ taken = <<>> /\ sent = <<>> /\ got = <<>>

ServerStep ==
  \/ RecvName \/ Refused \/ PushFails \/ RecvMove \/ RecvMoveFails \/ RecvTimeout
  \/ \E world \in Worlds, alive \in BOOLEAN : SendState(world, alive)
  \/ sends # <<>> /\ \E n \in Pushed(Call.bytes) : ServerPush(n)
  \/ \E over \in BOOLEAN : EndFrame(over)

Next ==
  \/ \E ok \in BOOLEAN : CreateSocket(ok)
  \/ ClientSends \/ ClientReceives \/ ClientCrash \/ ServerStep \/ CloseWindow

Spec == Init /\ [][Next]_vars

(* The client's process runs on. *)
FairSpec == Spec /\ WF_vars(ClientSends) /\ WF_vars(ClientReceives)

-----------------------------------------------------------------------------
(* Properties.                                                             *)

(* The bytes are bytes, and what is in the connection belongs to the       *)
(* phase both ends are in.                                                 *)
TypeOK ==
  /\ cl \in {"start", "sendName", "recvColour", "recvState", "decide", "sendMove",
             "leaving", "malformed", "ended"}
  /\ fd \in {"none", "socket", "stdout"} /\ ret \in {Pending, 0, -1}
  /\ colour \in [1 .. 3 -> Byte]
  /\ srv \in {"listening", "name", "colour", "frame", "send", "recv", "move",
              "over", "closed"}
  /\ frame \in 0 .. MaxFrame /\ failed \in BOOLEAN
  /\ {clOut, up, down} \subseteq Seq(Byte)
  /\ (sends # <<>>) = (srv \in {"colour", "send"})
  /\ srv = "listening" => fd # "socket"
  /\ taken \in Seq(0 .. 3)

(* However the sends are cut and wherever they fail, also within a         *)
(* player's block, which goes on after a failure and leaves a hole in the  *)
(* stream: the client accepts the snapshots the server has sent to the     *)
(* end, in order and unaltered, and nothing else.                          *)
StatesDown == INSTANCE Channel
StatesDelivered == StatesDown!ChannelSpec

Distance(a, b) == IF a < b THEN b - a ELSE a - b

Nearest(dir) == CHOOSE d \in 0 .. 3 : \A e \in 0 .. 3 :
                  Distance(dir, d) <= Distance(dir, e)

(* The server takes the moves the client has asked for, in order and none  *)
(* twice, each as the direction next to it.                                *)
MovesUp == INSTANCE Channel WITH
             sent <- [i \in DOMAIN asked |-> Nearest(asked[i])], got <- taken
MovesDelivered == MovesUp!ChannelSpec

(* The length announced for a packet, which is computed apart from the     *)
(* sends that write it, is the length the reader of the parts arrives at:  *)
(* the client refuses no packet but one that is longer than it takes.      *)
OnlyTooLongRefused ==
  [][cl # "malformed" /\ cl' = "malformed" => Announced > MaxPacket]_vars

(* "0 on success, -1 on failure" (c_api.h, cycles_connect): 0 is returned  *)
(* only to a client with a connection of its own whose player is in the    *)
(* table, under the beginning of its name that fits, and with the colour   *)
(* the server gave it; the 1 that passes for a descriptor does not survive *)
(* the handshake.                                                          *)
ConnectedMeansJoined ==
  ret = 0 =>
    /\ fd = "socket" /\ colour = Colour
    /\ Len(player) <= NameLimit
    /\ IsPrefix(player, Name)
    /\ Len(player) < Len(Name) => Len(player) = NameLimit

(* A client does not hang once the server has let go of it, even if it has *)
(* not been told that the game is over.                                    *)
LetGo == ServerGone ~> ClientGone
=============================================================================
