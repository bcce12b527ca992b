-------------------------------- MODULE Wire --------------------------------
(***************************************************************************)
(* The packets of the protocol as sequences of bytes: what server.c and    *)
(* c_api.c write and how they read it back.  Every packet is its length in *)
(* four bytes and then that many bytes; numbers are big-endian.            *)
(*                                                                         *)
(* A snapshot is what a state packet shows:                                *)
(*   [w, h, players, frame, grid], grid the w * h cells in one sequence,   *)
(* and each of its players, in the order of the table,                     *)
(*   [x, y, colour, name, id], colour three bytes, name without the NUL.   *)
(***************************************************************************)
EXTENDS Integers, Sequences, SequencesExt

CONSTANTS
  MaxPacket,   (* CYCLES_MAX_PACKET and NET_MAX_PACKET, 32 MiB in the code *)
  MaxString    (* CYCLES_MAX_STRING and NET_MAX_STRING, 16 MiB in the code *)

(* A limit is an int, and the colour packet is within it. *)
ASSUME WireAssumption ==
  /\ MaxPacket \in Nat /\ 3 <= MaxPacket /\ MaxPacket <= 2147483647
  /\ MaxString \in Nat

(* A byte, a byte of a C string before its NUL, and an int32_t. *)
Byte == 0 .. 255
Letter == 1 .. 255
Word == {n \in Int : -2147483647 - 1 <= n /\ n <= 2147483647}

(* htonl of a 32-bit number; \div rounds down, which is two's complement   *)
(* for the negative ones.                                                  *)
Bytes32(n) == [i \in 1 .. 4 |-> (n \div 256 ^ (4 - i)) % 256]

Bug_Int32(b) == b[4] + 256 * b[3] + 256 ^ 2 * b[2] + 256 ^ 3 * (b[1] % 128)

(* (int32_t)ntohl *)
Int32(b) ==
  b[4] + 256 * b[3] + 256 ^ 2 * b[2]
  + 256 ^ 3 * (IF b[1] < 128 THEN b[1] ELSE b[1] - 256)

(* ntohl as the uint32_t a length is; what does not fit a positive int32_t *)
(* is past every limit, and MaxPacket + 1 stands for it.                   *)
Length(b) == IF b[1] < 128 THEN Int32(b) ELSE MaxPacket + 1

-----------------------------------------------------------------------------
(* The small packets.                                                      *)

(* send_cycles_string_packet *)
NamePacket(name) == Bytes32(4 + Len(name)) \o Bytes32(Len(name)) \o name

(* send_color_packet *)
ColourPacket(colour) == Bytes32(3) \o colour

(* send_cycles_i32_packet *)
MovePacket(dir) == Bytes32(4) \o Bytes32(dir)

-----------------------------------------------------------------------------
(* The state packet.                                                       *)

PlayerBlock ==
  [x : Word, y : Word, colour : [1 .. 3 -> Byte], name : Seq(Letter), id : Byte]

Bug_PacketSize(s) ==
  LET blocks[i \in 0 .. Len(s.players)] ==
        IF i = 0 THEN 0 ELSE blocks[i - 1] + 4 * 2 + 3 + 4 + Len(s.players[i].name) + 4
  IN  12 + blocks[Len(s.players)] + 4 + s.w * s.h

(* compute_game_server_size: its loop over the players, and the whole. *)
BlockSizes(s) ==
  LET blocks[i \in 0 .. Len(s.players)] ==
        IF i = 0 THEN 0 ELSE blocks[i - 1] + 4 * 2 + 3 + 4 + Len(s.players[i].name) + 1
  IN  blocks

PacketSize(s) == 12 + BlockSizes(s)[Len(s.players)] + 4 + s.w * s.h

(* What send_game_state_packet hands to send_all, call by call.  of is the *)
(* player whose block a call belongs to, 0 outside the blocks.             *)
PlayerSends(s, i) ==
  LET p == s.players[i] IN
  [k \in 1 .. 6 |->
    [of |-> i,
     bytes |-> <<Bytes32(p.x), Bytes32(p.y), p.colour,
                 Bytes32(Len(p.name)), p.name, <<p.id>>>>[k]]]

StateSends(s) ==
  LET plain(bytes) == [of |-> 0, bytes |-> bytes]
      block(k)     == PlayerSends(s, 1 + (k - 1) \div 6)[1 + ((k - 1) % 6)]
  IN
  <<plain(Bytes32(PacketSize(s))), plain(Bytes32(s.w)), plain(Bytes32(s.h)),
    plain(Bytes32(Len(s.players)))>>
  \o [k \in 1 .. 6 * Len(s.players) |-> block(k)]
  \o <<plain(Bytes32(s.frame)), plain(s.grid)>>

(* cycles_recv_game_state on the payload b.  Where the block of the i-th   *)
(* player ends, past the end of b when b is too short for it.              *)
BlockEnds(b, count) ==
  LET bytes(at) == IF at + 15 > Len(b) THEN Len(b) + 1
                   ELSE 16 + Length(SubSeq(b, at + 12, at + 15))
      ends[i \in 0 .. count] == IF i = 0 THEN 12 ELSE ends[i - 1] + bytes(ends[i - 1])
  IN  ends

(* The block of a player that follows b[at]. *)
PlayerAt(b, at) ==
  LET field(o, n) == SubSeq(b, at + o, at + o + n - 1)
      nameLen     == Length(field(12, 4))
  IN  [x |-> Int32(field(1, 4)), y |-> Int32(field(5, 4)), colour |-> field(9, 3),
       name |-> field(16, nameLen), id |-> b[at + 16 + nameLen]]

Malformed == [ok |-> FALSE]

(* The snapshot in a payload.  Too few bytes, a name longer than rd_string *)
(* takes and bytes left over are all refused.  The limit on the number of players (c_api.c:339) is above     *)
(* what a packet within MaxPacket can hold the blocks of: one past it is   *)
(* refused for its missing bytes here.                                     *)
Parse(b) ==
  IF Len(b) < 12 THEN Malformed
  ELSE
    LET w     == Length(SubSeq(b, 1, 4))
        h     == Length(SubSeq(b, 5, 8))
        count == Length(SubSeq(b, 9, 12))
        ends  == BlockEnds(b, count)
    IN  IF \/ ends[count] + 4 > Len(b) \/ w * h # Len(b) - ends[count] - 4
           \/ \E i \in 1 .. count : Len(PlayerAt(b, ends[i - 1]).name) > MaxString
        THEN Malformed
        ELSE [ok |-> TRUE,
              snapshot |->
                [w |-> w, h |-> h,
                 players |-> [i \in 1 .. count |-> PlayerAt(b, ends[i - 1])],
                 frame |-> Length(SubSeq(b, ends[count] + 1, ends[count] + 4)),
                 grid |-> SubSeq(b, ends[count] + 5, Len(b))]]
=============================================================================
