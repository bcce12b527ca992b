--------------------------- MODULE FrameLoopProofs ---------------------------
(***************************************************************************)
(* What the frame loop keeps, proved for any number of players, frames and *)
(* packets a socket holds.  The invariant IInv says where each client is   *)
(* on its round trip; the properties of FrameLoop follow from it.          *)
(***************************************************************************)
EXTENDS FrameLoop, TLAPS, FiniteSetTheorems, SequenceTheorems

-----------------------------------------------------------------------------
(* The inductive invariant.                                                *)

Packet == [frame : 0 .. MaxFrame, players : SUBSET Players]

Deciding(id) == client[id] \in {"thinking", "half"}

(* TypeOK with what the channels hold: a client decides on a real frame.   *)
Typed ==
  /\ TypeOK
  /\ states \in [Players -> Seq(Packet)]
  /\ moves \in [Players -> Seq(0 .. MaxFrame)]
  /\ \A id \in Players : Deciding(id) => answering[id] \in 0 .. MaxFrame

(* The sets of a phase are empty outside it, and while the states are sent *)
(* every open socket is waiting for its state or for an answer to it.      *)
Phases ==
  /\ ready # {} => pc = "recv"
  /\ unsent # {} => pc \in {"send", "killed"}
  /\ pc = "send" => sock \subseteq unsent \cup toRecv
  /\ pc \in {"send", "select", "recv", "move"} => frame < MaxFrame
  /\ \A id \in Players : client[id] = "closed" => states[id] = <<>>

(* How many frames the client has been shown. *)
Shown(id) == IF pc \in {"start", "head", "done"} \/ id \in unsent THEN frame ELSE frame + 1

(* How many of them the client has read. *)
Seen(id) == taken[id] + Len(moves[id]) + IF Deciding(id) THEN 1 ELSE 0

(* The pipeline of PipelineConsecutive, piece by piece: the moves that     *)
(* wait, the frame being decided on and the states not yet read.           *)
RoundTripOf(id) ==
  /\ \A i \in 1 .. Len(moves[id]) : moves[id][i] = taken[id] + i - 1
  /\ Deciding(id) => answering[id] = taken[id] + Len(moves[id])
  /\ \A i \in 1 .. Len(states[id]) : states[id][i].frame = Seen(id) + i - 1
  /\ client[id] # "closed" => Seen(id) + Len(states[id]) = Shown(id)

RoundTrip == \A id \in sock : RoundTripOf(id)

(* The server has a move of the client for the current frame. *)
Answered(id) == pc \notin {"start", "head", "done"} /\ id \notin unsent \cup toRecv

(* Each frame costs a client one move taken or one deadline missed, and    *)
(* the move in use is the last one taken.                                  *)
AccountOf(id) ==
  /\ taken[id] + missed[id] = frame + IF Answered(id) THEN 1 ELSE 0
  /\ Answered(id) => directions[id] = taken[id] - 1

Accounts == \A id \in sock : AccountOf(id)

InFlight(id) == {states[id][i] : i \in DOMAIN states[id]}

(* While a frame's states are sent, the ones already under way show        *)
(* everyone still alive and, of the others, only clients dropped since.    *)
CurrentVersion ==
  \A id \in Players : \A p \in InFlight(id) :
    /\ p.frame <= frame
    /\ p.frame = frame => pc \notin {"start", "head", "done"}
    /\ p.frame = frame /\ pc = "send" =>
         /\ alive \subseteq p.players
         /\ p.players \ alive \subseteq dropped
         /\ \A other \in unsent : id < other

(* VersionsDifferByDropped over the packets instead of their positions.    *)
Versions ==
  \A first, later \in Players :
    \A p \in InFlight(first), q \in InFlight(later) :
      first < later /\ p.frame = q.frame =>
        /\ q.players \subseteq p.players
        /\ p.players \ q.players \subseteq dropped

IInv ==
  /\ Typed /\ Phases /\ DroppedClientsLeave
  /\ RoundTrip /\ Accounts
  /\ CurrentVersion /\ Versions

-----------------------------------------------------------------------------
(* Every action keeps each part.                                           *)

(* A nonempty finite set of numbers has a least element, and Min is it. *)
LEMMA MinFacts ==
  ASSUME NEW S, S \subseteq Nat, S # {}, IsFiniteSet(S)
  PROVE  Min(S) \in S /\ \A x \in S : Min(S) <= x
<1> DEFINE below(x) == {y \in S : y < x}
           T == {below(x) : x \in S}
<1>1. PICK t \in T : \A u \in T : ~(<<u, t>> \in StrictSubsetOrdering(S))
  <2>1. IsWellFoundedOn(StrictSubsetOrdering(S), SUBSET S)
    BY FS_StrictSubsetOrderingWellFounded, FS_FiniteSubsetsOfFinite
  <2>2. T \subseteq SUBSET S /\ T # {}
    OBVIOUS
  <2> HIDE DEF T
  <2> QED BY <2>1, <2>2, WFMin
<1>2. PICK x \in S : t = below(x)
  OBVIOUS
<1>3. ASSUME NEW y \in S, y < x
      PROVE  FALSE
  <2>1. below(y) \subseteq below(x)
    <3>1. \A z \in S : z \in Nat
      OBVIOUS
    <3>2. \A z \in S : z < y => z < x
      BY <1>3, <3>1
    <3>3. QED BY <3>2
  <2>3. y \in below(x) /\ y \notin below(y)
    BY <1>3
  <2>2. <<below(y), below(x)>> \in StrictSubsetOrdering(S)
    BY <2>1, <2>3 DEF StrictSubsetOrdering
  <2> QED BY <1>1, <1>2, <2>2
<1>4. \A y \in S : x <= y
  BY <1>3
<1> HIDE DEF T
<1>5. QED BY <1>4 DEF Min

(* The server takes the clients of a set in the order of their ids. *)
LEMMA FirstOf ==
  ASSUME Typed, NEW S, S \subseteq Players, S # {}
  PROVE  Min(S) \in S /\ \A x \in S : Min(S) <= x
<1>1. IsFiniteSet(S) /\ S \subseteq Nat
  BY FrameLoopAssumption, FS_Subset DEF FrameLoopAssumption
<1>2. QED BY <1>1, MinFacts

(* Every step keeps the variables and the channels within their types. *)
LEMMA TypedStep ==
  ASSUME Typed, Phases, [Next]_vars
  PROVE  Typed'
<1> USE DEF Typed, TypeOK, NoMove, serverVars, clientVars, channels, history
<1>0. CASE RunStart
  BY <1>0 DEF RunStart, Deciding
<1>1. CASE FrameStart
  <2>1. directions' \in [Players -> -1 .. MaxFrame]
    BY <1>1, FrameLoopAssumption DEF FrameStart, FrameLoopAssumption
  <2>2. ready = {} /\ ready' = {} /\ toRecv' \subseteq sock' /\ unsent' \subseteq sock'
    BY <1>1 DEF FrameStart, Phases
  <2>3. QED BY <1>1, <2>1, <2>2 DEF FrameStart, Deciding
<1>2. CASE SendState
  <2> DEFINE id == Min(unsent)
  <2>1. id \in unsent /\ id \in sock /\ id \in Players /\ pc = "send"
    BY <1>2, FirstOf, FrameLoopAssumption DEF SendState, FrameLoopAssumption
  <2>2. CASE Sent(id)
    <3>1. [frame |-> frame, players |-> alive] \in Packet
      BY DEF Packet
    <3>2. states' \in [Players -> Seq(Packet)]
      BY <2>1, <2>2, <3>1 DEF Sent
    <3>3. QED BY <2>1, <2>2, <3>2, <1>2 DEF Sent, SendState, Deciding, Phases
  <2>3. CASE SendFailed(id)
    <3>1. ready = {}
      BY <2>1 DEF Phases
    <3>2. QED BY <2>1, <2>3, <1>2, <3>1 DEF SendFailed, Drop, SendState, Deciding
  <2>4. QED BY <1>2, <2>2, <2>3 DEF SendState
<1>3. CASE Killed
  BY <1>3 DEF Killed, Deciding
<1>4. CASE SendsDone
  BY <1>4 DEF SendsDone, Deciding
<1>5. CASE Select
  BY <1>5 DEF Select, Deciding
<1>6. CASE RecvOne
  <2> DEFINE id == Min(ready)
  <2>1. id \in ready /\ id \in sock /\ id \in Players /\ pc = "recv"
    BY <1>6, FirstOf, FrameLoopAssumption DEF RecvOne, FrameLoopAssumption
  <2>2. unsent = {}
    BY <2>1 DEF Phases
  <2>3. CASE RecvMove(id)
    <3>1. /\ moves[id] \in Seq(0 .. MaxFrame) /\ moves[id] # <<>>
          /\ Head(moves[id]) \in 0 .. MaxFrame
          /\ Tail(moves[id]) \in Seq(0 .. MaxFrame)
      BY <2>1, <2>3, HeadTailProperties DEF RecvMove
    <3>2. moves' \in [Players -> Seq(0 .. MaxFrame)]
      BY <2>3, <3>1 DEF RecvMove
    <3>3. Head(moves[id]) \in -1 .. MaxFrame
      BY <3>1, FrameLoopAssumption DEF FrameLoopAssumption
    <3>4. directions' \in [Players -> -1 .. MaxFrame]
      BY <2>3, <3>3 DEF RecvMove
    <3>5. taken' \in [Players -> Nat]
      BY <2>1, <2>3 DEF RecvMove
    <3>6. /\ unsent' = {} /\ toRecv' = toRecv \ {id} /\ ready' = ready \ {id}
          /\ UNCHANGED <<pc, running, frame, sock, alive, dropped, client, answering,
                         states, missed>>
      BY <1>6, <2>2, <2>3 DEF RecvMove, RecvOne
    <3>7. QED BY <2>1, <3>2, <3>4, <3>5, <3>6 DEF Deciding
  <2>4. CASE RecvFailed(id)
    BY <2>1, <2>2, <2>4, <1>6 DEF RecvFailed, Drop, RecvOne, Deciding
  <2>5. QED BY <1>6, <2>3, <2>4 DEF RecvOne
<1>7. CASE AllAnswered \/ TimeUp \/ AnotherPass
  BY <1>7 DEF AllAnswered, TimeUp, AnotherPass, RecvsDone, Deciding
<1>8. CASE \E dead \in SUBSET alive : MovePlayers(dead)
  <2> PICK dead \in SUBSET alive : MovePlayers(dead)
    BY <1>8
  <2>1. frame' \in 0 .. MaxFrame
    BY FrameLoopAssumption DEF MovePlayers, Phases, FrameLoopAssumption
  <2>2. missed' \in [Players -> Nat]
    BY DEF MovePlayers
  <2>3. QED BY <2>1, <2>2 DEF MovePlayers, Deciding, Phases
<1>9. CASE Stop
  BY <1>9 DEF Stop, Deciding
<1>10. ASSUME NEW id \in Players, ClientRecv(id)
       PROVE  Typed'
  <2>1. /\ states[id] \in Seq(Packet) /\ states[id] # <<>>
        /\ Head(states[id]) \in Packet
        /\ Tail(states[id]) \in Seq(Packet)
    BY <1>10, HeadTailProperties DEF ClientRecv
  <2>2. Head(states[id]).frame \in 0 .. MaxFrame
    BY <2>1 DEF Packet
  <2>3. states' \in [Players -> Seq(Packet)]
    <3>1. <<>> \in Seq(Packet)
      OBVIOUS
    <3>2. QED BY <1>10, <2>1, <3>1 DEF ClientRecv
  <2>4. answering' \in [Players -> -1 .. MaxFrame]
    <3>1. Head(states[id]).frame \in -1 .. MaxFrame
      BY <2>2, FrameLoopAssumption DEF FrameLoopAssumption
    <3>2. QED BY <1>10, <3>1 DEF ClientRecv
  <2>5. \A other \in Players : Deciding(other)' => answering'[other] \in 0 .. MaxFrame
    <3> SUFFICES ASSUME NEW other \in Players, Deciding(other)'
                 PROVE  answering'[other] \in 0 .. MaxFrame
      OBVIOUS
    <3>1. CASE other = id
      <4>1. client'[id] # "closed"
        BY <3>1 DEF Deciding
      <4>2. answering'[id] = Head(states[id]).frame
        BY <1>10, <4>1 DEF ClientRecv
      <4>3. QED BY <2>2, <3>1, <4>2
    <3>2. CASE other # id
      <4>1. client'[other] = client[other] /\ answering'[other] = answering[other]
        BY <1>10, <3>2 DEF ClientRecv
      <4>2. QED BY <4>1 DEF Deciding
    <3>3. QED BY <3>1, <3>2
  <2>6. QED BY <1>10, <2>3, <2>4, <2>5 DEF ClientRecv
<1>11. ASSUME NEW id \in Players, ClientSend(id)
       PROVE  Typed'
  <2>1. answering[id] \in 0 .. MaxFrame
    BY <1>11 DEF ClientSend, Deciding
  <2>2. moves' \in [Players -> Seq(0 .. MaxFrame)]
    BY <1>11, <2>1 DEF ClientSend
  <2>3. answering' \in [Players -> -1 .. MaxFrame]
    BY <1>11, FrameLoopAssumption DEF ClientSend, FrameLoopAssumption
  <2>4. QED BY <1>11, <2>2, <2>3 DEF ClientSend, Deciding
<1>12. ASSUME NEW id \in Players, ClientSendHalf(id)
       PROVE  Typed'
  BY <1>12 DEF ClientSendHalf, Deciding
<1>13. ASSUME NEW id \in Players, ClientClose(id)
       PROVE  Typed'
  <2>1. states' \in [Players -> Seq(Packet)]
    BY <1>13 DEF ClientClose
  <2>2. answering' \in [Players -> -1 .. MaxFrame]
    BY <1>13, FrameLoopAssumption DEF ClientClose, FrameLoopAssumption
  <2>3. QED BY <1>13, <2>1, <2>2 DEF ClientClose, Deciding
<1>14. CASE UNCHANGED vars
  BY <1>14 DEF vars, Deciding
<1>15. QED
  BY <1>0, <1>1, <1>2, <1>3, <1>4, <1>5, <1>6, <1>7, <1>8, <1>9, <1>10, <1>11, <1>12, <1>13,
     <1>14
     DEF Next, Server, Clients

(* Every step keeps the sets of a phase empty outside it. *)
LEMMA PhasesStep ==
  ASSUME Typed, Phases, [Next]_vars
  PROVE  Phases'
<1> USE DEF Phases, serverVars, clientVars, channels, history
<1>0. CASE RunStart
  BY <1>0 DEF RunStart
<1>1. CASE FrameStart
  BY <1>1 DEF FrameStart
<1>2. CASE SendState
  <2> DEFINE id == Min(unsent)
  <2>1. id \in unsent /\ id \in sock /\ id \in Players /\ pc = "send"
    BY <1>2, FirstOf, FrameLoopAssumption DEF SendState, FrameLoopAssumption, Typed, TypeOK
  <2>2. CASE Sent(id)
    BY <1>2, <2>1, <2>2 DEF Sent, SendState, Typed
  <2>3. CASE SendFailed(id)
    BY <1>2, <2>1, <2>3 DEF SendFailed, Drop, SendState
  <2>4. QED BY <1>2, <2>2, <2>3 DEF SendState
<1>3. CASE Killed
  BY <1>3 DEF Killed
<1>4. CASE SendsDone
  BY <1>4 DEF SendsDone
<1>5. CASE Select
  BY <1>5 DEF Select
<1>6. CASE RecvOne
  BY <1>6 DEF RecvOne, RecvMove, RecvFailed, Drop
<1>7. CASE AllAnswered \/ TimeUp \/ AnotherPass
  BY <1>7 DEF AllAnswered, TimeUp, AnotherPass, RecvsDone
<1>8. CASE \E dead \in SUBSET alive : MovePlayers(dead)
  BY <1>8 DEF MovePlayers
<1>9. CASE Stop
  BY <1>9 DEF Stop
<1>10. CASE \E id \in Players : ClientRecv(id)
  <2> PICK id \in Players : ClientRecv(id)
    BY <1>10
  <2>1. CASE id \in Head(states[id]).players
    BY <2>1 DEF ClientRecv, Typed, TypeOK
  <2>2. CASE id \notin Head(states[id]).players
    BY <2>2 DEF ClientRecv, Typed, TypeOK
  <2>3. QED BY <2>1, <2>2
<1>11. CASE \E id \in Players : ClientSend(id)
  BY <1>11 DEF ClientSend, Typed, TypeOK
<1>12. CASE \E id \in Players : ClientSendHalf(id)
  BY <1>12 DEF ClientSendHalf, Typed, TypeOK
<1>13. CASE \E id \in Players : ClientClose(id)
  BY <1>13 DEF ClientClose, Typed, TypeOK
<1>14. CASE UNCHANGED vars
  BY <1>14 DEF vars
<1>15. QED
  BY <1>0, <1>1, <1>2, <1>3, <1>4, <1>5, <1>6, <1>7, <1>8, <1>9, <1>10, <1>11, <1>12, <1>13,
     <1>14
     DEF Next, Server, Clients

(* Every step keeps a client that was given up out of the game and of the  *)
(* sets that are waited for.                                               *)
LEMMA DroppedStep ==
  ASSUME Typed, Phases, DroppedClientsLeave, [Next]_vars
  PROVE  DroppedClientsLeave'
<1> USE DEF DroppedClientsLeave, serverVars, clientVars, channels, history
<1>1. /\ alive' \subseteq alive /\ sock' \subseteq sock
      /\ \A id \in dropped' \ dropped : id \notin alive' \cup sock'
  <2>1. CASE Server
    BY <2>1 DEF Server, RunStart, FrameStart, SendState, Sent, SendFailed, Drop, Killed, SendsDone, Select,
         RecvOne, RecvMove, RecvFailed, AllAnswered, TimeUp, AnotherPass, RecvsDone, MovePlayers
  <2>2. CASE Stop \/ Clients \/ UNCHANGED vars
    BY <2>2 DEF vars, Stop, Clients, ClientRecv, ClientSend, ClientSendHalf, ClientClose
  <2>3. QED BY <2>1, <2>2 DEF Next
<1>2. unsent' \subseteq sock' /\ toRecv' \subseteq sock'
  BY TypedStep DEF Typed, TypeOK
<1>3. QED BY <1>1, <1>2

(* server_run closes sockets and opens none, and a client once given up    *)
(* stays so.                                                               *)
LEMMA SocketsOnlyClose ==
  ASSUME [Next]_vars
  PROVE  sock' \subseteq sock /\ dropped \subseteq dropped'
<1> USE DEF serverVars, clientVars, channels, history
<1>1. CASE Server
  BY <1>1 DEF Server, RunStart, FrameStart, SendState, Sent, SendFailed, Drop, Killed, SendsDone, Select,
       RecvOne, RecvMove, RecvFailed, AllAnswered, TimeUp, AnotherPass, RecvsDone, MovePlayers
<1>2. CASE Stop \/ Clients \/ UNCHANGED vars
  BY <1>2 DEF vars, Stop, Clients, ClientRecv, ClientSend, ClientSendHalf, ClientClose
<1>3. QED BY <1>1, <1>2 DEF Next

(* A step that leaves a client and its channels alone keeps its round      *)
(* trip.                                                                   *)
LEMMA RoundTripKept ==
  ASSUME NEW id, RoundTripOf(id),
         moves'[id] = moves[id], taken'[id] = taken[id], states'[id] = states[id],
         client'[id] = client[id], answering'[id] = answering[id], Shown(id)' = Shown(id)
  PROVE  RoundTripOf(id)'
BY Zenon DEF RoundTripOf, Seen, Deciding

(* Every step keeps the frames on the round trip of a client consecutive. *)
LEMMA RoundTripStep ==
  ASSUME Typed, Phases, RoundTrip, [Next]_vars
  PROVE  RoundTrip'
<1> USE DEF serverVars, clientVars, channels, history
<1> SUFFICES ASSUME NEW id \in sock, id \in sock'
             PROVE  RoundTripOf(id)'
  BY SocketsOnlyClose DEF RoundTrip
<1>13. moves[id] \in Seq(0 .. MaxFrame) /\ states[id] \in Seq(Packet)
  BY FrameLoopAssumption DEF Typed, TypeOK, FrameLoopAssumption
<1>0. /\ id \in Players /\ RoundTripOf(id)
      /\ DOMAIN taken = Players /\ DOMAIN taken' = Players
      /\ DOMAIN moves = Players /\ DOMAIN moves' = Players
      /\ DOMAIN states = Players /\ DOMAIN states' = Players
      /\ taken[id] \in Nat /\ frame \in Nat
      /\ Len(moves[id]) \in Nat /\ Len(states[id]) \in Nat
  <2>1. frame \in Nat
    BY FrameLoopAssumption DEF Typed, TypeOK, FrameLoopAssumption
  <2>2. /\ DOMAIN taken = Players /\ DOMAIN taken' = Players
        /\ DOMAIN moves = Players /\ DOMAIN moves' = Players
        /\ DOMAIN states = Players /\ DOMAIN states' = Players
    BY TypedStep DEF Typed, TypeOK
  <2>3. QED BY <2>1, <2>2, FrameLoopAssumption DEF Typed, TypeOK, FrameLoopAssumption, RoundTrip
<1>14. CASE RunStart
  BY <1>0, <1>14, RoundTripKept DEF RunStart, Shown
<1>1. CASE FrameStart
  BY <1>0, <1>1, RoundTripKept DEF FrameStart, Shown
<1>2. CASE SendState
  <2> DEFINE to == Min(unsent)
  <2>1. to \in unsent /\ to \in sock /\ to \in Players /\ pc = "send"
    BY <1>2, FirstOf, FrameLoopAssumption DEF SendState, FrameLoopAssumption, Typed, TypeOK
  <2>2. CASE Sent(to) /\ id = to
    <3>1. CASE client[id] = "closed"
      <4>1. states[id] = <<>> /\ states' = states
        BY <1>0, <2>2, <3>1 DEF Phases, Sent
      <4>2. QED BY <1>0, <1>2, <2>2, <3>1, <4>1 DEF RoundTripOf, Seen, Deciding, SendState
    <3>2. CASE client[id] # "closed"
      <4>1. states'[id] = Append(states[id], [frame |-> frame, players |-> alive])
        BY <1>0, <2>2, <3>2 DEF Sent, Typed
      <4>2. /\ Seen(id)' = Seen(id)
            /\ Deciding(id)' <=> Deciding(id)
            /\ Shown(id)' = frame + 1 /\ Shown(id) = frame
            /\ moves' = moves /\ taken' = taken /\ answering' = answering /\ client' = client
        BY <1>2, <2>1, <2>2 DEF SendState, Seen, Deciding, Shown
      <4>3. Seen(id) \in Nat
        BY <1>0 DEF Seen
      <4>4. /\ Len(states'[id]) = Len(states[id]) + 1
            /\ \A i \in 1 .. Len(states[id]) : states'[id][i] = states[id][i]
            /\ states'[id][Len(states[id]) + 1].frame = frame
        <5>1. [frame |-> frame, players |-> alive] \in Packet
          BY DEF Packet, Typed, TypeOK
        <5>2. QED BY <1>13, <4>1, <5>1
      <4>8. Seen(id) + Len(states[id]) = frame
        BY <1>0, <3>2, <4>2 DEF RoundTripOf
      <4>5. \A i \in 1 .. Len(states'[id]) : states'[id][i].frame = Seen(id)' + i - 1
        <5> SUFFICES ASSUME NEW i \in 1 .. Len(states'[id])
                     PROVE  states'[id][i].frame = Seen(id) + i - 1
          BY <4>2
        <5>1. CASE i \in 1 .. Len(states[id])
          BY <1>0, <4>4, <5>1 DEF RoundTripOf
        <5>2. CASE i = Len(states[id]) + 1
          BY <1>0, <4>3, <4>4, <4>8, <5>2
        <5>3. QED BY <1>0, <4>4, <5>1, <5>2
      <4>6. Seen(id)' + Len(states'[id]) = Shown(id)'
        BY <1>0, <4>2, <4>3, <4>4, <4>8
      <4>7. QED BY <1>0, <4>2, <4>5, <4>6 DEF RoundTripOf
    <3>3. QED BY <3>1, <3>2
  <2>3. CASE id # to
    <3>1. states'[id] = states[id]
      BY <1>0, <1>2, <2>3 DEF SendState, Sent, SendFailed, Typed
    <3>2. QED BY <1>0, <1>2, <2>3, <3>1, RoundTripKept DEF SendState, Shown
  <2>4. QED BY <1>2, <2>2, <2>3 DEF SendState, SendFailed, Drop
<1>3. CASE Killed
  BY <1>0, <1>3, RoundTripKept DEF Killed, Shown
<1>4. CASE SendsDone
  BY <1>0, <1>4, RoundTripKept DEF SendsDone, Shown
<1>5. CASE Select
  BY <1>0, <1>5, RoundTripKept DEF Select, Shown
<1>6. CASE RecvOne
  <2> DEFINE from == Min(ready)
  <2>1. from \in ready /\ from \in sock /\ from \in Players /\ pc = "recv"
    BY <1>6, FirstOf, FrameLoopAssumption DEF RecvOne, FrameLoopAssumption, Typed, TypeOK
  <2>2. Shown(id)' = Shown(id)
    BY <1>6 DEF RecvOne, Shown
  <2>3. CASE RecvMove(from) /\ id = from
    <3>1. moves[id] # <<>> /\ moves'[id] = Tail(moves[id]) /\ taken'[id] = taken[id] + 1
      BY <1>0, <2>3 DEF RecvMove, Typed, TypeOK
    <3>2. /\ Len(moves'[id]) = Len(moves[id]) - 1
          /\ \A i \in 1 .. Len(moves'[id]) : moves'[id][i] = moves[id][i + 1]
      BY <1>13, <3>1
    <3>3. states' = states /\ client' = client /\ answering' = answering
      BY <1>6 DEF RecvOne
    <3>4. Deciding(id)' <=> Deciding(id)
      BY <3>3 DEF Deciding
    <3>5. Seen(id)' = Seen(id)
      BY <1>0, <3>1, <3>2, <3>3 DEF Seen, Deciding
    <3>6. \A i \in 1 .. Len(moves'[id]) : moves'[id][i] = taken'[id] + i - 1
      BY <1>0, <3>1, <3>2 DEF RoundTripOf
    <3>7. Deciding(id)' => answering'[id] = taken'[id] + Len(moves'[id])
      BY <1>0, <3>1, <3>2, <3>3 DEF RoundTripOf, Deciding
    <3>8. QED BY <1>0, <2>2, <3>3, <3>5, <3>6, <3>7 DEF RoundTripOf
  <2>4. CASE id # from
    <3>1. moves'[id] = moves[id] /\ taken'[id] = taken[id]
      BY <1>0, <1>6, <2>4 DEF RecvOne, RecvMove, RecvFailed, Typed, TypeOK
    <3>2. QED BY <1>0, <1>6, <2>2, <3>1, RoundTripKept DEF RecvOne
  <2>5. QED BY <1>6, <2>3, <2>4 DEF RecvOne, RecvFailed, Drop
<1>7. CASE AllAnswered \/ TimeUp \/ AnotherPass
  BY <1>0, <1>7, RoundTripKept DEF AllAnswered, TimeUp, AnotherPass, RecvsDone, Shown
<1>8. CASE \E dead \in SUBSET alive : MovePlayers(dead)
  <2>1. Shown(id)' = Shown(id)
    BY <1>8 DEF MovePlayers, Shown, Phases
  <2>2. QED BY <1>0, <1>8, <2>1, RoundTripKept DEF MovePlayers
<1>9. CASE Stop
  BY <1>0, <1>9, RoundTripKept DEF Stop, Shown
<1>10. ASSUME NEW who \in Players, \/ ClientRecv(who) \/ ClientSend(who)
                                  \/ ClientSendHalf(who) \/ ClientClose(who)
       PROVE  RoundTripOf(id)'
  <2>0. Shown(id)' = Shown(id) /\ taken' = taken
    BY <1>10 DEF ClientRecv, ClientSend, ClientSendHalf, ClientClose, Shown
  <2>1. CASE id # who
    <3>1. /\ client'[id] = client[id] /\ answering'[id] = answering[id]
          /\ moves'[id] = moves[id] /\ states'[id] = states[id]
      <4>1. CASE ClientRecv(who)
        BY <1>0, <2>1, <4>1 DEF ClientRecv, Typed, TypeOK
      <4>2. CASE ClientSend(who)
        BY <1>0, <2>1, <4>2 DEF ClientSend, Typed, TypeOK
      <4>3. CASE ClientSendHalf(who)
        BY <1>0, <2>1, <4>3 DEF ClientSendHalf, Typed, TypeOK
      <4>4. CASE ClientClose(who)
        BY <1>0, <2>1, <4>4 DEF ClientClose, Typed, TypeOK
      <4>5. QED BY <1>10, <4>1, <4>2, <4>3, <4>4
    <3>2. QED BY <1>0, <2>0, <3>1, RoundTripKept
  <2>2. CASE id = who /\ client'[id] = "closed"
    <3>1. states'[id] = <<>> /\ moves' = moves
      BY <1>0, <1>10, <2>2 DEF ClientRecv, ClientSend, ClientSendHalf, ClientClose, Typed, TypeOK
    <3>2. ~Deciding(id)'
      BY <2>2 DEF Deciding
    <3>3. QED BY <1>0, <2>0, <2>2, <3>1, <3>2 DEF RoundTripOf
  <2>3. CASE id = who /\ ClientRecv(id) /\ client'[id] # "closed"
    <3>1. /\ states[id] # <<>> /\ states'[id] = Tail(states[id]) /\ moves' = moves
          /\ answering'[id] = Head(states[id]).frame
          /\ Deciding(id)' /\ ~Deciding(id) /\ client[id] # "closed"
      BY <1>0, <2>3 DEF ClientRecv, Typed, TypeOK, Deciding
    <3>2. /\ Head(states[id]) = states[id][1] /\ 1 \in 1 .. Len(states[id])
          /\ Len(states'[id]) = Len(states[id]) - 1
          /\ \A i \in 1 .. Len(states'[id]) : states'[id][i] = states[id][i + 1]
      BY <1>13, <3>1
    <3>3. Seen(id) = taken[id] + Len(moves[id]) /\ Seen(id)' = Seen(id) + 1
      BY <1>0, <2>0, <3>1 DEF Seen
    <3>4. answering'[id] = taken'[id] + Len(moves'[id])
      BY <1>0, <2>0, <3>1, <3>2, <3>3 DEF RoundTripOf
    <3>5. \A i \in 1 .. Len(states'[id]) : states'[id][i].frame = Seen(id)' + i - 1
      <4> SUFFICES ASSUME NEW i \in 1 .. Len(states'[id])
                   PROVE  states'[id][i].frame = Seen(id)' + i - 1
        OBVIOUS
      <4>1. i + 1 \in 1 .. Len(states[id])
        BY <1>0, <3>2
      <4>2. states[id][i + 1].frame = Seen(id) + (i + 1) - 1
        BY <1>0, <4>1 DEF RoundTripOf
      <4>3. Seen(id) \in Nat
        BY <1>0, <3>3
      <4>4. states'[id][i].frame = states[id][i + 1].frame
        BY <3>2
      <4>5. QED BY <3>3, <4>2, <4>3, <4>4
    <3>6. Seen(id)' + Len(states'[id]) = Shown(id)'
      BY <1>0, <2>0, <3>1, <3>2, <3>3 DEF RoundTripOf
    <3>7. QED BY <1>0, <2>0, <3>1, <3>4, <3>5, <3>6 DEF RoundTripOf
  <2>4. CASE id = who /\ ClientSend(id)
    <3>1. /\ moves'[id] = Append(moves[id], answering[id]) /\ states' = states
          /\ Deciding(id) /\ ~Deciding(id)' /\ client[id] # "closed"
          /\ answering[id] \in 0 .. MaxFrame
          /\ client[id] \in {"thinking", "half"} /\ client'[id] = "waiting"
      BY <1>0, <2>4 DEF ClientSend, Typed, TypeOK, Deciding
    <3>6. /\ Len(moves'[id]) = Len(moves[id]) + 1
          /\ \A i \in 1 .. Len(moves[id]) : moves'[id][i] = moves[id][i]
          /\ moves'[id][Len(moves[id]) + 1] = answering[id]
      BY <1>13, <3>1
    <3>2. answering[id] = taken[id] + Len(moves[id])
      BY <1>0, <3>1 DEF RoundTripOf
    <3>3. Seen(id)' = Seen(id)
      BY <1>0, <2>0, <3>1, <3>6 DEF Seen, Deciding
    <3>4. \A i \in 1 .. Len(moves'[id]) : moves'[id][i] = taken'[id] + i - 1
      <4> SUFFICES ASSUME NEW i \in 1 .. Len(moves'[id])
                   PROVE  moves'[id][i] = taken[id] + i - 1
        BY <2>0
      <4>1. CASE i \in 1 .. Len(moves[id])
        BY <1>0, <3>6, <4>1 DEF RoundTripOf
      <4>2. CASE i = Len(moves[id]) + 1
        BY <1>0, <3>2, <3>6, <4>2
      <4>3. QED BY <1>0, <3>6, <4>1, <4>2
    <3>5. QED BY <1>0, <2>0, <3>1, <3>3, <3>4 DEF RoundTripOf
  <2>5. CASE id = who /\ ClientSendHalf(id)
    <3>1. /\ moves' = moves /\ states' = states /\ answering' = answering
          /\ Deciding(id) /\ Deciding(id)' /\ client[id] # "closed"
      BY <1>0, <2>5 DEF ClientSendHalf, Typed, TypeOK, Deciding
    <3>2. QED BY <1>0, <2>0, <3>1 DEF RoundTripOf, Seen
  <2>6. QED
    <3>1. ClientClose(id) => client'[id] = "closed"
      BY <1>0 DEF ClientClose, Typed, TypeOK
    <3>2. QED BY <1>10, <2>1, <2>2, <2>3, <2>4, <2>5, <3>1
<1>11. CASE UNCHANGED vars
  BY <1>0, <1>11, RoundTripKept DEF vars, Shown
<1>12. QED
  BY <1>1, <1>2, <1>3, <1>4, <1>5, <1>6, <1>7, <1>8, <1>9, <1>10, <1>11, <1>14
     DEF Next, Server, Clients
(* Every step keeps the count of moves taken and deadlines missed. *)
LEMMA AccountsStep ==
  ASSUME Typed, Phases, RoundTrip, Accounts, [Next]_vars
  PROVE  Accounts'
<1> USE DEF serverVars, clientVars, channels, history
<1> SUFFICES ASSUME NEW id \in sock, id \in sock'
             PROVE  AccountOf(id)'
  BY SocketsOnlyClose DEF Accounts
<1>0. /\ id \in Players /\ AccountOf(id)
      /\ taken[id] \in Nat /\ missed[id] \in Nat /\ frame \in Nat
      /\ DOMAIN taken = Players /\ DOMAIN missed = Players
      /\ DOMAIN directions = Players /\ DOMAIN moves = Players
  BY FrameLoopAssumption DEF Typed, TypeOK, FrameLoopAssumption, Accounts
<1>11. CASE RunStart
  BY <1>0, <1>11 DEF RunStart, AccountOf, Answered
<1>1. CASE FrameStart
  BY <1>0, <1>1 DEF FrameStart, AccountOf, Answered
<1>2. CASE SendState
  <2>3. \/ toRecv' = toRecv \cup {Min(unsent)}
        \/ toRecv' = toRecv \ {Min(unsent)} /\ id # Min(unsent)
    BY <1>2 DEF SendState, Sent, SendFailed, Drop
  <2>4. Min(unsent) \in unsent
    BY <1>2, FirstOf, FrameLoopAssumption DEF SendState, FrameLoopAssumption, Typed, TypeOK
  <2>5. id \in unsent' \cup toRecv' <=> id \in unsent \cup toRecv
    BY <1>2, <2>3, <2>4 DEF SendState
  <2>1. Answered(id)' <=> Answered(id)
    BY <1>2, <2>5 DEF SendState, Answered
  <2>2. QED BY <1>0, <1>2, <2>1 DEF SendState, AccountOf
<1>3. CASE Killed
  BY <1>0, <1>3 DEF Killed, AccountOf, Answered
<1>4. CASE SendsDone
  BY <1>0, <1>4 DEF SendsDone, AccountOf, Answered
<1>5. CASE Select
  BY <1>0, <1>5 DEF Select, AccountOf, Answered
<1>6. CASE RecvOne
  <2> DEFINE from == Min(ready)
  <2>1. from \in ready /\ from \in toRecv /\ from \in Players /\ pc = "recv" /\ pc' = "recv"
    BY <1>6, FirstOf, FrameLoopAssumption DEF RecvOne, FrameLoopAssumption, Typed, TypeOK
  <2>2. unsent = {} /\ unsent' = {} /\ frame' = frame /\ missed' = missed
    BY <1>6, <2>1 DEF RecvOne, Phases
  <2>3. CASE RecvMove(from) /\ id = from
    <3>1. moves[id] \in Seq(0 .. MaxFrame) /\ moves[id] # <<>>
      BY <1>0, <2>3 DEF RecvMove, Typed
    <3>2. Head(moves[id]) = moves[id][1] /\ 1 \in 1 .. Len(moves[id])
      BY <3>1
    <3>3. Head(moves[id]) = taken[id]
      BY <1>0, <3>2 DEF RoundTrip, RoundTripOf
    <3>4. directions'[id] = taken[id] /\ taken'[id] = taken[id] + 1
      BY <1>0, <2>3, <3>3 DEF RecvMove
    <3>5. ~Answered(id) /\ Answered(id)'
      BY <2>1, <2>2, <2>3 DEF Answered, RecvMove
    <3>6. QED BY <1>0, <2>2, <3>4, <3>5 DEF AccountOf
  <2>4. CASE id # from
    <3>1. taken'[id] = taken[id] /\ directions'[id] = directions[id]
      BY <1>0, <1>6, <2>4 DEF RecvOne, RecvMove, RecvFailed
    <3>2. Answered(id)' <=> Answered(id)
      <4>1. toRecv' = toRecv \ {from}
        BY <1>6 DEF RecvOne, RecvMove, RecvFailed, Drop
      <4>2. QED BY <2>1, <2>2, <2>4, <4>1 DEF Answered
    <3>3. QED BY <1>0, <2>2, <3>1, <3>2 DEF AccountOf
  <2>5. QED BY <1>6, <2>3, <2>4 DEF RecvOne, RecvFailed, Drop
<1>7. CASE AllAnswered \/ TimeUp \/ AnotherPass
  <2>1. Answered(id)' <=> Answered(id)
    BY <1>7 DEF AllAnswered, TimeUp, AnotherPass, RecvsDone, Answered
  <2>2. QED BY <1>0, <1>7, <2>1 DEF AllAnswered, TimeUp, AnotherPass, RecvsDone, AccountOf
<1>8. CASE \E dead \in SUBSET alive : MovePlayers(dead)
  <2>1. /\ missed'[id] = missed[id] + (IF id \in toRecv THEN 1 ELSE 0)
        /\ frame' = frame + 1 /\ taken' = taken /\ pc = "move" /\ pc' = "head"
    BY <1>0, <1>8 DEF MovePlayers
  <2>2. (Answered(id) <=> id \notin toRecv) /\ ~Answered(id)'
    BY <2>1 DEF Answered, Phases
  <2>3. QED BY <1>0, <2>1, <2>2 DEF AccountOf
<1>9. CASE Stop \/ Clients \/ UNCHANGED vars
  <2>1. UNCHANGED <<pc, frame, unsent, toRecv, directions, taken, missed>>
    BY <1>9 DEF vars, Stop, Clients, ClientRecv, ClientSend, ClientSendHalf, ClientClose
  <2>2. QED BY <1>0, <2>1 DEF AccountOf, Answered
<1>10. QED
  BY <1>1, <1>2, <1>3, <1>4, <1>5, <1>6, <1>7, <1>8, <1>9, <1>11 DEF Next, Server

(* The states under way to a client only get fewer, except that sending    *)
(* adds the current one.                                                   *)
LEMMA InFlightStep ==
  ASSUME Typed, [Next]_vars, NEW id \in Players
  PROVE  \/ InFlight(id)' \subseteq InFlight(id)
         \/ /\ SendState /\ id = Min(unsent) /\ Sent(id)
            /\ InFlight(id)' = InFlight(id) \cup {[frame |-> frame, players |-> alive]}
<1> USE DEF serverVars, clientVars, channels, history
<1>0. /\ id \in Players /\ states[id] \in Seq(Packet)
      /\ DOMAIN states = Players
      /\ DOMAIN states[id] = 1 .. Len(states[id]) /\ Len(states[id]) \in Nat
  <2>1. id \in Players
    OBVIOUS
  <2>2. states[id] \in Seq(Packet)
    BY <2>1 DEF Typed
  <2>3. QED BY <2>1, <2>2 DEF Typed
<1>1. CASE states'[id] = states[id]
  BY <1>1 DEF InFlight
<1>2. CASE states'[id] = <<>>
  BY <1>2 DEF InFlight
<1>3. CASE states[id] # <<>> /\ states'[id] = Tail(states[id])
  <2>1. /\ DOMAIN states'[id] = 1 .. Len(states[id]) - 1
        /\ \A i \in 1 .. Len(states[id]) - 1 : states'[id][i] = states[id][i + 1]
    BY <1>0, <1>3
  <2>2. \A i \in 1 .. Len(states[id]) - 1 : i + 1 \in 1 .. Len(states[id])
    BY <1>0
  <2>3. QED BY <1>0, <2>1, <2>2 DEF InFlight
<1>4. CASE SendState /\ id = Min(unsent) /\ Sent(id) /\ states' # states
  <2> DEFINE p == [frame |-> frame, players |-> alive]
  <2>1. states'[id] = Append(states[id], p) /\ p \in Packet
    BY <1>0, <1>4 DEF Sent, Packet, Typed, TypeOK
  <2> HIDE DEF p
  <2>2. /\ DOMAIN states'[id] = 1 .. Len(states[id]) + 1
        /\ \A i \in 1 .. Len(states[id]) : states'[id][i] = states[id][i]
        /\ states'[id][Len(states[id]) + 1] = p
    BY <1>0, <2>1
  <2>3. 1 .. Len(states[id]) + 1 = 1 .. Len(states[id]) \cup {Len(states[id]) + 1}
    BY <1>0
  <2>4. InFlight(id)' = InFlight(id) \cup {p}
    BY <1>0, <2>2, <2>3 DEF InFlight
  <2>5. QED BY <1>4, <2>4 DEF p
<1>5. QED
  <2>1. CASE SendState
    BY <1>0, <1>1, <1>4, <2>1 DEF SendState, Sent, SendFailed
  <2>2. ASSUME NEW who \in Players, ClientRecv(who)
        PROVE  \/ states'[id] = states[id] \/ states'[id] = <<>>
               \/ states[id] # <<>> /\ states'[id] = Tail(states[id])
    BY <1>0, <2>2 DEF ClientRecv
  <2>3. ASSUME NEW who \in Players, ClientClose(who)
        PROVE  states'[id] = states[id] \/ states'[id] = <<>>
    BY <1>0, <2>3 DEF ClientClose
  <2>4. ASSUME NEW who \in Players, ClientSend(who) \/ ClientSendHalf(who)
        PROVE  states' = states
    BY <2>4 DEF ClientSend, ClientSendHalf
  <2>5. CASE Clients
    BY <1>1, <1>2, <1>3, <2>2, <2>3, <2>4, <2>5 DEF Clients
  <2>6. CASE (Server /\ ~SendState) \/ Stop \/ UNCHANGED vars
    <3>1. states' = states
      BY <2>6 DEF Server, RunStart, FrameStart, Killed, SendsDone, Select, RecvOne, AllAnswered, TimeUp,
           AnotherPass, RecvsDone, MovePlayers, Stop, vars
    <3>2. QED BY <1>1, <3>1
  <2>7. QED BY <2>1, <2>5, <2>6 DEF Next
(* Every step keeps the versions of a frame ordered by the clients dropped *)
(* between them.                                                           *)
LEMMA VersionsStep ==
  ASSUME Typed, Phases, CurrentVersion, Versions, [Next]_vars
  PROVE  CurrentVersion' /\ Versions'
<1> USE DEF serverVars, clientVars, channels, history
<1> DEFINE to == Min(unsent)
           new == [frame |-> frame, players |-> alive]
<1>0. /\ Players \subseteq Nat /\ frame \in Nat
      /\ \A id \in Players : \A p \in InFlight(id) : p.frame \in Nat
  <2>1. ASSUME NEW id \in Players, NEW p \in InFlight(id)
        PROVE  p.frame \in Nat
    <3>1. states[id] \in Seq(Packet)
      BY FrameLoopAssumption DEF FrameLoopAssumption, Typed
    <3>2. p \in Packet
      BY <3>1 DEF InFlight
    <3>3. QED BY <3>2, FrameLoopAssumption DEF Packet, FrameLoopAssumption
  <2>2. QED BY <2>1, FrameLoopAssumption DEF FrameLoopAssumption, Typed, TypeOK
<1>1. CASE SendState
  <2>1. /\ to \in unsent /\ to \in sock /\ to \in Players /\ pc = "send"
        /\ \A other \in unsent : to <= other
    BY <1>1, FirstOf, FrameLoopAssumption DEF SendState, FrameLoopAssumption, Typed, TypeOK
  <2>2. unsent' = unsent \ {to} /\ pc' = pc /\ frame' = frame
    BY <1>1 DEF SendState
  <2>3. \/ sock' = sock /\ alive' = alive /\ dropped' = dropped
        \/ /\ sock' = sock \ {to} /\ alive' = alive \ {to}
           /\ dropped' = dropped \cup {to}
    BY <1>1 DEF SendState, Sent, SendFailed, Drop
  <2>4. ASSUME NEW id \in Players, NEW p \in InFlight(id)'
        PROVE  p \in InFlight(id) \/ (id = to /\ p = new /\ alive' = alive /\ dropped' = dropped)
    BY <2>4, InFlightStep DEF Sent
  <2> HIDE DEF new
  <2>5. ASSUME NEW id \in Players, NEW p \in InFlight(id)'
        PROVE  /\ p.frame <= frame'
               /\ p.frame = frame' => pc' \notin {"start", "head", "done"}
               /\ p.frame = frame' /\ pc' = "send" =>
                    /\ alive' \subseteq p.players
                    /\ p.players \ alive' \subseteq dropped'
                    /\ \A other \in unsent' : id < other
    <3>1. CASE p \in InFlight(id)
      BY <2>1, <2>2, <2>3, <3>1 DEF CurrentVersion
    <3>2. CASE id = to /\ p = new /\ alive' = alive /\ dropped' = dropped
      <4>1. new.frame = frame /\ new.players = alive
        BY DEF new
      <4>2. \A other \in unsent' : to < other
        <5>1. \A other \in unsent : other \in Players
          BY DEF Typed, TypeOK
        <5>2. \A other \in unsent' : to <= other /\ to # other /\ to \in Nat /\ other \in Nat
          BY <1>0, <2>1, <2>2, <5>1
        <5> HIDE DEF to
        <5>3. QED BY <5>2
      <4>3. QED BY <1>0, <2>1, <2>2, <3>2, <4>1, <4>2
    <3>3. QED BY <2>4, <2>5, <3>1, <3>2
  <2>6. ASSUME NEW first \in Players, NEW later \in Players,
               NEW p \in InFlight(first)', NEW q \in InFlight(later)',
               first < later, p.frame = q.frame
        PROVE  /\ q.players \subseteq p.players
               /\ p.players \ q.players \subseteq dropped'
    <3>1. CASE p \in InFlight(first) /\ q \in InFlight(later)
      BY <2>3, <2>6, <3>1 DEF Versions
    <3>2. CASE p \in InFlight(first) /\ later = to /\ q = new /\ alive' = alive /\ dropped' = dropped
      <4>1. q.frame = frame /\ q.players = alive
        BY <3>2 DEF new
      <4>2. QED BY <2>1, <2>6, <3>2, <4>1 DEF CurrentVersion
    <3>3. CASE first = to /\ p = new
      <4>1. p.frame = frame /\ p.players = alive
        BY <3>3 DEF new
      <4>2. CASE q \in InFlight(later)
        <5>1. later < to
          BY <2>1, <2>6, <4>1, <4>2 DEF CurrentVersion
        <5>2. QED BY <1>0, <2>1, <2>6, <3>3, <5>1
      <4>3. CASE later = to
        BY <1>0, <2>1, <2>6, <3>3, <4>3
      <4>4. QED BY <2>4, <4>2, <4>3
    <3>4. QED
      <4>1. p \in InFlight(first) \/ (first = to /\ p = new)
        BY <2>4
      <4>2. \/ q \in InFlight(later)
            \/ later = to /\ q = new /\ alive' = alive /\ dropped' = dropped
        BY <2>4
      <4>3. QED BY <3>1, <3>2, <3>3, <4>1, <4>2
  <2>7. CurrentVersion'
    BY <2>5 DEF CurrentVersion
  <2>8. Versions'
    BY <2>6 DEF Versions
  <2>9. QED BY <2>7, <2>8
<1>2. CASE ~SendState
  <2>1. \A id \in Players : InFlight(id)' \subseteq InFlight(id)
    BY <1>2, InFlightStep
  <2>2. dropped \subseteq dropped'
    BY SocketsOnlyClose
  <2>3. Versions'
    BY <2>1, <2>2 DEF Versions
  <2>4. CurrentVersion'
    <3>1. CASE pc \in {"start", "head"} /\ frame' = frame
      BY <1>0, <2>1, <3>1 DEF CurrentVersion
    <3>2. CASE frame' = frame + 1
      <4>1. \A id \in Players : \A p \in InFlight(id)' : p.frame <= frame' /\ p.frame # frame'
        BY <1>0, <2>1, <3>2 DEF CurrentVersion
      <4>2. QED BY <4>1 DEF CurrentVersion
    <3>3. CASE /\ frame' = frame /\ pc \notin {"start", "head"} /\ pc' = "send"
               /\ UNCHANGED <<pc, alive, dropped, unsent>>
      BY <2>1, <3>3 DEF CurrentVersion
    <3>4. CASE /\ frame' = frame /\ pc \notin {"start", "head"} /\ pc' # "send"
               /\ pc' \in {"start", "head", "done"} => pc' = pc
      BY <2>1, <3>4 DEF CurrentVersion
    <3>5. QED
      <4>1. CASE Server
        BY <1>2, <3>1, <3>2, <3>3, <3>4, <4>1 DEF Server, RunStart, FrameStart, Killed, SendsDone, Select,
             RecvOne, AllAnswered, TimeUp, AnotherPass, RecvsDone, MovePlayers
      <4>2. CASE Stop \/ Clients \/ UNCHANGED vars
        <5>1. UNCHANGED <<frame, pc, alive, dropped, unsent>>
          BY <4>2 DEF vars, Stop, Clients, ClientRecv, ClientSend, ClientSendHalf, ClientClose
        <5>2. QED BY <2>1, <5>1 DEF CurrentVersion
      <4>3. QED BY <4>1, <4>2 DEF Next
  <2>5. QED BY <2>3, <2>4
<1>3. QED BY <1>1, <1>2
-----------------------------------------------------------------------------
(* The theorems.                                                           *)

(* The loop starts with the invariant. *)
LEMMA InitInv == Init => IInv
<1> SUFFICES ASSUME Init PROVE IInv
  OBVIOUS
<1> USE FrameLoopAssumption DEF FrameLoopAssumption, Init, NoMove
<1>1. Typed
  <2>1. /\ pc \in {"start", "head", "send", "select", "recv", "move", "done", "killed"}
        /\ running \in BOOLEAN /\ frame \in 0 .. MaxFrame
        /\ sock \subseteq Players /\ alive \subseteq Players
        /\ unsent \subseteq sock /\ toRecv \subseteq sock /\ ready \subseteq toRecv
    <3>1. pc \in {"start", "head", "send", "select", "recv", "move", "done", "killed"}
      BY Zenon
    <3>2. running \in BOOLEAN /\ sock \subseteq Players /\ alive \subseteq Players
      BY Zenon
    <3>3. unsent \subseteq sock /\ toRecv \subseteq sock /\ ready \subseteq toRecv
      BY Zenon
    <3>4. frame \in 0 .. MaxFrame
      OBVIOUS
    <3>5. QED BY <3>1, <3>2, <3>3, <3>4
  <2>2. /\ directions \in [Players -> -1 .. MaxFrame]
        /\ answering \in [Players -> -1 .. MaxFrame]
        /\ taken \in [Players -> Nat] /\ missed \in [Players -> Nat]
    OBVIOUS
  <2>3. client \in [Players -> {"waiting", "thinking", "half", "closed"}]
    OBVIOUS
  <2>4. TypeOK
    BY <2>1, <2>2, <2>3 DEF TypeOK
  <2>5. /\ states \in [Players -> Seq(Packet)] /\ moves \in [Players -> Seq(0 .. MaxFrame)]
        /\ \A id \in Players : ~Deciding(id)
    BY DEF Deciding
  <2>6. QED BY <2>4, <2>5 DEF Typed
<1>2. Phases
  BY DEF Phases
<1>3. DroppedClientsLeave
  BY DEF DroppedClientsLeave
<1>4. RoundTrip
  BY DEF RoundTrip, RoundTripOf, Seen, Shown, Deciding
<1>5. Accounts
  BY DEF Accounts, AccountOf, Answered
<1>6. \A id \in Players : InFlight(id) = {}
  BY DEF InFlight
<1>7. CurrentVersion /\ Versions
  BY <1>6 DEF CurrentVersion, Versions
<1>8. QED BY <1>1, <1>2, <1>3, <1>4, <1>5, <1>7 DEF IInv

(* The invariant holds in every reachable state of the loop.               *)
THEOREM FrameLoopInductive == Spec => []IInv
<1>1. Init => IInv
  BY InitInv
<1>2. IInv /\ [Next]_vars => IInv'
  BY TypedStep, PhasesStep, DroppedStep, RoundTripStep, AccountsStep, VersionsStep DEF IInv
<1>3. QED BY <1>1, <1>2, PTL DEF Spec

(* The variables of server_run and of the clients keep their types.        *)
THEOREM FrameLoopTypeCorrect == Spec => []TypeOK
<1>1. IInv => TypeOK
  BY DEF IInv, Typed
<1>2. QED BY <1>1, FrameLoopInductive, PTL

(* A client whose socket server_run closed (a send or a receive failed)    *)
(* has no player left and is never waited for again.                       *)
THEOREM DroppedClientsStayOut == Spec => []DroppedClientsLeave
<1>1. IInv => DroppedClientsLeave
  BY DEF IInv
<1>2. QED BY <1>1, FrameLoopInductive, PTL

(* When the players move, the direction used for a client answers the      *)
(* frame as many frames back as the client has missed deadlines.           *)
THEOREM LagIsExact == Spec => []LagIsMissedDeadlines
<1>1. IInv => LagIsMissedDeadlines
  <2> SUFFICES ASSUME IInv, pc = "move", NEW id \in sock \ toRecv
               PROVE  directions[id] = frame - missed[id]
    BY DEF LagIsMissedDeadlines
  <2>1. /\ Answered(id) /\ AccountOf(id)
        /\ taken[id] \in Nat /\ missed[id] \in Nat /\ frame \in Nat
    BY FrameLoopAssumption DEF IInv, Phases, Answered, Accounts, Typed, TypeOK, FrameLoopAssumption
  <2>2. QED BY <2>1 DEF AccountOf
<1>2. QED BY <1>1, FrameLoopInductive, PTL

(* Two packets of one frame differ only by the players of clients dropped  *)
(* while the states were sent, whatever the ids and their number.          *)
THEOREM VersionsAgree == Spec => []VersionsDifferByDropped
<1>1. IInv => VersionsDifferByDropped
  BY DEF IInv, Versions, InFlight, VersionsDifferByDropped
<1>2. QED BY <1>1, FrameLoopInductive, PTL

(* Two runs of consecutive numbers, the second starting where the first    *)
(* ends, are one.                                                          *)
LEMMA ConsecutiveConcat ==
  ASSUME NEW s \in Seq(Nat), NEW t \in Seq(Nat), NEW n \in Nat,
         \A i \in 1 .. Len(s) : s[i] = n + i - 1,
         \A i \in 1 .. Len(t) : t[i] = n + Len(s) + i - 1
  PROVE  /\ s \o t \in Seq(Nat) /\ Len(s \o t) = Len(s) + Len(t)
         /\ \A i \in 1 .. Len(s \o t) : (s \o t)[i] = n + i - 1
<1>1. Len(s) \in Nat /\ Len(t) \in Nat
  OBVIOUS
<1>2. /\ s \o t \in Seq(Nat) /\ Len(s \o t) = Len(s) + Len(t)
      /\ \A i \in 1 .. Len(s) + Len(t) :
           (s \o t)[i] = IF i <= Len(s) THEN s[i] ELSE t[i - Len(s)]
  BY ConcatProperties
<1>3. ASSUME NEW i \in 1 .. Len(s) + Len(t)
      PROVE  (s \o t)[i] = n + i - 1
  <2>1. CASE i <= Len(s)
    BY <1>1, <1>2, <2>1
  <2>2. CASE ~(i <= Len(s))
    <3>1. i - Len(s) \in 1 .. Len(t)
      BY <1>1, <2>2
    <3>2. t[i - Len(s)] = n + Len(s) + (i - Len(s)) - 1
      BY <3>1
    <3>3. QED BY <1>1, <1>2, <2>2, <3>2
  <2>3. QED BY <2>1, <2>2
<1>4. QED BY <1>2, <1>3

(* Between attempt_send_to_clients and recv_move_direction no frame is     *)
(* lost, doubled or reordered: the moves taken answered the first frames   *)
(* and what is under way follows without a gap.                            *)
THEOREM RoundTripIsFIFO == Spec => []PipelineConsecutive
<1>1. ASSUME IInv, NEW id \in sock
      PROVE  /\ \A i \in DOMAIN Pipeline(id) : Pipeline(id)[i] = taken[id] + i - 1
             /\ client[id] # "closed" =>
                  Len(Pipeline(id)) + taken[id] =
                    frame + IF pc \in {"start", "head", "done"} \/ id \in unsent THEN 0 ELSE 1
  <2> DEFINE m == moves[id]
             d == IF Deciding(id) THEN <<answering[id]>> ELSE <<>>
             f == [i \in DOMAIN states[id] |-> states[id][i].frame]
  <2>1. id \in Players /\ RoundTripOf(id) /\ taken[id] \in Nat /\ frame \in Nat
    BY <1>1, FrameLoopAssumption DEF IInv, Typed, TypeOK, RoundTrip, FrameLoopAssumption
  <2>2. m \in Seq(Nat) /\ \A i \in 1 .. Len(m) : m[i] = taken[id] + i - 1
    <3>1. m \in Seq(0 .. MaxFrame)
      BY <1>1, <2>1 DEF IInv, Typed
    <3>2. 0 .. MaxFrame \subseteq Nat
      BY FrameLoopAssumption DEF FrameLoopAssumption
    <3>3. m \in Seq(Nat)
      BY <3>1, <3>2, SeqMonotonic
    <3>4. QED BY <2>1, <3>3 DEF RoundTripOf
  <2>3. /\ d \in Seq(Nat) /\ Len(d) = (IF Deciding(id) THEN 1 ELSE 0)
        /\ \A i \in 1 .. Len(d) : d[i] = taken[id] + Len(m) + i - 1
    <3>1. CASE Deciding(id)
      <4>1. answering[id] = taken[id] + Len(m) /\ answering[id] \in Nat
        BY <2>1, <2>2, <3>1 DEF RoundTripOf
      <4>2. d = <<answering[id]>>
        BY <3>1
      <4> HIDE DEF m, d
      <4>3. Len(d) = 1 /\ d[1] = answering[id] /\ d \in Seq(Nat)
        BY <4>1, <4>2
      <4>4. QED BY <2>2, <3>1, <4>1, <4>3
    <3>2. CASE ~Deciding(id)
      BY <3>2
    <3>3. QED BY <3>1, <3>2
  <2>4. /\ f \in Seq(Nat) /\ Len(f) = Len(states[id])
        /\ \A i \in 1 .. Len(f) : f[i] = taken[id] + Len(m) + Len(d) + i - 1
    <3>7. states[id] \in Seq(Packet)
      BY <1>1, <2>1 DEF IInv, Typed
    <3>1. states[id] \in Seq(Packet) /\ \A p \in Packet : p.frame \in Nat
      BY <3>7, FrameLoopAssumption DEF Packet, FrameLoopAssumption
    <3>2. /\ DOMAIN states[id] = 1 .. Len(states[id]) /\ Len(states[id]) \in Nat
          /\ \A i \in 1 .. Len(states[id]) : states[id][i].frame \in Nat
      BY <3>1
    <3>3. f \in Seq(Nat) /\ Len(f) = Len(states[id])
      BY <3>2
    <3>4. \A i \in 1 .. Len(f) : f[i] = states[id][i].frame
      BY <3>2, <3>3
    <3>5. Seen(id) = taken[id] + Len(m) + Len(d)
      BY <2>3 DEF Seen
    <3>6. QED BY <2>1, <3>3, <3>4, <3>5 DEF RoundTripOf
  <2>5. Pipeline(id) = m \o d \o f
    BY DEF Pipeline, Deciding
  <2>6. client[id] # "closed" => taken[id] + Len(m) + Len(d) + Len(f) = Shown(id)
    BY <2>1, <2>3, <2>4 DEF RoundTripOf, Seen
  <2> HIDE DEF m, d, f
  <2>7. /\ m \o d \in Seq(Nat) /\ Len(m \o d) = Len(m) + Len(d)
        /\ \A i \in 1 .. Len(m \o d) : (m \o d)[i] = taken[id] + i - 1
    BY <2>1, <2>2, <2>3, ConsecutiveConcat
  <2>8. \A i \in 1 .. Len(f) : f[i] = taken[id] + Len(m \o d) + i - 1
    <3>1. taken[id] + Len(m \o d) = taken[id] + Len(m) + Len(d)
      <4>1. Len(m) \in Nat /\ Len(d) \in Nat
        BY <2>2, <2>3
      <4>2. QED BY <2>1, <2>7, <4>1
    <3>2. QED BY <2>4, <3>1
  <2>9. /\ (m \o d) \o f \in Seq(Nat) /\ Len((m \o d) \o f) = Len(m \o d) + Len(f)
        /\ \A i \in 1 .. Len((m \o d) \o f) : ((m \o d) \o f)[i] = taken[id] + i - 1
    BY <2>1, <2>4, <2>7, <2>8, ConsecutiveConcat
  <2>10. /\ DOMAIN Pipeline(id) = 1 .. Len(Pipeline(id))
         /\ Len(Pipeline(id)) = Len(m) + Len(d) + Len(f)
         /\ \A i \in 1 .. Len(Pipeline(id)) : Pipeline(id)[i] = taken[id] + i - 1
    BY <2>5, <2>7, <2>9
  <2>11. client[id] # "closed" => Len(Pipeline(id)) + taken[id] = Shown(id)
    <3>1. Len(m) \in Nat /\ Len(d) \in Nat /\ Len(f) \in Nat
      BY <2>2, <2>3, <2>4
    <3>2. QED BY <2>1, <2>6, <2>10, <3>1
  <2>12. Shown(id) = frame + IF pc \in {"start", "head", "done"} \/ id \in unsent THEN 0 ELSE 1
    BY <2>1 DEF Shown
  <2>13. QED BY <2>10, <2>11, <2>12
<1>2. IInv => PipelineConsecutive
  BY <1>1 DEF PipelineConsecutive
<1>3. QED BY <1>2, FrameLoopInductive, PTL
=============================================================================
