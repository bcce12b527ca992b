--------------------------- MODULE SessionProofs ---------------------------
(***************************************************************************)
(* Proofs about Session: wherever the sends are cut and whatever fails,    *)
(* the server reads the name and the moves that were sent, and the client  *)
(* its colour and the states.  A client that cycles_connect returns to is  *)
(* in the table, the moves up and the states down are channels, and no     *)
(* packet is refused but one that is longer than the client takes.         *)
(***************************************************************************)
EXTENDS Session, TLAPS, SequenceTheorems, WellFoundedInduction, FiniteSetTheorems

-----------------------------------------------------------------------------
(* The inductive invariant.                                                *)

(* What the server has let into the game, and has not let go of.           *)
Joined == srv \in {"colour", "frame", "send", "recv", "move", "over"}

(* A send call: the player it is for, or 0, and its bytes.                 *)
Sending == [of : Nat, bytes : Seq(Byte)]

(* TypeOK with what it leaves to the other invariants.                     *)
Typed ==
  /\ cl \in {"start", "sendName", "recvColour", "recvState", "decide", "sendMove",
             "leaving", "malformed", "ended"}
  /\ fd \in {"none", "socket", "stdout"} /\ ret \in {Pending, 0, -1}
  /\ colour \in [1 .. 3 -> Byte]
  /\ srv \in {"listening", "name", "colour", "frame", "send", "recv", "move",
              "over", "closed"}
  /\ frame \in 0 .. MaxFrame /\ failed \in BOOLEAN
  /\ srv \in {"send", "recv", "move"} => frame < MaxFrame
  /\ clOut \in Seq(Byte) /\ up \in Seq(Byte) /\ down \in Seq(Byte)
  /\ player \in Seq(Letter)
  /\ sends \in Seq(Sending)
  /\ sends # <<>> <=> srv \in {"colour", "send"}
  /\ asked \in Seq(Moves) /\ taken \in Seq(0 .. 3)

(* Where the two ends can be together.                                     *)
Phases ==
  /\ cl = "start" <=> fd = "none"
  /\ srv = "listening" <=> fd # "socket"
  /\ srv = "listening" => up = <<>>
  /\ fd = "stdout" => cl \in {"sendName", "ended"}
  /\ clOut # <<>> <=> cl \in {"sendName", "sendMove"} /\ fd = "socket"
  /\ cl \in {"start", "sendName", "recvColour"} => ret = Pending
  /\ cl \in {"start", "sendName"} => down = <<>>
  /\ srv \in {"listening", "name"} =>
       /\ cl \in {"start", "sendName", "recvColour", "ended"} /\ ret # 0
       /\ asked = <<>> /\ taken = <<>> /\ down = <<>>
  /\ Joined => cl \notin {"start", "sendName"}

(* The bytes on their way to the server: in the connection, and in the     *)
(* client's send_all.                                                      *)
Stream == up \o clOut

(* The name, all of it unless the client is gone. *)
NameUnderWay ==
  srv = "name" =>
    /\ Len(Stream) <= Len(NamePacket(Name))
    /\ \A j \in 1 .. Len(Stream) : Stream[j] = NamePacket(Name)[j]
    /\ ~ClientGone => Len(Stream) = Len(NamePacket(Name))

(* The j-th byte of the moves the server has not taken. *)
MoveByte(j) == MovePacket(asked[Len(taken) + 1 + ((j - 1) \div 8)])[1 + ((j - 1) % 8)]

(* The moves, every one whole unless the client is gone.                   *)
MovesUnderWay ==
  Joined =>
    /\ Len(taken) <= Len(asked)
    /\ Len(Stream) <= 8 * (Len(asked) - Len(taken))
    /\ \A j \in 1 .. Len(Stream) : Stream[j] = MoveByte(j)
    /\ ~ClientGone => Len(Stream) = 8 * (Len(asked) - Len(taken))

(* The colour comes first on the way down, and what it announces is so.    *)
ColourUnderWay ==
  /\ cl = "recvColour" =>
       /\ \A j \in 1 .. 7 : j <= Len(down) => down[j] = ColourPacket(Colour)[j]
       /\ Joined /\ srv # "colour" => 7 <= Len(down)
  /\ srv = "colour" =>
       /\ cl \in {"recvColour", "ended"}
       /\ Len(sends) = 1 /\ sends[1].of = 0 /\ sends[1].bytes # <<>>
       /\ cl = "recvColour" => down \o sends[1].bytes = ColourPacket(Colour)

(* Whose name is in the table, and who has the colour of the connection.   *)
InTable ==
  /\ Joined \/ down # <<>> => player = PlayerName(Name)
  /\ ret = 0 => player = PlayerName(Name) /\ fd = "socket" /\ colour = Colour

(* The inductive invariant.                                                *)
IInv ==
  Typed /\ Phases /\ NameUnderWay /\ MovesUnderWay /\ ColourUnderWay /\ InTable

-----------------------------------------------------------------------------
(* The four bytes of a number are its digits to the base 256.              *)
LEMMA FourBytes ==
  ASSUME NEW n \in Int
  PROVE  /\ Bytes32(n) \in Seq(Byte) /\ Len(Bytes32(n)) = 4
         /\ DOMAIN Bytes32(n) = 1 .. 4
         /\ Bytes32(n)[1] = (n \div 16777216) % 256
         /\ Bytes32(n)[2] = (n \div 65536) % 256
         /\ Bytes32(n)[3] = (n \div 256) % 256
         /\ Bytes32(n)[4] = n % 256
<1>1. 256 ^ 3 = 16777216 /\ 256 ^ 2 = 65536 /\ 256 ^ 1 = 256 /\ 256 ^ 0 = 1
  BY SMT
<1>2. Len(Bytes32(n)) = 4 /\ DOMAIN Bytes32(n) = 1 .. 4
  BY SMT DEF Bytes32
<1>3. /\ Bytes32(n)[1] = (n \div 256 ^ 3) % 256
      /\ Bytes32(n)[2] = (n \div 256 ^ 2) % 256
      /\ Bytes32(n)[3] = (n \div 256 ^ 1) % 256
      /\ Bytes32(n)[4] = (n \div 256 ^ 0) % 256
  BY SMT DEF Bytes32
<1>4. /\ Bytes32(n)[1] = (n \div 16777216) % 256
      /\ Bytes32(n)[2] = (n \div 65536) % 256
      /\ Bytes32(n)[3] = (n \div 256) % 256
      /\ Bytes32(n)[4] = n % 256
  BY <1>1, <1>3, SMT
<1>5. Bytes32(n) \in Seq(Byte)
  <2>1. /\ Bytes32(n)[1] \in Byte /\ Bytes32(n)[2] \in Byte
        /\ Bytes32(n)[3] \in Byte /\ Bytes32(n)[4] \in Byte
    BY <1>4, SMT DEF Byte
  <2>2. QED BY <1>2, <2>1, SMT DEF Bytes32
<1>6. QED BY <1>2, <1>4, <1>5, SMT

(* The arithmetic, apart from the sequences. *)
LEMMA DigitsOfInt ==
  ASSUME NEW n \in Int, -2147483647 - 1 <= n, n <= 2147483647,
         NEW a, NEW b, NEW c, NEW d,
         a = (n \div 16777216) % 256, b = (n \div 65536) % 256,
         c = (n \div 256) % 256, d = n % 256
  PROVE  /\ d + 256 * c + 65536 * b + 16777216 * (IF a < 128 THEN a ELSE a - 256) = n
         /\ a < 128 <=> 0 <= n
<1>1. n = 256 * (n \div 256) + (n % 256)
  BY SMT
<1>2. n \div 256 = 256 * (n \div 65536) + ((n \div 256) % 256)
  BY SMT
<1>3. n \div 65536 = 256 * (n \div 16777216) + ((n \div 65536) % 256)
  BY SMT
<1>4. n \div 16777216 \in Int /\ -128 <= n \div 16777216 /\ n \div 16777216 < 128
  BY SMT
<1>5. (IF a < 128 THEN a ELSE a - 256) = n \div 16777216
  BY <1>4, SMT
<1>6. 0 <= n <=> 0 <= n \div 16777216
  BY SMT
<1>7. QED BY <1>1, <1>2, <1>3, <1>4, <1>5, <1>6, SMT

(* What an int32_t is written as, it is read from.                         *)
LEMMA IntReadBack ==
  ASSUME NEW n \in Int, -2147483647 - 1 <= n, n <= 2147483647
  PROVE  Int32(Bytes32(n)) = n /\ (Bytes32(n)[1] < 128 <=> 0 <= n)
<1>1. 256 ^ 3 = 16777216 /\ 256 ^ 2 = 65536
  BY SMT
<1> DEFINE a == Bytes32(n)[1]
           b == Bytes32(n)[2]
           c == Bytes32(n)[3]
           d == Bytes32(n)[4]
<1>2. /\ a = (n \div 16777216) % 256 /\ b = (n \div 65536) % 256
      /\ c = (n \div 256) % 256 /\ d = n % 256
  BY FourBytes, SMT
<1>3. Int32(Bytes32(n)) = d + 256 * c + (256 ^ 2) * b + (256 ^ 3) * (IF a < 128 THEN a ELSE a - 256)
  BY SMT DEF Int32
<1> HIDE DEF a, b, c, d
<1>4. Int32(Bytes32(n)) = d + 256 * c + 65536 * b + 16777216 * (IF a < 128 THEN a ELSE a - 256)
  BY <1>1, <1>3, SMT
<1>5. /\ d + 256 * c + 65536 * b + 16777216 * (IF a < 128 THEN a ELSE a - 256) = n
      /\ a < 128 <=> 0 <= n
  BY <1>2, DigitsOfInt, SMT
<1>6. QED BY <1>4, <1>5, SMT DEF a

(* So is a length.                                                         *)
LEMMA LengthReadBack ==
  ASSUME NEW n \in Nat, n <= 2147483647
  PROVE  Length(Bytes32(n)) = n
BY IntReadBack, SMT DEF Length

(* A set of natural numbers has a least element.                           *)
LEMMA LeastOfNats ==
  ASSUME NEW T, T \subseteq Nat, T # {}
  PROVE  \E m \in T : \A k \in T : m <= k
<1> PICK n \in T : TRUE
  OBVIOUS
<1> DEFINE S == T \cap 0 .. n
           below(x) == {y \in S : y < x}
           D == {below(x) : x \in S}
<1>1. n \in Nat /\ n \in S /\ IsFiniteSet(S) /\ \A x \in S : x \in Nat
  <2>1. n \in Nat /\ n \in S /\ \A x \in S : x \in Nat
    OBVIOUS
  <2>2. IsFiniteSet(0 .. n)
    BY <2>1, FS_Interval
  <2>3. QED BY <2>1, <2>2, FS_Subset
<1>2. \A k \in T : k \in S \/ n < k
  OBVIOUS
<1> HIDE DEF S
<1>3. PICK t \in D : \A u \in D : ~(<<u, t>> \in StrictSubsetOrdering(S))
  <2>1. IsWellFoundedOn(StrictSubsetOrdering(S), SUBSET S)
    BY <1>1, FS_StrictSubsetOrderingWellFounded, FS_FiniteSubsetsOfFinite
  <2>2. D \subseteq SUBSET S /\ D # {}
    BY <1>1
  <2> HIDE DEF D
  <2>3. QED BY <2>1, <2>2, WFMin
<1>4. PICK x \in S : t = below(x)
  OBVIOUS
<1>5. ASSUME NEW y \in S, y < x
      PROVE  FALSE
  <2>1. below(y) \subseteq below(x)
    <3>1. \A z \in S : z < y => z < x
      BY <1>1, <1>5
    <3>2. QED BY <3>1
  <2>2. y \in below(x) /\ y \notin below(y)
    BY <1>1, <1>5
  <2>3. <<below(y), below(x)>> \in StrictSubsetOrdering(S)
    BY <2>1, <2>2 DEF StrictSubsetOrdering
  <2>4. QED BY <1>3, <1>4, <2>3
<1>6. \A y \in S : x <= y
  BY <1>1, <1>5
<1>7. x \in T /\ x <= n
  BY <1>1, <1>6 DEF S
<1> HIDE DEF D, below
<1>8. \A k \in T : x <= k
  <2>1. ASSUME NEW k \in T PROVE x <= k
    BY <1>1, <1>2, <1>6, <1>7
  <2>2. QED BY <2>1
<1>9. QED BY <1>7, <1>8

(* f holds what a loop that begins with base and goes from v to step[i][v] *)
(* in its i-th turn has after each of its first n turns.                   *)
Runs(f, n, base, step) ==
  \A i \in 0 .. n : f[i] = IF i = 0 THEN base ELSE step[i][f[i - 1]]

(* The loop that starts at base and takes n steps has a run.               *)
LEMMA LoopRuns ==
  ASSUME NEW n \in Nat, NEW base \in Nat, NEW step \in [Nat -> [Nat -> Nat]]
  PROVE  \E f \in [0 .. n -> Nat] : Runs(f, n, base, step)
<1> DEFINE CanRun(k) == \E f \in [0 .. k -> Nat] : Runs(f, k, base, step)
           T == {k \in Nat : ~CanRun(k)}
<1> SUFFICES ASSUME ~CanRun(n) PROVE FALSE
  OBVIOUS
<1> HIDE DEF CanRun
<1>1. T \subseteq Nat /\ n \in T
  OBVIOUS
<1>2. PICK m \in T : \A k \in T : m <= k
  <2> HIDE DEF T
  <2>1. QED BY <1>1, LeastOfNats
<1>3. CanRun(0)
  <2>1. [i \in 0 .. 0 |-> base] \in [0 .. 0 -> Nat]
        /\ Runs([i \in 0 .. 0 |-> base], 0, base, step)
    BY DEF Runs
  <2>2. QED BY <2>1 DEF CanRun
<1>4. m \in Nat /\ m # 0 /\ ~CanRun(m)
  BY <1>3
<1>5. m - 1 \in Nat /\ CanRun(m - 1)
  <2>1. m - 1 \in Nat /\ ~(m <= m - 1)
    BY <1>4
  <2>2. m - 1 \notin T
    BY <1>2, <2>1
  <2>3. QED BY <2>1, <2>2
<1>6. PICK f \in [0 .. m - 1 -> Nat] : Runs(f, m - 1, base, step)
  BY <1>5 DEF CanRun
<1> DEFINE g == [i \in 0 .. m |-> IF i = m THEN step[m][f[m - 1]] ELSE f[i]]
<1>7. f[m - 1] \in Nat /\ step[m][f[m - 1]] \in Nat
  <2>1. m - 1 \in 0 .. m - 1
    BY <1>5
  <2>2. f[m - 1] \in Nat
    BY <2>1
  <2>3. step[m] \in [Nat -> Nat]
    BY <1>4
  <2>4. QED BY <2>2, <2>3
<1>8. g \in [0 .. m -> Nat]
  <2>1. ASSUME NEW i \in 0 .. m, i # m PROVE f[i] \in Nat
    <3>1. i \in 0 .. m - 1
      BY <1>4, <2>1
    <3>2. QED BY <3>1
  <2>2. QED BY <1>7, <2>1
<1>9. /\ g[m] = step[m][f[m - 1]]
      /\ \A i \in 0 .. m - 1 : g[i] = f[i]
  BY <1>4
<1> HIDE DEF g
<1>10. Runs(g, m, base, step)
  <2>1. ASSUME NEW i \in 0 .. m PROVE g[i] = IF i = 0 THEN base ELSE step[i][g[i - 1]]
    <3>1. CASE i = m
      <4>1. m - 1 \in 0 .. m - 1
        BY <1>5
      <4>2. QED BY <1>4, <1>9, <3>1, <4>1
    <3>2. CASE i # m
      <4>1. i \in 0 .. m - 1 /\ (i # 0 => i - 1 \in 0 .. m - 1)
        BY <1>4, <3>2
      <4>2. f[i] = IF i = 0 THEN base ELSE step[i][f[i - 1]]
        BY <1>6, <4>1 DEF Runs
      <4>3. g[i] = f[i] /\ (i # 0 => g[i - 1] = f[i - 1])
        BY <1>9, <4>1
      <4>4. QED BY <4>2, <4>3
    <3>3. QED BY <3>1, <3>2
  <2>2. QED BY <2>1 DEF Runs
<1>11. QED BY <1>4, <1>8, <1>10 DEF CanRun

(* So there are the running totals of a sequence of lengths.               *)
LEMMA TotalExists ==
  ASSUME NEW n \in Nat, NEW len \in [1 .. n -> Nat]
  PROVE  \E f : /\ f \in [0 .. n -> Nat] /\ f[0] = 0
                /\ \A i \in 1 .. n : f[i] = f[i - 1] + len[i]
<1> DEFINE add(i) == [v \in Nat |-> IF i \in 1 .. n THEN v + len[i] ELSE 0]
           step == [i \in Nat |-> add(i)]
<1>1. ASSUME NEW i \in Nat PROVE add(i) \in [Nat -> Nat]
  <2>1. i \in 1 .. n => len[i] \in Nat
    OBVIOUS
  <2>2. QED BY <2>1
<1>2. ASSUME NEW i \in 1 .. n, NEW v \in Nat PROVE add(i)[v] = v + len[i]
  OBVIOUS
<1> HIDE DEF add
<1>3. step \in [Nat -> [Nat -> Nat]]
  BY <1>1
<1>4. ASSUME NEW i \in Nat PROVE step[i] = add(i)
  OBVIOUS
<1> HIDE DEF step
<1>5. PICK f \in [0 .. n -> Nat] : Runs(f, n, 0, step)
  BY <1>3, LoopRuns
<1>6. f[0] = 0
  BY <1>5 DEF Runs
<1>7. ASSUME NEW i \in 1 .. n PROVE f[i] = f[i - 1] + len[i]
  <2>1. i \in Nat /\ i \in 0 .. n /\ i # 0 /\ i - 1 \in 0 .. n
    OBVIOUS
  <2>2. f[i - 1] \in Nat
    BY <2>1
  <2>3. f[i] = step[i][f[i - 1]]
    BY <1>5, <2>1 DEF Runs
  <2>4. QED BY <1>2, <1>4, <2>1, <2>2, <2>3
<1>8. QED BY <1>6, <1>7

(* g begins as f does, and steps from where f is to where f goes.          *)
StepLike(g, f, n) ==
  g[0] = f[0] /\ \A i \in 1 .. n : g[i - 1] = f[i - 1] => g[i] = f[i]

(* Two functions that agree up to n.                                       *)
Alike(g, f, n) == \A i \in 0 .. n : g[i] = f[i]

(* What steps like the loop holds what the loop holds.                     *)
LEMMA LoopIsUnique == \A n \in Nat : \A f, g : StepLike(g, f, n) => Alike(g, f, n)
<1> SUFFICES ASSUME NEW n \in Nat, NEW f, NEW g,
                    g[0] = f[0], \A i \in 1 .. n : g[i - 1] = f[i - 1] => g[i] = f[i]
             PROVE  \A i \in 0 .. n : g[i] = f[i]
  BY DEF StepLike, Alike
<1> DEFINE T == {i \in 0 .. n : g[i] # f[i]}
<1> SUFFICES ASSUME T # {} PROVE FALSE
  OBVIOUS
<1>1. T \subseteq Nat
  OBVIOUS
<1>2. PICK m \in T : \A k \in T : m <= k
  <2> HIDE DEF T
  <2>1. QED BY <1>1, LeastOfNats
<1>3. m \in 1 .. n /\ m - 1 \in 0 .. n /\ ~(m <= m - 1)
  OBVIOUS
<1>4. g[m - 1] = f[m - 1]
  BY <1>2, <1>3
<1>5. QED BY <1>3, <1>4

(* An int32_t is a number within its bounds.                               *)
LEMMA WordFacts ==
  ASSUME NEW n \in Word
  PROVE  n \in Int /\ -2147483647 - 1 <= n /\ n <= 2147483647
BY SMT DEF Word

(* So it is an integer.                                                    *)
LEMMA WordsAreInts == Word \subseteq Int
BY WordFacts, SMT

(* The blocks of the players of a snapshot are behind each other.          *)
LEMMA BlockSizesFacts ==
  ASSUME NEW s, s.players \in Seq(PlayerBlock)
  PROVE  /\ BlockSizes(s)[0] = 0
         /\ \A i \in 0 .. Len(s.players) : BlockSizes(s)[i] \in Nat
         /\ \A i \in 1 .. Len(s.players) :
              /\ Len(s.players[i].name) \in Nat
              /\ BlockSizes(s)[i] = BlockSizes(s)[i - 1] + (16 + Len(s.players[i].name))
<1> DEFINE n == Len(s.players)
           name(i) == Len(s.players[i].name)
           len == [i \in 1 .. n |-> 16 + name(i)]
           body(f) == [i \in 0 .. n |->
                         IF i = 0 THEN 0 ELSE f[i - 1] + 4 * 2 + 3 + 4 + name(i) + 1]
           blocks == CHOOSE f : f = body(f)
<1>1. ASSUME NEW i \in 1 .. n PROVE name(i) \in Nat
  <2>1. s.players[i] \in PlayerBlock
    OBVIOUS
  <2>2. s.players[i].name \in Seq(Letter)
    BY <2>1 DEF PlayerBlock
  <2>3. QED BY <2>2
<1>2. n \in Nat
  OBVIOUS
<1>3. BlockSizes(s) = blocks
  BY DEF BlockSizes
<1> HIDE DEF n, name
<1>4. len \in [1 .. n -> Nat] /\ \A i \in 1 .. n : len[i] = 16 + name(i)
  BY <1>1
<1> HIDE DEF len
<1>5. PICK f : /\ f \in [0 .. n -> Nat] /\ f[0] = 0
               /\ \A i \in 1 .. n : f[i] = f[i - 1] + len[i]
  BY <1>2, <1>4, TotalExists
<1>6. ASSUME NEW i \in 0 .. n
      PROVE  f[i] = IF i = 0 THEN 0 ELSE f[i - 1] + 4 * 2 + 3 + 4 + name(i) + 1
  <2>1. CASE i = 0
    BY <1>5, <2>1
  <2>2. CASE i # 0
    <3>1. i \in 1 .. n /\ i - 1 \in 0 .. n
      BY <1>2, <2>2
    <3>2. f[i - 1] \in Nat
      BY <1>5, <3>1
    <3>3. name(i) \in Nat /\ f[i] = f[i - 1] + (16 + name(i))
      BY <1>1, <1>4, <1>5, <3>1
    <3>4. \A v, k \in Nat : v + 4 * 2 + 3 + 4 + k + 1 = v + (16 + k)
      OBVIOUS
    <3>5. f[i] = f[i - 1] + 4 * 2 + 3 + 4 + name(i) + 1
      BY <3>2, <3>3, <3>4
    <3>6. QED BY <2>2, <3>5
  <2>3. QED BY <2>1, <2>2
<1>7. f = body(f)
  BY <1>5, <1>6
<1>8. blocks = body(blocks)
  <2> HIDE DEF body
  <2>1. QED BY <1>7
<1> HIDE DEF blocks
<1>9. ASSUME NEW i \in 0 .. n
      PROVE  blocks[i] = IF i = 0 THEN 0 ELSE blocks[i - 1] + 4 * 2 + 3 + 4 + name(i) + 1
  BY <1>8
<1>10. blocks[0] = 0
  BY <1>2, <1>9
<1>11. \A i \in 0 .. n : blocks[i] = f[i]
  <2>1. ASSUME NEW i \in 1 .. n, blocks[i - 1] = f[i - 1] PROVE blocks[i] = f[i]
    <3>1. i \in 0 .. n /\ i # 0
      BY <1>2
    <3>2. QED BY <1>6, <1>9, <2>1, <3>1
  <2>2. StepLike(blocks, f, n)
    BY <1>5, <1>10, <2>1 DEF StepLike
  <2>3. Alike(blocks, f, n)
    BY <1>2, <2>2, LoopIsUnique, Zenon
  <2>4. QED BY <2>3 DEF Alike
<1>12. ASSUME NEW i \in 1 .. n PROVE blocks[i] = blocks[i - 1] + (16 + name(i))
  <2>1. i \in 0 .. n /\ i - 1 \in 0 .. n
    BY <1>2
  <2>2. QED BY <1>4, <1>5, <1>11, <2>1
<1>13. \A i \in 0 .. n : blocks[i] \in Nat
  BY <1>5, <1>11
<1>14. QED BY <1>1, <1>3, <1>10, <1>12, <1>13 DEF n, name

(* The announced size of a snapshot is a number, whoever plays.            *)
LEMMA PacketSizeIsNat ==
  ASSUME NEW s, s.players \in Seq(PlayerBlock), s.w \in Nat, s.h \in Nat
  PROVE  PacketSize(s) \in Nat
<1> DEFINE area == s.w * s.h
           blocks == BlockSizes(s)[Len(s.players)]
<1>1. blocks \in Nat
  <2>1. Len(s.players) \in 0 .. Len(s.players)
    OBVIOUS
  <2>2. QED BY <2>1, BlockSizesFacts
<1>2. area \in Nat
  <2>1. \A a, b \in Nat : a * b \in Nat
    OBVIOUS
  <2>2. QED BY <2>1
<1>3. PacketSize(s) = 12 + blocks + 4 + area
  BY DEF PacketSize
<1> HIDE DEF area, blocks
<1>4. QED BY <1>1, <1>2, <1>3

(* The snapshots there are.                                                *)
Snapshot ==
  [w : Nat, h : Nat, players : Seq(PlayerBlock), frame : Nat, grid : Seq(Byte)]

(* The bytes of a number are four bytes.                                   *)
LEMMA BytesAreBytes ==
  ASSUME NEW n \in Int
  PROVE  Bytes32(n) \in Seq(Byte) /\ Len(Bytes32(n)) = 4
BY FourBytes, SMT

(* Three bytes are a sequence.                                             *)
LEMMA ColourIsBytes ==
  ASSUME NEW colours \in [1 .. 3 -> Byte]
  PROVE  colours \in Seq(Byte) /\ Len(colours) = 3
<1>1. colours \in Seq(Byte)
  <2>1. [i \in 1 .. 3 |-> colours[i]] \in Seq(Byte)
    BY SMT
  <2>2. QED BY <2>1
<1>2. 1 .. 3 = 1 .. Len(colours) /\ Len(colours) \in Nat
  BY <1>1, LenProperties
<1>3. QED BY <1>1, <1>2

(* The assumption without the bounds of the machine's integers. *)
LEMMA Types ==
  /\ Name \in Seq(Letter) /\ NameLimit \in Nat /\ MaxString \in Nat
  /\ Colour \in [1 .. 3 -> Byte] /\ Moves \subseteq Int
  /\ Worlds \subseteq
       [x : Word, y : Word, others : Seq(PlayerBlock), w : Nat \ {0}, h : Nat \ {0},
        grid : Seq(Byte)]
  /\ \A world \in Worlds : Len(world.grid) = world.w * world.h
  /\ Pieces \subseteq Nat /\ MaxFrame \in Nat
<1>1. MaxString \in Nat
  BY WireAssumption DEF WireAssumption
<1>2. QED BY <1>1, SessionAssumption, SMT

(* Every call for a player of a snapshot sends bytes.                      *)
LEMMA PlayerSendsTyped ==
  ASSUME NEW s \in Snapshot, NEW i \in 1 .. Len(s.players), NEW k \in 1 .. 6
  PROVE  PlayerSends(s, i)[k] \in Sending
<1> DEFINE p == s.players[i]
<1>1. p \in PlayerBlock
  BY DEF Snapshot
<1>2. /\ p.x \in Int /\ p.y \in Int /\ p.colour \in [1 .. 3 -> Byte]
      /\ p.name \in Seq(Letter) /\ p.id \in Byte
  <2>1. p.x \in Word /\ p.y \in Word
    BY <1>1 DEF PlayerBlock
  <2>2. p.x \in Int /\ p.y \in Int
    BY <2>1, WordsAreInts
  <2>3. QED BY <1>1, <2>2 DEF PlayerBlock
<1> DEFINE parts == <<Bytes32(p.x), Bytes32(p.y), p.colour,
                      Bytes32(Len(p.name)), p.name, <<p.id>>>>
<1>3. PlayerSends(s, i)[k] = [of |-> i, bytes |-> parts[k]]
  BY DEF PlayerSends
<1> HIDE DEF p
<1>4. parts[k] \in Seq(Byte)
  <2>1. p.name \in Seq(Byte) /\ Len(p.name) \in Int
    <3>1. Letter \subseteq Byte
      BY SMT DEF Letter, Byte
    <3>2. p.name \in Seq(Letter) /\ Len(p.name) \in Nat
      BY <1>2, LenProperties
    <3>3. p.name \in Seq(Byte)
      BY <3>1, <3>2, SeqMonotonic
    <3>4. QED BY <3>2, <3>3, SMT
  <2>2. <<p.id>> \in Seq(Byte)
    BY <1>2
  <2>3. p.colour \in Seq(Byte)
    BY <1>2, ColourIsBytes
  <2>4. Bytes32(p.x) \in Seq(Byte) /\ Bytes32(p.y) \in Seq(Byte)
        /\ Bytes32(Len(p.name)) \in Seq(Byte)
    BY <1>2, <2>1, BytesAreBytes
  <2>5. /\ parts[1] \in Seq(Byte) /\ parts[2] \in Seq(Byte)
        /\ parts[3] \in Seq(Byte) /\ parts[4] \in Seq(Byte)
        /\ parts[5] \in Seq(Byte) /\ parts[6] \in Seq(Byte)
    BY <2>1, <2>2, <2>3, <2>4
  <2> HIDE DEF parts
  <2>6. k = 1 \/ k = 2 \/ k = 3 \/ k = 4 \/ k = 5 \/ k = 6
    OBVIOUS
  <2>7. QED BY <2>5, <2>6
<1> HIDE DEF parts
<1>5. i \in Nat
  OBVIOUS
<1>6. QED BY <1>3, <1>4, <1>5 DEF Sending

(* A snapshot is sent by calls that send bytes, and by one at least.       *)
LEMMA StateSendsTyped ==
  ASSUME NEW s \in Snapshot
  PROVE  StateSends(s) \in Seq(Sending) /\ StateSends(s) # <<>>
<1> DEFINE plain(bytes) == [of |-> 0, bytes |-> bytes]
           block(k) == PlayerSends(s, 1 + ((k - 1) \div 6))[1 + ((k - 1) % 6)]
           first == <<plain(Bytes32(PacketSize(s))), plain(Bytes32(s.w)), plain(Bytes32(s.h)),
                      plain(Bytes32(Len(s.players)))>>
           blocks == [k \in 1 .. 6 * Len(s.players) |-> block(k)]
           last == <<plain(Bytes32(s.frame)), plain(s.grid)>>
<1>1. StateSends(s) = (first \o blocks) \o last
  BY DEF StateSends
<1>2. /\ s.players \in Seq(PlayerBlock) /\ s.w \in Nat /\ s.h \in Nat /\ s.frame \in Nat
      /\ s.grid \in Seq(Byte) /\ Len(s.players) \in Nat
  BY DEF Snapshot
<1>3. ASSUME NEW bytes \in Seq(Byte) PROVE plain(bytes) \in Sending
  BY DEF Sending
<1> HIDE DEF plain
<1>4. first \in Seq(Sending) /\ Len(first) = 4
  <2>1. PacketSize(s) \in Int
    BY <1>2, PacketSizeIsNat
  <2>2. ASSUME NEW n \in Int PROVE plain(Bytes32(n)) \in Sending
    BY <1>3, BytesAreBytes
  <2>3. /\ plain(Bytes32(PacketSize(s))) \in Sending /\ plain(Bytes32(s.w)) \in Sending
        /\ plain(Bytes32(s.h)) \in Sending /\ plain(Bytes32(Len(s.players))) \in Sending
    <3>1. s.w \in Int /\ s.h \in Int /\ Len(s.players) \in Int
      BY <1>2
    <3>2. QED BY <2>1, <2>2, <3>1
  <2>4. QED BY <2>3
<1>5. last \in Seq(Sending)
  <2>1. plain(Bytes32(s.frame)) \in Sending /\ plain(s.grid) \in Sending
    <3>1. s.frame \in Int
      BY <1>2
    <3>2. Bytes32(s.frame) \in Seq(Byte)
      BY <3>1, BytesAreBytes
    <3>3. QED BY <1>2, <1>3, <3>2
  <2>2. QED BY <2>1
<1>6. blocks \in Seq(Sending)
  <2>1. ASSUME NEW k \in 1 .. 6 * Len(s.players) PROVE block(k) \in Sending
    <3>1. 1 + ((k - 1) \div 6) \in 1 .. Len(s.players) /\ 1 + ((k - 1) % 6) \in 1 .. 6
      BY <1>2
    <3>2. QED BY <3>1, PlayerSendsTyped
  <2> HIDE DEF block
  <2>2. 6 * Len(s.players) \in Nat
    BY <1>2
  <2>3. QED BY <2>1, <2>2
<1> HIDE DEF first, blocks, last
<1>7. first \o blocks \in Seq(Sending) /\ Len(first \o blocks) = Len(first) + Len(blocks)
  BY <1>4, <1>6, ConcatProperties
<1>8. (first \o blocks) \o last \in Seq(Sending)
      /\ Len((first \o blocks) \o last) = Len(first \o blocks) + Len(last)
  BY <1>5, <1>7, ConcatProperties
<1>9. Len(blocks) \in Nat /\ Len(last) \in Nat
  BY <1>5, <1>6, LenProperties
<1>10. Len(StateSends(s)) # 0
  BY <1>1, <1>4, <1>7, <1>8, <1>9
<1>11. QED BY <1>1, <1>8, <1>10, EmptySeq

-----------------------------------------------------------------------------
(* The small packets.                                                      *)

(* The bytes of two streams, one behind the other.                         *)
LEMMA Joint ==
  \A s, t \in Seq(Byte) :
    /\ s \o t \in Seq(Byte) /\ Len(s \o t) = Len(s) + Len(t)
    /\ \A i \in 1 .. Len(s) : (s \o t)[i] = s[i]
    /\ \A i \in 1 .. Len(t) : (s \o t)[Len(s) + i] = t[i]
<1> TAKE s, t \in Seq(Byte)
<1>1. s \o t \in Seq(Byte)
  BY SMT
<1>2. Len(s \o t) = Len(s) + Len(t)
  BY SMT
<1>3. \A i \in 1 .. Len(s) : (s \o t)[i] = s[i]
  BY SMT
<1>4. \A i \in 1 .. Len(t) : (s \o t)[Len(s) + i] = t[i]
  BY SMT
<1>5. QED BY <1>1, <1>2, <1>3, <1>4, Zenon

(* The bytes of the name packet: its length, that of the name, the name.   *)
LEMMA NamePacketFacts ==
  LET packet == NamePacket(Name) IN
  /\ packet \in Seq(Byte) /\ Len(packet) = 8 + Len(Name) /\ Len(Name) \in Nat
  /\ \A i \in 1 .. 4 : packet[i] = Bytes32(4 + Len(Name))[i]
  /\ \A i \in 1 .. 4 : packet[4 + i] = Bytes32(Len(Name))[i]
  /\ \A i \in 1 .. Len(Name) : packet[8 + i] = Name[i]
<1> DEFINE a == Bytes32(4 + Len(Name))
           b == Bytes32(Len(Name))
           ab == a \o b
           packet == ab \o Name
<1>1. Name \in Seq(Byte) /\ Len(Name) \in Nat
  <2>1. Letter \subseteq Byte
    BY DEF Letter, Byte
  <2>2. QED BY <2>1, Types, SeqMonotonic
<1>2. a \in Seq(Byte) /\ Len(a) = 4 /\ b \in Seq(Byte) /\ Len(b) = 4
  <2>1. 4 + Len(Name) \in Int /\ Len(Name) \in Int
    BY <1>1
  <2>2. QED BY <2>1, BytesAreBytes
<1>3. NamePacket(Name) = packet
  BY DEF NamePacket
<1> HIDE DEF a, b
<1>4. /\ ab \in Seq(Byte) /\ Len(ab) = 4 + 4
      /\ \A i \in 1 .. 4 : ab[i] = a[i]
      /\ \A i \in 1 .. 4 : ab[4 + i] = b[i]
  <2>1. /\ ab \in Seq(Byte) /\ Len(ab) = Len(a) + Len(b)
        /\ \A i \in 1 .. Len(a) : ab[i] = a[i]
        /\ \A i \in 1 .. Len(b) : ab[Len(a) + i] = b[i]
    BY <1>2, Joint, Zenon
  <2> HIDE DEF ab
  <2>2. QED BY <1>2, <2>1
<1> HIDE DEF ab
<1>5. Len(ab) = 8
  BY <1>4
<1>6. /\ packet \in Seq(Byte) /\ Len(packet) = 8 + Len(Name)
      /\ \A i \in 1 .. 8 : packet[i] = ab[i]
      /\ \A i \in 1 .. Len(Name) : packet[8 + i] = Name[i]
  <2>1. /\ packet \in Seq(Byte) /\ Len(packet) = Len(ab) + Len(Name)
        /\ \A i \in 1 .. Len(ab) : packet[i] = ab[i]
        /\ \A i \in 1 .. Len(Name) : packet[Len(ab) + i] = Name[i]
    BY <1>1, <1>4, Joint, Zenon
  <2> HIDE DEF packet
  <2>2. QED BY <1>5, <2>1
<1> HIDE DEF packet
<1>7. \A i \in 1 .. 4 : packet[i] = a[i] /\ packet[4 + i] = b[i]
  <2>1. ASSUME NEW i \in 1 .. 4 PROVE packet[i] = a[i] /\ packet[4 + i] = b[i]
    <3>1. i \in 1 .. 8 /\ 4 + i \in 1 .. 8
      OBVIOUS
    <3>2. QED BY <1>4, <1>6, <3>1
  <2>2. QED BY <2>1
<1>8. QED BY <1>1, <1>3, <1>6, <1>7 DEF a, b

(* The bytes of a move packet: its length and the move.                    *)
LEMMA MovePacketFacts ==
  ASSUME NEW dir \in Int
  PROVE  /\ MovePacket(dir) \in Seq(Byte) /\ Len(MovePacket(dir)) = 8
         /\ \A i \in 1 .. 4 : MovePacket(dir)[i] = Bytes32(4)[i]
         /\ \A i \in 1 .. 4 : MovePacket(dir)[4 + i] = Bytes32(dir)[i]
<1> DEFINE a == Bytes32(4)
           b == Bytes32(dir)
<1>1. a \in Seq(Byte) /\ Len(a) = 4 /\ b \in Seq(Byte) /\ Len(b) = 4
  BY BytesAreBytes
<1>2. MovePacket(dir) = a \o b
  BY DEF MovePacket
<1> HIDE DEF a, b
<1> DEFINE ab == a \o b
<1>3. /\ ab \in Seq(Byte) /\ Len(ab) = Len(a) + Len(b)
      /\ \A i \in 1 .. Len(a) : ab[i] = a[i]
      /\ \A i \in 1 .. Len(b) : ab[Len(a) + i] = b[i]
  BY <1>1, Joint, Zenon
<1>4. MovePacket(dir) = ab
  BY <1>2
<1> HIDE DEF ab
<1>5. Len(ab) = 8 /\ \A i \in 1 .. 4 : ab[i] = a[i] /\ ab[4 + i] = b[i]
  BY <1>1, <1>3
<1>6. QED BY <1>3, <1>4, <1>5 DEF a, b

(* The bytes of the colour packet: its length and the colour.              *)
LEMMA ColourPacketFacts ==
  /\ ColourPacket(Colour) \in Seq(Byte) /\ Len(ColourPacket(Colour)) = 7
  /\ \A i \in 1 .. 4 : ColourPacket(Colour)[i] = Bytes32(3)[i]
  /\ \A i \in 1 .. 3 : ColourPacket(Colour)[4 + i] = Colour[i]
<1> DEFINE a == Bytes32(3)
<1>1. a \in Seq(Byte) /\ Len(a) = 4
  BY BytesAreBytes
<1>2. Colour \in Seq(Byte) /\ Len(Colour) = 3
  BY Types, ColourIsBytes
<1>3. ColourPacket(Colour) = a \o Colour
  BY DEF ColourPacket
<1> HIDE DEF a
<1> DEFINE packet == a \o Colour
<1>4. /\ packet \in Seq(Byte) /\ Len(packet) = Len(a) + Len(Colour)
      /\ \A i \in 1 .. Len(a) : packet[i] = a[i]
      /\ \A i \in 1 .. Len(Colour) : packet[Len(a) + i] = Colour[i]
  BY <1>1, <1>2, Joint, Zenon
<1>5. ColourPacket(Colour) = packet
  BY <1>3
<1> HIDE DEF packet
<1>6. /\ Len(packet) = 7 /\ \A i \in 1 .. 4 : packet[i] = a[i]
      /\ \A i \in 1 .. 3 : packet[4 + i] = Colour[i]
  BY <1>1, <1>2, <1>4
<1>7. QED BY <1>4, <1>5, <1>6 DEF a

(* The four bytes behind the at-th of a stream.                            *)
LEMMA FourOfStream ==
  \A s \in Seq(Byte), at \in Nat :
    at + 4 <= Len(s) =>
      /\ SubSeq(s, at + 1, at + 4) \in Seq(Byte)
      /\ Len(SubSeq(s, at + 1, at + 4)) = 4
      /\ \A i \in 1 .. 4 : SubSeq(s, at + 1, at + 4)[i] = s[at + i]
<1> TAKE s \in Seq(Byte), at \in Nat
<1> HAVE at + 4 <= Len(s)
<1>1. SubSeq(s, at + 1, at + 4) \in Seq(Byte)
  BY SMT
<1>2. Len(SubSeq(s, at + 1, at + 4)) = 4
  BY SMT
<1>3. \A i \in 1 .. 4 : SubSeq(s, at + 1, at + 4)[i] = s[at + i]
  <2>1. at + 1 \in 1 .. Len(s) + 1 /\ at + 4 \in (at + 1) - 1 .. Len(s)
    BY LenProperties
  <2>2. \A i \in 1 .. (at + 4) - (at + 1) + 1 :
          SubSeq(s, at + 1, at + 4)[i] = s[at + 1 + i - 1]
    BY <2>1, SubSeqProperties
  <2> DEFINE p == SubSeq(s, at + 1, at + 4)
  <2> HIDE DEF p
  <2>3. QED BY <2>2 DEF p
<1>4. QED BY <1>1, <1>2, <1>3

(* Four bytes that are the same one by one are the same.                   *)
LEMMA FourAreSame ==
  \A u, v \in Seq(Byte) :
    Len(u) = 4 /\ Len(v) = 4 /\ (\A i \in 1 .. 4 : u[i] = v[i]) => u = v
<1> TAKE u, v \in Seq(Byte)
<1> QED BY SMT

(* Four bytes of a stream are read as the number they write.               *)
LEMMA FourRead ==
  \A s \in Seq(Byte), at \in Nat, n \in Int :
    at + 4 <= Len(s) /\ (\A i \in 1 .. 4 : s[at + i] = Bytes32(n)[i])
      => SubSeq(s, at + 1, at + 4) = Bytes32(n)
<1> TAKE s \in Seq(Byte), at \in Nat, n \in Int
<1> SUFFICES ASSUME at + 4 <= Len(s), \A i \in 1 .. 4 : s[at + i] = Bytes32(n)[i]
             PROVE  SubSeq(s, at + 1, at + 4) = Bytes32(n)
  OBVIOUS
<1> DEFINE piece == SubSeq(s, at + 1, at + 4)
<1>1. /\ piece \in Seq(Byte) /\ Len(piece) = 4
      /\ \A i \in 1 .. 4 : piece[i] = s[at + i]
  BY FourOfStream
<1>2. Bytes32(n) \in Seq(Byte) /\ Len(Bytes32(n)) = 4
  BY BytesAreBytes
<1> HIDE DEF piece
<1>3. \A i \in 1 .. 4 : piece[i] = Bytes32(n)[i]
  BY <1>1, Zenon
<1>4. piece = Bytes32(n)
  BY <1>1, <1>2, <1>3, FourAreSame, Zenon
<1>5. QED BY <1>4 DEF piece

-----------------------------------------------------------------------------
(* Bytes that change places.                                               *)

(* What a send takes of the bytes it has, and what it leaves.              *)
FirstOf(s, n) == SubSeq(s, 1, n)
(* What a push leaves behind.                                              *)
WithoutFirst(s, n) == SubSeq(s, n + 1, Len(s))

(* What a push sends and what it leaves are the whole.                     *)
LEMMA PushLeaves ==
  \A t \in Seq(Byte) : \A n \in 0 .. Len(t) :
    /\ FirstOf(t, n) \in Seq(Byte) /\ Len(FirstOf(t, n)) = n
    /\ WithoutFirst(t, n) \in Seq(Byte) /\ Len(WithoutFirst(t, n)) = Len(t) - n
    /\ FirstOf(t, n) \o WithoutFirst(t, n) = t
<1> TAKE t \in Seq(Byte)
<1> TAKE n \in 0 .. Len(t)
<1> DEFINE a == SubSeq(t, 1, n)
           b == SubSeq(t, n + 1, Len(t))
<1>1. a \in Seq(Byte) /\ Len(a) = n
  BY SMT
<1>2. b \in Seq(Byte) /\ Len(b) = Len(t) - n
  BY SMT
<1>3. a \o b = t
  <2>1. 1 \in 1 .. Len(t) + 1 /\ n \in 1 - 1 .. Len(t) /\ Len(t) \in n .. Len(t)
    BY LenProperties
  <2>2. a \o b = SubSeq(t, 1, Len(t))
    BY <2>1, ConcatAdjacentSubSeq
  <2>3. QED BY <2>2, SubSeqFull
<1> HIDE DEF a, b
<1>4. FirstOf(t, n) = a /\ WithoutFirst(t, n) = b
  BY DEF FirstOf, WithoutFirst, a, b
<1>5. QED BY <1>1, <1>2, <1>3, <1>4, Zenon

(* Two streams, the first n bytes of the second moved to the first.        *)
Rejoined(s, t, n) == (s \o FirstOf(t, n)) \o WithoutFirst(t, n)

(* Joining streams is associative.                                         *)
LEMMA Associative == \A u, v, w \in Seq(Byte) : (u \o v) \o w = u \o (v \o w)
<1> TAKE u, v, w \in Seq(Byte)
<1> QED BY SMT

(* A push moves the joint between two streams and changes nothing else.    *)
LEMMA PushIsWhole ==
  \A s, t \in Seq(Byte) : \A n \in 0 .. Len(t) : Rejoined(s, t, n) = s \o t
<1> TAKE s, t \in Seq(Byte)
<1> TAKE n \in 0 .. Len(t)
<1> DEFINE a == FirstOf(t, n)
           b == WithoutFirst(t, n)
<1>1. Rejoined(s, t, n) = (s \o a) \o b
  BY DEF Rejoined
<1>2. a \in Seq(Byte) /\ b \in Seq(Byte)
  BY PushLeaves, Zenon
<1>4. a \o b = t
  BY PushLeaves, Zenon
<1> HIDE DEF a, b
<1>3. (s \o a) \o b = s \o (a \o b)
  BY <1>2, Associative, Zenon
<1>5. QED BY <1>1, <1>3, <1>4, Zenon

(* A push takes some of the bytes, at least one if there are any.          *)
LEMMA PushedFacts ==
  ASSUME NEW t \in Seq(Byte), NEW n \in Pushed(t)
  PROVE  n \in 0 .. Len(t) /\ (t # <<>> => n \in 1 .. Len(t))
<1>1. Len(t) \in Nat /\ (t # <<>> => Len(t) # 0)
  BY EmptySeq, LenProperties
<1>2. n = Len(t) \/ \E k \in 1 .. Len(t) - 1 : n = Len(t) - k
  BY DEF Pushed
<1>3. QED BY <1>1, <1>2

(* What is left of a stream without its first n bytes.                     *)
LEMMA DropsKeep ==
  \A s \in Seq(Byte) : \A n \in Nat :
    /\ WithoutFirst(s, n) \in Seq(Byte)
    /\ n <= Len(s) =>
         /\ Len(WithoutFirst(s, n)) = Len(s) - n
         /\ \A i \in 1 .. Len(s) - n : WithoutFirst(s, n)[i] = s[n + i]
<1> TAKE s \in Seq(Byte)
<1> TAKE n \in Nat
<1>1. WithoutFirst(s, n) \in Seq(Byte)
  BY SMT DEF WithoutFirst
<1>2. ASSUME n <= Len(s)
      PROVE  /\ Len(WithoutFirst(s, n)) = Len(s) - n
             /\ \A i \in 1 .. Len(s) - n : WithoutFirst(s, n)[i] = s[n + i]
  BY <1>2, SMT DEF WithoutFirst
<1>3. QED BY <1>1, <1>2

(* A length is never read as a negative number.                            *)
LEMMA LengthIsNat ==
  ASSUME NEW b \in Seq(Byte), Len(b) = 4
  PROVE  Length(b) \in Nat
<1>1. b[1] \in Byte /\ b[2] \in Byte /\ b[3] \in Byte /\ b[4] \in Byte
  <2>1. 1 \in 1 .. Len(b) /\ 2 \in 1 .. Len(b) /\ 3 \in 1 .. Len(b) /\ 4 \in 1 .. Len(b)
    OBVIOUS
  <2>2. \A i \in 1 .. Len(b) : b[i] \in Byte
    BY ElementOfSeq
  <2>3. QED BY <2>1, <2>2
<1>2. 256 ^ 3 = 16777216 /\ 256 ^ 2 = 65536
  BY SMT
<1>3. b[1] < 128 => Int32(b) = b[4] + 256 * b[3] + 65536 * b[2] + 16777216 * b[1]
  BY <1>1, <1>2, SMT DEF Int32, Byte
<1>4. b[1] < 128 => Int32(b) \in Nat
  <2>1. b[4] + 256 * b[3] + 65536 * b[2] + 16777216 * b[1] \in Nat
    <3> DEFINE k == b[4]
               l == b[3]
               m == b[2]
               n == b[1]
    <3>1. k \in 0 .. 255 /\ l \in 0 .. 255 /\ m \in 0 .. 255 /\ n \in 0 .. 255
      BY <1>1 DEF Byte
    <3> HIDE DEF k, l, m, n
    <3>2. k + 256 * l + 65536 * m + 16777216 * n \in Nat
      BY <3>1, SMT
    <3>3. QED BY <3>2, SMT DEF k, l, m, n
  <2>2. QED BY <1>3, <2>1, SMT
<1>5. MaxPacket + 1 \in Nat
  BY WireAssumption, SMT
<1>6. QED BY <1>4, <1>5, SMT DEF Length

(* The first four bytes of a stream are a piece of it.                     *)
LEMMA HeadIsNat ==
  ASSUME NEW s \in Seq(Byte), NEW at \in Nat, at + 4 <= Len(s)
  PROVE  Length(SubSeq(s, at + 1, at + 4)) \in Nat
<1> DEFINE piece == SubSeq(s, at + 1, at + 4)
<1>1. \A i \in at + 1 .. at + 4 : s[i] \in Byte
  <2>1. \A i \in at + 1 .. at + 4 : i \in 1 .. Len(s)
    OBVIOUS
  <2>2. QED BY <2>1, ElementOfSeq
<1>2. at + 1 \in Int /\ at + 4 \in Int
  OBVIOUS
<1>3. /\ piece \in Seq(Byte)
      /\ Len(piece) = IF at + 1 <= at + 4 THEN (at + 4) - (at + 1) + 1 ELSE 0
  BY <1>1, <1>2, SubSeqProperties
<1> HIDE DEF piece
<1>4. Len(piece) = 4
  BY <1>3
<1>5. QED BY <1>3, <1>4, LengthIsNat DEF piece

-----------------------------------------------------------------------------
(* Every step keeps the invariant.  First what many steps have in common.  *)

(* The stream to the server is what the connection holds and then the rest.*)
LEMMA StreamFacts ==
  ASSUME Typed
  PROVE  /\ Stream \in Seq(Byte) /\ Len(Stream) = Len(up) + Len(clOut)
         /\ Len(up) \in Nat /\ Len(clOut) \in Nat /\ Len(up) <= Len(Stream)
         /\ \A j \in 1 .. Len(up) : Stream[j] = up[j]
         /\ up \o <<>> = up
         /\ clOut = <<>> => Stream = up
<1>1. up \in Seq(Byte) /\ clOut \in Seq(Byte)
  BY DEF Typed
<1>2. Len(up) \in Nat /\ Len(clOut) \in Nat
  BY <1>1, LenProperties
<1>3. /\ Stream \in Seq(Byte) /\ Len(Stream) = Len(up) + Len(clOut)
      /\ \A j \in 1 .. Len(up) : Stream[j] = up[j]
  BY <1>1, Joint, Zenon DEF Stream
<1>4. up \o <<>> = up
  BY <1>1, ConcatEmptySeq
<1>5. clOut = <<>> => Stream = up
  BY <1>4 DEF Stream
<1>6. QED BY <1>2, <1>3, <1>4, <1>5

(* There are so many moves asked for, and so many taken.                   *)
LEMMA AskedFacts ==
  ASSUME Typed
  PROVE  Len(asked) \in Nat /\ Len(taken) \in Nat
BY LenProperties DEF Typed

(* Its bytes stay while no move is asked for and none is taken.            *)
LEMMA SameMoves ==
  ASSUME UNCHANGED <<asked, taken>>, NEW j
  PROVE  MoveByte(j)' = MoveByte(j)
<1>1. asked' = asked /\ taken' = taken
  OBVIOUS
<1>2. QED BY <1>1 DEF MoveByte

(* The client goes, by whichever way.                                      *)
ClientLeaves ==
  /\ cl # "start" /\ cl' = "ended" /\ clOut' = <<>> /\ down' = <<>>
  /\ ret' \in {ret, -1}
  /\ UNCHANGED <<fd, colour, serverVars, up, history>>

(* A client that leaves takes what it has not sent with it.                *)
LEMMA ClientLeavesStep ==
  ASSUME IInv, ClientLeaves
  PROVE  IInv'
<1> USE DEF IInv
<1>1. /\ cl # "start" /\ cl' = "ended" /\ clOut' = <<>> /\ down' = <<>>
      /\ ret' \in {ret, -1} /\ fd' = fd /\ colour' = colour /\ up' = up
      /\ srv' = srv /\ player' = player /\ frame' = frame /\ sends' = sends
      /\ failed' = failed /\ showing' = showing /\ asked' = asked /\ taken' = taken
  BY DEF ClientLeaves, serverVars, history
<1>2. <<>> \in Seq(Byte)
  BY EmptySeq
<1>3. Typed'
  BY <1>1, <1>2 DEF Typed
<1>4. Phases'
  BY <1>1 DEF Phases, Joined
<1>5. Stream' = up /\ Len(up) <= Len(Stream) /\ Len(up) \in Nat /\ Len(Stream) \in Nat
      /\ \A j \in 1 .. Len(up) : Stream[j] = up[j]
  <2>1. Stream' = up \o <<>>
    BY <1>1 DEF Stream
  <2>2. Len(Stream) \in Nat
    BY StreamFacts, LenProperties
  <2>3. QED BY <2>1, <2>2, StreamFacts
<1>6. NameUnderWay'
  <2>1. ASSUME srv = "name"
        PROVE  /\ Len(up) <= Len(NamePacket(Name))
               /\ \A j \in 1 .. Len(up) : up[j] = NamePacket(Name)[j]
    <3>1. /\ Len(Stream) <= Len(NamePacket(Name))
          /\ \A j \in 1 .. Len(Stream) : Stream[j] = NamePacket(Name)[j]
      BY <2>1 DEF NameUnderWay
    <3>2. Len(NamePacket(Name)) \in Nat
      BY NamePacketFacts, LenProperties
    <3>3. \A j \in 1 .. Len(up) : j \in 1 .. Len(Stream)
      BY <1>5
    <3>4. QED BY <1>5, <3>1, <3>2, <3>3
  <2>2. QED BY <1>1, <1>5, <2>1 DEF NameUnderWay, ClientGone
<1>7. MovesUnderWay'
  <2>1. ASSUME Joined
        PROVE  /\ Len(taken) <= Len(asked) /\ Len(up) <= 8 * (Len(asked) - Len(taken))
               /\ \A j \in 1 .. Len(up) : up[j] = MoveByte(j)
    <3>1. /\ Len(taken) <= Len(asked) /\ Len(Stream) <= 8 * (Len(asked) - Len(taken))
          /\ \A j \in 1 .. Len(Stream) : Stream[j] = MoveByte(j)
      BY <2>1 DEF MovesUnderWay
    <3>2. \A j \in 1 .. Len(up) : j \in 1 .. Len(Stream)
      BY <1>5
    <3>3. QED BY <1>5, <3>1, <3>2, AskedFacts
  <2>2. \A j : MoveByte(j)' = MoveByte(j)
    BY <1>1, SameMoves
  <2>3. Joined' <=> Joined
    BY <1>1 DEF Joined
  <2>4. QED BY <1>1, <1>5, <2>1, <2>2, <2>3 DEF MovesUnderWay, ClientGone
<1>8. ColourUnderWay'
  BY <1>1 DEF ColourUnderWay
<1>9. InTable'
  BY <1>1 DEF InTable, Joined
<1>10. QED BY <1>3, <1>4, <1>6, <1>7, <1>8, <1>9

(* The server closes its end, perhaps after some last bytes.               *)
ServerCloses ==
  /\ srv # "listening" /\ Close
  /\ down' \in Seq(Byte)
  /\ cl = "recvColour" =>
       \A j \in 1 .. 7 : j <= Len(down') => down'[j] = ColourPacket(Colour)[j]
  /\ down' # <<>> => down # <<>> \/ Joined
  /\ UNCHANGED <<player, frame, clientVars, up, asked, taken>>

(* A server that closes forgets the calls it has not made.                 *)
LEMMA ServerClosesStep ==
  ASSUME IInv, ServerCloses
  PROVE  IInv'
<1> USE DEF IInv
<1>1. /\ srv # "listening" /\ srv' = "closed" /\ sends' = <<>> /\ failed' = FALSE
      /\ player' = player /\ frame' = frame /\ cl' = cl /\ fd' = fd /\ ret' = ret
      /\ colour' = colour /\ clOut' = clOut /\ up' = up /\ asked' = asked /\ taken' = taken
      /\ down' \in Seq(Byte)
      /\ down' # <<>> => down # <<>> \/ Joined
      /\ ~Joined'
  BY DEF ServerCloses, Close, clientVars, Joined
<1>2. Typed'
  <2>1. <<>> \in Seq(Sending)
    BY EmptySeq
  <2>2. QED BY <1>1, <2>1 DEF Typed
<1>3. Phases'
  BY <1>1 DEF Phases, Joined
<1>4. NameUnderWay' /\ MovesUnderWay'
  BY <1>1 DEF NameUnderWay, MovesUnderWay
<1>5. ColourUnderWay'
  BY <1>1 DEF ColourUnderWay, ServerCloses
<1>6. InTable'
  BY <1>1 DEF InTable
<1>7. QED BY <1>2, <1>3, <1>4, <1>5, <1>6

(* The server goes on with a client that is in the game.                   *)
ServerGoesOn ==
  /\ Joined /\ srv' \in {"colour", "frame", "send", "recv", "move", "over"}
  /\ UNCHANGED <<player, clientVars, up, asked, taken>>

(* What is on the way up is as it was while the server only sends.         *)
LEMMA ServerGoesOnStep ==
  ASSUME IInv, Typed', ServerGoesOn, ColourUnderWay'
  PROVE  IInv'
<1> USE DEF IInv
<1>1. /\ Joined /\ Joined' /\ srv' \in {"colour", "frame", "send", "recv", "move", "over"}
      /\ player' = player /\ cl' = cl /\ fd' = fd /\ ret' = ret
      /\ colour' = colour /\ clOut' = clOut /\ up' = up /\ asked' = asked /\ taken' = taken
  BY DEF ServerGoesOn, clientVars, Joined
<1>2. srv \notin {"listening", "name"}
  BY <1>1 DEF Joined
<1>3. Phases'
  BY <1>1, <1>2 DEF Phases
<1>4. NameUnderWay'
  BY <1>1 DEF NameUnderWay
<1>5. MovesUnderWay'
  <2>1. Stream' = Stream
    BY <1>1 DEF Stream
  <2>2. \A j : MoveByte(j)' = MoveByte(j)
    BY <1>1, SameMoves
  <2>3. QED BY <1>1, <2>1, <2>2 DEF MovesUnderWay, ClientGone
<1>6. InTable'
  BY <1>1 DEF InTable
<1>7. QED BY <1>3, <1>4, <1>5, <1>6

(* A packet that is here is taken from the front of the stream.            *)
LEMMA PacketFacts ==
  ASSUME down \in Seq(Byte), PacketHere
  PROVE  /\ NextPacket \in Seq(Byte) /\ down # <<>>
         /\ PacketBytes \in Nat /\ Announced \in Nat
<1>1. Len(down) \in Nat /\ 4 <= Len(down)
  BY LenProperties DEF PacketHere
<1>2. Announced \in Nat
  <2>1. 0 + 4 <= Len(down) /\ 0 \in Nat
    BY <1>1
  <2>2. Length(SubSeq(down, 0 + 1, 0 + 4)) \in Nat
    BY <2>1, HeadIsNat
  <2>3. QED BY <2>2 DEF Announced
<1>3. PacketBytes = 4 \/ PacketBytes = 4 + Announced
  BY DEF PacketBytes
<1>4. PacketBytes \in Nat
  BY <1>2, <1>3
<1>5. NextPacket \in Seq(Byte)
  BY <1>4, DropsKeep, Zenon DEF NextPacket, WithoutFirst
<1>6. down # <<>>
  BY <1>1, EmptySeq
<1>7. QED BY <1>2, <1>4, <1>5, <1>6

(* The send call that is next, and those behind it.                        *)
LEMMA FirstSendTyped ==
  ASSUME Typed, sends # <<>>
  PROVE  /\ Head(sends) = sends[1] /\ sends[1] \in Sending
         /\ sends[1].of \in Nat /\ sends[1].bytes \in Seq(Byte)
         /\ Tail(sends) \in Seq(Sending) /\ Len(Tail(sends)) = Len(sends) - 1
         /\ 1 \in 1 .. Len(sends)
<1>1. sends \in Seq(Sending)
  BY DEF Typed
<1>2. /\ Tail(sends) \in Seq(Sending) /\ Len(Tail(sends)) = Len(sends) - 1
  BY <1>1, HeadTailProperties
<1>3. Len(sends) \in Nat \ {0}
  BY <1>1, EmptySeq
<1>4. 1 \in 1 .. Len(sends)
  BY <1>3
<1>5. sends[1] \in Sending
  BY <1>1, <1>4, ElementOfSeq
<1>6. Head(sends) = sends[1]
  OBVIOUS
<1>7. QED BY <1>2, <1>4, <1>5, <1>6 DEF Sending

-----------------------------------------------------------------------------
(* The client's steps.                                                     *)

(* Nothing happens to the stream to the server.                            *)
LEMMA StreamsStay ==
  ASSUME IInv, UNCHANGED <<up, clOut, asked, taken, srv>>, ClientGone' <=> ClientGone
  PROVE  NameUnderWay' /\ MovesUnderWay'
<1> USE DEF IInv
<1>1. /\ up' = up /\ clOut' = clOut /\ asked' = asked /\ taken' = taken /\ srv' = srv
  OBVIOUS
<1>2. Stream' = Stream
  BY <1>1 DEF Stream
<1>3. \A j : MoveByte(j)' = MoveByte(j)
  BY <1>1, SameMoves
<1>4. NameUnderWay'
  BY <1>1, <1>2 DEF NameUnderWay
<1>5. Joined' <=> Joined
  BY <1>1 DEF Joined
<1>6. MovesUnderWay'
  BY <1>1, <1>2, <1>3, <1>5 DEF MovesUnderWay
<1>7. QED BY <1>4, <1>6

(* cycles_connect gets a socket, or none.                                  *)
LEMMA CreateSocketStep ==
  ASSUME IInv, NEW ok \in BOOLEAN, CreateSocket(ok)
  PROVE  IInv'
<1> USE DEF IInv
<1>1. /\ cl = "start" /\ cl' = "sendName"
      /\ fd' = IF ok THEN "socket" ELSE "stdout"
      /\ clOut' = IF ok THEN NamePacket(Name) ELSE <<>>
      /\ srv' = IF ok THEN "name" ELSE srv
      /\ ret' = ret /\ colour' = colour /\ player' = player /\ frame' = frame
      /\ sends' = sends /\ failed' = failed /\ up' = up /\ down' = down
      /\ asked' = asked /\ taken' = taken
  BY DEF CreateSocket, history
<1>2. /\ fd = "none" /\ srv = "listening" /\ up = <<>> /\ down = <<>> /\ ret = Pending
      /\ asked = <<>> /\ taken = <<>>
  BY <1>1 DEF Phases
<1>3. /\ NamePacket(Name) \in Seq(Byte) /\ <<>> \in Seq(Byte)
      /\ Len(NamePacket(Name)) \in Nat /\ NamePacket(Name) # <<>>
  <2>1. Len(NamePacket(Name)) = 8 + Len(Name) /\ Len(Name) \in Nat
        /\ NamePacket(Name) \in Seq(Byte)
    BY NamePacketFacts
  <2>2. Len(NamePacket(Name)) # 0
    BY <2>1
  <2>3. QED BY <2>1, <2>2, EmptySeq, LenProperties
<1>4. Typed'
  BY <1>1, <1>2, <1>3 DEF Typed
<1>5. ~Joined'
  BY <1>1, <1>2 DEF Joined
<1>6. Phases'
  BY <1>1, <1>2, <1>3, <1>5 DEF Phases, Pending
<1>7. NameUnderWay'
  <2>1. ASSUME ok PROVE Stream' = NamePacket(Name)
    <3>1. <<>> \o NamePacket(Name) = NamePacket(Name)
      BY <1>3, ConcatEmptySeq
    <3>2. QED BY <1>1, <1>2, <2>1, <3>1 DEF Stream
  <2>2. QED BY <1>1, <1>2, <1>3, <2>1 DEF NameUnderWay
<1>8. MovesUnderWay'
  BY <1>5 DEF MovesUnderWay
<1>9. ColourUnderWay'
  BY <1>1, <1>2 DEF ColourUnderWay
<1>10. InTable'
  BY <1>1, <1>2, <1>5 DEF InTable, Pending
<1>11. QED BY <1>4, <1>6, <1>7, <1>8, <1>9, <1>10

(* The client sends some of its bytes.                                     *)
LEMMA ClientPushStep ==
  ASSUME IInv, NEW n \in Pushed(clOut), ClientPush(n)
  PROVE  IInv'
<1> USE DEF IInv
<1>1. /\ cl \in {"sendName", "sendMove"} /\ fd = "socket" /\ clOut # <<>>
      /\ up' = IF ServerGone THEN up ELSE up \o FirstOf(clOut, n)
      /\ clOut' = WithoutFirst(clOut, n)
      /\ cl' = IF n < Len(clOut) THEN cl
               ELSE IF cl = "sendName" THEN "recvColour" ELSE "recvState"
      /\ fd' = fd /\ ret' = ret /\ colour' = colour /\ srv' = srv /\ player' = player
      /\ frame' = frame /\ sends' = sends /\ failed' = failed /\ down' = down
      /\ asked' = asked /\ taken' = taken
  BY DEF ClientPush, serverVars, history, FirstOf, WithoutFirst
<1>2. clOut \in Seq(Byte) /\ up \in Seq(Byte) /\ Len(clOut) \in Nat
  BY LenProperties DEF Typed
<1>3. n \in 0 .. Len(clOut)
  BY <1>1, <1>2, PushedFacts
<1>4. /\ clOut' \in Seq(Byte) /\ Len(clOut') = Len(clOut) - n
      /\ up' \in Seq(Byte)
      /\ ~ServerGone => up' \o clOut' = up \o clOut
  <2>1. /\ WithoutFirst(clOut, n) \in Seq(Byte)
        /\ Len(WithoutFirst(clOut, n)) = Len(clOut) - n
        /\ up \o FirstOf(clOut, n) \in Seq(Byte)
        /\ (up \o FirstOf(clOut, n)) \o WithoutFirst(clOut, n) = up \o clOut
    <3>1. WithoutFirst(clOut, n) \in Seq(Byte) /\ FirstOf(clOut, n) \in Seq(Byte)
          /\ Len(WithoutFirst(clOut, n)) = Len(clOut) - n
      BY <1>2, <1>3, PushLeaves, Zenon
    <3>2. up \o FirstOf(clOut, n) \in Seq(Byte)
      BY <1>2, <3>1, Joint, Zenon
    <3>3. Rejoined(up, clOut, n) = up \o clOut
      BY <1>2, <1>3, PushIsWhole, Zenon
    <3>4. QED BY <3>1, <3>2, <3>3, Zenon DEF Rejoined
  <2>2. up' \in Seq(Byte)
    BY <1>1, <1>2, <2>1
  <2>3. ASSUME ~ServerGone PROVE up' \o clOut' = up \o clOut
    <3>1. up' = up \o FirstOf(clOut, n) /\ clOut' = WithoutFirst(clOut, n)
      BY <1>1, <2>3
    <3>2. QED BY <2>1, <3>1
  <2>4. clOut' \in Seq(Byte) /\ Len(clOut') = Len(clOut) - n
    BY <1>1, <2>1
  <2>5. QED BY <2>2, <2>3, <2>4
<1>5. clOut' # <<>> <=> n < Len(clOut)
  BY <1>2, <1>3, <1>4, EmptySeq
<1>6. Typed'
  BY <1>1, <1>4 DEF Typed
<1>7. srv # "listening" /\ Joined' = Joined
  BY <1>1 DEF Phases, Joined
<1>8. Phases'
  <2>1. /\ cl' # "start" /\ fd' # "none" /\ fd' # "stdout" /\ srv' # "listening"
        /\ clOut' # <<>> <=> cl' \in {"sendName", "sendMove"}
    BY <1>1, <1>5, <1>7
  <2>2. cl' \in {"sendName", "recvColour"} => cl = "sendName" /\ ret = Pending
    BY <1>1 DEF Phases
  <2>3. srv = "name" => cl = "sendName" /\ cl' \in {"sendName", "recvColour"}
    BY <1>1 DEF Phases
  <2>4. Joined => cl = "sendMove" /\ cl' \in {"sendMove", "recvState"}
    BY <1>1 DEF Phases
  <2>5. QED BY <1>1, <1>7, <2>1, <2>2, <2>3, <2>4 DEF Phases, Pending
<1>9. ClientGone' <=> ClientGone
  BY <1>1 DEF ClientGone
<1>10. ~ServerGone => Stream' = Stream
  BY <1>4 DEF Stream
<1>11. NameUnderWay'
  BY <1>1, <1>9, <1>10 DEF NameUnderWay, ServerGone
<1>12. MovesUnderWay'
  <2>1. \A j : MoveByte(j)' = MoveByte(j)
    BY <1>1, SameMoves
  <2>2. Joined => ~ServerGone
    BY DEF Joined, ServerGone
  <2>3. QED BY <1>1, <1>7, <1>9, <1>10, <2>1, <2>2 DEF MovesUnderWay
<1>13. ColourUnderWay'
  <2>1. cl' = "recvColour" => down' = <<>> /\ ~Joined'
    BY <1>1, <1>7 DEF Phases
  <2>2. srv' # "colour"
    BY <1>1 DEF ColourUnderWay
  <2>3. Len(<<>>) = 0
    BY EmptySeq
  <2>4. QED BY <2>1, <2>2, <2>3 DEF ColourUnderWay
<1>14. InTable'
  BY <1>1, <1>7 DEF InTable
<1>15. QED BY <1>6, <1>8, <1>11, <1>12, <1>13, <1>14

(* cycles_recv_game_state takes a packet.                                  *)
LEMMA RecvStateStep ==
  ASSUME IInv, RecvState
  PROVE  IInv'
<1> USE DEF IInv
<1>1. /\ cl = "recvState" /\ PacketHere /\ down' = NextPacket
      /\ cl' \in {"decide", "leaving", "malformed"}
      /\ fd' = fd /\ ret' = ret /\ colour' = colour /\ clOut' = clOut /\ srv' = srv
      /\ player' = player /\ frame' = frame /\ sends' = sends /\ failed' = failed
      /\ up' = up /\ asked' = asked /\ taken' = taken
  BY DEF RecvState, serverVars
<1>2. down \in Seq(Byte)
  BY DEF Typed
<1>3. down' \in Seq(Byte) /\ down # <<>>
  BY <1>1, <1>2, PacketFacts
<1>4. Typed'
  BY <1>1, <1>3 DEF Typed
<1>5. srv \notin {"listening", "name", "colour"} /\ fd = "socket" /\ clOut = <<>>
  BY <1>1 DEF Phases, ColourUnderWay
<1>6. Phases'
  BY <1>1, <1>5 DEF Phases, Joined
<1>7. NameUnderWay' /\ MovesUnderWay'
  BY <1>1, StreamsStay DEF ClientGone
<1>8. ColourUnderWay'
  BY <1>1, <1>5 DEF ColourUnderWay
<1>9. InTable'
  BY <1>1, <1>3 DEF InTable, Joined
<1>10. QED BY <1>4, <1>6, <1>7, <1>8, <1>9

(* The first packet down is the colour. *)
LEMMA ColourReads ==
  ASSUME IInv, cl = "recvColour", PacketHere
  PROVE  Announced = 3 /\ 7 <= Len(down) /\ Payload = Colour
<1> USE DEF IInv
<1>1. down \in Seq(Byte) /\ Len(down) \in Nat /\ 4 <= Len(down) /\ PacketBytes <= Len(down)
  BY LenProperties DEF Typed, PacketHere
<1>2. \A j \in 1 .. 7 : j <= Len(down) => down[j] = ColourPacket(Colour)[j]
  BY DEF ColourUnderWay
<1>3. Announced = 3
  <2>1. ASSUME NEW i \in 1 .. 4 PROVE down[0 + i] = Bytes32(3)[i]
    <3>1. 0 + i = i /\ i \in 1 .. 7 /\ i <= Len(down)
      BY <1>1
    <3>2. QED BY <1>2, <3>1, ColourPacketFacts
  <2>2. 0 + 4 <= Len(down) /\ 0 \in Nat /\ 3 \in Int
    BY <1>1
  <2>3. SubSeq(down, 0 + 1, 0 + 4) = Bytes32(3)
    BY <1>1, <2>1, <2>2, FourRead, Zenon
  <2>4. SubSeq(down, 1, 4) = Bytes32(3)
    BY <2>3
  <2>5. Length(Bytes32(3)) = 3
    BY LengthReadBack, SMT
  <2>6. QED BY <2>4, <2>5 DEF Announced
<1>4. PacketBytes = 7 /\ 7 <= Len(down)
  <2>1. Announced \in 1 .. MaxPacket
    BY <1>3, WireAssumption, SMT
  <2>2. PacketBytes = 4 + 3
    BY <1>1, <1>3, <2>1 DEF PacketBytes
  <2>3. QED BY <1>1, <2>2
<1>5. Payload = Colour
  <2>1. \A i \in 5 .. 7 : down[i] \in Byte
    <3>1. \A i \in 5 .. 7 : i \in 1 .. Len(down)
      BY <1>1, <1>4
    <3>2. QED BY <1>1, <3>1, ElementOfSeq
  <2> DEFINE piece == SubSeq(down, 5, 7)
  <2>2. /\ piece \in Seq(Byte) /\ Len(piece) = IF 5 <= 7 THEN 7 - 5 + 1 ELSE 0
        /\ \A i \in 1 .. 7 - 5 + 1 : piece[i] = down[5 + i - 1]
    BY <2>1, SubSeqProperties
  <2> HIDE DEF piece
  <2>3. Len(piece) = 3
    BY <2>2
  <2>4. ASSUME NEW i \in 1 .. 3 PROVE piece[i] = Colour[i]
    <3>1. i \in 1 .. 7 - 5 + 1 /\ 5 + i - 1 = 4 + i /\ 4 + i \in 1 .. 7 /\ 4 + i <= Len(down)
      BY <1>1, <1>4
    <3>2. piece[i] = down[4 + i]
      BY <2>2, <3>1
    <3>3. QED BY <1>2, <3>1, <3>2, ColourPacketFacts
  <2>5. Colour \in Seq(Byte) /\ Len(Colour) = 3
    BY Types, ColourIsBytes
  <2>6. piece = Colour
    BY <2>2, <2>3, <2>4, <2>5, SeqEqual
  <2>7. QED BY <1>4, <2>6 DEF piece, Payload
<1>6. QED BY <1>3, <1>4, <1>5

(* cycles_connect takes the colour.                                        *)
LEMMA RecvColourStep ==
  ASSUME IInv, RecvColour
  PROVE  IInv'
<1> USE DEF IInv
<1>1. Announced = 3 /\ 7 <= Len(down) /\ Payload = Colour
  BY ColourReads DEF RecvColour
<1>2. /\ cl = "recvColour" /\ PacketHere /\ down' = NextPacket
      /\ ret' = 0 /\ colour' = Colour /\ cl' = "recvState"
      /\ fd' = fd /\ clOut' = clOut /\ srv' = srv /\ player' = player /\ frame' = frame
      /\ sends' = sends /\ failed' = failed /\ up' = up /\ asked' = asked /\ taken' = taken
  BY <1>1 DEF RecvColour, serverVars, history
<1>3. down \in Seq(Byte) /\ down' \in Seq(Byte) /\ down # <<>>
  BY <1>2, PacketFacts DEF Typed
<1>4. Typed'
  BY <1>2, <1>3, Types DEF Typed
<1>5. srv \notin {"listening", "name"} /\ fd = "socket" /\ clOut = <<>>
  BY <1>2, <1>3 DEF Phases
<1>6. srv # "colour"
  <2>1. ASSUME srv = "colour" PROVE FALSE
    <3> DEFINE rest == sends[1].bytes
    <3>1. rest # <<>> /\ down \o rest = ColourPacket(Colour) /\ sends # <<>>
      <4>1. sends # <<>>
        BY <2>1 DEF Typed
      <4>2. rest # <<>> /\ down \o rest = ColourPacket(Colour)
        BY <1>2, <2>1, Zenon DEF ColourUnderWay
      <4>3. QED BY <4>1, <4>2
    <3>2. rest \in Seq(Byte)
      BY <3>1, FirstSendTyped
    <3> HIDE DEF rest
    <3>3. Len(down \o rest) = Len(down) + Len(rest)
      BY <1>3, <3>2, Joint, Zenon
    <3>4. Len(down) \in Nat /\ Len(rest) \in Nat /\ Len(rest) # 0
      BY <1>3, <3>1, <3>2, LenProperties, EmptySeq
    <3>5. Len(down) + Len(rest) = 7
      BY <3>1, <3>3, ColourPacketFacts
    <3>6. QED BY <1>1, <3>4, <3>5
  <2>2. QED BY <2>1
<1>7. Phases'
  BY <1>2, <1>5 DEF Phases, Joined
<1>8. NameUnderWay' /\ MovesUnderWay'
  BY <1>2, StreamsStay DEF ClientGone
<1>9. ColourUnderWay'
  BY <1>2, <1>6 DEF ColourUnderWay
<1>10. InTable'
  BY <1>2, <1>3, <1>5 DEF InTable, Joined
<1>11. QED BY <1>4, <1>7, <1>8, <1>9, <1>10

(* Where a byte is among moves of eight bytes.                             *)
LEMMA Eights ==
  /\ \A d \in Nat : \A i \in 1 .. 8 : (8 * d + i - 1) \div 8 = d /\ (8 * d + i - 1) % 8 = i - 1
  /\ \A d \in Nat : \A j \in 1 .. 8 * d :
       /\ (j - 1) \div 8 \in Nat /\ (j - 1) \div 8 <= d - 1 /\ (j - 1) % 8 \in 0 .. 7
  /\ \A j \in Nat \ {0} : ((8 + j) - 1) \div 8 = 1 + ((j - 1) \div 8)
                          /\ ((8 + j) - 1) % 8 = (j - 1) % 8
BY SMT

(* cycles_send_move_i32 is called.                                         *)
LEMMA SendMoveStep ==
  ASSUME IInv, NEW dir \in Moves, SendMove(dir)
  PROVE  IInv'
<1> USE DEF IInv
<1>1. /\ cl = "decide" /\ cl' = "sendMove" /\ clOut' = MovePacket(dir)
      /\ asked' = Append(asked, dir)
      /\ fd' = fd /\ ret' = ret /\ colour' = colour /\ srv' = srv /\ player' = player
      /\ frame' = frame /\ sends' = sends /\ failed' = failed /\ up' = up /\ down' = down
      /\ taken' = taken
  BY DEF SendMove, serverVars
<1>2. /\ MovePacket(dir) \in Seq(Byte) /\ Len(MovePacket(dir)) = 8
      /\ MovePacket(dir) # <<>>
  <2>1. MovePacket(dir) \in Seq(Byte) /\ Len(MovePacket(dir)) = 8
    BY Types, MovePacketFacts
  <2>2. Len(MovePacket(dir)) # Len(<<>>)
    BY <2>1, EmptySeq
  <2>3. QED BY <2>1, <2>2
<1>3. /\ asked \in Seq(Moves) /\ asked' \in Seq(Moves) /\ Len(asked') = Len(asked) + 1
      /\ \A i \in 1 .. Len(asked) : asked'[i] = asked[i]
      /\ asked'[Len(asked) + 1] = dir
  <2>1. asked \in Seq(Moves)
    BY DEF Typed
  <2>2. QED BY <1>1, <2>1, AppendProperties
<1>4. Typed'
  BY <1>1, <1>2, <1>3 DEF Typed
<1>5. /\ srv \notin {"listening", "name", "colour"} /\ fd = "socket" /\ clOut = <<>>
      /\ Joined' <=> Joined
  BY <1>1 DEF Phases, ColourUnderWay, Joined
<1>6. Phases'
  BY <1>1, <1>2, <1>5 DEF Phases
<1>7. NameUnderWay'
  BY <1>1, <1>5 DEF NameUnderWay
<1>8. MovesUnderWay'
  <2>1. ASSUME Joined
        PROVE  /\ Len(taken) <= Len(asked') /\ Len(Stream') = 8 * (Len(asked') - Len(taken))
               /\ \A j \in 1 .. Len(Stream') : Stream'[j] = MoveByte(j)'
    <3> DEFINE d == Len(asked) - Len(taken)
               packet == MovePacket(dir)
    <3>1. /\ Stream = up /\ Len(taken) <= Len(asked) /\ Len(up) = 8 * d
          /\ \A j \in 1 .. Len(up) : up[j] = MoveByte(j)
      <4>1. Stream = up
        BY <1>5, StreamFacts
      <4>2. QED BY <1>1, <2>1, <4>1 DEF MovesUnderWay, ClientGone
    <3>2. Len(asked) \in Nat /\ Len(taken) \in Nat /\ d \in Nat
      BY <3>1, AskedFacts
    <3>3. /\ Len(Stream') = Len(up) + 8
          /\ \A j \in 1 .. Len(up) : Stream'[j] = up[j]
          /\ \A i \in 1 .. 8 : Stream'[Len(up) + i] = packet[i]
      <4>1. Stream' = up \o packet
        BY <1>1 DEF Stream
      <4>2. up \in Seq(Byte) /\ packet \in Seq(Byte) /\ Len(packet) = 8
        BY <1>2 DEF Typed
      <4> HIDE DEF packet
      <4>3. /\ Len(up \o packet) = Len(up) + Len(packet)
            /\ \A i \in 1 .. Len(up) : (up \o packet)[i] = up[i]
            /\ \A i \in 1 .. Len(packet) : (up \o packet)[Len(up) + i] = packet[i]
        BY <4>2, Joint, Zenon
      <4>4. QED BY <4>1, <4>2, <4>3
    <3>4. ASSUME NEW j \in 1 .. 8 * d PROVE MoveByte(j)' = MoveByte(j)
      <4>1. (j - 1) \div 8 \in Nat /\ (j - 1) \div 8 <= d - 1
        BY <3>2, Eights
      <4>2. Len(taken) + 1 + ((j - 1) \div 8) \in 1 .. Len(asked)
        BY <3>2, <4>1
      <4> DEFINE k == Len(taken) + 1 + ((j - 1) \div 8)
                 m == 1 + ((j - 1) % 8)
      <4>3. MoveByte(j)' = MovePacket(asked'[k])[m] /\ MoveByte(j) = MovePacket(asked[k])[m]
        BY <1>1 DEF MoveByte
      <4>4. k \in 1 .. Len(asked)
        BY <4>2
      <4> HIDE DEF k, m
      <4>5. asked'[k] = asked[k]
        BY <1>3, <4>4
      <4>6. QED BY <4>3, <4>5
    <3>5. ASSUME NEW j \in Nat, NEW i \in 1 .. 8, j = 8 * d + i
          PROVE  MoveByte(j)' = packet[i]
      <4>1. (8 * d + i - 1) \div 8 = d /\ (8 * d + i - 1) % 8 = i - 1
        BY <3>2, Eights
      <4> DEFINE k == Len(taken) + 1 + ((j - 1) \div 8)
                 m == 1 + ((j - 1) % 8)
      <4>2. MoveByte(j)' = MovePacket(asked'[k])[m]
        BY <1>1 DEF MoveByte
      <4>3. k = Len(asked) + 1 /\ m = i
        BY <3>2, <3>5, <4>1
      <4> HIDE DEF k, m
      <4>4. asked'[k] = dir
        BY <1>3, <4>3
      <4>5. QED BY <4>2, <4>3, <4>4
    <3> HIDE DEF packet
    <3>6. ASSUME NEW j \in 1 .. Len(Stream') PROVE Stream'[j] = MoveByte(j)'
      <4> HIDE DEF d
      <4>0. j \in Nat /\ 1 <= j /\ j <= 8 * d + 8
        BY <3>1, <3>2, <3>3
      <4>1. CASE j <= 8 * d
        <5>1. j \in 1 .. 8 * d
          BY <3>2, <4>0, <4>1
        <5>2. QED BY <3>1, <3>3, <3>4, <5>1
      <4>2. CASE ~(j <= 8 * d)
        <5>1. j - 8 * d \in 1 .. 8 /\ j = 8 * d + (j - 8 * d)
          BY <3>2, <4>0, <4>2
        <5>2. PICK i \in 1 .. 8 : j = 8 * d + i
          BY <5>1
        <5>3. Stream'[8 * d + i] = packet[i]
          BY <3>1, <3>3
        <5>4. MoveByte(j)' = packet[i]
          BY <3>5, <4>0, <5>2
        <5>5. QED BY <5>2, <5>3, <5>4
      <4>3. QED BY <4>1, <4>2
    <3>7. Len(taken) <= Len(asked') /\ Len(Stream') = 8 * (Len(asked') - Len(taken))
      BY <1>3, <3>1, <3>2, <3>3
    <3>8. QED BY <3>6, <3>7
  <2>2. Len(taken) \in Nat /\ Len(asked') \in Nat
    BY <1>3, AskedFacts, LenProperties
  <2>3. QED BY <1>1, <1>5, <2>1, <2>2 DEF MovesUnderWay
<1>9. ColourUnderWay'
  BY <1>1, <1>5 DEF ColourUnderWay
<1>10. InTable'
  BY <1>1, <1>5 DEF InTable
<1>11. QED BY <1>4, <1>6, <1>7, <1>8, <1>9, <1>10

(* The ways the client leaves by.                                          *)
LEMMA ClientLeavesWays ==
  ASSUME IInv, \/ SendNameFails \/ SendMoveFails \/ RecvColourFails \/ RecvStateFails
               \/ Leave \/ ClientCrash
  PROVE  ClientLeaves
BY DEF SendNameFails, SendMoveFails, RecvColourFails, RecvStateFails, Leave, ClientCrash,
       ConnectFails, ClientEnds, ClientLeaves

(* Every step of the client keeps the invariant.                           *)
LEMMA ClientStep ==
  ASSUME IInv, ClientSends \/ ClientReceives \/ ClientCrash
  PROVE  IInv'
<1>1. CASE \/ SendNameFails \/ SendMoveFails \/ RecvColourFails \/ RecvStateFails
           \/ Leave \/ ClientCrash
  BY <1>1, ClientLeavesWays, ClientLeavesStep
<1>2. CASE \E n \in Pushed(clOut) : ClientPush(n)
  BY <1>2, ClientPushStep
<1>3. CASE \E dir \in Moves : SendMove(dir)
  BY <1>3, SendMoveStep
<1>4. CASE RecvColour
  BY <1>4, RecvColourStep
<1>5. CASE RecvState
  BY <1>5, RecvStateStep
<1>6. QED BY <1>1, <1>2, <1>3, <1>4, <1>5 DEF ClientSends, ClientReceives

-----------------------------------------------------------------------------
(* The server's steps: the handshake.                                      *)

(* The name in the table is the beginning of the one that was sent.        *)
LEMMA PlayerNameFacts ==
  /\ PlayerName(Name) \in Seq(Letter) /\ Len(PlayerName(Name)) \in Nat
  /\ Len(Name) <= NameLimit => PlayerName(Name) = Name
  /\ ~(Len(Name) <= NameLimit) =>
       /\ Len(PlayerName(Name)) = NameLimit
       /\ \A i \in 1 .. NameLimit : PlayerName(Name)[i] = Name[i]
<1>1. Name \in Seq(Letter) /\ NameLimit \in Nat /\ Len(Name) \in Nat
  BY Types, LenProperties
<1>2. ASSUME ~(Len(Name) <= NameLimit)
      PROVE  /\ PlayerName(Name) \in Seq(Letter)
             /\ Len(PlayerName(Name)) = NameLimit
             /\ \A i \in 1 .. NameLimit : PlayerName(Name)[i] = Name[i]
  <2> DEFINE piece == SubSeq(Name, 1, NameLimit)
  <2>1. PlayerName(Name) = piece
    BY <1>2 DEF PlayerName
  <2>3. piece \in Seq(Letter) /\ Len(piece) = NameLimit
    BY <1>1, <1>2, SMT
  <2>4. \A i \in 1 .. NameLimit : piece[i] = Name[i]
    BY <1>1, <1>2, SMT
  <2> HIDE DEF piece
  <2>5. QED BY <2>1, <2>3, <2>4
<1>3. Len(Name) <= NameLimit => PlayerName(Name) = Name
  BY DEF PlayerName
<1>4. PlayerName(Name) \in Seq(Letter)
  BY <1>1, <1>2, <1>3
<1>5. Len(PlayerName(Name)) \in Nat
  BY <1>4, LenProperties
<1>6. QED BY <1>2, <1>3, <1>4, <1>5

(* A name that is here is the whole of what the client has sent.           *)
LEMMA NameReads ==
  ASSUME IInv, srv = "name", NameHere
  PROVE  /\ NameBytes = 8 + Len(Name) /\ Len(up) = 8 + Len(Name) /\ clOut = <<>>
         /\ cl \in {"recvColour", "ended"}
         /\ SubSeq(up, 9, NameBytes) = Name
         /\ SubSeq(up, NameBytes + 1, Len(up)) = <<>>
<1> USE DEF IInv
<1> DEFINE packet == NamePacket(Name)
<1>1. /\ up \in Seq(Byte) /\ clOut \in Seq(Byte) /\ Len(up) \in Nat /\ Len(clOut) \in Nat
  BY StreamFacts DEF Typed
<1>2. /\ Len(packet) = 8 + Len(Name) /\ Len(Name) \in Nat
      /\ \A i \in 1 .. 4 : packet[4 + i] = Bytes32(Len(Name))[i]
      /\ \A i \in 1 .. Len(Name) : packet[8 + i] = Name[i]
  BY NamePacketFacts
<1>3. /\ Len(up) + Len(clOut) <= Len(packet)
      /\ \A j \in 1 .. Len(up) : up[j] = packet[j]
  <2>1. /\ Len(Stream) <= Len(packet)
        /\ \A j \in 1 .. Len(Stream) : Stream[j] = packet[j]
    BY DEF NameUnderWay
  <2>2. /\ Len(Stream) = Len(up) + Len(clOut)
        /\ \A j \in 1 .. Len(up) : Stream[j] = up[j]
    BY StreamFacts
  <2> HIDE DEF packet
  <2>3. \A j \in 1 .. Len(up) : j \in 1 .. Len(Stream)
    BY <1>1, <2>2
  <2>4. QED BY <2>1, <2>2, <2>3
<1> HIDE DEF packet
<1>4. 8 <= Len(up) /\ NameBytes <= Len(up)
  BY <1>1 DEF NameHere
<1>5. NameBytes = 8 + Len(Name)
  <2>1. ASSUME NEW i \in 1 .. 4 PROVE up[4 + i] = Bytes32(Len(Name))[i]
    <3>1. 4 + i \in 1 .. Len(up)
      BY <1>1, <1>4
    <3>2. QED BY <1>2, <1>3, <3>1
  <2>2. 4 + 4 <= Len(up) /\ 4 \in Nat /\ Len(Name) \in Int
    BY <1>1, <1>2, <1>4
  <2>3. SubSeq(up, 4 + 1, 4 + 4) = Bytes32(Len(Name))
    BY <1>1, <2>1, <2>2, FourRead, Zenon
  <2>4. SubSeq(up, 5, 8) = Bytes32(Len(Name))
    BY <2>3
  <2>5. Length(Bytes32(Len(Name))) = Len(Name)
    <3>1. Len(Name) <= 2147483647
      BY <1>2, SessionAssumption, SMT
    <3>2. QED BY <1>2, <3>1, LengthReadBack, SMT
  <2>6. QED BY <2>4, <2>5 DEF NameBytes
<1>6. Len(up) = 8 + Len(Name) /\ Len(clOut) = 0
  BY <1>1, <1>2, <1>3, <1>4, <1>5
<1>7. clOut = <<>>
  BY <1>1, <1>6, EmptySeq
<1>8. cl \in {"recvColour", "ended"}
  BY <1>7 DEF Phases
<1>9. SubSeq(up, 9, NameBytes) = Name
  <2> DEFINE m == 8 + Len(Name)
             piece == SubSeq(up, 9, m)
  <2>0. m \in Int /\ m = Len(up)
    BY <1>2, <1>6
  <2> HIDE DEF m
  <2>1. \A i \in 9 .. m : up[i] \in Byte
    <3>1. \A i \in 9 .. m : i \in 1 .. Len(up)
      BY <1>1, <2>0
    <3>2. QED BY <1>1, <3>1, ElementOfSeq
  <2>2. /\ piece \in Seq(Byte)
        /\ Len(piece) = IF 9 <= m THEN m - 9 + 1 ELSE 0
        /\ \A i \in 1 .. m - 9 + 1 : piece[i] = up[9 + i - 1]
    BY <2>0, <2>1, SubSeqProperties
  <2> HIDE DEF piece
  <2>3. Len(piece) = Len(Name) /\ m - 9 + 1 = Len(Name)
    BY <1>2, <2>2 DEF m
  <2>4. ASSUME NEW i \in 1 .. Len(Name) PROVE piece[i] = Name[i]
    <3>1. 9 + i - 1 = 8 + i /\ 8 + i \in 1 .. Len(up)
      BY <1>1, <1>2, <1>6
    <3>2. piece[i] = up[8 + i]
      BY <2>2, <2>3, <3>1
    <3>3. QED BY <1>2, <1>3, <3>1, <3>2
  <2>5. Name \in Seq(Byte)
    <3>1. Letter \subseteq Byte
      BY DEF Letter, Byte
    <3>2. QED BY <3>1, Types, SeqMonotonic
  <2>6. piece = Name
    BY <2>2, <2>3, <2>4, <2>5, SeqEqual
  <2>7. QED BY <1>5, <2>6 DEF piece, m
<1>10. SubSeq(up, NameBytes + 1, Len(up)) = <<>>
  <2> DEFINE rest == SubSeq(up, NameBytes + 1, Len(up))
  <2>1. NameBytes \in Nat /\ NameBytes = Len(up)
    BY <1>2, <1>5, <1>6
  <2>2. rest \in Seq(Byte) /\ (NameBytes <= Len(up) => Len(rest) = Len(up) - NameBytes)
    BY <1>1, <2>1, DropsKeep, Zenon DEF WithoutFirst
  <2> HIDE DEF rest
  <2>3. Len(rest) = 0
    BY <1>1, <2>1, <2>2
  <2>4. rest = <<>>
    BY <2>2, <2>3, EmptySeq
  <2>5. QED BY <2>4 DEF rest
<1>11. QED BY <1>5, <1>6, <1>7, <1>8, <1>9, <1>10

(* The server takes the name.                                              *)
LEMMA RecvNameStep ==
  ASSUME IInv, RecvName
  PROVE  IInv'
<1> USE DEF IInv
<1>1. /\ srv = "name" /\ NameHere
      /\ player' = PlayerName(SubSeq(up, 9, NameBytes))
      /\ up' = SubSeq(up, NameBytes + 1, Len(up))
      /\ srv' = "colour" /\ sends' = <<[of |-> 0, bytes |-> ColourPacket(Colour)]>>
      /\ frame' = frame /\ failed' = failed /\ cl' = cl /\ fd' = fd /\ ret' = ret
      /\ colour' = colour /\ clOut' = clOut /\ down' = down
      /\ asked' = asked /\ taken' = taken
  BY DEF RecvName, clientVars, history
<1>2. /\ player' = PlayerName(Name) /\ up' = <<>> /\ clOut = <<>>
      /\ cl \in {"recvColour", "ended"}
  BY <1>1, NameReads
<1>3. down = <<>> /\ asked = <<>> /\ taken = <<>> /\ ret # 0 /\ fd = "socket"
  BY <1>1 DEF Phases
<1> DEFINE packet == ColourPacket(Colour)
<1>4. packet \in Seq(Byte) /\ Len(packet) = 7 /\ <<>> \o packet = packet
  BY ColourPacketFacts, ConcatEmptySeq
<1>5. packet # <<>>
  <2>1. Len(packet) # Len(<<>>)
    BY <1>4, EmptySeq
  <2>2. QED BY <2>1
<1> HIDE DEF packet
<1>6. /\ sends' \in Seq(Sending) /\ sends' # <<>> /\ Len(sends') = 1
      /\ sends'[1].of = 0 /\ sends'[1].bytes = packet
  <2>1. sends' = <<[of |-> 0, bytes |-> packet]>>
    BY <1>1 DEF packet
  <2>2. [of |-> 0, bytes |-> packet] \in Sending
    BY <1>4 DEF Sending
  <2>3. QED BY <2>1, <2>2
<1>7. Typed'
  <2>1. <<>> \in Seq(Byte)
    BY EmptySeq
  <2>2. PlayerName(Name) \in Seq(Letter)
    BY PlayerNameFacts
  <2>3. player' \in Seq(Letter) /\ up' \in Seq(Byte) /\ srv' = "colour"
    BY <1>1, <1>2, <2>1, <2>2
  <2>4. sends' # <<>> <=> srv' \in {"colour", "send"}
    BY <1>6, <2>3
  <2> HIDE DEF PlayerName
  <2>5. /\ frame' = frame /\ failed' = failed /\ cl' = cl /\ fd' = fd /\ ret' = ret
        /\ colour' = colour /\ clOut' = clOut /\ down' = down
        /\ asked' = asked /\ taken' = taken /\ sends' \in Seq(Sending)
    BY <1>1, <1>6
  <2>6. QED BY <2>3, <2>4, <2>5 DEF Typed
<1>8. Joined'
  BY <1>1 DEF Joined
<1>9. Phases'
  BY <1>1, <1>2, <1>3, <1>8 DEF Phases
<1>10. NameUnderWay'
  BY <1>1 DEF NameUnderWay
<1>11. MovesUnderWay'
  <2>1. Stream' = <<>>
    <3>1. Stream' = <<>> \o <<>>
      BY <1>1, <1>2 DEF Stream
    <3>2. QED BY <3>1
  <2>2. Len(<<>>) = 0
    BY EmptySeq
  <2>3. Len(Stream') = 0 /\ Len(asked') = 0 /\ Len(taken') = 0
    BY <1>1, <1>3, <2>1, <2>2
  <2>4. QED BY <2>3 DEF MovesUnderWay
<1>12. ColourUnderWay'
  <2>1. \A j \in 1 .. 7 : ~(j <= Len(down'))
    <3>1. Len(down') = 0
      BY <1>1, <1>3, EmptySeq
    <3>2. QED BY <3>1
  <2>2. down' \o sends'[1].bytes = packet
    BY <1>1, <1>3, <1>4, <1>6
  <2>3. QED BY <1>1, <1>2, <1>5, <1>6, <2>1, <2>2 DEF ColourUnderWay, packet
<1>13. InTable'
  BY <1>1, <1>2, <1>3 DEF InTable
<1>14. QED BY <1>7, <1>9, <1>10, <1>11, <1>12, <1>13

(* The server lets the client go.                                          *)
LEMMA RefusedStep ==
  ASSUME IInv, Refused \/ RecvMoveFails \/ CloseWindow
  PROVE  IInv'
<1> USE DEF IInv
<1>1. /\ srv \in {"name", "recv", "frame", "over"} /\ Close
      /\ UNCHANGED <<player, frame, clientVars, up, down, history>>
  BY DEF Refused, RecvMoveFails, CloseWindow
<1>2. down' = down /\ UNCHANGED <<player, frame, clientVars, up, asked, taken>>
  BY <1>1 DEF history
<1>3. down \in Seq(Byte)
  BY DEF Typed
<1>4. cl = "recvColour" =>
        \A j \in 1 .. 7 : j <= Len(down) => down[j] = ColourPacket(Colour)[j]
  BY DEF ColourUnderWay
<1>5. ServerCloses
  BY <1>1, <1>2, <1>3, <1>4 DEF ServerCloses
<1>6. QED BY <1>5, ServerClosesStep

-----------------------------------------------------------------------------
(* The server's steps: the frames.                                         *)

(* A move that is here is the first that was asked and not taken yet.      *)
LEMMA MoveReads ==
  ASSUME IInv, srv = "recv", MoveHere
  PROVE  /\ Len(taken) < Len(asked) /\ 8 <= Len(up)
         /\ asked[Len(taken) + 1] \in Int
         /\ Int32(SubSeq(up, 5, 8)) = asked[Len(taken) + 1]
<1> USE DEF IInv
<1>1. /\ up \in Seq(Byte) /\ Len(up) \in Nat /\ 8 <= Len(up)
      /\ asked \in Seq(Moves) /\ Len(asked) \in Nat /\ Len(taken) \in Nat
  BY AskedFacts, StreamFacts DEF Typed, MoveHere
<1>2. /\ Len(up) <= 8 * (Len(asked) - Len(taken))
      /\ \A j \in 1 .. Len(up) : up[j] = MoveByte(j)
  <2>1. /\ Len(Stream) <= 8 * (Len(asked) - Len(taken))
        /\ \A j \in 1 .. Len(Stream) : Stream[j] = MoveByte(j)
    BY DEF MovesUnderWay, Joined
  <2>2. /\ Len(up) <= Len(Stream) /\ Len(Stream) \in Nat
        /\ \A j \in 1 .. Len(up) : Stream[j] = up[j]
    BY StreamFacts, LenProperties
  <2>3. \A j \in 1 .. Len(up) : j \in 1 .. Len(Stream)
    BY <1>1, <2>2
  <2>4. QED BY <1>1, <2>1, <2>2, <2>3
<1>3. Len(taken) < Len(asked)
  BY <1>1, <1>2
<1> DEFINE dir == asked[Len(taken) + 1]
<1>4. dir \in Moves
  <2>1. Len(taken) + 1 \in 1 .. Len(asked)
    BY <1>1, <1>3
  <2>2. QED BY <1>1, <2>1, ElementOfSeq
<1>5. dir \in Int /\ -2147483647 - 1 <= dir /\ dir <= 2147483647
  <2> HIDE DEF dir
  <2>1. \A d \in Moves : d \in Int /\ -2147483647 - 1 <= d /\ d <= 2147483647
    BY SessionAssumption, SMT
  <2>2. QED BY <1>4, <2>1, SMT
<1>6. ASSUME NEW i \in 1 .. 4 PROVE up[4 + i] = Bytes32(dir)[i]
  <2>1. 4 + i \in 1 .. Len(up)
    BY <1>1
  <2>2. (4 + i) - 1 \in 0 .. 7 /\ ((4 + i) - 1) \div 8 = 0 /\ ((4 + i) - 1) % 8 = 3 + i
    OBVIOUS
  <2> DEFINE k == Len(taken) + 1 + (((4 + i) - 1) \div 8)
             m == 1 + (((4 + i) - 1) % 8)
  <2>3. MoveByte(4 + i) = MovePacket(asked[k])[m]
    BY DEF MoveByte
  <2>4. k = Len(taken) + 1 /\ m = 4 + i
    BY <1>1, <2>2
  <2> HIDE DEF k, m
  <2>5. MoveByte(4 + i) = MovePacket(dir)[4 + i]
    BY <2>3, <2>4
  <2> HIDE DEF dir
  <2>6. MovePacket(dir)[4 + i] = Bytes32(dir)[i]
    <3>1. dir \in Int
      BY <1>4, Types
    <3>2. QED BY <3>1, MovePacketFacts
  <2>7. QED BY <1>2, <2>1, <2>5, <2>6
<1> HIDE DEF dir
<1>7. SubSeq(up, 5, 8) = Bytes32(dir)
  <2>1. 4 + 4 <= Len(up) /\ 4 \in Nat /\ dir \in Int
    BY <1>1, <1>4, Types
  <2>2. SubSeq(up, 4 + 1, 4 + 4) = Bytes32(dir)
    BY <1>1, <1>6, <2>1, FourRead, Zenon
  <2>3. QED BY <2>2
<1>8. Int32(Bytes32(dir)) = dir
  BY <1>5, IntReadBack, SMT
<1>9. dir \in Int
  BY <1>4, Types
<1>10. QED BY <1>1, <1>3, <1>7, <1>8, <1>9 DEF dir

(* The last of the clamped directions is the next one.                     *)
LEMMA ClampIsNearest ==
  ASSUME NEW dir \in Int
  PROVE  Clamp(dir) \in 0 .. 3 /\ Nearest(dir) = Clamp(dir)
<1>1. Clamp(dir) \in 0 .. 3
  BY DEF Clamp
<1>2. \A e \in 0 .. 3 : Distance(dir, Clamp(dir)) <= Distance(dir, e)
  BY DEF Clamp, Distance
<1>3. ASSUME NEW d \in 0 .. 3, \A e \in 0 .. 3 : Distance(dir, d) <= Distance(dir, e)
      PROVE  d = Clamp(dir)
  <2>1. Distance(dir, d) <= Distance(dir, Clamp(dir))
    BY <1>1, <1>3
  <2>2. QED BY <2>1 DEF Clamp, Distance
<1> DEFINE Near(d) == \A e \in 0 .. 3 : Distance(dir, d) <= Distance(dir, e)
<1>4. Nearest(dir) = CHOOSE d \in 0 .. 3 : Near(d)
  BY DEF Nearest
<1>5. \E d \in 0 .. 3 : Near(d)
  BY <1>1, <1>2
<1>6. ASSUME NEW d \in 0 .. 3, Near(d) PROVE d = Clamp(dir)
  BY <1>3, <1>6
<1> HIDE DEF Near
<1>7. Nearest(dir) \in 0 .. 3 /\ Near(Nearest(dir))
  BY <1>4, <1>5
<1>8. QED BY <1>1, <1>6, <1>7

(* The server takes a move.                                                *)
LEMMA RecvMoveStep ==
  ASSUME IInv, RecvMove
  PROVE  IInv'
<1> USE DEF IInv
<1> DEFINE dir == Clamp(Int32(SubSeq(up, 5, 8)))
<1>1. /\ srv = "recv" /\ MoveHere
      /\ taken' = Append(taken, dir)
      /\ up' = WithoutFirst(up, 8)
      /\ srv' = "move" /\ player' = player /\ frame' = frame /\ sends' = sends
      /\ failed' = failed /\ cl' = cl /\ fd' = fd /\ ret' = ret
      /\ colour' = colour /\ clOut' = clOut /\ down' = down /\ asked' = asked
  BY DEF RecvMove, clientVars, WithoutFirst
<1>2. Len(taken) < Len(asked) /\ 8 <= Len(up) /\ dir \in 0 .. 3
  <2>1. Len(taken) < Len(asked) /\ 8 <= Len(up) /\ Int32(SubSeq(up, 5, 8)) \in Int
    BY <1>1, MoveReads
  <2>2. QED BY <2>1, ClampIsNearest
<1> HIDE DEF dir
<1>3. /\ up \in Seq(Byte) /\ clOut \in Seq(Byte) /\ taken \in Seq(0 .. 3)
      /\ Len(up) \in Nat /\ Len(clOut) \in Nat /\ Len(asked) \in Nat /\ Len(taken) \in Nat
  BY StreamFacts, AskedFacts DEF Typed
<1>4. /\ up' \in Seq(Byte) /\ Len(up') = Len(up) - 8
      /\ \A j \in 1 .. Len(up) - 8 : up'[j] = up[8 + j]
  <2> DEFINE rest == WithoutFirst(up, 8)
  <2>1. 8 \in Nat /\ 8 <= Len(up)
    BY <1>2
  <2>2. rest \in Seq(Byte) /\ Len(rest) = Len(up) - 8
    BY <1>3, <2>1, DropsKeep, Zenon
  <2>3. \A j \in 1 .. Len(up) - 8 : rest[j] = up[8 + j]
    BY <1>3, <2>1, DropsKeep, Zenon
  <2> HIDE DEF rest
  <2>4. up' = rest
    BY <1>1 DEF rest
  <2>5. QED BY <2>2, <2>3, <2>4
<1>5. taken' \in Seq(0 .. 3) /\ Len(taken') = Len(taken) + 1
  BY <1>1, <1>2, <1>3, AppendProperties
<1>6. Typed'
  BY <1>1, <1>4, <1>5 DEF Typed
<1>7. Joined /\ Joined' /\ srv \notin {"listening", "name"}
  BY <1>1 DEF Joined
<1>8. Phases'
  BY <1>1, <1>7 DEF Phases
<1>9. NameUnderWay'
  BY <1>1 DEF NameUnderWay
<1>10. MovesUnderWay'
  <2>1. /\ Len(Stream) = Len(up) + Len(clOut)
        /\ \A j \in 1 .. Len(up) : Stream[j] = up[j]
        /\ \A i \in 1 .. Len(clOut) : Stream[Len(up) + i] = clOut[i]
    BY <1>3, Joint, Zenon DEF Stream
  <2>2. /\ Len(Stream') = Len(up') + Len(clOut)
        /\ \A j \in 1 .. Len(up') : Stream'[j] = up'[j]
        /\ \A i \in 1 .. Len(clOut) : Stream'[Len(up') + i] = clOut[i]
    <3>1. Stream' = up' \o clOut
      BY <1>1 DEF Stream
    <3>2. ASSUME NEW u \in Seq(Byte)
          PROVE  /\ Len(u \o clOut) = Len(u) + Len(clOut)
                 /\ \A j \in 1 .. Len(u) : (u \o clOut)[j] = u[j]
                 /\ \A i \in 1 .. Len(clOut) : (u \o clOut)[Len(u) + i] = clOut[i]
      BY <1>3, Joint, Zenon
    <3>3. QED BY <1>4, <3>1, <3>2, Zenon
  <2>3. Len(Stream') = Len(Stream) - 8
    BY <1>3, <1>4, <2>1, <2>2
  <2>4. ASSUME NEW j \in 1 .. Len(Stream')
        PROVE  Stream'[j] = Stream[8 + j] /\ 8 + j \in 1 .. Len(Stream)
    <3>0. j \in Nat /\ 1 <= j /\ j <= Len(up) - 8 + Len(clOut)
      BY <1>3, <1>4, <2>2
    <3>1. 8 + j \in 1 .. Len(Stream)
      BY <1>3, <2>1, <3>0
    <3>2. CASE j <= Len(up) - 8
      <4>1. j \in 1 .. Len(up') /\ 8 + j \in 1 .. Len(up) /\ j \in 1 .. Len(up) - 8
        BY <1>2, <1>3, <1>4, <3>0, <3>2
      <4>2. QED BY <1>4, <2>1, <2>2, <3>1, <4>1
    <3>3. CASE ~(j <= Len(up) - 8)
      <4>1. j - (Len(up) - 8) \in 1 .. Len(clOut)
            /\ j = Len(up') + (j - (Len(up) - 8)) /\ 8 + j = Len(up) + (j - (Len(up) - 8))
        BY <1>2, <1>3, <1>4, <3>0, <3>3
      <4>2. PICK i \in 1 .. Len(clOut) : j = Len(up') + i /\ 8 + j = Len(up) + i
        BY <4>1
      <4>3. QED BY <2>1, <2>2, <3>1, <4>2
    <3>4. QED BY <3>2, <3>3
  <2>5. /\ Len(Stream) <= 8 * (Len(asked) - Len(taken))
        /\ \A j \in 1 .. Len(Stream) : Stream[j] = MoveByte(j)
        /\ ~ClientGone => Len(Stream) = 8 * (Len(asked) - Len(taken))
    BY <1>7 DEF MovesUnderWay
  <2>6. ASSUME NEW j \in Nat \ {0} PROVE MoveByte(j)' = MoveByte(8 + j)
    <3> DEFINE k == Len(taken) + 1 + (((8 + j) - 1) \div 8)
               m == 1 + (((8 + j) - 1) % 8)
               l == Len(taken') + 1 + ((j - 1) \div 8)
               n == 1 + ((j - 1) % 8)
    <3>1. MoveByte(8 + j) = MovePacket(asked[k])[m]
      BY DEF MoveByte
    <3>2. MoveByte(j)' = MovePacket(asked[l])[n]
      BY <1>1 DEF MoveByte
    <3>3. k = l /\ m = n
      <4>1. /\ ((8 + j) - 1) \div 8 = 1 + ((j - 1) \div 8)
            /\ ((8 + j) - 1) % 8 = (j - 1) % 8
        BY Eights
      <4>2. (j - 1) \div 8 \in Int
        OBVIOUS
      <4> DEFINE q == (j - 1) \div 8
                 t == Len(taken)
      <4>3. k = t + 1 + (1 + q) /\ l = Len(taken') + 1 + q /\ m = n
        BY <4>1 DEF k, l, m, n
      <4>4. q \in Int /\ t \in Int /\ Len(taken') = t + 1
        BY <1>3, <1>5, <4>2
      <4> HIDE DEF k, l, m, n, q, t
      <4>5. QED BY <4>3, <4>4
    <3> HIDE DEF k, l, m, n
    <3>4. QED BY <3>1, <3>2, <3>3
  <2>7. ASSUME NEW j \in 1 .. Len(Stream') PROVE Stream'[j] = MoveByte(j)'
    <3>1. j \in Nat \ {0}
      OBVIOUS
    <3>2. QED BY <2>4, <2>5, <2>6, <3>1
  <2>8. /\ Len(taken') <= Len(asked') /\ Len(Stream') <= 8 * (Len(asked') - Len(taken'))
        /\ ~ClientGone => Len(Stream') = 8 * (Len(asked') - Len(taken'))
    <3>1. Len(Stream) \in Nat
      BY <1>3, <2>1
    <3>2. QED BY <1>1, <1>2, <1>3, <1>5, <2>3, <2>5, <3>1
  <2>9. QED BY <1>1, <2>7, <2>8 DEF MovesUnderWay, ClientGone
<1>11. ColourUnderWay'
  BY <1>1, <1>7 DEF ColourUnderWay
<1>12. InTable'
  BY <1>1, <1>7 DEF InTable
<1>13. QED BY <1>6, <1>8, <1>9, <1>10, <1>11, <1>12

(* A frame times out, or ends.                                             *)
LEMMA FrameStep ==
  ASSUME IInv, \/ RecvTimeout \/ (\E over \in BOOLEAN : EndFrame(over))
  PROVE  IInv'
<1> USE DEF IInv
<1>1. /\ srv \in {"recv", "move"} /\ srv' \in {"frame", "over", "move"}
      /\ frame' \in 0 .. MaxFrame /\ (srv' = "move" => frame' < MaxFrame)
      /\ UNCHANGED <<player, sends, failed, clientVars, up, down, asked, taken>>
  <2>1. CASE RecvTimeout
    BY <2>1 DEF RecvTimeout, history, Typed
  <2>2. CASE \E over \in BOOLEAN : EndFrame(over)
    <3>1. /\ srv = "move" /\ frame' = frame + 1 /\ srv' \in {"frame", "over"}
          /\ UNCHANGED <<player, sends, failed, clientVars, up, down, asked, taken>>
      BY <2>2 DEF EndFrame, history
    <3>2. frame \in 0 .. MaxFrame /\ frame < MaxFrame /\ MaxFrame \in Nat
      BY <3>1, Types DEF Typed
    <3>3. QED BY <3>1, <3>2
  <2>3. QED BY <2>1, <2>2
<1>2. /\ player' = player /\ sends' = sends /\ failed' = failed /\ up' = up /\ down' = down
      /\ cl' = cl /\ fd' = fd /\ ret' = ret /\ colour' = colour /\ clOut' = clOut
      /\ asked' = asked /\ taken' = taken
  BY <1>1 DEF clientVars
<1>3. Typed'
  <2>1. sends = <<>> /\ srv' \notin {"colour", "send"} /\ srv' # "recv"
    BY <1>1 DEF Typed
  <2>2. srv' \in {"send", "recv", "move"} => frame' < MaxFrame
    BY <1>1, <2>1
  <2>3. QED BY <1>1, <1>2, <2>1, <2>2 DEF Typed
<1>4. Joined /\ Joined'
  BY <1>1 DEF Joined
<1>5. ColourUnderWay'
  BY <1>1, <1>2, <1>4 DEF ColourUnderWay
<1>6. ServerGoesOn
  BY <1>1, <1>4 DEF ServerGoesOn
<1>7. QED BY <1>3, <1>5, <1>6, ServerGoesOnStep

(* A snapshot of the worlds has players, sizes and a grid.                 *)
LEMMA ViewIsTyped ==
  ASSUME NEW world \in Worlds, NEW alive \in BOOLEAN, NEW name \in Seq(Letter),
         NEW number \in Nat
  PROVE  /\ View(world, alive, name, number) \in Snapshot
         /\ world.w \in Nat \ {0} /\ world.h \in Nat \ {0} /\ Len(world.grid) = world.w * world.h
<1>1. /\ world.x \in Word /\ world.y \in Word /\ world.others \in Seq(PlayerBlock)
      /\ world.w \in Nat \ {0} /\ world.h \in Nat \ {0} /\ world.grid \in Seq(Byte)
  <2>1. world \in [x : Word, y : Word, others : Seq(PlayerBlock), w : Nat \ {0},
                   h : Nat \ {0}, grid : Seq(Byte)]
    BY Types
  <2>2. QED BY <2>1
<1>2. Me(world, name) \in PlayerBlock
  <2>1. Colour \in [1 .. 3 -> Byte] /\ 1 \in Byte
    BY Types DEF Byte
  <2>2. QED BY <1>1, <2>1 DEF Me, PlayerBlock
<1> DEFINE mine == IF alive THEN <<Me(world, name)>> ELSE <<>>
<1>3. mine \in Seq(PlayerBlock)
  BY <1>2
<1> HIDE DEF mine
<1>4. mine \o world.others \in Seq(PlayerBlock)
  BY <1>1, <1>3, ConcatProperties
<1> DEFINE them == mine \o world.others
<1>5. View(world, alive, name, number) =
        [w |-> world.w, h |-> world.h, players |-> them, frame |-> number, grid |-> world.grid]
  BY DEF View, mine
<1>6. them \in Seq(PlayerBlock)
  BY <1>4
<1> HIDE DEF them
<1>7. View(world, alive, name, number) \in Snapshot
  BY <1>1, <1>5, <1>6 DEF Snapshot
<1>8. QED BY <1>1, <1>7, Types

(* So has the one that is sent.                                            *)
LEMMA SnapshotIsTyped ==
  ASSUME IInv, NEW world \in Worlds, NEW alive \in BOOLEAN
  PROVE  SnapshotOf(world, alive) \in Snapshot
<1>1. player \in Seq(Letter) /\ frame \in Nat
  <2>1. frame \in 0 .. MaxFrame /\ MaxFrame \in Nat /\ player \in Seq(Letter)
    BY Types DEF IInv, Typed
  <2>2. QED BY <2>1
<1>2. QED BY <1>1, ViewIsTyped DEF SnapshotOf

(* The server begins to send a snapshot.                                   *)
LEMMA SendStateStep ==
  ASSUME IInv, NEW world \in Worlds, NEW alive \in BOOLEAN, SendState(world, alive)
  PROVE  IInv'
<1> USE DEF IInv
<1> DEFINE calls == StateSends(SnapshotOf(world, alive))
<1>1. /\ srv = "frame" /\ frame < MaxFrame /\ srv' = "send" /\ sends' = calls
      /\ failed' = FALSE /\ player' = player /\ frame' = frame
      /\ up' = up /\ down' = down
      /\ cl' = cl /\ fd' = fd /\ ret' = ret /\ colour' = colour /\ clOut' = clOut
      /\ asked' = asked /\ taken' = taken
  BY DEF SendState, clientVars, history
<1>2. calls \in Seq(Sending) /\ calls # <<>>
  BY SnapshotIsTyped, StateSendsTyped
<1> HIDE DEF calls
<1>3. Typed'
  BY <1>1, <1>2 DEF Typed
<1>4. Joined /\ Joined'
  BY <1>1 DEF Joined
<1>5. ColourUnderWay'
  BY <1>1, <1>4 DEF ColourUnderWay
<1>6. ServerGoesOn
  BY <1>1, <1>4 DEF ServerGoesOn, clientVars
<1>7. QED BY <1>3, <1>5, <1>6, ServerGoesOnStep

(* A call has returned; down' is what the connection then holds.           *)
LEMMA CallReturnsStep ==
  ASSUME IInv, srv \in {"colour", "send"}, NEW error \in BOOLEAN, CallReturns(error),
         down' \in Seq(Byte),
         cl = "recvColour" =>
           /\ \A j \in 1 .. 7 : j <= Len(down') => down'[j] = ColourPacket(Colour)[j]
           /\ srv' # "closed" => 7 <= Len(down'),
         UNCHANGED <<player, frame, clientVars, up, asked, taken>>
  PROVE  IInv'
<1> USE DEF IInv
<1>1. sends # <<>> /\ sends \in Seq(Sending)
  BY DEF Typed
<1>2. Tail(sends) \in Seq(Sending) /\ Call = sends[1] /\ Len(Tail(sends)) = Len(sends) - 1
  BY <1>1, FirstSendTyped DEF Call
<1>3. Joined
  BY DEF Joined
<1>4. srv = "colour" => Tail(sends) = <<>> /\ Call.of = 0
  <2>1. srv = "colour" => Len(sends) = 1 /\ sends[1].of = 0
    BY DEF ColourUnderWay
  <2>2. srv = "colour" => Len(Tail(sends)) = 0
    <3> DEFINE rest == Tail(sends)
    <3>1. Len(rest) = Len(sends) - 1
      BY <1>2
    <3> HIDE DEF rest
    <3>2. srv = "colour" => Len(rest) = 0
      BY <2>1, <3>1
    <3>3. QED BY <3>2 DEF rest
  <2>3. QED BY <1>2, <2>1, <2>2, EmptySeq
<1>5. CASE Close
  <2>1. srv # "listening" /\ (down' # <<>> => down # <<>> \/ Joined)
    BY <1>3
  <2>2. ServerCloses
    BY <1>5, <2>1 DEF ServerCloses
  <2>3. QED BY <2>2, ServerClosesStep
<1>6. CASE ~Close
  <2>1. \/ srv = "send" /\ srv' = "send" /\ sends' = Tail(sends) /\ sends' # <<>>
             /\ failed' \in BOOLEAN
        \/ srv' \in {"frame", "recv"} /\ sends' = <<>> /\ failed' \in BOOLEAN
    <3> DEFINE goOn == Call.of # 0 /\ Head(Tail(sends)).of = Call.of
    <3>1. IF error /\ ~goOn
          THEN Close
          ELSE IF Tail(sends) # <<>>
          THEN sends' = Tail(sends) /\ failed' = error /\ srv' = srv
          ELSE /\ sends' = <<>> /\ failed' = FALSE
               /\ srv' \in {"frame", "recv"}
      BY DEF CallReturns
    <3> HIDE DEF goOn
    <3>2. QED BY <1>4, <1>6, <3>1
  <2>2. /\ player' = player /\ frame' = frame /\ up' = up /\ cl' = cl /\ fd' = fd /\ ret' = ret
        /\ colour' = colour /\ clOut' = clOut /\ asked' = asked /\ taken' = taken
    BY DEF clientVars
  <2>3. <<>> \in Seq(Sending)
    BY EmptySeq
  <2>4. srv' \in {"frame", "recv", "send"} /\ sends' \in Seq(Sending) /\ failed' \in BOOLEAN
        /\ (sends' # <<>> <=> srv' \in {"colour", "send"})
    BY <1>2, <2>1, <2>3
  <2>5. srv' = "recv" => srv = "send"
    <3>1. srv = "colour" => srv' # "recv"
      BY <1>4, <1>6 DEF CallReturns
    <3>2. QED BY <3>1
  <2>6. srv' \in {"send", "recv", "move"} => frame' < MaxFrame
    BY <2>1, <2>2, <2>4, <2>5 DEF Typed
  <2>7. Typed'
    BY <2>2, <2>4, <2>6 DEF Typed
  <2>8. ColourUnderWay'
    BY <2>2, <2>4 DEF ColourUnderWay
  <2>9. ServerGoesOn
    BY <1>3, <2>4 DEF ServerGoesOn
  <2>10. QED BY <2>7, <2>8, <2>9, ServerGoesOnStep
<1>7. QED BY <1>5, <1>6

(* A send of the server fails.                                             *)
LEMMA PushFailsStep ==
  ASSUME IInv, PushFails
  PROVE  IInv'
<1> USE DEF IInv
<1>1. /\ srv \in {"colour", "send"} /\ (srv = "colour" => ClientGone) /\ CallReturns(TRUE)
      /\ down' = down /\ UNCHANGED <<player, frame, clientVars, up, asked, taken>>
  BY DEF PushFails
<1>2. down' \in Seq(Byte)
  BY <1>1 DEF Typed
<1>3. cl = "recvColour" =>
        /\ \A j \in 1 .. 7 : j <= Len(down') => down'[j] = ColourPacket(Colour)[j]
        /\ srv' # "closed" => 7 <= Len(down')
  BY <1>1 DEF ColourUnderWay, ClientGone, Joined
<1>4. QED BY <1>1, <1>2, <1>3, CallReturnsStep

(* What a push leaves in the connection.                                   *)
LEMMA DownGrows ==
  ASSUME IInv, srv \in {"colour", "send"},
         NEW calls, calls = sends[1].bytes, NEW n \in 0 .. Len(calls),
         down' = IF ClientGone THEN down ELSE down \o FirstOf(calls, n)
  PROVE  /\ calls \in Seq(Byte) /\ down' \in Seq(Byte)
         /\ cl = "recvColour" =>
              /\ \A j \in 1 .. 7 : j <= Len(down') => down'[j] = ColourPacket(Colour)[j]
              /\ srv = "send" => 7 <= Len(down')
              /\ srv = "colour" /\ n = Len(calls) => 7 <= Len(down')
              /\ srv = "colour" => down' \o WithoutFirst(calls, n) = ColourPacket(Colour)
<1> USE DEF IInv
<1>1. down \in Seq(Byte) /\ calls \in Seq(Byte) /\ Len(down) \in Nat /\ Len(calls) \in Nat
  <2>1. sends # <<>>
    BY DEF Typed
  <2>2. calls \in Seq(Byte)
    BY <2>1, FirstSendTyped
  <2>3. down \in Seq(Byte)
    BY DEF Typed
  <2>4. QED BY <2>2, <2>3, LenProperties
<1> DEFINE piece == FirstOf(calls, n)
           rest == WithoutFirst(calls, n)
           packet == ColourPacket(Colour)
<1>2. piece \in Seq(Byte) /\ rest \in Seq(Byte) /\ Len(rest) = Len(calls) - n
  BY <1>1, PushLeaves, Zenon
<1>3. (down \o piece) \o rest = down \o calls
  <2>1. Rejoined(down, calls, n) = down \o calls
    BY <1>1, PushIsWhole, Zenon
  <2>2. QED BY <2>1 DEF Rejoined
<1>4. packet \in Seq(Byte) /\ Len(packet) = 7
  BY ColourPacketFacts
<1>5. down' = IF ClientGone THEN down ELSE down \o piece
  OBVIOUS
<1> HIDE DEF piece, rest, packet
<1> DEFINE more == down \o piece
<1>6. /\ more \in Seq(Byte) /\ Len(piece) \in Nat /\ Len(rest) \in Nat
      /\ Len(more) = Len(down) + Len(piece)
      /\ \A i \in 1 .. Len(down) : more[i] = down[i]
  BY <1>1, <1>2, Joint, Zenon, LenProperties
<1>7. down' \in Seq(Byte)
  BY <1>1, <1>5, <1>6
<1>8. ASSUME cl = "recvColour", srv = "send"
      PROVE  /\ 7 <= Len(more) /\ \A j \in 1 .. 7 : more[j] = packet[j]
  <2>1. 7 <= Len(down) /\ \A j \in 1 .. 7 : j <= Len(down) => down[j] = packet[j]
    BY <1>8 DEF ColourUnderWay, Joined, packet
  <2> HIDE DEF more
  <2>2. \A j \in 1 .. 7 : j \in 1 .. Len(down) /\ j <= Len(down)
    BY <1>1, <2>1
  <2>3. QED BY <1>1, <1>6, <2>1, <2>2
<1>9. ASSUME cl = "recvColour", srv = "colour"
      PROVE  /\ more \o rest = packet
             /\ \A j \in 1 .. 7 : j <= Len(more) => more[j] = packet[j]
             /\ n = Len(calls) => 7 <= Len(more)
  <2>1. down \o calls = packet
    BY <1>9 DEF ColourUnderWay, packet
  <2>2. more \o rest = packet
    BY <1>3, <2>1
  <2> HIDE DEF more
  <2>3. /\ Len(more \o rest) = Len(more) + Len(rest)
        /\ \A i \in 1 .. Len(more) : (more \o rest)[i] = more[i]
    BY <1>2, <1>6, Joint, Zenon
  <2>4. /\ 7 = Len(more) + Len(rest) /\ \A i \in 1 .. Len(more) : packet[i] = more[i]
    BY <1>4, <2>2, <2>3
  <2>5. Len(more) \in Nat
    BY <1>6, LenProperties
  <2>6. ASSUME NEW j \in 1 .. 7, j <= Len(more) PROVE more[j] = packet[j]
    <3>1. j \in 1 .. Len(more)
      BY <2>5, <2>6
    <3>2. QED BY <2>4, <3>1
  <2>7. n = Len(calls) => 7 <= Len(more)
    <3>1. n = Len(calls) => Len(rest) = 0
      BY <1>1, <1>2
    <3>2. 7 = Len(more) + Len(rest)
      BY <2>4
    <3> DEFINE l == Len(more)
               r == Len(rest)
    <3>3. ASSUME n = Len(calls) PROVE 7 <= l
      <4>1. r = 0 /\ 7 = l + r /\ l \in Nat
        BY <2>5, <3>1, <3>2, <3>3
      <4> HIDE DEF l, r
      <4>2. QED BY <4>1
    <3>4. QED BY <3>3
  <2>8. QED BY <2>2, <2>6, <2>7
<1>10. cl = "recvColour" => down' = more
  BY <1>5 DEF ClientGone
<1> HIDE DEF more
<1>11. cl = "recvColour" /\ srv = "send" =>
         7 <= Len(down') /\ \A j \in 1 .. 7 : down'[j] = packet[j]
  BY <1>8, <1>10
<1>12. cl = "recvColour" /\ srv = "colour" =>
         /\ down' \o rest = packet
         /\ \A j \in 1 .. 7 : j <= Len(down') => down'[j] = packet[j]
         /\ n = Len(calls) => 7 <= Len(down')
  BY <1>9, <1>10
<1>13. QED BY <1>1, <1>7, <1>11, <1>12 DEF packet, rest

(* The server sends some of the bytes of a call.                           *)
LEMMA ServerPushStep ==
  ASSUME IInv, sends # <<>>, NEW n \in Pushed(Call.bytes), ServerPush(n)
  PROVE  IInv'
<1> USE DEF IInv
<1>0. PICK calls : calls = sends[1].bytes
  OBVIOUS
<1>1. Call = sends[1] /\ Call.bytes = calls /\ calls \in Seq(Byte)
  BY <1>0, FirstSendTyped DEF Call
<1>2. /\ srv \in {"colour", "send"}
      /\ down' = IF ClientGone THEN down ELSE down \o FirstOf(calls, n)
      /\ IF n < Len(calls)
         THEN /\ sends' = [sends EXCEPT ![1].bytes = SubSeq(@, n + 1, Len(@))]
              /\ srv' = srv /\ failed' = failed
         ELSE CallReturns(failed)
      /\ UNCHANGED <<player, frame, clientVars, up, asked, taken>>
  BY <1>1 DEF ServerPush, FirstOf
<1>3. n \in 0 .. Len(calls) /\ Len(calls) \in Nat
  BY <1>1, PushedFacts, LenProperties
<1>4. /\ down' \in Seq(Byte)
      /\ cl = "recvColour" =>
           /\ \A j \in 1 .. 7 : j <= Len(down') => down'[j] = ColourPacket(Colour)[j]
           /\ srv = "send" => 7 <= Len(down')
           /\ srv = "colour" /\ n = Len(calls) => 7 <= Len(down')
           /\ srv = "colour" => down' \o WithoutFirst(calls, n) = ColourPacket(Colour)
  BY <1>0, <1>2, <1>3, DownGrows
<1>5. CASE n < Len(calls)
  <2> DEFINE rest == WithoutFirst(calls, n)
  <2>1. rest \in Seq(Byte) /\ Len(rest) = Len(calls) - n
    BY <1>1, <1>3, PushLeaves, Zenon
  <2>2. sends \in Seq(Sending) /\ 1 \in 1 .. Len(sends) /\ Len(sends) \in Nat
        /\ sends[1] \in Sending
    BY FirstSendTyped, LenProperties DEF Typed
  <2>3. sends' = [sends EXCEPT ![1] = [sends[1] EXCEPT !.bytes = rest]]
    BY <1>0, <1>2, <1>5 DEF WithoutFirst
  <2> HIDE DEF rest
  <2>4. rest # <<>>
    <3>1. Len(rest) # 0
      BY <1>3, <1>5, <2>1
    <3>2. QED BY <3>1, EmptySeq
  <2>5. [sends[1] EXCEPT !.bytes = rest] \in Sending
        /\ [sends[1] EXCEPT !.bytes = rest].of = sends[1].of
        /\ [sends[1] EXCEPT !.bytes = rest].bytes = rest
    BY <2>1, <2>2 DEF Sending
  <2>6. sends' \in Seq(Sending) /\ Len(sends') = Len(sends)
        /\ sends'[1] = [sends[1] EXCEPT !.bytes = rest]
    BY <2>2, <2>3, <2>5, ExceptSeq
  <2>7. sends' # <<>>
    <3>1. Len(sends') # 0
      BY <2>2, <2>6
    <3>2. QED BY <3>1, EmptySeq
  <2>8. /\ player' = player /\ frame' = frame /\ up' = up /\ cl' = cl /\ fd' = fd /\ ret' = ret
        /\ colour' = colour /\ clOut' = clOut /\ asked' = asked /\ taken' = taken
        /\ srv' = srv /\ failed' = failed
    BY <1>2, <1>5 DEF clientVars
  <2>9. Typed'
    BY <1>2, <1>4, <2>6, <2>7, <2>8 DEF Typed
  <2>10. srv = "colour" => sends'[1].of = 0 /\ sends'[1].bytes = rest /\ Len(sends') = 1
                           /\ cl \in {"recvColour", "ended"}
    BY <2>5, <2>6 DEF ColourUnderWay
  <2>11. ColourUnderWay'
    <3>1. cl = "recvColour" /\ srv = "colour" => down' \o rest = ColourPacket(Colour)
      BY <1>4 DEF rest
    <3>2. srv = "colour" => sends'[1].bytes = rest
      BY <2>10
    <3>3. cl = "recvColour" /\ srv = "colour" => down' \o sends'[1].bytes = ColourPacket(Colour)
      BY <3>1, <3>2
    <3>4. srv' # "colour" => srv = "send"
      BY <1>2, <2>8
    <3>5. cl = "recvColour" =>
            /\ \A j \in 1 .. 7 : j <= Len(down') => down'[j] = ColourPacket(Colour)[j]
            /\ srv # "colour" => 7 <= Len(down')
      BY <1>2, <1>4
    <3>6. srv = "colour" => sends'[1].bytes # <<>>
      BY <2>4, <3>2
    <3>7. QED BY <2>8, <2>10, <3>3, <3>5, <3>6 DEF ColourUnderWay
  <2>12. ServerGoesOn
    BY <1>2, <2>8 DEF ServerGoesOn, Joined
  <2>13. QED BY <2>9, <2>11, <2>12, ServerGoesOnStep
<1>6. CASE ~(n < Len(calls))
  <2>1. CallReturns(failed) /\ n = Len(calls) /\ failed \in BOOLEAN
    BY <1>2, <1>3, <1>6 DEF Typed
  <2>2. cl = "recvColour" =>
          /\ \A j \in 1 .. 7 : j <= Len(down') => down'[j] = ColourPacket(Colour)[j]
          /\ 7 <= Len(down')
    BY <1>2, <1>4, <2>1
  <2>3. PICK error \in BOOLEAN : error = failed
    BY <2>1
  <2>4. CallReturns(error)
    BY <2>1, <2>3
  <2>5. QED BY <1>2, <1>4, <2>2, <2>4, CallReturnsStep
<1>7. QED BY <1>5, <1>6

-----------------------------------------------------------------------------
(* The invariant holds before anyone connects.                             *)
LEMMA InitHolds == Init => IInv
<1> SUFFICES ASSUME Init PROVE IInv
  OBVIOUS
<1> USE DEF Init
<1>1. <<>> \in Seq(Byte) /\ <<>> \in Seq(Letter) /\ <<>> \in Seq(Sending)
      /\ <<>> \in Seq(Moves) /\ <<>> \in Seq(0 .. 3) /\ Len(<<>>) = 0
  BY EmptySeq
<1>2. NoColour \in [1 .. 3 -> Byte] /\ 0 \in 0 .. MaxFrame
  BY Types DEF NoColour, Byte
<1>3. Typed
  BY <1>1, <1>2 DEF Typed
<1>4. Phases /\ NameUnderWay /\ MovesUnderWay /\ ColourUnderWay /\ InTable
  BY DEF Phases, NameUnderWay, MovesUnderWay, ColourUnderWay, InTable, Joined, Pending
<1>5. QED BY <1>3, <1>4 DEF IInv

(* It holds while nothing happens.                                         *)
LEMMA StillHolds == IInv /\ UNCHANGED vars => IInv'
<1> SUFFICES ASSUME IInv, UNCHANGED vars PROVE IInv'
  OBVIOUS
<1>1. /\ cl' = cl /\ fd' = fd /\ ret' = ret /\ colour' = colour /\ clOut' = clOut
      /\ srv' = srv /\ player' = player /\ frame' = frame /\ sends' = sends
      /\ failed' = failed /\ up' = up /\ down' = down /\ asked' = asked /\ taken' = taken
  BY DEF vars, clientVars, serverVars, history
<1>2. Typed' /\ Phases'
  BY <1>1 DEF IInv, Typed, Phases, Joined
<1>3. NameUnderWay' /\ MovesUnderWay'
  BY <1>1, StreamsStay DEF ClientGone
<1>4. ColourUnderWay' /\ InTable'
  BY <1>1 DEF IInv, ColourUnderWay, InTable, Joined
<1>5. QED BY <1>2, <1>3, <1>4 DEF IInv

(* Every step of the server keeps the invariant.                           *)
LEMMA ServerSteps ==
  ASSUME IInv, ServerStep \/ CloseWindow
  PROVE  IInv'
<1>1. CASE RecvName
  BY <1>1, RecvNameStep
<1>2. CASE Refused \/ RecvMoveFails \/ CloseWindow
  BY <1>2, RefusedStep
<1>3. CASE PushFails
  BY <1>3, PushFailsStep
<1>4. CASE RecvMove
  BY <1>4, RecvMoveStep
<1>5. CASE RecvTimeout \/ (\E over \in BOOLEAN : EndFrame(over))
  BY <1>5, FrameStep
<1>6. CASE \E world \in Worlds, alive \in BOOLEAN : SendState(world, alive)
  BY <1>6, SendStateStep
<1>7. CASE sends # <<>> /\ \E n \in Pushed(Call.bytes) : ServerPush(n)
  BY <1>7, ServerPushStep
<1>8. QED BY <1>1, <1>2, <1>3, <1>4, <1>5, <1>6, <1>7 DEF ServerStep

(* Whatever the bytes are cut into and wherever either end stops, the two  *)
(* connections hold what the phases of both ends say they hold.            *)
THEOREM SessionInductive == Spec => []IInv
<1>1. IInv /\ [Next]_vars => IInv'
  <2> SUFFICES ASSUME IInv, [Next]_vars PROVE IInv'
    OBVIOUS
  <2>1. CASE \E ok \in BOOLEAN : CreateSocket(ok)
    BY <2>1, CreateSocketStep
  <2>2. CASE ClientSends \/ ClientReceives \/ ClientCrash
    BY <2>2, ClientStep
  <2>3. CASE ServerStep \/ CloseWindow
    BY <2>3, ServerSteps
  <2>4. CASE UNCHANGED vars
    BY <2>4, StillHolds
  <2>5. QED BY <2>1, <2>2, <2>3, <2>4 DEF Next
<1>2. QED BY <1>1, InitHolds, PTL DEF Spec

(* Every variable of the client, the server and the connection keeps its   *)
(* type, and the server has calls of send_all to make exactly while it     *)
(* sends.                                                                  *)
THEOREM SessionTypeCorrect == Spec => []TypeOK
<1>1. IInv => TypeOK
  <2> SUFFICES ASSUME IInv PROVE TypeOK
    OBVIOUS
  <2>1. Typed /\ Phases
    BY DEF IInv
  <2>2. (sends # <<>>) = (srv \in {"colour", "send"})
    <3>1. sends # <<>> <=> srv \in {"colour", "send"}
      BY <2>1 DEF Typed
    <3>2. CASE srv \in {"colour", "send"}
      <4>1. (sends # <<>>) = TRUE
        BY <3>1, <3>2
      <4>2. (srv \in {"colour", "send"}) = TRUE
        BY <3>2
      <4>3. QED BY <4>1, <4>2
    <3>3. CASE srv \notin {"colour", "send"}
      <4>1. (sends # <<>>) = FALSE
        BY <3>1, <3>3
      <4>2. (srv \in {"colour", "send"}) = FALSE
        BY <3>3
      <4>3. QED BY <4>1, <4>2
    <3>4. QED BY <3>2, <3>3
  <2>3. srv = "listening" => fd # "socket"
    BY <2>1 DEF Phases
  <2>4. {clOut, up, down} \subseteq Seq(Byte)
    BY <2>1 DEF Typed
  <2>5. QED BY <2>1, <2>2, <2>3, <2>4 DEF Typed, TypeOK
<1>2. QED BY <1>1, SessionInductive, PTL

(* cycles_connect returns 0 only to a client with a connection of its own, *)
(* a player in the table under what fits of its name, and the colour the   *)
(* server gave it.                                                         *)
THEOREM ConnectedIsJoined == Spec => []ConnectedMeansJoined
<1>1. IInv => ConnectedMeansJoined
  <2> SUFFICES ASSUME IInv, ret = 0
               PROVE  /\ fd = "socket" /\ colour = Colour
                      /\ Len(player) <= NameLimit
                      /\ IsPrefix(player, Name)
                      /\ Len(player) < Len(Name) => Len(player) = NameLimit
    BY DEF ConnectedMeansJoined
  <2>1. player = PlayerName(Name) /\ fd = "socket" /\ colour = Colour
    BY DEF IInv, InTable
  <2>2. Len(Name) \in Nat /\ NameLimit \in Nat /\ Len(player) \in Nat
    BY <2>1, Types, PlayerNameFacts, LenProperties
  <2>3. /\ Len(player) <= NameLimit /\ Len(player) <= Len(Name)
        /\ Len(player) < Len(Name) => Len(player) = NameLimit
        /\ \A i \in 1 .. Len(player) : player[i] = Name[i]
    BY <2>1, <2>2, PlayerNameFacts
  <2>4. IsPrefix(player, Name)
    BY <2>3 DEF IsPrefix
  <2>5. QED BY <2>1, <2>3, <2>4
<1>2. QED BY <1>1, SessionInductive, PTL

-----------------------------------------------------------------------------
(* The moves up are a channel.                                             *)

(* What the server will take for the moves the client has asked for.       *)
Wanted == [i \in DOMAIN asked |-> Nearest(asked[i])]

(* What the channel has delivered is a sequence of directions.             *)
WantedFits ==
  /\ Wanted \in Seq(0 .. 3) /\ Len(Wanted) = Len(asked)
  /\ \A i \in 1 .. Len(asked) : Wanted[i] = Nearest(asked[i])

(* The moves taken, as the channel has them, are moves.                    *)
LEMMA WantedFacts == Typed => WantedFits
<1> SUFFICES ASSUME Typed PROVE WantedFits
  OBVIOUS
<1> USE DEF WantedFits
<1>1. asked \in Seq(Moves) /\ DOMAIN asked = 1 .. Len(asked) /\ Len(asked) \in Nat
  BY LenProperties DEF Typed
<1>2. \A i \in 1 .. Len(asked) : Nearest(asked[i]) \in 0 .. 3
  <2>1. ASSUME NEW i \in 1 .. Len(asked) PROVE Nearest(asked[i]) \in 0 .. 3
    <3>1. asked[i] \in Int
      BY <1>1, ElementOfSeq, Types
    <3>2. QED BY <3>1, ClampIsNearest
  <2>2. QED BY <2>1
<1> HIDE DEF Nearest
<1>3. Wanted = [i \in 1 .. Len(asked) |-> Nearest(asked[i])]
  BY <1>1 DEF Wanted
<1>4. QED BY <1>1, <1>2, <1>3

(* The beginning of a longer sequence.                                     *)
LEMMA FirstIsSame ==
  ASSUME NEW s \in Seq(0 .. 3), NEW t \in Seq(0 .. 3), Len(t) = Len(s) + 1,
         \A i \in 1 .. Len(s) : t[i] = s[i]
  PROVE  SubSeq(t, 1, Len(s)) = s
<1>1. Len(s) \in Nat
  BY LenProperties
<1> DEFINE n == Len(s)
           piece == SubSeq(t, 1, n)
<1>2. \A i \in 1 .. n : t[i] \in 0 .. 3
  BY ElementOfSeq
<1>3. /\ piece \in Seq(0 .. 3) /\ Len(piece) = IF 1 <= n THEN n - 1 + 1 ELSE 0
      /\ \A i \in 1 .. n - 1 + 1 : piece[i] = t[1 + i - 1]
  BY <1>1, <1>2, SubSeqProperties
<1> HIDE DEF piece
<1>4. Len(piece) = n /\ n - 1 + 1 = n
  BY <1>1, <1>3
<1>5. ASSUME NEW i \in 1 .. n PROVE piece[i] = s[i]
  <2>1. 1 + i - 1 = i /\ i \in 1 .. n - 1 + 1
    BY <1>4
  <2>2. QED BY <1>3, <2>1
<1>6. piece = s
  BY <1>3, <1>4, <1>5, SeqEqual
<1>7. QED BY <1>6 DEF piece

(* Only two actions touch the moves asked for and the moves taken.         *)
LEMMA MovesAreKept ==
  ASSUME Next, ~RecvMove, ~(\E dir \in Moves : SendMove(dir))
  PROVE  asked' = asked /\ taken' = taken
<1>1. CASE \E ok \in BOOLEAN : CreateSocket(ok)
  BY <1>1 DEF CreateSocket, history
<1>2. CASE ClientSends
  BY <1>2 DEF ClientSends, SendNameFails, SendMoveFails, ClientPush, ConnectFails, ClientEnds,
              history
<1>3. CASE ClientReceives
  BY <1>3 DEF ClientReceives, RecvColour, RecvColourFails, RecvState, RecvStateFails, Leave,
              ConnectFails, ClientEnds, history
<1>4. CASE ClientCrash
  BY <1>4 DEF ClientCrash, ClientEnds, history
<1>5. CASE ServerStep
  BY <1>5 DEF ServerStep, RecvName, Refused, PushFails, RecvMoveFails, RecvTimeout, SendState,
              ServerPush, EndFrame, history
<1>6. CASE CloseWindow
  BY <1>6 DEF CloseWindow, history
<1>7. QED BY <1>1, <1>2, <1>3, <1>4, <1>5, <1>6 DEF Next

(* The server takes the moves the client has asked for, in order, none of  *)
(* them twice and each as the nearest direction: the directions taken are  *)
(* what a channel delivers of the moves asked for.                         *)
THEOREM MovesArriveInOrder == Spec => MovesDelivered
<1>1. Init => MovesUp!ChannelInit
  <2> SUFFICES ASSUME Init PROVE MovesUp!ChannelInit
    OBVIOUS
  <2>1. asked = <<>> /\ taken = <<>> /\ Typed
    BY InitHolds DEF Init, IInv
  <2>2. Len(Wanted) = 0 /\ Wanted \in Seq(0 .. 3)
    BY <2>1, WantedFacts, EmptySeq DEF WantedFits
  <2>3. Wanted = <<>>
    BY <2>2, EmptySeq
  <2>4. QED BY <2>1, <2>3 DEF MovesUp!ChannelInit, Wanted
<1>2. IInv /\ IInv' /\ [Next]_vars => [MovesUp!Send \/ MovesUp!Deliver]_(MovesUp!channelVars)
  <2> SUFFICES ASSUME IInv, IInv', [Next]_vars
               PROVE  [MovesUp!Send \/ MovesUp!Deliver]_(MovesUp!channelVars)
    OBVIOUS
  <2>1. Typed /\ Typed'
    BY DEF IInv
  <2>2. /\ Wanted \in Seq(0 .. 3) /\ Len(Wanted) = Len(asked)
        /\ \A i \in 1 .. Len(asked) : Wanted[i] = Nearest(asked[i])
    BY <2>1, WantedFacts DEF WantedFits
  <2>3. WantedFits'
    <3>1. Typed' => WantedFits'
      BY WantedFacts, PTL
    <3>2. QED BY <2>1, <3>1
  <2>4. CASE \E dir \in Moves : SendMove(dir)
    <3> PICK dir \in Moves : SendMove(dir)
      BY <2>4
    <3>1. asked' = Append(asked, dir) /\ taken' = taken
      BY DEF SendMove
    <3>2. asked \in Seq(Moves) /\ Len(asked) \in Nat
      BY <2>1, LenProperties DEF Typed
    <3>3. /\ Len(asked') = Len(asked) + 1
          /\ \A i \in 1 .. Len(asked) : asked'[i] = asked[i]
      BY <3>1, <3>2, AppendProperties
    <3>4. /\ Wanted' \in Seq(0 .. 3) /\ Len(Wanted') = Len(Wanted) + 1
          /\ \A i \in 1 .. Len(asked) : Wanted'[i] = Wanted[i]
      <4>1. /\ Wanted' \in Seq(0 .. 3) /\ Len(Wanted') = Len(asked')
            /\ \A i \in 1 .. Len(asked') : Wanted'[i] = Nearest(asked'[i])
        BY <2>3 DEF WantedFits
      <4>2. \A i \in 1 .. Len(asked) : i \in 1 .. Len(asked')
        BY <3>2, <3>3
      <4>3. \A i \in 1 .. Len(asked) : Wanted'[i] = Wanted[i]
        BY <2>2, <3>3, <4>1, <4>2
      <4>4. QED BY <2>2, <3>3, <4>1, <4>3
    <3>5. SubSeq(Wanted', 1, Len(Wanted)) = Wanted
      BY <2>2, <3>2, <3>4, FirstIsSame
    <3>6. MovesUp!Send
      BY <3>1, <3>4, <3>5 DEF MovesUp!Send, Wanted
    <3>7. QED BY <3>6
  <2>5. CASE RecvMove
    <3>1. /\ taken' = Append(taken, Clamp(Int32(SubSeq(up, 5, 8)))) /\ asked' = asked
          /\ srv = "recv" /\ MoveHere
      BY <2>5 DEF RecvMove
    <3>2. /\ Len(taken) < Len(asked) /\ asked[Len(taken) + 1] \in Int
          /\ Int32(SubSeq(up, 5, 8)) = asked[Len(taken) + 1]
      BY <3>1, MoveReads
    <3>3. Clamp(Int32(SubSeq(up, 5, 8))) = Nearest(asked[Len(taken) + 1])
      BY <3>2, ClampIsNearest
    <3>4. Len(taken) + 1 \in 1 .. Len(asked)
      BY <2>1, <3>2, AskedFacts
    <3>5. taken' = Append(taken, Wanted[Len(taken) + 1]) /\ Len(taken) < Len(Wanted)
      BY <2>2, <3>1, <3>2, <3>3, <3>4
    <3>6. Wanted' = Wanted
      BY <3>1 DEF Wanted
    <3>7. MovesUp!Deliver
      BY <3>5, <3>6 DEF MovesUp!Deliver, Wanted
    <3>8. QED BY <3>7
  <2>6. CASE asked' = asked /\ taken' = taken
    BY <2>6 DEF MovesUp!channelVars
  <2>7. CASE UNCHANGED vars
    BY <2>6, <2>7 DEF vars, history
  <2>8. QED BY <2>4, <2>5, <2>6, <2>7, MovesAreKept
<1>3. QED BY <1>1, <1>2, SessionInductive, PTL DEF Spec, MovesDelivered, MovesUp!ChannelSpec

-----------------------------------------------------------------------------
(* The state packet: what its calls write, and where.                      *)

(* A snapshot of a game that has cells, with names the client takes,       *)
(* announced in 32 bits.                                                   *)
IsView(s) ==
  /\ s \in Snapshot /\ s.w # 0 /\ s.h # 0 /\ Len(s.grid) = s.w * s.h
  /\ s.frame <= 2147483647
  /\ \A i \in 1 .. Len(s.players) : Len(s.players[i].name) <= MaxString
  /\ PacketSize(s) \div 65536 < 65536

(* The snapshots the server sends. *)
Views == {s \in Snapshot : IsView(s)}

(* How many calls of send_all a snapshot takes, and the bytes of each. *)
LastCall(s) == 6 + 6 * Len(s.players)
CallBytes(s, k) == StateSends(s)[k].bytes

(* The m-th call for the i-th player. *)
BlockCall(i, m) == 4 + 6 * (i - 1) + m

(* How far in its block it begins. *)
Within(s, i, m) == <<0, 4, 8, 11, 15, 15 + Len(s.players[i].name)>>[m]

(* The bytes of the packet before the k-th call. *)
CallAt(s, k) ==
  LET n == Len(s.players)
      i == 1 + ((k - 5) \div 6)
  IN  IF k <= 4 THEN 4 * (k - 1)
      ELSE IF k <= 4 + 6 * n THEN 16 + BlockSizes(s)[i - 1] + Within(s, i, 1 + ((k - 5) % 6))
      ELSE IF k = 5 + 6 * n THEN 16 + BlockSizes(s)[n]
      ELSE IF k = 6 + 6 * n THEN 20 + BlockSizes(s)[n]
      ELSE 4 + PacketSize(s)

(* A function on 0 .. n that never falls from one number to the next rises. *)
LEMMA Rising ==
  ASSUME NEW n \in Nat, NEW f \in [0 .. n -> Int], \A i \in 1 .. n : f[i - 1] <= f[i]
  PROVE  \A i, j \in 0 .. n : i <= j => f[i] <= f[j]
<1> SUFFICES ASSUME NEW i \in 0 .. n PROVE \A j \in 0 .. n : i <= j => f[i] <= f[j]
  OBVIOUS
<1> DEFINE T == {j \in 0 .. n : i <= j /\ ~(f[i] <= f[j])}
<1> SUFFICES ASSUME T # {} PROVE FALSE
  OBVIOUS
<1>1. T \subseteq Nat
  OBVIOUS
<1>2. PICK m \in T : \A k \in T : m <= k
  <2> HIDE DEF T
  <2>1. QED BY <1>1, LeastOfNats
<1>3. m \in 0 .. n /\ i <= m /\ ~(f[i] <= f[m]) /\ i \in Nat
  OBVIOUS
<1>4. f[i] \in Int /\ f[m] \in Int
  BY <1>3
<1>5. m # i
  BY <1>3, <1>4
<1>6. m \in 1 .. n /\ m - 1 \in 0 .. n /\ i <= m - 1 /\ ~(m <= m - 1)
  BY <1>3, <1>5
<1>7. f[m - 1] \in Int /\ f[m - 1] <= f[m]
  BY <1>6
<1>8. m - 1 \notin T
  BY <1>2, <1>6
<1>9. f[i] <= f[m - 1]
  BY <1>6, <1>8
<1>10. QED BY <1>3, <1>4, <1>7, <1>9

(* What is known of a snapshot that is sent.                               *)
LEMMA ViewFacts ==
  ASSUME NEW s \in Views
  PROVE  /\ s \in Snapshot /\ IsView(s)
         /\ s.players \in Seq(PlayerBlock) /\ Len(s.players) \in Nat
         /\ s.w \in Nat /\ s.h \in Nat /\ s.w # 0 /\ s.h # 0 /\ s.frame \in Nat
         /\ s.grid \in Seq(Byte) /\ Len(s.grid) = s.w * s.h
         /\ Len(s.grid) \in Nat /\ Len(s.grid) # 0
         /\ s.w <= Len(s.grid) /\ s.h <= Len(s.grid)
         /\ PacketSize(s) \in Nat
         /\ PacketSize(s) = 16 + BlockSizes(s)[Len(s.players)] + Len(s.grid)
<1>1. s \in Snapshot /\ IsView(s)
  BY DEF Views
<1>2. /\ s.players \in Seq(PlayerBlock) /\ Len(s.players) \in Nat
      /\ s.w \in Nat /\ s.h \in Nat /\ s.frame \in Nat /\ s.grid \in Seq(Byte)
  BY <1>1 DEF Snapshot
<1>3. s.w # 0 /\ s.h # 0 /\ Len(s.grid) = s.w * s.h
  BY <1>1 DEF IsView
<1>4. Len(s.grid) \in Nat /\ Len(s.grid) # 0 /\ s.w <= Len(s.grid) /\ s.h <= Len(s.grid)
  <2>1. \A a, b \in Nat : a # 0 /\ b # 0 => a * b # 0 /\ a <= a * b /\ b <= a * b
    <3>1. ASSUME NEW a \in Nat, NEW b \in Nat, a # 0, b # 0
          PROVE  a * b # 0 /\ a <= a * b /\ b <= a * b
      <4>1. a <= a * b
        BY <3>1, SMT
      <4>2. b <= a * b
        BY <3>1, SMT
      <4>3. a * b \in Nat
        BY SMT
      <4>4. QED BY <3>1, <4>1, <4>2, <4>3
    <3>2. QED BY <3>1
  <2>2. Len(s.grid) \in Nat
    BY <1>2, LenProperties
  <2>3. QED BY <1>2, <1>3, <2>1, <2>2
<1>5. PacketSize(s) \in Nat
  BY <1>2, PacketSizeIsNat
<1>6. BlockSizes(s)[Len(s.players)] \in Nat
  <2>1. Len(s.players) \in 0 .. Len(s.players)
    BY <1>2
  <2>2. QED BY <1>2, <2>1, BlockSizesFacts
<1>7. PacketSize(s) = 12 + BlockSizes(s)[Len(s.players)] + 4 + Len(s.grid)
  BY <1>3 DEF PacketSize
<1>8. PacketSize(s) = 16 + BlockSizes(s)[Len(s.players)] + Len(s.grid)
  <2>1. \A a, b \in Nat : 12 + a + 4 + b = 16 + a + b
    OBVIOUS
  <2>2. QED BY <1>4, <1>6, <1>7, <2>1
<1>9. QED BY <1>1, <1>2, <1>3, <1>4, <1>5, <1>8

(* The blocks lie in the order of their players, each 16 bytes at least.   *)
LEMMA BlocksRise ==
  ASSUME NEW s \in Views
  PROVE  /\ \A i, j \in 0 .. Len(s.players) : i <= j => BlockSizes(s)[i] <= BlockSizes(s)[j]
         /\ Len(s.players) <= BlockSizes(s)[Len(s.players)]
<1> DEFINE n == Len(s.players)
           b == BlockSizes(s)
           f == [i \in 0 .. n |-> b[i]]
           g == [i \in 0 .. n |-> b[i] - i]
<1>1. /\ n \in Nat /\ b[0] = 0 /\ \A i \in 0 .. n : b[i] \in Nat
      /\ \A i \in 1 .. n : \E l \in Nat : b[i] = b[i - 1] + (16 + l)
  <2>1. n \in Nat /\ s.players \in Seq(PlayerBlock)
    BY ViewFacts
  <2>2. QED BY <2>1, BlockSizesFacts
<1> HIDE DEF n, b
<1>2. f \in [0 .. n -> Int] /\ g \in [0 .. n -> Int]
      /\ \A i \in 0 .. n : f[i] = b[i] /\ g[i] = b[i] - i
  BY <1>1
<1>3. ASSUME NEW i \in 1 .. n PROVE f[i - 1] <= f[i] /\ g[i - 1] <= g[i]
  <2>1. i \in 0 .. n /\ i - 1 \in 0 .. n
    BY <1>1
  <2>2. PICK l \in Nat : b[i] = b[i - 1] + (16 + l)
    BY <1>1
  <2>3. b[i] \in Nat /\ b[i - 1] \in Nat
    BY <1>1, <2>1
  <2>4. b[i - 1] <= b[i] /\ b[i - 1] - (i - 1) <= b[i] - i
    BY <1>1, <2>1, <2>2, <2>3
  <2>5. QED BY <1>2, <2>1, <2>4
<1> HIDE DEF f, g
<1>4. \A i, j \in 0 .. n : i <= j => f[i] <= f[j]
  BY <1>1, <1>2, <1>3, Rising
<1>5. \A i, j \in 0 .. n : i <= j => g[i] <= g[j]
  BY <1>1, <1>2, <1>3, Rising
<1>6. n <= b[n]
  <2>1. 0 \in 0 .. n /\ n \in 0 .. n /\ 0 <= n
    BY <1>1
  <2>2. g[0] <= g[n] /\ g[0] = b[0] - 0 /\ g[n] = b[n] - n /\ b[n] \in Nat
    BY <1>1, <1>2, <1>5, <2>1
  <2>3. QED BY <1>1, <2>2
<1>7. QED BY <1>2, <1>4, <1>6 DEF n, b

(* Calls for players come by sixes.                                        *)
LEMMA Sixes ==
  /\ \A i \in Nat \ {0} : \A m \in 1 .. 6 :
       /\ (6 * (i - 1) + m - 1) \div 6 = i - 1 /\ (6 * (i - 1) + m - 1) % 6 = m - 1
  /\ \A n \in Nat : \A k \in 1 .. 6 * n :
       \E i \in 1 .. n : \E m \in 1 .. 6 : k = 6 * (i - 1) + m
<1>1. ASSUME NEW i \in Nat \ {0}, NEW m \in 1 .. 6
      PROVE  (6 * (i - 1) + m - 1) \div 6 = i - 1 /\ (6 * (i - 1) + m - 1) % 6 = m - 1
  OBVIOUS
<1>2. ASSUME NEW n \in Nat, NEW k \in 1 .. 6 * n
      PROVE  \E i \in 1 .. n : \E m \in 1 .. 6 : k = 6 * (i - 1) + m
  <2> DEFINE i == 1 + ((k - 1) \div 6)
             m == 1 + ((k - 1) % 6)
  <2>1. i \in 1 .. n /\ m \in 1 .. 6
    OBVIOUS
  <2>2. k = 6 * (i - 1) + m
    OBVIOUS
  <2> HIDE DEF i, m
  <2>3. QED BY <2>1, <2>2
<1>3. QED BY <1>1, <1>2

(* The calls for a snapshot: sizes, the players' blocks, frame and grid.   *)
LEMMA CallFacts ==
  ASSUME NEW s \in Views
  PROVE  /\ StateSends(s) \in Seq(Sending) /\ Len(StateSends(s)) = LastCall(s)
         /\ StateSends(s)[1] = [of |-> 0, bytes |-> Bytes32(PacketSize(s))]
         /\ StateSends(s)[2] = [of |-> 0, bytes |-> Bytes32(s.w)]
         /\ StateSends(s)[3] = [of |-> 0, bytes |-> Bytes32(s.h)]
         /\ StateSends(s)[4] = [of |-> 0, bytes |-> Bytes32(Len(s.players))]
         /\ \A i \in 1 .. Len(s.players) : \A m \in 1 .. 6 :
              StateSends(s)[BlockCall(i, m)] = PlayerSends(s, i)[m]
         /\ StateSends(s)[5 + 6 * Len(s.players)] = [of |-> 0, bytes |-> Bytes32(s.frame)]
         /\ StateSends(s)[6 + 6 * Len(s.players)] = [of |-> 0, bytes |-> s.grid]
<1> DEFINE plain(bytes) == [of |-> 0, bytes |-> bytes]
           block(k) == PlayerSends(s, 1 + ((k - 1) \div 6))[1 + ((k - 1) % 6)]
           n == Len(s.players)
           first == <<plain(Bytes32(PacketSize(s))), plain(Bytes32(s.w)), plain(Bytes32(s.h)),
                      plain(Bytes32(Len(s.players)))>>
           blocks == [k \in 1 .. 6 * Len(s.players) |-> block(k)]
           last == <<plain(Bytes32(s.frame)), plain(s.grid)>>
           begin == first \o blocks
           all == begin \o last
<1>1. StateSends(s) = all
  BY DEF StateSends
<1>2. s \in Snapshot /\ n \in Nat
  BY ViewFacts
<1>3. all \in Seq(Sending)
  BY <1>1, <1>2, StateSendsTyped
<1>4. \A i \in 1 .. n : \A m \in 1 .. 6 : PlayerSends(s, i)[m] \in Sending
  BY <1>2, PlayerSendsTyped
<1> HIDE DEF plain
<1>5. /\ Len(first) = 4 /\ first[1] = plain(Bytes32(PacketSize(s)))
      /\ first[2] = plain(Bytes32(s.w)) /\ first[3] = plain(Bytes32(s.h))
      /\ first[4] = plain(Bytes32(Len(s.players)))
      /\ Len(last) = 2 /\ last[1] = plain(Bytes32(s.frame)) /\ last[2] = plain(s.grid)
  OBVIOUS
<1>6. /\ Len(blocks) = 6 * n
      /\ \A k \in 1 .. 6 * n : blocks[k] = block(k)
  <2>1. 6 * n \in Nat
    BY <1>2
  <2>2. QED BY <2>1
<1>7. first \in Seq({first[i] : i \in 1 .. 4}) /\ last \in Seq({last[i] : i \in 1 .. 2})
      /\ blocks \in Seq({blocks[i] : i \in 1 .. 6 * n})
  <2>1. 6 * n \in Nat
    BY <1>2
  <2>2. QED BY <2>1
<1> HIDE DEF block, first, blocks, last
<1> DEFINE Every == {first[i] : i \in 1 .. 4} \cup {last[i] : i \in 1 .. 2}
                  \cup {blocks[i] : i \in 1 .. 6 * n}
<1>8. first \in Seq(Every) /\ blocks \in Seq(Every) /\ last \in Seq(Every)
  BY <1>7, SeqMonotonic
<1> HIDE DEF Every, n
<1>9. \A u, v \in Seq(Every) :
        /\ u \o v \in Seq(Every) /\ Len(u \o v) = Len(u) + Len(v)
        /\ \A i \in 1 .. Len(u) : (u \o v)[i] = u[i]
        /\ \A i \in 1 .. Len(v) : (u \o v)[Len(u) + i] = v[i]
  <2> TAKE u, v \in Seq(Every)
  <2>1. u \o v \in Seq(Every) /\ Len(u \o v) = Len(u) + Len(v)
    BY SMT
  <2>2. \A i \in 1 .. Len(u) : (u \o v)[i] = u[i]
    BY SMT
  <2>3. \A i \in 1 .. Len(v) : (u \o v)[Len(u) + i] = v[i]
    BY SMT
  <2>4. QED BY <2>1, <2>2, <2>3
<1>10. /\ begin \in Seq(Every) /\ Len(begin) = Len(first) + Len(blocks)
       /\ \A i \in 1 .. Len(first) : begin[i] = first[i]
       /\ \A i \in 1 .. Len(blocks) : begin[Len(first) + i] = blocks[i]
  BY <1>8, <1>9, Zenon
<1> HIDE DEF begin
<1>11. /\ Len(all) = Len(begin) + Len(last)
       /\ \A i \in 1 .. Len(begin) : all[i] = begin[i]
       /\ \A i \in 1 .. Len(last) : all[Len(begin) + i] = last[i]
  BY <1>8, <1>9, <1>10, Zenon
<1> HIDE DEF all
<1>12. Len(begin) = 4 + 6 * n /\ Len(all) = 6 + 6 * n
  BY <1>2, <1>5, <1>6, <1>10, <1>11
<1>13. ASSUME NEW i \in 1 .. 4 PROVE all[i] = first[i]
  <2>1. i \in 1 .. Len(begin) /\ i \in 1 .. Len(first)
    BY <1>2, <1>5, <1>12
  <2>2. QED BY <1>10, <1>11, <2>1
<1>14. \A k \in 1 .. 6 * n : all[4 + k] = block(k)
  <2>1. ASSUME NEW k \in 1 .. 6 * n PROVE all[4 + k] = block(k)
    <3>1. 4 + k \in 1 .. Len(begin) /\ k \in 1 .. Len(blocks)
      BY <1>2, <1>6, <1>12
    <3>2. all[4 + k] = begin[4 + k]
      BY <1>11, <3>1
    <3>3. begin[4 + k] = blocks[k]
      BY <1>5, <1>10, <3>1
    <3>4. QED BY <1>6, <3>2, <3>3
  <2>2. QED BY <2>1
<1>15. all[5 + 6 * n] = last[1] /\ all[6 + 6 * n] = last[2]
  <2>1. Len(begin) + 1 = 5 + 6 * n /\ Len(begin) + 2 = 6 + 6 * n
        /\ 1 \in 1 .. Len(last) /\ 2 \in 1 .. Len(last)
    BY <1>2, <1>5, <1>12
  <2>2. QED BY <1>11, <2>1
<1>16. ASSUME NEW i \in 1 .. n, NEW m \in 1 .. 6
       PROVE  all[BlockCall(i, m)] = PlayerSends(s, i)[m]
  <2> DEFINE k == 6 * (i - 1) + m
  <2>1. k \in 1 .. 6 * n /\ i \in Nat \ {0} /\ BlockCall(i, m) = 4 + k
    BY <1>2 DEF BlockCall
  <2>2. (k - 1) \div 6 = i - 1 /\ (k - 1) % 6 = m - 1
    BY <2>1, Sixes
  <2> HIDE DEF k
  <2>3. 1 + ((k - 1) \div 6) = i /\ 1 + ((k - 1) % 6) = m
    BY <2>2
  <2>4. block(k) = PlayerSends(s, i)[m]
    BY <2>3 DEF block
  <2>5. QED BY <1>14, <2>1, <2>4
<1>17. /\ all[1] = plain(Bytes32(PacketSize(s))) /\ all[2] = plain(Bytes32(s.w))
       /\ all[3] = plain(Bytes32(s.h)) /\ all[4] = plain(Bytes32(Len(s.players)))
  BY <1>5, <1>13
<1>18. LastCall(s) = 6 + 6 * n
  BY DEF LastCall, n
<1>19. /\ all[5 + 6 * n] = plain(Bytes32(s.frame)) /\ all[6 + 6 * n] = plain(s.grid)
  BY <1>5, <1>15
<1>20. QED BY <1>1, <1>3, <1>12, <1>16, <1>17, <1>18, <1>19 DEF plain, n

(* A call is for the sizes, for a player, for the frame or for the grid.   *)
LEMMA CallCases ==
  ASSUME NEW s \in Views, NEW k \in 1 .. LastCall(s)
  PROVE  \/ k \in {1, 2, 3, 4}
         \/ \E i \in 1 .. Len(s.players) : \E m \in 1 .. 6 : k = BlockCall(i, m)
         \/ k = 5 + 6 * Len(s.players) \/ k = 6 + 6 * Len(s.players)
<1> DEFINE n == Len(s.players)
<1>1. n \in Nat /\ LastCall(s) = 6 + 6 * n
  BY ViewFacts DEF LastCall
<1> HIDE DEF n
<1>2. CASE k <= 4
  BY <1>2
<1>3. CASE 4 < k /\ k <= 4 + 6 * n
  <2>1. k - 4 \in 1 .. 6 * n
    BY <1>1, <1>3
  <2>2. PICK i \in 1 .. n : \E m \in 1 .. 6 : k - 4 = 6 * (i - 1) + m
    BY <1>1, <2>1, Sixes
  <2>3. PICK m \in 1 .. 6 : k - 4 = 6 * (i - 1) + m
    BY <2>2
  <2>4. k = 4 + 6 * (i - 1) + m
    BY <1>1, <2>3
  <2>5. k = BlockCall(i, m)
    BY <2>4 DEF BlockCall
  <2>6. QED BY <2>5 DEF n
<1>4. CASE 4 + 6 * n < k
  <2>1. k = 5 + 6 * n \/ k = 6 + 6 * n
    BY <1>1, <1>4
  <2>2. QED BY <2>1 DEF n
<1>5. QED BY <1>1, <1>2, <1>3, <1>4

(* The player of a block.                                                  *)
LEMMA BlockTypes ==
  ASSUME NEW s \in Views, NEW i \in 1 .. Len(s.players)
  PROVE  /\ s.players[i] \in PlayerBlock
         /\ s.players[i].x \in Word /\ s.players[i].y \in Word
         /\ s.players[i].x \in Int /\ s.players[i].y \in Int
         /\ s.players[i].colour \in [1 .. 3 -> Byte]
         /\ s.players[i].colour \in Seq(Byte) /\ Len(s.players[i].colour) = 3
         /\ s.players[i].name \in Seq(Letter) /\ s.players[i].name \in Seq(Byte)
         /\ Len(s.players[i].name) \in Nat /\ s.players[i].id \in Byte
<1> DEFINE p == s.players[i]
<1>1. p \in PlayerBlock
  BY ViewFacts
<1>2. p.x \in Word /\ p.y \in Word /\ p.id \in Byte /\ p.colour \in [1 .. 3 -> Byte]
      /\ p.name \in Seq(Letter)
  BY <1>1 DEF PlayerBlock
<1>3. p.colour \in Seq(Byte) /\ Len(p.colour) = 3
  BY <1>2, ColourIsBytes
<1>4. p.name \in Seq(Byte) /\ Len(p.name) \in Nat
  <2>1. Letter \subseteq Byte
    BY SMT DEF Letter, Byte
  <2>2. QED BY <1>2, <2>1, SeqMonotonic, LenProperties
<1>5. p.x \in Int /\ p.y \in Int
  BY <1>2, WordsAreInts
<1> HIDE DEF p
<1>6. QED BY <1>1, <1>2, <1>3, <1>4, <1>5 DEF p

(* What the calls of a block send.                                         *)
LEMMA BlockFacts ==
  ASSUME NEW s \in Views, NEW i \in 1 .. Len(s.players)
  PROVE  /\ CallBytes(s, BlockCall(i, 1)) = Bytes32(s.players[i].x)
         /\ CallBytes(s, BlockCall(i, 2)) = Bytes32(s.players[i].y)
         /\ CallBytes(s, BlockCall(i, 3)) = s.players[i].colour
         /\ CallBytes(s, BlockCall(i, 4)) = Bytes32(Len(s.players[i].name))
         /\ CallBytes(s, BlockCall(i, 5)) = s.players[i].name
         /\ CallBytes(s, BlockCall(i, 6)) = <<s.players[i].id>>
         /\ \A m \in 1 .. 6 : StateSends(s)[BlockCall(i, m)].of = i
<1> DEFINE p == s.players[i]
           parts == <<Bytes32(p.x), Bytes32(p.y), p.colour,
                      Bytes32(Len(p.name)), p.name, <<p.id>>>>
<1>1. \A m \in 1 .. 6 : PlayerSends(s, i)[m] = [of |-> i, bytes |-> parts[m]]
  BY DEF PlayerSends
<1>2. \A m \in 1 .. 6 : StateSends(s)[BlockCall(i, m)] = PlayerSends(s, i)[m]
  BY CallFacts
<1>3. /\ parts[1] = Bytes32(p.x) /\ parts[2] = Bytes32(p.y) /\ parts[3] = p.colour
      /\ parts[4] = Bytes32(Len(p.name)) /\ parts[5] = p.name /\ parts[6] = <<p.id>>
  OBVIOUS
<1> HIDE DEF p, parts
<1>4. ASSUME NEW m \in 1 .. 6
      PROVE  /\ CallBytes(s, BlockCall(i, m)) = parts[m]
             /\ StateSends(s)[BlockCall(i, m)].of = i
  BY <1>1, <1>2 DEF CallBytes
<1>5. /\ 1 \in 1 .. 6 /\ 2 \in 1 .. 6 /\ 3 \in 1 .. 6
      /\ 4 \in 1 .. 6 /\ 5 \in 1 .. 6 /\ 6 \in 1 .. 6
  OBVIOUS
<1>6. QED BY <1>3, <1>4, <1>5, Zenon DEF p

(* What the other calls send.                                              *)
LEMMA PlainFacts ==
  ASSUME NEW s \in Views
  PROVE  /\ CallBytes(s, 1) = Bytes32(PacketSize(s)) /\ CallBytes(s, 2) = Bytes32(s.w)
         /\ CallBytes(s, 3) = Bytes32(s.h) /\ CallBytes(s, 4) = Bytes32(Len(s.players))
         /\ CallBytes(s, 5 + 6 * Len(s.players)) = Bytes32(s.frame)
         /\ CallBytes(s, 6 + 6 * Len(s.players)) = s.grid
<1>1. ASSUME NEW k, NEW bytes, StateSends(s)[k] = [of |-> 0, bytes |-> bytes]
      PROVE  CallBytes(s, k) = bytes
  BY <1>1 DEF CallBytes
<1>2. CallBytes(s, 1) = Bytes32(PacketSize(s))
  <2>1. StateSends(s)[1] = [of |-> 0, bytes |-> Bytes32(PacketSize(s))]
    BY CallFacts
  <2>2. QED BY <1>1, <2>1, Zenon
<1>3. CallBytes(s, 2) = Bytes32(s.w)
  <2>1. StateSends(s)[2] = [of |-> 0, bytes |-> Bytes32(s.w)]
    BY CallFacts
  <2>2. QED BY <1>1, <2>1, Zenon
<1>4. CallBytes(s, 3) = Bytes32(s.h)
  <2>1. StateSends(s)[3] = [of |-> 0, bytes |-> Bytes32(s.h)]
    BY CallFacts
  <2>2. QED BY <1>1, <2>1, Zenon
<1>5. CallBytes(s, 4) = Bytes32(Len(s.players))
  <2>1. StateSends(s)[4] = [of |-> 0, bytes |-> Bytes32(Len(s.players))]
    BY CallFacts
  <2>2. QED BY <1>1, <2>1, Zenon
<1>6. CallBytes(s, 5 + 6 * Len(s.players)) = Bytes32(s.frame)
  <2>1. StateSends(s)[5 + 6 * Len(s.players)] = [of |-> 0, bytes |-> Bytes32(s.frame)]
    BY CallFacts
  <2>2. QED BY <1>1, <2>1, Zenon
<1>7. CallBytes(s, 6 + 6 * Len(s.players)) = s.grid
  <2>1. StateSends(s)[6 + 6 * Len(s.players)] = [of |-> 0, bytes |-> s.grid]
    BY CallFacts
  <2>2. QED BY <1>1, <2>1, Zenon
<1>8. QED BY <1>2, <1>3, <1>4, <1>5, <1>6, <1>7

(* How far in a block its calls begin.                                     *)
LEMMA WithinFacts ==
  ASSUME NEW s, NEW i
  PROVE  /\ Within(s, i, 1) = 0 /\ Within(s, i, 2) = 4 /\ Within(s, i, 3) = 8
         /\ Within(s, i, 4) = 11 /\ Within(s, i, 5) = 15
         /\ Within(s, i, 6) = 15 + Len(s.players[i].name)
BY DEF Within

(* Where the calls begin.                                                  *)
LEMMA CallAtFacts ==
  ASSUME NEW s \in Views
  PROVE  /\ CallAt(s, 1) = 0 /\ CallAt(s, 2) = 4 /\ CallAt(s, 3) = 8 /\ CallAt(s, 4) = 12
         /\ \A i \in 1 .. Len(s.players) : \A m \in 1 .. 6 :
              CallAt(s, BlockCall(i, m)) = 16 + BlockSizes(s)[i - 1] + Within(s, i, m)
         /\ CallAt(s, 5 + 6 * Len(s.players)) = 16 + BlockSizes(s)[Len(s.players)]
         /\ CallAt(s, 6 + 6 * Len(s.players)) = 20 + BlockSizes(s)[Len(s.players)]
         /\ CallAt(s, 7 + 6 * Len(s.players)) = 4 + PacketSize(s)
<1> DEFINE n == Len(s.players)
<1>1. n \in Nat
  BY ViewFacts
<1> HIDE DEF n
<1>2. ASSUME NEW k \in Nat
      PROVE  CallAt(s, k) =
        IF k <= 4 THEN 4 * (k - 1)
        ELSE IF k <= 4 + 6 * n
        THEN 16 + BlockSizes(s)[1 + ((k - 5) \div 6) - 1]
                + Within(s, 1 + ((k - 5) \div 6), 1 + ((k - 5) % 6))
        ELSE IF k = 5 + 6 * n THEN 16 + BlockSizes(s)[n]
        ELSE IF k = 6 + 6 * n THEN 20 + BlockSizes(s)[n]
        ELSE 4 + PacketSize(s)
  BY DEF CallAt, n
<1>3. CallAt(s, 1) = 0 /\ CallAt(s, 2) = 4 /\ CallAt(s, 3) = 8 /\ CallAt(s, 4) = 12
  BY <1>2
<1>4. ASSUME NEW i \in 1 .. n, NEW m \in 1 .. 6
      PROVE  CallAt(s, BlockCall(i, m)) = 16 + BlockSizes(s)[i - 1] + Within(s, i, m)
  <2> DEFINE k == BlockCall(i, m)
  <2>1. k \in Nat /\ ~(k <= 4) /\ k <= 4 + 6 * n /\ k - 5 = 6 * (i - 1) + m - 1
    BY <1>1 DEF BlockCall
  <2>2. (k - 5) \div 6 = i - 1 /\ (k - 5) % 6 = m - 1
    <3>1. i \in Nat \ {0}
      BY <1>1
    <3>2. QED BY <2>1, <3>1, Sixes
  <2> HIDE DEF k
  <2>3. 1 + ((k - 5) \div 6) = i /\ 1 + ((k - 5) % 6) = m /\ 1 + ((k - 5) \div 6) - 1 = i - 1
    BY <2>2
  <2>4. CallAt(s, k) = 16 + BlockSizes(s)[1 + ((k - 5) \div 6) - 1]
                + Within(s, 1 + ((k - 5) \div 6), 1 + ((k - 5) % 6))
    BY <1>2, <2>1
  <2>5. CallAt(s, k) = 16 + BlockSizes(s)[i - 1] + Within(s, i, m)
    BY <2>3, <2>4, Zenon
  <2>6. QED BY <2>5 DEF k
<1>5. CallAt(s, 5 + 6 * n) = 16 + BlockSizes(s)[n]
  BY <1>1, <1>2
<1>6. CallAt(s, 6 + 6 * n) = 20 + BlockSizes(s)[n]
  BY <1>1, <1>2
<1>7. CallAt(s, 7 + 6 * n) = 4 + PacketSize(s)
  <2>1. 7 + 6 * n \in Nat /\ ~(7 + 6 * n <= 4) /\ ~(7 + 6 * n <= 4 + 6 * n)
        /\ 7 + 6 * n # 5 + 6 * n /\ 7 + 6 * n # 6 + 6 * n
    BY <1>1
  <2>2. QED BY <1>2, <2>1
<1>8. QED BY <1>3, <1>4, <1>5, <1>6, <1>7 DEF n

(* A call begins where the one before it ends.                             *)
LEMMA NextCallAt ==
  ASSUME NEW s \in Views, NEW k \in 1 .. LastCall(s)
  PROVE  /\ CallBytes(s, k) \in Seq(Byte) /\ Len(CallBytes(s, k)) \in Nat
         /\ CallAt(s, k) \in Nat
         /\ CallAt(s, k + 1) = CallAt(s, k) + Len(CallBytes(s, k))
<1> DEFINE n == Len(s.players)
           b == BlockSizes(s)
<1>1. /\ n \in Nat /\ PacketSize(s) \in Nat /\ s.w \in Nat /\ s.h \in Nat /\ s.frame \in Nat
      /\ s.grid \in Seq(Byte) /\ Len(s.grid) \in Nat
      /\ PacketSize(s) = 16 + b[n] + Len(s.grid)
  BY ViewFacts
<1>2. /\ \A i \in 0 .. n : b[i] \in Nat
      /\ \A i \in 1 .. n : b[i] = b[i - 1] + (16 + Len(s.players[i].name))
      /\ b[0] = 0
  BY ViewFacts, BlockSizesFacts
<1>3. b[n] \in Nat
  BY <1>1, <1>2
<1>4. CASE k \in {1, 2, 3, 4}
  <2>1. \A j \in Int : Bytes32(j) \in Seq(Byte) /\ Len(Bytes32(j)) = 4
    BY BytesAreBytes
  <2>2. CallBytes(s, k) \in Seq(Byte) /\ Len(CallBytes(s, k)) = 4
    <3>1. /\ CallBytes(s, 1) = Bytes32(PacketSize(s)) /\ CallBytes(s, 2) = Bytes32(s.w)
          /\ CallBytes(s, 3) = Bytes32(s.h) /\ CallBytes(s, 4) = Bytes32(n)
      BY PlainFacts
    <3>2. PacketSize(s) \in Int /\ s.w \in Int /\ s.h \in Int /\ n \in Int
      BY <1>1
    <3> HIDE DEF n
    <3>3. QED BY <1>4, <2>1, <3>1, <3>2
  <2>3. CallAt(s, 5) = 16
    <3>1. CASE n = 0
      <4>1. CallAt(s, 5 + 6 * n) = 16 + b[n]
        BY CallAtFacts
      <4> HIDE DEF n, b
      <4>2. 5 + 6 * n = 5 /\ b[n] = 0
        BY <1>2, <3>1
      <4>3. QED BY <4>1, <4>2
    <3>2. CASE n # 0
      <4>1. 1 \in 1 .. n /\ 1 \in 1 .. 6
        BY <1>1, <3>2
      <4>2. CallAt(s, BlockCall(1, 1)) = 16 + b[1 - 1] + Within(s, 1, 1)
        BY <4>1, CallAtFacts
      <4>3. BlockCall(1, 1) = 5 /\ Within(s, 1, 1) = 0 /\ b[1 - 1] = 0
        BY <1>2, <4>1, WithinFacts DEF BlockCall
      <4> HIDE DEF n, b
      <4>4. QED BY <4>2, <4>3
    <3>3. QED BY <3>1, <3>2
  <2>4. CallAt(s, 1) = 0 /\ CallAt(s, 2) = 4 /\ CallAt(s, 3) = 8 /\ CallAt(s, 4) = 12
    BY CallAtFacts
  <2>5. CallAt(s, k) \in Nat /\ CallAt(s, k + 1) = CallAt(s, k) + 4
    BY <1>4, <2>3, <2>4
  <2>6. QED BY <2>2, <2>5
<1>5. ASSUME NEW i \in 1 .. n, NEW m \in 1 .. 6, k = BlockCall(i, m)
      PROVE  /\ CallBytes(s, k) \in Seq(Byte) /\ Len(CallBytes(s, k)) \in Nat
             /\ CallAt(s, k) \in Nat
             /\ CallAt(s, k + 1) = CallAt(s, k) + Len(CallBytes(s, k))
  <2> DEFINE l == Len(s.players[i].name)
             next == IF m = 6 THEN 16 + l ELSE Within(s, i, m + 1)
  <2>1. i \in Nat /\ i - 1 \in 0 .. n /\ i \in 0 .. n
    BY <1>1
  <2>2. b[i - 1] \in Nat /\ b[i] \in Nat /\ b[i] = b[i - 1] + (16 + l)
    BY <1>2, <2>1
  <2>3. CallAt(s, k) = 16 + b[i - 1] + Within(s, i, m)
    BY <1>5, CallAtFacts
  <2>4. l \in Nat /\ s.players[i].x \in Int /\ s.players[i].y \in Int /\ l \in Int
    BY BlockTypes
  <2>5. /\ CallBytes(s, k) \in Seq(Byte) /\ Within(s, i, m) \in Nat
        /\ next = Within(s, i, m) + Len(CallBytes(s, k))
    <3>1. \A j \in Int : Bytes32(j) \in Seq(Byte) /\ Len(Bytes32(j)) = 4
      BY BytesAreBytes
    <3>2. /\ Within(s, i, 1) = 0 /\ Within(s, i, 2) = 4 /\ Within(s, i, 3) = 8
          /\ Within(s, i, 4) = 11 /\ Within(s, i, 5) = 15 /\ Within(s, i, 6) = 15 + l
      BY WithinFacts
    <3>3. CASE m = 1
      <4>1. CallBytes(s, k) = Bytes32(s.players[i].x)
        BY <1>5, <3>3, BlockFacts
      <4>2. CallBytes(s, k) \in Seq(Byte) /\ Len(CallBytes(s, k)) = 4
        BY <2>4, <3>1, <4>1
      <4>3. QED BY <3>2, <3>3, <4>2
    <3>4. CASE m = 2
      <4>1. CallBytes(s, k) = Bytes32(s.players[i].y)
        BY <1>5, <3>4, BlockFacts
      <4>2. CallBytes(s, k) \in Seq(Byte) /\ Len(CallBytes(s, k)) = 4
        BY <2>4, <3>1, <4>1
      <4>3. QED BY <3>2, <3>4, <4>2
    <3>5. CASE m = 3
      <4>1. CallBytes(s, k) = s.players[i].colour
        BY <1>5, <3>5, BlockFacts
      <4>2. CallBytes(s, k) \in Seq(Byte) /\ Len(CallBytes(s, k)) = 3
        BY <4>1, BlockTypes
      <4>3. QED BY <3>2, <3>5, <4>2
    <3>6. CASE m = 4
      <4>1. CallBytes(s, k) = Bytes32(l)
        BY <1>5, <3>6, BlockFacts
      <4>2. CallBytes(s, k) \in Seq(Byte) /\ Len(CallBytes(s, k)) = 4
        BY <2>4, <3>1, <4>1
      <4>3. QED BY <3>2, <3>6, <4>2
    <3>7. CASE m = 5
      <4>1. CallBytes(s, k) = s.players[i].name
        BY <1>5, <3>7, BlockFacts
      <4>2. CallBytes(s, k) \in Seq(Byte) /\ Len(CallBytes(s, k)) = l
        BY <4>1, BlockTypes
      <4>3. next = 15 + l /\ Within(s, i, m) = 15
        BY <3>2, <3>7
      <4> HIDE DEF next
      <4>4. QED BY <4>2, <4>3
    <3>8. CASE m = 6
      <4>1. CallBytes(s, k) = <<s.players[i].id>>
        BY <1>5, <3>8, BlockFacts
      <4>2. <<s.players[i].id>> \in Seq(Byte) /\ Len(<<s.players[i].id>>) = 1
        BY BlockTypes
      <4>3. Len(CallBytes(s, k)) = 1 /\ CallBytes(s, k) \in Seq(Byte)
        BY <4>1, <4>2, Zenon
      <4>4. Within(s, i, m) = 15 + l /\ next = 16 + l
        BY <3>2, <3>8
      <4> HIDE DEF l, next
      <4>5. QED BY <2>4, <4>3, <4>4
    <3>9. QED BY <3>3, <3>4, <3>5, <3>6, <3>7, <3>8
  <2>6. Len(CallBytes(s, k)) \in Nat
    BY <2>5, LenProperties
  <2>7. CallAt(s, k + 1) = 16 + b[i - 1] + next
    <3>1. CASE m # 6
      <4>1. k + 1 = BlockCall(i, m + 1) /\ m + 1 \in 1 .. 6
        BY <1>5, <2>1, <3>1 DEF BlockCall
      <4>2. CallAt(s, BlockCall(i, m + 1)) = 16 + b[i - 1] + Within(s, i, m + 1)
        BY <4>1, CallAtFacts
      <4>3. QED BY <3>1, <4>1, <4>2
    <3>2. CASE m = 6 /\ i # n
      <4>1. k + 1 = BlockCall(i + 1, 1) /\ i + 1 \in 1 .. n /\ (i + 1) - 1 = i /\ 1 \in 1 .. 6
        BY <1>1, <1>5, <2>1, <3>2 DEF BlockCall
      <4>2. CallAt(s, BlockCall(i + 1, 1)) = 16 + b[(i + 1) - 1] + Within(s, i + 1, 1)
        BY <4>1, CallAtFacts
      <4>3. Within(s, i + 1, 1) = 0
        BY WithinFacts
      <4> HIDE DEF n, b, l
      <4>4. CallAt(s, k + 1) = 16 + b[i]
        BY <2>2, <4>1, <4>2, <4>3
      <4>5. QED BY <2>2, <2>5, <3>2, <4>4
    <3>3. CASE m = 6 /\ i = n
      <4>1. k + 1 = 5 + 6 * n
        BY <1>1, <1>5, <2>1, <3>3 DEF BlockCall
      <4>2. CallAt(s, 5 + 6 * n) = 16 + b[n]
        BY CallAtFacts
      <4> HIDE DEF n, b, l
      <4>3. next = 16 + l
        BY <3>3
      <4> HIDE DEF next
      <4>4. QED BY <2>2, <2>4, <3>3, <4>1, <4>2, <4>3
    <3>4. QED BY <3>1, <3>2, <3>3
  <2> HIDE DEF n, b, l, next
  <2>8. CallAt(s, k) \in Nat
    BY <2>2, <2>3, <2>5
  <2>9. CallAt(s, k + 1) = CallAt(s, k) + Len(CallBytes(s, k))
    BY <2>2, <2>3, <2>5, <2>6, <2>7
  <2>10. QED BY <2>5, <2>6, <2>8, <2>9
<1>6. CASE k = 5 + 6 * n
  <2>1. CallBytes(s, k) = Bytes32(s.frame)
    BY <1>6, PlainFacts
  <2>2. CallBytes(s, k) \in Seq(Byte) /\ Len(CallBytes(s, k)) = 4
    <3>1. s.frame \in Int
      BY <1>1
    <3>2. QED BY <2>1, <3>1, BytesAreBytes
  <2>3. CallAt(s, k) = 16 + b[n] /\ CallAt(s, 6 + 6 * n) = 20 + b[n]
    BY <1>6, CallAtFacts
  <2> HIDE DEF n, b
  <2>4. k + 1 = 6 + 6 * n
    BY <1>1, <1>6
  <2>5. QED BY <1>3, <2>2, <2>3, <2>4
<1>7. CASE k = 6 + 6 * n
  <2>1. CallBytes(s, k) = s.grid
    BY <1>7, PlainFacts
  <2>2. CallAt(s, k) = 20 + b[n] /\ CallAt(s, 7 + 6 * n) = 4 + PacketSize(s)
    BY <1>7, CallAtFacts
  <2> HIDE DEF n, b
  <2>3. k + 1 = 7 + 6 * n
    BY <1>1, <1>7
  <2> DEFINE z == Len(s.grid)
  <2>4. z \in Nat /\ PacketSize(s) = 16 + b[n] + z
    BY <1>1
  <2>5. CallBytes(s, k) \in Seq(Byte) /\ Len(CallBytes(s, k)) = z
    BY <1>1, <2>1
  <2>6. CallAt(s, k + 1) = 4 + PacketSize(s)
    BY <2>2, <2>3
  <2> HIDE DEF z
  <2>7. CallAt(s, k) \in Nat /\ CallAt(s, k + 1) = CallAt(s, k) + z
    BY <1>3, <2>2, <2>4, <2>6
  <2>8. QED BY <2>4, <2>5, <2>7
<1>8. QED BY <1>4, <1>5, <1>6, <1>7, CallCases

(* The calls lie one behind the other, from the first byte to the last.    *)
LEMMA CallsInOrder ==
  ASSUME NEW s \in Views
  PROVE  /\ LastCall(s) \in Nat /\ 6 <= LastCall(s)
         /\ \A k \in 1 .. LastCall(s) + 1 : CallAt(s, k) \in Nat
         /\ \A k, l \in 1 .. LastCall(s) + 1 : k <= l => CallAt(s, k) <= CallAt(s, l)
         /\ CallAt(s, LastCall(s) + 1) = 4 + PacketSize(s)
         /\ CallAt(s, LastCall(s)) + Len(s.grid) = 4 + PacketSize(s)
         /\ CallBytes(s, LastCall(s)) = s.grid
<1> DEFINE n == LastCall(s)
           f == [i \in 0 .. n |-> CallAt(s, i + 1)]
<1>1. n \in Nat /\ 6 <= n /\ n = 6 + 6 * Len(s.players) /\ n + 1 = 7 + 6 * Len(s.players)
  <2>1. Len(s.players) \in Nat
    BY ViewFacts
  <2>2. QED BY <2>1 DEF LastCall
<1>2. CallAt(s, n + 1) = 4 + PacketSize(s)
  BY <1>1, CallAtFacts
<1>3. CallBytes(s, n) = s.grid
  BY <1>1, PlainFacts
<1>4. ASSUME NEW i \in 1 .. n
      PROVE  /\ CallAt(s, i) \in Nat /\ Len(CallBytes(s, i)) \in Nat
             /\ CallAt(s, i + 1) = CallAt(s, i) + Len(CallBytes(s, i))
  BY NextCallAt
<1>5. CallAt(s, n) + Len(s.grid) = 4 + PacketSize(s)
  BY <1>1, <1>2, <1>3, <1>4
<1>6. PacketSize(s) \in Nat
  BY ViewFacts
<1> HIDE DEF n
<1>7. \A k \in 1 .. n + 1 : CallAt(s, k) \in Nat
  <2>1. ASSUME NEW k \in 1 .. n + 1 PROVE CallAt(s, k) \in Nat
    <3>1. k = n + 1 \/ k \in 1 .. n
      BY <1>1
    <3>2. 4 + PacketSize(s) \in Nat
      BY <1>6
    <3>3. QED BY <1>2, <1>4, <3>1, <3>2
  <2>2. QED BY <2>1
<1>8. f \in [0 .. n -> Int] /\ \A i \in 0 .. n : f[i] = CallAt(s, i + 1)
  <2>1. ASSUME NEW i \in 0 .. n PROVE CallAt(s, i + 1) \in Int
    <3>1. i + 1 \in 1 .. n + 1
      BY <1>1
    <3>2. QED BY <1>7, <3>1
  <2>2. QED BY <2>1
<1>9. ASSUME NEW i \in 1 .. n PROVE f[i - 1] <= f[i]
  <2>1. i - 1 \in 0 .. n /\ i \in 0 .. n /\ (i - 1) + 1 = i
    BY <1>1
  <2>2. f[i - 1] = CallAt(s, i) /\ f[i] = CallAt(s, i + 1)
    BY <1>8, <2>1
  <2>3. CallAt(s, i) <= CallAt(s, i + 1)
    BY <1>4
  <2>4. QED BY <2>2, <2>3
<1> HIDE DEF f
<1>10. \A i, j \in 0 .. n : i <= j => f[i] <= f[j]
  BY <1>1, <1>8, <1>9, Rising
<1>11. ASSUME NEW k \in 1 .. n + 1, NEW l \in 1 .. n + 1, k <= l
       PROVE  CallAt(s, k) <= CallAt(s, l)
  <2>1. k - 1 \in 0 .. n /\ l - 1 \in 0 .. n /\ k - 1 <= l - 1
        /\ (k - 1) + 1 = k /\ (l - 1) + 1 = l
    BY <1>1, <1>11
  <2>2. f[k - 1] <= f[l - 1] /\ f[k - 1] = CallAt(s, k) /\ f[l - 1] = CallAt(s, l)
    BY <1>8, <1>10, <2>1
  <2>3. QED BY <2>2
<1>12. QED BY <1>1, <1>2, <1>3, <1>5, <1>7, <1>11 DEF n

(* A call ends before the ones behind it.                                  *)
LEMMA CallEnds ==
  ASSUME NEW s \in Views, NEW c \in 1 .. LastCall(s)
  PROVE  /\ \A k \in 1 .. LastCall(s) + 1 :
              c < k => CallAt(s, c) + Len(CallBytes(s, c)) <= CallAt(s, k)
         /\ CallAt(s, c) + Len(CallBytes(s, c)) <= 4 + PacketSize(s)
         /\ c # LastCall(s) => CallAt(s, c) + Len(CallBytes(s, c)) < 4 + PacketSize(s)
         /\ CallAt(s, c) \in Nat /\ Len(CallBytes(s, c)) \in Nat
         /\ CallBytes(s, c) \in Seq(Byte)
<1> DEFINE n == LastCall(s)
           a == CallAt(s, c)
           l == Len(CallBytes(s, c))
           z == CallAt(s, n)
           e == 4 + PacketSize(s)
           g == Len(s.grid)
<1>1. /\ n \in Nat /\ c \in 1 .. n /\ \A k \in 1 .. n + 1 : CallAt(s, k) \in Nat
      /\ \A i, j \in 1 .. n + 1 : i <= j => CallAt(s, i) <= CallAt(s, j)
      /\ CallAt(s, n + 1) = e /\ z + g = e
  BY CallsInOrder
<1>2. CallBytes(s, c) \in Seq(Byte) /\ l \in Nat /\ a \in Nat /\ CallAt(s, c + 1) = a + l
  BY NextCallAt
<1>3. e \in Nat /\ g \in Nat /\ g # 0
  <2>1. PacketSize(s) \in Nat /\ g \in Nat /\ g # 0
    BY ViewFacts
  <2>2. QED BY <2>1
<1> HIDE DEF n, l, a, e, g
<1>4. ASSUME NEW k \in 1 .. n + 1, c < k PROVE a + l <= CallAt(s, k)
  <2>1. c + 1 \in 1 .. n + 1 /\ c + 1 <= k
    BY <1>1, <1>4
  <2>2. QED BY <1>1, <1>2, <2>1
<1>5. a + l <= e
  <2>1. n + 1 \in 1 .. n + 1 /\ c < n + 1
    BY <1>1
  <2>2. QED BY <1>1, <1>4, <2>1
<1>6. ASSUME c # n PROVE a + l < e
  <2>1. n \in 1 .. n + 1 /\ c < n
    BY <1>1, <1>6
  <2>2. a + l <= z /\ z \in Nat
    BY <1>1, <1>4, <2>1
  <2> HIDE DEF z
  <2>3. QED BY <1>1, <1>2, <1>3, <2>2
<1>7. QED BY <1>2, <1>4, <1>5, <1>6 DEF n, a, l, e

-----------------------------------------------------------------------------
(* The state packet: its bytes in a stream.                                *)

(* The bytes of the first k - 1 calls for s, and m of the k-th, follow the *)
(* byte of d at base. *)
Written(d, base, s, k, m) ==
  \A c \in 1 .. LastCall(s) : \A j \in 1 .. Len(CallBytes(s, c)) :
    c < k \/ (c = k /\ j <= m) => d[base + CallAt(s, c) + j] = CallBytes(s, c)[j]

(* All of them. *)
Whole(d, base, s) == Written(d, base, s, LastCall(s) + 1, 0)

(* e has, p places further down, the bytes of d from one place to another. *)
Copied(d, e, p, from, to) ==
  \A x \in Int : from < x /\ x <= to => e[x - p] = d[x]

(* A packet that is copied is written.                                     *)
LEMMA WrittenCopies ==
  ASSUME NEW d, NEW e, NEW p \in Int, NEW base \in Nat, NEW s \in Views,
         NEW k \in 1 .. LastCall(s) + 1, NEW m \in Nat,
         Written(d, base, s, k, m), Copied(d, e, p, base, base + CallAt(s, k) + m)
  PROVE  Written(e, base - p, s, k, m)
<1> SUFFICES ASSUME NEW c \in 1 .. LastCall(s), NEW j \in 1 .. Len(CallBytes(s, c)),
                    c < k \/ (c = k /\ j <= m)
             PROVE  e[(base - p) + CallAt(s, c) + j] = CallBytes(s, c)[j]
  BY DEF Written
<1> DEFINE a == CallAt(s, c)
           l == Len(CallBytes(s, c))
           z == CallAt(s, k)
           x == base + a + j
<1>1. a \in Nat /\ l \in Nat /\ j \in 1 .. l /\ z \in Nat
  BY CallEnds, CallsInOrder
<1>2. c < k => a + l <= z
  BY CallEnds
<1>3. c = k => a = z
  OBVIOUS
<1>4. d[x] = CallBytes(s, c)[j]
  BY DEF Written
<1>5. \A y \in Int : base < y /\ y <= base + z + m => e[y - p] = d[y]
  BY DEF Copied
<1> HIDE DEF a, l, z
<1>6. a + j <= z + m
  <2>1. CASE c < k
    BY <1>1, <1>2, <2>1
  <2>2. CASE c = k /\ j <= m
    BY <1>1, <1>3, <2>2
  <2>3. QED BY <2>1, <2>2
<1>7. x \in Int /\ base < x /\ x <= base + z + m /\ x - p = (base - p) + a + j
  BY <1>1, <1>6
<1>8. e[x - p] = d[x]
  BY <1>5, <1>7
<1> HIDE DEF x
<1>9. e[(base - p) + a + j] = CallBytes(s, c)[j]
  BY <1>4, <1>7, <1>8
<1>10. QED BY <1>9 DEF a

(* Fewer of its bytes are written, too.                                    *)
LEMMA WrittenLess ==
  ASSUME NEW d, NEW base, NEW s \in Views, NEW k \in Int, NEW m \in Int,
         NEW l \in Int, NEW n \in Int, l < k \/ (l = k /\ n <= m),
         Written(d, base, s, k, m)
  PROVE  Written(d, base, s, l, n)
<1> SUFFICES ASSUME NEW c \in 1 .. LastCall(s), NEW j \in 1 .. Len(CallBytes(s, c)),
                    c < l \/ (c = l /\ j <= n)
             PROVE  d[base + CallAt(s, c) + j] = CallBytes(s, c)[j]
  BY DEF Written
<1>1. c \in Int /\ j \in Int
  OBVIOUS
<1>2. c < k \/ (c = k /\ j <= m)
  BY <1>1
<1>3. QED BY <1>2 DEF Written

(* The next call begins where all bytes of a call are written.             *)
LEMMA WrittenNext ==
  ASSUME NEW d, NEW base, NEW s \in Views, NEW k \in 1 .. LastCall(s),
         Written(d, base, s, k, Len(CallBytes(s, k)))
  PROVE  Written(d, base, s, k + 1, 0)
<1> SUFFICES ASSUME NEW c \in 1 .. LastCall(s), NEW j \in 1 .. Len(CallBytes(s, c)),
                    c < k + 1 \/ (c = k + 1 /\ j <= 0)
             PROVE  d[base + CallAt(s, c) + j] = CallBytes(s, c)[j]
  BY DEF Written
<1>1. c \in Int /\ j \in Int /\ 1 <= j /\ Len(CallBytes(s, c)) \in Nat
  BY CallEnds
<1>2. c < k \/ c = k
  BY <1>1
<1>3. c = k => j <= Len(CallBytes(s, k))
  BY <1>1
<1>4. c < k \/ (c = k /\ j <= Len(CallBytes(s, k)))
  BY <1>2, <1>3
<1>5. QED BY <1>4 DEF Written

(* Before the first call nothing is.                                       *)
LEMMA WrittenNone ==
  ASSUME NEW d, NEW base, NEW s \in Views
  PROVE  Written(d, base, s, 1, 0)
<1> SUFFICES ASSUME NEW c \in 1 .. LastCall(s), NEW j \in 1 .. Len(CallBytes(s, c)),
                    c < 1 \/ (c = 1 /\ j <= 0)
             PROVE  FALSE
  BY DEF Written
<1>1. c \in Int /\ j \in Int /\ 1 <= j /\ 1 <= c
  OBVIOUS
<1>2. QED BY <1>1

(* A stream that grows keeps its bytes.                                    *)
LEMMA GrowthCopies ==
  ASSUME NEW d \in Seq(Byte), NEW x \in Seq(Byte), NEW from \in Nat, NEW to \in Int,
         to <= Len(d)
  PROVE  Copied(d, d \o x, 0, from, to)
<1> DEFINE e == d \o x
<1>1. \A i \in 1 .. Len(d) : e[i] = d[i]
  BY Joint, Zenon
<1>2. Len(d) \in Nat
  BY LenProperties
<1> HIDE DEF e
<1>3. ASSUME NEW i \in Int, from < i, i <= to PROVE e[i - 0] = d[i]
  <2>1. i \in 1 .. Len(d) /\ i - 0 = i
    BY <1>2, <1>3
  <2>2. QED BY <1>1, <2>1
<1>4. Copied(d, e, 0, from, to)
  BY <1>3 DEF Copied
<1>5. QED BY <1>4 DEF e

(* So does one whose first bytes are taken, of those behind them.          *)
LEMMA DropCopies ==
  ASSUME NEW d \in Seq(Byte), NEW p \in Nat, NEW from \in Nat, NEW to \in Int,
         p <= from, to <= Len(d)
  PROVE  Copied(d, WithoutFirst(d, p), p, from, to)
<1> DEFINE e == WithoutFirst(d, p)
<1>1. Len(d) \in Nat
  BY LenProperties
<1>2. p <= Len(d) => \A i \in 1 .. Len(d) - p : e[i] = d[p + i]
  BY DropsKeep, Zenon
<1> HIDE DEF e
<1>3. ASSUME NEW i \in Int, from < i, i <= to PROVE e[i - p] = d[i]
  <2>1. p <= Len(d) /\ i - p \in 1 .. Len(d) - p /\ p + (i - p) = i
    BY <1>1, <1>3
  <2>2. QED BY <1>2, <2>1
<1>4. Copied(d, e, p, from, to)
  BY <1>3 DEF Copied
<1>5. QED BY <1>4 DEF e

(* A push writes more bytes of the call.                                   *)
LEMMA WrittenPushed ==
  ASSUME NEW d \in Seq(Byte), NEW x \in Seq(Byte), NEW base \in Nat, NEW s \in Views,
         NEW k \in 1 .. LastCall(s), NEW m \in Nat,
         Written(d, base, s, k, m), Len(d) = base + CallAt(s, k) + m,
         \A j \in 1 .. Len(x) : x[j] = CallBytes(s, k)[m + j]
  PROVE  Written(d \o x, base, s, k, m + Len(x))
<1> DEFINE e == d \o x
           a == CallAt(s, k)
           n == Len(x)
<1>1. a \in Nat /\ n \in Nat /\ Len(d) \in Nat
  BY CallEnds, LenProperties
<1>2. \A i \in 1 .. n : e[Len(d) + i] = x[i]
  BY Joint, Zenon
<1>3. Copied(d, e, 0, base, base + a + m)
  <2>1. base + a + m \in Int /\ base + a + m <= Len(d)
    BY <1>1
  <2>2. QED BY <2>1, GrowthCopies
<1>4. Written(e, base, s, k, m)
  <2>1. k \in 1 .. LastCall(s) + 1
    BY CallsInOrder
  <2> HIDE DEF e, a
  <2>2. Written(e, base - 0, s, k, m)
    BY <1>3, <2>1, WrittenCopies DEF a
  <2>3. base - 0 = base
    OBVIOUS
  <2>4. QED BY <2>2, <2>3
<1> HIDE DEF e, n
<1>5. ASSUME NEW c \in 1 .. LastCall(s), NEW j \in 1 .. Len(CallBytes(s, c)),
             c < k \/ (c = k /\ j <= m + n)
      PROVE  e[base + CallAt(s, c) + j] = CallBytes(s, c)[j]
  <2>1. CASE c < k \/ (c = k /\ j <= m)
    BY <1>4, <2>1 DEF Written
  <2>2. CASE c = k /\ m < j /\ j <= m + n
    <3> DEFINE i == j - m
    <3>1. j \in Int /\ i \in 1 .. n /\ m + i = j
      BY <1>1, <2>2
    <3>2. base + CallAt(s, c) + j = Len(d) + i
      BY <1>1, <2>2, <3>1
    <3> HIDE DEF i
    <3>3. e[Len(d) + i] = CallBytes(s, k)[j]
      BY <1>2, <3>1 DEF n
    <3>4. QED BY <2>2, <3>2, <3>3
  <2>3. QED BY <1>1, <1>5, <2>1, <2>2
<1>6. Written(e, base, s, k, m + n)
  BY <1>5 DEF Written
<1>7. QED BY <1>6 DEF e, n

-----------------------------------------------------------------------------
(* The stream to the client: the packets that are sent and not received,   *)
(* and what follows them.                                                  *)

(* The packets of t but the first g lie in d one behind the other, from b  *)
(* on, each from its place in start to that of the next.                   *)
Layout(start, d, t, g, b) ==
  /\ start[g + 1] = b
  /\ \A i \in g + 1 .. Len(t) + 1 : start[i] \in Nat /\ start[i] <= Len(d)
  /\ \A i, j \in g + 1 .. Len(t) + 1 : i <= j => start[i] <= start[j]
  /\ \A i \in g + 1 .. Len(t) :
       /\ start[i + 1] = start[i] + 4 + PacketSize(t[i])
       /\ Whole(d, start[i], t[i])

(* Behind e follows less than a packet. *)
Stump(d, e) ==
  /\ e <= Len(d)
  /\ \/ Len(d) < e + 4
     \/ \E s \in Views : Len(d) < e + 4 + PacketSize(s) /\ Written(d, e, s, 2, 0)

(* Behind e follows what is written of s when m bytes of the k-th call     *)
(* have been sent; with a hole, less than that, but the length.            *)
Reaches(d, e, s, k, m, hole) ==
  IF hole
  THEN e + 4 <= Len(d) /\ Len(d) < e + CallAt(s, k) + m /\ Written(d, e, s, 2, 0)
  ELSE Len(d) = e + CallAt(s, k) + m /\ Written(d, e, s, k, m)

(* The packets and nothing else, the packets and a stump, the packets and  *)
(* the one being sent.                                                     *)
Even(d, t, g, b) ==
  \E start : Layout(start, d, t, g, b) /\ Len(d) = start[Len(t) + 1]
Cut(d, t, g, b) ==
  \E start : Layout(start, d, t, g, b) /\ Stump(d, start[Len(t) + 1])
Partly(d, t, g, b, s, k, m, hole) ==
  \E start : Layout(start, d, t, g, b) /\ Reaches(d, start[Len(t) + 1], s, k, m, hole)

(* A whole packet stays whole.                                             *)
LEMMA WholeMoves ==
  ASSUME NEW d, NEW e, NEW p \in Nat, NEW x \in Nat, NEW s \in Views, NEW l \in Int,
         p <= x, x + 4 + PacketSize(s) <= l, Copied(d, e, p, p, l), Whole(d, x, s)
  PROVE  Whole(e, x - p, s)
<1> DEFINE k == LastCall(s) + 1
           z == x + CallAt(s, k) + 0
<1>1. /\ k \in 1 .. LastCall(s) + 1 /\ CallAt(s, k) = 4 + PacketSize(s)
      /\ PacketSize(s) \in Nat /\ Written(d, x, s, k, 0)
  BY CallsInOrder, ViewFacts DEF Whole
<1>2. z \in Int /\ z <= l
  BY <1>1
<1>3. \A y \in Int : p < y /\ y <= l => e[y - p] = d[y]
  BY DEF Copied
<1> HIDE DEF k, z
<1>4. ASSUME NEW y \in Int, x < y, y <= z PROVE e[y - p] = d[y]
  <2>1. p < y /\ y <= l
    BY <1>2, <1>4
  <2>2. QED BY <1>3, <2>1
<1>5. Copied(d, e, p, x, z)
  BY <1>4 DEF Copied
<1>6. Written(e, x - p, s, k, 0)
  BY <1>1, <1>5, WrittenCopies DEF z
<1>7. QED BY <1>6 DEF Whole, k

(* The packets of a stream are where they were when it grows, and p places *)
(* further up when its first p bytes are taken.                            *)
LEMMA LayoutMoves ==
  ASSUME NEW d \in Seq(Byte), NEW e \in Seq(Byte), NEW t \in Seq(Views),
         NEW g \in Nat, NEW h \in Nat, g <= h, h <= Len(t),
         NEW start, NEW b, NEW p \in Nat, p <= start[h + 1],
         Len(d) - p <= Len(e), Copied(d, e, p, p, Len(d)),
         Layout(start, d, t, g, b)
  PROVE  Layout([i \in h + 1 .. Len(t) + 1 |-> start[i] - p], e, t, h, start[h + 1] - p)
<1> DEFINE n == Len(t)
           moved == [i \in h + 1 .. n + 1 |-> start[i] - p]
<1>1. n \in Nat /\ Len(d) \in Nat /\ Len(e) \in Nat
  BY LenProperties
<1>2. \A i \in h + 1 .. n + 1 : moved[i] = start[i] - p
  OBVIOUS
<1>3. /\ \A i \in g + 1 .. n + 1 : start[i] \in Nat /\ start[i] <= Len(d)
      /\ \A i, j \in g + 1 .. n + 1 : i <= j => start[i] <= start[j]
      /\ \A i \in g + 1 .. n :
           start[i + 1] = start[i] + 4 + PacketSize(t[i]) /\ Whole(d, start[i], t[i])
  BY DEF Layout
<1>4. \A i \in 1 .. n : t[i] \in Views
  BY ElementOfSeq
<1> HIDE DEF n, moved
<1>5. h <= n
  BY DEF n
<1>6. ASSUME NEW i \in h + 1 .. n + 1
      PROVE  /\ i \in g + 1 .. n + 1 /\ start[i] \in Nat /\ p <= start[i]
             /\ start[i] <= Len(d) /\ moved[i] = start[i] - p
  <2>1. i \in g + 1 .. n + 1 /\ h + 1 \in g + 1 .. n + 1 /\ h + 1 <= i
    BY <1>1, <1>5
  <2>2. start[h + 1] <= start[i] /\ start[h + 1] \in Nat /\ start[i] \in Nat
        /\ start[i] <= Len(d)
    BY <1>3, <2>1
  <2>3. p <= start[i]
    BY <2>2
  <2>4. QED BY <1>2, <2>1, <2>2, <2>3
<1>7. moved[h + 1] = start[h + 1] - p
  <2>1. h + 1 \in h + 1 .. n + 1
    BY <1>1, <1>5
  <2>2. QED BY <1>2, <2>1
<1>8. \A i \in h + 1 .. n + 1 : moved[i] \in Nat /\ moved[i] <= Len(e)
  <2>1. ASSUME NEW i \in h + 1 .. n + 1 PROVE moved[i] \in Nat /\ moved[i] <= Len(e)
    <3>1. /\ start[i] \in Nat /\ p <= start[i] /\ start[i] <= Len(d)
          /\ moved[i] = start[i] - p
      BY <1>6
    <3>2. Len(d) \in Nat /\ Len(e) \in Nat /\ Len(d) - p <= Len(e)
      BY <1>1
    <3>3. moved[i] \in Nat
      BY <3>1
    <3>4. QED BY <3>1, <3>2, <3>3
  <2>2. QED BY <2>1
<1>9. ASSUME NEW i \in h + 1 .. n + 1, NEW j \in h + 1 .. n + 1, i <= j
      PROVE  moved[i] <= moved[j]
  <2>1. start[i] <= start[j]
    BY <1>3, <1>6, <1>9
  <2>2. QED BY <1>6, <2>1
<1>10. ASSUME NEW i \in h + 1 .. n
       PROVE  moved[i + 1] = moved[i] + 4 + PacketSize(t[i]) /\ Whole(e, moved[i], t[i])
  <2>1. i \in h + 1 .. n + 1 /\ i + 1 \in h + 1 .. n + 1 /\ i \in g + 1 .. n /\ i \in 1 .. n
    BY <1>1
  <2>2. /\ start[i + 1] = start[i] + 4 + PacketSize(t[i]) /\ Whole(d, start[i], t[i])
        /\ t[i] \in Views
    BY <1>3, <1>4, <2>1
  <2>3. /\ start[i] \in Nat /\ p <= start[i] /\ moved[i] = start[i] - p
        /\ start[i + 1] \in Nat /\ start[i + 1] <= Len(d) /\ moved[i + 1] = start[i + 1] - p
    BY <1>6, <2>1
  <2>4. PacketSize(t[i]) \in Nat
    BY <2>2, ViewFacts
  <2>5. moved[i + 1] = moved[i] + 4 + PacketSize(t[i])
    <3> DEFINE u == start[i]
               v == start[i + 1]
               l == PacketSize(t[i])
    <3>1. u \in Nat /\ v \in Nat /\ l \in Nat /\ v = u + 4 + l
      BY <2>2, <2>3, <2>4
    <3>2. moved[i] = u - p /\ moved[i + 1] = v - p
      BY <2>3
    <3> HIDE DEF u, v, l
    <3>3. moved[i + 1] = moved[i] + 4 + l
      BY <3>1, <3>2
    <3>4. QED BY <3>3 DEF l
  <2>6. Whole(e, moved[i], t[i])
    <3> DEFINE u == start[i]
               s == t[i]
    <3>1. u \in Nat /\ s \in Views /\ p <= u /\ Len(d) \in Int
          /\ u + 4 + PacketSize(s) <= Len(d) /\ Whole(d, u, s)
      BY <1>1, <2>2, <2>3
    <3> HIDE DEF u, s
    <3>2. Whole(e, u - p, s)
      BY <3>1, WholeMoves
    <3>3. QED BY <2>3, <3>2 DEF u, s
  <2>7. QED BY <2>5, <2>6
<1>11. Layout(moved, e, t, h, start[h + 1] - p)
  BY <1>7, <1>8, <1>9, <1>10 DEF Layout, n
<1>12. QED BY <1>11 DEF moved, n

(* One more packet behind the packets of a stream.                         *)
LEMMA LayoutAppends ==
  ASSUME NEW d \in Seq(Byte), NEW t \in Seq(Views), NEW g \in Nat, g <= Len(t),
         NEW start, NEW b, NEW s \in Views, NEW z \in Nat,
         z = start[Len(t) + 1] + 4 + PacketSize(s), z <= Len(d),
         Whole(d, start[Len(t) + 1], s), Layout(start, d, t, g, b)
  PROVE  Layout([i \in g + 1 .. Len(t) + 2 |-> IF i = Len(t) + 2 THEN z ELSE start[i]],
                d, Append(t, s), g, b)
<1> DEFINE n == Len(t)
           u == Append(t, s)
           longer == [i \in g + 1 .. n + 2 |-> IF i = n + 2 THEN z ELSE start[i]]
<1>1. n \in Nat /\ Len(u) = n + 1 /\ u[n + 1] = s /\ \A i \in 1 .. n : u[i] = t[i]
  BY AppendProperties, LenProperties
<1>2. /\ \A i \in g + 1 .. n + 2 : i # n + 2 => longer[i] = start[i]
      /\ n + 2 \in g + 1 .. n + 2 => longer[n + 2] = z
  OBVIOUS
<1>3. /\ start[g + 1] = b
      /\ \A i \in g + 1 .. n + 1 : start[i] \in Nat /\ start[i] <= Len(d)
      /\ \A i, j \in g + 1 .. n + 1 : i <= j => start[i] <= start[j]
      /\ \A i \in g + 1 .. n :
           start[i + 1] = start[i] + 4 + PacketSize(t[i]) /\ Whole(d, start[i], t[i])
  BY DEF Layout
<1>4. PacketSize(s) \in Nat /\ z = start[n + 1] + 4 + PacketSize(s)
      /\ Whole(d, start[n + 1], s) /\ g <= n
  BY ViewFacts
<1> HIDE DEF n, u, longer
<1>5. n + 2 \in g + 1 .. n + 2 /\ n + 1 \in g + 1 .. n + 1 /\ longer[n + 2] = z
  BY <1>1, <1>2, <1>4
<1>6. start[n + 1] \in Nat /\ start[n + 1] <= z
  <2> DEFINE v == start[n + 1]
  <2>1. v \in Nat /\ z = v + 4 + PacketSize(s)
    BY <1>3, <1>4, <1>5
  <2> HIDE DEF v
  <2>2. v \in Nat /\ v <= z
    BY <1>4, <2>1
  <2>3. QED BY <2>2 DEF v
<1>7. ASSUME NEW i \in g + 1 .. n + 1
      PROVE  i \in g + 1 .. n + 2 /\ longer[i] = start[i] /\ start[i] \in Nat
             /\ start[i] <= Len(d) /\ start[i] <= z
  <2>1. i \in g + 1 .. n + 2 /\ i # n + 2 /\ i <= n + 1
    BY <1>1
  <2>2. start[i] \in Nat /\ start[i] <= Len(d) /\ start[i] <= start[n + 1]
    BY <1>3, <1>5, <2>1
  <2>3. start[i] <= z
    BY <1>6, <2>2
  <2>4. QED BY <1>2, <2>1, <2>2, <2>3
<1>8. longer[g + 1] = b
  <2>1. g + 1 \in g + 1 .. n + 1
    BY <1>1, <1>4
  <2>2. QED BY <1>3, <1>7, <2>1
<1>9. ASSUME NEW i \in g + 1 .. n + 2 PROVE longer[i] \in Nat /\ longer[i] <= Len(d)
  <2>1. i = n + 2 \/ i \in g + 1 .. n + 1
    BY <1>1
  <2>2. QED BY <1>5, <1>7, <2>1
<1>10. ASSUME NEW i \in g + 1 .. n + 2, NEW j \in g + 1 .. n + 2, i <= j
       PROVE  longer[i] <= longer[j]
  <2>1. CASE j = n + 2
    <3>1. i = n + 2 \/ i \in g + 1 .. n + 1
      BY <1>1
    <3>2. QED BY <1>5, <1>7, <2>1, <3>1
  <2>2. CASE j # n + 2
    <3>1. j \in g + 1 .. n + 1 /\ i \in g + 1 .. n + 1
      BY <1>1, <1>10, <2>2
    <3>2. start[i] <= start[j]
      BY <1>3, <1>10, <3>1
    <3>3. QED BY <1>7, <3>1, <3>2
  <2>3. QED BY <2>1, <2>2
<1>11. ASSUME NEW i \in g + 1 .. n + 1
       PROVE  longer[i + 1] = longer[i] + 4 + PacketSize(u[i]) /\ Whole(d, longer[i], u[i])
  <2>1. CASE i = n + 1
    <3>1. i + 1 = n + 2 /\ longer[i] = start[n + 1] /\ u[i] = s
      BY <1>1, <1>7, <2>1
    <3>2. longer[i + 1] = z
      BY <1>5, <3>1
    <3>3. QED BY <1>4, <3>1, <3>2
  <2>2. CASE i # n + 1
    <3>1. i \in g + 1 .. n /\ i + 1 \in g + 1 .. n + 1 /\ i \in 1 .. n
      BY <1>1, <2>2
    <3>2. longer[i + 1] = start[i + 1] /\ longer[i] = start[i] /\ u[i] = t[i]
      BY <1>1, <1>7, <3>1
    <3>3. start[i + 1] = start[i] + 4 + PacketSize(t[i]) /\ Whole(d, start[i], t[i])
      BY <1>3, <3>1
    <3>4. QED BY <3>2, <3>3
  <2>3. QED BY <2>1, <2>2
<1>12. Len(u) + 1 = n + 2 /\ Len(u) = n + 1
  BY <1>1
<1>13. Layout(longer, d, u, g, b)
  BY <1>8, <1>9, <1>10, <1>11, <1>12 DEF Layout
<1>14. QED BY <1>13 DEF longer, u, n

(* What is written of the size stays where it is, or moves as all does.    *)
LEMMA SizeMoves ==
  ASSUME NEW d, NEW e, NEW p \in Nat, NEW x \in Nat, NEW s \in Views, NEW l \in Int,
         p <= x, x + 4 <= l, Copied(d, e, p, p, l), Written(d, x, s, 2, 0)
  PROVE  Written(e, x - p, s, 2, 0)
<1> DEFINE z == x + CallAt(s, 2) + 0
<1>1. 2 \in 1 .. LastCall(s) + 1 /\ CallAt(s, 2) = 4
  <2>1. LastCall(s) \in Nat /\ 6 <= LastCall(s) /\ CallAt(s, 2) = 4
    BY CallsInOrder, CallAtFacts
  <2>2. QED BY <2>1
<1>2. z \in Int /\ z <= l
  BY <1>1
<1>3. \A y \in Int : p < y /\ y <= l => e[y - p] = d[y]
  BY DEF Copied
<1> HIDE DEF z
<1>4. ASSUME NEW y \in Int, x < y, y <= z PROVE e[y - p] = d[y]
  <2>1. p < y /\ y <= l
    BY <1>2, <1>4
  <2>2. QED BY <1>3, <2>1
<1>5. Copied(d, e, p, x, z)
  BY <1>4 DEF Copied
<1>6. QED BY <1>1, <1>5, WrittenCopies DEF z

(* A stump moves with the packets before it.                               *)
LEMMA StumpMoves ==
  ASSUME NEW d \in Seq(Byte), NEW e \in Seq(Byte), NEW x \in Nat, NEW p \in Nat, p <= x,
         Len(e) = Len(d) - p, Copied(d, e, p, p, Len(d)), Stump(d, x)
  PROVE  Stump(e, x - p)
<1>1. Len(d) \in Nat /\ Len(e) \in Nat /\ x <= Len(d)
  BY LenProperties DEF Stump
<1>2. CASE Len(d) < x + 4
  BY <1>1, <1>2 DEF Stump
<1>3. CASE ~(Len(d) < x + 4)
  <2>1. PICK s \in Views : Len(d) < x + 4 + PacketSize(s) /\ Written(d, x, s, 2, 0)
    BY <1>3 DEF Stump
  <2>2. PacketSize(s) \in Nat
    BY ViewFacts
  <2>3. Len(d) \in Int /\ x + 4 <= Len(d)
    BY <1>1, <1>3
  <2>4. Written(e, x - p, s, 2, 0)
    BY <2>1, <2>3, SizeMoves
  <2>5. Len(e) < (x - p) + 4 + PacketSize(s) /\ x - p <= Len(e)
    BY <1>1, <2>1, <2>2
  <2>6. QED BY <2>4, <2>5 DEF Stump
<1>4. QED BY <1>2, <1>3

(* So does the packet that is being sent.                                  *)
LEMMA ReachesMoves ==
  ASSUME NEW d \in Seq(Byte), NEW e \in Seq(Byte), NEW x \in Nat, NEW p \in Nat, p <= x,
         Len(e) = Len(d) - p, Copied(d, e, p, p, Len(d)),
         NEW s \in Views, NEW k \in 1 .. LastCall(s), NEW m \in Nat, NEW hole \in BOOLEAN,
         Reaches(d, x, s, k, m, hole)
  PROVE  Reaches(e, x - p, s, k, m, hole)
<1> DEFINE a == CallAt(s, k)
<1>1. Len(d) \in Nat /\ Len(e) \in Nat /\ a \in Nat
  BY LenProperties, CallEnds
<1>2. CASE hole
  <2>1. x + 4 <= Len(d) /\ Len(d) < x + a + m /\ Written(d, x, s, 2, 0)
    BY <1>2 DEF Reaches
  <2>2. Written(e, x - p, s, 2, 0)
    BY <1>1, <2>1, SizeMoves
  <2> HIDE DEF a
  <2>3. (x - p) + 4 <= Len(e) /\ Len(e) < (x - p) + a + m
    BY <1>1, <2>1
  <2>4. QED BY <1>2, <2>2, <2>3 DEF Reaches, a
<1>3. CASE ~hole
  <2>1. Len(d) = x + a + m /\ Written(d, x, s, k, m)
    BY <1>3 DEF Reaches
  <2>2. k \in 1 .. LastCall(s) + 1
    BY CallsInOrder
  <2> HIDE DEF a
  <2>3. \A y \in Int : p < y /\ y <= Len(d) => e[y - p] = d[y]
    BY DEF Copied
  <2>4. ASSUME NEW y \in Int, x < y, y <= x + a + m PROVE e[y - p] = d[y]
    <3>1. p < y /\ y <= Len(d)
      BY <1>1, <2>1, <2>4
    <3>2. QED BY <2>3, <3>1
  <2>5. Copied(d, e, p, x, x + a + m)
    BY <2>4 DEF Copied
  <2>6. Written(e, x - p, s, k, m)
    BY <2>1, <2>2, <2>5, WrittenCopies DEF a
  <2>7. Len(e) = (x - p) + a + m
    BY <1>1, <2>1
  <2>8. QED BY <1>3, <2>6, <2>7 DEF Reaches, a
<1>4. QED BY <1>2, <1>3

(* Where the packets of a stream end.                                      *)
LEMMA LayoutEnds ==
  ASSUME NEW d, NEW t \in Seq(Views), NEW g \in Nat, g <= Len(t), NEW start, NEW b,
         Layout(start, d, t, g, b)
  PROVE  start[Len(t) + 1] \in Nat /\ start[Len(t) + 1] <= Len(d)
<1>1. Len(t) + 1 \in g + 1 .. Len(t) + 1
  BY LenProperties
<1>2. QED BY <1>1 DEF Layout

(* They stay when the stream grows.                                        *)
LEMMA LayoutGrows ==
  ASSUME NEW d \in Seq(Byte), NEW x \in Seq(Byte), NEW t \in Seq(Views),
         NEW g \in Nat, g <= Len(t), NEW start, NEW b, Layout(start, d, t, g, b)
  PROVE  \E again : /\ Layout(again, d \o x, t, g, b)
                    /\ again[Len(t) + 1] = start[Len(t) + 1]
<1> DEFINE e == d \o x
           again == [i \in g + 1 .. Len(t) + 1 |-> start[i] - 0]
<1>1. e \in Seq(Byte) /\ Len(d) \in Nat /\ Len(e) = Len(d) + Len(x) /\ Len(x) \in Nat
  BY Joint, Zenon, LenProperties
<1>2. Copied(d, e, 0, 0, Len(d))
  BY <1>1, GrowthCopies
<1> HIDE DEF e
<1>3. start[g + 1] \in Nat /\ start[g + 1] = b
  <2>1. g + 1 \in g + 1 .. Len(t) + 1
    BY LenProperties
  <2>2. QED BY <2>1 DEF Layout
<1>4. Len(d) - 0 <= Len(e) /\ 0 <= start[g + 1] /\ g <= g /\ 0 \in Nat
  BY <1>1, <1>3
<1>5. Layout(again, e, t, g, start[g + 1] - 0)
  BY <1>1, <1>2, <1>4, LayoutMoves
<1>6. start[g + 1] - 0 = b
  BY <1>3
<1>7. again[Len(t) + 1] = start[Len(t) + 1]
  <2>1. Len(t) + 1 \in g + 1 .. Len(t) + 1
    BY LenProperties
  <2>2. start[Len(t) + 1] \in Nat
    BY LayoutEnds
  <2>3. QED BY <2>1, <2>2
<1> HIDE DEF again
<1>8. QED BY <1>5, <1>6, <1>7 DEF e

(* So does the packet being sent, of which there is more then.             *)
LEMMA ReachesPushed ==
  ASSUME NEW d \in Seq(Byte), NEW x \in Seq(Byte), NEW base \in Nat, NEW s \in Views,
         NEW k \in 1 .. LastCall(s), NEW m \in Nat, NEW hole \in BOOLEAN,
         Reaches(d, base, s, k, m, hole),
         \A j \in 1 .. Len(x) : x[j] = CallBytes(s, k)[m + j]
  PROVE  Reaches(d \o x, base, s, k, m + Len(x), hole)
<1> DEFINE e == d \o x
           a == CallAt(s, k)
<1>1. e \in Seq(Byte) /\ Len(d) \in Nat /\ Len(e) = Len(d) + Len(x) /\ Len(x) \in Nat
  BY Joint, Zenon, LenProperties
<1>2. Copied(d, e, 0, 0, Len(d))
  <2>1. Len(d) \in Int /\ Len(d) <= Len(d) /\ 0 \in Nat
    BY <1>1
  <2>2. QED BY <2>1, GrowthCopies, Zenon
<1>3. a \in Nat
  BY CallEnds
<1>4. CASE ~hole
  <2>1. Len(d) = base + a + m /\ Written(d, base, s, k, m)
    BY <1>4 DEF Reaches
  <2>2. Written(e, base, s, k, m + Len(x))
    BY <2>1, WrittenPushed
  <2> HIDE DEF e, a
  <2>3. Len(e) = base + a + (m + Len(x))
    BY <1>1, <1>3, <2>1
  <2>4. QED BY <1>4, <2>2, <2>3 DEF Reaches, e, a
<1>5. CASE hole
  <2> HIDE DEF e, a
  <2>1. base + 4 <= Len(d) /\ Len(d) < base + a + m /\ Written(d, base, s, 2, 0)
    BY <1>5 DEF Reaches, a
  <2>2. Len(d) \in Int /\ 0 \in Nat /\ 0 <= base
    BY <1>1
  <2>3. Written(e, base - 0, s, 2, 0) /\ base - 0 = base
    <3>1. Written(e, base - 0, s, 2, 0)
      BY <1>2, <2>1, <2>2, SizeMoves, Zenon
    <3>2. QED BY <3>1
  <2>4. base + 4 <= Len(e) /\ Len(e) < base + a + (m + Len(x))
    BY <1>1, <1>3, <2>1
  <2>5. QED BY <1>5, <2>3, <2>4 DEF Reaches, a, e
<1>6. QED BY <1>4, <1>5

(* Nothing of a packet is written yet.                                     *)
LEMMA ReachesNone ==
  ASSUME NEW d \in Seq(Byte), NEW x \in Nat, NEW s \in Views, Len(d) = x
  PROVE  Reaches(d, x, s, 1, 0, FALSE)
<1>1. CallAt(s, 1) = 0
  BY CallAtFacts
<1>2. Written(d, x, s, 1, 0)
  BY WrittenNone
<1>3. Len(d) = x + CallAt(s, 1) + 0
  BY <1>1
<1>4. QED BY <1>2, <1>3 DEF Reaches

(* A call has sent all its bytes: the next one is under way.               *)
LEMMA ReachesTurns ==
  ASSUME NEW d \in Seq(Byte), NEW x \in Nat, NEW s \in Views, NEW k \in 1 .. LastCall(s),
         NEW m \in Nat, m = Len(CallBytes(s, k)), NEW hole \in BOOLEAN,
         Reaches(d, x, s, k, m, hole)
  PROVE  Reaches(d, x, s, k + 1, 0, hole)
<1> DEFINE a == CallAt(s, k)
           b == CallAt(s, k + 1)
<1>1. a \in Nat /\ b = a + m
  BY NextCallAt
<1>2. ~hole => Written(d, x, s, k + 1, 0)
  BY WrittenNext DEF Reaches
<1>3. IF hole THEN x + 4 <= Len(d) /\ Len(d) < x + a + m /\ Written(d, x, s, 2, 0)
              ELSE Len(d) = x + a + m
  BY DEF Reaches
<1> HIDE DEF a, b
<1>4. x + a + m = x + b + 0
  BY <1>1
<1>5. QED BY <1>2, <1>3, <1>4 DEF Reaches, b

(* A call behind the first fails and the next one is made: from now on the *)
(* stream has a hole.                                                      *)
LEMMA ReachesFails ==
  ASSUME NEW d \in Seq(Byte), NEW x \in Nat, NEW s \in Views, NEW k \in 1 .. LastCall(s),
         2 <= k, NEW m \in Nat, m < Len(CallBytes(s, k)), NEW hole \in BOOLEAN,
         Reaches(d, x, s, k, m, hole)
  PROVE  Reaches(d, x, s, k + 1, 0, TRUE)
<1> DEFINE a == CallAt(s, k)
           b == CallAt(s, k + 1)
           l == Len(CallBytes(s, k))
<1>1. a \in Nat /\ l \in Nat /\ b = a + l /\ m < l /\ 4 <= a /\ Len(d) \in Nat
  <2>1. a \in Nat /\ l \in Nat /\ b = a + l
    BY NextCallAt
  <2>2. CallAt(s, 2) <= CallAt(s, k) /\ CallAt(s, 2) = 4
    <3>1. 2 \in 1 .. LastCall(s) + 1 /\ k \in 1 .. LastCall(s) + 1
      BY CallsInOrder
    <3>2. QED BY <3>1, CallsInOrder, CallAtFacts
  <2>3. QED BY <2>1, <2>2, LenProperties
<1>2. Written(d, x, s, 2, 0)
  <2>1. CASE hole
    BY <2>1 DEF Reaches
  <2>2. CASE ~hole
    <3>1. Written(d, x, s, k, m)
      BY <2>2 DEF Reaches
    <3>2. k \in Int /\ m \in Int /\ 2 \in Int /\ 0 \in Int /\ (2 < k \/ (2 = k /\ 0 <= m))
      OBVIOUS
    <3>3. QED BY <3>1, <3>2, WrittenLess
  <2>3. QED BY <2>1, <2>2
<1>3. IF hole THEN x + 4 <= Len(d) /\ Len(d) < x + a + m ELSE Len(d) = x + a + m
  BY DEF Reaches
<1> HIDE DEF a, b, l
<1>4. x + 4 <= Len(d) /\ Len(d) < x + b + 0
  BY <1>1, <1>3
<1>5. QED BY <1>2, <1>4 DEF Reaches, b

(* What is written of a packet is less than the packet, until the last     *)
(* call has sent its last byte.                                            *)
LEMMA ReachesStump ==
  ASSUME NEW d \in Seq(Byte), NEW x \in Nat, NEW s \in Views, NEW k \in 1 .. LastCall(s),
         NEW m \in Nat, NEW hole \in BOOLEAN,
         m = 0 \/ m < Len(CallBytes(s, k)) \/ (hole /\ m = Len(CallBytes(s, k))),
         x <= Len(d), Reaches(d, x, s, k, m, hole)
  PROVE  Stump(d, x)
<1> DEFINE a == CallAt(s, k)
           l == Len(CallBytes(s, k))
           z == 4 + PacketSize(s)
<1>1. /\ a \in Nat /\ l \in Nat /\ a + l <= z /\ (k # LastCall(s) => a + l < z)
      /\ Len(d) \in Nat /\ PacketSize(s) \in Nat
  BY CallEnds, ViewFacts, LenProperties
<1>2. k = LastCall(s) => l # 0
  BY CallsInOrder, ViewFacts
<1>3. m = 0 \/ m < l \/ (hole /\ m = l)
  OBVIOUS
<1>4. CASE hole
  <2>1. Len(d) < x + a + m /\ Written(d, x, s, 2, 0)
    BY <1>4 DEF Reaches
  <2> HIDE DEF a, l, z
  <2>2. Len(d) < x + z /\ z \in Nat
    BY <1>1, <1>3, <2>1 DEF z
  <2>3. Len(d) < x + 4 + PacketSize(s)
    BY <1>1, <2>2 DEF z
  <2>4. QED BY <2>1, <2>3 DEF Stump
<1>5. CASE ~hole /\ k = 1
  <2>1. a = 0 /\ l = 4
    <3>1. CallAt(s, 1) = 0 /\ CallAt(s, 2) = 4
      BY CallAtFacts
    <3>2. CallAt(s, 1 + 1) = CallAt(s, 1) + l
      BY <1>5, NextCallAt
    <3> HIDE DEF l
    <3>3. l = 4
      BY <1>1, <3>1, <3>2
    <3>4. QED BY <1>5, <3>1, <3>3
  <2>2. Len(d) = x + a + m
    BY <1>5 DEF Reaches
  <2> HIDE DEF a, l
  <2>3. Len(d) < x + 4
    BY <1>3, <1>5, <2>1, <2>2
  <2>4. QED BY <2>3 DEF Stump
<1>6. CASE ~hole /\ k # 1
  <2>1. Len(d) = x + a + m /\ Written(d, x, s, k, m)
    BY <1>6 DEF Reaches
  <2>2. k \in Int /\ m \in Int /\ 2 \in Int /\ 0 \in Int /\ (2 < k \/ (2 = k /\ 0 <= m))
    BY <1>6
  <2>3. Written(d, x, s, 2, 0)
    BY <2>1, <2>2, WrittenLess
  <2> HIDE DEF a, l, z
  <2>4. a + m < z /\ z \in Nat
    BY <1>1, <1>2, <1>3, <1>6 DEF z
  <2>5. Len(d) < x + 4 + PacketSize(s)
    BY <1>1, <2>1, <2>4 DEF z
  <2>6. QED BY <2>3, <2>5 DEF Stump
<1>7. QED BY <1>4, <1>5, <1>6

(* When all calls have been made without an error, the packet is whole.    *)
LEMMA ReachesWhole ==
  ASSUME NEW d \in Seq(Byte), NEW x \in Nat, NEW s \in Views,
         Reaches(d, x, s, LastCall(s) + 1, 0, FALSE)
  PROVE  Len(d) = x + 4 + PacketSize(s) /\ Whole(d, x, s)
<1> DEFINE a == CallAt(s, LastCall(s) + 1)
<1>1. Len(d) = x + a + 0 /\ Whole(d, x, s)
  BY DEF Reaches, Whole
<1>2. a = 4 + PacketSize(s) /\ PacketSize(s) \in Nat
  BY CallsInOrder, ViewFacts
<1> HIDE DEF a
<1>3. QED BY <1>1, <1>2

(* What a stream of packets becomes as the server sends.                   *)
LEMMA PartlyBegins ==
  ASSUME NEW d \in Seq(Byte), NEW t \in Seq(Views), NEW g \in Nat, g <= Len(t), NEW b,
         NEW s \in Views, Even(d, t, g, b)
  PROVE  Partly(d, t, g, b, s, 1, 0, FALSE)
<1> PICK start : Layout(start, d, t, g, b) /\ Len(d) = start[Len(t) + 1]
  BY DEF Even
<1> DEFINE x == start[Len(t) + 1]
<1>1. x \in Nat /\ Len(d) = x
  BY LayoutEnds
<1> HIDE DEF x
<1>2. Reaches(d, x, s, 1, 0, FALSE)
  BY <1>1, ReachesNone
<1>3. QED BY <1>2 DEF Partly, x

(* Some more bytes of the call under way are sent.                         *)
LEMMA PartlyPushed ==
  ASSUME NEW d \in Seq(Byte), NEW t \in Seq(Views), NEW g \in Nat, g <= Len(t), NEW b,
         NEW p \in Seq(Byte), NEW s \in Views, NEW k \in 1 .. LastCall(s), NEW m \in Nat,
         NEW hole \in BOOLEAN, Partly(d, t, g, b, s, k, m, hole),
         \A j \in 1 .. Len(p) : p[j] = CallBytes(s, k)[m + j]
  PROVE  Partly(d \o p, t, g, b, s, k, m + Len(p), hole)
<1> PICK start : Layout(start, d, t, g, b) /\ Reaches(d, start[Len(t) + 1], s, k, m, hole)
  BY DEF Partly
<1> DEFINE x == start[Len(t) + 1]
<1>1. x \in Nat /\ Reaches(d, x, s, k, m, hole)
  BY LayoutEnds
<1>2. PICK again : Layout(again, d \o p, t, g, b) /\ again[Len(t) + 1] = x
  BY LayoutGrows
<1> HIDE DEF x
<1>3. Reaches(d \o p, x, s, k, m + Len(p), hole)
  BY <1>1, ReachesPushed
<1>4. QED BY <1>2, <1>3 DEF Partly

(* The next call is made after one that has sent all its bytes, ...        *)
LEMMA PartlyTurns ==
  ASSUME NEW d \in Seq(Byte), NEW t \in Seq(Views), NEW g \in Nat, g <= Len(t), NEW b,
         NEW s \in Views, NEW k \in 1 .. LastCall(s), NEW m \in Nat,
         m = Len(CallBytes(s, k)), NEW hole \in BOOLEAN, Partly(d, t, g, b, s, k, m, hole)
  PROVE  Partly(d, t, g, b, s, k + 1, 0, hole)
<1> PICK start : Layout(start, d, t, g, b) /\ Reaches(d, start[Len(t) + 1], s, k, m, hole)
  BY DEF Partly
<1> DEFINE x == start[Len(t) + 1]
<1>1. x \in Nat /\ Reaches(d, x, s, k, m, hole)
  BY LayoutEnds
<1> HIDE DEF x
<1>2. Reaches(d, x, s, k + 1, 0, hole)
  BY <1>1, ReachesTurns
<1>3. QED BY <1>2 DEF Partly, x

(* ... and in a player's block also after one that has failed.             *)
LEMMA PartlyFails ==
  ASSUME NEW d \in Seq(Byte), NEW t \in Seq(Views), NEW g \in Nat, g <= Len(t), NEW b,
         NEW s \in Views, NEW k \in 1 .. LastCall(s), 2 <= k, NEW m \in Nat,
         m < Len(CallBytes(s, k)), NEW hole \in BOOLEAN, Partly(d, t, g, b, s, k, m, hole)
  PROVE  Partly(d, t, g, b, s, k + 1, 0, TRUE)
<1> PICK start : Layout(start, d, t, g, b) /\ Reaches(d, start[Len(t) + 1], s, k, m, hole)
  BY DEF Partly
<1> DEFINE x == start[Len(t) + 1]
<1>1. x \in Nat /\ Reaches(d, x, s, k, m, hole)
  BY LayoutEnds
<1> HIDE DEF x
<1>2. Reaches(d, x, s, k + 1, 0, TRUE)
  BY <1>1, ReachesFails
<1>3. QED BY <1>2 DEF Partly, x

(* What is there of a packet that is not finished is cut off.              *)
LEMMA PartlyCut ==
  ASSUME NEW d \in Seq(Byte), NEW t \in Seq(Views), NEW g \in Nat, g <= Len(t), NEW b,
         NEW s \in Views, NEW k \in 1 .. LastCall(s), NEW m \in Nat, NEW hole \in BOOLEAN,
         m = 0 \/ m < Len(CallBytes(s, k)) \/ (hole /\ m = Len(CallBytes(s, k))),
         Partly(d, t, g, b, s, k, m, hole)
  PROVE  Cut(d, t, g, b)
<1> PICK start : Layout(start, d, t, g, b) /\ Reaches(d, start[Len(t) + 1], s, k, m, hole)
  BY DEF Partly
<1> DEFINE x == start[Len(t) + 1]
<1>1. x \in Nat /\ x <= Len(d) /\ Reaches(d, x, s, k, m, hole)
  BY LayoutEnds
<1> HIDE DEF x
<1>2. Stump(d, x)
  BY <1>1, ReachesStump
<1>3. QED BY <1>2 DEF Cut, x

(* When it is finished it is one of the packets sent.                      *)
LEMMA PartlyWhole ==
  ASSUME NEW d \in Seq(Byte), NEW t \in Seq(Views), NEW g \in Nat, g <= Len(t), NEW b,
         NEW s \in Views, Partly(d, t, g, b, s, LastCall(s) + 1, 0, FALSE)
  PROVE  Even(d, Append(t, s), g, b)
<1> PICK start : /\ Layout(start, d, t, g, b)
                 /\ Reaches(d, start[Len(t) + 1], s, LastCall(s) + 1, 0, FALSE)
  BY DEF Partly
<1> DEFINE x == start[Len(t) + 1]
           z == Len(d)
           longer == [i \in g + 1 .. Len(t) + 2 |-> IF i = Len(t) + 2 THEN z ELSE start[i]]
<1>1. x \in Nat /\ Reaches(d, x, s, LastCall(s) + 1, 0, FALSE)
  BY LayoutEnds
<1> HIDE DEF x
<1>2. z = x + 4 + PacketSize(s) /\ Whole(d, x, s)
  BY <1>1, ReachesWhole
<1>3. z \in Nat /\ z <= Len(d)
  BY LenProperties
<1> HIDE DEF z
<1>4. Layout(longer, d, Append(t, s), g, b)
  BY <1>2, <1>3, LayoutAppends DEF x
<1>5. Len(Append(t, s)) + 1 = Len(t) + 2 /\ Len(t) + 2 \in g + 1 .. Len(t) + 2
  <2>1. Len(t) \in Nat
    BY LenProperties
  <2>2. Len(Append(t, s)) = Len(t) + 1
    BY AppendProperties
  <2>3. QED BY <2>1, <2>2
<1>6. longer[Len(t) + 2] = z
  BY <1>5
<1> HIDE DEF longer
<1>7. Layout(longer, d, Append(t, s), g, b) /\ Len(d) = longer[Len(Append(t, s)) + 1]
  BY <1>4, <1>5, <1>6 DEF z
<1>8. QED BY <1>7 DEF Even

(* Behind the last packet there is nothing but less than another.          *)
LEMMA EvenCut ==
  ASSUME NEW d \in Seq(Byte), NEW t \in Seq(Views), NEW g \in Nat, g <= Len(t), NEW b,
         Even(d, t, g, b)
  PROVE  Cut(d, t, g, b)
<1> PICK start : Layout(start, d, t, g, b) /\ Len(d) = start[Len(t) + 1]
  BY DEF Even
<1> DEFINE x == start[Len(t) + 1]
<1>1. x \in Nat /\ Len(d) = x
  BY LayoutEnds
<1> HIDE DEF x
<1>2. Len(d) < x + 4 /\ x <= Len(d)
  BY <1>1
<1>3. Stump(d, x)
  BY <1>2 DEF Stump
<1>4. QED BY <1>3 DEF Cut, x

(* What the client takes off the stream: what lies before the first packet *)
(* or the first packet.                                                    *)
Taken(d, t, g, b, p, h) ==
  /\ h <= Len(t)
  /\ \/ h = g /\ p = b
     \/ h = g + 1 /\ p = b + 4 + PacketSize(t[g + 1])

(* The packets behind it begin the stream then.                            *)
LEMMA LayoutDrops ==
  ASSUME NEW d \in Seq(Byte), NEW t \in Seq(Views), NEW g \in Nat, NEW h \in Nat,
         NEW p \in Nat, NEW start, NEW b, Layout(start, d, t, g, b), Taken(d, t, g, b, p, h)
  PROVE  /\ p <= start[Len(t) + 1] /\ start[Len(t) + 1] \in Nat
         /\ start[Len(t) + 1] <= Len(d)
         /\ WithoutFirst(d, p) \in Seq(Byte) /\ Len(WithoutFirst(d, p)) = Len(d) - p
         /\ Copied(d, WithoutFirst(d, p), p, p, Len(d))
         /\ \E again : /\ Layout(again, WithoutFirst(d, p), t, h, 0)
                       /\ again[Len(t) + 1] = start[Len(t) + 1] - p
<1> DEFINE n == Len(t)
           e == WithoutFirst(d, p)
           again == [i \in h + 1 .. n + 1 |-> start[i] - p]
<1>1. n \in Nat /\ Len(d) \in Nat
  BY LenProperties
<1>2. h <= n /\ g <= h /\ h + 1 \in g + 1 .. n + 1 /\ n + 1 \in g + 1 .. n + 1
  BY <1>1 DEF Taken
<1>3. start[h + 1] = p
  <2>1. CASE h = g /\ p = b
    BY <2>1 DEF Layout
  <2>2. CASE h = g + 1 /\ p = b + 4 + PacketSize(t[g + 1])
    <3>1. g + 1 \in g + 1 .. n
      BY <1>1, <1>2, <2>2
    <3>2. start[(g + 1) + 1] = start[g + 1] + 4 + PacketSize(t[g + 1]) /\ start[g + 1] = b
      BY <3>1 DEF Layout
    <3>3. QED BY <2>2, <3>2
  <2>3. QED BY <2>1, <2>2 DEF Taken
<1>4. start[n + 1] \in Nat /\ start[n + 1] <= Len(d) /\ p <= start[n + 1]
  <2>1. h + 1 <= n + 1
    BY <1>1, <1>2
  <2>2. QED BY <1>2, <1>3, <2>1 DEF Layout
<1>5. p <= Len(d)
  <2> DEFINE v == start[n + 1]
  <2>1. v \in Nat /\ v <= Len(d) /\ p <= v
    BY <1>4
  <2> HIDE DEF v
  <2>2. QED BY <1>1, <2>1
<1>6. e \in Seq(Byte) /\ Len(e) = Len(d) - p
  BY <1>5, DropsKeep, Zenon
<1>7. Copied(d, e, p, p, Len(d))
  <2>1. Len(d) \in Int /\ Len(d) <= Len(d) /\ p <= p
    BY <1>1
  <2>2. QED BY <2>1, DropCopies, Zenon
<1> HIDE DEF e
<1>8. Layout(again, e, t, h, start[h + 1] - p)
  <2>1. p <= start[h + 1] /\ Len(d) - p <= Len(e)
    BY <1>1, <1>3, <1>6
  <2>2. QED BY <1>2, <1>6, <1>7, <2>1, LayoutMoves
<1>9. start[h + 1] - p = 0
  BY <1>3
<1>10. again[n + 1] = start[n + 1] - p
  <2>1. n + 1 \in h + 1 .. n + 1
    BY <1>1, <1>2
  <2>2. QED BY <2>1
<1> HIDE DEF again
<1>11. Layout(again, e, t, h, 0)
  BY <1>8, <1>9
<1>12. QED BY <1>4, <1>6, <1>7, <1>10, <1>11 DEF e, n

(* So the rest of the stream is as it was.                                 *)
LEMMA EvenDrops ==
  ASSUME NEW d \in Seq(Byte), NEW t \in Seq(Views), NEW g \in Nat, NEW h \in Nat,
         NEW p \in Nat, NEW b, Taken(d, t, g, b, p, h), Even(d, t, g, b)
  PROVE  Even(WithoutFirst(d, p), t, h, 0)
<1> PICK start : Layout(start, d, t, g, b) /\ Len(d) = start[Len(t) + 1]
  BY DEF Even
<1>1. Len(WithoutFirst(d, p)) = Len(d) - p
  BY LayoutDrops
<1>2. PICK again : /\ Layout(again, WithoutFirst(d, p), t, h, 0)
                   /\ again[Len(t) + 1] = start[Len(t) + 1] - p
  BY LayoutDrops
<1>3. QED BY <1>1, <1>2 DEF Even

(* A stump stays a stump.                                                  *)
LEMMA CutDrops ==
  ASSUME NEW d \in Seq(Byte), NEW t \in Seq(Views), NEW g \in Nat, NEW h \in Nat,
         NEW p \in Nat, NEW b, Taken(d, t, g, b, p, h), Cut(d, t, g, b)
  PROVE  Cut(WithoutFirst(d, p), t, h, 0)
<1> PICK start : Layout(start, d, t, g, b) /\ Stump(d, start[Len(t) + 1])
  BY DEF Cut
<1> DEFINE x == start[Len(t) + 1]
           e == WithoutFirst(d, p)
<1>1. /\ p <= x /\ x \in Nat /\ e \in Seq(Byte) /\ Len(e) = Len(d) - p
      /\ Copied(d, e, p, p, Len(d)) /\ Stump(d, x)
  BY LayoutDrops
<1>2. PICK again : Layout(again, e, t, h, 0) /\ again[Len(t) + 1] = x - p
  BY LayoutDrops
<1> HIDE DEF x, e
<1>3. Stump(e, x - p)
  BY <1>1, StumpMoves
<1>4. QED BY <1>2, <1>3 DEF Cut, e

(* The packet being sent goes on.                                          *)
LEMMA PartlyDrops ==
  ASSUME NEW d \in Seq(Byte), NEW t \in Seq(Views), NEW g \in Nat, NEW h \in Nat,
         NEW p \in Nat, NEW b, Taken(d, t, g, b, p, h),
         NEW s \in Views, NEW k \in 1 .. LastCall(s), NEW m \in Nat, NEW hole \in BOOLEAN,
         Partly(d, t, g, b, s, k, m, hole)
  PROVE  Partly(WithoutFirst(d, p), t, h, 0, s, k, m, hole)
<1> PICK start : Layout(start, d, t, g, b) /\ Reaches(d, start[Len(t) + 1], s, k, m, hole)
  BY DEF Partly
<1> DEFINE x == start[Len(t) + 1]
           e == WithoutFirst(d, p)
<1>1. /\ p <= x /\ x \in Nat /\ e \in Seq(Byte) /\ Len(e) = Len(d) - p
      /\ Copied(d, e, p, p, Len(d)) /\ Reaches(d, x, s, k, m, hole)
  BY LayoutDrops
<1>2. PICK again : Layout(again, e, t, h, 0) /\ again[Len(t) + 1] = x - p
  BY LayoutDrops
<1> HIDE DEF x, e
<1>3. Reaches(e, x - p, s, k, m, hole)
  BY <1>1, ReachesMoves
<1>4. QED BY <1>2, <1>3 DEF Partly, e

-----------------------------------------------------------------------------
(* What the client makes of a packet.                                      *)

(* The numbers that are a length for the client. *)
Lengths == {n \in Nat : n <= 2147483647}

(* They are read as they were written.                                     *)
LEMMA LengthsRead ==
  \A n \in Lengths : n \in Nat /\ Length(Bytes32(n)) = n
<1> SUFFICES ASSUME NEW n \in Lengths PROVE n \in Nat /\ Length(Bytes32(n)) = n
  OBVIOUS
<1>1. n \in Nat /\ n <= 2147483647
  BY SMT DEF Lengths
<1>2. Length(Bytes32(n)) = n
  BY <1>1, LengthReadBack, SMT
<1>3. QED BY <1>1, <1>2, SMT

(* Less than a length is a length.                                         *)
LEMMA ShorterLengths ==
  \A n \in Lengths, k \in Nat : k <= n => k \in Lengths
BY SMT DEF Lengths

(* A coordinate is read as it was written.                                 *)
LEMMA WordsRead ==
  \A n \in Word : Int32(Bytes32(n)) = n
<1> SUFFICES ASSUME NEW n \in Word PROVE Int32(Bytes32(n)) = n
  OBVIOUS
<1>1. n \in Int /\ -2147483647 - 1 <= n /\ n <= 2147483647
  BY WordFacts, SMT
<1>2. QED BY <1>1, IntReadBack, SMT

(* A packet the client takes: every length in it is one.                   *)
LEMMA ViewLengths ==
  ASSUME NEW s \in Views, PacketSize(s) \in Lengths
  PROVE  /\ s.w \in Lengths /\ s.h \in Lengths /\ s.frame \in Lengths
         /\ Len(s.players) \in Lengths
         /\ \A i \in 1 .. Len(s.players) : Len(s.players[i].name) \in Lengths
<1> DEFINE n == Len(s.players)
           b == BlockSizes(s)
           z == PacketSize(s)
           g == Len(s.grid)
<1>1. /\ n \in Nat /\ s.w \in Nat /\ s.h \in Nat /\ g \in Nat /\ z \in Nat /\ s.frame \in Nat
      /\ s.w <= g /\ s.h <= g /\ z = 16 + b[n] + g
  BY ViewFacts
<1>2. /\ \A i \in 0 .. n : b[i] \in Nat
      /\ \A i \in 1 .. n :
           Len(s.players[i].name) \in Nat /\ b[i] = b[i - 1] + (16 + Len(s.players[i].name))
  BY ViewFacts, BlockSizesFacts
<1>3. /\ \A i \in 0 .. n : b[i] <= b[n] /\ b[i] \in Nat
      /\ n <= b[n]
  <2>1. ASSUME NEW i \in 0 .. n PROVE b[i] <= b[n]
    <3>1. n \in 0 .. n /\ i <= n
      BY <1>1
    <3>2. QED BY <3>1, BlocksRise
  <2>2. QED BY <1>2, <2>1, BlocksRise
<1>4. z \in Lengths /\ IsView(s)
  BY ViewFacts
<1> HIDE DEF n, b, z, g
<1>5. b[n] \in Nat
  <2>1. n \in 0 .. n
    BY <1>1
  <2>2. QED BY <1>2, <2>1
<1>6. s.w <= z /\ s.h <= z /\ n <= z
  BY <1>1, <1>3, <1>5
<1>7. s.w \in Lengths /\ s.h \in Lengths /\ n \in Lengths
  BY <1>1, <1>4, <1>6, ShorterLengths, Zenon
<1>8. s.frame \in Lengths
  <2>1. s.frame <= 2147483647
    BY <1>4, SMT DEF IsView
  <2>2. QED BY <1>1, <2>1, SMT DEF Lengths
<1>9. ASSUME NEW i \in 1 .. n PROVE Len(s.players[i].name) \in Lengths
  <2> DEFINE l == Len(s.players[i].name)
  <2>1. i \in 0 .. n /\ i - 1 \in 0 .. n
    BY <1>1
  <2>2. l \in Nat /\ b[i] = b[i - 1] + (16 + l) /\ b[i] \in Nat /\ b[i - 1] \in Nat /\ b[i] <= b[n]
    BY <1>2, <1>3, <2>1
  <2> HIDE DEF l
  <2>3. l <= z
    BY <1>1, <1>5, <2>2
  <2>4. l \in Lengths
    BY <1>4, <2>2, <2>3, ShorterLengths, Zenon
  <2>5. QED BY <2>4 DEF l
<1>10. QED BY <1>7, <1>8, <1>9 DEF n

(* The bytes of s behind the size.                                         *)
Body(b, s) ==
  /\ b \in Seq(Byte) /\ Len(b) = PacketSize(s)
  /\ \A c \in 2 .. LastCall(s) : \A j \in 1 .. Len(CallBytes(s, c)) :
       \A at \in Nat : at + 4 = CallAt(s, c) => b[at + j] = CallBytes(s, c)[j]

(* Bytes that are at a place of a stream are a piece of it.                *)
LEMMA PieceRead ==
  \A b, bytes \in Seq(Byte) : \A at \in Nat :
    at + Len(bytes) <= Len(b) /\ (\A j \in 1 .. Len(bytes) : b[at + j] = bytes[j])
      => SubSeq(b, at + 1, at + Len(bytes)) = bytes
<1> TAKE b, bytes \in Seq(Byte)
<1> TAKE at \in Nat
<1> SUFFICES ASSUME at + Len(bytes) <= Len(b), \A j \in 1 .. Len(bytes) : b[at + j] = bytes[j]
             PROVE  SubSeq(b, at + 1, at + Len(bytes)) = bytes
  OBVIOUS
<1> DEFINE l == Len(bytes)
           piece == SubSeq(b, at + 1, at + l)
<1>1. l \in Nat
  BY LenProperties
<1>2. piece \in Seq(Byte) /\ Len(piece) = l
  BY SMT
<1>3. \A j \in 1 .. l : piece[j] = b[at + j]
  BY SMT
<1> HIDE DEF piece
<1>4. piece = bytes
  BY <1>1, <1>2, <1>3, SeqEqual
<1>5. QED BY <1>4 DEF piece

(* What a call has written is read in its place.                           *)
LEMMA CallRead ==
  ASSUME NEW s \in Views, NEW b, Body(b, s), NEW c \in 2 .. LastCall(s),
         NEW at \in Nat, at + 4 = CallAt(s, c)
  PROVE  /\ SubSeq(b, at + 1, at + Len(CallBytes(s, c))) = CallBytes(s, c)
         /\ at + Len(CallBytes(s, c)) <= Len(b)
         /\ \A j \in 1 .. Len(CallBytes(s, c)) : b[at + j] = CallBytes(s, c)[j]
<1> DEFINE bytes == CallBytes(s, c)
<1>1. c \in 1 .. LastCall(s)
  OBVIOUS
<1>2. /\ CallAt(s, c) + Len(bytes) <= 4 + PacketSize(s)
      /\ Len(bytes) \in Nat /\ bytes \in Seq(Byte)
  BY <1>1, CallEnds
<1>3. b \in Seq(Byte) /\ Len(b) = PacketSize(s) /\ PacketSize(s) \in Nat
  BY ViewFacts DEF Body
<1>4. at + Len(bytes) <= Len(b)
  BY <1>2, <1>3
<1>5. \A j \in 1 .. Len(bytes) : b[at + j] = bytes[j]
  BY DEF Body
<1>6. SubSeq(b, at + 1, at + Len(bytes)) = bytes
  BY <1>2, <1>3, <1>4, <1>5, PieceRead
<1>7. QED BY <1>4, <1>5, <1>6

(* So is a number.                                                         *)
LEMMA NumberRead ==
  ASSUME NEW s \in Views, NEW b, Body(b, s), NEW c \in 2 .. LastCall(s),
         NEW n \in Int, CallBytes(s, c) = Bytes32(n), NEW at \in Nat, at + 4 = CallAt(s, c)
  PROVE  /\ SubSeq(b, at + 1, at + 4) = Bytes32(n) /\ at + 4 <= Len(b)
         /\ n \in Lengths => Length(SubSeq(b, at + 1, at + 4)) = n
         /\ n \in Word => Int32(SubSeq(b, at + 1, at + 4)) = n
<1> DEFINE bytes == Bytes32(n)
<1>1. Len(bytes) = 4
  BY BytesAreBytes
<1>2. CallBytes(s, c) = bytes
  OBVIOUS
<1> HIDE DEF bytes
<1>3. SubSeq(b, at + 1, at + Len(bytes)) = bytes /\ at + Len(bytes) <= Len(b)
  BY <1>2, CallRead
<1>4. SubSeq(b, at + 1, at + 4) = bytes /\ at + 4 <= Len(b)
  BY <1>1, <1>3
<1>5. n \in Lengths => Length(bytes) = n
  BY LengthsRead DEF bytes
<1>6. n \in Word => Int32(bytes) = n
  BY WordsRead DEF bytes
<1>7. QED BY <1>4, <1>5, <1>6 DEF bytes

(* A call for a player, in the payload.                                    *)
LEMMA BlockPlace ==
  ASSUME NEW s \in Views, NEW i \in 1 .. Len(s.players), NEW m \in 1 .. 6, NEW at,
         at = 12 + BlockSizes(s)[i - 1]
  PROVE  /\ BlockCall(i, m) \in 2 .. LastCall(s)
         /\ at \in Nat /\ at + Within(s, i, m) + 4 = CallAt(s, BlockCall(i, m))
<1> DEFINE n == Len(s.players)
           v == BlockSizes(s)[i - 1]
           w == Within(s, i, m)
<1>1. n \in Nat /\ i \in 1 .. n
  BY ViewFacts
<1>2. v \in Nat
  <2>1. i - 1 \in 0 .. n
    BY <1>1
  <2>2. s.players \in Seq(PlayerBlock)
    BY ViewFacts
  <2>3. QED BY <2>1, <2>2, BlockSizesFacts
<1>3. w \in Nat
  <2>1. Len(s.players[i].name) \in Nat
    BY BlockTypes
  <2> DEFINE l == Len(s.players[i].name)
  <2>2. l \in Nat /\ w = <<0, 4, 8, 11, 15, 15 + l>>[m]
    BY <2>1 DEF Within
  <2> HIDE DEF l, w
  <2>3. QED BY <2>2
<1>4. CallAt(s, BlockCall(i, m)) = 16 + v + w
  BY CallAtFacts
<1>5. BlockCall(i, m) \in 2 .. 6 + 6 * n
  BY <1>1 DEF BlockCall
<1>6. at = 12 + v /\ LastCall(s) = 6 + 6 * n
  BY DEF LastCall
<1> HIDE DEF n, v, w
<1>7. at \in Nat /\ at + w + 4 = 16 + v + w
  BY <1>2, <1>3, <1>6
<1>8. QED BY <1>4, <1>5, <1>6, <1>7 DEF w

(* The blocks end for the client where they do for the server.             *)
LEMMA EndsRead ==
  ASSUME NEW s \in Views, NEW b, Body(b, s), PacketSize(s) \in Lengths,
         NEW n, n = Len(s.players)
  PROVE  \A i \in 0 .. n : BlockEnds(b, n)[i] = 12 + BlockSizes(s)[i]
<1> DEFINE B == BlockSizes(s)
           bytes(at) == IF at + 15 > Len(b) THEN Len(b) + 1
                        ELSE 16 + Length(SubSeq(b, at + 12, at + 15))
           body(f) == [i \in 0 .. n |-> IF i = 0 THEN 12 ELSE f[i - 1] + bytes(f[i - 1])]
           ends == CHOOSE f : f = body(f)
           mine == [i \in 0 .. n |-> 12 + B[i]]
<1>1. BlockEnds(b, n) = ends
  BY DEF BlockEnds
<1>2. n \in Nat /\ s.players \in Seq(PlayerBlock)
  BY ViewFacts
<1>3. /\ B[0] = 0 /\ \A i \in 0 .. n : B[i] \in Nat
      /\ \A i \in 1 .. n :
           Len(s.players[i].name) \in Nat /\ B[i] = B[i - 1] + (16 + Len(s.players[i].name))
  BY <1>2, BlockSizesFacts
<1>4. ASSUME NEW i \in 1 .. n PROVE bytes(12 + B[i - 1]) = 16 + Len(s.players[i].name)
  <2> DEFINE l == Len(s.players[i].name)
             at == 12 + B[i - 1]
             place == at + 11
  <2>1. /\ BlockCall(i, 4) \in 2 .. LastCall(s)
        /\ at \in Nat /\ at + Within(s, i, 4) + 4 = CallAt(s, BlockCall(i, 4))
    <3>1. 4 \in 1 .. 6
      OBVIOUS
    <3>2. QED BY <1>2, <3>1, BlockPlace
  <2>2. Within(s, i, 4) = 11 /\ CallBytes(s, BlockCall(i, 4)) = Bytes32(l)
    BY WithinFacts, BlockFacts
  <2>3. l \in Lengths /\ l \in Int
    BY ViewLengths, LengthsRead
  <2> HIDE DEF at, l
  <2>4. place \in Nat /\ place + 4 = CallAt(s, BlockCall(i, 4))
    BY <2>1, <2>2
  <2> HIDE DEF place
  <2>5. Length(SubSeq(b, place + 1, place + 4)) = l /\ place + 4 <= Len(b)
    BY <2>1, <2>2, <2>3, <2>4, NumberRead
  <2>6. place + 1 = at + 12 /\ place + 4 = at + 15
    BY <2>1 DEF place
  <2>7. Length(SubSeq(b, at + 12, at + 15)) = l
    BY <2>5, <2>6, Zenon
  <2>8. ~(at + 15 > Len(b))
    <3>1. Len(b) \in Nat
      BY LenProperties DEF Body
    <3>2. at + 15 <= Len(b)
      BY <2>5, <2>6, Zenon
    <3>3. QED BY <2>1, <3>1, <3>2
  <2>9. bytes(at) = 16 + l
    BY <2>7, <2>8
  <2>10. QED BY <2>9 DEF at, l
<1> HIDE DEF bytes
<1>5. mine = body(mine)
  <2>1. ASSUME NEW i \in 0 .. n
        PROVE  mine[i] = IF i = 0 THEN 12 ELSE mine[i - 1] + bytes(mine[i - 1])
    <3>1. CASE i = 0
      <4>1. 0 \in 0 .. n
        BY <1>2
      <4>2. QED BY <1>3, <3>1, <4>1
    <3>2. CASE i # 0
      <4>1. i \in 1 .. n /\ i - 1 \in 0 .. n
        BY <1>2, <3>2
      <4>2. mine[i] = 12 + B[i] /\ mine[i - 1] = 12 + B[i - 1]
        BY <4>1
      <4> DEFINE l == Len(s.players[i].name)
                 u == B[i - 1]
      <4>3. B[i] = u + (16 + l) /\ l \in Nat /\ u \in Nat /\ bytes(12 + u) = 16 + l
        BY <1>3, <1>4, <4>1
      <4> HIDE DEF l, u, mine, B
      <4>4. mine[i] = (12 + u) + (16 + l)
        BY <4>2, <4>3
      <4>5. mine[i] = mine[i - 1] + bytes(mine[i - 1])
        BY <4>2, <4>3, <4>4 DEF u
      <4>6. QED BY <3>2, <4>5
    <3>3. QED BY <3>1, <3>2
  <2>2. QED BY <2>1
<1>6. ends = body(ends)
  <2> HIDE DEF body
  <2>1. QED BY <1>5
<1> HIDE DEF ends, B
<1>7. ASSUME NEW i \in 0 .. n
      PROVE  ends[i] = IF i = 0 THEN 12 ELSE ends[i - 1] + bytes(ends[i - 1])
  BY <1>6
<1>8. ASSUME NEW i \in 0 .. n
      PROVE  mine[i] = IF i = 0 THEN 12 ELSE mine[i - 1] + bytes(mine[i - 1])
  <2> HIDE DEF mine
  <2>1. QED BY <1>5
<1>9. \A i \in 0 .. n : mine[i] = 12 + B[i]
  OBVIOUS
<1> HIDE DEF mine
<1>10. StepLike(ends, mine, n)
  <2>1. 0 \in 0 .. n
    BY <1>2
  <2>2. ends[0] = mine[0]
    BY <1>7, <1>8, <2>1
  <2>3. ASSUME NEW i \in 1 .. n, ends[i - 1] = mine[i - 1] PROVE ends[i] = mine[i]
    <3>1. i \in 0 .. n /\ i # 0
      BY <1>2
    <3>2. ends[i] = ends[i - 1] + bytes(ends[i - 1])
      BY <1>7, <3>1
    <3>3. mine[i] = mine[i - 1] + bytes(mine[i - 1])
      BY <1>8, <3>1
    <3>4. QED BY <2>3, <3>2, <3>3, Zenon
  <2>4. QED BY <2>2, <2>3 DEF StepLike
<1>11. Alike(ends, mine, n)
  BY <1>2, <1>10, LoopIsUnique, Zenon
<1>12. QED BY <1>1, <1>9, <1>11 DEF Alike, B

(* Every player is read as it was sent.                                    *)
LEMMA PlayerRead ==
  ASSUME NEW s \in Views, NEW b, Body(b, s), PacketSize(s) \in Lengths,
         NEW i \in 1 .. Len(s.players)
  PROVE  PlayerAt(b, 12 + BlockSizes(s)[i - 1]) = s.players[i]
<1> DEFINE p == s.players[i]
           l == Len(s.players[i].name)
           at == 12 + BlockSizes(s)[i - 1]
           k(m) == BlockCall(i, m)
<1>1. \A m \in 1 .. 6 :
        /\ k(m) \in 2 .. LastCall(s)
        /\ at \in Nat /\ at + Within(s, i, m) + 4 = CallAt(s, k(m))
  BY BlockPlace
<1>2. /\ Within(s, i, 1) = 0 /\ Within(s, i, 2) = 4 /\ Within(s, i, 3) = 8
      /\ Within(s, i, 4) = 11 /\ Within(s, i, 5) = 15 /\ Within(s, i, 6) = 15 + l
  BY WithinFacts
<1>3. /\ CallBytes(s, k(1)) = Bytes32(p.x) /\ CallBytes(s, k(2)) = Bytes32(p.y)
      /\ CallBytes(s, k(3)) = p.colour /\ CallBytes(s, k(4)) = Bytes32(l)
      /\ CallBytes(s, k(5)) = p.name /\ CallBytes(s, k(6)) = <<p.id>>
  BY BlockFacts
<1>4. /\ p \in PlayerBlock /\ p.x \in Word /\ p.y \in Word /\ p.x \in Int /\ p.y \in Int
      /\ Len(p.colour) = 3 /\ p.name \in Seq(Byte) /\ l \in Nat /\ l = Len(p.name)
  BY BlockTypes
<1>5. l \in Lengths /\ l \in Int
  BY ViewLengths, LengthsRead
<1>6. at \in Nat
  <2>1. 1 \in 1 .. 6
    OBVIOUS
  <2>2. QED BY <1>1, <2>1
<1> HIDE DEF p, l, at, k
<1>7. ASSUME NEW m \in 1 .. 6, NEW w \in Nat, Within(s, i, m) = w
      PROVE  k(m) \in 2 .. LastCall(s) /\ at + w \in Nat /\ (at + w) + 4 = CallAt(s, k(m))
  <2>1. k(m) \in 2 .. LastCall(s) /\ at + w + 4 = CallAt(s, k(m))
    BY <1>1, <1>7
  <2>2. at + w \in Nat
    BY <1>6
  <2>3. QED BY <2>1, <2>2
<1>8. Int32(SubSeq(b, at + 1, at + 1 + 4 - 1)) = p.x
  <2> DEFINE u == at + 0
  <2>1. 1 \in 1 .. 6 /\ 0 \in Nat
    OBVIOUS
  <2>2. k(1) \in 2 .. LastCall(s) /\ u \in Nat /\ u + 4 = CallAt(s, k(1))
    BY <1>2, <1>7, <2>1
  <2> HIDE DEF u
  <2>3. Int32(SubSeq(b, u + 1, u + 4)) = p.x
    BY <1>3, <1>4, <2>2, NumberRead
  <2>4. u + 1 = at + 1 /\ u + 4 = at + 1 + 4 - 1
    BY <1>6 DEF u
  <2>5. QED BY <2>3, <2>4, Zenon
<1>9. Int32(SubSeq(b, at + 5, at + 5 + 4 - 1)) = p.y
  <2> DEFINE u == at + 4
  <2>1. 2 \in 1 .. 6 /\ 4 \in Nat
    OBVIOUS
  <2>2. k(2) \in 2 .. LastCall(s) /\ u \in Nat /\ u + 4 = CallAt(s, k(2))
    BY <1>2, <1>7, <2>1
  <2> HIDE DEF u
  <2>3. Int32(SubSeq(b, u + 1, u + 4)) = p.y
    BY <1>3, <1>4, <2>2, NumberRead
  <2>4. u + 1 = at + 5 /\ u + 4 = at + 5 + 4 - 1
    BY <1>6 DEF u
  <2>5. QED BY <2>3, <2>4, Zenon
<1>10. SubSeq(b, at + 9, at + 9 + 3 - 1) = p.colour
  <2> DEFINE u == at + 8
             c == p.colour
  <2>1. 3 \in 1 .. 6 /\ 8 \in Nat
    OBVIOUS
  <2>2. k(3) \in 2 .. LastCall(s) /\ u \in Nat /\ u + 4 = CallAt(s, k(3))
    BY <1>2, <1>7, <2>1
  <2>3. CallBytes(s, k(3)) = c /\ Len(c) = 3
    BY <1>3, <1>4
  <2> HIDE DEF u, c
  <2>4. SubSeq(b, u + 1, u + Len(c)) = c
    <3>1. SubSeq(b, u + 1, u + Len(CallBytes(s, k(3)))) = CallBytes(s, k(3))
      BY <2>2, CallRead
    <3>2. QED BY <2>3, <3>1, Zenon
  <2>5. u + 1 = at + 9 /\ u + Len(c) = at + 9 + 3 - 1
    BY <1>6, <2>3 DEF u
  <2>6. SubSeq(b, at + 9, at + 9 + 3 - 1) = c
    BY <2>4, <2>5, Zenon
  <2>7. QED BY <2>6 DEF c
<1>11. Length(SubSeq(b, at + 12, at + 12 + 4 - 1)) = l
  <2> DEFINE u == at + 11
  <2>1. 4 \in 1 .. 6 /\ 11 \in Nat
    OBVIOUS
  <2>2. k(4) \in 2 .. LastCall(s) /\ u \in Nat /\ u + 4 = CallAt(s, k(4))
    BY <1>2, <1>7, <2>1
  <2> HIDE DEF u
  <2>3. Length(SubSeq(b, u + 1, u + 4)) = l
    BY <1>3, <1>5, <2>2, NumberRead
  <2>4. u + 1 = at + 12 /\ u + 4 = at + 12 + 4 - 1
    BY <1>6 DEF u
  <2>5. QED BY <2>3, <2>4, Zenon
<1>12. SubSeq(b, at + 16, at + 16 + l - 1) = p.name
  <2> DEFINE u == at + 15
             c == p.name
  <2>1. 5 \in 1 .. 6 /\ 15 \in Nat
    OBVIOUS
  <2>2. k(5) \in 2 .. LastCall(s) /\ u \in Nat /\ u + 4 = CallAt(s, k(5))
    BY <1>2, <1>7, <2>1
  <2>3. CallBytes(s, k(5)) = c /\ Len(c) = l
    BY <1>3, <1>4
  <2> HIDE DEF u, c
  <2>4. SubSeq(b, u + 1, u + Len(c)) = c
    <3>1. SubSeq(b, u + 1, u + Len(CallBytes(s, k(5)))) = CallBytes(s, k(5))
      BY <2>2, CallRead
    <3>2. QED BY <2>3, <3>1, Zenon
  <2>5. u + 1 = at + 16 /\ u + Len(c) = at + 16 + l - 1
    <3>1. l \in Nat
      BY <1>4
    <3>2. u + 1 = at + 16 /\ u + l = at + 16 + l - 1
      BY <1>6, <3>1 DEF u
    <3>3. QED BY <2>3, <3>2
  <2>6. SubSeq(b, at + 16, at + 16 + l - 1) = c
    BY <2>4, <2>5, Zenon
  <2>7. QED BY <2>6 DEF c
<1>13. b[at + 16 + l] = p.id
  <2> DEFINE u == at + (15 + l)
             c == <<p.id>>
  <2>1. 6 \in 1 .. 6 /\ 15 + l \in Nat
    BY <1>4
  <2>2. k(6) \in 2 .. LastCall(s) /\ u \in Nat /\ u + 4 = CallAt(s, k(6))
    BY <1>2, <1>7, <2>1
  <2>3. CallBytes(s, k(6)) = c /\ Len(c) = 1 /\ c[1] = p.id /\ 1 \in 1 .. Len(c)
    BY <1>3
  <2> HIDE DEF u, c
  <2>4. b[u + 1] = c[1]
    <3>1. \A j \in 1 .. Len(CallBytes(s, k(6))) : b[u + j] = CallBytes(s, k(6))[j]
      BY <2>2, CallRead
    <3>2. QED BY <2>3, <3>1, Zenon
  <2>5. u + 1 = at + 16 + l
    <3>1. l \in Nat
      BY <1>4
    <3>2. QED BY <1>6, <3>1 DEF u
  <2>6. QED BY <2>3, <2>4, <2>5, Zenon
<1> DEFINE read == [x |-> p.x, y |-> p.y, colour |-> p.colour, name |-> p.name, id |-> p.id]
<1>14. PlayerAt(b, at) = read
  BY <1>8, <1>9, <1>10, <1>11, <1>12, <1>13, Zenon DEF PlayerAt
<1>15. read = p
  BY <1>4 DEF PlayerBlock
<1>16. QED BY <1>14, <1>15, Zenon DEF p, at

(* Parse behind its first three numbers.                                   *)
Rest(b, w, h, count, ends) ==
  IF \/ ends[count] + 4 > Len(b) \/ w * h # Len(b) - ends[count] - 4
     \/ \E i \in 1 .. count : Len(PlayerAt(b, ends[i - 1]).name) > MaxString
  THEN Malformed
  ELSE [ok |-> TRUE,
        snapshot |->
          [w |-> w, h |-> h,
           players |-> [i \in 1 .. count |-> PlayerAt(b, ends[i - 1])],
           frame |-> Length(SubSeq(b, ends[count] + 1, ends[count] + 4)),
           grid |-> SubSeq(b, ends[count] + 5, Len(b))]]

(* The client reads the snapshot that was sent.                            *)
LEMMA ParseReads ==
  ASSUME NEW s \in Views, NEW b, Body(b, s), PacketSize(s) \in Lengths
  PROVE  Parse(b) = [ok |-> TRUE, snapshot |-> s]
<1> DEFINE n == Len(s.players)
           v == BlockSizes(s)[n]
           g == Len(s.grid)
           w == Length(SubSeq(b, 1, 4))
           h == Length(SubSeq(b, 5, 8))
           count == Length(SubSeq(b, 9, 12))
           ends == BlockEnds(b, n)
<1>1. /\ n \in Nat /\ s.players \in Seq(PlayerBlock) /\ s.w \in Nat /\ s.h \in Nat
      /\ s.frame \in Nat /\ g \in Nat /\ g = s.w * s.h /\ s \in Snapshot
  BY ViewFacts
<1>2. v \in Nat /\ PacketSize(s) = 16 + v + g
  <2>1. n \in 0 .. n
    BY <1>1
  <2>2. QED BY <1>1, <2>1, BlockSizesFacts, ViewFacts
<1>3. Len(b) = 16 + v + g
  BY <1>2 DEF Body
<1>4. /\ s.w \in Lengths /\ s.h \in Lengths /\ s.frame \in Lengths /\ n \in Lengths
  BY ViewLengths
<1>5. /\ CallBytes(s, 2) = Bytes32(s.w) /\ CallBytes(s, 3) = Bytes32(s.h)
      /\ CallBytes(s, 4) = Bytes32(n) /\ CallBytes(s, 5 + 6 * n) = Bytes32(s.frame)
      /\ CallBytes(s, 6 + 6 * n) = s.grid
  BY PlainFacts
<1>6. /\ CallAt(s, 2) = 4 /\ CallAt(s, 3) = 8 /\ CallAt(s, 4) = 12
      /\ CallAt(s, 5 + 6 * n) = 16 + v /\ CallAt(s, 6 + 6 * n) = 20 + v
  BY CallAtFacts
<1>7. \A i \in 0 .. n : ends[i] = 12 + BlockSizes(s)[i]
  BY EndsRead
<1>8. LastCall(s) = 6 + 6 * n
  BY DEF LastCall
<1> HIDE DEF n, v, g
<1>9. /\ 2 \in 2 .. LastCall(s) /\ 3 \in 2 .. LastCall(s) /\ 4 \in 2 .. LastCall(s)
      /\ 5 + 6 * n \in 2 .. LastCall(s) /\ 6 + 6 * n \in 2 .. LastCall(s)
  BY <1>1, <1>8
<1>10. w = s.w
  <2> DEFINE at == 0
  <2>1. at \in Nat /\ at + 4 = CallAt(s, 2) /\ s.w \in Int
    BY <1>1, <1>6
  <2> HIDE DEF at
  <2>2. Length(SubSeq(b, at + 1, at + 4)) = s.w
    BY <1>4, <1>5, <1>9, <2>1, NumberRead
  <2>3. at + 1 = 1 /\ at + 4 = 4
    BY DEF at
  <2>4. QED BY <2>2, <2>3, Zenon
<1>11. h = s.h
  <2> DEFINE at == 4
  <2>1. at \in Nat /\ at + 4 = CallAt(s, 3) /\ s.h \in Int
    BY <1>1, <1>6
  <2> HIDE DEF at
  <2>2. Length(SubSeq(b, at + 1, at + 4)) = s.h
    BY <1>4, <1>5, <1>9, <2>1, NumberRead
  <2>3. at + 1 = 5 /\ at + 4 = 8
    BY DEF at
  <2>4. QED BY <2>2, <2>3, Zenon
<1>12. count = n
  <2> DEFINE at == 8
  <2>1. at \in Nat /\ at + 4 = CallAt(s, 4) /\ n \in Int
    BY <1>1, <1>6
  <2> HIDE DEF at
  <2>2. Length(SubSeq(b, at + 1, at + 4)) = n
    BY <1>4, <1>5, <1>9, <2>1, NumberRead
  <2>3. at + 1 = 9 /\ at + 4 = 12
    BY DEF at
  <2>4. QED BY <2>2, <2>3, Zenon
<1>13. ends[n] = 12 + v
  <2>1. n \in 0 .. n
    BY <1>1
  <2>2. QED BY <1>7, <2>1 DEF v
<1>14. Length(SubSeq(b, ends[n] + 1, ends[n] + 4)) = s.frame
  <2> DEFINE at == 12 + v
  <2>1. at \in Nat /\ at + 4 = CallAt(s, 5 + 6 * n) /\ s.frame \in Int
    <3> DEFINE place == CallAt(s, 5 + 6 * n)
    <3>1. place = 16 + v /\ v \in Nat /\ s.frame \in Int
      BY <1>1, <1>2, <1>6
    <3> HIDE DEF place
    <3>2. at \in Nat /\ at + 4 = place
      BY <3>1
    <3>3. QED BY <3>1, <3>2 DEF place
  <2> HIDE DEF at
  <2>2. Length(SubSeq(b, at + 1, at + 4)) = s.frame
    BY <1>4, <1>5, <1>9, <2>1, NumberRead
  <2>3. QED BY <1>13, <2>2 DEF at
<1>15. SubSeq(b, ends[n] + 5, Len(b)) = s.grid
  <2> DEFINE at == 16 + v
             c == 6 + 6 * n
  <2>1. at \in Nat /\ at + 4 = CallAt(s, c) /\ c \in 2 .. LastCall(s) /\ CallBytes(s, c) = s.grid
    BY <1>2, <1>5, <1>6, <1>9
  <2> HIDE DEF at, c
  <2>2. SubSeq(b, at + 1, at + Len(CallBytes(s, c))) = CallBytes(s, c)
    BY <2>1, CallRead
  <2>3. SubSeq(b, at + 1, at + g) = s.grid
    BY <2>1, <2>2 DEF g
  <2>4. at + 1 = ends[n] + 5 /\ at + g = Len(b)
    BY <1>1, <1>2, <1>3, <1>13 DEF at
  <2>5. QED BY <2>3, <2>4, Zenon
<1>24. ASSUME NEW i \in 1 .. n PROVE PlayerAt(b, ends[i - 1]) = s.players[i]
  <2>1. i - 1 \in 0 .. n /\ i \in 1 .. Len(s.players)
    BY <1>1 DEF n
  <2>2. ends[i - 1] = 12 + BlockSizes(s)[i - 1]
    BY <1>7, <2>1
  <2>3. PlayerAt(b, 12 + BlockSizes(s)[i - 1]) = s.players[i]
    BY <2>1, PlayerRead
  <2>4. QED BY <2>2, <2>3, Zenon
<1>25. \A i \in 1 .. n : ~(Len(PlayerAt(b, ends[i - 1]).name) > MaxString)
  <2>1. IsView(s)
    BY ViewFacts
  <2>2. \A i \in 1 .. Len(s.players) : Len(s.players[i].name) <= MaxString
    BY <2>1, SMT DEF IsView
  <2>3. ASSUME NEW i \in 1 .. n PROVE ~(Len(PlayerAt(b, ends[i - 1]).name) > MaxString)
    <3> DEFINE l == Len(s.players[i].name)
    <3>1. i \in 1 .. Len(s.players)
      BY DEF n
    <3>2. l \in Nat /\ l <= MaxString /\ MaxString \in Nat
      <4>1. l \in Nat
        BY <1>1, <3>1, BlockSizesFacts
      <4>2. l <= MaxString
        BY <2>2, <3>1
      <4>3. QED BY <4>1, <4>2, Types
    <3>3. Len(PlayerAt(b, ends[i - 1]).name) = l
      <4> HIDE DEF ends
      <4>1. QED BY <1>24, Zenon
    <3> HIDE DEF l
    <3>4. QED BY <3>2, <3>3
  <2>4. QED BY <2>3, Zenon
<1>16. [i \in 1 .. n |-> PlayerAt(b, ends[i - 1])] = s.players
  <2> HIDE DEF ends
  <2>2. [i \in 1 .. n |-> PlayerAt(b, ends[i - 1])] = [i \in 1 .. n |-> s.players[i]]
    BY <1>24
  <2>3. [i \in 1 .. n |-> s.players[i]] = s.players
    BY <1>1 DEF n
  <2>4. QED BY <2>2, <2>3
<1>17. /\ ~(ends[n] + 4 > Len(b)) /\ s.w * s.h = Len(b) - ends[n] - 4
  <2>1. ~(ends[n] + 4 > Len(b)) /\ g = Len(b) - ends[n] - 4
    BY <1>1, <1>2, <1>3, <1>13
  <2>2. QED BY <1>1, <2>1
<1>18. ~(Len(b) < 12)
  BY <1>1, <1>2, <1>3
<1>19. Parse(b) = Rest(b, w, h, count, BlockEnds(b, count))
  BY <1>18 DEF Parse, Rest
<1> HIDE DEF w, h, count
<1>20. Parse(b) = Rest(b, s.w, s.h, n, ends)
  BY <1>10, <1>11, <1>12, <1>19, Zenon
<1> HIDE DEF ends
<1> DEFINE view == [w |-> s.w, h |-> s.h, players |-> s.players, frame |-> s.frame,
                    grid |-> s.grid]
<1>21. Rest(b, s.w, s.h, n, ends) = [ok |-> TRUE, snapshot |-> view]
  BY <1>14, <1>15, <1>16, <1>17, <1>25, Zenon DEF Rest
<1>22. view = s
  BY <1>1 DEF Snapshot
<1>23. QED BY <1>20, <1>21, <1>22, Zenon

(* The size of a packet is read as it is, or as past the limit.            *)
LEMMA SizeRead ==
  ASSUME NEW n \in Nat, n # 0, n \div 65536 < 65536, NEW a, a = Length(Bytes32(n))
  PROVE  /\ a \in 1 .. MaxPacket => a = n /\ n \in Lengths
         /\ a \notin 1 .. MaxPacket => a > MaxPacket
<1>1. MaxPacket \in Nat
  BY WireAssumption, SMT
<1>2. CASE n <= 2147483647
  <2>1. a = n /\ n \in Lengths
    BY <1>2, LengthReadBack, SMT DEF Lengths
  <2>2. QED BY <1>1, <2>1, SMT
<1>3. CASE ~(n <= 2147483647)
  <2>1. Bytes32(n)[1] = (n \div 16777216) % 256
    BY FourBytes, SMT
  <2>2. 128 <= n \div 16777216 /\ n \div 16777216 < 256 /\ n \div 16777216 \in Nat
    BY <1>3, SMT
  <2>3. ~(Bytes32(n)[1] < 128)
    BY <2>1, <2>2, SMT
  <2>4. a = MaxPacket + 1
    BY <2>3, SMT DEF Length
  <2>5. QED BY <1>1, <2>4, SMT
<1>4. QED BY <1>2, <1>3

(* It is what the client reads first.                                      *)
LEMMA HeadRead ==
  ASSUME NEW d \in Seq(Byte), NEW s \in Views, 4 <= Len(d), Written(d, 0, s, 2, 0),
         NEW a, a = Length(SubSeq(d, 1, 4))
  PROVE  /\ a \in 1 .. MaxPacket => a = PacketSize(s) /\ PacketSize(s) \in Lengths
         /\ a \notin 1 .. MaxPacket => a > MaxPacket
<1> DEFINE n == PacketSize(s)
<1>1. n \in Nat /\ n # 0 /\ IsView(s)
  <2>1. n \in Nat /\ IsView(s) /\ n = 16 + BlockSizes(s)[Len(s.players)] + Len(s.grid)
        /\ Len(s.grid) \in Nat /\ Len(s.players) \in Nat /\ s.players \in Seq(PlayerBlock)
    BY ViewFacts
  <2>2. BlockSizes(s)[Len(s.players)] \in Nat
    <3>1. Len(s.players) \in 0 .. Len(s.players)
      BY <2>1
    <3>2. QED BY <2>1, <3>1, BlockSizesFacts
  <2> DEFINE u == BlockSizes(s)[Len(s.players)]
             v == Len(s.grid)
  <2>3. u \in Nat /\ v \in Nat /\ n = 16 + u + v
    BY <2>1, <2>2
  <2> HIDE DEF u, v, n
  <2>4. n # 0
    BY <2>3
  <2>5. QED BY <2>1, <2>4 DEF n
<1>2. n \div 65536 < 65536
  BY <1>1, SMT DEF IsView
<1>3. SubSeq(d, 1, 4) = Bytes32(n)
  <2> DEFINE at == 0
             bytes == Bytes32(n)
  <2>1. bytes \in Seq(Byte) /\ Len(bytes) = 4
    BY <1>1, BytesAreBytes
  <2>2. /\ 1 \in 1 .. LastCall(s) /\ 1 < 2 /\ CallBytes(s, 1) = bytes /\ CallAt(s, 1) = 0
    <3>1. LastCall(s) \in Nat /\ 6 <= LastCall(s)
      BY CallsInOrder
    <3>2. QED BY <3>1, PlainFacts, CallAtFacts
  <2> HIDE DEF n, bytes
  <2>3. \A j \in 1 .. Len(bytes) : d[0 + CallAt(s, 1) + j] = bytes[j]
    <3>1. \A j \in 1 .. Len(CallBytes(s, 1)) : d[0 + CallAt(s, 1) + j] = CallBytes(s, 1)[j]
      BY <2>2 DEF Written
    <3>2. QED BY <2>2, <3>1
  <2>4. \A j \in 1 .. Len(bytes) : d[at + j] = bytes[j]
    <3>1. 0 + CallAt(s, 1) = at
      BY <2>2
    <3>2. QED BY <2>3, <3>1
  <2>5. at \in Nat /\ at + Len(bytes) <= Len(d)
    BY <2>1
  <2> HIDE DEF at
  <2>6. SubSeq(d, at + 1, at + Len(bytes)) = bytes
    BY <2>1, <2>4, <2>5, PieceRead
  <2>7. at + 1 = 1 /\ at + Len(bytes) = 4
    BY <2>1 DEF at
  <2>8. SubSeq(d, 1, 4) = bytes
    BY <2>6, <2>7, Zenon
  <2>9. QED BY <2>8 DEF bytes
<1> HIDE DEF n
<1>4. /\ a \in 1 .. MaxPacket => a = n /\ n \in Lengths
      /\ a \notin 1 .. MaxPacket => a > MaxPacket
  <2>1. a = Length(Bytes32(n))
    BY <1>3, Zenon
  <2>2. QED BY <1>1, <1>2, <2>1, SizeRead, SMT
<1>5. QED BY <1>4 DEF n

(* The rest is the body.                                                   *)
LEMMA BodyRead ==
  ASSUME NEW d \in Seq(Byte), NEW s \in Views, Whole(d, 0, s), NEW a, a = PacketSize(s),
         4 + a <= Len(d)
  PROVE  Body(SubSeq(d, 5, 4 + a), s)
<1> DEFINE b == SubSeq(d, 5, 4 + a)
<1>1. a \in Nat /\ Len(d) \in Nat
  BY ViewFacts, LenProperties
<1>2. b \in Seq(Byte) /\ Len(b) = a
  BY <1>1, SMT
<1>3. \A i \in 1 .. a : b[i] = d[4 + i]
  BY <1>1, SMT
<1> HIDE DEF b
<1>4. ASSUME NEW c \in 2 .. LastCall(s), NEW j \in 1 .. Len(CallBytes(s, c)), NEW at \in Nat,
             at + 4 = CallAt(s, c)
      PROVE  b[at + j] = CallBytes(s, c)[j]
  <2> DEFINE l == Len(CallBytes(s, c))
             z == CallAt(s, c)
  <2>1. c \in 1 .. LastCall(s) /\ c < LastCall(s) + 1
    BY CallsInOrder
  <2>2. l \in Nat /\ z + l <= 4 + PacketSize(s)
    BY <2>1, CallEnds
  <2>3. d[0 + z + j] = CallBytes(s, c)[j]
    BY <2>1 DEF Whole, Written
  <2>4. z = at + 4
    BY <1>4
  <2>5. j \in 1 .. l
    OBVIOUS
  <2> HIDE DEF l, z
  <2>6. at + j \in 1 .. a /\ 4 + (at + j) = 0 + z + j
    BY <1>1, <2>2, <2>4, <2>5
  <2>7. b[at + j] = d[4 + (at + j)]
    BY <1>3, <2>6
  <2>8. QED BY <2>3, <2>6, <2>7, Zenon
<1>5. Body(b, s)
  BY <1>2, <1>4 DEF Body
<1>6. QED BY <1>5 DEF b

(* What the client makes of the first packet that is here: it is the next  *)
(* one sent, or longer than it takes.                                      *)
LEMMA NextState ==
  ASSUME NEW d \in Seq(Byte), NEW t \in Seq(Views), NEW g \in Nat, g <= Len(t),
         Cut(d, t, g, 0), 4 <= Len(d), NEW a, a = Length(SubSeq(d, 1, 4))
  PROVE  /\ a \notin 1 .. MaxPacket => a > MaxPacket
         /\ a \in 1 .. MaxPacket /\ 4 + a <= Len(d) =>
              /\ g < Len(t) /\ a = PacketSize(t[g + 1])
              /\ Parse(SubSeq(d, 5, 4 + a)) = [ok |-> TRUE, snapshot |-> t[g + 1]]
<1> PICK start : Layout(start, d, t, g, 0) /\ Stump(d, start[Len(t) + 1])
  BY DEF Cut
<1>1. Len(t) \in Nat /\ Len(d) \in Nat
  BY LenProperties
<1>2. CASE g < Len(t)
  <2> DEFINE s == t[g + 1]
  <2>1. g + 1 \in 1 .. Len(t) /\ g + 1 \in g + 1 .. Len(t)
    BY <1>1, <1>2
  <2>2. s \in Views
    BY <2>1, ElementOfSeq
  <2>3. start[g + 1] = 0 /\ Whole(d, start[g + 1], s)
    BY <2>1 DEF Layout
  <2>4. Whole(d, 0, s)
    BY <2>3
  <2> HIDE DEF s
  <2>5. Written(d, 0, s, 2, 0)
    <3> DEFINE k == LastCall(s) + 1
    <3>1. Written(d, 0, s, k, 0)
      BY <2>4 DEF Whole
    <3>2. k \in Int /\ 2 < k /\ 2 \in Int /\ 0 \in Int
      BY <2>2, CallsInOrder
    <3> HIDE DEF k
    <3>3. QED BY <2>2, <3>1, <3>2, WrittenLess
  <2>6. /\ a \in 1 .. MaxPacket => a = PacketSize(s) /\ PacketSize(s) \in Lengths
        /\ a \notin 1 .. MaxPacket => a > MaxPacket
    BY <2>2, <2>5, HeadRead
  <2>7. ASSUME a \in 1 .. MaxPacket, 4 + a <= Len(d)
        PROVE  a = PacketSize(s) /\ Parse(SubSeq(d, 5, 4 + a)) = [ok |-> TRUE, snapshot |-> s]
    <3>1. a = PacketSize(s) /\ PacketSize(s) \in Lengths
      BY <2>6, <2>7
    <3> DEFINE b == SubSeq(d, 5, 4 + a)
    <3>2. Body(b, s)
      BY <2>2, <2>4, <2>7, <3>1, BodyRead
    <3> HIDE DEF b
    <3>3. Parse(b) = [ok |-> TRUE, snapshot |-> s]
      BY <2>2, <3>1, <3>2, ParseReads
    <3>4. QED BY <3>1, <3>3 DEF b
  <2>8. QED BY <1>2, <2>6, <2>7 DEF s
<1>3. CASE ~(g < Len(t))
  <2>1. g = Len(t) /\ g + 1 \in g + 1 .. Len(t) + 1
    BY <1>1, <1>3
  <2>2. start[Len(t) + 1] = 0
    BY <2>1 DEF Layout
  <2>3. PICK s \in Views : Len(d) < 0 + 4 + PacketSize(s) /\ Written(d, 0, s, 2, 0)
    <3>1. ~(Len(d) < 0 + 4)
      BY <1>1
    <3>2. Stump(d, 0)
      BY <2>2
    <3>3. QED BY <3>1, <3>2, Zenon DEF Stump
  <2>4. /\ a \in 1 .. MaxPacket => a = PacketSize(s) /\ PacketSize(s) \in Lengths
        /\ a \notin 1 .. MaxPacket => a > MaxPacket
    BY <2>3, HeadRead
  <2>5. PacketSize(s) \in Nat
    BY ViewFacts
  <2>6. a \in 1 .. MaxPacket => ~(4 + a <= Len(d))
    BY <1>1, <2>3, <2>4, <2>5
  <2>7. QED BY <2>4, <2>6
<1>4. QED BY <1>2, <1>3

-----------------------------------------------------------------------------
(* The snapshot being sent, and the calls still to be made for it.         *)

(* The calls are those for s from the k-th on, which m bytes are sent of.  *)
RestOf(calls, s, k, m) ==
  /\ m = 0 \/ m < Len(CallBytes(s, k))
  /\ Len(calls) = LastCall(s) + 1 - k
  /\ calls[1].of = StateSends(s)[k].of
  /\ calls[1].bytes = WithoutFirst(CallBytes(s, k), m)
  /\ \A c \in 2 .. Len(calls) : calls[c] = StateSends(s)[k + c - 1]

(* Taking no bytes leaves them all, and taking them at once or one after   *)
(* another leaves the same.                                                *)
LEMMA DropsAdd ==
  \A b \in Seq(Byte) :
    /\ WithoutFirst(b, 0) = b
    /\ \A m, n \in Nat : m + n <= Len(b) =>
         WithoutFirst(WithoutFirst(b, m), n) = WithoutFirst(b, m + n)
<1> TAKE b \in Seq(Byte)
<1>1. Len(b) \in Nat
  BY LenProperties
<1>2. WithoutFirst(b, 0) = b
  BY SubSeqFull DEF WithoutFirst
<1>3. ASSUME NEW m \in Nat, NEW n \in Nat, m + n <= Len(b)
      PROVE  WithoutFirst(WithoutFirst(b, m), n) = WithoutFirst(b, m + n)
  <2> DEFINE x == WithoutFirst(b, m)
             y == WithoutFirst(x, n)
             z == WithoutFirst(b, m + n)
             o == m + n
  <2>1. m <= Len(b) /\ o \in Nat /\ o <= Len(b)
    BY <1>1, <1>3
  <2>2. /\ x \in Seq(Byte) /\ Len(x) = Len(b) - m
        /\ \A i \in 1 .. Len(b) - m : x[i] = b[m + i]
    BY <2>1, DropsKeep, Zenon
  <2>3. /\ z \in Seq(Byte) /\ Len(z) = Len(b) - o
        /\ \A i \in 1 .. Len(b) - o : z[i] = b[o + i]
    <3> HIDE DEF o
    <3>1. /\ WithoutFirst(b, o) \in Seq(Byte) /\ Len(WithoutFirst(b, o)) = Len(b) - o
          /\ \A i \in 1 .. Len(b) - o : WithoutFirst(b, o)[i] = b[o + i]
      BY <2>1, DropsKeep, Zenon
    <3>2. QED BY <3>1 DEF o
  <2> HIDE DEF x
  <2>4. n <= Len(x)
    BY <1>1, <1>3, <2>2
  <2>5. /\ y \in Seq(Byte) /\ Len(y) = Len(x) - n
        /\ \A i \in 1 .. Len(x) - n : y[i] = x[n + i]
    BY <2>2, <2>4, DropsKeep, Zenon
  <2> HIDE DEF y, z
  <2>6. Len(y) = Len(z)
    BY <1>1, <1>3, <2>2, <2>3, <2>5
  <2>7. ASSUME NEW i \in 1 .. Len(y) PROVE y[i] = z[i]
    <3>1. i \in 1 .. Len(x) - n /\ n + i \in 1 .. Len(b) - m /\ i \in 1 .. Len(b) - o
          /\ m + (n + i) = o + i
      BY <1>1, <1>3, <2>2, <2>3, <2>5, <2>7
    <3>2. y[i] = b[m + (n + i)] /\ z[i] = b[o + i]
      BY <2>2, <2>3, <2>5, <3>1
    <3>3. QED BY <3>1, <3>2
  <2>8. y = z
    BY <2>3, <2>5, <2>6, <2>7, SeqEqual
  <2>9. QED BY <2>8 DEF x, y, z
<1>4. QED BY <1>2, <1>3

(* What the sends of a snapshot are at the beginning.                      *)
LEMMA RestBegins ==
  ASSUME NEW s \in Views
  PROVE  1 \in 1 .. LastCall(s) /\ RestOf(StateSends(s), s, 1, 0)
<1>1. LastCall(s) \in Nat /\ 6 <= LastCall(s) /\ 1 \in 1 .. LastCall(s)
  BY CallsInOrder
<1>2. Len(StateSends(s)) = LastCall(s)
  BY CallFacts
<1>3. StateSends(s)[1].bytes = WithoutFirst(CallBytes(s, 1), 0)
  <2>1. CallBytes(s, 1) \in Seq(Byte)
    BY <1>1, NextCallAt
  <2>2. QED BY <2>1, DropsAdd, Zenon DEF CallBytes
<1>4. Len(StateSends(s)) = LastCall(s) + 1 - 1 /\ \A c \in 2 .. Len(StateSends(s)) : 1 + c - 1 = c
  BY <1>1, <1>2
<1>5. QED BY <1>1, <1>3, <1>4 DEF RestOf

(* What is known of the call under way.                                    *)
LEMMA RestRead ==
  ASSUME NEW s \in Views, NEW k \in 1 .. LastCall(s), NEW m \in Nat, NEW calls,
         RestOf(calls, s, k, m)
  PROVE  /\ calls[1].bytes \in Seq(Byte) /\ Len(CallBytes(s, k)) \in Nat
         /\ Len(calls[1].bytes) = Len(CallBytes(s, k)) - m /\ m <= Len(CallBytes(s, k))
         /\ \A j \in 1 .. Len(calls[1].bytes) : calls[1].bytes[j] = CallBytes(s, k)[m + j]
<1> DEFINE b == CallBytes(s, k)
           bytes == calls[1].bytes
<1>1. b \in Seq(Byte) /\ Len(b) \in Nat
  BY NextCallAt
<1>2. m <= Len(b) /\ bytes = WithoutFirst(b, m)
  BY <1>1 DEF RestOf
<1> HIDE DEF b, bytes
<1>3. /\ WithoutFirst(b, m) \in Seq(Byte) /\ Len(WithoutFirst(b, m)) = Len(b) - m
      /\ \A j \in 1 .. Len(b) - m : WithoutFirst(b, m)[j] = b[m + j]
  BY <1>1, <1>2, DropsKeep, Zenon
<1>4. /\ bytes \in Seq(Byte) /\ Len(bytes) = Len(b) - m
      /\ \A j \in 1 .. Len(bytes) : bytes[j] = b[m + j]
  BY <1>2, <1>3
<1>5. QED BY <1>1, <1>2, <1>4 DEF b, bytes

(* Fewer bytes of it are left after a push.                                *)
LEMMA RestShrinks ==
  ASSUME NEW s \in Views, NEW k \in 1 .. LastCall(s), NEW m \in Nat, NEW calls,
         RestOf(calls, s, k, m), NEW n \in Nat, n < Len(calls[1].bytes), NEW more,
         Len(more) = Len(calls), more[1].of = calls[1].of,
         more[1].bytes = WithoutFirst(calls[1].bytes, n),
         \A c \in 2 .. Len(calls) : more[c] = calls[c]
  PROVE  RestOf(more, s, k, m + n)
<1> DEFINE b == CallBytes(s, k)
<1>1. b \in Seq(Byte) /\ Len(b) \in Nat
  BY NextCallAt
<1>2. Len(calls[1].bytes) = Len(b) - m
  BY RestRead
<1>3. calls[1].bytes = WithoutFirst(b, m)
  BY DEF RestOf
<1> HIDE DEF b
<1>4. m + n < Len(b) /\ m + n <= Len(b)
  BY <1>1, <1>2
<1>5. more[1].bytes = WithoutFirst(b, m + n)
  <2>1. WithoutFirst(WithoutFirst(b, m), n) = WithoutFirst(b, m + n)
    BY <1>1, <1>4, DropsAdd
  <2>2. more[1].bytes = WithoutFirst(calls[1].bytes, n)
    OBVIOUS
  <2>3. QED BY <1>3, <2>1, <2>2
<1>6. QED BY <1>4, <1>5 DEF RestOf, b

(* The next call is the next one for the snapshot.                         *)
LEMMA RestTurns ==
  ASSUME NEW s \in Views, NEW k \in 1 .. LastCall(s), NEW m \in Nat,
         NEW calls \in Seq(Sending), RestOf(calls, s, k, m)
  PROVE  /\ Tail(calls) # <<>> =>
              /\ k + 1 \in 1 .. LastCall(s) /\ RestOf(Tail(calls), s, k + 1, 0)
              /\ Head(Tail(calls)).of = StateSends(s)[k + 1].of
         /\ Tail(calls) = <<>> => k = LastCall(s)
<1> DEFINE rest == Tail(calls)
           l == LastCall(s)
<1>1. l \in Nat /\ Len(calls) = l + 1 - k
  BY CallsInOrder DEF RestOf
<1>2. calls # <<>>
  <2> HIDE DEF l
  <2>1. Len(calls) # 0
    BY <1>1 DEF l
  <2>2. QED BY <2>1, EmptySeq
<1>3. /\ rest \in Seq(Sending) /\ Len(rest) = Len(calls) - 1
      /\ \A i \in 1 .. Len(rest) : rest[i] = calls[i + 1]
  BY <1>2, HeadTailProperties
<1>4. Len(rest) \in Nat /\ (rest = <<>> <=> Len(rest) = 0)
  BY <1>3, EmptySeq, LenProperties
<1> HIDE DEF rest, l
<1>5. Head(rest) = rest[1]
  OBVIOUS
<1>6. rest = <<>> => k = l
  BY <1>1, <1>3, <1>4 DEF l
<1>7. ASSUME rest # <<>>
      PROVE  k + 1 \in 1 .. l /\ RestOf(rest, s, k + 1, 0)
             /\ Head(rest).of = StateSends(s)[k + 1].of
  <2>1. k + 1 \in 1 .. l /\ Len(rest) = l + 1 - (k + 1) /\ 1 \in 1 .. Len(rest)
    BY <1>1, <1>3, <1>4, <1>7 DEF l
  <2>2. \A i \in 1 .. Len(rest) : rest[i] = StateSends(s)[k + i]
    <3>1. ASSUME NEW i \in 1 .. Len(rest) PROVE rest[i] = StateSends(s)[k + i]
      <4>1. i + 1 \in 2 .. Len(calls) /\ k + (i + 1) - 1 = k + i
        BY <1>1, <1>3, <1>4 DEF l
      <4>2. calls[i + 1] = StateSends(s)[k + (i + 1) - 1]
        BY <4>1 DEF RestOf
      <4>3. QED BY <1>3, <4>1, <4>2
    <3>2. QED BY <3>1
  <2>3. rest[1] = StateSends(s)[k + 1]
    BY <2>1, <2>2
  <2>4. rest[1].bytes = WithoutFirst(CallBytes(s, k + 1), 0)
    <3>1. CallBytes(s, k + 1) \in Seq(Byte)
      BY <2>1, NextCallAt DEF l
    <3>2. QED BY <2>3, <3>1, DropsAdd, Zenon DEF CallBytes
  <2>5. ASSUME NEW c \in 2 .. Len(rest) PROVE rest[c] = StateSends(s)[(k + 1) + c - 1]
    <3>1. c \in 1 .. Len(rest) /\ k + c = (k + 1) + c - 1
      OBVIOUS
    <3>2. QED BY <2>2, <3>1
  <2>6. QED BY <1>5, <2>1, <2>3, <2>4, <2>5 DEF RestOf, l
<1>8. QED BY <1>6, <1>7 DEF rest, l

(* A call for a player is neither the first nor the last.                  *)
LEMMA OfBlock ==
  ASSUME NEW s \in Views, NEW k \in 1 .. LastCall(s), StateSends(s)[k].of # 0
  PROVE  2 <= k /\ k # LastCall(s)
<1>1. StateSends(s)[1].of = 0
  <2>1. StateSends(s)[1] = [of |-> 0, bytes |-> Bytes32(PacketSize(s))]
    BY CallFacts, Zenon
  <2>2. QED BY <2>1
<1>2. StateSends(s)[LastCall(s)].of = 0
  <2>1. StateSends(s)[LastCall(s)] = [of |-> 0, bytes |-> s.grid]
    BY CallFacts, Zenon DEF LastCall
  <2>2. QED BY <2>1
<1>3. k # 1 /\ k # LastCall(s)
  BY <1>1, <1>2
<1>4. QED BY <1>3

(* There is nothing but the colour in the connection.                      *)
LEMMA EvenOfNone ==
  ASSUME NEW d \in Seq(Byte), Len(d) = 7
  PROVE  Even(d, <<>>, 0, 7)
<1> DEFINE start == [i \in {1} |-> 7]
<1>1. start[1] = 7 /\ Len(<<>>) = 0
  OBVIOUS
<1> HIDE DEF start
<1>2. 0 + 1 = 1 /\ 0 + 1 .. 0 + 1 = {1} /\ 0 + 1 .. 0 = {} /\ 7 \in Nat /\ 7 <= 7
  OBVIOUS
<1>3. Layout(start, d, <<>>, 0, 7)
  BY <1>1, <1>2 DEF Layout
<1>4. QED BY <1>1, <1>2, <1>3 DEF Even

(* The client still takes what comes down.                                 *)
Reading == cl \in {"recvColour", "recvState", "decide", "sendMove"}

(* Where the packets begin: behind the colour. *)
Base == IF cl = "recvColour" THEN 7 ELSE 0

(* How many snapshots were sent when, and received.                        *)
StatesSent ==
  /\ sent \in Seq(Views) /\ got \in Seq(Views) /\ Len(got) <= Len(sent)
  /\ srv \in {"listening", "name", "colour"} \/ cl \in {"start", "sendName"} => sent = <<>>
  /\ cl = "recvColour" => got = <<>>

(* While one is sent: the calls that are left are for what is not in the   *)
(* connection of it, and after a failure it is a player's block that is    *)
(* gone through.                                                           *)
StateGoesOut ==
  srv = "send" =>
    /\ showing \in Views
    /\ \E k \in 1 .. LastCall(showing) : \E m \in Nat :
         /\ RestOf(sends, showing, k, m)
         /\ failed => StateSends(showing)[k].of # 0
         /\ Reading => Partly(down, sent, Len(got), Base, showing, k, m, failed)

(* Else there are the packets that were sent to the end, and behind them   *)
(* perhaps, when the server is gone, the beginning of another.             *)
StatesOnTheWay ==
  Reading =>
    /\ srv \in {"frame", "recv", "move", "over"} => Even(down, sent, Len(got), Base)
    /\ srv = "closed" => Len(down) < Base \/ Cut(down, sent, Len(got), Base)

(* The states, on their way down.                                          *)
StatesUnderWay == StatesSent /\ StateGoesOut /\ StatesOnTheWay

(* The names in a snapshot are names of the table, which the client takes. *)
LEMMA NamesFit ==
  ASSUME NEW world \in Worlds, NEW alive \in BOOLEAN, NEW number,
         NEW s, s = View(world, alive, PlayerName(Name), number)
  PROVE  \A i \in 1 .. Len(s.players) : Len(s.players[i].name) <= MaxString
<1> DEFINE me == Me(world, PlayerName(Name))
           mine == IF alive THEN <<me>> ELSE <<>>
           others == world.others
<1>1. /\ NameLimit <= MaxString /\ NameLimit \in Nat /\ MaxString \in Nat
      /\ \A i \in DOMAIN others : Len(others[i].name) <= NameLimit
  BY Types, SessionAssumption, SMT
<1>2. others \in Seq(PlayerBlock)
  BY Types
<1>3. Len(PlayerName(Name)) <= NameLimit
  BY <1>1, Types, PlayerNameFacts
<1>4. me.name = PlayerName(Name)
  BY DEF Me
<1>5. s.players = mine \o others
  BY DEF View
<1> HIDE DEF me
<1>6. /\ Len(mine) \in Nat /\ Len(others) \in Nat /\ DOMAIN others = 1 .. Len(others)
      /\ Len(mine \o others) = Len(mine) + Len(others)
      /\ \A i \in 1 .. Len(mine) + Len(others) :
           (mine \o others)[i] = IF i <= Len(mine) THEN mine[i] ELSE others[i - Len(mine)]
  <2> DEFINE T == PlayerBlock \cup {me}
  <2>1. mine \in Seq(T)
    <3>1. me \in T
      OBVIOUS
    <3> HIDE DEF T
    <3>2. <<me>> \in Seq(T) /\ <<>> \in Seq(T)
      BY <3>1
    <3>3. QED BY <3>2
  <2>2. PlayerBlock \subseteq T
    OBVIOUS
  <2> HIDE DEF T, mine, others
  <2>3. others \in Seq(T)
    BY <1>2, <2>2, SeqMonotonic
  <2>4. QED BY <2>1, <2>3, ConcatProperties, LenProperties
<1>7. \A i \in 1 .. Len(mine) : Len(mine[i].name) <= NameLimit
  BY <1>3, <1>4
<1> HIDE DEF mine, others
<1>8. ASSUME NEW i \in 1 .. Len(s.players)
      PROVE  Len(s.players[i].name) <= MaxString
  <2>1. i \in 1 .. Len(mine) + Len(others)
    BY <1>5, <1>6
  <2>2. CASE i <= Len(mine)
    <3>1. s.players[i] = mine[i] /\ i \in 1 .. Len(mine)
      BY <1>5, <1>6, <2>1, <2>2
    <3>2. QED BY <1>1, <1>7, <3>1
  <2>3. CASE ~(i <= Len(mine))
    <3>1. s.players[i] = others[i - Len(mine)] /\ i - Len(mine) \in DOMAIN others
      BY <1>5, <1>6, <2>1, <2>3
    <3>2. QED BY <1>1, <3>1
  <2>4. QED BY <2>2, <2>3
<1>9. QED BY <1>8

(* The server sends snapshots that can be announced.                       *)
LEMMA SnapshotIsView ==
  ASSUME IInv, NEW world \in Worlds, NEW alive \in BOOLEAN, srv = "frame"
  PROVE  SnapshotOf(world, alive) \in Views
<1> DEFINE s == SnapshotOf(world, alive)
<1>1. s \in Snapshot
  BY SnapshotIsTyped
<1>2. player = PlayerName(Name)
  BY DEF IInv, InTable, Joined
<1>3. frame \in 0 .. MaxFrame /\ MaxFrame \in Nat
  BY Types DEF IInv, Typed
<1>4. s = View(world, alive, PlayerName(Name), frame)
  BY <1>2 DEF SnapshotOf
<1>5. PacketSize(s) \div 65536 < 65536
  BY <1>3, <1>4, SizeAssumption, SMT
<1>6. frame <= 2147483647
  <2>1. MaxFrame <= 2147483647
    BY SessionAssumption, SMT
  <2>2. QED BY <1>3, <2>1, SMT
<1>7. PlayerName(Name) \in Seq(Letter) /\ frame \in Nat
  <2>1. PlayerName(Name) \in Seq(Letter)
    BY PlayerNameFacts
  <2>2. QED BY <1>3, <2>1
<1>8. world.w # 0 /\ world.h # 0 /\ Len(world.grid) = world.w * world.h
  BY <1>7, ViewIsTyped
<1>9. s.w = world.w /\ s.h = world.h /\ s.grid = world.grid /\ s.frame = frame
  BY <1>4 DEF View
<1>13. \A i \in 1 .. Len(s.players) : Len(s.players[i].name) <= MaxString
  BY <1>4, NamesFit
<1> HIDE DEF s
<1>10. s.frame <= 2147483647
  BY <1>6, <1>9, SMT
<1>11. IsView(s)
  BY <1>1, <1>5, <1>8, <1>9, <1>10, <1>13, SMT DEF IsView
<1>12. QED BY <1>1, <1>11 DEF Views, s

-----------------------------------------------------------------------------
(* The server's steps, and the states on their way.                        *)

(* A call for a snapshot has returned; down' is what the connection holds  *)
(* then, and m bytes of the call are in it.                                *)
LEMMA StateCallReturns ==
  ASSUME IInv, StatesSent, srv = "send", showing \in Views,
         NEW k \in 1 .. LastCall(showing), NEW o \in Nat, RestOf(sends, showing, k, o),
         failed => StateSends(showing)[k].of # 0,
         NEW error \in BOOLEAN, CallReturns(error), NEW m \in Nat,
         \/ m = Len(CallBytes(showing, k)) /\ error = failed
         \/ m < Len(CallBytes(showing, k)) /\ error = TRUE,
         down' \in Seq(Byte), cl' = cl, got' = got,
         Reading => Partly(down', sent, Len(got), Base, showing, k, m, failed)
  PROVE  StatesUnderWay'
<1> DEFINE rest == Tail(sends)
           goOn == Call.of # 0 /\ Head(rest).of = Call.of
           block == StateSends(showing)[k].of
           size == Len(CallBytes(showing, k))
<1>1. PICK hole \in BOOLEAN : hole = failed
  BY DEF IInv, Typed
<1>2. /\ sent \in Seq(Views) /\ got \in Seq(Views) /\ Len(got) <= Len(sent)
      /\ Len(got) \in Nat /\ Len(sent) \in Nat
  BY LenProperties DEF StatesSent
<1>3. sends \in Seq(Sending) /\ sends # <<>> /\ Call.of = block
  <2>1. sends \in Seq(Sending) /\ sends # <<>>
    BY DEF IInv, Typed
  <2>2. Call = sends[1]
    BY <2>1, FirstSendTyped DEF IInv, Call
  <2>3. QED BY <2>1, <2>2 DEF RestOf
<1>4. /\ rest # <<>> =>
           /\ k + 1 \in 1 .. LastCall(showing) /\ RestOf(rest, showing, k + 1, 0)
           /\ Head(rest).of = StateSends(showing)[k + 1].of
      /\ rest = <<>> => k = LastCall(showing)
  BY <1>3, RestTurns, Zenon
<1>5. IF error /\ ~goOn
      THEN srv' = "closed" /\ sent' = sent
      ELSE IF rest # <<>>
      THEN /\ sends' = rest /\ failed' = error /\ srv' = srv /\ showing' = showing
           /\ sent' = sent
      ELSE srv' = "recv" /\ sent' = Append(sent, showing)
  BY DEF CallReturns, Close
<1>6. cl \notin {"start", "sendName"}
  BY DEF IInv, Phases, Joined
<1>7. (Reading' <=> Reading) /\ Base' = Base
  BY DEF Reading, Base
<1>8. block # 0 => 2 <= k /\ k # LastCall(showing)
  BY OfBlock
<1>9. size \in Nat
  BY NextCallAt
<1> DEFINE base == Base
           part(n, h) == Partly(down', sent, Len(got), base, showing, n, 0, h)
<1>10. ASSUME Reading, m = size PROVE part(k + 1, hole)
  <2>1. Partly(down', sent, Len(got), base, showing, k, m, hole)
    BY <1>1, <1>10
  <2> HIDE DEF base
  <2>2. QED BY <1>2, <1>10, <2>1, PartlyTurns
<1>11. ASSUME Reading, m < size, 2 <= k PROVE part(k + 1, TRUE)
  <2>1. Partly(down', sent, Len(got), base, showing, k, m, hole)
    BY <1>1, <1>11
  <2> HIDE DEF base
  <2>2. QED BY <1>2, <1>11, <2>1, PartlyFails
<1>12. ASSUME Reading, m < size \/ hole PROVE Cut(down', sent, Len(got), base)
  <2>1. Partly(down', sent, Len(got), base, showing, k, m, hole)
    BY <1>1, <1>12
  <2>2. m < size \/ (hole /\ m = size)
    BY <1>1, <1>12
  <2> HIDE DEF base
  <2>3. QED BY <1>2, <2>1, <2>2, PartlyCut
<1>13. ASSUME Reading, k = LastCall(showing), m = size, hole = FALSE
       PROVE  Even(down', Append(sent, showing), Len(got), base)
  <2>1. Partly(down', sent, Len(got), base, showing, LastCall(showing) + 1, 0, FALSE)
    BY <1>10, <1>13
  <2> HIDE DEF base
  <2>2. QED BY <1>2, <2>1, PartlyWhole
<1>14. CASE error /\ ~goOn
  <2>1. srv' = "closed" /\ sent' = sent
    BY <1>5, <1>14
  <2>2. Reading => Cut(down', sent, Len(got), base)
    BY <1>1, <1>12, <1>14
  <2>3. StatesSent' /\ StateGoesOut'
    BY <1>2, <1>6, <2>1 DEF StatesSent, StateGoesOut
  <2>4. StatesOnTheWay'
    BY <1>7, <2>1, <2>2 DEF StatesOnTheWay
  <2>5. QED BY <2>3, <2>4 DEF StatesUnderWay
<1>15. CASE ~(error /\ ~goOn) /\ rest # <<>>
  <2>1. /\ sends' = rest /\ failed' = error /\ srv' = "send" /\ showing' = showing
        /\ sent' = sent
    BY <1>5, <1>15
  <2>2. error => block # 0 /\ StateSends(showing)[k + 1].of # 0
    BY <1>3, <1>4, <1>15
  <2>3. Reading => part(k + 1, error)
    <3>1. m = size => hole = error
      BY <1>1, <1>9
    <3>2. m # size => m < size /\ error = TRUE
      BY <1>9
    <3>3. m # size => 2 <= k
      BY <1>8, <2>2, <3>2
    <3> HIDE DEF part, size, block
    <3>4. QED BY <1>10, <1>11, <3>1, <3>2, <3>3
  <2>4. StateGoesOut'
    <3>1. /\ k + 1 \in 1 .. LastCall(showing) /\ RestOf(sends', showing', k + 1, 0)
          /\ failed' => StateSends(showing')[k + 1].of # 0
          /\ Reading' => Partly(down', sent', Len(got'), Base', showing', k + 1, 0, failed')
          /\ 0 \in Nat /\ showing' \in Views
      BY <1>4, <1>7, <1>15, <2>1, <2>2, <2>3
    <3>2. k + 1 \in 1 .. LastCall(showing')
      BY <2>1, <3>1
    <3>3. QED BY <3>1, <3>2 DEF StateGoesOut
  <2>5. StatesSent' /\ StatesOnTheWay'
    BY <1>2, <1>6, <2>1 DEF StatesSent, StatesOnTheWay
  <2>6. QED BY <2>4, <2>5 DEF StatesUnderWay
<1>16. CASE ~(error /\ ~goOn) /\ rest = <<>>
  <2>1. srv' = "recv" /\ sent' = Append(sent, showing)
    BY <1>5, <1>16
  <2>2. k = LastCall(showing)
    BY <1>4, <1>16
  <2>3. error = FALSE
    BY <1>3, <1>8, <1>16, <2>2
  <2>4. m = size /\ hole = FALSE
    BY <1>1, <2>3
  <2>5. Reading => Even(down', sent', Len(got), base)
    BY <1>13, <2>1, <2>2, <2>4
  <2>6. sent' \in Seq(Views) /\ Len(sent') = Len(sent) + 1
    BY <1>2, <2>1, AppendProperties
  <2>7. StatesSent' /\ StateGoesOut'
    <3>1. Len(got) <= Len(sent')
      BY <1>2, <2>6
    <3>2. QED BY <1>2, <1>6, <2>1, <2>6, <3>1 DEF StatesSent, StateGoesOut
  <2>8. StatesOnTheWay'
    BY <1>7, <2>1, <2>5 DEF StatesOnTheWay
  <2>9. QED BY <2>7, <2>8 DEF StatesUnderWay
<1>17. QED BY <1>14, <1>15, <1>16

(* Some bytes of a snapshot are sent.                                      *)
LEMMA StatePushed ==
  ASSUME IInv, IInv', StatesUnderWay, srv = "send", sends # <<>>,
         NEW n \in Pushed(Call.bytes), ServerPush(n)
  PROVE  StatesUnderWay'
<1>0. PICK bytes : bytes = sends[1].bytes
  OBVIOUS
<1>1. StatesSent /\ showing \in Views
  BY DEF StatesUnderWay, StateGoesOut
<1>2. PICK k \in 1 .. LastCall(showing), m \in Nat :
         /\ RestOf(sends, showing, k, m)
         /\ failed => StateSends(showing)[k].of # 0
         /\ Reading => Partly(down, sent, Len(got), Base, showing, k, m, failed)
  BY DEF StatesUnderWay, StateGoesOut
<1>3. Call.bytes = bytes /\ bytes \in Seq(Byte) /\ sends \in Seq(Sending)
      /\ sends[1] \in Sending /\ 1 \in 1 .. Len(sends)
  BY <1>0, FirstSendTyped DEF IInv, Typed, Call
<1>4. n \in 0 .. Len(bytes) /\ Len(bytes) \in Nat /\ n \in Nat
  BY <1>3, PushedFacts, LenProperties
<1> DEFINE piece == FirstOf(bytes, n)
           rest == WithoutFirst(bytes, n)
           size == Len(CallBytes(showing, k))
<1>5. /\ down' = IF ClientGone THEN down ELSE down \o piece
      /\ IF n < Len(bytes)
         THEN /\ sends' = [sends EXCEPT ![1].bytes = rest]
              /\ srv' = srv /\ failed' = failed /\ showing' = showing /\ sent' = sent
         ELSE CallReturns(failed)
      /\ cl' = cl /\ got' = got
  BY <1>0, <1>3 DEF ServerPush, FirstOf, WithoutFirst, clientVars
<1>6. /\ Len(bytes) = size - m /\ m <= size /\ size \in Nat
      /\ \A j \in 1 .. Len(bytes) : bytes[j] = CallBytes(showing, k)[m + j]
  <2>1. RestOf(sends, showing, k, m)
    BY <1>2
  <2>2. /\ Len(sends[1].bytes) = size - m /\ m <= size /\ size \in Nat
        /\ \A j \in 1 .. Len(sends[1].bytes) :
             sends[1].bytes[j] = CallBytes(showing, k)[m + j]
    BY <1>1, <2>1, RestRead
  <2>3. QED BY <1>0, <2>2
<1>7. piece \in Seq(Byte) /\ Len(piece) = n
      /\ \A j \in 1 .. n : piece[j] = CallBytes(showing, k)[m + j]
  <2>1. piece \in Seq(Byte) /\ Len(piece) = n /\ piece \o rest = bytes /\ rest \in Seq(Byte)
    BY <1>3, <1>4, PushLeaves, Zenon
  <2> HIDE DEF piece, rest
  <2>2. \A j \in 1 .. Len(piece) : (piece \o rest)[j] = piece[j]
    BY <2>1, Joint, Zenon
  <2>3. \A j \in 1 .. n : bytes[j] = piece[j] /\ j \in 1 .. Len(bytes)
    BY <1>4, <2>1, <2>2
  <2>4. QED BY <1>6, <2>1, <2>3
<1>8. /\ sent \in Seq(Views) /\ Len(got) \in Nat /\ Len(got) <= Len(sent)
      /\ down \in Seq(Byte) /\ down' \in Seq(Byte)
  BY <1>1, LenProperties DEF StatesSent, IInv, Typed
<1>9. Reading => Partly(down', sent, Len(got), Base, showing, k, m + n, failed)
  <2>1. PICK hole \in BOOLEAN : hole = failed
    BY DEF IInv, Typed
  <2> DEFINE base == Base
  <2>2. ASSUME Reading PROVE Partly(down', sent, Len(got), base, showing, k, m + n, hole)
    <3>1. down' = down \o piece
      BY <1>5, <2>2 DEF Reading, ClientGone
    <3>2. Partly(down, sent, Len(got), base, showing, k, m, hole)
      BY <1>2, <2>1, <2>2
    <3> HIDE DEF base, piece
    <3>3. Partly(down \o piece, sent, Len(got), base, showing, k, m + Len(piece), hole)
      BY <1>1, <1>7, <1>8, <3>2, PartlyPushed
    <3>4. QED BY <1>7, <3>1, <3>3
  <2>3. QED BY <2>1, <2>2
<1> HIDE DEF piece
<1>10. CASE n < Len(bytes)
  <2>1. /\ sends' = [sends EXCEPT ![1] = [sends[1] EXCEPT !.bytes = rest]]
        /\ srv' = srv /\ failed' = failed /\ showing' = showing /\ sent' = sent
    BY <1>0, <1>5, <1>10
  <2>2. rest \in Seq(Byte)
    BY <1>3, <1>4, PushLeaves, Zenon
  <2> HIDE DEF rest
  <2>3. [sends[1] EXCEPT !.bytes = rest] \in Sending
        /\ [sends[1] EXCEPT !.bytes = rest].of = sends[1].of
        /\ [sends[1] EXCEPT !.bytes = rest].bytes = rest
    BY <1>3, <2>2 DEF Sending
  <2>4. sends' \in Seq(Sending) /\ Len(sends') = Len(sends)
        /\ sends'[1].of = sends[1].of /\ sends'[1].bytes = rest
    BY <1>3, <2>1, <2>3, ExceptSeq
  <2>5. \A c \in 2 .. Len(sends) : sends'[c] = sends[c]
    <3>1. \A c \in 2 .. Len(sends) : c # 1 /\ c \in 1 .. Len(sends)
      OBVIOUS
    <3>2. QED BY <1>3, <2>1, <2>3, <3>1, ExceptSeq
  <2>6. RestOf(sends', showing, k, m + n)
    <3>1. sends'[1].bytes = WithoutFirst(sends[1].bytes, n)
      BY <1>0, <2>4 DEF rest
    <3>2. n < Len(sends[1].bytes)
      BY <1>0, <1>10
    <3>3. QED BY <1>1, <1>2, <1>4, <2>4, <2>5, <3>1, <3>2, RestShrinks
  <2>7. StateGoesOut'
    <3>1. Reading' = Reading /\ Base' = Base
      BY <1>5 DEF Reading, Base
    <3>2. /\ k \in 1 .. LastCall(showing') /\ m + n \in Nat /\ showing' \in Views
          /\ RestOf(sends', showing', k, m + n)
          /\ failed' => StateSends(showing')[k].of # 0
          /\ Reading' => Partly(down', sent', Len(got'), Base', showing', k, m + n, failed')
      BY <1>1, <1>2, <1>4, <1>5, <1>9, <2>1, <2>6, <3>1
    <3>3. QED BY <3>2 DEF StateGoesOut
  <2>8. StatesSent' /\ StatesOnTheWay'
    BY <1>1, <1>5, <2>1 DEF StatesSent, StatesOnTheWay
  <2>9. QED BY <2>7, <2>8 DEF StatesUnderWay
<1>11. CASE ~(n < Len(bytes))
  <2>1. m + n = size /\ m + n \in Nat
    <3> HIDE DEF size
    <3>1. n = Len(bytes) /\ Len(bytes) = size - m /\ size \in Nat
      BY <1>4, <1>6, <1>11
    <3>2. QED BY <1>4, <3>1
  <2>2. PICK error \in BOOLEAN : error = failed
    BY DEF IInv, Typed
  <2>3. CallReturns(error) /\ (m + n = size /\ error = failed)
    BY <1>5, <1>11, <2>1, <2>2
  <2> DEFINE o == m + n
  <2>4. /\ o \in Nat /\ o = Len(CallBytes(showing, k))
        /\ Reading => Partly(down', sent, Len(got), Base, showing, k, o, failed)
    BY <1>9, <2>1
  <2> HIDE DEF o, size
  <2>5. QED BY <1>1, <1>2, <1>5, <1>8, <2>2, <2>3, <2>4, StateCallReturns
<1>12. QED BY <1>10, <1>11

(* A send of bytes of a snapshot fails.                                    *)
LEMMA StateFails ==
  ASSUME IInv, IInv', StatesUnderWay, srv = "send", PushFails
  PROVE  StatesUnderWay'
<1>1. StatesSent /\ showing \in Views
  BY DEF StatesUnderWay, StateGoesOut
<1>2. PICK k \in 1 .. LastCall(showing), m \in Nat :
         /\ RestOf(sends, showing, k, m)
         /\ failed => StateSends(showing)[k].of # 0
         /\ Reading => Partly(down, sent, Len(got), Base, showing, k, m, failed)
  BY DEF StatesUnderWay, StateGoesOut
<1>3. /\ sends # <<>> /\ Call.bytes # <<>> /\ CallReturns(TRUE) /\ down' = down /\ cl' = cl
      /\ got' = got
  BY DEF PushFails, clientVars
<1>4. m < Len(CallBytes(showing, k))
  <2>1. PICK bytes : bytes = sends[1].bytes
    OBVIOUS
  <2>0. RestOf(sends, showing, k, m)
    BY <1>2
  <2>2. bytes # <<>>
    BY <1>3, <2>1, FirstSendTyped DEF IInv, Call
  <2>3. /\ bytes \in Seq(Byte) /\ Len(CallBytes(showing, k)) \in Nat
        /\ Len(bytes) = Len(CallBytes(showing, k)) - m
    <3>1. /\ sends[1].bytes \in Seq(Byte) /\ Len(CallBytes(showing, k)) \in Nat
          /\ Len(sends[1].bytes) = Len(CallBytes(showing, k)) - m
      BY <1>1, <2>0, RestRead
    <3>2. QED BY <2>1, <3>1
  <2>4. Len(bytes) \in Nat /\ Len(bytes) # 0
    BY <2>2, <2>3, EmptySeq, LenProperties
  <2> DEFINE size == Len(CallBytes(showing, k))
             l == Len(bytes)
  <2>5. size \in Nat /\ l = size - m /\ l \in Nat /\ l # 0
    BY <2>3, <2>4
  <2> HIDE DEF size, l
  <2>6. m < size
    BY <2>5
  <2>7. QED BY <2>6 DEF size
<1>5. down' \in Seq(Byte)
  BY DEF IInv, Typed
<1> DEFINE error == TRUE
<1>6. error \in BOOLEAN /\ error = TRUE /\ CallReturns(error)
  BY <1>3
<1> HIDE DEF error
<1>7. QED BY <1>1, <1>2, <1>3, <1>4, <1>5, <1>6, StateCallReturns

(* The colour is sent, or a send of it fails.                              *)
LEMMA ColourGoesOut ==
  ASSUME IInv, StatesUnderWay, srv = "colour", sends # <<>>,
         \/ PushFails
         \/ \E n \in Pushed(Call.bytes) : ServerPush(n)
  PROVE  StatesUnderWay'
<1>1. /\ cl' = cl /\ got' = got
      /\ \/ ClientGone /\ CallReturns(TRUE)
         \/ CallReturns(failed)
         \/ srv' = srv /\ sent' = sent
  BY DEF PushFails, ServerPush, clientVars
<1>2. cl \in {"recvColour", "ended"} /\ Len(sends) = 1 /\ sends[1].of = 0
  BY DEF IInv, ColourUnderWay
<1>3. Call.of = 0 /\ Tail(sends) = <<>>
  <2>1. Call.of = 0
    BY <1>2, FirstSendTyped DEF IInv, Call
  <2>2. Tail(sends) \in Seq(Sending) /\ Len(Tail(sends)) = Len(sends) - 1
    BY FirstSendTyped DEF IInv
  <2>3. Len(Tail(sends)) = 0
    BY <1>2, <2>2
  <2>4. QED BY <2>1, <2>2, <2>3, EmptySeq
<1>4. srv' \in {"colour", "closed", "frame"} /\ sent' = sent
  BY <1>1, <1>3 DEF CallReturns, Close
<1>5. sent = <<>> /\ got \in Seq(Views) /\ sent \in Seq(Views) /\ Len(got) <= Len(sent)
      /\ (cl = "recvColour" => got = <<>>)
  BY DEF StatesUnderWay, StatesSent
<1>6. StatesSent' /\ StateGoesOut'
  BY <1>1, <1>4, <1>5 DEF StatesSent, StateGoesOut
<1>7. ASSUME cl = "recvColour", srv' # "colour"
      PROVE  Even(down', sent, Len(got), 7) /\ Cut(down', sent, Len(got), 7)
  <2>0. PICK bytes : bytes = sends[1].bytes
    OBVIOUS
  <2>1. Call.bytes = bytes /\ bytes \in Seq(Byte)
    BY <2>0, FirstSendTyped DEF IInv, Call
  <2>2. PICK n \in Pushed(bytes) : ServerPush(n)
    BY <1>7, <2>1 DEF PushFails, ClientGone
  <2>3. n \in 0 .. Len(bytes) /\ Len(bytes) \in Nat
    BY <2>1, PushedFacts, LenProperties
  <2>4. n = Len(bytes)
    BY <1>7, <2>1, <2>2, <2>3 DEF ServerPush
  <2>5. down' = IF ClientGone THEN down ELSE down \o FirstOf(bytes, n)
    BY <2>1, <2>2 DEF ServerPush, FirstOf
  <2>6. down' \in Seq(Byte) /\ down' \o WithoutFirst(bytes, n) = ColourPacket(Colour)
    BY <1>7, <2>0, <2>3, <2>5, DownGrows
  <2> DEFINE left == WithoutFirst(bytes, n)
  <2>7. left \in Seq(Byte) /\ Len(left) = Len(bytes) - n
    BY <2>1, <2>3, PushLeaves, Zenon
  <2> HIDE DEF left
  <2>8. Len(down' \o left) = Len(down') + Len(left)
    BY <2>6, <2>7, Joint, Zenon
  <2>9. Len(down' \o left) = 7
    BY <2>6, ColourPacketFacts DEF left
  <2>10. Len(left) = 0 /\ Len(down') \in Nat
    BY <2>3, <2>4, <2>6, <2>7, LenProperties
  <2>11. Len(down') = 7
    <3> DEFINE l == Len(down')
               r == Len(left)
    <3>1. l + r = 7 /\ r = 0 /\ l \in Nat
      BY <2>8, <2>9, <2>10
    <3> HIDE DEF l, r
    <3>2. l = 7
      BY <3>1
    <3>3. QED BY <3>2 DEF l
  <2>12. Even(down', <<>>, 0, 7)
    BY <2>6, <2>11, EvenOfNone
  <2>13. sent = <<>> /\ Len(got) = 0 /\ <<>> \in Seq(Views) /\ Len(<<>>) = 0
    BY <1>5, <1>7
  <2> DEFINE none == <<>>
             zero == 0
             seven == 7
  <2>14. Even(down', none, zero, seven) /\ none \in Seq(Views) /\ zero \in Nat
         /\ zero <= Len(none)
    BY <2>12, <2>13
  <2> HIDE DEF none, zero, seven
  <2>15. Cut(down', none, zero, seven)
    BY <2>6, <2>14, EvenCut
  <2>16. QED BY <2>12, <2>13, <2>15 DEF none, zero, seven
<1>8. StatesOnTheWay'
  <2>1. Reading' => cl = "recvColour" /\ Base' = 7
    BY <1>1, <1>2 DEF Reading, Base
  <2>2. srv' # "colour" => srv' \in {"closed", "frame"}
    BY <1>4
  <2>3. ASSUME Reading', srv' # "colour"
        PROVE  Even(down', sent', Len(got'), Base') /\ Cut(down', sent', Len(got'), Base')
    BY <1>1, <1>4, <1>7, <2>1, <2>3
  <2>4. QED BY <2>3 DEF StatesOnTheWay
<1>9. QED BY <1>6, <1>8 DEF StatesUnderWay

(* The server begins to send a snapshot.                                   *)
LEMMA StateBegins ==
  ASSUME IInv, StatesUnderWay, NEW world \in Worlds, NEW alive \in BOOLEAN,
         SendState(world, alive)
  PROVE  StatesUnderWay'
<1> DEFINE s == SnapshotOf(world, alive)
           base == Base
<1>1. /\ srv = "frame" /\ srv' = "send" /\ showing' = s /\ sends' = StateSends(s)
      /\ failed' = FALSE /\ cl' = cl /\ down' = down /\ sent' = sent /\ got' = got
  BY DEF SendState, clientVars, history
<1>2. s \in Views
  BY <1>1, SnapshotIsView
<1> HIDE DEF s
<1>3. 1 \in 1 .. LastCall(s) /\ RestOf(StateSends(s), s, 1, 0)
  BY <1>2, RestBegins
<1>4. /\ sent \in Seq(Views) /\ got \in Seq(Views) /\ Len(got) <= Len(sent)
      /\ Len(got) \in Nat /\ down \in Seq(Byte)
  BY LenProperties DEF StatesUnderWay, StatesSent, IInv, Typed
<1>5. ASSUME Reading PROVE Partly(down, sent, Len(got), base, s, 1, 0, FALSE)
  <2>1. Even(down, sent, Len(got), base)
    BY <1>1, <1>5 DEF StatesUnderWay, StatesOnTheWay
  <2> HIDE DEF base
  <2>2. QED BY <1>2, <1>4, <2>1, PartlyBegins
<1>6. Reading' = Reading /\ Base' = Base
  BY <1>1 DEF Reading, Base
<1>7. StateGoesOut'
  <2>1. /\ 1 \in 1 .. LastCall(showing') /\ 0 \in Nat /\ showing' \in Views
        /\ RestOf(sends', showing', 1, 0)
        /\ failed' => StateSends(showing')[1].of # 0
        /\ Reading' => Partly(down', sent', Len(got'), Base', showing', 1, 0, failed')
    BY <1>1, <1>2, <1>3, <1>5, <1>6
  <2> DEFINE one == 1
             zero == 0
  <2>2. /\ one \in 1 .. LastCall(showing') /\ zero \in Nat /\ showing' \in Views
        /\ RestOf(sends', showing', one, zero)
        /\ failed' => StateSends(showing')[one].of # 0
        /\ Reading' => Partly(down', sent', Len(got'), Base', showing', one, zero, failed')
    BY <2>1
  <2> HIDE DEF one, zero
  <2>3. QED BY <2>2 DEF StateGoesOut
<1>8. StatesSent' /\ StatesOnTheWay'
  BY <1>1, <1>4 DEF StatesUnderWay, StatesSent, StatesOnTheWay
<1>9. QED BY <1>7, <1>8 DEF StatesUnderWay

(* The server goes on, or closes, and the connection stays as it is.       *)
LEMMA StatesStay ==
  ASSUME IInv, StatesUnderWay,
         UNCHANGED <<cl, down, sent, got>>,
         srv' \in {"name", "colour", "frame", "recv", "move", "over", "closed"},
         \/ srv \in {"name", "listening"} /\ srv' \in {"name", "colour", "closed"}
         \/ srv \in {"frame", "recv", "move", "over"} /\ srv' \notin {"name", "colour"}
  PROVE  StatesUnderWay'
<1>1. cl' = cl /\ down' = down /\ sent' = sent /\ got' = got
  OBVIOUS
<1>2. Reading' = Reading /\ Base' = Base
  BY <1>1 DEF Reading, Base
<1>3. /\ sent \in Seq(Views) /\ got \in Seq(Views) /\ Len(got) <= Len(sent)
      /\ Len(got) \in Nat /\ down \in Seq(Byte)
  BY LenProperties DEF StatesUnderWay, StatesSent, IInv, Typed
<1>4. StatesSent' /\ StateGoesOut'
  BY <1>1 DEF StatesUnderWay, StatesSent, StateGoesOut
<1> DEFINE base == Base
<1>5. CASE srv \in {"name", "listening"}
  <2>1. Reading => cl = "recvColour" /\ Base = 7 /\ down = <<>>
    BY <1>5 DEF Reading, Base, IInv, Phases
  <2>2. Reading => Len(down) < Base
    BY <2>1
  <2>3. StatesOnTheWay'
    BY <1>1, <1>2, <1>5, <2>2 DEF StatesOnTheWay
  <2>4. QED BY <1>4, <2>3 DEF StatesUnderWay
<1>6. CASE srv \in {"frame", "recv", "move", "over"}
  <2>1. ASSUME Reading
        PROVE  Even(down, sent, Len(got), base) /\ Cut(down, sent, Len(got), base)
    <3>1. Even(down, sent, Len(got), base)
      BY <1>6, <2>1 DEF StatesUnderWay, StatesOnTheWay
    <3> HIDE DEF base
    <3>2. QED BY <1>3, <3>1, EvenCut
  <2>2. StatesOnTheWay'
    BY <1>1, <1>2, <2>1 DEF StatesOnTheWay
  <2>3. QED BY <1>4, <2>2 DEF StatesUnderWay
<1>7. QED BY <1>5, <1>6

(* Every step of the server keeps what is known of the states.             *)
LEMMA StatesServer ==
  ASSUME IInv, IInv', StatesUnderWay, ServerStep \/ CloseWindow
  PROVE  StatesUnderWay'
<1>1. CASE RecvName
  <2>1. UNCHANGED <<cl, down, sent, got>> /\ srv = "name" /\ srv' = "colour"
    BY <1>1 DEF RecvName, clientVars, history
  <2>2. QED BY <2>1, StatesStay
<1>2. CASE Refused
  <2>1. UNCHANGED <<cl, down, sent, got>> /\ srv = "name" /\ srv' = "closed"
    BY <1>2 DEF Refused, Close, clientVars, history
  <2>2. QED BY <2>1, StatesStay
<1>3. CASE RecvMoveFails \/ CloseWindow
  <2>1. UNCHANGED <<cl, down, sent, got>> /\ srv \in {"recv", "frame", "over"} /\ srv' = "closed"
    BY <1>3 DEF RecvMoveFails, CloseWindow, Close, clientVars, history
  <2>2. QED BY <2>1, StatesStay
<1>4. CASE RecvMove \/ RecvTimeout
  <2>1. UNCHANGED <<cl, down, sent, got>> /\ srv = "recv" /\ srv' = "move"
    BY <1>4 DEF RecvMove, RecvTimeout, clientVars, history
  <2>2. QED BY <2>1, StatesStay
<1>5. CASE \E over \in BOOLEAN : EndFrame(over)
  <2>1. UNCHANGED <<cl, down, sent, got>> /\ srv = "move" /\ srv' \in {"over", "frame"}
    BY <1>5 DEF EndFrame, clientVars, history
  <2>2. QED BY <2>1, StatesStay
<1>6. CASE \E world \in Worlds, alive \in BOOLEAN : SendState(world, alive)
  BY <1>6, StateBegins
<1>7. CASE PushFails
  <2>1. srv \in {"colour", "send"} /\ sends # <<>>
    BY <1>7 DEF PushFails
  <2>2. QED BY <1>7, <2>1, ColourGoesOut, StateFails
<1>8. CASE sends # <<>> /\ \E n \in Pushed(Call.bytes) : ServerPush(n)
  <2>1. srv \in {"colour", "send"}
    BY <1>8 DEF ServerPush
  <2>2. QED BY <1>8, <2>1, ColourGoesOut, StatePushed
<1>9. QED BY <1>1, <1>2, <1>3, <1>4, <1>5, <1>6, <1>7, <1>8 DEF ServerStep

-----------------------------------------------------------------------------
(* The client's steps, and the states on their way.                        *)

(* What the server does not do leaves its part as it is.                   *)
ServerStays == UNCHANGED <<srv, sends, failed, showing, sent>>

(* A client that does not read on may forget what is in the connection.    *)
LEMMA StatesLeft ==
  ASSUME IInv, StatesUnderWay, ServerStays, ~Reading',
         got' \in Seq(Views), Len(got') <= Len(sent),
         cl' = "sendName" => cl \in {"start", "sendName"},
         cl' \notin {"start", "recvColour"}
  PROVE  StatesUnderWay'
<1>1. /\ srv' = srv /\ sends' = sends /\ failed' = failed /\ showing' = showing
      /\ sent' = sent
  BY DEF ServerStays
<1>2. StatesSent'
  BY <1>1 DEF StatesUnderWay, StatesSent
<1>3. StateGoesOut'
  BY <1>1 DEF StatesUnderWay, StateGoesOut
<1>4. StatesOnTheWay'
  BY DEF StatesOnTheWay
<1>5. QED BY <1>2, <1>3, <1>4 DEF StatesUnderWay

(* One that neither reads nor stops to leaves it as it is.                 *)
LEMMA StatesWait ==
  ASSUME IInv, StatesUnderWay, ServerStays, UNCHANGED <<down, got>>, Reading, Reading',
         cl # "recvColour", cl' # "recvColour"
  PROVE  StatesUnderWay'
<1>1. /\ srv' = srv /\ sends' = sends /\ failed' = failed /\ showing' = showing
      /\ sent' = sent /\ down' = down /\ got' = got
  BY DEF ServerStays
<1>2. Base' = 0 /\ Base = 0 /\ cl' \notin {"start", "sendName", "recvColour"}
  BY DEF Base, Reading
<1>3. StatesSent'
  BY <1>1, <1>2 DEF StatesUnderWay, StatesSent
<1>4. StateGoesOut'
  BY <1>1, <1>2 DEF StatesUnderWay, StateGoesOut
<1>5. StatesOnTheWay'
  BY <1>1, <1>2 DEF StatesUnderWay, StatesOnTheWay
<1>6. QED BY <1>3, <1>4, <1>5 DEF StatesUnderWay

(* One that takes the colour, or a packet, finds the next ones behind it.  *)
LEMMA StatesTaken ==
  ASSUME IInv, StatesUnderWay, ServerStays, Reading, Reading', cl' # "recvColour",
         srv \notin {"listening", "name", "colour"},
         NEW p \in Nat, NEW h \in Nat, got' \in Seq(Views), Len(got') = h,
         Base <= Len(down), down' = WithoutFirst(down, p),
         Taken(down, sent, Len(got), Base, p, h)
  PROVE  StatesUnderWay'
<1>1. /\ srv' = srv /\ sends' = sends /\ failed' = failed /\ showing' = showing
      /\ sent' = sent
  BY DEF ServerStays
<1>2. Base' = 0 /\ cl' \notin {"start", "sendName", "recvColour"} /\ Base \in Nat
  BY DEF Base, Reading
<1>3. /\ sent \in Seq(Views) /\ got \in Seq(Views)
      /\ Len(got) \in Nat /\ down \in Seq(Byte) /\ Len(down) \in Nat
  BY LenProperties DEF StatesUnderWay, StatesSent, IInv, Typed
<1>4. PICK g \in Nat : g = Len(got)
  BY <1>3
<1>5. PICK b \in Nat : b = Base
  BY <1>2
<1>6. Taken(down, sent, g, b, p, h) /\ h <= Len(sent) /\ ~(Len(down) < b)
  <2>1. Taken(down, sent, g, b, p, h) /\ b <= Len(down)
    BY <1>4, <1>5
  <2>2. QED BY <1>3, <2>1 DEF Taken
<1>7. StatesSent'
  BY <1>1, <1>2, <1>3, <1>6 DEF StatesSent
<1>8. StateGoesOut'
  <2>1. ASSUME srv = "send" PROVE StateGoesOut'
    <3>1. showing \in Views
      BY <2>1 DEF StatesUnderWay, StateGoesOut
    <3>2. PICK k \in 1 .. LastCall(showing), m \in Nat :
             /\ RestOf(sends, showing, k, m)
             /\ failed => StateSends(showing)[k].of # 0
             /\ Reading => Partly(down, sent, Len(got), Base, showing, k, m, failed)
      BY <2>1 DEF StatesUnderWay, StateGoesOut
    <3>3. PICK hole \in BOOLEAN : hole = failed
      BY DEF IInv, Typed
    <3>4. Partly(down, sent, g, b, showing, k, m, hole)
      BY <1>4, <1>5, <3>2, <3>3
    <3>5. Partly(WithoutFirst(down, p), sent, h, 0, showing, k, m, hole)
      BY <1>3, <1>6, <3>1, <3>4, PartlyDrops
    <3>6. /\ showing' \in Views /\ k \in 1 .. LastCall(showing')
          /\ RestOf(sends', showing', k, m)
          /\ failed' => StateSends(showing')[k].of # 0
          /\ Reading' => Partly(down', sent', Len(got'), Base', showing', k, m, failed')
      BY <1>1, <1>2, <3>1, <3>2, <3>3, <3>5
    <3>7. QED BY <3>6 DEF StateGoesOut
  <2>2. QED BY <1>1, <2>1 DEF StateGoesOut
<1>9. StatesOnTheWay'
  <2>1. ASSUME srv \in {"frame", "recv", "move", "over"}
        PROVE  Even(WithoutFirst(down, p), sent, h, 0)
    <3>1. Even(down, sent, g, b)
      BY <1>4, <1>5, <2>1 DEF StatesUnderWay, StatesOnTheWay
    <3>2. QED BY <1>3, <1>6, <3>1, EvenDrops
  <2>2. ASSUME srv = "closed" PROVE Cut(WithoutFirst(down, p), sent, h, 0)
    <3>1. Cut(down, sent, g, b)
      BY <1>4, <1>5, <1>6, <2>2 DEF StatesUnderWay, StatesOnTheWay
    <3>2. QED BY <1>3, <1>6, <3>1, CutDrops
  <2>3. QED BY <1>1, <1>2, <2>1, <2>2 DEF StatesOnTheWay
<1>10. QED BY <1>7, <1>8, <1>9 DEF StatesUnderWay

(* The client takes the colour.                                            *)
LEMMA StatesColour ==
  ASSUME IInv, IInv', StatesUnderWay, RecvColour
  PROVE  StatesUnderWay'
<1>1. Announced = 3 /\ 7 <= Len(down)
  BY ColourReads DEF RecvColour
<1>2. /\ cl = "recvColour" /\ PacketHere /\ down' = NextPacket /\ cl' = "recvState"
      /\ ServerStays /\ got' = got
  BY <1>1 DEF RecvColour, serverVars, history, ServerStays
<1>3. down \in Seq(Byte) /\ down # <<>> /\ Len(down) \in Nat
  BY <1>2, PacketFacts, LenProperties DEF IInv, Typed
<1>4. srv' = srv /\ srv \notin {"listening", "name"}
  BY <1>2, <1>3 DEF ServerStays, IInv, Phases
<1>5. srv # "colour"
  <2>1. cl' = "recvState" /\ srv' = srv
    BY <1>2, <1>4
  <2>2. srv' # "colour"
    BY <2>1 DEF IInv, ColourUnderWay
  <2>3. QED BY <2>1, <2>2
<1>6. PacketBytes = 7
  <2>1. Announced \in 1 .. MaxPacket
    BY <1>1, WireAssumption, SMT
  <2>2. ~(Len(down) < 4)
    BY <1>1, <1>3
  <2>3. PacketBytes = 4 + 3
    BY <1>1, <2>1, <2>2 DEF PacketBytes
  <2>4. QED BY <2>3
<1>7. down' = WithoutFirst(down, 7)
  BY <1>2, <1>6 DEF NextPacket, WithoutFirst
<1>8. Reading /\ Reading' /\ Base = 7
  BY <1>2 DEF Reading, Base
<1>9. PICK h \in Nat : h = Len(got)
  BY LenProperties DEF StatesUnderWay, StatesSent
<1>10. /\ got' \in Seq(Views) /\ Len(got') = h /\ h <= Len(sent)
       /\ sent \in Seq(Views)
  BY <1>2, <1>9 DEF StatesUnderWay, StatesSent
<1> DEFINE p == 7
<1>11. Taken(down, sent, Len(got), Base, p, h)
  <2>1. h = Len(got) /\ p = Base /\ h <= Len(sent)
    BY <1>8, <1>9, <1>10
  <2> HIDE DEF p
  <2>2. QED BY <2>1, Zenon DEF Taken
<1>12. p \in Nat /\ down' = WithoutFirst(down, p) /\ Base <= Len(down) /\ cl' # "recvColour"
  BY <1>1, <1>2, <1>7, <1>8
<1> HIDE DEF p
<1>13. QED BY <1>2, <1>4, <1>5, <1>8, <1>10, <1>11, <1>12, StatesTaken

(* What the client takes for a state is the next one that was sent, if it  *)
(* is not longer than it takes.                                            *)
LEMMA StateReads ==
  ASSUME IInv, StatesUnderWay, cl = "recvState", PacketHere
  PROVE  /\ srv \notin {"listening", "name", "colour"}
         /\ Announced \notin 1 .. MaxPacket => Announced > MaxPacket
         /\ Announced \in 1 .. MaxPacket =>
              /\ Len(got) < Len(sent) /\ PacketBytes = 4 + PacketSize(sent[Len(got) + 1])
              /\ Parse(Payload) = [ok |-> TRUE, snapshot |-> sent[Len(got) + 1]]
<1>1. srv \notin {"listening", "name", "colour"}
  BY DEF IInv, Phases, ColourUnderWay
<1>2. /\ sent \in Seq(Views) /\ got \in Seq(Views) /\ Len(got) <= Len(sent)
      /\ Len(got) \in Nat /\ down \in Seq(Byte) /\ Len(down) \in Nat
  BY LenProperties DEF StatesUnderWay, StatesSent, IInv, Typed
<1>3. Reading /\ Base = 0
  BY DEF Reading, Base
<1> DEFINE none == 0
           g == Len(got)
<1>4. PICK hole \in BOOLEAN : hole = failed
  BY DEF IInv, Typed
<1>5. srv \in {"frame", "recv", "move", "over", "send", "closed"}
  BY <1>1 DEF IInv, Typed
<1>6. Cut(down, sent, g, 0)
  <2>1. CASE srv \in {"frame", "recv", "move", "over"}
    <3>1. Even(down, sent, g, none)
      BY <1>3, <2>1 DEF StatesUnderWay, StatesOnTheWay
    <3> HIDE DEF none, g
    <3>2. Cut(down, sent, g, none)
      BY <1>2, <3>1, EvenCut DEF g
    <3>3. QED BY <3>2 DEF none
  <2>2. CASE srv = "send"
    <3>1. showing \in Views
      BY <2>2 DEF StatesUnderWay, StateGoesOut
    <3>2. PICK k \in 1 .. LastCall(showing), m \in Nat :
             /\ RestOf(sends, showing, k, m)
             /\ Reading => Partly(down, sent, Len(got), Base, showing, k, m, failed)
      BY <2>2 DEF StatesUnderWay, StateGoesOut
    <3>3. Partly(down, sent, g, none, showing, k, m, hole)
      BY <1>3, <1>4, <3>2
    <3>4. m = 0 \/ m < Len(CallBytes(showing, k))
      BY <3>2 DEF RestOf
    <3> HIDE DEF none, g
    <3>5. Cut(down, sent, g, none)
      BY <1>2, <3>1, <3>3, <3>4, PartlyCut DEF g
    <3>6. QED BY <3>5 DEF none
  <2>3. CASE srv = "closed"
    <3>1. ~(Len(down) < Base)
      BY <1>2, <1>3
    <3>2. QED BY <1>3, <2>3, <3>1 DEF StatesUnderWay, StatesOnTheWay
  <2>4. QED BY <1>5, <2>1, <2>2, <2>3
<1>7. PICK a : a = Length(SubSeq(down, 1, 4))
  OBVIOUS
<1>8. a = Announced /\ 4 <= Len(down) /\ PacketBytes <= Len(down)
      /\ (a \in 1 .. MaxPacket => PacketBytes = 4 + a)
  <2>1. a = Announced /\ Len(down) >= 4 /\ Len(down) >= PacketBytes
    BY <1>7 DEF Announced, PacketHere
  <2>2. ~(Len(down) < 4) /\ 4 <= Len(down)
    BY <1>2, <2>1
  <2>3. a \in 1 .. MaxPacket => PacketBytes = 4 + a
    BY <2>1, <2>2 DEF PacketBytes
  <2>4. PacketBytes \in Nat
    BY <1>2, PacketFacts
  <2>5. PacketBytes <= Len(down)
    BY <1>2, <2>1, <2>4
  <2>6. QED BY <2>1, <2>2, <2>3, <2>5
<1> HIDE DEF g
<1>9. g \in Nat /\ g <= Len(sent)
  BY <1>2 DEF g
<1>10. /\ a \notin 1 .. MaxPacket => a > MaxPacket
       /\ a \in 1 .. MaxPacket /\ 4 + a <= Len(down) =>
            /\ g < Len(sent) /\ a = PacketSize(sent[g + 1])
            /\ Parse(SubSeq(down, 5, 4 + a)) = [ok |-> TRUE, snapshot |-> sent[g + 1]]
  BY <1>2, <1>6, <1>7, <1>8, <1>9, NextState
<1>11. ASSUME a \in 1 .. MaxPacket
       PROVE  /\ g < Len(sent) /\ PacketBytes = 4 + PacketSize(sent[g + 1])
              /\ Parse(Payload) = [ok |-> TRUE, snapshot |-> sent[g + 1]]
  <2>1. PacketBytes = 4 + a /\ 4 + a <= Len(down)
    BY <1>8, <1>11
  <2>2. Payload = SubSeq(down, 5, 4 + a)
    BY <2>1 DEF Payload
  <2>3. QED BY <1>10, <1>11, <2>1, <2>2
<1>12. QED BY <1>1, <1>8, <1>10, <1>11 DEF g

(* How the client takes it.                                                *)
LEMMA StateTaken ==
  ASSUME IInv, StatesUnderWay, RecvState
  PROVE  \/ /\ Announced > MaxPacket /\ cl' = "malformed" /\ got' = got
         \/ /\ Len(got) < Len(sent) /\ got' = Append(got, sent[Len(got) + 1])
            /\ cl' \in {"decide", "leaving"}
            /\ PacketBytes = 4 + PacketSize(sent[Len(got) + 1])
<1>1. cl = "recvState" /\ PacketHere
  BY DEF RecvState
<1>2. CASE Announced \notin 1 .. MaxPacket
  <2>1. Announced > MaxPacket
    BY <1>1, <1>2, StateReads
  <2>2. cl' = "malformed" /\ got' = got
    BY <1>2 DEF RecvState
  <2>3. QED BY <2>1, <2>2
<1>3. CASE Announced \in 1 .. MaxPacket
  <2>1. /\ Len(got) < Len(sent) /\ PacketBytes = 4 + PacketSize(sent[Len(got) + 1])
        /\ Parse(Payload) = [ok |-> TRUE, snapshot |-> sent[Len(got) + 1]]
    BY <1>1, <1>3, StateReads
  <2> DEFINE state == [ok |-> TRUE, snapshot |-> sent[Len(got) + 1]]
             found == \E i \in DOMAIN state.snapshot.players :
                        state.snapshot.players[i].colour = colour
  <2>2. state.ok = TRUE /\ state.snapshot = sent[Len(got) + 1] /\ Parse(Payload) = state
    BY <2>1
  <2>3. /\ got' = Append(got, state.snapshot)
        /\ cl' = IF found THEN "decide" ELSE "leaving"
    <3> HIDE DEF state
    <3>1. IF Announced \in 1 .. MaxPacket /\ state.ok
          THEN /\ got' = Append(got, state.snapshot)
               /\ cl' = IF found THEN "decide" ELSE "leaving"
          ELSE cl' = "malformed" /\ UNCHANGED got
      BY <2>2 DEF RecvState
    <3>2. QED BY <1>3, <2>2, <3>1
  <2> HIDE DEF found
  <2>4. QED BY <2>1, <2>2, <2>3
<1>4. QED BY <1>2, <1>3

(* The client takes a state, or gives up on one.                           *)
LEMMA StatesState ==
  ASSUME IInv, IInv', StatesUnderWay, RecvState
  PROVE  StatesUnderWay'
<1>1. /\ cl = "recvState" /\ PacketHere /\ down' = NextPacket /\ ServerStays
  BY DEF RecvState, serverVars, ServerStays
<1>2. /\ sent \in Seq(Views) /\ got \in Seq(Views) /\ Len(got) <= Len(sent)
      /\ Len(got) \in Nat /\ down \in Seq(Byte) /\ Len(down) \in Nat /\ Len(sent) \in Nat
  BY LenProperties DEF StatesUnderWay, StatesSent, IInv, Typed
<1>3. CASE cl' = "malformed" /\ got' = got
  <2>1. /\ ~Reading' /\ got' \in Seq(Views) /\ Len(got') <= Len(sent)
        /\ cl' \notin {"start", "sendName", "recvColour"}
    BY <1>2, <1>3 DEF Reading
  <2>2. QED BY <1>1, <2>1, StatesLeft
<1>4. CASE /\ Len(got) < Len(sent) /\ got' = Append(got, sent[Len(got) + 1])
           /\ cl' \in {"decide", "leaving"}
           /\ PacketBytes = 4 + PacketSize(sent[Len(got) + 1])
  <2>1. PICK h \in Nat : h = Len(got) + 1
    BY <1>2
  <2>2. h \in 1 .. Len(sent)
    BY <1>2, <1>4, <2>1
  <2>3. sent[h] \in Views
    BY <1>2, <2>2, ElementOfSeq
  <2>4. got' \in Seq(Views) /\ Len(got') = h
    BY <1>2, <1>4, <2>1, <2>3, AppendProperties
  <2>5. PICK p \in Nat : p = 4 + PacketSize(sent[h])
    <3>1. PacketSize(sent[h]) \in Nat
      BY <2>3, ViewFacts
    <3>2. QED BY <3>1
  <2>6. down' = WithoutFirst(down, p)
    BY <1>1, <1>4, <2>1, <2>5 DEF NextPacket, WithoutFirst
  <2>7. h <= Len(sent) /\ Len(got') <= Len(sent)
    BY <1>2, <2>2, <2>4
  <2>8. CASE cl' = "leaving"
    <3>1. ~Reading' /\ cl' \notin {"start", "sendName", "recvColour"}
      BY <2>8 DEF Reading
    <3>2. QED BY <1>1, <2>4, <2>7, <3>1, StatesLeft
  <2>9. CASE cl' = "decide"
    <3>1. Reading /\ Reading' /\ cl' # "recvColour" /\ Base = 0
      BY <1>1, <2>9 DEF Reading, Base
    <3>2. Taken(down, sent, Len(got), Base, p, h)
      <4>1. p = Base + 4 + PacketSize(sent[Len(got) + 1])
        BY <2>1, <2>5, <3>1
      <4>2. QED BY <2>1, <2>7, <4>1, Zenon DEF Taken
    <3>3. Base <= Len(down) /\ srv \notin {"listening", "name", "colour"}
      BY <1>1, <1>2, <3>1, StateReads
    <3>4. QED BY <1>1, <2>4, <2>6, <3>1, <3>2, <3>3, StatesTaken
  <2>10. QED BY <1>4, <2>8, <2>9
<1>5. QED BY <1>3, <1>4, StateTaken

(* Every step of the client keeps what is known of the states.             *)
LEMMA StatesClient ==
  ASSUME IInv, IInv', StatesUnderWay,
         \/ \E ok \in BOOLEAN : CreateSocket(ok)
         \/ ClientSends \/ ClientReceives \/ ClientCrash
  PROVE  StatesUnderWay'
<1>1. /\ sent \in Seq(Views) /\ got \in Seq(Views) /\ Len(got) <= Len(sent)
      /\ Len(got) \in Nat /\ Len(sent) \in Nat
  BY LenProperties DEF StatesUnderWay, StatesSent
<1>2. CASE \E ok \in BOOLEAN : CreateSocket(ok)
  <2>1. /\ cl = "start" /\ cl' = "sendName" /\ srv' \in {srv, "name"}
        /\ sends' = sends /\ failed' = failed /\ showing' = showing /\ down' = down
        /\ sent' = sent /\ got' = got
    BY <1>2 DEF CreateSocket, history
  <2>2. srv = "listening" /\ sent = <<>>
    BY <2>1 DEF IInv, Phases, StatesUnderWay, StatesSent
  <2>3. ~Reading' /\ srv' # "send"
    BY <2>1, <2>2 DEF Reading
  <2>4. StatesSent'
    BY <1>1, <2>1, <2>2 DEF StatesSent
  <2>5. StateGoesOut' /\ StatesOnTheWay'
    BY <2>3 DEF StateGoesOut, StatesOnTheWay
  <2>6. QED BY <2>4, <2>5 DEF StatesUnderWay
<1>3. CASE \/ SendNameFails \/ SendMoveFails \/ RecvColourFails \/ RecvStateFails
           \/ Leave \/ ClientCrash
  <2>1. ClientLeaves
    BY <1>3, ClientLeavesWays
  <2>2. /\ cl' = "ended" /\ ServerStays /\ got' = got
    BY <2>1 DEF ClientLeaves, serverVars, history, ServerStays
  <2>3. ~Reading'
    BY <2>2 DEF Reading
  <2>4. QED BY <1>1, <2>2, <2>3, StatesLeft
<1>4. CASE \E n \in Pushed(clOut) : ClientPush(n)
  <2>1. PICK n \in Pushed(clOut) : ClientPush(n)
    BY <1>4
  <2>2. /\ cl \in {"sendName", "sendMove"} /\ fd = "socket"
        /\ \/ cl' = cl
           \/ cl = "sendName" /\ cl' = "recvColour"
           \/ cl = "sendMove" /\ cl' = "recvState"
        /\ ServerStays /\ down' = down /\ got' = got
    BY <2>1 DEF ClientPush, serverVars, history, ServerStays
  <2>3. CASE cl = "sendMove"
    <3>1. Reading /\ Reading' /\ cl' # "recvColour"
      BY <2>2, <2>3 DEF Reading
    <3>2. QED BY <2>2, <2>3, <3>1, StatesWait
  <2>4. CASE cl = "sendName" /\ cl' = "sendName"
    <3>1. ~Reading'
      BY <2>4 DEF Reading
    <3>2. QED BY <1>1, <2>2, <2>4, <3>1, StatesLeft
  <2>5. CASE cl = "sendName" /\ cl' = "recvColour"
    <3>1. srv \in {"name", "closed"} /\ down = <<>>
      BY <2>2, <2>5 DEF IInv, Typed, Phases, Joined
    <3>2. sent = <<>> /\ got = <<>>
      <4>1. sent = <<>>
        BY <2>5 DEF StatesUnderWay, StatesSent
      <4>2. Len(got) = 0
        BY <1>1, <4>1
      <4>3. QED BY <1>1, <4>1, <4>2, EmptySeq
    <3>3. srv' = srv /\ sent' = sent
      BY <2>2 DEF ServerStays
    <3>4. StatesSent' /\ StateGoesOut'
      BY <1>1, <2>2, <3>1, <3>2, <3>3 DEF StatesSent, StateGoesOut
    <3>5. Len(down') < Base'
      <4>1. Base' = 7 /\ Len(down') = 0
        BY <2>2, <2>5, <3>1 DEF Base
      <4>2. QED BY <4>1
    <3>6. StatesOnTheWay'
      BY <3>1, <3>3, <3>5 DEF StatesOnTheWay
    <3>7. QED BY <3>4, <3>6 DEF StatesUnderWay
  <2>6. QED BY <2>2, <2>3, <2>4, <2>5
<1>5. CASE \E dir \in Moves : SendMove(dir)
  <2>1. /\ cl = "decide" /\ cl' = "sendMove" /\ ServerStays /\ down' = down /\ got' = got
    BY <1>5 DEF SendMove, serverVars, ServerStays
  <2>2. Reading /\ Reading'
    BY <2>1 DEF Reading
  <2>3. QED BY <2>1, <2>2, StatesWait
<1>6. CASE RecvColour
  BY <1>6, StatesColour
<1>7. CASE RecvState
  BY <1>7, StatesState
<1>8. QED BY <1>2, <1>3, <1>4, <1>5, <1>6, <1>7 DEF ClientSends, ClientReceives

(* It holds while nothing happens.                                         *)
LEMMA StatesStill == StatesUnderWay /\ UNCHANGED vars => StatesUnderWay'
<1> SUFFICES ASSUME StatesUnderWay, UNCHANGED vars PROVE StatesUnderWay'
  OBVIOUS
<1>1. /\ cl' = cl /\ srv' = srv /\ sends' = sends /\ failed' = failed
      /\ showing' = showing /\ down' = down /\ sent' = sent /\ got' = got
  BY DEF vars, clientVars, serverVars, history
<1>2. Reading' = Reading /\ Base' = Base
  BY <1>1 DEF Reading, Base
<1>3. StatesSent'
  BY <1>1 DEF StatesUnderWay, StatesSent
<1>4. StateGoesOut'
  BY <1>1, <1>2 DEF StatesUnderWay, StateGoesOut
<1>5. StatesOnTheWay'
  BY <1>1, <1>2 DEF StatesUnderWay, StatesOnTheWay
<1>6. QED BY <1>3, <1>4, <1>5 DEF StatesUnderWay

(* However the sends are cut and wherever they fail, what is in the        *)
(* connection are the snapshots that were sent to the end and that the     *)
(* client has not taken, whole and in order, and behind them no more than  *)
(* the beginning of one more; a packet with a hole in a player's block is  *)
(* never gone on with behind that block, and never as long as announced.   *)
THEOREM StatesInductive == Spec => [](IInv /\ StatesUnderWay)
<1>1. Init => StatesUnderWay
  <2> SUFFICES ASSUME Init PROVE StatesUnderWay
    OBVIOUS
  <2>1. /\ cl = "start" /\ srv = "listening" /\ sent = <<>> /\ got = <<>>
        /\ <<>> \in Seq(Views) /\ Len(<<>>) <= Len(<<>>)
    BY EmptySeq DEF Init
  <2>2. StatesSent
    BY <2>1 DEF StatesSent
  <2>3. StateGoesOut /\ StatesOnTheWay
    BY <2>1 DEF StateGoesOut, StatesOnTheWay
  <2>4. QED BY <2>2, <2>3 DEF StatesUnderWay
<1>2. IInv /\ IInv' /\ StatesUnderWay /\ [Next]_vars => StatesUnderWay'
  <2> SUFFICES ASSUME IInv, IInv', StatesUnderWay, [Next]_vars PROVE StatesUnderWay'
    OBVIOUS
  <2>1. CASE \/ \E ok \in BOOLEAN : CreateSocket(ok)
             \/ ClientSends \/ ClientReceives \/ ClientCrash
    BY <2>1, StatesClient
  <2>2. CASE ServerStep \/ CloseWindow
    BY <2>2, StatesServer
  <2>3. CASE UNCHANGED vars
    BY <2>3, StatesStill
  <2>4. QED BY <2>1, <2>2, <2>3 DEF Next
<1>3. QED BY <1>1, <1>2, SessionInductive, PTL DEF Spec

-----------------------------------------------------------------------------
(* The states down are a channel.                                          *)

(* The beginning of a sequence that has become longer.                     *)
LEMMA BeginningStays ==
  ASSUME NEW s \in Seq(Views), NEW v \in Views
  PROVE  Len(Append(s, v)) = Len(s) + 1 /\ SubSeq(Append(s, v), 1, Len(s)) = s
<1> DEFINE t == Append(s, v)
           n == Len(s)
           piece == SubSeq(t, 1, n)
<1>1. n \in Nat
  BY LenProperties
<1>2. /\ t \in Seq(Views) /\ Len(t) = n + 1 /\ \A i \in 1 .. n : t[i] = s[i]
  BY <1>1, AppendProperties
<1> HIDE DEF t
<1>3. \A i \in 1 .. n : t[i] \in Views
  BY <1>2, ElementOfSeq
<1>4. /\ piece \in Seq(Views) /\ Len(piece) = IF 1 <= n THEN n - 1 + 1 ELSE 0
      /\ \A i \in 1 .. n - 1 + 1 : piece[i] = t[1 + i - 1]
  BY <1>1, <1>3, SubSeqProperties
<1> HIDE DEF piece
<1>5. Len(piece) = n /\ n - 1 + 1 = n
  BY <1>1, <1>4
<1>6. ASSUME NEW i \in 1 .. n PROVE piece[i] = s[i]
  <2>1. 1 + i - 1 = i /\ i \in 1 .. n - 1 + 1
    BY <1>5
  <2>2. QED BY <1>2, <1>4, <2>1
<1>7. piece = s
  BY <1>4, <1>5, <1>6, SeqEqual
<1>8. QED BY <1>2, <1>7 DEF piece, t

(* A call of the server that returns leaves the snapshots sent, or adds    *)
(* the one it was for.                                                     *)
LEMMA SentOrOneMore ==
  ASSUME IInv, StatesUnderWay, PushFails \/ (\E n \in Pushed(Call.bytes) : ServerPush(n))
  PROVE  /\ got' = got
         /\ \/ sent' = sent
            \/ sent' = Append(sent, showing) /\ showing \in Views
<1>1. /\ got' = got /\ srv \in {"colour", "send"}
      /\ \/ CallReturns(TRUE) \/ CallReturns(failed)
         \/ sent' = sent
  BY DEF PushFails, ServerPush
<1>2. sent' = sent \/ (sent' = Append(sent, showing) /\ srv # "colour")
  BY <1>1 DEF CallReturns
<1>3. srv = "send" => showing \in Views
  BY DEF StatesUnderWay, StateGoesOut
<1>4. QED BY <1>1, <1>2, <1>3

(* The other steps do not touch the snapshots sent and received.           *)
LEMMA StatesAreKept ==
  ASSUME Next, ~RecvState, ~PushFails,
         ~(sends # <<>> /\ \E n \in Pushed(Call.bytes) : ServerPush(n))
  PROVE  sent' = sent /\ got' = got
<1>1. CASE \E ok \in BOOLEAN : CreateSocket(ok)
  BY <1>1 DEF CreateSocket, history
<1>2. CASE ClientSends
  BY <1>2 DEF ClientSends, SendNameFails, SendMoveFails, ClientPush, SendMove, ConnectFails,
              ClientEnds, history
<1>3. CASE ClientReceives
  BY <1>3 DEF ClientReceives, RecvColour, RecvColourFails, RecvStateFails, Leave,
              ConnectFails, ClientEnds, history
<1>4. CASE ClientCrash
  BY <1>4 DEF ClientCrash, ClientEnds, history
<1>5. CASE ServerStep
  BY <1>5 DEF ServerStep, RecvName, Refused, RecvMove, RecvMoveFails, RecvTimeout, SendState,
              EndFrame, history
<1>6. CASE CloseWindow
  BY <1>6 DEF CloseWindow, history
<1>7. QED BY <1>1, <1>2, <1>3, <1>4, <1>5, <1>6 DEF Next

(* The client accepts the snapshots the server has sent to the end, in     *)
(* order, unaltered and none twice, and nothing else: they are what a      *)
(* channel delivers of the snapshots sent.                                 *)
THEOREM StatesArriveInOrder == Spec => StatesDelivered
<1>1. Init => StatesDown!ChannelInit
  BY DEF Init, StatesDown!ChannelInit
<1>2. IInv /\ StatesUnderWay /\ [Next]_vars
        => [StatesDown!Send \/ StatesDown!Deliver]_(StatesDown!channelVars)
  <2> SUFFICES ASSUME IInv, StatesUnderWay, [Next]_vars
               PROVE  [StatesDown!Send \/ StatesDown!Deliver]_(StatesDown!channelVars)
    OBVIOUS
  <2>1. CASE sent' = sent /\ got' = got
    BY <2>1 DEF StatesDown!channelVars
  <2>2. CASE PushFails \/ (sends # <<>> /\ \E n \in Pushed(Call.bytes) : ServerPush(n))
    <3>1. /\ got' = got
          /\ \/ sent' = sent
             \/ sent' = Append(sent, showing) /\ showing \in Views
      BY <2>2, SentOrOneMore
    <3>2. ASSUME sent' = Append(sent, showing), showing \in Views
          PROVE  StatesDown!Send
      <4>1. sent \in Seq(Views)
        BY DEF StatesUnderWay, StatesSent
      <4>2. Len(sent') = Len(sent) + 1 /\ SubSeq(sent', 1, Len(sent)) = sent
        BY <3>2, <4>1, BeginningStays
      <4>3. QED BY <3>1, <4>2 DEF StatesDown!Send
    <3>3. QED BY <2>1, <3>1, <3>2
  <2>3. CASE RecvState
    <3>1. sent' = sent
      BY <2>3 DEF RecvState
    <3>2. \/ got' = got
          \/ Len(got) < Len(sent) /\ got' = Append(got, sent[Len(got) + 1])
      BY <2>3, StateTaken
    <3>3. QED BY <2>1, <3>1, <3>2 DEF StatesDown!Deliver
  <2>4. CASE UNCHANGED vars
    BY <2>1, <2>4 DEF vars, history
  <2>5. QED BY <2>1, <2>2, <2>3, <2>4, StatesAreKept
<1>3. QED BY <1>1, <1>2, StatesInductive, PTL
          DEF Spec, StatesDelivered, StatesDown!ChannelSpec

(* The length announced for a packet is the length its parts have, so that *)
(* the client reads every packet to its end and refuses none but one that  *)
(* announces more than it takes.                                           *)
THEOREM OnlyTooLong == Spec => OnlyTooLongRefused
<1>1. IInv /\ StatesUnderWay /\ [Next]_vars
        => [cl # "malformed" /\ cl' = "malformed" => Announced > MaxPacket]_vars
  <2> SUFFICES ASSUME IInv, StatesUnderWay, [Next]_vars,
                      cl # "malformed", cl' = "malformed"
               PROVE  Announced > MaxPacket
    OBVIOUS
  <2>1. CASE RecvState
    BY <2>1, StateTaken
  <2>2. CASE RecvColour
    <3>1. Announced = 3
      BY <2>2, ColourReads DEF RecvColour
    <3>2. QED BY <2>2, <3>1 DEF RecvColour
  <2>3. CASE UNCHANGED vars
    BY <2>3 DEF vars, clientVars
  <2>4. CASE Next /\ ~RecvState /\ ~RecvColour
    <3>1. CASE \E ok \in BOOLEAN : CreateSocket(ok)
      BY <3>1 DEF CreateSocket
    <3>2. CASE ClientSends \/ ClientReceives \/ ClientCrash
      BY <2>4, <3>2 DEF ClientSends, ClientReceives, ClientCrash, SendNameFails, SendMoveFails,
            ClientPush, SendMove, RecvColourFails, RecvStateFails, Leave, ConnectFails, ClientEnds
    <3>3. CASE ServerStep \/ CloseWindow
      BY <3>3 DEF ServerStep, RecvName, Refused, PushFails, RecvMove, RecvMoveFails, RecvTimeout,
            SendState, ServerPush, EndFrame, CloseWindow, clientVars
    <3>4. QED BY <2>4, <3>1, <3>2, <3>3 DEF Next
  <2>5. QED BY <2>1, <2>2, <2>3, <2>4
<1>2. QED BY <1>1, StatesInductive, PTL DEF Spec, OnlyTooLongRefused

=============================================================================
