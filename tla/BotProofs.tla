----------------------------- MODULE BotProofs -----------------------------
(***************************************************************************)
(* Proofs about Bot: the draws are fair and never leave a way out aside,   *)
(* and a choice that was right for the state that was sent is still right  *)
(* when the server moves.                                                  *)
(***************************************************************************)
EXTENDS Bot, GameProofs

-----------------------------------------------------------------------------
(* The inductive invariant.                                                *)

(* BotTypeOK apart from the types of Game, and the types it leaves out. *)
BotTyped ==
  /\ stage \in {"lobby", "send", "head", "over"}
  /\ unsent \subseteq Active \ late
  /\ late \subseteq Slot
  /\ doing \in [Slot -> {"wait", "draw", "decided", "gaveUp"}]
  /\ attempts \in [Slot -> 0 .. MaxAttempts]
  /\ damped \in [Slot -> BOOLEAN]
  /\ direction \in [Slot -> -1 .. 3]
  /\ inertia \in [Slot -> Nat]
  /\ shown \in [Slot -> [Cell -> Slot]]

(* Between the frames nobody is to be shown anything and nobody draws. *)
Stages ==
  /\ stage # "send" => unsent = {} /\ \A id \in Slot : doing[id] # "draw"
  /\ stage = "lobby" => \A id \in Slot : doing[id] = "wait"

(* Every player's inertia is one main() may have drawn. *)
InertiasDrawn == \A id \in Active : inertia[id] \in Inertias

(* Who has been shown the frame is in the game and answers in time, and    *)
(* what was free in the state it saw is still free.                        *)
ShownStaysFree ==
  stage = "send" =>
    \A id \in Slot : doing[id] # "wait" =>
      /\ id \in Active \ late
      /\ \A c \in Cell : shown[id][c] = 0 => grid[c] = 0

(* A choice is a direction that leads to a free cell of that state. *)
ChoiceLegal ==
  stage = "send" =>
    \A id \in Slot : doing[id] = "decided" =>
      /\ direction[id] \in 0 .. 3
      /\ IsValidMove(shown[id], Position(id), DirectionFromValue(direction[id]))

BotInv ==
  IInv /\ BotTyped /\ Stages /\ InertiasDrawn /\ ShownStaysFree /\ ChoiceLegal

-----------------------------------------------------------------------------
(* rand_int_inclusive.                                                     *)

(* Two different multiples of b are at least b apart. *)
LEMMA Multiples ==
  ASSUME NEW b \in Nat \ {0}, NEW i \in Int, NEW j \in Int, b * i < b * j
  PROVE  b * i + b <= b * j
<1>1. i < j
  <2>1. ASSUME j <= i PROVE b * j <= b * i
    <3>1. b * (i - j) >= 0
      BY <2>1
    <3>2. b * (i - j) = b * i - b * j
      OBVIOUS
    <3>3. QED BY <3>1, <3>2
  <2>2. QED BY <2>1
<1>2. b * (j - i - 1) >= 0
  BY <1>1
<1>3. b * (j - i - 1) = b * j - b * i - b
  OBVIOUS
<1>4. QED BY <1>2, <1>3

(* Division with remainder. *)
LEMMA ModFacts ==
  ASSUME NEW a \in Int, NEW b \in Nat \ {0}
  PROVE  /\ a % b \in 0 .. b - 1
         /\ a \div b \in Int
         /\ a = b * (a \div b) + (a % b)
OBVIOUS

(* The remainder is the only one. *)
LEMMA ModUnique ==
  ASSUME NEW a \in Int, NEW b \in Nat \ {0}, NEW q \in Int, NEW r \in 0 .. b - 1,
         a = b * q + r
  PROVE  a % b = r
<1> DEFINE d == a \div b
           m == a % b
<1>1. d \in Int /\ m \in 0 .. b - 1 /\ a = b * d + m
  BY ModFacts
<1> HIDE DEF d, m
<1>2. ~(b * d < b * q)
  BY <1>1, Multiples
<1>3. ~(b * q < b * d)
  BY <1>1, Multiples
<1>4. b * d \in Int /\ b * q \in Int
  BY <1>1
<1>5. m = r
  BY <1>1, <1>2, <1>3, <1>4
<1>6. QED BY <1>5 DEF m

(* The numbers below W that are not rejected fall evenly into the classes  *)
(* modulo b: the class of 0, shifted, is the class of k.                   *)
LEMMA EqualShares ==
  ASSUME NEW W \in Nat, NEW b \in Nat \ {0}, b <= W, NEW k \in 0 .. b - 1
  PROVE  Cardinality({r \in (W - b) % b .. W - 1 : r % b = k})
         = Cardinality({r \in (W - b) % b .. W - 1 : r % b = 0})
<1> DEFINE t == (W - b) % b
           S(n) == {r \in t .. W - 1 : r % b = n}
           q == ((W - b) \div b) + 1
           Q == b * q
           s == IF t > 0 /\ k >= t THEN k - b ELSE k
<1>1. t \in 0 .. b - 1 /\ q \in Int /\ Q \in Int /\ W = Q + t
  <2> DEFINE d == (W - b) \div b
  <2>1. W - b \in Int
    OBVIOUS
  <2>2. t \in 0 .. b - 1 /\ d \in Int /\ W - b = b * d + t
    BY <2>1, ModFacts
  <2> HIDE DEF d, t
  <2>3. b * (d + 1) = b * d + b
    BY <2>2
  <2>4. QED BY <2>2, <2>3 DEF d
<1> HIDE DEF t
<1>2. ASSUME NEW n \in 0 .. b - 1, NEW r \in S(n)
      PROVE  r \in Int /\ r >= t /\ r < W /\ \E i \in Int : r = b * i + n
  <2>1. r \in Int /\ r >= t /\ r < W /\ r % b = n
    BY <1>1, <1>2
  <2>2. r \div b \in Int /\ r = b * (r \div b) + n
    BY <2>1, ModFacts
  <2>3. QED BY <2>1, <2>2
<1>3. ASSUME NEW n \in 0 .. b - 1, NEW i \in Int, NEW r \in Int, r = b * i + n,
             r >= t, r < W
      PROVE  r \in S(n)
  <2>1. r % b = n
    BY <1>3, ModUnique
  <2>2. QED BY <1>1, <1>3, <2>1
<1>4. 0 \in 0 .. b - 1
  OBVIOUS
<1> HIDE DEF S, q
<1>5. ASSUME NEW r \in S(0)
      PROVE  r + s \in S(k)
  <2>1. PICK i \in Int : r = b * i
    <3>1. PICK i \in Int : r = b * i + 0
      BY <1>2, <1>4
    <3>2. r = b * i
      BY <3>1
    <3>3. QED BY <3>2
  <2>2. r \in Int /\ r >= t /\ r < W
    BY <1>2, <1>4
  <2>3. /\ b * i < Q => b * i + b <= Q
        /\ Q < b * i => Q + b <= b * i
        /\ b * 0 < b * i => b * 0 + b <= b * i
    BY <1>1, Multiples
  <2>4. b * 0 = 0 /\ b * i \in Int
    OBVIOUS
  <2>5. CASE t > 0 /\ k >= t
    <3>1. b * (i - 1) = b * i - b /\ i - 1 \in Int
      OBVIOUS
    <3>2. s = k - b
      BY <2>5
    <3> HIDE DEF Q, s
    <3>3. r + s = b * (i - 1) + k /\ r + s >= t /\ r + s < W /\ r + s \in Int
      BY <1>1, <2>1, <2>2, <2>3, <2>4, <2>5, <3>1, <3>2
    <3>4. QED BY <1>3, <3>1, <3>3
  <2>6. CASE ~(t > 0 /\ k >= t)
    <3>2. s = k
      BY <2>6
    <3> HIDE DEF Q, s
    <3>3. r + s = b * i + k /\ r + s >= t /\ r + s < W /\ r + s \in Int
      BY <1>1, <2>1, <2>2, <2>3, <2>4, <2>6, <3>2
    <3>4. QED BY <1>3, <3>3
  <2>7. QED BY <2>5, <2>6
<1>6. ASSUME NEW x \in S(k)
      PROVE  x - s \in S(0)
  <2>1. PICK i \in Int : x = b * i + k
    BY <1>2
  <2>2. x \in Int /\ x >= t /\ x < W
    BY <1>2
  <2>3. /\ b * i < Q => b * i + b <= Q
        /\ b * i < b * 0 => b * i + b <= b * 0
        /\ b * 0 < b * i => b * 0 + b <= b * i
    BY <1>1, Multiples
  <2>4. b * 0 = 0 /\ b * i \in Int
    OBVIOUS
  <2>5. CASE t > 0 /\ k >= t
    <3>1. b * (i + 1) = b * i + b /\ i + 1 \in Int
      OBVIOUS
    <3>2. s = k - b
      BY <2>5
    <3> HIDE DEF Q, s
    <3>3. x - s = b * (i + 1) + 0 /\ x - s >= t /\ x - s < W /\ x - s \in Int
      BY <1>1, <2>1, <2>2, <2>3, <2>4, <2>5, <3>1, <3>2
    <3>4. QED BY <1>3, <1>4, <3>1, <3>3
  <2>6. CASE ~(t > 0 /\ k >= t)
    <3>2. s = k
      BY <2>6
    <3> HIDE DEF Q, s
    <3>3. x - s = b * i + 0 /\ x - s >= t /\ x - s < W /\ x - s \in Int
      BY <1>1, <2>1, <2>2, <2>3, <2>4, <2>6, <3>2
    <3>4. QED BY <1>3, <1>4, <3>3
  <2>7. QED BY <2>5, <2>6
<1>7. s \in Int /\ S(0) \subseteq Int /\ S(k) \subseteq Int /\ IsFiniteSet(S(0))
  <2>1. IsFiniteSet(t .. W - 1)
    BY <1>1, FS_Interval
  <2>2. S(0) \subseteq t .. W - 1
    BY DEF S
  <2>3. s \in Int
    BY <1>1
  <2>4. S(0) \subseteq Int /\ S(k) \subseteq Int
    BY <1>1 DEF S
  <2>5. IsFiniteSet(S(0))
    BY <2>1, <2>2, FS_Subset
  <2>6. QED BY <2>3, <2>4, <2>5
<1> HIDE DEF s, Q
<1> DEFINE f == [r \in S(0) |-> r + s]
<1>8. f \in Bijection(S(0), S(k))
  <2>1. f \in [S(0) -> S(k)]
    BY <1>5
  <2>2. \A r, x \in S(0) : f[r] = f[x] => r = x
    BY <1>7
  <2>3. \A x \in S(k) : x - s \in S(0) /\ f[x - s] = x
    BY <1>6, <1>7
  <2> HIDE DEF f
  <2>4. f \in Injection(S(0), S(k))
    BY <2>1, <2>2 DEF Injection, IsInjective
  <2>5. f \in Surjection(S(0), S(k))
    BY <2>1, <2>3 DEF Surjection
  <2>6. QED BY <2>4, <2>5 DEF Bijection
<1>9. Cardinality(S(k)) = Cardinality(S(0))
  BY <1>7, <1>8, FS_Bijection DEF ExistsBijection
<1>10. QED BY <1>9 DEF S, t

(* Each of the b results of rand_int_inclusive can be drawn.               *)
LEMMA EachShareThere ==
  ASSUME NEW W \in Nat, NEW b \in Nat \ {0}, b <= W, NEW k \in 0 .. b - 1
  PROVE  \E r \in (W - b) % b .. W - 1 : r % b = k
<1> DEFINE t == (W - b) % b
           d == (W - b) \div b
<1>1. t \in 0 .. b - 1 /\ t <= W - b
  <2>1. W - b \in Int /\ W - b >= 0
    OBVIOUS
  <2>2. t \in 0 .. b - 1 /\ d \in Int /\ W - b = b * d + t
    BY <2>1, ModFacts
  <2> HIDE DEF d, t
  <2>3. b * d < b * 0 => b * d + b <= b * 0
    BY <2>2, Multiples
  <2>4. b * d \in Int /\ b * 0 = 0
    BY <2>2
  <2>5. QED BY <2>1, <2>2, <2>3, <2>4
<1> HIDE DEF t, d
<1>2. CASE k >= t
  <2>1. k \in t .. W - 1 /\ k \in Int /\ k = b * 0 + k
    BY <1>1, <1>2
  <2>2. k % b = k
    BY <2>1, ModUnique
  <2>3. QED BY <2>1, <2>2 DEF t
<1>3. CASE k < t
  <2>1. k + b \in t .. W - 1 /\ k + b \in Int /\ k + b = b * 1 + k
    BY <1>1, <1>3
  <2>2. (k + b) % b = k
    BY <2>1, ModUnique
  <2>3. QED BY <2>1, <2>2 DEF t
<1>4. QED BY <1>1, <1>2, <1>3

(* What a bot in the game draws from: at least the four directions, and no *)
(* more than there are numbers.                                            *)
LEMMA UpperFacts ==
  ASSUME BotInv, NEW id \in Active
  PROVE  /\ Upper(id) \in Nat /\ Upper(id) >= 3
         /\ Upper(id) + 1 \in Nat \ {0} /\ Upper(id) + 1 <= WordSize
         /\ WordSize \in Nat
<1>1. inertia[id] \in Inertias
  BY DEF BotInv, InertiasDrawn
<1>2. inertia[id] \in Nat /\ inertia[id] + 4 <= WordSize /\ WordSize \in Nat
  BY <1>1, BotAssumption
<1>3. QED BY <1>2 DEF Upper

(* The four directions are those of the values 0 to 3.                     *)
LEMMA ValueOfDirection ==
  ASSUME NEW dir \in Direction
  PROVE  \E k \in 0 .. 3 : DirectionFromValue(k) = dir
<1>1. DirectionFromValue(0) = "north"
  BY DEF DirectionFromValue
<1>2. DirectionFromValue(1) = "east"
  BY DEF DirectionFromValue
<1>3. DirectionFromValue(2) = "south"
  BY DEF DirectionFromValue
<1>4. DirectionFromValue(3) = "west"
  BY DEF DirectionFromValue
<1>5. QED BY <1>1, <1>2, <1>3, <1>4 DEF Direction

-----------------------------------------------------------------------------
(* The steps.                                                              *)

(* Nothing of the game changes. *)
LEMMA GameRests ==
  ASSUME BotInv, UNCHANGED gameVars
  PROVE  /\ IInv' /\ players' = players /\ grid' = grid /\ Active' = Active
         /\ \A id : Position(id)' = Position(id)
<1>1. players' = players /\ grid' = grid
  BY DEF gameVars
<1>2. IInv'
  BY NextStep DEF BotInv
<1>3. Active' = Active
  BY <1>1 DEF Active
<1>4. \A id : Position(id)' = Position(id)
  BY <1>1 DEF Position
<1>5. QED BY <1>1, <1>2, <1>3, <1>4

(* A removal frees cells and moves nobody. *)
LEMMA GameLoses ==
  ASSUME BotInv, NEW id \in Slot, RemovePlayer(id)
  PROVE  /\ IInv' /\ Active' = Active \ {id}
         /\ \A c \in Cell : grid[c] = 0 => grid'[c] = 0
         /\ \A k \in Active' : Position(k)' = Position(k)
<1>1. IInv'
  BY RemovePlayerStep DEF BotInv
<1>2. players' = MapDelete(players, id)
  BY DEF RemovePlayer
<1>3. Active' = Active \ {id} /\ \A k \in Active \ {id} : players'.entries[k] = players.entries[k]
  <2>1. CASE id \in Active
    BY <1>2, <2>1 DEF MapDelete, Active, Occupied
  <2>2. CASE id \notin Active
    BY <1>2, <2>2 DEF MapDelete, Active, Occupied
  <2>3. QED BY <2>1, <2>2
<1>4. \A c \in Cell : grid[c] = 0 => grid'[c] = 0
  BY DEF RemovePlayer, Cleared
<1>5. QED BY <1>1, <1>3, <1>4 DEF Position

(* Decisions are made on the state that was sent. *)
LEMMA DecideStep ==
  ASSUME BotInv, NEW id \in Slot, Decide(id)
  PROVE  BotInv'
<1>1. /\ doing[id] = "draw" /\ UNCHANGED gameVars
      /\ UNCHANGED <<stage, unsent, late, inertia, shown>>
  BY DEF Decide, GiveUp, Draw
<1>2. /\ IInv' /\ players' = players /\ grid' = grid /\ Active' = Active
      /\ \A k : Position(k)' = Position(k)
  BY <1>1, GameRests
<1>3. /\ BotTyped /\ Stages /\ InertiasDrawn /\ ShownStaysFree /\ ChoiceLegal
  BY DEF BotInv
<1>4. stage = "send" /\ id \in Active
  BY <1>1, <1>3 DEF Stages, ShownStaysFree, BotTyped
<1>5. MaxAttempts \in Nat
  BY BotAssumption
<1>6. InertiasDrawn'
  BY <1>1, <1>2, <1>3 DEF InertiasDrawn
<1>7. CASE GiveUp(id)
  <2>1. /\ doing' = [doing EXCEPT ![id] = "gaveUp"]
        /\ direction' = [direction EXCEPT ![id] = 0]
        /\ attempts' = [attempts EXCEPT ![id] = 0]
        /\ damped' = [damped EXCEPT ![id] = FALSE]
    BY <1>7 DEF GiveUp, Choose
  <2>2. BotTyped'
    BY <1>1, <1>2, <1>3, <1>5, <2>1 DEF BotTyped
  <2>3. Stages'
    BY <1>1, <1>3, <1>4, <2>1 DEF Stages
  <2>4. ShownStaysFree' /\ ChoiceLegal'
    BY <1>1, <1>2, <1>3, <2>1 DEF ShownStaysFree, ChoiceLegal, BotTyped
  <2>5. QED BY <1>2, <1>6, <2>2, <2>3, <2>4 DEF BotInv
<1>8. ASSUME NEW r \in Accepted(Upper(id) + 1), Draw(id, r)
      PROVE  BotInv'
  <2> DEFINE v == Proposal(id, r)
  <2>1. v \in Int /\ v % 4 \in 0 .. 3 /\ (v % 4) % 4 = v % 4
    <3>1. r \in Int
      <4>1. Upper(id) + 1 \in Nat \ {0} /\ WordSize - (Upper(id) + 1) \in Int
        BY <1>4, UpperFacts
      <4>2. Threshold(Upper(id) + 1) \in Int
        BY <4>1, ModFacts DEF Threshold
      <4>3. QED BY <1>8, <4>2, BotAssumption DEF Accepted
    <3>2. r % (Upper(id) + 1) \in Int
      BY <1>4, <3>1, UpperFacts, ModFacts
    <3>3. direction[id] \in Int
      <4>1. direction \in [Slot -> -1 .. 3]
        BY <1>3 DEF BotTyped
      <4>2. direction[id] \in -1 .. 3
        BY <4>1
      <4>3. QED BY <4>2
    <3>4. v \in Int
      BY <3>2, <3>3 DEF Proposal
    <3> HIDE DEF v
    <3>5. QED BY <3>4
  <2>2. CASE IsValidMove(shown[id], Position(id), DirectionFromValue(v))
    <3>1. /\ doing' = [doing EXCEPT ![id] = "decided"]
          /\ direction' = [direction EXCEPT ![id] = v % 4]
          /\ attempts' = [attempts EXCEPT ![id] = 0]
          /\ damped' = [damped EXCEPT ![id] = FALSE]
      BY <1>8, <2>2 DEF Draw, Choose
    <3>2. DirectionFromValue(v % 4) = DirectionFromValue(v)
      BY <2>1 DEF DirectionFromValue
    <3> HIDE DEF v
    <3>3. BotTyped'
      BY <1>1, <1>2, <1>3, <1>5, <2>1, <3>1 DEF BotTyped
    <3>4. Stages'
      BY <1>1, <1>3, <1>4, <3>1 DEF Stages
    <3>5. ShownStaysFree'
      BY <1>1, <1>2, <1>3, <3>1 DEF ShownStaysFree, BotTyped
    <3>6. ChoiceLegal'
      BY <1>1, <1>2, <1>3, <2>1, <2>2, <3>1, <3>2 DEF ChoiceLegal, BotTyped
    <3>7. QED BY <1>2, <1>6, <3>3, <3>4, <3>5, <3>6 DEF BotInv
  <2>3. CASE ~IsValidMove(shown[id], Position(id), DirectionFromValue(v))
    <3>1. /\ attempts[id] < MaxAttempts /\ UNCHANGED <<doing, direction>>
          /\ attempts' = [attempts EXCEPT ![id] = attempts[id] + 1]
          /\ damped' = [damped EXCEPT ![id] = damped[id] \/ r % (Upper(id) + 1) >= 4]
      BY <1>8, <2>3 DEF Draw
    <3>2. attempts' \in [Slot -> 0 .. MaxAttempts] /\ damped' \in [Slot -> BOOLEAN]
      BY <1>3, <1>5, <3>1 DEF BotTyped
    <3>3. BotTyped' /\ Stages'
      BY <1>1, <1>2, <1>3, <3>1, <3>2 DEF BotTyped, Stages
    <3>4. ShownStaysFree' /\ ChoiceLegal'
      BY <1>1, <1>2, <1>3, <3>1 DEF ShownStaysFree, ChoiceLegal
    <3>5. QED BY <1>2, <1>6, <3>3, <3>4 DEF BotInv
  <2>4. QED BY <2>2, <2>3
<1>9. QED BY <1>7, <1>8 DEF Decide

(* A player joins in the lobby, where nobody has been shown anything.      *)
LEMMA JoinStep ==
  ASSUME BotInv, NEW pos \in Cell, Join(pos)
  PROVE  BotInv'
<1>1. /\ stage = "lobby" /\ idCounter \in Slot /\ AddPlayer(pos)
      /\ UNCHANGED <<stage, unsent, doing, attempts, damped, direction, shown>>
      /\ late' = late \/ late' = late \cup {idCounter}
  BY DEF Join
<1>2. PICK n \in Inertias : inertia' = [inertia EXCEPT ![idCounter] = n]
  BY DEF Join
<1>3. /\ BotTyped /\ Stages /\ InertiasDrawn /\ IInv
  BY DEF BotInv
<1>4. n \in Nat
  BY <1>2, BotAssumption
<1>5. IInv'
  BY <1>1, <1>3, AddPlayerStep
<1>6. Active' = Active \cup {idCounter}
  BY <1>1 DEF AddPlayer, MapInsert, Active, Occupied
<1>7. unsent = {} /\ \A id \in Slot : doing[id] = "wait"
  BY <1>1, <1>3 DEF Stages
<1>8. BotTyped'
  BY <1>1, <1>2, <1>3, <1>4, <1>7 DEF BotTyped
<1>9. InertiasDrawn'
  BY <1>1, <1>2, <1>3, <1>6 DEF InertiasDrawn, BotTyped
<1>10. Stages' /\ ShownStaysFree' /\ ChoiceLegal'
  BY <1>1, <1>7 DEF Stages, ShownStaysFree, ChoiceLegal
<1>11. QED BY <1>5, <1>8, <1>9, <1>10 DEF BotInv

(* A frame begins, or the loop ends, with nobody drawing.                  *)
LEMMA FrameStarts ==
  ASSUME BotInv, NEW f \in 0 .. MaxFrame, stage # "send", StartFrame(f),
         UNCHANGED <<late, direction, inertia, shown>>,
         doing' \in [Slot -> {"wait"}], attempts' \in [Slot -> 0 .. MaxAttempts],
         damped' \in [Slot -> BOOLEAN]
  PROVE  BotInv'
<1>1. BotTyped /\ Stages /\ InertiasDrawn /\ IInv
  BY DEF BotInv
<1>2. /\ IInv' /\ players' = players /\ Active' = Active
      /\ stage' \in {"send", "over"} /\ unsent' \subseteq Active \ late
      /\ stage' # "send" => unsent' = {}
  <2>1. CASE GameIsOver
    BY <1>1, <2>1, GameRests DEF StartFrame, BotTyped, Stages
  <2>2. CASE ~GameIsOver
    <3>1. stage' = "send" /\ unsent' = Active \ late /\ SetFrame(f)
      BY <2>2 DEF StartFrame
    <3>2. Next
      BY <3>1 DEF Next
    <3>3. players' = players
      BY <3>1 DEF SetFrame
    <3>4. QED BY <1>1, <3>1, <3>2, <3>3, NextStep DEF Active
  <2>3. QED BY <2>1, <2>2
<1>3. \A id \in Slot : doing'[id] = "wait"
  OBVIOUS
<1>4. BotTyped'
  BY <1>1, <1>2 DEF BotTyped
<1>5. InertiasDrawn'
  BY <1>1, <1>2 DEF InertiasDrawn
<1>6. Stages' /\ ShownStaysFree' /\ ChoiceLegal'
  BY <1>2, <1>3 DEF Stages, ShownStaysFree, ChoiceLegal
<1>7. QED BY <1>2, <1>4, <1>5, <1>6 DEF BotInv

(* The loop of server_run goes round. *)
LEMMA StartStep ==
  ASSUME BotInv, Start \/ NextFrame
  PROVE  BotInv'
<1>1. BotTyped /\ Stages /\ IInv
  BY DEF BotInv
<1>2. MaxAttempts \in Nat /\ MaxFrame \in Nat /\ frame \in 0 .. MaxFrame
  BY <1>1, BotAssumption, GameAssumption DEF IInv, TypeOK
<1>3. CASE Start
  <2>1. /\ stage = "lobby" /\ StartFrame(0)
        /\ UNCHANGED <<late, doing, attempts, damped, direction, inertia, shown>>
    BY <1>3 DEF Start, botVars
  <2>2. doing' \in [Slot -> {"wait"}]
    BY <1>1, <2>1 DEF Stages, BotTyped
  <2>3. 0 \in 0 .. MaxFrame
    BY <1>2
  <2>4. QED BY <1>1, <2>1, <2>2, <2>3, FrameStarts DEF BotTyped
<1>4. CASE NextFrame
  <2>1. /\ stage = "head" /\ StartFrame(frame + 1) /\ (frame < MaxFrame \/ GameIsOver)
        /\ UNCHANGED <<late, direction, inertia, shown>>
        /\ doing' \in [Slot -> {"wait"}] /\ attempts' \in [Slot -> 0 .. MaxAttempts]
        /\ damped' \in [Slot -> BOOLEAN]
    BY <1>2, <1>4 DEF NextFrame
  <2>2. CASE frame < MaxFrame
    <3>1. frame + 1 \in 0 .. MaxFrame
      BY <1>2, <2>2
    <3>2. QED BY <2>1, <3>1, FrameStarts
  <2>3. CASE GameIsOver
    <3>1. StartFrame(0)
      BY <2>1, <2>3 DEF StartFrame
    <3>2. 0 \in 0 .. MaxFrame
      BY <1>2
    <3>3. QED BY <2>1, <3>1, <3>2, FrameStarts
  <2>4. QED BY <2>1, <2>2, <2>3
<1>5. QED BY <1>3, <1>4

(* A state is sent to a bot: its view is the grid of this instant.         *)
LEMMA SendStateStep ==
  ASSUME BotInv, SendState
  PROVE  BotInv'
<1> DEFINE id == Min(unsent)
<1>1. /\ stage = "send" /\ unsent # {} /\ UNCHANGED gameVars
      /\ shown' = [shown EXCEPT ![id] = grid]
      /\ doing' = [doing EXCEPT ![id] = "draw"]
      /\ unsent' = unsent \ {id}
      /\ UNCHANGED <<stage, late, attempts, damped, direction, inertia>>
  BY DEF SendState
<1>2. /\ IInv' /\ players' = players /\ grid' = grid /\ Active' = Active
      /\ \A k : Position(k)' = Position(k)
  BY <1>1, GameRests
<1>3. /\ BotTyped /\ Stages /\ InertiasDrawn /\ ShownStaysFree /\ ChoiceLegal
      /\ Active \subseteq Slot /\ grid \in [Cell -> Slot]
  BY DEF BotInv, IInv, TypeOK
<1>4. id \in unsent /\ id \in Slot /\ id \in Active \ late
  <2>1. unsent \subseteq Active \ late /\ unsent \subseteq Slot
    BY <1>3 DEF BotTyped
  <2>2. \A k \in unsent : k \in Nat
    BY <2>1, MaxPlayersAssumption DEF Slot
  <2>3. id \in unsent
    BY <1>1, <2>1, MinOfSlots
  <2>4. QED BY <2>1, <2>3
<1> HIDE DEF id
<1>5. BotTyped'
  BY <1>1, <1>2, <1>3 DEF BotTyped
<1>6. Stages' /\ InertiasDrawn'
  BY <1>1, <1>2, <1>3 DEF Stages, InertiasDrawn
<1>7. ShownStaysFree' /\ ChoiceLegal'
  BY <1>1, <1>2, <1>3, <1>4 DEF ShownStaysFree, ChoiceLegal, BotTyped
<1>8. QED BY <1>2, <1>5, <1>6, <1>7 DEF BotInv

(* A client is dropped: that frees cells and takes no choice away.         *)
LEMMA DropStep ==
  ASSUME BotInv, NEW id \in Slot, Drop(id)
  PROVE  BotInv'
<1>1. /\ stage = "send" /\ RemovePlayer(id)
      /\ unsent' = unsent \ {id} /\ late' = late \ {id}
      /\ doing' = [doing EXCEPT ![id] = "wait"]
      /\ direction' = [direction EXCEPT ![id] = direction[id]]
      /\ attempts' = [attempts EXCEPT ![id] = 0]
      /\ damped' = [damped EXCEPT ![id] = FALSE]
      /\ UNCHANGED <<stage, inertia, shown>>
  BY DEF Drop, Choose
<1>2. /\ IInv' /\ Active' = Active \ {id}
      /\ \A c \in Cell : grid[c] = 0 => grid'[c] = 0
      /\ \A k \in Active' : Position(k)' = Position(k)
  BY <1>1, GameLoses
<1>3. /\ BotTyped /\ Stages /\ InertiasDrawn /\ ShownStaysFree /\ ChoiceLegal
      /\ MaxAttempts \in Nat
  BY BotAssumption DEF BotInv
<1>4. direction' = direction
  BY <1>1, <1>3 DEF BotTyped
<1>5. BotTyped'
  <2>1. attempts' \in [Slot -> 0 .. MaxAttempts] /\ damped' \in [Slot -> BOOLEAN]
    BY <1>1, <1>3 DEF BotTyped
  <2>2. doing' \in [Slot -> {"wait", "draw", "decided", "gaveUp"}]
    BY <1>1, <1>3 DEF BotTyped
  <2>3. unsent' \subseteq Active' \ late' /\ late' \subseteq Slot
    BY <1>1, <1>2, <1>3 DEF BotTyped
  <2>4. QED BY <1>1, <1>3, <1>4, <2>1, <2>2, <2>3 DEF BotTyped
<1>6. Stages' /\ InertiasDrawn'
  BY <1>1, <1>2, <1>3 DEF Stages, InertiasDrawn
<1>7. \A k \in Slot : doing'[k] # "wait" => k # id /\ doing[k] = doing'[k]
  BY <1>1, <1>3 DEF BotTyped
<1>8. ShownStaysFree'
  BY <1>1, <1>2, <1>3, <1>7 DEF ShownStaysFree
<1>9. ChoiceLegal'
  <2>1. ASSUME NEW k \in Slot, doing'[k] = "decided"
        PROVE  /\ direction[k] \in 0 .. 3 /\ Position(k)' = Position(k)
               /\ IsValidMove(shown[k], Position(k), DirectionFromValue(direction[k]))
    <3>1. doing[k] = "decided" /\ k # id
      BY <1>7, <2>1
    <3>2. k \in Active'
      BY <1>1, <1>2, <1>3, <3>1 DEF ShownStaysFree
    <3>3. QED BY <1>1, <1>2, <1>3, <3>1, <3>2 DEF ChoiceLegal
  <2>2. QED BY <1>1, <1>4, <2>1 DEF ChoiceLegal
<1>10. QED BY <1>2, <1>5, <1>6, <1>8, <1>9 DEF BotInv

(* All move; who was still drawing is late from now on.                    *)
LEMMA MoveStep ==
  ASSUME BotInv, NEW dirs \in Answers, Move(dirs)
  PROVE  BotInv'
<1>1. /\ stage = "send" /\ unsent = {} /\ MovePlayers(dirs, {}) /\ stage' = "head"
      /\ late' = late \cup {id \in Active : doing[id] = "draw"}
      /\ doing' = [id \in Slot |-> IF doing[id] = "draw" THEN "wait" ELSE doing[id]]
      /\ UNCHANGED <<unsent, attempts, damped, direction, inertia, shown>>
  BY DEF Move
<1>2. BotTyped /\ InertiasDrawn /\ IInv /\ Active \subseteq Slot
  BY DEF BotInv, IInv, TypeOK
<1>3. dirs \in [Active -> Direction] /\ {} \in LostSets
  BY DEF Answers, LostSets
<1>4. IInv'
  BY <1>1, <1>2, <1>3, MovePlayersStep
<1>5. Active' \subseteq Active
  BY <1>1, AfterMove
<1>6. BotTyped'
  BY <1>1, <1>2 DEF BotTyped
<1>7. Stages' /\ InertiasDrawn' /\ ShownStaysFree' /\ ChoiceLegal'
  BY <1>1, <1>2, <1>5 DEF Stages, InertiasDrawn, ShownStaysFree, ChoiceLegal
<1>8. QED BY <1>4, <1>6, <1>7 DEF BotInv

(* Before anybody has joined, everybody waits. *)
LEMMA BotInitial ==
  ASSUME BotInit
  PROVE  BotInv
<1>1. IInv /\ Active = {}
  <2>1. players = [entries |-> <<>>, size |-> 0]
    BY DEF BotInit, Init, MapCreate
  <2>2. Active = {}
    BY <2>1 DEF Active, Occupied
  <2>3. QED BY <2>2, InitStep DEF BotInit
<1>2. MaxAttempts \in Nat /\ 0 \in Slot
  BY BotAssumption, MaxPlayersAssumption DEF Slot
<1>3. BotTyped
  BY <1>1, <1>2 DEF BotInit, BotTyped, NoGrid
<1>4. Stages /\ InertiasDrawn /\ ShownStaysFree /\ ChoiceLegal
  BY <1>1 DEF BotInit, Stages, InertiasDrawn, ShownStaysFree, ChoiceLegal
<1>5. QED BY <1>1, <1>3, <1>4 DEF BotInv

(* BotInv is preserved by every step. *)
LEMMA BotStep == BotInv /\ [BotNext]_vars => BotInv'
<1> SUFFICES ASSUME BotInv, [BotNext]_vars
             PROVE  BotInv'
  OBVIOUS
<1>1. ASSUME UNCHANGED vars
      PROVE  BotInv'
  <2>1. UNCHANGED <<players, grid, stage, unsent, late, doing, attempts, damped,
                    direction, inertia, shown>>
    BY <1>1 DEF vars, gameVars, botVars
  <2>2. IInv' /\ Active' = Active /\ \A k : Position(k)' = Position(k)
    BY <1>1, GameRests DEF vars
  <2>3. BotTyped' /\ Stages' /\ InertiasDrawn'
    BY <2>1, <2>2 DEF BotInv, BotTyped, Stages, InertiasDrawn
  <2>4. ShownStaysFree' /\ ChoiceLegal'
    BY <2>1, <2>2 DEF BotInv, ShownStaysFree, ChoiceLegal
  <2>5. QED BY <2>2, <2>3, <2>4 DEF BotInv
<1>2. QED BY <1>1, JoinStep, StartStep, SendStateStep, DropStep, DecideStep, MoveStep
             DEF BotNext

-----------------------------------------------------------------------------
(* The theorems.                                                           *)

(* The invariant holds of every state of the bots and the server.          *)
THEOREM BotInductive == BotSpec => []BotInv
BY BotInitial, BotStep, PTL DEF BotSpec

(* The variables of the loop and of the bots keep their types.             *)
THEOREM BotTypeCorrect == BotSpec => []BotTypeOK
<1>1. BotInv => BotTypeOK
  BY DEF BotInv, BotTyped, IInv, BotTypeOK
<1>2. QED BY <1>1, BotInductive, PTL

(* A bot that still has attempts can draw every way out: the inertia adds  *)
(* results for the previous direction and takes none away.                 *)
THEOREM EveryWayOutIsOffered == BotSpec => []WaysOutOffered
<1>1. ASSUME BotInv, NEW id \in Active, NEW dir \in Direction
      PROVE  \E r \in Accepted(Upper(id) + 1) : DirectionFromValue(Proposal(id, r)) = dir
  <2> DEFINE b == Upper(id) + 1
  <2>1. Upper(id) \in Nat /\ Upper(id) >= 3 /\ b \in Nat \ {0} /\ b <= WordSize
        /\ WordSize \in Nat
    BY <1>1, UpperFacts
  <2>2. PICK k \in 0 .. 3 : DirectionFromValue(k) = dir
    BY ValueOfDirection
  <2>3. k \in 0 .. b - 1
    BY <2>1
  <2>4. PICK r \in Accepted(b) : r % b = k
    <3> HIDE DEF b
    <3>1. QED BY <2>1, <2>3, EachShareThere DEF Accepted, Threshold
  <2>5. Proposal(id, r) = k
    BY <2>4 DEF Proposal
  <2>6. QED BY <2>2, <2>4, <2>5
<1>2. BotInv => WaysOutOffered
  BY <1>1 DEF WaysOutOffered
<1>3. QED BY <1>2, BotInductive, PTL

(* The rejection of rand_int_inclusive leaves no modulo bias, whatever the *)
(* inertia and however large the numbers of the generator.                 *)
THEOREM DrawsAreUnbiased == BotSpec => []Unbiased
<1>1. ASSUME BotInv, NEW id \in Active, NEW k \in 0 .. Upper(id)
      PROVE  Cardinality({r \in Accepted(Upper(id) + 1) : r % (Upper(id) + 1) = k})
             = Cardinality({r \in Accepted(Upper(id) + 1) : r % (Upper(id) + 1) = 0})
  <2> DEFINE b == Upper(id) + 1
  <2>1. Upper(id) \in Nat /\ b \in Nat \ {0} /\ b <= WordSize /\ WordSize \in Nat
    BY <1>1, UpperFacts
  <2>2. k \in 0 .. b - 1
    BY <2>1
  <2>3. Accepted(b) = (WordSize - b) % b .. WordSize - 1
    BY DEF Accepted, Threshold
  <2> HIDE DEF b
  <2>4. Cardinality({r \in Accepted(b) : r % b = k})
        = Cardinality({r \in Accepted(b) : r % b = 0})
    BY <2>1, <2>2, <2>3, EqualShares
  <2>5. QED BY <2>4 DEF b
<1>2. BotInv => Unbiased
  BY <1>1 DEF Unbiased
<1>3. QED BY <1>2, BotInductive, PTL

(* A bot that answered in time dies only where another player steps at the *)
(* same time.                                                              *)
THEOREM DeathsAreExplained == BotSpec => DeathsExplained
<1>1. ASSUME BotInv, BotNext, NEW id \in Active \ Active',
             stage = "send", stage' = "head", doing[id] = "decided"
      PROVE  \E other \in Active \ {id} :
               Step(Position(other), used'[other]) = Step(Position(id), used'[id])
  <2>1. PICK dirs \in Answers : Move(dirs)
    BY <1>1 DEF BotNext, Join, Start, SendState, NextFrame, Drop, Decide, GiveUp, Draw
  <2>2. MovePlayers(dirs, {}) /\ used' = dirs
    BY <2>1 DEF Move
  <2>3. id \in Colliding(Targets(dirs))
    BY <2>2, AfterMove
  <2>4. id \in Slot /\ id \notin late
    BY <1>1 DEF BotInv, IInv, TypeOK, ShownStaysFree
  <2>5. dirs[id] = DirectionFromValue(direction[id])
    BY <1>1, <2>1, <2>4 DEF Answers
  <2>6. /\ Step(Position(id), dirs[id]) \in Cell
        /\ grid[Step(Position(id), dirs[id])] = 0
    BY <1>1, <2>4, <2>5 DEF BotInv, ShownStaysFree, ChoiceLegal, IsValidMove
  <2>7. \A k \in Active : Targets(dirs)[k] = Step(Position(k), dirs[k])
    BY DEF Targets, Position
  <2>8. IsLegalMove(Targets(dirs)[id])
    BY <2>6, <2>7 DEF IsLegalMove
  <2>9. PICK other \in Active \ {id} : Targets(dirs)[other] = Targets(dirs)[id]
    BY <2>3, <2>8 DEF Colliding
  <2>10. QED BY <2>2, <2>7, <2>9
<1>2. BotInv /\ [BotNext]_vars =>
        [\A id \in Active \ Active' :
           stage = "send" /\ stage' = "head" /\ doing[id] = "decided" =>
             \E other \in Active \ {id} :
               Step(Position(other), used'[other]) = Step(Position(id), used'[id])]_vars
  BY <1>1
<1>3. QED BY <1>2, BotInductive, PTL DEF BotSpec, DeathsExplained
=============================================================================
