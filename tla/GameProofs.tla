----------------------------- MODULE GameProofs -----------------------------
(***************************************************************************)
(* Proofs about Game: for every size of the grid, of the player table and  *)
(* of the tail limit, the grid and the trails never disagree.              *)
(***************************************************************************)
EXTENDS Game, FiniteSetsExt, TLAPS, FiniteSetTheorems, SequenceTheorems

(* Ids start at 1 and are handed out in increasing order; a record knows   *)
(* the slot it is stored in, from which its colour follows.                *)
IdsFresh ==
  \A id \in Active :
    /\ id \in 1 .. idCounter - 1
    /\ players.entries[id].id = id
    /\ players.entries[id].colour = PaletteIndex(id)

(* The inductive invariant: a cell can be freed without asking who else is *)
(* on it because trails are simple and marked, and a fresh id marks        *)
(* nothing yet.                                                            *)
IInv == TypeOK /\ IdsFresh /\ GridMatchesTrails /\ TrailsSimple

-----------------------------------------------------------------------------
(* What the tail operators return.                                         *)

(* The tail with the left cell in front of it is a sequence of cells, each *)
(* of them a cell of the trail, and all different if the trail is simple.  *)
LEMMA GrownFacts ==
  ASSUME NEW p \in PlayerRecord, NEW lost
  PROVE  /\ Grown(p, lost) \in Seq(Cell)
         /\ \A i \in DOMAIN Grown(p, lost) : Grown(p, lost)[i] \in TrailCells(p)
         /\ p.id \notin lost => \A c \in TrailCells(p) :
                       \E i \in DOMAIN Grown(p, lost) : Grown(p, lost)[i] = c
         /\ SimpleTrail(p) =>
              \A i, j \in DOMAIN Grown(p, lost) :
                Grown(p, lost)[i] = Grown(p, lost)[j] => i = j
<1>1. p.position \in Cell /\ p.tail \in Seq(Cell) /\ Len(p.tail) \in Nat
      /\ DOMAIN p.tail = 1 .. Len(p.tail)
  BY DEF PlayerRecord
<1>2. CASE p.id \in lost
  BY <1>1, <1>2 DEF Grown, SimpleTrail, TrailCells, TailCells
<1>3. CASE p.id \notin lost
  <2> DEFINE g == Grown(p, lost)
  <2>1. g = <<p.position>> \o p.tail
    BY <1>3 DEF Grown
  <2> HIDE DEF g
  <2>2. /\ g \in Seq(Cell)
        /\ Len(g) = Len(p.tail) + 1
        /\ DOMAIN g = 1 .. Len(p.tail) + 1
        /\ g[1] = p.position
        /\ \A i \in 1 .. Len(p.tail) : g[i + 1] = p.tail[i]
    BY <1>1, <2>1
  <2>3. \A i \in DOMAIN g : i = 1 \/ (i - 1 \in DOMAIN p.tail /\ g[i] = p.tail[i - 1])
    BY <1>1, <2>2
  <2>4. \A i \in DOMAIN g : g[i] \in TrailCells(p)
    BY <1>1, <2>2, <2>3 DEF TrailCells, TailCells
  <2>5. \A c \in TrailCells(p) : \E i \in DOMAIN g : g[i] = c
    <3> TAKE c \in TrailCells(p)
    <3>1. CASE c = p.position
      BY <1>1, <2>2, <3>1
    <3>2. CASE c \in TailCells(p)
      <4>1. PICK i \in DOMAIN p.tail : p.tail[i] = c
        BY <3>2 DEF TailCells
      <4>2. i + 1 \in DOMAIN g /\ g[i + 1] = c
        BY <1>1, <2>2, <4>1
      <4> QED BY <4>2
    <3> QED BY <3>1, <3>2 DEF TrailCells
  <2>6. ASSUME SimpleTrail(p), NEW i \in DOMAIN g, NEW j \in DOMAIN g, g[i] = g[j]
        PROVE  i = j
    <3>1. i \in Nat /\ j \in Nat
      BY <1>1, <2>2, <2>6
    <3>2. CASE i = 1 /\ j # 1
      <4>1. p.tail[j - 1] = p.position /\ j - 1 \in DOMAIN p.tail
        BY <2>2, <2>3, <2>6, <3>2
      <4>2. QED BY <2>6, <4>1 DEF SimpleTrail, TailCells
    <3>3. CASE i # 1 /\ j = 1
      <4>1. p.tail[i - 1] = p.position /\ i - 1 \in DOMAIN p.tail
        BY <2>2, <2>3, <2>6, <3>3
      <4>2. QED BY <2>6, <4>1 DEF SimpleTrail, TailCells
    <3>4. CASE i # 1 /\ j # 1
      <4>1. p.tail[i - 1] = p.tail[j - 1] /\ {i - 1, j - 1} \subseteq DOMAIN p.tail
        BY <2>3, <2>6, <3>4
      <4>2. i - 1 = j - 1
        BY <2>6, <4>1 DEF SimpleTrail
      <4>3. QED BY <3>1, <4>2
    <3>5. QED BY <3>2, <3>3, <3>4
  <2> QED BY <1>3, <2>2, <2>4, <2>5, <2>6 DEF g
<1> QED BY <1>2, <1>3

(* The trimming loop keeps a prefix of at most limit nodes and frees the   *)
(* rest: every node is kept or trimmed.                                    *)
LEMMA KeptFacts ==
  ASSUME NEW s \in Seq(Cell), NEW limit \in Nat
  PROVE  /\ Kept(s, limit) \in Seq(Cell)
         /\ Len(Kept(s, limit)) <= limit
         /\ DOMAIN Kept(s, limit) \subseteq DOMAIN s
         /\ \A i \in DOMAIN Kept(s, limit) : i <= limit /\ Kept(s, limit)[i] = s[i]
         /\ \A i \in DOMAIN s : \/ i \in DOMAIN Kept(s, limit)
                                \/ s[i] \in TrimmedCells(s, limit)
         /\ TrimmedCells(s, limit) \subseteq {s[i] : i \in DOMAIN s}
         /\ (\A i, j \in DOMAIN s : s[i] = s[j] => i = j)
            => \A i \in DOMAIN Kept(s, limit) : s[i] \notin TrimmedCells(s, limit)
<1>1. Len(s) \in Nat /\ DOMAIN s = 1 .. Len(s)
  OBVIOUS
<1>2. CASE Len(s) <= limit
  BY <1>1, <1>2 DEF Kept, TrimmedCells
<1>3. CASE ~(Len(s) <= limit)
  <2>1. Kept(s, limit) = SubSeq(s, 1, limit)
    BY <1>3 DEF Kept
  <2>2. /\ SubSeq(s, 1, limit) \in Seq(Cell)
        /\ Len(SubSeq(s, 1, limit)) = limit
        /\ DOMAIN SubSeq(s, 1, limit) = 1 .. limit
        /\ \A i \in 1 .. limit : SubSeq(s, 1, limit)[i] = s[i]
    BY <1>1, <1>3
  <2> QED BY <1>1, <1>3, <2>1, <2>2 DEF TrimmedCells
<1> QED BY <1>2, <1>3

-----------------------------------------------------------------------------
(* One mover: the step of the advancing loop for player id.                *)

(* What is true of q, the player id moved to pos, and of trimmed, the      *)
(* cells its move frees.                                                   *)
MovedRight(id, pos, lost, q, trimmed) ==
  /\ q \in PlayerRecord
  /\ q.id = id
  /\ q.colour = players.entries[id].colour
  /\ q.position = pos
  /\ SimpleTrail(q)
  /\ \A c \in TailCells(q) : c \in Cell /\ grid[c] = id /\ c \notin trimmed
  /\ \A c \in trimmed : grid[c] = id
  /\ id \notin lost => \A c \in TrailCells(players.entries[id]) :
                         c \in TailCells(q) \/ c \in trimmed

(* The moved player is a well-formed record with a simple trail; the cells *)
(* of its tail carry its id and none of them is freed; the freed cells     *)
(* were its own; and a cell it owned is either kept or freed.              *)
LEMMA MoverFacts ==
  ASSUME IInv, NEW id \in Active, NEW pos \in Cell, grid[pos] = 0,
         NEW lost, NEW limit \in Nat
  PROVE  MovedRight(id, pos, lost, Moved(players.entries[id], pos, lost, limit),
                    TrimmedCells(Grown(players.entries[id], lost), limit))
<1> DEFINE p == players.entries[id]
           g == Grown(p, lost)
           q == Moved(p, pos, lost, limit)
           trimmed == TrimmedCells(g, limit)
<1>1. /\ p \in PlayerRecord
      /\ p.id = id
      /\ id # 0
      /\ SimpleTrail(p)
      /\ \A c \in TrailCells(p) : grid[c] = id
  BY DEF IInv, TypeOK, IdsFresh, TrailsSimple, GridMatchesTrails, TrailsMarked
<1>2. /\ g \in Seq(Cell)
      /\ \A i \in DOMAIN g : g[i] \in TrailCells(p)
      /\ id \notin lost => \A c \in TrailCells(p) : \E i \in DOMAIN g : g[i] = c
      /\ \A i, j \in DOMAIN g : g[i] = g[j] => i = j
  BY <1>1, GrownFacts
<1> DEFINE k == Kept(g, limit)
<1>3. /\ k \in Seq(Cell)
      /\ Len(k) <= limit
      /\ DOMAIN k \subseteq DOMAIN g
      /\ \A i \in DOMAIN k : k[i] = g[i]
      /\ \A i \in DOMAIN g : i \in DOMAIN k \/ g[i] \in trimmed
      /\ trimmed \subseteq {g[i] : i \in DOMAIN g}
      /\ \A i \in DOMAIN k : g[i] \notin trimmed
  BY <1>2, KeptFacts
<1>4. /\ q = [p EXCEPT !.position = pos, !.tail = k]
      /\ p \in [id : Slot, colour : Slot, position : Cell, tail : Seq(Cell)]
  BY <1>1 DEF Moved, PlayerRecord
<1> HIDE DEF p, g, k, q, trimmed
<1>5. /\ q \in PlayerRecord
      /\ q.id = p.id
      /\ q.colour = p.colour
      /\ q.position = pos
      /\ q.tail = k
  BY <1>3, <1>4 DEF PlayerRecord
<1>6. \A c \in TailCells(q) : c \in Cell /\ grid[c] = id /\ c \notin trimmed
  BY <1>1, <1>2, <1>3, <1>5 DEF TailCells
<1>7. SimpleTrail(q)
  BY <1>1, <1>2, <1>3, <1>5, <1>6 DEF SimpleTrail, TailCells
<1>8. \A c \in trimmed : grid[c] = id
  BY <1>1, <1>2, <1>3
<1>9. id \notin lost => \A c \in TrailCells(p) : c \in TailCells(q) \/ c \in trimmed
  BY <1>2, <1>3, <1>5 DEF TailCells
<1>10. MovedRight(id, pos, lost, q, trimmed)
  BY <1>1, <1>5, <1>6, <1>7, <1>8, <1>9 DEF MovedRight, p
<1> QED BY <1>10 DEF p, g, q, trimmed

-----------------------------------------------------------------------------
(* game_move_players.                                                      *)

(* The limit of a tail is a number.                                        *)
LEMMA TailLimitNat == ASSUME TypeOK PROVE TailLimit(frame) \in Nat
<1>1. frame \in Nat /\ BaseTailLength \in Nat /\ FramesPerTailCell \in Nat
      /\ FramesPerTailCell > 0
  BY GameAssumption DEF TypeOK
<1>2. frame \div FramesPerTailCell \in Nat
  BY <1>1
<1> QED BY <1>1, <1>2 DEF TailLimit

(* There are finitely many players.                                        *)
LEMMA ActiveFinite == ASSUME TypeOK PROVE IsFiniteSet(Active)
<1>1. IsFiniteSet(Slot)
  BY MaxPlayersAssumption, FS_Interval DEF Slot
<1> QED BY <1>1, FS_Subset DEF TypeOK

(* A nonempty set of slots has a least element, and Min is it.             *)
LEMMA MinOfSlots ==
  ASSUME NEW S, S \subseteq Slot, S # {}
  PROVE  Min(S) \in S
<1> DEFINE below(x) == {y \in S : y < x}
           T == {below(x) : x \in S}
<1>1. IsFiniteSet(S)
  <2>1. IsFiniteSet(Slot)
    BY MaxPlayersAssumption, FS_Interval DEF Slot
  <2>2. QED BY <2>1, FS_Subset
<1>2. \A x \in S : x \in Nat
  BY MaxPlayersAssumption DEF Slot
<1>3. PICK t \in T : \A u \in T : ~(<<u, t>> \in StrictSubsetOrdering(S))
  <2>1. IsWellFoundedOn(StrictSubsetOrdering(S), SUBSET S)
    BY <1>1, FS_StrictSubsetOrderingWellFounded, FS_FiniteSubsetsOfFinite
  <2>2. T \subseteq SUBSET S /\ T # {}
    OBVIOUS
  <2> HIDE DEF T
  <2>3. QED BY <2>1, <2>2, WFMin
<1>4. PICK x \in S : t = below(x)
  OBVIOUS
<1>5. ASSUME NEW y \in S, y < x
      PROVE  FALSE
  <2>1. below(y) \subseteq below(x)
    <3>1. \A z \in S : z < y => z < x
      BY <1>2, <1>5
    <3>2. QED BY <3>1
  <2>2. y \in below(x) /\ y \notin below(y)
    BY <1>2, <1>5
  <2>3. <<below(y), below(x)>> \in StrictSubsetOrdering(S)
    BY <2>1, <2>2 DEF StrictSubsetOrdering
  <2>4. QED BY <1>3, <1>4, <2>3
<1>6. \A y \in S : x <= y
  BY <1>2, <1>5
<1> HIDE DEF T
<1>7. QED BY <1>6 DEF Min

(* A surviving mover's target is a free cell of the grid, and no other     *)
(* mover has the same.                                                     *)
LEMMA TargetFacts ==
  ASSUME NEW new, NEW id \in Active \ Colliding(new)
  PROVE  /\ new[id] \in Cell
         /\ grid[new[id]] = 0
         /\ \A other \in Active \ Colliding(new) : new[other] = new[id] => other = id
BY DEF Colliding, IsLegalMove

(* The table after a move: the dead are gone, the rest have moved. *)
LEMMA AfterMove ==
  ASSUME NEW dirs, NEW lost, MovePlayers(dirs, lost)
  PROVE  LET new    == Targets(dirs)
             dead   == Colliding(new)
             movers == Active \ dead
             q(id)  == Moved(players.entries[id], new[id], lost, TailLimit(frame))
         IN  /\ Active' = movers
             /\ \A id \in movers : players'.entries[id] = q(id)
             /\ players'.entries = [id \in movers |-> q(id)]
             /\ players' = [entries |-> players'.entries, size |-> players'.size]
             /\ players'.size = players.size - Cardinality(dead \cap Active)
<1> DEFINE new == Targets(dirs)
           dead == Colliding(new)
           movers == Active \ dead
           limit == TailLimit(frame)
           p(id) == players.entries[id]
           q(id) == Moved(p(id), new[id], lost, limit)
           remaining == MapDeleteAll(players, dead)
<1>1. remaining = [entries |-> [k \in movers |-> p(k)],
                   size |-> players.size - Cardinality(dead \cap Active)]
  BY DEF MapDeleteAll, Active
<1>2. players' = [remaining EXCEPT !.entries =
                   [id \in Occupied(remaining) |->
                     Moved(@[id], new[id], lost, limit)]]
  BY DEF MovePlayers, PlayersAfter
<1>3. players' = [entries |-> [id \in movers |-> q(id)],
                  size |-> players.size - Cardinality(dead \cap Active)]
  <2>1. Occupied(remaining) = movers
    BY <1>1 DEF Occupied
  <2>2. [id \in movers |-> Moved(remaining.entries[id], new[id], lost, limit)]
        = [id \in movers |-> q(id)]
    BY <1>1
  <2> HIDE DEF remaining, movers, q
  <2> QED BY <1>1, <1>2, <2>1, <2>2
<1> QED BY <1>3 DEF Active, Occupied

(* MovePlayers preserves the invariant.  Every cell is accounted for: the  *)
(* freed ones, the targets, the kept ones, and those nobody touched.       *)
LEMMA MovePlayersStep ==
  ASSUME IInv, NEW dirs \in [Active -> Direction], NEW lost \in LostSets,
         MovePlayers(dirs, lost)
  PROVE  IInv'
<1> DEFINE new == Targets(dirs)
           dead == Colliding(new)
           movers == Active \ dead
           limit == TailLimit(frame)
           p(id) == players.entries[id]
           q(id) == Moved(p(id), new[id], lost, limit)
           trimmed(id) == TrimmedCells(Grown(p(id), lost), limit)
<1>1. TypeOK /\ limit \in Nat
  BY TailLimitNat DEF IInv
<1>2. \A id \in movers : /\ new[id] \in Cell
                         /\ grid[new[id]] = 0
                         /\ \A other \in movers : new[other] = new[id] => other = id
  BY TargetFacts
<1>3. \A id \in movers :
        /\ q(id) \in PlayerRecord
        /\ q(id).id = id
        /\ q(id).colour = p(id).colour
        /\ q(id).position = new[id]
        /\ SimpleTrail(q(id))
        /\ \A c \in TailCells(q(id)) : c \in Cell /\ grid[c] = id /\ c \notin trimmed(id)
        /\ \A c \in trimmed(id) : grid[c] = id
        /\ id \notin lost => \A c \in TrailCells(p(id)) :
                               c \in TailCells(q(id)) \/ c \in trimmed(id)
  <2>1. \A id \in movers : MovedRight(id, new[id], lost, q(id), trimmed(id))
    BY <1>1, <1>2, MoverFacts
  <2> HIDE DEF new, movers, limit, q, trimmed
  <2> QED BY <2>1 DEF MovedRight
<1>4. \A id \in Active :
        /\ id # 0
        /\ id \in Slot
        /\ p(id) \in PlayerRecord
        /\ \A c \in TrailCells(p(id)) : grid[c] = id
  BY DEF IInv, TypeOK, IdsFresh, GridMatchesTrails, TrailsMarked
<1>5. /\ Active' = movers
      /\ \A id \in movers : players'.entries[id] = q(id)
      /\ players'.entries = [id \in movers |-> q(id)]
      /\ players' = [entries |-> players'.entries, size |-> players'.size]
      /\ players'.size = players.size - Cardinality(dead \cap Active)
  BY AfterMove
<1>6. grid' = [c \in Cell |->
         IF \E id \in movers : c \in trimmed(id)
         THEN 0
         ELSE IF \E id \in movers : new[id] = c
              THEN CHOOSE id \in movers : new[id] = c
              ELSE Cleared(dead)[c]]
  BY DEF MovePlayers, GridAfter
<1>7. /\ idCounter' = idCounter /\ frame' = frame /\ maxTailLength' = limit
      /\ gameStarted' = gameStarted /\ overrun' = overrun
  BY DEF MovePlayers
<1>8. \A c \in Cell : Cleared(dead)[c] = IF \E id \in dead : c \in TrailCells(p(id))
                                         THEN 0 ELSE grid[c]
  BY DEF Cleared
<1> DEFINE cleared == Cleared(dead)
<1>9. dead \subseteq Active /\ lost \subseteq Active /\ (~AllocMayFail => lost = {})
  BY DEF Colliding, LostSets
<1>10. Cardinality(dead \cap Active) \in Nat
  BY <1>1, ActiveFinite, FS_Intersection, FS_CardinalityType
<1> HIDE DEF new, dead, movers, limit, p, q, trimmed, cleared
(* The four kinds of cells. *)
<1>11. \A id \in movers : grid'[new[id]] = id
  <2> TAKE id \in movers
  <2>1. \A other \in movers : new[id] \notin trimmed(other)
    BY <1>2, <1>3, <1>4 DEF movers
  <2>2. (CHOOSE other \in movers : new[other] = new[id]) = id
    BY <1>2
  <2> QED BY <1>2, <1>6, <2>1, <2>2
<1>12. \A id \in movers : \A c \in TailCells(q(id)) : grid'[c] = id
  <2> TAKE id \in movers
  <2> TAKE c \in TailCells(q(id))
  <2>1. c \in Cell /\ grid[c] = id /\ id # 0 /\ id \notin dead
    BY <1>3, <1>4 DEF movers
  <2>2. \A other \in movers : c \notin trimmed(other)
    BY <1>3, <2>1
  <2>3. \A other \in movers : new[other] # c
    BY <1>2, <2>1
  <2>4. \A other \in dead : c \notin TrailCells(p(other))
    BY <1>4, <1>9, <2>1
  <2> QED BY <1>6, <1>8, <2>1, <2>2, <2>3, <2>4
<1>13. \A c \in Cell : grid'[c] # 0 =>
         /\ \A id \in movers : c \notin trimmed(id)
         /\ \/ \E id \in movers : new[id] = c /\ grid'[c] = id
            \/ /\ grid'[c] = grid[c]
               /\ \A id \in dead : c \notin TrailCells(p(id))
  BY <1>6, <1>8
<1>14. grid' \in [Cell -> Slot]
  <2>1. \A c \in Cell : grid'[c] \in Slot
    <3> TAKE c \in Cell
    <3>1. 0 \in Slot /\ grid[c] \in Slot
      BY <1>1, MaxPlayersAssumption DEF Slot, TypeOK
    <3> QED BY <1>4, <1>13, <3>1 DEF movers
  <2>2. grid' = [c \in Cell |-> grid'[c]]
    BY <1>6
  <2> QED BY <2>1, <2>2
(* The conjuncts of the invariant. *)
<1>15. TypeOK'
  <2>1. Active' \subseteq Slot
    BY <1>4, <1>5 DEF movers
  <2>2. \A id \in Active' : players'.entries[id] \in PlayerRecord
    BY <1>3, <1>5
  <2>3. players' = [entries |-> [id \in Active' |-> players'.entries[id]], size |-> players'.size]
    BY <1>5
  <2>4. players'.size \in Int
    BY <1>1, <1>5, <1>10 DEF TypeOK
  <2> QED BY <1>1, <1>7, <1>14, <2>1, <2>2, <2>3, <2>4 DEF TypeOK, PlayerRecord, Slot, Cell
<1>16. IdsFresh'
  <2> SUFFICES ASSUME NEW id \in movers
               PROVE  /\ id \in 1 .. idCounter - 1
                      /\ q(id).id = id
                      /\ q(id).colour = PaletteIndex(id)
    BY <1>5, <1>7 DEF IdsFresh, PaletteIndex
  <2> QED BY <1>3 DEF IInv, IdsFresh, movers, p
<1>17. TrailsSimple'
  BY <1>3, <1>5 DEF TrailsSimple, SimpleTrail, TailCells
<1>18. TrailsMarked'
  <2>1. \A id \in movers : \A c \in TrailCells(q(id)) : grid'[c] = id
    BY <1>3, <1>11, <1>12 DEF TrailCells
  <2> QED BY <1>5, <2>1 DEF TrailsMarked, TrailCells, TailCells
<1>19. ASSUME ~AllocMayFail PROVE NoOrphanCells'
  <2> SUFFICES ASSUME NEW c \in Cell, grid'[c] # 0
               PROVE  grid'[c] \in movers /\ c \in TrailCells(q(grid'[c]))
    BY <1>5 DEF NoOrphanCells, TrailCells, TailCells, Cell
  <2>1. CASE \E id \in movers : new[id] = c /\ grid'[c] = id
    BY <1>3, <2>1 DEF TrailCells
  <2>2. CASE /\ grid'[c] = grid[c]
             /\ \A id \in dead : c \notin TrailCells(p(id))
    <3>1. grid[c] \in Active /\ c \in TrailCells(p(grid[c]))
      BY <1>19, <2>2 DEF IInv, GridMatchesTrails, NoOrphanCells, p
    <3>2. grid[c] \in movers
      BY <2>2, <3>1 DEF movers
    <3>3. c \in TailCells(q(grid[c])) \/ c \in trimmed(grid[c])
      BY <1>3, <1>9, <1>19, <3>1, <3>2
    <3>4. c \in TailCells(q(grid[c]))
      BY <1>13, <3>2, <3>3
    <3> QED BY <2>2, <3>2, <3>4 DEF TrailCells
  <2> QED BY <1>13, <2>1, <2>2
<1> QED BY <1>15, <1>16, <1>17, <1>18, <1>19 DEF IInv, GridMatchesTrails

-----------------------------------------------------------------------------
(* The other calls, and the theorems.                                      *)

(* The invariant holds at the start.                                       *)
LEMMA InitStep == ASSUME Init PROVE IInv
<1>1. players = [entries |-> <<>>, size |-> 0] /\ Active = {}
  BY DEF Init, MapCreate, Active, Occupied
<1>2. players.entries = [id \in Active |-> players.entries[id]]
  BY <1>1
<1>3. TypeOK
  <2>1. players = [entries |-> [id \in Active |-> players.entries[id]],
                   size |-> players.size]
    BY <1>1, <1>2
  <2>2. grid \in [Cell -> Slot]
    BY MaxPlayersAssumption DEF Init, Slot
  <2>3. /\ players.size \in Int
        /\ frame \in 0 .. MaxFrame
        /\ maxTailLength \in Nat
        /\ idCounter \in 1 .. MaxPlayers
    BY <1>1, MaxPlayersAssumption, GameAssumption DEF Init
  <2>4. gameStarted \in BOOLEAN /\ overrun \in BOOLEAN
    BY DEF Init
  <2> QED BY <1>1, <2>1, <2>2, <2>3, <2>4 DEF TypeOK
<1>4. IdsFresh /\ GridMatchesTrails /\ TrailsSimple
  BY <1>1 DEF Init, IdsFresh, GridMatchesTrails, TrailsMarked, NoOrphanCells, TrailsSimple
<1> QED BY <1>3, <1>4 DEF IInv

(* The newcomer gets a fresh id and a free cell, so it disturbs no trail.  *)
LEMMA AddPlayerStep == ASSUME IInv, NEW pos \in Cell, AddPlayer(pos) PROVE IInv'
<1>1. CASE idCounter \notin Slot
  BY <1>1 DEF AddPlayer, IInv, TypeOK, IdsFresh, GridMatchesTrails, TrailsMarked,
     NoOrphanCells, TrailsSimple, Active, Occupied
<1>2. CASE idCounter \in Slot
  <2> DEFINE q == PlayerCreate(idCounter, pos)
  <2>1. /\ idCounter \in 1 .. MaxPlayers - 1
        /\ idCounter \notin Active
        /\ \A id \in Active :
             /\ id \in 1 .. idCounter - 1
             /\ id # 0 /\ id # idCounter
             /\ players.entries[id].id = id
             /\ players.entries[id].colour = PaletteIndex(id)
             /\ players.entries[id] \in PlayerRecord
             /\ SimpleTrail(players.entries[id])
             /\ \A c \in TrailCells(players.entries[id]) : grid[c] = id
    BY <1>2, MaxPlayersAssumption
       DEF IInv, TypeOK, IdsFresh, TrailsSimple, GridMatchesTrails, TrailsMarked, Slot
  <2>2. /\ q.id = idCounter
        /\ q.position = pos
        /\ q.tail = <<>>
        /\ q.colour = PaletteIndex(idCounter)
        /\ q \in PlayerRecord
    <3>1. PaletteIndex(idCounter) \in Slot
      BY <2>1, MaxPlayersAssumption DEF PaletteIndex, Slot
    <3>2. <<>> \in Seq(Cell)
      OBVIOUS
    <3> QED BY <1>2, <3>1, <3>2 DEF PlayerCreate, PlayerRecord
  <2>3. TailCells(q) = {} /\ TrailCells(q) = {pos} /\ SimpleTrail(q)
    BY <2>2 DEF TailCells, TrailCells, SimpleTrail
  <2> HIDE DEF q
  <2>4. /\ players' = [entries |-> [k \in Active \cup {idCounter} |->
                                    IF k = idCounter THEN q ELSE players.entries[k]],
                      size |-> players.size + 1]
        /\ grid' = [grid EXCEPT ![pos] = idCounter]
        /\ idCounter' = idCounter + 1
        /\ gameStarted' = TRUE /\ overrun' = overrun
        /\ frame' = frame /\ maxTailLength' = maxTailLength
        /\ grid[pos] = 0
    BY <1>2, <2>1 DEF AddPlayer, MapInsert, Active, q
  <2>5. /\ Active' = Active \cup {idCounter}
        /\ players'.entries[idCounter] = q
        /\ \A id \in Active : players'.entries[id] = players.entries[id]
        /\ players'.size = players.size + 1
    BY <2>1, <2>4 DEF Active, Occupied
  <2>6. /\ grid \in [Cell -> Slot]
        /\ grid'[pos] = idCounter
        /\ \A c \in Cell \ {pos} : grid'[c] = grid[c]
    BY <2>4 DEF IInv, TypeOK
  <2>7. TypeOK'
    <3>1. players' = [entries |-> [id \in Active' |-> players'.entries[id]],
                      size |-> players'.size]
      BY <2>4, <2>5
    <3>2. /\ grid' \in [Cell -> Slot]
          /\ Active' \subseteq Slot
          /\ \A id \in Active' : players'.entries[id] \in PlayerRecord
      BY <1>2, <2>1, <2>2, <2>4, <2>5, <2>6 DEF IInv, TypeOK
    <3>3. /\ players'.size \in Int
          /\ frame' \in 0 .. MaxFrame
          /\ maxTailLength' \in Nat
          /\ idCounter' \in 1 .. MaxPlayers
      BY <2>1, <2>4, <2>5, MaxPlayersAssumption DEF IInv, TypeOK
    <3>4. gameStarted' \in BOOLEAN /\ overrun' \in BOOLEAN
      BY <2>4 DEF IInv, TypeOK
    <3> QED BY <3>1, <3>2, <3>3, <3>4 DEF TypeOK, PlayerRecord, Slot, Cell
  <2>8. IdsFresh'
    BY <2>1, <2>2, <2>4, <2>5 DEF IdsFresh, PaletteIndex
  <2>9. TrailsSimple'
    BY <2>1, <2>3, <2>5 DEF TrailsSimple, SimpleTrail, TailCells
  <2>10. TrailsMarked'
    <3>1. \A id \in Active : TrailCells(players.entries[id]) \subseteq Cell
      BY <2>1 DEF PlayerRecord, TrailCells, TailCells
    <3>2. \A id \in Active : \A c \in TrailCells(players.entries[id]) : grid'[c] = id
      BY <2>1, <2>4, <2>6, <3>1
    <3> QED BY <2>3, <2>5, <2>6, <3>2 DEF TrailsMarked, TrailCells, TailCells
  <2>11. ~AllocMayFail => NoOrphanCells'
    <3> SUFFICES ASSUME ~AllocMayFail, NEW c \in Cell, grid'[c] # 0
                 PROVE  /\ grid'[c] \in Active'
                        /\ c \in TrailCells(players'.entries[grid'[c]])
      BY DEF NoOrphanCells, TrailCells, TailCells, Cell
    <3>1. CASE c = pos
      BY <2>3, <2>5, <2>6, <3>1
    <3>2. CASE c # pos
      <4>1. grid[c] \in Active /\ c \in TrailCells(players.entries[grid[c]])
        BY <2>6, <3>2 DEF IInv, GridMatchesTrails, NoOrphanCells
      <4> QED BY <2>5, <2>6, <3>2, <4>1
    <3> QED BY <3>1, <3>2
  <2> QED BY <2>7, <2>8, <2>9, <2>10, <2>11 DEF IInv, GridMatchesTrails
<1> QED BY <1>1, <1>2

(* The leaver's cells are its own, so freeing them disturbs no other.      *)
LEMMA RemovePlayerStep == ASSUME IInv, NEW id \in Slot, RemovePlayer(id) PROVE IInv'
<1>1. CASE id \notin Active
  <2>1. \A c \in Cell : Cleared({id} \cap Active)[c] = grid[c]
    BY <1>1 DEF Cleared
  <2>2. players' = players /\ grid' = grid
    BY <1>1, <2>1 DEF RemovePlayer, MapDelete, Active, Cleared, IInv, TypeOK
  <2> QED BY <2>2 DEF RemovePlayer, IInv, TypeOK, IdsFresh, GridMatchesTrails, TrailsMarked,
       NoOrphanCells, TrailsSimple, Active, Occupied
<1>2. CASE id \in Active
  <2> DEFINE rest == Active \ {id}
             p(k) == players.entries[k]
  <2>1. /\ players' = [entries |-> [k \in rest |-> p(k)], size |-> players.size - 1]
        /\ UNCHANGED <<frame, maxTailLength, idCounter, gameStarted, overrun>>
        /\ grid' = [c \in Cell |-> IF c \in TrailCells(p(id)) THEN 0 ELSE grid[c]]
    <3>1. {id} \cap Active = {id}
      BY <1>2
    <3> QED BY <1>2, <3>1 DEF RemovePlayer, MapDelete, Active, Cleared
  <2>2. /\ Active' = rest
        /\ \A k \in rest : players'.entries[k] = p(k)
        /\ players'.size = players.size - 1
    BY <2>1 DEF Active, Occupied
  <2>3. \A k \in Active :
          /\ k # 0 /\ k \in Slot
          /\ p(k) \in PlayerRecord
          /\ TrailCells(p(k)) \subseteq Cell
          /\ SimpleTrail(p(k))
          /\ \A c \in TrailCells(p(k)) : grid[c] = k
    BY DEF IInv, TypeOK, IdsFresh, TrailsSimple, GridMatchesTrails, TrailsMarked,
           PlayerRecord, TrailCells, TailCells
  <2> HIDE DEF p
  <2>4. TypeOK'
    <3>1. players' = [entries |-> [k \in Active' |-> players'.entries[k]],
                      size |-> players'.size]
      BY <2>1, <2>2
    <3>2. grid' \in [Cell -> Slot]
      BY <2>1, MaxPlayersAssumption DEF IInv, TypeOK, Slot
    <3>3. Active' \subseteq Slot /\ \A k \in Active' : players'.entries[k] \in PlayerRecord
      BY <2>2, <2>3
    <3>4. /\ players'.size \in Int /\ frame' \in 0 .. MaxFrame
          /\ maxTailLength' \in Nat /\ idCounter' \in 1 .. MaxPlayers
          /\ gameStarted' \in BOOLEAN /\ overrun' \in BOOLEAN
      BY <2>1, <2>2 DEF IInv, TypeOK
    <3> QED BY <3>1, <3>2, <3>3, <3>4 DEF TypeOK
  <2>5. IdsFresh'
    BY <2>1, <2>2 DEF IInv, IdsFresh, PaletteIndex, p
  <2>6. TrailsSimple'
    BY <2>2, <2>3 DEF TrailsSimple, SimpleTrail, TailCells
  <2>7. TrailsMarked'
    <3>1. \A k \in rest : \A c \in TrailCells(p(k)) : c \in Cell /\ grid'[c] = k
      BY <1>2, <2>1, <2>3
    <3> QED BY <2>2, <3>1 DEF TrailsMarked, TrailCells, TailCells
  <2>8. ~AllocMayFail => NoOrphanCells'
    <3> SUFFICES ASSUME ~AllocMayFail, NEW c \in Cell, grid'[c] # 0
                 PROVE  grid'[c] \in rest /\ c \in TrailCells(p(grid'[c]))
      BY <2>2 DEF NoOrphanCells, TrailCells, TailCells, Cell
    <3>1. grid'[c] = grid[c] /\ c \notin TrailCells(p(id))
      BY <2>1
    <3>2. grid[c] \in Active /\ c \in TrailCells(p(grid[c]))
      BY <3>1 DEF IInv, GridMatchesTrails, NoOrphanCells, p
    <3> QED BY <3>1, <3>2
  <2> QED BY <2>4, <2>5, <2>6, <2>7, <2>8 DEF IInv, GridMatchesTrails
<1> QED BY <1>1, <1>2

(* Every step keeps it.                                                    *)
LEMMA NextStep == IInv /\ [Next]_gameVars => IInv'
<1> SUFFICES ASSUME IInv, [Next]_gameVars PROVE IInv'
  OBVIOUS
<1>1. ASSUME NEW pos \in Cell, AddPlayer(pos) PROVE IInv'
  BY <1>1, AddPlayerStep
<1>2. ASSUME NEW id \in Slot, RemovePlayer(id) PROVE IInv'
  BY <1>2, RemovePlayerStep
<1>3. ASSUME NEW dirs \in [Active -> Direction], NEW lost \in LostSets,
             MovePlayers(dirs, lost)
      PROVE  IInv'
  BY <1>3, MovePlayersStep
<1>4. ASSUME \/ AddPlayerNoRoom
             \/ \E f \in 0 .. MaxFrame : SetFrame(f)
             \/ Undefined
             \/ UNCHANGED gameVars
      PROVE  IInv'
  <2>1. /\ UNCHANGED <<players, grid, maxTailLength, idCounter, overrun>>
        /\ frame' \in 0 .. MaxFrame
        /\ gameStarted' \in BOOLEAN
    BY <1>4 DEF AddPlayerNoRoom, SetFrame, Undefined, gameVars, IInv, TypeOK
  <2> QED BY <2>1 DEF IInv, TypeOK, IdsFresh, GridMatchesTrails, TrailsMarked,
       NoOrphanCells, TrailsSimple, Active, Occupied
<1> QED BY <1>1, <1>2, <1>3, <1>4 DEF Next

(* The inductive invariant holds in every state of every game.             *)
THEOREM Inductive == Spec => []IInv
BY InitStep, NextStep, PTL DEF Spec

(* Every variable keeps its type; in particular the table and the grid     *)
(* hold only slots, and every trail lies inside the grid.                  *)
THEOREM TypeCorrect == Spec => []TypeOK
BY Inductive, PTL DEF IInv

(* The grid and the trails agree in every state, for every table size,     *)
(* grid size and tail limit.                                               *)
THEOREM GridAgreesWithTrails == Spec => []GridMatchesTrails
BY Inductive, PTL DEF IInv

(* No player ever occupies one cell twice.                                 *)
THEOREM TrailsStaySimple == Spec => []TrailsSimple
BY Inductive, PTL DEF IInv

(* A bot can tell itself from every other player by its colour.            *)
THEOREM ColoursStayDistinct == Spec => []ColoursDistinct
<1>1. IInv => ColoursDistinct
  <2> SUFFICES ASSUME IInv, NEW i \in Active, NEW j \in Active,
                      players.entries[i].colour = players.entries[j].colour
               PROVE  i = j
    BY DEF ColoursDistinct
  <2>1. i \in 0 .. MaxPlayers - 1 /\ j \in 0 .. MaxPlayers - 1
    BY DEF IInv, TypeOK, Slot
  <2>2. i % MaxPlayers = j % MaxPlayers
    BY DEF IInv, IdsFresh, PaletteIndex
  <2>3. i % MaxPlayers = i /\ j % MaxPlayers = j
    BY <2>1, MaxPlayersAssumption
  <2> QED BY <2>2, <2>3
<1> QED BY <1>1, Inductive, PTL

(* A step of the game never hands an occupied cell to another player: a    *)
(* newcomer and a mover only ever take a cell that was free.               *)
THEOREM NoCellChangesHands == Spec => NoCellStolen
<1> DEFINE Keeps == \A c \in Cell : grid[c] # 0 /\ grid'[c] # 0 => grid'[c] = grid[c]
<1>1. IInv /\ [Next]_gameVars => [Keeps]_gameVars
  <2> SUFFICES ASSUME IInv, Next, NEW c \in Cell, grid[c] # 0, grid'[c] # 0
               PROVE  grid'[c] = grid[c]
    OBVIOUS
  <2>1. ASSUME NEW pos \in Cell, AddPlayer(pos) PROVE grid'[c] = grid[c]
    BY <2>1 DEF AddPlayer, IInv, TypeOK
  <2>2. ASSUME NEW id \in Slot, RemovePlayer(id) PROVE grid'[c] = grid[c]
    BY <2>2 DEF RemovePlayer, Cleared
  <2>3. ASSUME NEW dirs \in [Active -> Direction], NEW lost \in LostSets,
               MovePlayers(dirs, lost)
        PROVE  grid'[c] = grid[c]
    <3> DEFINE new == Targets(dirs)
               dead == Colliding(new)
    <3>1. \A id \in Active \ dead : new[id] # c
      BY TargetFacts
    <3>2. Cleared(dead)[c] # 0 => Cleared(dead)[c] = grid[c]
      BY DEF Cleared
    <3> HIDE DEF new, dead
    <3> QED BY <2>3, <3>1, <3>2 DEF MovePlayers, GridAfter, new, dead
  <2> QED BY <2>1, <2>2, <2>3
         DEF Next, AddPlayerNoRoom, SetFrame, Undefined, gameVars
<1> QED BY <1>1, Inductive, PTL DEF Spec, NoCellStolen

-----------------------------------------------------------------------------
(* The size field, the length of the tails and their order.                *)

ConnectedTrail(p) ==
  /\ p.tail # <<>> => Adjacent(p.tail[1], p.position)
  /\ \A i \in 1 .. Len(p.tail) - 1 : Adjacent(p.tail[i + 1], p.tail[i])

(* Inductive beside IInv, which says what the records and the ids are.     *)
Trails == SizeCountsPlayers /\ TailsWithinLimit /\ TrailsConnected

(* A step in some direction leads from a cell to an adjacent one. *)
LEMMA StepIsAdjacent ==
  ASSUME NEW pos, NEW dir \in Direction
  PROVE  Adjacent(pos, Step(pos, dir))
BY DEF Adjacent

(* A tail whose oldest end is cut off is connected as it was. *)
LEMMA KeptConnected ==
  ASSUME NEW s \in Seq(Cell), NEW limit \in Nat,
         \A i \in 1 .. Len(s) - 1 : Adjacent(s[i + 1], s[i])
  PROVE  /\ \A i \in 1 .. Len(Kept(s, limit)) - 1 :
              Adjacent(Kept(s, limit)[i + 1], Kept(s, limit)[i])
         /\ Kept(s, limit) # <<>> => Kept(s, limit)[1] = s[1]
<1> DEFINE k == Kept(s, limit)
<1>1. /\ k \in Seq(Cell) /\ DOMAIN k \subseteq DOMAIN s
      /\ \A i \in DOMAIN k : k[i] = s[i]
  BY KeptFacts
<1>2. Len(k) \in Nat /\ DOMAIN k = 1 .. Len(k) /\ Len(s) \in Nat /\ DOMAIN s = 1 .. Len(s)
  BY <1>1
<1>3. k # <<>> => 1 \in DOMAIN k
  BY <1>1
<1> HIDE DEF k
<1>4. ASSUME NEW i \in 1 .. Len(k) - 1
      PROVE  Adjacent(k[i + 1], k[i])
  <2>1. i \in DOMAIN k /\ i + 1 \in DOMAIN k
    BY <1>2
  <2>2. i + 1 \in 1 .. Len(s)
    BY <1>1, <1>2, <2>1
  <2>3. i \in 1 .. Len(s) - 1
    BY <1>2, <2>2
  <2>4. k[i] = s[i] /\ k[i + 1] = s[i + 1]
    BY <1>1, <2>1
  <2> QED BY <2>3, <2>4
<1> QED BY <1>1, <1>3, <1>4 DEF k

(* A mover whose node was allocated trails behind its new cell.            *)
LEMMA MovedConnected ==
  ASSUME NEW p \in PlayerRecord, NEW pos \in Cell, NEW lost, p.id \notin lost,
         NEW limit \in Nat, ConnectedTrail(p), Adjacent(p.position, pos)
  PROVE  ConnectedTrail(Moved(p, pos, lost, limit))
<1> DEFINE g == <<p.position>> \o p.tail
           k == Kept(g, limit)
           q == Moved(p, pos, lost, limit)
<1>1. p.position \in Cell /\ p.tail \in Seq(Cell) /\ Len(p.tail) \in Nat
  BY DEF PlayerRecord
<1>2. /\ g \in Seq(Cell) /\ Len(g) = Len(p.tail) + 1
      /\ g[1] = p.position
      /\ \A i \in 1 .. Len(p.tail) : g[i + 1] = p.tail[i]
  BY <1>1
<1>3. q = [p EXCEPT !.position = pos, !.tail = k]
  BY DEF Moved, Grown
<1>4. q.position = pos /\ q.tail = k
  <2> HIDE DEF k, q
  <2>1. p \in [id : Slot, colour : Slot, position : Cell, tail : Seq(Cell)]
    BY DEF PlayerRecord
  <2> QED BY <1>3, <2>1
<1>5. p.tail # <<>> <=> Len(p.tail) # 0
  BY <1>1
<1> HIDE DEF g, q
<1>6. ASSUME NEW i \in 1 .. Len(g) - 1
      PROVE  Adjacent(g[i + 1], g[i])
  <2>1. i \in 1 .. Len(p.tail) /\ g[i + 1] = p.tail[i]
    BY <1>1, <1>2
  <2>2. CASE i = 1
    BY <1>1, <1>2, <1>5, <2>1, <2>2 DEF ConnectedTrail
  <2>3. CASE i # 1
    <3>1. i - 1 \in 1 .. Len(p.tail) - 1 /\ (i - 1) + 1 = i /\ i - 1 \in 1 .. Len(p.tail)
      BY <1>1, <2>1, <2>3
    <3>2. g[i] = p.tail[i - 1]
      BY <1>2, <3>1
    <3>3. Adjacent(p.tail[i], p.tail[i - 1])
      BY <3>1 DEF ConnectedTrail
    <3> QED BY <2>1, <3>2, <3>3
  <2> QED BY <2>2, <2>3
<1>7. /\ \A i \in 1 .. Len(k) - 1 : Adjacent(k[i + 1], k[i])
      /\ k # <<>> => k[1] = g[1]
  BY <1>2, <1>6, KeptConnected
<1> HIDE DEF k
<1>8. ConnectedTrail(q)
  BY <1>2, <1>4, <1>7 DEF ConnectedTrail
<1> QED BY <1>8 DEF q

(* Every mover's tail is cut to the limit that the same call sets, and the *)
(* size goes down by one for each of the dead.                             *)
LEMMA MovePlayersTrails ==
  ASSUME IInv, Trails, NEW dirs \in [Active -> Direction], NEW lost \in LostSets,
         MovePlayers(dirs, lost)
  PROVE  Trails'
<1> DEFINE new == Targets(dirs)
           dead == Colliding(new)
           movers == Active \ dead
           limit == TailLimit(frame)
           p(id) == players.entries[id]
           q(id) == Moved(p(id), new[id], lost, limit)
<1>1. /\ Active' = movers
      /\ \A id \in movers : players'.entries[id] = q(id)
      /\ players'.size = players.size - Cardinality(dead \cap Active)
  BY AfterMove
<1>2. \A id \in Active : p(id) \in PlayerRecord /\ p(id).id = id
  BY DEF IInv, TypeOK, IdsFresh
<1>3. limit \in Nat /\ maxTailLength' = limit
  BY TailLimitNat DEF IInv, MovePlayers
<1>4. \A id \in movers : new[id] \in Cell
  BY TargetFacts
<1>5. SizeCountsPlayers'
  <2>1. IsFiniteSet(Active) /\ players.size = Cardinality(Active)
    BY ActiveFinite DEF IInv, Trails, SizeCountsPlayers
  <2>2. Cardinality(Active \ dead) = Cardinality(Active) - Cardinality(Active \cap dead)
    BY <2>1, FS_Difference
  <2>3. Active \cap dead = dead \cap Active
    OBVIOUS
  <2> HIDE DEF dead
  <2> QED BY <1>1, <2>1, <2>2, <2>3 DEF SizeCountsPlayers
<1>6. TailsWithinLimit'
  <2>1. ASSUME NEW id \in movers
        PROVE  Len(q(id).tail) <= limit
    <3>1. Grown(p(id), lost) \in Seq(Cell)
      BY <1>2, GrownFacts
    <3>2. Len(Kept(Grown(p(id), lost), limit)) <= limit
      BY <1>3, <3>1, KeptFacts
    <3>3. q(id).tail = Kept(Grown(p(id), lost), limit)
      BY <1>2 DEF Moved, PlayerRecord
    <3> QED BY <3>2, <3>3
  <2> HIDE DEF q, movers, limit
  <2> QED BY <1>1, <1>3, <2>1 DEF TailsWithinLimit
<1>7. TrailsConnected'
  <2> SUFFICES ASSUME ~AllocMayFail, NEW id \in movers
               PROVE  ConnectedTrail(q(id))
    BY <1>1 DEF TrailsConnected, ConnectedTrail
  <2>1. lost = {}
    BY DEF LostSets
  <2>2. ConnectedTrail(p(id))
    BY DEF Trails, TrailsConnected, ConnectedTrail
  <2>3. new[id] = Step(p(id).position, dirs[id]) /\ dirs[id] \in Direction
    BY DEF Targets
  <2>4. Adjacent(p(id).position, new[id])
    BY <2>3, StepIsAdjacent
  <2> HIDE DEF new, p
  <2> QED BY <1>2, <1>3, <1>4, <2>1, <2>2, <2>4, MovedConnected DEF movers
<1> QED BY <1>5, <1>6, <1>7 DEF Trails

(* The other calls: a newcomer has no tail yet, and a leaver was counted.  *)
LEMMA TrailsStep ==
  ASSUME IInv, Trails, [Next]_gameVars
  PROVE  Trails'
<1>1. ASSUME NEW pos \in Cell, AddPlayer(pos)
      PROVE  Trails'
  <2>1. CASE idCounter \notin Slot
    BY <1>1, <2>1 DEF AddPlayer, Trails, SizeCountsPlayers, TailsWithinLimit,
       TrailsConnected, Active, Occupied
  <2>2. CASE idCounter \in Slot
    <3> DEFINE r == PlayerCreate(idCounter, pos)
    <3>1. idCounter \notin Active
      BY DEF IInv, IdsFresh, TypeOK
    <3>2. /\ players' = [entries |-> [k \in Active \cup {idCounter} |->
                                        IF k = idCounter THEN r ELSE players.entries[k]],
                         size |-> players.size + 1]
          /\ maxTailLength' = maxTailLength
      BY <1>1, <2>2, <3>1 DEF AddPlayer, MapInsert, Active
    <3>3. r.tail = <<>>
      BY DEF PlayerCreate
    <3> HIDE DEF r
    <3>4. /\ Active' = Active \cup {idCounter}
          /\ players'.entries[idCounter] = r
          /\ \A id \in Active : players'.entries[id] = players.entries[id]
          /\ players'.size = players.size + 1
      BY <3>1, <3>2 DEF Active, Occupied
    <3>5. SizeCountsPlayers'
      <4>1. IsFiniteSet(Active) /\ players.size = Cardinality(Active)
        BY ActiveFinite DEF IInv, Trails, SizeCountsPlayers
      <4>2. Cardinality(Active \cup {idCounter}) = Cardinality(Active) + 1
        BY <3>1, <4>1, FS_AddElement
      <4> QED BY <3>4, <4>1, <4>2 DEF SizeCountsPlayers
    <3>6. TailsWithinLimit'
      <4>1. Len(r.tail) <= maxTailLength
        BY <3>3 DEF IInv, TypeOK
      <4> QED BY <3>2, <3>4, <4>1 DEF Trails, TailsWithinLimit
    <3>7. TrailsConnected'
      <4>1. ConnectedTrail(r)
        BY <3>3 DEF ConnectedTrail
      <4>2. ~AllocMayFail => \A id \in Active' : ConnectedTrail(players'.entries[id])
        BY <3>4, <4>1 DEF Trails, TrailsConnected, ConnectedTrail
      <4> QED BY <4>2 DEF TrailsConnected, ConnectedTrail
    <3> QED BY <3>5, <3>6, <3>7 DEF Trails
  <2> QED BY <2>1, <2>2
<1>2. ASSUME NEW id \in Slot, RemovePlayer(id)
      PROVE  Trails'
  <2>1. CASE id \notin Active
    <3>1. players' = players /\ maxTailLength' = maxTailLength
      BY <1>2, <2>1 DEF RemovePlayer, MapDelete, Active
    <3> QED BY <3>1 DEF Trails, SizeCountsPlayers, TailsWithinLimit, TrailsConnected,
                        Active, Occupied
  <2>2. CASE id \in Active
    <3>1. /\ players' = [entries |-> [k \in Active \ {id} |-> players.entries[k]],
                         size |-> players.size - 1]
          /\ maxTailLength' = maxTailLength
      BY <1>2, <2>2 DEF RemovePlayer, MapDelete, Active
    <3>2. /\ Active' = Active \ {id}
          /\ \A k \in Active \ {id} : players'.entries[k] = players.entries[k]
          /\ players'.size = players.size - 1
      BY <3>1 DEF Active, Occupied
    <3>3. SizeCountsPlayers'
      <4>1. IsFiniteSet(Active) /\ players.size = Cardinality(Active)
        BY ActiveFinite DEF IInv, Trails, SizeCountsPlayers
      <4>2. Cardinality(Active \ {id}) = Cardinality(Active) - 1
        BY <2>2, <4>1, FS_RemoveElement
      <4> QED BY <3>2, <4>1, <4>2 DEF SizeCountsPlayers
    <3>4. TailsWithinLimit'
      BY <3>1, <3>2 DEF Trails, TailsWithinLimit
    <3>5. TrailsConnected'
      <4>1. ~AllocMayFail => \A k \in Active' : ConnectedTrail(players'.entries[k])
        BY <3>2 DEF Trails, TrailsConnected, ConnectedTrail
      <4> QED BY <4>1 DEF TrailsConnected, ConnectedTrail
    <3> QED BY <3>3, <3>4, <3>5 DEF Trails
  <2> QED BY <2>1, <2>2
<1>3. ASSUME NEW dirs \in [Active -> Direction], NEW lost \in LostSets,
             MovePlayers(dirs, lost)
      PROVE  Trails'
  BY <1>3, MovePlayersTrails
<1>4. ASSUME \/ AddPlayerNoRoom
             \/ \E f \in 0 .. MaxFrame : SetFrame(f)
             \/ Undefined
             \/ UNCHANGED gameVars
      PROVE  Trails'
  <2>1. UNCHANGED <<players, maxTailLength>>
    BY <1>4 DEF AddPlayerNoRoom, SetFrame, Undefined, gameVars
  <2> QED BY <2>1 DEF Trails, SizeCountsPlayers, TailsWithinLimit, TrailsConnected,
                      Active, Occupied
<1> QED BY <1>1, <1>2, <1>3, <1>4 DEF Next

(* The three facts hold in every state of every game.                      *)
LEMMA TrailsInductive == Spec => []Trails
<1>1. Init => Trails
  <2> SUFFICES ASSUME Init
               PROVE  Trails
    OBVIOUS
  <2>1. players = [entries |-> <<>>, size |-> 0] /\ Active = {}
    BY DEF Init, MapCreate, Active, Occupied
  <2>2. players.size = Cardinality(Active)
    BY <2>1, FS_EmptySet
  <2> QED BY <2>1, <2>2 DEF Trails, SizeCountsPlayers, TailsWithinLimit, TrailsConnected
<1>2. IInv /\ Trails /\ [Next]_gameVars => Trails'
  BY TrailsStep
<1> QED BY <1>1, <1>2, Inductive, PTL DEF Spec

(* game_is_over counts with a field that insertions, removals and whole    *)
(* rounds of collisions update one by one: it is the number of players.    *)
THEOREM SizeIsExact == Spec => []SizeCountsPlayers
BY TrailsInductive, PTL DEF Trails

(* No tail is ever longer than the limit of the last move.                 *)
THEOREM TailsStayWithinLimit == Spec => []TailsWithinLimit
BY TrailsInductive, PTL DEF Trails

(* As long as every node is allocated, a tail leads back from the head     *)
(* cell by cell, however often it has been trimmed.                        *)
THEOREM TrailsStayConnected == Spec => []TrailsConnected
BY TrailsInductive, PTL DEF Trails
=============================================================================
