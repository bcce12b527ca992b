--------------------------- MODULE GameStepsProofs ---------------------------
(***************************************************************************)
(* Proofs about GameSteps: the loops of game_move_players amount to the    *)
(* atomic MovePlayers of Game, for every grid, table and tail limit, and   *)
(* what the renderer may read meanwhile.                                   *)
(***************************************************************************)
EXTENDS GameSteps, GameProofs

-----------------------------------------------------------------------------
(* The game as the callers see it: that of the last call that returned.    *)

P0 == IF pc = "idle" THEN players ELSE saved.players
G0 == IF pc = "idle" THEN grid ELSE saved.grid
M0 == IF pc = "idle" THEN maxTailLength ELSE saved.maxTailLength

P == INSTANCE GameProofs WITH players <- P0, grid <- G0, maxTailLength <- M0

-----------------------------------------------------------------------------
(* Where a call is.  What it found and judged when it began (b) does not   *)
(* change; what it has done so far (w) says what the table and the grid    *)
(* are at every step.                                                      *)

Begun == [players |-> saved.players, grid |-> saved.grid,
          new |-> new, dead |-> colliding, limit |-> maxTailLength]

Work ==
  [gone |-> IF pc = "remove" THEN colliding \ todo ELSE colliding,
   done |-> IF pc = "remove" THEN {} ELSE (ptrs \ todo) \ colliding,
   cur  |-> IF pc = "trim" THEN {Min(todo)} ELSE {},
   n    |-> tailLen,
   lost |-> lost]

Ids(b) == DOMAIN b.players.entries

Rec(b, id) == b.players.entries[id]

(* The nodes of a mover before any is trimmed. *)
Nodes(b, w, id) == Grown(Rec(b, id), w.lost)

(* The tail when the trimming loop has passed n nodes. *)
Partly(tail, n, limit) == IF n <= limit THEN tail ELSE SubSeq(tail, 1, limit)

RecordNow(b, w, id) ==
  IF id \in w.done THEN Moved(Rec(b, id), b.new[id], w.lost, b.limit)
  ELSE IF id \in w.cur
       THEN [Rec(b, id) EXCEPT !.tail = Partly(Nodes(b, w, id), w.n, b.limit)]
       ELSE Rec(b, id)

TableIs(b, w, pl) ==
  /\ pl = [entries |-> [id \in Ids(b) \ w.gone |-> pl.entries[id]],
           size    |-> b.players.size - Cardinality(w.gone)]
  /\ \A id \in Ids(b) \ w.gone : pl.entries[id] = RecordNow(b, w, id)

Stamped(w) == w.done \cup w.cur

Freed(b, w, c) ==
  \/ \E id \in w.done : c \in TrimmedCells(Nodes(b, w, id), b.limit)
  \/ \E id \in w.cur : \E i \in b.limit + 1 .. w.n : c = Nodes(b, w, id)[i]

GridIs(b, w, gr) ==
  /\ gr = [c \in Cell |-> gr[c]]
  /\ \A c \in Cell :
       /\ Freed(b, w, c) => gr[c] = 0
       /\ \A id \in Stamped(w) : b.new[id] = c => gr[c] = id
       /\ ~Freed(b, w, c) /\ (\A id \in Stamped(w) : b.new[id] # c) =>
            gr[c] = IF \E id \in w.gone : c \in TrailCells(Rec(b, id))
                    THEN 0 ELSE b.grid[c]

(* The trimming loop is at node tailLen of the list, current is the rest.  *)
AtNode ==
  LET g == Nodes(Begun, Work, Min(todo)) IN
  /\ Min(todo) \notin colliding
  /\ tailLen \in Nat /\ current \in Seq(Cell)
  /\ tailLen + Len(current) = Len(g)
  /\ \A i \in 1 .. Len(current) : current[i] = g[tailLen + i]

(* The legality check: everybody against the grid as the call found it.    *)
Targeted(pl, dirs) ==
  [id \in DOMAIN pl.entries |-> Step(pl.entries[id].position, dirs[id])]

Struck(pl, gr, nw) ==
  {id \in DOMAIN pl.entries :
     \/ ~(nw[id] \in Cell /\ gr[nw[id]] = 0)
     \/ \E other \in DOMAIN pl.entries \ {id} : nw[other] = nw[id]}

Judged(b) ==
  /\ \E dirs \in [Ids(b) -> Direction] : b.new = Targeted(b.players, dirs)
  /\ b.dead = Struck(b.players, b.grid, b.new)

InCall ==
  /\ ptrs = Ids(Begun) /\ todo \subseteq ptrs /\ todo # {}
  /\ Judged(Begun)
  /\ maxTailLength = TailLimit(frame)
  /\ ~overrun
  /\ lost \subseteq Stamped(Work) /\ (~AllocMayFail => lost = {})
  /\ IF pc = "trim" THEN AtNode ELSE tailLen = 0 /\ current = <<>>
  /\ TableIs(Begun, Work, players)
  /\ GridIs(Begun, Work, grid)

AtRest ==
  /\ ptrs = {} /\ todo = {} /\ new = <<>> /\ colliding = {}
  /\ lost = {} /\ tailLen = 0 /\ current = <<>>

(* The inductive invariant: the game the callers see is in order, and a    *)
(* call under way is somewhere between what it found and what it promises. *)
StepsInv ==
  /\ P!IInv
  /\ pc \in {"idle", "remove", "advance", "trim"}
  /\ IF pc = "idle" THEN AtRest ELSE InCall

-----------------------------------------------------------------------------
(* Lemmas about the progress of a call, for any b and w.                   *)

(* What a call finds when it begins: a game in order, and survivors whose  *)
(* targets are free and all different.                                     *)
Ground(b) ==
  /\ b.limit \in Nat /\ b.dead \subseteq Ids(b)
  /\ Ids(b) \subseteq Slot /\ b.grid \in [Cell -> Slot] /\ b.players.size \in Int
  /\ \A id \in Ids(b) :
       /\ id # 0 /\ Rec(b, id) \in PlayerRecord /\ Rec(b, id).id = id
       /\ SimpleTrail(Rec(b, id))
       /\ \A c \in TrailCells(Rec(b, id)) : c \in Cell /\ b.grid[c] = id
  /\ \A id \in Ids(b) \ b.dead :
       /\ b.new[id] \in Cell /\ b.grid[b.new[id]] = 0
       /\ \A other \in Ids(b) \ b.dead : b.new[other] = b.new[id] => other = id

Progress(b, w) ==
  /\ w.gone \subseteq b.dead
  /\ w.done \subseteq Ids(b) \ b.dead /\ w.cur \subseteq Ids(b) \ b.dead
  /\ w.done \cap w.cur = {}
  /\ w.lost \subseteq Stamped(w)
  /\ \A id \in w.cur : w.n \in Nat /\ w.n <= Len(Nodes(b, w, id))

(* The nodes of a mover are its own cells, each of them once.              *)
LEMMA NodeFacts ==
  ASSUME NEW b, Ground(b), NEW w, NEW id \in Ids(b)
  PROVE  /\ Nodes(b, w, id) \in Seq(Cell)
         /\ \A i \in 1 .. Len(Nodes(b, w, id)) : b.grid[Nodes(b, w, id)[i]] = id
         /\ \A i, j \in 1 .. Len(Nodes(b, w, id)) :
              Nodes(b, w, id)[i] = Nodes(b, w, id)[j] => i = j
<1> DEFINE g == Grown(Rec(b, id), w.lost)
<1>1. /\ Rec(b, id) \in PlayerRecord /\ SimpleTrail(Rec(b, id))
      /\ \A c \in TrailCells(Rec(b, id)) : c \in Cell /\ b.grid[c] = id
  BY DEF Ground
<1>2. /\ g \in Seq(Cell)
      /\ \A i \in DOMAIN g : g[i] \in TrailCells(Rec(b, id))
      /\ \A i, j \in DOMAIN g : g[i] = g[j] => i = j
  BY <1>1, GrownFacts
<1>3. DOMAIN g = 1 .. Len(g)
  BY <1>2
<1> HIDE DEF g
<1>4. QED BY <1>1, <1>2, <1>3 DEF Nodes, g

(* A freed cell was the cell of a player who has moved.                    *)
LEMMA FreedFacts ==
  ASSUME NEW b, Ground(b), NEW w, Progress(b, w), NEW c, Freed(b, w, c)
  PROVE  b.grid[c] \in Stamped(w) /\ b.grid[c] # 0
<1>1. ASSUME NEW id \in w.done, c \in TrimmedCells(Nodes(b, w, id), b.limit)
      PROVE  b.grid[c] = id /\ id # 0
  <2>1. id \in Ids(b) /\ id # 0 /\ b.limit \in Nat
    BY DEF Progress, Ground
  <2>2. /\ Nodes(b, w, id) \in Seq(Cell)
        /\ \A i \in 1 .. Len(Nodes(b, w, id)) : b.grid[Nodes(b, w, id)[i]] = id
    BY <2>1, NodeFacts
  <2>3. PICK i \in b.limit + 1 .. Len(Nodes(b, w, id)) : c = Nodes(b, w, id)[i]
    BY <1>1 DEF TrimmedCells
  <2>4. i \in 1 .. Len(Nodes(b, w, id))
    BY <2>1, <2>2, <2>3
  <2>5. QED BY <2>1, <2>2, <2>3, <2>4
<1>2. ASSUME NEW id \in w.cur, NEW i \in b.limit + 1 .. w.n, c = Nodes(b, w, id)[i]
      PROVE  b.grid[c] = id /\ id # 0
  <2>1. id \in Ids(b) /\ id # 0 /\ b.limit \in Nat /\ w.n \in Nat
        /\ w.n <= Len(Nodes(b, w, id))
    BY DEF Progress, Ground
  <2>2. /\ Nodes(b, w, id) \in Seq(Cell)
        /\ \A k \in 1 .. Len(Nodes(b, w, id)) : b.grid[Nodes(b, w, id)[k]] = id
    BY <2>1, NodeFacts
  <2>3. i \in 1 .. Len(Nodes(b, w, id))
    BY <2>1, <2>2
  <2>4. QED BY <1>2, <2>1, <2>2, <2>3
<1>3. QED BY <1>1, <1>2 DEF Freed, Stamped

(* Nobody has stepped on the target of a survivor before its turn.         *)
LEMMA TargetStaysFree ==
  ASSUME NEW b, Ground(b), NEW w, Progress(b, w), NEW gr, GridIs(b, w, gr),
         NEW id \in Ids(b) \ b.dead, id \notin Stamped(w)
  PROVE  b.new[id] \in Cell /\ gr[b.new[id]] = 0
<1>1. b.new[id] \in Cell /\ b.grid[b.new[id]] = 0
  BY DEF Ground
<1>2. ~Freed(b, w, b.new[id])
  BY <1>1, FreedFacts
<1>3. \A other \in Stamped(w) : b.new[other] # b.new[id]
  BY DEF Ground, Progress, Stamped
<1>4. gr[b.new[id]] = IF \E k \in w.gone : b.new[id] \in TrailCells(Rec(b, k))
                      THEN 0 ELSE b.grid[b.new[id]]
  BY <1>1, <1>2, <1>3 DEF GridIs
<1>5. QED BY <1>1, <1>4

(* A cell of somebody who has not been removed and that nobody freed is as *)
(* the call found it.                                                      *)
LEMMA OwnCellKept ==
  ASSUME NEW b, Ground(b), NEW w, Progress(b, w), NEW gr, GridIs(b, w, gr),
         NEW id \in Ids(b) \ w.gone, NEW c \in Cell, b.grid[c] = id, ~Freed(b, w, c)
  PROVE  gr[c] = id
<1>1. id # 0
  BY DEF Ground
<1>2. \A other \in Stamped(w) : b.new[other] # c
  BY <1>1 DEF Ground, Progress, Stamped
<1>3. \A k \in w.gone : c \notin TrailCells(Rec(b, k))
  BY DEF Ground, Progress
<1>4. gr[c] = IF \E k \in w.gone : c \in TrailCells(Rec(b, k)) THEN 0 ELSE b.grid[c]
  BY <1>2 DEF GridIs
<1>5. QED BY <1>3, <1>4

(* The tail of a mover, whole or trimmed, is a piece of its nodes that     *)
(* holds no freed cell.                                                    *)
LEMMA TailNow ==
  ASSUME NEW b, Ground(b), NEW w, Progress(b, w), NEW id \in Stamped(w)
  PROVE  /\ RecordNow(b, w, id) \in PlayerRecord
         /\ RecordNow(b, w, id).id = id
         /\ \A c \in TailCells(RecordNow(b, w, id)) :
              c \in Cell /\ b.grid[c] = id /\ ~Freed(b, w, c)
<1> DEFINE g == Nodes(b, w, id)
           t == IF id \in w.done THEN Kept(g, b.limit) ELSE Partly(g, w.n, b.limit)
           r == RecordNow(b, w, id)
<1>1. /\ id \in Ids(b) /\ b.limit \in Nat /\ b.new[id] \in Cell
      /\ Rec(b, id) \in PlayerRecord /\ Rec(b, id).id = id
      /\ id \in w.done <=> id \notin w.cur
      /\ id \in w.cur => w.n \in Nat /\ w.n <= Len(g)
  BY DEF Ground, Progress, Stamped
<1>2. /\ g \in Seq(Cell)
      /\ \A i \in 1 .. Len(g) : b.grid[g[i]] = id
      /\ \A i, j \in 1 .. Len(g) : g[i] = g[j] => i = j
  BY <1>1, NodeFacts
<1>3. r.tail = t /\ r.id = id /\ r \in PlayerRecord <=> t \in Seq(Cell)
  <2>1. CASE id \in w.done
    <3>1. r = [Rec(b, id) EXCEPT !.position = b.new[id], !.tail = t]
      BY <2>1 DEF RecordNow, Moved, Nodes
    <3> HIDE DEF r, t
    <3>2. QED BY <1>1, <3>1 DEF PlayerRecord
  <2>2. CASE id \notin w.done
    <3>1. r = [Rec(b, id) EXCEPT !.tail = t]
      BY <1>1, <2>2 DEF RecordNow
    <3> HIDE DEF r, t
    <3>2. QED BY <1>1, <3>1 DEF PlayerRecord
  <2>3. QED BY <2>1, <2>2
<1> HIDE DEF r
<1>4. /\ t \in Seq(Cell)
      /\ \A i \in DOMAIN t : i \in 1 .. Len(g) /\ t[i] = g[i]
      /\ \A i \in DOMAIN t : i <= b.limit \/ (id \in w.cur /\ w.n <= b.limit)
  <2>1. CASE id \in w.done
    BY <1>1, <1>2, <2>1, KeptFacts
  <2>2. CASE id \notin w.done /\ w.n <= b.limit
    BY <1>1, <1>2, <2>2 DEF Partly
  <2>3. CASE id \notin w.done /\ ~(w.n <= b.limit)
    <3>1. t = SubSeq(g, 1, b.limit) /\ b.limit <= Len(g)
      BY <1>1, <1>2, <2>3 DEF Partly
    <3> HIDE DEF g, t
    <3>2. QED BY <1>1, <1>2, <3>1
  <2>4. QED BY <2>1, <2>2, <2>3
<1> HIDE DEF t, g
<1>5. ASSUME NEW i \in DOMAIN t, Freed(b, w, t[i])
      PROVE  FALSE
  <2>1. b.grid[t[i]] = id /\ i \in 1 .. Len(g) /\ t[i] = g[i]
    BY <1>2, <1>4
  <2>2. ASSUME NEW k \in w.done, t[i] \in TrimmedCells(Nodes(b, w, k), b.limit)
        PROVE  FALSE
    <3>1. k \in Ids(b)
      BY DEF Progress
    <3>2. PICK j \in b.limit + 1 .. Len(Nodes(b, w, k)) : t[i] = Nodes(b, w, k)[j]
      BY <2>2 DEF TrimmedCells
    <3>3. j \in 1 .. Len(Nodes(b, w, k))
      <4>1. Nodes(b, w, k) \in Seq(Cell)
        BY <3>1, NodeFacts
      <4>2. QED BY <1>1, <3>2, <4>1
    <3>4. k = id
      BY <2>1, <3>1, <3>2, <3>3, NodeFacts
    <3>5. j = i /\ i <= b.limit
      BY <1>1, <1>2, <1>4, <2>1, <2>2, <3>2, <3>3, <3>4 DEF g
    <3>6. QED BY <1>1, <3>2, <3>3, <3>5
  <2>3. ASSUME NEW k \in w.cur, NEW j \in b.limit + 1 .. w.n, t[i] = Nodes(b, w, k)[j]
        PROVE  FALSE
    <3>1. k \in Ids(b) /\ w.n \in Nat /\ w.n <= Len(Nodes(b, w, k))
      BY DEF Progress
    <3>2. j \in 1 .. Len(Nodes(b, w, k))
      <4>1. Nodes(b, w, k) \in Seq(Cell)
        BY <3>1, NodeFacts
      <4>2. QED BY <1>1, <3>1, <4>1
    <3>3. k = id
      BY <2>1, <2>3, <3>1, <3>2, NodeFacts
    <3>4. j = i
      BY <1>1, <1>2, <2>1, <2>3, <3>2, <3>3 DEF g
    <3>5. i <= b.limit \/ w.n <= b.limit
      BY <1>4
    <3>6. QED BY <1>1, <3>1, <3>4, <3>5
  <2>4. QED BY <1>5, <2>2, <2>3 DEF Freed
<1>6. \A c \in TailCells(r) : c \in Cell /\ b.grid[c] = id /\ ~Freed(b, w, c)
  <2>1. \A i \in DOMAIN t : t[i] \in Cell
    BY <1>4
  <2>2. QED BY <1>2, <1>3, <1>4, <1>5, <2>1 DEF TailCells
<1>7. QED BY <1>3, <1>4, <1>6 DEF r

(* At every step of a call, everybody in the table is a well-formed record *)
(* whose tail is marked on the grid.                                       *)
LEMMA MarkedNow ==
  ASSUME NEW b, Ground(b), NEW w, Progress(b, w), NEW gr, GridIs(b, w, gr),
         NEW id \in Ids(b) \ w.gone
  PROVE  /\ RecordNow(b, w, id) \in PlayerRecord
         /\ RecordNow(b, w, id).id = id
         /\ \A c \in TailCells(RecordNow(b, w, id)) : gr[c] = id
<1>1. CASE id \in Stamped(w)
  BY <1>1, TailNow, OwnCellKept
<1>2. CASE id \notin Stamped(w)
  <2>1. RecordNow(b, w, id) = Rec(b, id)
    BY <1>2 DEF RecordNow, Stamped
  <2>2. /\ Rec(b, id) \in PlayerRecord /\ Rec(b, id).id = id
        /\ \A c \in TailCells(Rec(b, id)) : c \in Cell /\ b.grid[c] = id
    BY DEF Ground, TrailCells
  <2>3. \A c \in TailCells(Rec(b, id)) : ~Freed(b, w, c)
    BY <1>2, <2>2, FreedFacts
  <2>4. QED BY <2>1, <2>2, <2>3, OwnCellKept
<1>3. QED BY <1>1, <1>2

(* The grid holds slots only. *)
LEMMA GridTyped ==
  ASSUME NEW b, Ground(b), NEW w, Progress(b, w), NEW gr, GridIs(b, w, gr)
  PROVE  gr \in [Cell -> Slot]
<1>1. 0 \in Slot /\ \A id \in Stamped(w) : id \in Slot
  BY MaxPlayersAssumption DEF Slot, Ground, Progress, Stamped
<1>2. \A c \in Cell : b.grid[c] \in Slot
  BY DEF Ground
<1>3. ASSUME NEW c \in Cell
      PROVE  gr[c] \in Slot
  BY <1>1, <1>2 DEF GridIs
<1>4. QED BY <1>3 DEF GridIs

-----------------------------------------------------------------------------
(* What each step makes of the table and the grid.  v is the progress      *)
(* after the step.                                                         *)

(* A table of which one record is replaced. *)
LEMMA PutRecord ==
  ASSUME NEW pl, NEW D, NEW size, NEW id \in D, NEW r, NEW q,
         pl = [entries |-> [k \in D |-> pl.entries[k]], size |-> size],
         q = [pl EXCEPT !.entries = [pl.entries EXCEPT ![id] = r]]
  PROVE  /\ q = [entries |-> [k \in D |-> q.entries[k]], size |-> size]
         /\ q.entries[id] = r
         /\ \A k \in D : k # id => q.entries[k] = pl.entries[k]
<1> DEFINE e == [pl.entries EXCEPT ![id] = r]
<1>1. DOMAIN pl.entries = D /\ pl.entries = [k \in D |-> pl.entries[k]]
  <2> DEFINE f == [k \in D |-> pl.entries[k]]
  <2>1. pl = [entries |-> f, size |-> size]
    OBVIOUS
  <2>2. DOMAIN f = D /\ f = [k \in D |-> f[k]]
    OBVIOUS
  <2> HIDE DEF f
  <2>3. pl.entries = f
    BY <2>1
  <2>4. QED BY <2>2, <2>3
<1>2. e = [k \in D |-> e[k]] /\ e[id] = r /\ \A k \in D : k # id => e[k] = pl.entries[k]
  BY <1>1
<1>3. q = [entries |-> e, size |-> size]
  <2> DEFINE f == [k \in D |-> pl.entries[k]]
  <2> HIDE DEF e, f
  <2>1. pl = [entries |-> f, size |-> size]
    BY DEF f
  <2>2. q = [pl EXCEPT !.entries = e]
    BY DEF e
  <2>3. QED BY <2>1, <2>2
<1> HIDE DEF e
<1>4. q.entries = e
  BY <1>3
<1>5. QED BY <1>2, <1>3, <1>4

WithoutTrail(gr, p) == [c \in Cell |-> IF c \in TrailCells(p) THEN 0 ELSE gr[c]]

(* Removing one of the dead: its whole trail leaves the grid with it.      *)
LEMMA RemoveKeeps ==
  ASSUME NEW b, Ground(b), NEW w, Progress(b, w), NEW pl, TableIs(b, w, pl),
         NEW gr, GridIs(b, w, gr), w.done = {}, w.cur = {},
         NEW id \in b.dead \ w.gone, NEW v,
         v.gone = w.gone \cup {id}, v.done = {}, v.cur = {}
  PROVE  /\ TableIs(b, v, MapDelete(pl, id))
         /\ GridIs(b, v, WithoutTrail(gr, Rec(b, id)))
<1> DEFINE D == Ids(b) \ w.gone
           E == Ids(b) \ v.gone
           f == [k \in D |-> pl.entries[k]]
           size == b.players.size - Cardinality(w.gone)
<1>1. id \in D /\ E = D \ {id}
  BY DEF Ground
<1>2. Cardinality(v.gone) = Cardinality(w.gone) + 1 /\ Cardinality(w.gone) \in Nat
  <2>1. IsFiniteSet(w.gone)
    <3>1. w.gone \subseteq Slot
      BY DEF Ground, Progress
    <3>2. IsFiniteSet(Slot)
      BY MaxPlayersAssumption, FS_Interval DEF Slot
    <3>3. QED BY <3>1, <3>2, FS_Subset
  <2>2. QED BY <2>1, FS_AddElement, FS_CardinalityType
<1>3. pl = [entries |-> f, size |-> size] /\ DOMAIN f = D
      /\ \A k \in D : f[k] = RecordNow(b, w, k)
  BY DEF TableIs
<1> HIDE DEF f, size
<1>4. pl.entries = f /\ pl.size = size
  BY <1>3
<1>5. MapDelete(pl, id) = [entries |-> [k \in E |-> f[k]], size |-> size - 1]
  BY <1>1, <1>3, <1>4 DEF MapDelete, Occupied
<1>6. \A k \in E : RecordNow(b, v, k) = RecordNow(b, w, k)
  BY DEF RecordNow
<1>7. size - 1 = b.players.size - Cardinality(v.gone)
  BY <1>2 DEF size, Ground
<1> DEFINE q == MapDelete(pl, id)
<1>8. q.entries = [k \in E |-> f[k]] /\ q.size = size - 1
  BY <1>5
<1>9. TableIs(b, v, q)
  <2>1. [k \in E |-> q.entries[k]] = [k \in E |-> f[k]]
    BY <1>8
  <2>2. \A k \in E : q.entries[k] = RecordNow(b, v, k)
    BY <1>1, <1>3, <1>6, <1>8
  <2> HIDE DEF q
  <2>3. QED BY <1>5, <1>7, <2>1, <2>2 DEF TableIs, q
<1>10. GridIs(b, v, WithoutTrail(gr, Rec(b, id)))
  <2>1. Stamped(v) = {} /\ Stamped(w) = {} /\ \A c : ~Freed(b, v, c) /\ ~Freed(b, w, c)
    BY DEF Stamped, Freed
  <2>2. \A c \in Cell : gr[c] = IF \E k \in w.gone : c \in TrailCells(Rec(b, k))
                                THEN 0 ELSE b.grid[c]
    BY <2>1 DEF GridIs
  <2>3. QED BY <2>1, <2>2 DEF GridIs, WithoutTrail
<1>11. QED BY <1>9, <1>10

(* Stamping the new head and pushing the node of the old one.              *)
LEMMA StampKeeps ==
  ASSUME NEW b, Ground(b), NEW w, Progress(b, w), NEW pl, TableIs(b, w, pl),
         NEW gr, GridIs(b, w, gr), w.cur = {},
         NEW id \in Ids(b) \ b.dead, id \notin w.done, NEW v,
         v.gone = w.gone, v.done = w.done, v.cur = {id}, v.n = 0,
         v.lost = w.lost \/ v.lost = w.lost \cup {id}
  PROVE  /\ TableIs(b, v, [pl EXCEPT !.entries = [pl.entries EXCEPT ![id] =
                             [Rec(b, id) EXCEPT !.tail = Nodes(b, v, id)]]])
         /\ GridIs(b, v, [gr EXCEPT ![b.new[id]] = id])
<1> DEFINE D == Ids(b) \ w.gone
           r == [Rec(b, id) EXCEPT !.tail = Nodes(b, v, id)]
           q == [pl EXCEPT !.entries = [pl.entries EXCEPT ![id] = r]]
           h == [gr EXCEPT ![b.new[id]] = id]
<1>1. id \in D /\ b.limit \in Nat /\ id # 0
      /\ b.new[id] \in Cell /\ b.grid[b.new[id]] = 0
  BY DEF Ground, Progress
<1>2. \A k \in w.done : Nodes(b, v, k) = Nodes(b, w, k)
  <2>1. \A k \in w.done : Rec(b, k).id = k /\ k # id
    BY DEF Ground, Progress
  <2>2. QED BY <2>1 DEF Nodes, Grown
<1>3. \A k \in D : k # id => RecordNow(b, v, k) = RecordNow(b, w, k)
  BY <1>2 DEF RecordNow, Nodes, Moved
<1>4. RecordNow(b, v, id) = r
  BY <1>1 DEF RecordNow, Partly
<1>5. TableIs(b, v, q)
  <2>1. /\ pl = [entries |-> [k \in D |-> pl.entries[k]],
                 size |-> b.players.size - Cardinality(w.gone)]
        /\ \A k \in D : pl.entries[k] = RecordNow(b, w, k)
    BY DEF TableIs
  <2> HIDE DEF D, r
  <2>2. /\ q = [entries |-> [k \in D |-> q.entries[k]],
                size |-> b.players.size - Cardinality(w.gone)]
        /\ q.entries[id] = r
        /\ \A k \in D : k # id => q.entries[k] = pl.entries[k]
    BY <1>1, <2>1, PutRecord
  <2> HIDE DEF q
  <2>3. \A k \in D : q.entries[k] = RecordNow(b, v, k)
    BY <1>3, <1>4, <2>1, <2>2
  <2>4. QED BY <2>2, <2>3 DEF TableIs, D
<1>6. \A c : Freed(b, v, c) <=> Freed(b, w, c)
  BY <1>1, <1>2 DEF Freed
<1>7. GridIs(b, v, h)
  <2>1. /\ h = [c \in Cell |-> h[c]] /\ h[b.new[id]] = id
        /\ \A c \in Cell : c # b.new[id] => h[c] = gr[c]
    BY <1>1 DEF GridIs
  <2> HIDE DEF h
  <2>2. Stamped(v) = w.done \cup {id} /\ Stamped(w) = w.done
    BY DEF Stamped
  <2>3. ~Freed(b, w, b.new[id])
    BY <1>1, FreedFacts
  <2>4. \A k \in w.done : b.new[k] # b.new[id]
    BY DEF Ground, Progress
  <2>5. ASSUME NEW c \in Cell
        PROVE  /\ Freed(b, v, c) => h[c] = 0
               /\ \A k \in Stamped(v) : b.new[k] = c => h[c] = k
               /\ ~Freed(b, v, c) /\ (\A k \in Stamped(v) : b.new[k] # c) =>
                    h[c] = IF \E k \in v.gone : c \in TrailCells(Rec(b, k))
                           THEN 0 ELSE b.grid[c]
    BY <1>6, <2>1, <2>2, <2>3, <2>4 DEF GridIs
  <2>6. QED BY <2>1, <2>5 DEF GridIs
<1>8. QED BY <1>5, <1>7

(* One node of the list: past the limit it is freed with its cell.         *)
LEMMA TrimKeeps ==
  ASSUME NEW b, Ground(b), NEW w, Progress(b, w), NEW pl, TableIs(b, w, pl),
         NEW gr, GridIs(b, w, gr), NEW id, w.cur = {id}, NEW v,
         v.gone = w.gone, v.done = w.done, v.cur = {id}, v.n = w.n + 1,
         v.lost = w.lost, w.n < Len(Nodes(b, w, id))
  PROVE  /\ v.n <= b.limit => TableIs(b, v, pl) /\ GridIs(b, v, gr)
         /\ v.n > b.limit =>
              /\ TableIs(b, v, [pl EXCEPT !.entries = [pl.entries EXCEPT ![id] =
                   [pl.entries[id] EXCEPT !.tail = SubSeq(@, 1, b.limit)]]])
              /\ GridIs(b, v, [gr EXCEPT ![Nodes(b, w, id)[v.n]] = 0])
<1> DEFINE D == Ids(b) \ w.gone
           g == Nodes(b, w, id)
<1>1. /\ id \in Ids(b) \ b.dead /\ id \in D /\ b.limit \in Nat /\ id # 0
      /\ id \notin w.done /\ w.n \in Nat /\ Rec(b, id) \in PlayerRecord
  BY DEF Ground, Progress
<1>2. /\ g \in Seq(Cell)
      /\ \A i \in 1 .. Len(g) : b.grid[g[i]] = id
      /\ \A i, j \in 1 .. Len(g) : g[i] = g[j] => i = j
      /\ \A k : Nodes(b, v, k) = Nodes(b, w, k)
  BY <1>1, NodeFacts DEF Nodes
<1>3. Stamped(v) = Stamped(w) /\ Stamped(w) = w.done \cup {id}
  BY DEF Stamped
<1>4. \A k \in D : k # id => RecordNow(b, v, k) = RecordNow(b, w, k)
  BY DEF RecordNow, Moved, Nodes
<1>5. CASE v.n <= b.limit
  <2>1. \A n \in {w.n, v.n} : Partly(g, n, b.limit) = g
    BY <1>1, <1>5 DEF Partly
  <2>2. RecordNow(b, v, id) = RecordNow(b, w, id)
    BY <1>1, <1>2, <2>1 DEF RecordNow
  <2>3. TableIs(b, v, pl)
    BY <1>4, <2>2 DEF TableIs
  <2>4. b.limit + 1 .. w.n = {} /\ b.limit + 1 .. v.n = {}
    BY <1>1, <1>5
  <2>5. \A c : Freed(b, v, c) <=> Freed(b, w, c)
    BY <1>2, <2>4 DEF Freed
  <2>6. GridIs(b, v, gr)
    BY <1>3, <2>5 DEF GridIs
  <2>7. QED BY <1>1, <1>5, <2>3, <2>6
<1>6. CASE v.n > b.limit
  <2> DEFINE t == pl.entries[id].tail
             s == SubSeq(g, 1, b.limit)
             r == [pl.entries[id] EXCEPT !.tail = SubSeq(@, 1, b.limit)]
             q == [pl EXCEPT !.entries = [pl.entries EXCEPT ![id] = r]]
             x == g[v.n]
             h == [gr EXCEPT ![x] = 0]
  <2>1. /\ v.n \in 1 .. Len(g) /\ x \in Cell /\ b.grid[x] = id
        /\ b.limit <= Len(g) /\ w.n >= b.limit
    BY <1>1, <1>2, <1>6
  <2>2. s \in Seq(Cell) /\ Len(s) = b.limit /\ SubSeq(s, 1, b.limit) = s
        /\ SubSeq(g, 1, b.limit) = s
    <3>1. s \in Seq(Cell) /\ Len(s) = b.limit
      BY <1>1, <1>2, <2>1
    <3> HIDE DEF s
    <3>2. SubSeq(s, 1, Len(s)) = s
      BY <3>1, SubSeqFull
    <3>3. QED BY <3>1, <3>2 DEF s
  <2>3. pl.entries[id] = [Rec(b, id) EXCEPT !.tail = Partly(g, w.n, b.limit)]
    <3>1. pl.entries[id] = RecordNow(b, w, id)
      BY <1>1 DEF TableIs
    <3>2. QED BY <1>1, <3>1 DEF RecordNow
  <2>4. SubSeq(Partly(g, w.n, b.limit), 1, b.limit) = s
    <3>1. CASE w.n <= b.limit
      BY <2>2, <3>1 DEF Partly
    <3>2. CASE ~(w.n <= b.limit)
      BY <2>2, <3>2 DEF Partly
    <3>3. QED BY <3>1, <3>2
  <2>5. r = [Rec(b, id) EXCEPT !.tail = s]
    <3> DEFINE part == Partly(g, w.n, b.limit)
    <3> HIDE DEF s, part, g
    <3>1. pl.entries[id].tail = part
      BY <1>1, <2>3 DEF PlayerRecord, part
    <3>2. SubSeq(part, 1, b.limit) = s
      BY <2>4 DEF part
    <3>3. r = [pl.entries[id] EXCEPT !.tail = s]
      BY <3>1, <3>2
    <3>4. QED BY <1>1, <2>3, <3>3 DEF PlayerRecord, part
  <2>6. RecordNow(b, v, id) = r
    <3>1. Partly(g, v.n, b.limit) = s
      BY <1>1, <1>6 DEF Partly
    <3>2. RecordNow(b, v, id) = [Rec(b, id) EXCEPT !.tail = Partly(g, v.n, b.limit)]
      BY <1>1, <1>2 DEF RecordNow
    <3>3. QED BY <2>5, <3>1, <3>2
  <2>7. TableIs(b, v, q)
    <3>1. /\ pl = [entries |-> [k \in D |-> pl.entries[k]],
                   size |-> b.players.size - Cardinality(w.gone)]
          /\ \A k \in D : pl.entries[k] = RecordNow(b, w, k)
      BY DEF TableIs
    <3> HIDE DEF D, r
    <3>2. /\ q = [entries |-> [k \in D |-> q.entries[k]],
                  size |-> b.players.size - Cardinality(w.gone)]
          /\ q.entries[id] = r
          /\ \A k \in D : k # id => q.entries[k] = pl.entries[k]
      BY <1>1, <3>1, PutRecord
    <3> HIDE DEF q
    <3>3. \A k \in D : q.entries[k] = RecordNow(b, v, k)
      BY <1>4, <2>6, <3>1, <3>2
    <3>4. QED BY <3>2, <3>3 DEF TableIs, D
  <2> HIDE DEF r, q, s, t
  <2>8. \A c : Freed(b, v, c) <=> Freed(b, w, c) \/ c = x
    <3>1. b.limit + 1 .. v.n = (b.limit + 1 .. w.n) \cup {v.n}
      BY <1>1, <1>6
    <3> HIDE DEF g
    <3>2. QED BY <1>2, <3>1 DEF Freed, g
  <2>9. GridIs(b, v, h)
    <3>1. /\ h = [c \in Cell |-> h[c]] /\ h[x] = 0
          /\ \A c \in Cell : c # x => h[c] = gr[c]
      BY <2>1 DEF GridIs
    <3> HIDE DEF h, x
    <3>2. \A k \in Stamped(w) : b.new[k] # x
      BY <1>1, <1>3, <2>1 DEF Ground, Progress
    <3>3. ASSUME NEW c \in Cell
          PROVE  /\ Freed(b, v, c) => h[c] = 0
                 /\ \A k \in Stamped(v) : b.new[k] = c => h[c] = k
                 /\ ~Freed(b, v, c) /\ (\A k \in Stamped(v) : b.new[k] # c) =>
                      h[c] = IF \E k \in v.gone : c \in TrailCells(Rec(b, k))
                             THEN 0 ELSE b.grid[c]
      BY <1>3, <2>8, <3>1, <3>2 DEF GridIs
    <3>4. QED BY <3>1, <3>3 DEF GridIs
  <2>10. QED BY <1>1, <1>6, <2>7, <2>9 DEF q, r
<1>7. QED BY <1>1, <1>5, <1>6

(* The head moves when the last node has been looked at.                   *)
LEMMA PlaceKeeps ==
  ASSUME NEW b, Ground(b), NEW w, Progress(b, w), NEW pl, TableIs(b, w, pl),
         NEW gr, GridIs(b, w, gr), NEW id, w.cur = {id}, NEW v,
         v.gone = w.gone, v.done = w.done \cup {id}, v.cur = {},
         v.lost = w.lost, w.n = Len(Nodes(b, w, id))
  PROVE  /\ TableIs(b, v, [pl EXCEPT !.entries = [pl.entries EXCEPT ![id] =
                             [pl.entries[id] EXCEPT !.position = b.new[id]]]])
         /\ GridIs(b, v, gr)
<1> DEFINE D == Ids(b) \ w.gone
           g == Nodes(b, w, id)
           r == [pl.entries[id] EXCEPT !.position = b.new[id]]
           q == [pl EXCEPT !.entries = [pl.entries EXCEPT ![id] = r]]
<1>1. /\ id \in D /\ b.limit \in Nat /\ id \notin w.done
      /\ w.n \in Nat /\ Rec(b, id) \in PlayerRecord
  BY DEF Ground, Progress
<1>2. \A k : Nodes(b, v, k) = Nodes(b, w, k)
  BY DEF Nodes
<1>3. \A k \in D : k # id => RecordNow(b, v, k) = RecordNow(b, w, k)
  BY DEF RecordNow, Moved
<1>4. Partly(g, w.n, b.limit) = Kept(g, b.limit)
  BY DEF Partly, Kept
<1>5. RecordNow(b, v, id) = r
  <2>1. RecordNow(b, v, id) = [Rec(b, id) EXCEPT !.position = b.new[id],
                                                 !.tail = Kept(g, b.limit)]
    BY DEF RecordNow, Moved, Nodes
  <2>2. pl.entries[id] = [Rec(b, id) EXCEPT !.tail = Kept(g, b.limit)]
    <3>1. pl.entries[id] = RecordNow(b, w, id)
      BY <1>1 DEF TableIs
    <3>2. QED BY <1>1, <1>4, <3>1 DEF RecordNow
  <2> DEFINE k == Kept(g, b.limit)
  <2> HIDE DEF k
  <2>3. QED BY <1>1, <2>1, <2>2 DEF PlayerRecord, k
<1>6. TableIs(b, v, q)
  <2>1. /\ pl = [entries |-> [k \in D |-> pl.entries[k]],
                 size |-> b.players.size - Cardinality(w.gone)]
        /\ \A k \in D : pl.entries[k] = RecordNow(b, w, k)
    BY DEF TableIs
  <2> HIDE DEF D, r
  <2>2. /\ q = [entries |-> [k \in D |-> q.entries[k]],
                size |-> b.players.size - Cardinality(w.gone)]
        /\ q.entries[id] = r
        /\ \A k \in D : k # id => q.entries[k] = pl.entries[k]
    BY <1>1, <2>1, PutRecord
  <2> HIDE DEF q
  <2>3. \A k \in D : q.entries[k] = RecordNow(b, v, k)
    BY <1>3, <1>5, <2>1, <2>2
  <2>4. QED BY <2>2, <2>3 DEF TableIs, D
<1>7. Stamped(v) = Stamped(w)
  BY DEF Stamped
<1>8. \A c : Freed(b, v, c) <=> Freed(b, w, c)
  <2>1. \A c : c \in TrimmedCells(g, b.limit) <=>
                 \E i \in b.limit + 1 .. w.n : c = g[i]
    BY DEF TrimmedCells
  <2> HIDE DEF g
  <2>2. QED BY <1>2, <2>1 DEF Freed, g
<1>9. GridIs(b, v, gr)
  BY <1>7, <1>8 DEF GridIs
<1>10. QED BY <1>6, <1>9

(* What the atomic move makes of a table and a grid. *)
TableAfter(p0, nw, dead, l, limit) ==
  [entries |-> [id \in DOMAIN p0.entries \ dead |->
                  Moved(p0.entries[id], nw[id], l, limit)],
   size    |-> p0.size - Cardinality(dead)]

CellAfter(p0, g0, nw, dead, l, limit, c) ==
  LET movers == DOMAIN p0.entries \ dead IN
  IF \E id \in movers : c \in TrimmedCells(Grown(p0.entries[id], l), limit)
  THEN 0
  ELSE IF \E id \in movers : nw[id] = c
       THEN CHOOSE id \in movers : nw[id] = c
       ELSE IF \E id \in dead : c \in TrailCells(p0.entries[id])
            THEN 0 ELSE g0[c]

(* When every survivor has moved, the table and the grid are those of the  *)
(* atomic move.                                                            *)
LEMMA CallEnds ==
  ASSUME NEW b, Ground(b), NEW w, Progress(b, w), NEW pl, TableIs(b, w, pl),
         NEW gr, GridIs(b, w, gr),
         w.gone = b.dead, w.done = Ids(b) \ b.dead, w.cur = {}
  PROVE  /\ pl = TableAfter(b.players, b.new, b.dead, w.lost, b.limit)
         /\ gr = [c \in Cell |-> gr[c]]
         /\ \A c \in Cell :
              gr[c] = CellAfter(b.players, b.grid, b.new, b.dead, w.lost, b.limit, c)
<1> DEFINE D == Ids(b) \ b.dead
           m(id) == Moved(Rec(b, id), b.new[id], w.lost, b.limit)
           size == b.players.size - Cardinality(b.dead)
<1>1. pl = [entries |-> [id \in D |-> m(id)], size |-> size]
  <2>1. /\ pl = [entries |-> [id \in D |-> pl.entries[id]], size |-> size]
        /\ \A id \in D : pl.entries[id] = m(id)
    BY DEF TableIs, RecordNow
  <2>2. [id \in D |-> pl.entries[id]] = [id \in D |-> m(id)]
    BY <2>1
  <2> HIDE DEF D, m, size
  <2>3. QED BY <2>1, <2>2
<1>2. \A c : Freed(b, w, c) <=> \E id \in D : c \in TrimmedCells(Grown(Rec(b, id), w.lost), b.limit)
  BY DEF Freed, Nodes
<1>3. Stamped(w) = D
  BY DEF Stamped
<1>4. \A id \in D : \A other \in D : b.new[other] = b.new[id] => other = id
  BY DEF Ground
<1>5. gr = [c \in Cell |-> gr[c]]
  BY DEF GridIs
<1> DEFINE want(c) == CellAfter(b.players, b.grid, b.new, b.dead, w.lost, b.limit, c)
<1>6. \A c : want(c) =
        IF \E id \in D : c \in TrimmedCells(Grown(Rec(b, id), w.lost), b.limit)
        THEN 0
        ELSE IF \E id \in D : b.new[id] = c
             THEN CHOOSE id \in D : b.new[id] = c
             ELSE IF \E id \in b.dead : c \in TrailCells(Rec(b, id))
                  THEN 0 ELSE b.grid[c]
  BY DEF CellAfter, Ids, Rec
<1> HIDE DEF D, want
<1>7. ASSUME NEW c \in Cell
      PROVE  gr[c] = want(c)
  <2>1. CASE Freed(b, w, c)
    BY <1>2, <1>6, <2>1 DEF GridIs
  <2>2. CASE ~Freed(b, w, c) /\ \E id \in D : b.new[id] = c
    <3>1. PICK id \in D : b.new[id] = c
      BY <2>2
    <3>2. (CHOOSE other \in D : b.new[other] = c) = id
      BY <1>4, <3>1
    <3>3. gr[c] = id
      BY <1>3, <3>1 DEF GridIs
    <3>4. QED BY <1>2, <1>6, <2>2, <3>2, <3>3
  <2>3. CASE ~Freed(b, w, c) /\ ~\E id \in D : b.new[id] = c
    BY <1>2, <1>3, <1>6, <2>3 DEF GridIs
  <2>4. QED BY <2>1, <2>2, <2>3
<1>8. pl = TableAfter(b.players, b.new, b.dead, w.lost, b.limit)
  BY <1>1 DEF TableAfter, D, m, size, Ids, Rec
<1>9. QED BY <1>5, <1>7, <1>8 DEF want

-----------------------------------------------------------------------------
(* The game as the callers see it, in terms of what they see.              *)

(* What Game says of cells, directions and records does not depend on who  *)
(* looks at it.                                                            *)
LEMMA SameRules ==
  /\ P!Slot = Slot /\ P!Cell = Cell /\ P!Direction = Direction
  /\ P!PlayerRecord = PlayerRecord
  /\ \A p : P!TailCells(p) = TailCells(p)
  /\ \A p : P!TrailCells(p) = TrailCells(p)
  /\ \A p : P!SimpleTrail(p) <=> SimpleTrail(p)
  /\ \A map : P!Occupied(map) = Occupied(map)
  /\ \A f : P!TailLimit(f) = TailLimit(f)
  /\ \A pos, dir : P!Step(pos, dir) = Step(pos, dir)
  /\ \A p, l : P!Grown(p, l) = Grown(p, l)
  /\ \A p, pos, l, limit : P!Moved(p, pos, l, limit) = Moved(p, pos, l, limit)
  /\ \A tail, limit : P!TrimmedCells(tail, limit) = TrimmedCells(tail, limit)
<1>1. P!Slot = Slot /\ P!Cell = Cell /\ P!Direction = Direction
  BY DEF P!Slot, Slot, P!Cell, Cell, P!Direction, Direction
<1>2. P!PlayerRecord = PlayerRecord
  BY <1>1 DEF P!PlayerRecord, PlayerRecord
<1>3. \A p : P!TailCells(p) = TailCells(p)
  BY DEF P!TailCells, TailCells
<1>4. \A p : P!TrailCells(p) = TrailCells(p)
  BY <1>3 DEF P!TrailCells, TrailCells
<1>5. \A p : P!SimpleTrail(p) <=> SimpleTrail(p)
  BY <1>3 DEF P!SimpleTrail, SimpleTrail
<1>6. \A map : P!Occupied(map) = Occupied(map)
  BY DEF P!Occupied, Occupied
<1>7. \A f : P!TailLimit(f) = TailLimit(f)
  BY DEF P!TailLimit, TailLimit
<1>8. \A pos, dir : P!Step(pos, dir) = Step(pos, dir)
  BY DEF P!Step, Step, P!DirectionToVector, DirectionToVector
<1>9. \A p, l : P!Grown(p, l) = Grown(p, l)
  BY DEF P!Grown, Grown
<1>10. \A p, pos, l, limit : P!Moved(p, pos, l, limit) = Moved(p, pos, l, limit)
  BY <1>9 DEF P!Moved, Moved, P!Kept, Kept
<1>11. \A tail, limit : P!TrimmedCells(tail, limit) = TrimmedCells(tail, limit)
  BY DEF P!TrimmedCells, TrimmedCells
<1>12. QED BY <1>1, <1>2, <1>3, <1>4, <1>5, <1>6, <1>7, <1>8, <1>9, <1>10, <1>11

(* The same of the number of elements of a set.                            *)
LEMMA SameCardinality ==
  \A S : P!Cardinality(S) = Cardinality(S)
BY DEF P!Cardinality, Cardinality

(* The invariant of Game, of the game that the callers see. *)
LEMMA SeenInv ==
  ASSUME P!IInv
  PROVE  /\ P!Active = DOMAIN P0.entries /\ DOMAIN P0.entries \subseteq Slot
         /\ P0 = [entries |-> [id \in DOMAIN P0.entries |-> P0.entries[id]],
                  size    |-> P0.size]
         /\ P0.size \in Int /\ G0 \in [Cell -> Slot] /\ M0 \in Nat
         /\ frame \in 0 .. MaxFrame /\ idCounter \in 1 .. MaxPlayers
         /\ gameStarted \in BOOLEAN /\ overrun \in BOOLEAN
         /\ \A id \in DOMAIN P0.entries :
              /\ id # 0 /\ P0.entries[id] \in PlayerRecord /\ P0.entries[id].id = id
              /\ SimpleTrail(P0.entries[id])
              /\ \A c \in TrailCells(P0.entries[id]) : c \in Cell /\ G0[c] = id
<1>1. P!Active = DOMAIN P0.entries
  BY DEF P!Active, P!Occupied
<1>2. /\ P!TypeOK /\ P!IdsFresh /\ P!TrailsMarked /\ P!TrailsSimple
  BY DEF P!IInv, P!GridMatchesTrails
<1>3. /\ DOMAIN P0.entries \subseteq Slot
      /\ P0 = [entries |-> [id \in DOMAIN P0.entries |-> P0.entries[id]],
               size    |-> P0.size]
      /\ P0.size \in Int /\ G0 \in [Cell -> Slot] /\ M0 \in Nat
      /\ frame \in 0 .. MaxFrame /\ idCounter \in 1 .. MaxPlayers
      /\ gameStarted \in BOOLEAN /\ overrun \in BOOLEAN
      /\ \A id \in DOMAIN P0.entries : P0.entries[id] \in PlayerRecord
  BY <1>1, <1>2, SameRules DEF P!TypeOK
<1>4. \A id \in DOMAIN P0.entries : id # 0 /\ P0.entries[id].id = id
  BY <1>1, <1>2, <1>3, MaxPlayersAssumption DEF P!IdsFresh
<1>5. \A id \in DOMAIN P0.entries : SimpleTrail(P0.entries[id])
  BY <1>1, <1>2, SameRules DEF P!TrailsSimple
<1>6. \A id \in DOMAIN P0.entries : \A c \in TrailCells(P0.entries[id]) : G0[c] = id
  BY <1>1, <1>2, SameRules DEF P!TrailsMarked
<1>7. \A id \in DOMAIN P0.entries : \A c \in TrailCells(P0.entries[id]) : c \in Cell
  BY <1>3 DEF TrailCells, TailCells, PlayerRecord
<1>8. QED BY <1>1, <1>3, <1>4, <1>5, <1>6, <1>7

(* What the judgement means: the dead are those of the rule of the game.   *)
LEMMA SeenJudgement ==
  /\ \A dirs : P!Targets(dirs) = Targeted(P0, dirs)
  /\ \A nw : P!Colliding(nw) = Struck(P0, G0, nw)
<1>1. P!Active = DOMAIN P0.entries
  BY DEF P!Active, P!Occupied
<1>2. \A dirs : P!Targets(dirs) = Targeted(P0, dirs)
  BY <1>1, SameRules DEF P!Targets, Targeted
<1>3. \A pos : P!IsLegalMove(pos) <=> pos \in Cell /\ G0[pos] = 0
  BY SameRules DEF P!IsLegalMove
<1>4. \A nw : P!Colliding(nw) = Struck(P0, G0, nw)
  BY <1>1, <1>3 DEF P!Colliding, Struck
<1>5. QED BY <1>2, <1>4

(* What has to be seen of a call for it to be the atomic move.             *)
LEMMA SeenMove ==
  ASSUME NEW dirs, NEW l, NEW nw, NEW dead, P!Targets(dirs) = nw, P!Colliding(nw) = dead,
         NEW limit, limit = TailLimit(frame), ~overrun, M0' = limit,
         dead \subseteq DOMAIN P0.entries,
         P0' = TableAfter(P0, nw, dead, l, limit),
         G0' = [c \in Cell |-> G0'[c]],
         \A c \in Cell : G0'[c] = CellAfter(P0, G0, nw, dead, l, limit, c),
         UNCHANGED <<frame, idCounter, gameStarted, overrun>>
  PROVE  P!MovePlayers(dirs, l)
<1> DEFINE A == DOMAIN P0.entries
           D == A \ dead
           remaining == P!MapDeleteAll(P0, dead)
<1>1. P!Active = A
  BY DEF P!Active, P!Occupied
<1>2. P!PlayersAfter(nw, dead, l, limit) = P0'
  <2>1. remaining = [entries |-> [id \in D |-> P0.entries[id]],
                     size    |-> P0.size - Cardinality(dead)]
    <3> DEFINE both == dead \cap A
    <3>1. both = dead
      OBVIOUS
    <3>2. remaining = [entries |-> [id \in D |-> P0.entries[id]],
                       size    |-> P0.size - Cardinality(both)]
      BY SameCardinality DEF P!MapDeleteAll, P!Occupied
    <3> HIDE DEF both, remaining, D
    <3>3. QED BY <3>1, <3>2
  <2>2. P!Occupied(remaining) = D
    BY <2>1 DEF P!Occupied
  <2>3. P!PlayersAfter(nw, dead, l, limit) =
          [remaining EXCEPT !.entries =
             [id \in P!Occupied(remaining) |-> P!Moved(@[id], nw[id], l, limit)]]
    BY DEF P!PlayersAfter
  <2>4. [id \in D |-> P!Moved(remaining.entries[id], nw[id], l, limit)]
        = [id \in D |-> Moved(P0.entries[id], nw[id], l, limit)]
    BY <2>1, SameRules
  <2> HIDE DEF remaining, D
  <2>5. P!PlayersAfter(nw, dead, l, limit) =
          [entries |-> [id \in D |-> Moved(P0.entries[id], nw[id], l, limit)],
           size    |-> P0.size - Cardinality(dead)]
    BY <2>1, <2>2, <2>3, <2>4
  <2>6. QED BY <2>5 DEF D, TableAfter
<1>3. P!GridAfter(nw, dead, l, limit) = G0'
  <2>1. \A c \in Cell : P!Cleared(dead)[c] =
          IF \E id \in dead : c \in TrailCells(P0.entries[id]) THEN 0 ELSE G0[c]
    BY SameRules DEF P!Cleared
  <2>2. P!GridAfter(nw, dead, l, limit) =
          [c \in Cell |->
             IF \E id \in D : c \in TrimmedCells(Grown(P0.entries[id], l), limit)
             THEN 0
             ELSE IF \E id \in D : nw[id] = c
                  THEN CHOOSE id \in D : nw[id] = c
                  ELSE P!Cleared(dead)[c]]
    BY <1>1, SameRules DEF P!GridAfter
  <2>3. \A c \in Cell :
          P!GridAfter(nw, dead, l, limit)[c] = CellAfter(P0, G0, nw, dead, l, limit, c)
    BY <2>1, <2>2 DEF CellAfter
  <2>4. P!GridAfter(nw, dead, l, limit)
          = [c \in Cell |-> P!GridAfter(nw, dead, l, limit)[c]]
    BY <2>2
  <2>5. QED BY <2>3, <2>4
<1>4. P!TailLimit(frame) = limit
  BY SameRules
<1>5. QED BY <1>2, <1>3, <1>4 DEF P!MovePlayers

-----------------------------------------------------------------------------
(* A call that is under way.                                               *)

(* During a call, everything the lemmas on its progress ask for holds.     *)
LEMMA CallFacts ==
  ASSUME StepsInv, pc # "idle"
  PROVE  /\ InCall /\ P0 = saved.players /\ G0 = saved.grid
         /\ Ground(Begun) /\ Progress(Begun, Work)
         /\ ptrs \subseteq Slot /\ 0 \notin ptrs
         /\ Min(todo) \in todo /\ Min(todo) \in ptrs
         /\ Active = ptrs \ Work.gone
         /\ \A id \in Active : /\ players.entries[id] = RecordNow(Begun, Work, id)
                               /\ players.entries[id].id = id
<1>1. InCall /\ P!IInv
  BY DEF StepsInv
<1>2. P0 = saved.players /\ G0 = saved.grid
  BY DEF P0, G0
<1> DEFINE b == Begun
           w == Work
<1>3. /\ b.players = saved.players /\ b.grid = saved.grid /\ b.new = new
      /\ b.dead = colliding /\ b.limit = maxTailLength
  BY DEF Begun
<1>4. /\ w.gone = IF pc = "remove" THEN colliding \ todo ELSE colliding
      /\ w.done = IF pc = "remove" THEN {} ELSE (ptrs \ todo) \ colliding
      /\ w.cur = IF pc = "trim" THEN {Min(todo)} ELSE {}
      /\ w.n = tailLen /\ w.lost = lost
  BY DEF Work
<1>5. /\ ptrs = Ids(b) /\ todo \subseteq ptrs /\ todo # {} /\ Judged(b)
      /\ maxTailLength = TailLimit(frame) /\ lost \subseteq Stamped(w)
      /\ pc = "trim" => AtNode
      /\ TableIs(b, w, players) /\ GridIs(b, w, grid)
  BY <1>1 DEF InCall
<1> HIDE DEF b, w
<1>6. /\ DOMAIN P0.entries = Ids(b)
      /\ \A id \in Ids(b) : Rec(b, id) = P0.entries[id]
  BY <1>2, <1>3 DEF Ids, Rec
<1>7. Ground(b)
  <2>1. TailLimit(frame) \in Nat
    <3>1. frame \in Nat /\ BaseTailLength \in Nat /\ FramesPerTailCell \in Nat
          /\ FramesPerTailCell > 0
      BY <1>1, SeenInv, GameAssumption
    <3>2. frame \div FramesPerTailCell \in Nat
      BY <3>1
    <3>3. QED BY <3>1, <3>2 DEF TailLimit
  <2>2. b.dead \subseteq Ids(b)
    BY <1>5 DEF Judged, Struck, Ids
  <2>3. \A id \in Ids(b) \ b.dead :
          /\ b.new[id] \in Cell /\ b.grid[b.new[id]] = 0
          /\ \A other \in Ids(b) \ b.dead : b.new[other] = b.new[id] => other = id
    BY <1>5 DEF Judged, Struck, Ids
  <2>4. /\ Ids(b) \subseteq Slot /\ b.grid \in [Cell -> Slot] /\ b.players.size \in Int
        /\ \A id \in Ids(b) :
             /\ id # 0 /\ Rec(b, id) \in PlayerRecord /\ Rec(b, id).id = id
             /\ SimpleTrail(Rec(b, id))
             /\ \A c \in TrailCells(Rec(b, id)) : c \in Cell /\ b.grid[c] = id
    BY <1>1, <1>2, <1>3, <1>6, SeenInv
  <2>5. QED BY <1>3, <1>5, <2>1, <2>2, <2>3, <2>4 DEF Ground
<1>8. ptrs \subseteq Slot /\ 0 \notin ptrs
  BY <1>5, <1>7 DEF Ground
<1>9. Min(todo) \in todo /\ Min(todo) \in ptrs
  <2>1. todo \subseteq Slot
    BY <1>5, <1>8
  <2>2. QED BY <1>5, <2>1, MinOfSlots
<1>10. Progress(b, w)
  <2>1. /\ w.gone \subseteq b.dead /\ w.done \subseteq Ids(b) \ b.dead
        /\ w.done \cap w.cur = {} /\ w.lost \subseteq Stamped(w)
    BY <1>3, <1>4, <1>5, <1>9
  <2>2. pc = "trim" => Min(todo) \notin colliding
    BY <1>5 DEF AtNode
  <2>3. w.cur \subseteq Ids(b) \ b.dead
    BY <1>3, <1>4, <1>5, <1>9, <2>2
  <2>4. ASSUME NEW id \in w.cur
        PROVE  w.n \in Nat /\ w.n <= Len(Nodes(b, w, id))
    <3>1. AtNode /\ id = Min(todo)
      BY <1>4, <1>5
    <3>2. tailLen \in Nat /\ Len(current) \in Nat
          /\ tailLen + Len(current) = Len(Nodes(b, w, id))
      BY <3>1 DEF AtNode, b, w
    <3>3. QED BY <1>4, <3>2
  <2>5. QED BY <2>1, <2>3, <2>4 DEF Progress
<1>11. /\ Active = ptrs \ w.gone
       /\ \A id \in Active : players.entries[id] = RecordNow(b, w, id)
  <2> DEFINE e == [id \in Ids(b) \ w.gone |-> players.entries[id]]
             size == b.players.size - Cardinality(w.gone)
  <2>1. players = [entries |-> e, size |-> size]
    BY <1>5 DEF TableIs
  <2>2. DOMAIN e = Ids(b) \ w.gone
    OBVIOUS
  <2> HIDE DEF e, size
  <2>3. players.entries = e
    BY <2>1
  <2>4. QED BY <1>5, <2>2, <2>3 DEF TableIs, Active, Occupied
<1>12. \A id \in Active : players.entries[id].id = id
  BY <1>5, <1>7, <1>10, <1>11, MarkedNow
<1>13. QED BY <1>1, <1>2, <1>7, <1>8, <1>9, <1>10, <1>11, <1>12 DEF b, w

(* A step after which the call is still under way changes nothing that the *)
(* callers see.                                                            *)
LEMMA CallGoesOn ==
  ASSUME StepsInv, pc # "idle", pc' \in {"remove", "advance", "trim"},
         UNCHANGED <<frame, maxTailLength, idCounter, gameStarted, overrun,
                     ptrs, new, colliding, saved>>,
         todo' \subseteq ptrs, todo' # {},
         lost' \subseteq Stamped(Work'), ~AllocMayFail => lost' = {},
         IF pc' = "trim" THEN AtNode' ELSE tailLen' = 0 /\ current' = <<>>,
         TableIs(Begun, Work', players'), GridIs(Begun, Work', grid')
  PROVE  StepsInv' /\ UNCHANGED P!gameVars
<1>1. InCall /\ P!IInv
  BY DEF StepsInv
<1>2. P0' = P0 /\ G0' = G0 /\ M0' = M0
  BY DEF P0, G0, M0
<1>3. UNCHANGED P!gameVars
  BY <1>2 DEF P!gameVars
<1>4. P!IInv'
  BY <1>1, <1>3, P!NextStep, GridAssumption, MaxPlayersAssumption, GameAssumption
<1>5. Begun' = Begun
  BY DEF Begun
<1>6. TailLimit(frame)' = TailLimit(frame)
  BY DEF TailLimit
<1>7. InCall'
  <2>1. ptrs' = Ids(Begun') /\ Judged(Begun')
    BY <1>1, <1>5 DEF InCall
  <2>2. TableIs(Begun', Work', players') /\ GridIs(Begun', Work', grid')
    BY <1>5
  <2>3. maxTailLength' = TailLimit(frame') /\ ~overrun'
    BY <1>1 DEF InCall
  <2>4. QED BY <2>1, <2>2, <2>3 DEF InCall
<1>8. QED BY <1>3, <1>4, <1>7 DEF StepsInv

(* What both threads may conclude from a step of the server thread.        *)
Fine == StepsInv' /\ [P!Next]_(P!gameVars)

(* Taking the callers' view one step further is a step of Game. *)
LEMMA SeenStep ==
  ASSUME StepsInv, P!Next \/ UNCHANGED P!gameVars
  PROVE  P!IInv'
<1>1. P!IInv
  BY DEF StepsInv
<1>2. QED BY <1>1, P!NextStep, GridAssumption, MaxPlayersAssumption, GameAssumption

(* The progress once the mover, or the slot, of this round is through.     *)
RoundDone ==
  [gone |-> colliding, done |-> (ptrs \ (todo \ {Min(todo)})) \ colliding,
   cur |-> {}, n |-> 0, lost |-> lost]

(* The last step of the call: the callers see the atomic move.             *)
LEMMA CallReturns ==
  ASSUME StepsInv, pc \in {"advance", "trim"}, pc' = "idle", AtRest',
         UNCHANGED <<frame, maxTailLength, idCounter, gameStarted, overrun>>,
         todo = {Min(todo)}, Progress(Begun, RoundDone),
         TableIs(Begun, RoundDone, players'), GridIs(Begun, RoundDone, grid')
  PROVE  Fine
<1> DEFINE b == Begun
           w == RoundDone
<1>1. InCall /\ P0 = saved.players /\ G0 = saved.grid /\ Ground(b) /\ P!IInv
  BY CallFacts DEF StepsInv
<1>2. /\ b.players = P0 /\ b.grid = G0 /\ b.new = new
      /\ b.dead = colliding /\ b.limit = maxTailLength
  BY <1>1 DEF Begun
<1>3. /\ w.gone = b.dead /\ w.done = Ids(b) \ b.dead /\ w.cur = {} /\ w.lost = lost
  BY <1>1 DEF RoundDone, InCall, Begun
<1> HIDE DEF b, w
<1>4. Progress(b, w) /\ TableIs(b, w, players') /\ GridIs(b, w, grid')
  BY DEF b, w
<1>5. /\ Ids(b) = DOMAIN P0.entries
      /\ \A id : Rec(b, id) = P0.entries[id]
  BY <1>2 DEF Ids, Rec
<1>6. P0' = players' /\ G0' = grid' /\ M0' = maxTailLength'
  BY DEF P0, G0, M0
<1> DEFINE A == DOMAIN P0.entries
           D == DOMAIN P0.entries \ colliding
<1>7. /\ players' = TableAfter(P0, new, colliding, lost, maxTailLength)
      /\ grid' = [c \in Cell |-> grid'[c]]
      /\ \A c \in Cell :
           grid'[c] = CellAfter(P0, G0, new, colliding, lost, maxTailLength, c)
  <2>1. /\ players' = TableAfter(b.players, b.new, b.dead, w.lost, b.limit)
        /\ grid' = [c \in Cell |-> grid'[c]]
        /\ \A c \in Cell :
             grid'[c] = CellAfter(b.players, b.grid, b.new, b.dead, w.lost, b.limit, c)
    BY <1>1, <1>3, <1>4, CallEnds
  <2>2. QED BY <1>2, <1>3, <2>1
<1>8. Judged(b)
  BY <1>1 DEF InCall, b
<1>9. PICK dirs \in [A -> Direction] : new = Targeted(P0, dirs)
  BY <1>2, <1>5, <1>8 DEF Judged
<1>10. P!Targets(dirs) = new /\ P!Colliding(new) = colliding /\ colliding \subseteq A
  <2>1. colliding = Struck(P0, G0, new)
    BY <1>2, <1>8 DEF Judged
  <2>2. QED BY <1>9, <2>1, SeenJudgement DEF Struck
<1>11. maxTailLength = TailLimit(frame) /\ ~overrun /\ (~AllocMayFail => lost = {})
  BY <1>1 DEF InCall
<1>12. P!MovePlayers(dirs, lost)
  BY <1>6, <1>7, <1>10, <1>11, SeenMove
<1>13. lost \in P!LostSets
  <2>1. lost \subseteq A
    <3>1. w.lost \subseteq Stamped(w) /\ Stamped(w) \subseteq Ids(b)
      BY <1>3, <1>4 DEF Progress, Stamped
    <3>2. QED BY <1>3, <1>5, <3>1
  <2>2. P!Active = A
    BY <1>1, SeenInv
  <2>3. QED BY <1>11, <2>1, <2>2 DEF P!LostSets
<1>14. P!Next
  <2>1. dirs \in [P!Active -> P!Direction]
    BY <1>1, SeenInv, SameRules
  <2>2. QED BY <1>12, <1>13, <2>1 DEF P!Next
<1>15. StepsInv'
  BY <1>14, SeenStep DEF StepsInv
<1>16. QED BY <1>14, <1>15 DEF Fine

(* Either way, when the round of a slot is through.                        *)
LEMMA RoundEnds ==
  ASSUME StepsInv, pc \in {"advance", "trim"}, NextMover,
         UNCHANGED <<frame, maxTailLength, idCounter, gameStarted, overrun>>,
         Progress(Begun, RoundDone),
         TableIs(Begun, RoundDone, players'), GridIs(Begun, RoundDone, grid')
  PROVE  Fine
<1> DEFINE left == todo \ {Min(todo)}
<1>1. InCall /\ Min(todo) \in todo
  BY CallFacts
<1>2. CASE left = {}
  <2>1. pc' = "idle" /\ AtRest'
    BY <1>2 DEF NextMover, ClearLocals, AtRest
  <2>2. todo = {Min(todo)}
    BY <1>1, <1>2
  <2>3. QED BY <2>1, <2>2, CallReturns
<1>3. CASE left # {}
  <2>1. /\ pc' = "advance" /\ todo' = left /\ tailLen' = 0 /\ current' = <<>>
        /\ UNCHANGED <<ptrs, new, colliding, lost, saved>>
    BY <1>3 DEF NextMover
  <2>2. Work' = RoundDone
    BY <2>1 DEF Work, RoundDone
  <2>3. todo' \subseteq ptrs /\ todo' # {} /\ (~AllocMayFail => lost' = {})
    BY <1>1, <1>3, <2>1 DEF InCall
  <2>4. lost' \subseteq Stamped(Work')
    <3>1. RoundDone.lost \subseteq Stamped(RoundDone) /\ RoundDone.lost = lost
      BY DEF Progress, RoundDone
    <3>2. QED BY <2>1, <2>2, <3>1
  <2>5. StepsInv' /\ UNCHANGED P!gameVars
    BY <2>1, <2>2, <2>3, <2>4, CallGoesOn
  <2>6. QED BY <2>5 DEF Fine
<1>4. QED BY <1>2, <1>3

-----------------------------------------------------------------------------
(* The steps of a call.                                                    *)

(* A slot of the removing loop: who collided leaves with the whole trail.  *)
LEMMA RemoveOneStep ==
  ASSUME StepsInv, RemoveOne
  PROVE  Fine
<1> DEFINE slot == Min(todo)
           b == Begun
           w == Work
           v == Work'
<1>1. pc = "remove" /\ NextRemoval
      /\ UNCHANGED <<frame, maxTailLength, idCounter, gameStarted, overrun,
                     ptrs, new, colliding, lost, tailLen, current, saved>>
  BY DEF RemoveOne
<1>2. /\ InCall /\ Ground(b) /\ Progress(b, w) /\ slot \in todo /\ slot \in ptrs
      /\ Active = ptrs \ w.gone
      /\ \A id \in Active : players.entries[id] = RecordNow(b, w, id)
                            /\ players.entries[id].id = id
  BY <1>1, CallFacts
<1>3. /\ w.gone = colliding \ todo /\ w.done = {} /\ w.cur = {} /\ w.lost = lost
  BY <1>1 DEF Work
<1>4. /\ pc' \in {"remove", "advance"} /\ todo' # {} /\ todo' \subseteq ptrs
      /\ v.gone = w.gone \cup ({slot} \cap colliding)
      /\ v.done = {} /\ v.cur = {} /\ v.lost = lost
  <2>1. CASE todo \ {slot} # {}
    <3>1. pc' = "remove" /\ todo' = todo \ {slot}
      BY <1>1, <2>1 DEF NextRemoval
    <3>2. /\ v.gone = colliding \ todo' /\ v.done = {} /\ v.cur = {} /\ v.lost = lost
      BY <1>1, <3>1 DEF Work
    <3>3. QED BY <1>2, <1>3, <2>1, <3>1, <3>2 DEF InCall
  <2>2. CASE todo \ {slot} = {}
    <3>1. pc' = "advance" /\ todo' = ptrs
      BY <1>1, <2>2 DEF NextRemoval
    <3>2. v.gone = colliding /\ v.done = {} /\ v.cur = {} /\ v.lost = lost
      BY <1>1, <3>1 DEF Work
    <3>3. QED BY <1>2, <1>3, <2>2, <3>1, <3>2 DEF InCall
  <2>3. QED BY <2>1, <2>2
<1>5. slot \in Active /\ PtrId(slot) = slot
  BY <1>2, <1>3 DEF PtrId
<1>6. b.dead = colliding /\ TableIs(b, w, players) /\ GridIs(b, w, grid)
  BY <1>2 DEF Begun, InCall
<1>7. TableIs(b, v, players') /\ GridIs(b, v, grid')
  <2>1. CASE slot \in colliding
    <3>1. players' = MapDelete(players, slot) /\ grid' = Cleared({slot} \cap Active)
      BY <1>5, <2>1 DEF RemoveOne
    <3>2. players.entries[slot] = Rec(b, slot)
      BY <1>2, <1>3, <1>5 DEF RecordNow
    <3>3. grid' = WithoutTrail(grid, Rec(b, slot))
      <4>1. {slot} \cap Active = {slot}
        BY <1>5
      <4>2. QED BY <3>1, <3>2, <4>1 DEF Cleared, WithoutTrail
    <3>4. slot \in b.dead \ w.gone /\ v.gone = w.gone \cup {slot}
      BY <1>2, <1>3, <1>4, <1>6, <2>1
    <3>5. TableIs(b, v, MapDelete(players, slot))
          /\ GridIs(b, v, WithoutTrail(grid, Rec(b, slot)))
      <4>1. Ground(b) /\ Progress(b, w) /\ TableIs(b, w, players) /\ GridIs(b, w, grid)
        BY <1>2, <1>6
      <4>2. w.done = {} /\ w.cur = {} /\ v.done = {} /\ v.cur = {}
        BY <1>3, <1>4
      <4> HIDE DEF b, w, v, slot
      <4>3. QED BY <3>4, <4>1, <4>2, RemoveKeeps
    <3> HIDE DEF b, w, v, slot
    <3>6. QED BY <3>1, <3>3, <3>5
  <2>2. CASE slot \notin colliding
    <3>1. players' = players /\ grid' = grid
      BY <1>5, <2>2 DEF RemoveOne
    <3>2. v.gone = w.gone
      BY <1>4, <2>2
    <3>3. \A id : RecordNow(b, v, id) = RecordNow(b, w, id)
      BY <1>3, <1>4 DEF RecordNow
    <3>4. \A c : ~Freed(b, v, c) /\ ~Freed(b, w, c)
      BY <1>3, <1>4 DEF Freed
    <3>5. Stamped(v) = {} /\ Stamped(w) = {}
      BY <1>3, <1>4 DEF Stamped
    <3> HIDE DEF b, w, v
    <3>6. TableIs(b, v, players')
      BY <1>6, <3>1, <3>2, <3>3 DEF TableIs
    <3>7. GridIs(b, v, grid')
      BY <1>6, <3>1, <3>2, <3>4, <3>5 DEF GridIs
    <3>8. QED BY <3>6, <3>7
  <2>3. QED BY <2>1, <2>2
<1>8. lost' \subseteq Stamped(v) /\ (~AllocMayFail => lost' = {})
      /\ tailLen' = 0 /\ current' = <<>>
  BY <1>1, <1>2, <1>3, <1>4 DEF InCall, Stamped
<1>9. StepsInv' /\ UNCHANGED P!gameVars
  BY <1>1, <1>4, <1>7, <1>8, CallGoesOn
<1>10. QED BY <1>9 DEF Fine

(* The slots of the dead show the id 0 and are passed over.                *)
LEMMA SkipOneStep ==
  ASSUME StepsInv, SkipOne
  PROVE  Fine
<1> DEFINE slot == Min(todo)
<1>1. pc = "advance" /\ Skipped(PtrId(slot)) /\ NextMover /\ UNCHANGED gameVars
  BY DEF SkipOne
<1>2. /\ InCall /\ Progress(Begun, Work) /\ slot \in todo /\ slot \in ptrs
      /\ Active = ptrs \ colliding
      /\ \A id \in Active : players.entries[id].id = id
  BY <1>1, CallFacts DEF Work
<1>3. slot \in colliding
  BY <1>1, <1>2 DEF Skipped, PtrId
<1>4. Work = RoundDone
  <2>1. (ptrs \ todo) \ colliding = (ptrs \ (todo \ {slot})) \ colliding
    BY <1>3
  <2>2. tailLen = 0
    BY <1>1, <1>2 DEF InCall
  <2>3. QED BY <1>1, <2>1, <2>2 DEF Work, RoundDone
<1>5. UNCHANGED <<players, grid, frame, maxTailLength, idCounter, gameStarted, overrun>>
  BY <1>1 DEF gameVars
<1>6. TableIs(Begun, RoundDone, players') /\ GridIs(Begun, RoundDone, grid')
  BY <1>2, <1>4, <1>5 DEF InCall
<1>7. QED BY <1>1, <1>2, <1>4, <1>5, <1>6, RoundEnds

(* A survivor's turn: the new head is stamped and a node pushed.           *)
LEMMA StampAndPushStep ==
  ASSUME StepsInv, NEW failed \in (IF AllocMayFail THEN BOOLEAN ELSE {FALSE}),
         StampAndPush(failed)
  PROVE  Fine
<1> DEFINE slot == Min(todo)
           b == Begun
           w == Work
           v == Work'
           p == players.entries[slot]
           tail == IF failed THEN p.tail ELSE <<p.position>> \o p.tail
<1>1. /\ pc = "advance" /\ pc' = "trim" /\ ~Skipped(PtrId(slot))
      /\ UNCHANGED <<frame, maxTailLength, idCounter, gameStarted, overrun,
                     ptrs, todo, new, colliding, saved>>
  BY DEF StampAndPush
<1>2. /\ InCall /\ Ground(b) /\ Progress(b, w) /\ slot \in todo /\ slot \in ptrs
      /\ Active = ptrs \ colliding /\ 0 \notin ptrs
      /\ \A id \in Active : players.entries[id] = RecordNow(b, w, id)
                            /\ players.entries[id].id = id
  BY <1>1, CallFacts DEF Work
<1>3. slot \in Active /\ slot \notin colliding /\ PtrId(slot) = slot
  BY <1>1, <1>2 DEF Skipped, PtrId
<1>4. /\ grid' = [grid EXCEPT ![new[slot]] = slot]
      /\ players' = [players EXCEPT !.entries[slot].tail = tail]
      /\ lost' = IF failed THEN lost \cup {slot} ELSE lost
      /\ tailLen' = 0 /\ current' = tail
  BY <1>3 DEF StampAndPush
<1>5. /\ w.gone = colliding /\ w.done = (ptrs \ todo) \ colliding
      /\ w.cur = {} /\ w.lost = lost
  BY <1>1 DEF Work
<1>6. /\ v.gone = colliding /\ v.done = (ptrs \ todo) \ colliding
      /\ v.cur = {slot} /\ v.n = 0 /\ v.lost = lost'
  BY <1>1, <1>4 DEF Work
<1>7. /\ b.dead = colliding /\ b.new = new /\ slot \in Ids(b)
      /\ TableIs(b, w, players) /\ GridIs(b, w, grid)
      /\ lost \subseteq Stamped(w) /\ (~AllocMayFail => lost = {})
      /\ todo \subseteq ptrs /\ todo # {}
  BY <1>2 DEF Begun, InCall
<1>8. slot \notin w.done /\ slot \notin lost
  BY <1>2, <1>5, <1>7 DEF Stamped
<1>9. p = Rec(b, slot) /\ Rec(b, slot).id = slot /\ Rec(b, slot) \in PlayerRecord
  BY <1>2, <1>3, <1>5, <1>7, <1>8 DEF RecordNow, Ground
<1>10. Nodes(b, v, slot) = tail
  BY <1>4, <1>6, <1>8, <1>9 DEF Nodes, Grown
<1>11. /\ lost' \subseteq Stamped(v) /\ (~AllocMayFail => lost' = {})
       /\ Stamped(v) = w.done \cup {slot}
  BY <1>4, <1>5, <1>6, <1>7 DEF Stamped
<1>12. TableIs(b, v, players') /\ GridIs(b, v, grid')
  <2>1. /\ TableIs(b, v, [players EXCEPT !.entries = [players.entries EXCEPT ![slot] =
                             [Rec(b, slot) EXCEPT !.tail = Nodes(b, v, slot)]]])
        /\ GridIs(b, v, [grid EXCEPT ![b.new[slot]] = slot])
    <3>1. slot \in Ids(b) \ b.dead /\ slot \notin w.done /\ w.cur = {}
          /\ v.gone = w.gone /\ v.done = w.done /\ v.cur = {slot} /\ v.n = 0
          /\ (v.lost = w.lost \/ v.lost = w.lost \cup {slot})
      BY <1>3, <1>4, <1>5, <1>6, <1>7, <1>8
    <3> HIDE DEF b, w, v, slot
    <3>2. QED BY <1>2, <1>7, <3>1, StampKeeps
  <2> HIDE DEF b, w, v, tail
  <2>2. players' = [players EXCEPT !.entries = [players.entries EXCEPT ![slot] =
                      [Rec(b, slot) EXCEPT !.tail = tail]]]
    BY <1>4, <1>9
  <2>3. QED BY <1>4, <1>7, <1>10, <2>1, <2>2
<1>13. AtNode'
  <2>1. Nodes(b, v, slot) \in Seq(Cell)
    BY <1>2, <1>7, NodeFacts
  <2>2. Nodes(b', v, slot) = current'
    <3>1. b' = b
      BY <1>1 DEF Begun
    <3>2. QED BY <1>4, <1>10, <3>1
  <2>3. current' \in Seq(Cell) /\ tailLen' + Len(current') = Len(current')
        /\ \A i \in 1 .. Len(current') : current'[i] = current'[tailLen' + i]
    <3> HIDE DEF tail
    <3>1. current' \in Seq(Cell) /\ tailLen' = 0
      BY <1>4, <1>10, <2>1
    <3>2. Len(current') \in Nat
      BY <3>1
    <3>3. QED BY <3>1, <3>2
  <2>4. slot' = slot /\ slot' \notin colliding'
    BY <1>1, <1>3
  <2>5. QED BY <1>4, <2>2, <2>3, <2>4 DEF AtNode
<1>14. StepsInv' /\ UNCHANGED P!gameVars
  BY <1>1, <1>7, <1>11, <1>12, <1>13, CallGoesOn
<1>15. QED BY <1>14 DEF Fine

(* One node of the list; one that is past the limit is freed.              *)
LEMMA TrimNodeStep ==
  ASSUME StepsInv, TrimNode
  PROVE  Fine
<1> DEFINE slot == Min(todo)
           b == Begun
           w == Work
           v == Work'
           g == Nodes(b, w, slot)
<1>1. /\ pc = "trim" /\ current # <<>> /\ tailLen' = tailLen + 1
      /\ current' = Tail(current)
      /\ UNCHANGED <<frame, maxTailLength, idCounter, gameStarted, overrun, pc,
                     ptrs, todo, new, colliding, lost, saved>>
  BY DEF TrimNode
<1>2. /\ InCall /\ AtNode /\ Ground(b) /\ Progress(b, w)
      /\ slot \in todo /\ slot \in ptrs
  BY <1>1, CallFacts DEF InCall
<1>3. /\ w.gone = colliding /\ w.done = (ptrs \ todo) \ colliding
      /\ w.cur = {slot} /\ w.n = tailLen /\ w.lost = lost
  BY <1>1 DEF Work
<1>4. /\ v.gone = w.gone /\ v.done = w.done
      /\ v.cur = {slot} /\ v.n = w.n + 1 /\ v.lost = w.lost
  BY <1>1, <1>3 DEF Work
<1>5. /\ b.limit = maxTailLength /\ slot \in Ids(b)
      /\ TableIs(b, w, players) /\ GridIs(b, w, grid)
      /\ lost \subseteq Stamped(w) /\ (~AllocMayFail => lost = {})
      /\ todo \subseteq ptrs /\ todo # {}
  BY <1>2 DEF Begun, InCall
<1>6. /\ slot \notin colliding
      /\ tailLen \in Nat /\ current \in Seq(Cell)
      /\ tailLen + Len(current) = Len(g)
      /\ \A i \in 1 .. Len(current) : current[i] = g[tailLen + i]
  BY <1>2 DEF AtNode
<1>7. g \in Seq(Cell) /\ b.limit \in Nat
  BY <1>2, <1>5, NodeFacts DEF Ground
<1> HIDE DEF g
<1>8. /\ Len(current) \in Nat /\ Len(current) > 0 /\ Head(current) = current[1]
      /\ Tail(current) \in Seq(Cell) /\ Len(Tail(current)) = Len(current) - 1
      /\ \A i \in 1 .. Len(current) - 1 : Tail(current)[i] = current[i + 1]
  BY <1>1, <1>6
<1>9. w.n < Len(g) /\ Head(current) = g[v.n]
  BY <1>3, <1>4, <1>6, <1>7, <1>8
<1>10. TableIs(b, v, players') /\ GridIs(b, v, grid')
  <2>1. /\ v.n <= b.limit => TableIs(b, v, players) /\ GridIs(b, v, grid)
        /\ v.n > b.limit =>
             /\ TableIs(b, v, [players EXCEPT !.entries = [players.entries EXCEPT ![slot] =
                  [players.entries[slot] EXCEPT !.tail = SubSeq(@, 1, b.limit)]]])
             /\ GridIs(b, v, [grid EXCEPT ![g[v.n]] = 0])
    <3>1. w.n < Len(Nodes(b, w, slot))
      BY <1>9 DEF g
    <3> HIDE DEF b, w, v, slot
    <3>2. QED BY <1>2, <1>3, <1>4, <1>5, <3>1, TrimKeeps DEF g
  <2>2. v.n = tailLen + 1
    BY <1>3, <1>4
  <2> HIDE DEF b, w, v
  <2>3. CASE tailLen + 1 > maxTailLength
    <3>1. grid' = [grid EXCEPT ![g[v.n]] = 0]
      BY <1>9, <2>3 DEF TrimNode
    <3>2. players' = [players EXCEPT !.entries = [players.entries EXCEPT ![slot] =
                  [players.entries[slot] EXCEPT !.tail = SubSeq(@, 1, b.limit)]]]
      BY <1>5, <2>3 DEF TrimNode
    <3>3. QED BY <1>5, <2>1, <2>2, <2>3, <3>1, <3>2
  <2>4. CASE ~(tailLen + 1 > maxTailLength)
    <3>1. players' = players /\ grid' = grid
      BY <2>4 DEF TrimNode
    <3>2. v.n <= b.limit
      BY <1>5, <1>6, <1>7, <2>2, <2>4
    <3>3. QED BY <2>1, <3>1, <3>2
  <2>5. QED BY <2>3, <2>4
<1>11. AtNode'
  <2>1. Nodes(b', v, slot) = g
    <3>1. b' = b
      BY <1>1 DEF Begun
    <3>2. QED BY <1>4, <3>1 DEF g, Nodes
  <2>2. /\ tailLen' \in Nat /\ current' \in Seq(Cell)
        /\ tailLen' + Len(current') = Len(g)
    BY <1>1, <1>6, <1>7, <1>8
  <2>3. \A i \in 1 .. Len(current') : current'[i] = g[tailLen' + i]
    <3>1. ASSUME NEW i \in 1 .. Len(current')
          PROVE  current'[i] = g[tailLen' + i]
      <4>1. i \in 1 .. Len(current) - 1 /\ i + 1 \in 1 .. Len(current)
            /\ tailLen + (i + 1) = tailLen' + i
        BY <1>1, <1>6, <1>8
      <4>2. current'[i] = current[i + 1]
        BY <1>1, <1>8, <4>1
      <4>3. QED BY <1>6, <4>1, <4>2
    <3>2. QED BY <3>1
  <2>4. slot' = slot /\ slot' \notin colliding'
    BY <1>1, <1>6
  <2>5. QED BY <2>1, <2>2, <2>3, <2>4 DEF AtNode
<1>12. lost' \subseteq Stamped(v) /\ (~AllocMayFail => lost' = {})
  BY <1>1, <1>3, <1>4, <1>5 DEF Stamped
<1>13. StepsInv' /\ UNCHANGED P!gameVars
  BY <1>1, <1>5, <1>10, <1>11, <1>12, CallGoesOn
<1>14. QED BY <1>13 DEF Fine

(* The end of a mover's turn: its head is where it wanted to go.           *)
LEMMA PlaceStep ==
  ASSUME StepsInv, Place
  PROVE  Fine
<1> DEFINE slot == Min(todo)
           b == Begun
           w == Work
           v == RoundDone
<1>1. /\ pc = "trim" /\ current = <<>> /\ NextMover
      /\ players' = [players EXCEPT !.entries[slot].position = new[slot]]
      /\ UNCHANGED <<grid, frame, maxTailLength, idCounter, gameStarted, overrun>>
  BY DEF Place
<1>2. /\ InCall /\ AtNode /\ Ground(b) /\ Progress(b, w)
      /\ slot \in todo /\ slot \in ptrs
  BY <1>1, CallFacts DEF InCall
<1>3. /\ w.gone = colliding /\ w.done = (ptrs \ todo) \ colliding
      /\ w.cur = {slot} /\ w.n = tailLen /\ w.lost = lost
  BY <1>1 DEF Work
<1>4. /\ b.new = new /\ b.dead = colliding /\ ptrs = Ids(b) /\ slot \notin colliding
      /\ TableIs(b, w, players) /\ GridIs(b, w, grid)
  BY <1>2 DEF Begun, InCall, AtNode
<1>5. /\ v.gone = w.gone /\ v.done = w.done \cup {slot} /\ v.cur = {}
      /\ v.lost = w.lost
  BY <1>2, <1>3, <1>4 DEF RoundDone
<1>6. w.n = Len(Nodes(b, w, slot))
  BY <1>1, <1>2, <1>3 DEF AtNode
<1>7. Progress(b, v)
  <2>1. slot \in Ids(b) \ b.dead
    BY <1>2, <1>4
  <2> HIDE DEF b, w, v, slot
  <2>2. QED BY <1>2, <1>3, <1>5, <2>1 DEF Progress, Stamped
<1>8. TableIs(b, v, players') /\ GridIs(b, v, grid')
  <2>1. /\ TableIs(b, v, [players EXCEPT !.entries = [players.entries EXCEPT ![slot] =
                           [players.entries[slot] EXCEPT !.position = b.new[slot]]]])
        /\ GridIs(b, v, grid)
    <3> HIDE DEF b, w, v, slot
    <3>1. QED BY <1>2, <1>3, <1>4, <1>5, <1>6, PlaceKeeps
  <2> HIDE DEF b, v
  <2>2. players' = [players EXCEPT !.entries = [players.entries EXCEPT ![slot] =
                      [players.entries[slot] EXCEPT !.position = b.new[slot]]]]
    BY <1>1, <1>4
  <2>3. QED BY <1>1, <2>1, <2>2
<1>9. QED BY <1>1, <1>7, <1>8, RoundEnds

(* The call begins: what is judged now is what the loops will rely on.     *)
LEMMA BeginStep ==
  ASSUME StepsInv, NEW dirs \in [Active -> Direction], Begin(dirs)
  PROVE  Fine
<1>1. /\ pc = "idle" /\ ~overrun /\ maxTailLength' = TailLimit(frame)
      /\ UNCHANGED <<players, grid, frame, idCounter, gameStarted, overrun>>
  BY DEF Begin
<1>2. P0 = players /\ G0 = grid /\ M0 = maxTailLength /\ AtRest /\ P!IInv
  BY <1>1 DEF StepsInv, P0, G0, M0
<1> DEFINE nw == Targeted(P0, dirs)
           dead == Struck(P0, G0, nw)
<1>3. /\ P!Active = DOMAIN P0.entries /\ Active = DOMAIN P0.entries
      /\ P0 = [entries |-> [id \in DOMAIN P0.entries |-> P0.entries[id]],
               size    |-> P0.size]
      /\ P0.size \in Int /\ G0 \in [Cell -> Slot]
  BY <1>2, SeenInv DEF Active, Occupied
<1>4. Cardinality({}) = 0
  BY FS_EmptySet
<1>5. CASE Active = {}
  <2>1. pc' = "idle" /\ AtRest'
    BY <1>1, <1>2, <1>5 DEF Begin, AtRest, locals
  <2>2. P0' = P0 /\ G0' = G0 /\ M0' = TailLimit(frame)
    BY <1>1, <1>2, <2>1 DEF P0, G0, M0
  <2>3. DOMAIN P0.entries = {} /\ dead = {}
    BY <1>3, <1>5 DEF Struck
  <2>4. P0 = TableAfter(P0, nw, {}, {}, TailLimit(frame))
    <3> DEFINE f == [id \in DOMAIN P0.entries |-> P0.entries[id]]
               h == [id \in DOMAIN P0.entries \ {} |->
                       Moved(P0.entries[id], nw[id], {}, TailLimit(frame))]
    <3>1. f = h
      BY <2>3
    <3>2. P0 = [entries |-> f, size |-> P0.size]
      BY <1>3
    <3>3. P0.size - 0 = P0.size
      BY <1>3
    <3> HIDE DEF f
    <3>4. QED BY <1>4, <3>1, <3>2, <3>3 DEF TableAfter
  <2>5. \A c \in Cell : G0[c] = CellAfter(P0, G0, nw, {}, {}, TailLimit(frame), c)
    BY <2>3 DEF CellAfter
  <2>6. G0 = [c \in Cell |-> G0[c]]
    BY <1>3
  <2>7. P!MovePlayers(dirs, {})
    <3>1. P!Targets(dirs) = nw /\ P!Colliding(nw) = {}
      BY <2>3, SeenJudgement
    <3>2. {} \subseteq DOMAIN P0.entries
      OBVIOUS
    <3>3. P0' = TableAfter(P0, nw, {}, {}, TailLimit(frame))
      BY <2>2, <2>4
    <3>4. G0' = [c \in Cell |-> G0'[c]]
      BY <2>2, <2>6
    <3>5. \A c \in Cell : G0'[c] = CellAfter(P0, G0, nw, {}, {}, TailLimit(frame), c)
      BY <2>2, <2>5
    <3> HIDE DEF nw, dead
    <3>6. QED BY <1>1, <2>2, <3>1, <3>2, <3>3, <3>4, <3>5, SeenMove
  <2>8. {} \in P!LostSets /\ dirs \in [P!Active -> P!Direction]
    BY <1>3, SameRules DEF P!LostSets
  <2>9. P!Next
    BY <2>7, <2>8 DEF P!Next
  <2>10. StepsInv'
    BY <2>1, <2>9, SeenStep DEF StepsInv
  <2>11. QED BY <2>9, <2>10 DEF Fine
<1>6. CASE Active # {}
  <2>1. /\ pc' = "remove" /\ ptrs' = Active /\ todo' = Active
        /\ new' = Targets(dirs) /\ colliding' = Colliding(Targets(dirs))
        /\ saved' = [players |-> players, grid |-> grid,
                     maxTailLength |-> maxTailLength]
        /\ lost' = {} /\ tailLen' = 0 /\ current' = <<>>
    BY <1>2, <1>6 DEF Begin, AtRest
  <2>2. P0' = P0 /\ G0' = G0 /\ M0' = M0
    BY <1>2, <2>1 DEF P0, G0, M0
  <2>3. UNCHANGED P!gameVars
    BY <1>1, <2>2 DEF P!gameVars
  <2>4. P!IInv'
    BY <2>3, SeenStep
  <2> DEFINE b == Begun'
             w == Work'
  <2>5. new' = nw /\ colliding' = dead
    <3>1. Targets(dirs) = nw
      BY <1>2, <1>3 DEF Targets, Targeted
    <3>2. Colliding(nw) = dead
      BY <1>2, <1>3 DEF Colliding, Struck, IsLegalMove
    <3>3. QED BY <2>1, <3>1, <3>2
  <2>6. /\ b.players = P0 /\ b.grid = G0 /\ b.new = nw /\ b.dead = dead
        /\ b.limit = TailLimit(frame)
    BY <1>1, <1>2, <2>1, <2>5 DEF Begun
  <2>7. /\ w.gone = {} /\ w.done = {} /\ w.cur = {} /\ w.lost = {} /\ w.n = 0
    BY <1>3, <2>1, <2>5 DEF Work, Struck
  <2>8. Ids(b) = Active /\ \A id : Rec(b, id) = P0.entries[id]
    BY <1>3, <2>6 DEF Ids, Rec
  <2>9. Judged(b)
    BY <1>3, <2>6, <2>8 DEF Judged
  <2>10. TableIs(b, w, players')
    <3> DEFINE f == [id \in DOMAIN P0.entries |-> P0.entries[id]]
    <3>1. players' = P0 /\ Ids(b) \ w.gone = DOMAIN P0.entries
      BY <1>1, <1>2, <1>3, <2>7, <2>8
    <3>2. b.players.size - Cardinality(w.gone) = P0.size
      BY <1>3, <1>4, <2>6, <2>7
    <3>3. \A id \in Ids(b) \ w.gone : RecordNow(b, w, id) = P0.entries[id]
      BY <2>7, <2>8 DEF RecordNow
    <3>4. [id \in Ids(b) \ w.gone |-> players'.entries[id]] = f
      BY <3>1
    <3>5. P0 = [entries |-> f, size |-> P0.size]
      BY <1>3
    <3> HIDE DEF f, b, w
    <3>6. QED BY <3>1, <3>2, <3>3, <3>4, <3>5 DEF TableIs
  <2>11. GridIs(b, w, grid')
    <3>1. Stamped(w) = {} /\ \A c : ~Freed(b, w, c)
      BY <2>7 DEF Stamped, Freed
    <3>2. grid' = G0 /\ G0 = [c \in Cell |-> G0[c]]
      BY <1>1, <1>2, <1>3
    <3> HIDE DEF b, w
    <3>3. QED BY <2>6, <2>7, <3>1, <3>2 DEF GridIs
  <2>12. InCall'
    <3>1. ptrs' = Ids(b) /\ todo' \subseteq ptrs' /\ todo' # {}
      BY <1>6, <2>1, <2>8
    <3>2. maxTailLength' = TailLimit(frame') /\ ~overrun'
      BY <1>1
    <3>3. lost' \subseteq Stamped(w) /\ (~AllocMayFail => lost' = {})
      BY <2>1
    <3>4. QED BY <2>1, <2>9, <2>10, <2>11, <3>1, <3>2, <3>3 DEF InCall
  <2>13. QED BY <2>1, <2>3, <2>4, <2>12 DEF StepsInv, Fine
<1>7. QED BY <1>5, <1>6

-----------------------------------------------------------------------------
(* The calls between the moves.                                            *)

(* They look to the callers as they are. *)
LEMMA SameCalls ==
  /\ \A map, key, p : P!MapInsert(map, key, p) = MapInsert(map, key, p)
  /\ \A map, key : P!MapDelete(map, key) = MapDelete(map, key)
  /\ \A id, pos : P!PlayerCreate(id, pos) = PlayerCreate(id, pos)
<1>1. \A map, key, p : P!MapInsert(map, key, p) = MapInsert(map, key, p)
  BY DEF P!MapInsert, MapInsert, P!Occupied, Occupied
<1>2. \A map, key : P!MapDelete(map, key) = MapDelete(map, key)
  BY DEF P!MapDelete, MapDelete, P!Occupied, Occupied
<1>3. \A id, pos : P!PlayerCreate(id, pos) = PlayerCreate(id, pos)
  BY DEF P!PlayerCreate, PlayerCreate, P!PaletteIndex, PaletteIndex
<1>4. QED BY <1>1, <1>2, <1>3

(* A call of Game that is made while no move is under way. *)
LEMMA IdleCallStep ==
  ASSUME StepsInv, Idle,
         \/ \E pos \in Cell : AddPlayer(pos)
         \/ AddPlayerNoRoom
         \/ \E id \in Slot : RemovePlayer(id)
         \/ \E f \in 0 .. MaxFrame : SetFrame(f)
         \/ Undefined
  PROVE  Fine
<1>1. /\ pc = "idle" /\ pc' = "idle"
      /\ UNCHANGED <<ptrs, todo, new, colliding, lost, tailLen, current, saved>>
  BY DEF Idle, locals
<1>2. /\ P0 = players /\ G0 = grid /\ M0 = maxTailLength
      /\ P0' = players' /\ G0' = grid' /\ M0' = maxTailLength'
  BY <1>1 DEF P0, G0, M0
<1>3. AtRest'
  BY <1>1 DEF StepsInv, AtRest
<1>4. ASSUME NEW pos \in Cell, AddPlayer(pos)
      PROVE  P!AddPlayer(pos)
  BY <1>2, <1>4, SameCalls, SameRules DEF AddPlayer, P!AddPlayer
<1>5. ASSUME AddPlayerNoRoom
      PROVE  P!AddPlayerNoRoom
  BY <1>2, <1>5, SameRules DEF AddPlayerNoRoom, P!AddPlayerNoRoom
<1>6. ASSUME NEW id \in Slot, RemovePlayer(id)
      PROVE  P!RemovePlayer(id)
  <2>1. Active = P!Active
    BY <1>2, SameRules DEF Active, P!Active, Occupied, P!Occupied
  <2>2. \A ids : Cleared(ids) = P!Cleared(ids)
    BY <1>2, SameRules DEF Cleared, P!Cleared
  <2>3. QED BY <1>2, <1>6, <2>1, <2>2, SameCalls DEF RemovePlayer, P!RemovePlayer
<1>7. ASSUME NEW f \in 0 .. MaxFrame, SetFrame(f)
      PROVE  P!SetFrame(f)
  BY <1>2, <1>7 DEF SetFrame, P!SetFrame
<1>8. ASSUME Undefined
      PROVE  P!Undefined
  BY <1>2, <1>8 DEF Undefined, P!Undefined, gameVars, P!gameVars
<1>9. P!Next
  BY <1>4, <1>5, <1>6, <1>7, <1>8, SameRules DEF P!Next
<1>10. StepsInv'
  BY <1>1, <1>3, <1>9, SeenStep DEF StepsInv
<1>11. QED BY <1>9, <1>10 DEF Fine

-----------------------------------------------------------------------------
(* The theorems.                                                           *)

(* The game is created between two calls.                                  *)
LEMMA StepsInitial ==
  ASSUME StepsInit
  PROVE  P!Init /\ StepsInv
<1>1. pc = "idle" /\ AtRest /\ Init
  BY DEF StepsInit, AtRest
<1>2. P0 = players /\ G0 = grid /\ M0 = maxTailLength
  BY <1>1 DEF P0, G0, M0
<1>3. P!Init
  BY <1>1, <1>2, SameRules DEF Init, P!Init, MapCreate, P!MapCreate
<1>4. P!IInv
  BY <1>3, P!InitStep, GridAssumption, MaxPlayersAssumption, GameAssumption
<1>5. QED BY <1>1, <1>3, <1>4 DEF StepsInv

(* Every step keeps the invariant and is a step of Game, or none, to the   *)
(* callers.                                                                *)
LEMMA EveryStep == StepsInv /\ [StepsNext]_stepVars => Fine
<1> SUFFICES ASSUME StepsInv, [StepsNext]_stepVars
             PROVE  Fine
  OBVIOUS
<1>1. ASSUME MoveStep
      PROVE  Fine
  BY <1>1, RemoveOneStep, SkipOneStep, StampAndPushStep, TrimNodeStep, PlaceStep
     DEF MoveStep
<1>2. ASSUME UNCHANGED stepVars
      PROVE  Fine
  <2>1. UNCHANGED <<players, grid, frame, maxTailLength, idCounter, gameStarted,
                    overrun, pc, ptrs, todo, new, colliding, lost, tailLen,
                    current, saved>>
    BY <1>2 DEF stepVars, gameVars, locals
  <2>2. P0' = P0 /\ G0' = G0 /\ M0' = M0 /\ Begun' = Begun /\ Work' = Work
    BY <2>1 DEF P0, G0, M0, Begun, Work
  <2>3. UNCHANGED P!gameVars
    BY <2>1, <2>2 DEF P!gameVars
  <2>4. P!IInv'
    BY <2>3, SeenStep
  <2>5. (AtRest <=> AtRest') /\ (AtNode <=> AtNode')
    BY <2>1, <2>2 DEF AtRest, AtNode
  <2>6. InCall => InCall'
    BY <2>1, <2>2, <2>5 DEF InCall
  <2>7. QED BY <2>1, <2>3, <2>4, <2>5, <2>6 DEF StepsInv, Fine
<1>3. ASSUME NEW dirs \in [Active -> Direction], Begin(dirs)
      PROVE  Fine
  BY <1>3, BeginStep
<1>4. ASSUME Idle,
             \/ \E pos \in Cell : AddPlayer(pos)
             \/ AddPlayerNoRoom
             \/ \E id \in Slot : RemovePlayer(id)
             \/ \E f \in 0 .. MaxFrame : SetFrame(f)
             \/ Undefined
      PROVE  Fine
  BY <1>4, IdleCallStep
<1>5. QED BY <1>1, <1>2, <1>3, <1>4 DEF StepsNext

(* The invariant holds of every state the server thread reaches.           *)
THEOREM StepsInductive == StepsSpec => []StepsInv
<1>1. StepsInit => StepsInv
  BY StepsInitial
<1>2. StepsInv /\ [StepsNext]_stepVars => StepsInv'
  BY EveryStep DEF Fine
<1>3. QED BY <1>1, <1>2, PTL DEF StepsSpec

(* The types follow from it, in and between the calls. *)
LEMMA StepsTyped == StepsInv => StepsTypeOK
<1>1. ASSUME StepsInv, pc = "idle"
      PROVE  StepsTypeOK
  <2>1. P0 = players /\ G0 = grid /\ M0 = maxTailLength /\ P!TypeOK /\ AtRest
    BY <1>1 DEF P0, G0, M0, StepsInv, P!IInv
  <2>2. P!Active = Active
    BY <2>1, SameRules DEF Active, P!Active
  <2>3. TypeOK
    BY <2>1, <2>2, SameRules DEF TypeOK, P!TypeOK
  <2>4. QED BY <1>1, <2>1, <2>3 DEF AtRest, StepsTypeOK
<1>2. ASSUME StepsInv, pc # "idle"
      PROVE  StepsTypeOK
  <2> DEFINE b == Begun
             w == Work
             D == Ids(b) \ w.gone
  <2>1. /\ P!IInv /\ pc \in {"remove", "advance", "trim"}
        /\ InCall /\ Ground(b) /\ Progress(b, w) /\ ptrs \subseteq Slot
        /\ Active = ptrs \ w.gone /\ ptrs = Ids(b)
        /\ \A id \in Active : players.entries[id] = RecordNow(b, w, id)
    BY <1>2, CallFacts DEF StepsInv, InCall
  <2>2. /\ b.dead = colliding /\ b.limit = maxTailLength
        /\ TableIs(b, w, players) /\ GridIs(b, w, grid) /\ w.lost = lost
    BY <2>1 DEF InCall, Begun, Work
  <2>3. \A id \in Active : players.entries[id] \in PlayerRecord
    BY <2>1, <2>2, MarkedNow
  <2>4. grid \in [Cell -> Slot]
    BY <2>1, <2>2, GridTyped
  <2>5. players = [entries |-> [id \in Active |-> players.entries[id]],
                   size    |-> players.size]
        /\ players.size \in Int
    <3> DEFINE f == [id \in D |-> players.entries[id]]
               size == b.players.size - Cardinality(w.gone)
    <3>1. players = [entries |-> f, size |-> size]
      BY <2>2 DEF TableIs
    <3>2. size \in Int
      <4>1. w.gone \subseteq Slot
        BY <2>1 DEF Ground, Progress
      <4>2. IsFiniteSet(Slot)
        BY MaxPlayersAssumption, FS_Interval DEF Slot
      <4>3. Cardinality(w.gone) \in Nat
        BY <4>1, <4>2, FS_Subset, FS_CardinalityType
      <4>4. b.players.size \in Int
        BY <2>1 DEF Ground
      <4>5. QED BY <4>3, <4>4
    <3>3. D = Active
      BY <2>1
    <3>4. f = [id \in Active |-> players.entries[id]]
      BY <3>3
    <3> HIDE DEF f, size, D
    <3>5. players.size = size
      BY <3>1
    <3>6. QED BY <3>1, <3>2, <3>4, <3>5
  <2>6. TypeOK
    <3>1. Active \subseteq Slot /\ maxTailLength \in Nat
      BY <2>1, <2>2 DEF Ground
    <3>2. /\ frame \in 0 .. MaxFrame /\ idCounter \in 1 .. MaxPlayers
          /\ gameStarted \in BOOLEAN /\ overrun \in BOOLEAN
      BY <2>1, SeenInv
    <3>3. QED BY <2>3, <2>4, <2>5, <3>1, <3>2 DEF TypeOK
  <2>7. /\ todo \subseteq ptrs /\ todo # {} /\ colliding \subseteq ptrs
        /\ lost \subseteq ptrs \ colliding
    <3>1. todo \subseteq ptrs /\ todo # {} /\ colliding \subseteq ptrs
      BY <2>1, <2>2 DEF InCall, Ground
    <3>2. lost \subseteq Ids(b) \ b.dead
      BY <2>1, <2>2 DEF Progress, Stamped
    <3>3. QED BY <2>1, <2>2, <3>1, <3>2
  <2>8. tailLen \in Nat /\ current \in Seq(Cell)
    <3>1. CASE pc = "trim"
      BY <2>1, <3>1 DEF InCall, AtNode
    <3>2. CASE pc # "trim"
      BY <2>1, <3>2 DEF InCall
    <3>3. QED BY <3>1, <3>2
  <2>9. QED BY <1>2, <2>1, <2>6, <2>7, <2>8 DEF StepsTypeOK
<1>3. QED BY <1>1, <1>2

(* The variables of the game and the local ones keep their types, also in  *)
(* the middle of a call.                                                   *)
THEOREM StepsTypeCorrect == StepsSpec => []StepsTypeOK
BY StepsInductive, StepsTyped, PTL

(* What the loop over all players judged stays true until it is used: the  *)
(* removals and moves of the others never take a survivor's target.        *)
THEOREM JudgementStaysValid == StepsSpec => []JudgementHolds
<1>1. ASSUME StepsInv, NEW id \in Waiting
      PROVE  new[id] \in Cell /\ grid[new[id]] = 0
  <2>1. pc # "idle"
    BY <1>1 DEF Waiting
  <2>2. /\ InCall /\ Ground(Begun) /\ Progress(Begun, Work) /\ Min(todo) \in todo
        /\ pc \in {"remove", "advance", "trim"}
    BY <1>1, <2>1, CallFacts DEF StepsInv
  <2>3. /\ Begun.dead = colliding /\ Begun.new = new /\ ptrs = Ids(Begun)
        /\ todo \subseteq ptrs /\ GridIs(Begun, Work, grid)
    BY <2>2 DEF InCall, Begun
  <2>4. /\ Work.done = IF pc = "remove" THEN {} ELSE (ptrs \ todo) \ colliding
        /\ Work.cur = IF pc = "trim" THEN {Min(todo)} ELSE {}
    BY DEF Work
  <2>5. id \in Ids(Begun) \ Begun.dead /\ id \notin Stamped(Work)
    <3>1. CASE pc = "remove"
      BY <1>1, <2>3, <2>4, <3>1 DEF Waiting, Stamped
    <3>2. CASE pc = "advance"
      BY <1>1, <2>3, <2>4, <3>2 DEF Waiting, Stamped
    <3>3. CASE pc = "trim"
      BY <1>1, <2>3, <2>4, <3>3 DEF Waiting, Stamped
    <3>4. QED BY <2>2, <3>1, <3>2, <3>3
  <2>6. QED BY <2>2, <2>3, <2>5, TargetStaysFree
<1>2. StepsInv => JudgementHolds
  BY <1>1 DEF JudgementHolds
<1>3. QED BY <1>2, StepsInductive, PTL

(* Whatever instant the renderer thread picks, the tail nodes it can reach *)
(* through the table lie on cells that carry the id of their owner.        *)
THEOREM TrailsStayMarkedMeanwhile == StepsSpec => []TrailsMarkedMeanwhile
<1>1. ASSUME StepsInv, pc # "idle", NEW id \in Active
      PROVE  \A c \in TailCells(players.entries[id]) : grid[c] = id
  <2>1. /\ InCall /\ Ground(Begun) /\ Progress(Begun, Work)
        /\ ptrs = Ids(Begun) /\ Active = ptrs \ Work.gone
        /\ players.entries[id] = RecordNow(Begun, Work, id)
    BY <1>1, CallFacts DEF InCall
  <2>2. GridIs(Begun, Work, grid)
    BY <2>1 DEF InCall
  <2>3. QED BY <2>1, <2>2, MarkedNow
<1>2. ASSUME StepsInv, pc = "idle", NEW id \in Active
      PROVE  \A c \in TailCells(players.entries[id]) : grid[c] = id
  <2>1. P0 = players /\ G0 = grid
    BY <1>2 DEF P0, G0
  <2>2. id \in DOMAIN P0.entries
    BY <2>1 DEF Active, Occupied
  <2>3. \A c \in TrailCells(P0.entries[id]) : G0[c] = id
    BY <1>2, <2>2, SeenInv DEF StepsInv
  <2>4. QED BY <2>1, <2>3 DEF TrailCells
<1>3. StepsInv => TrailsMarkedMeanwhile
  BY <1>1, <1>2 DEF TrailsMarkedMeanwhile
<1>4. QED BY <1>3, StepsInductive, PTL

-----------------------------------------------------------------------------
(* Refinement.                                                             *)

(* The game that the callers see is the instance of Game that Refines      *)
(* speaks of.                                                              *)
LEMMA SameInit == P!Init => Atomic!Init
BY DEF P!Init, Atomic!Init, P!MapCreate, Atomic!MapCreate, P!Cell, Atomic!Cell, P0, G0, M0

(* Each of its actions is the action of that name. *)
LEMMA SameNext == [P!Next]_(P!gameVars) => [Atomic!Next]_(Atomic!gameVars)
<1>1. P!gameVars = Atomic!gameVars /\ P!gameVars' = Atomic!gameVars'
  BY DEF P!gameVars, Atomic!gameVars, P0, G0, M0
<1>2. /\ P!Cell = Atomic!Cell /\ P!Slot = Atomic!Slot
      /\ P!Direction = Atomic!Direction /\ P!Active = Atomic!Active
  BY DEF P!Cell, Atomic!Cell, P!Slot, Atomic!Slot, P!Direction, Atomic!Direction,
         P!Active, Atomic!Active, P!Occupied, Atomic!Occupied, P0
<1>3. P!LostSets = Atomic!LostSets
  BY <1>2 DEF P!LostSets, Atomic!LostSets
<1>4. \A ids : P!Cleared(ids) = Atomic!Cleared(ids)
  BY <1>2 DEF P!Cleared, Atomic!Cleared, P!TrailCells, Atomic!TrailCells,
         P!TailCells, Atomic!TailCells, P0, G0
<1>5. ASSUME NEW pos \in P!Cell, P!AddPlayer(pos)
      PROVE  Atomic!AddPlayer(pos)
  BY <1>5 DEF P!AddPlayer, Atomic!AddPlayer, P!MapInsert, Atomic!MapInsert,
         P!Occupied, Atomic!Occupied, P!PlayerCreate, Atomic!PlayerCreate,
         P!PaletteIndex, Atomic!PaletteIndex, P!Slot, Atomic!Slot, P0, G0, M0
<1>6. ASSUME P!AddPlayerNoRoom
      PROVE  Atomic!AddPlayerNoRoom
  BY <1>6 DEF P!AddPlayerNoRoom, Atomic!AddPlayerNoRoom, P!Cell, Atomic!Cell,
         P0, G0, M0
<1>7. ASSUME NEW id \in P!Slot, P!RemovePlayer(id)
      PROVE  Atomic!RemovePlayer(id)
  BY <1>2, <1>4, <1>7 DEF P!RemovePlayer, Atomic!RemovePlayer, P!MapDelete,
         Atomic!MapDelete, P!Occupied, Atomic!Occupied, P0, G0, M0
<1>8. ASSUME NEW f \in 0 .. MaxFrame, P!SetFrame(f)
      PROVE  Atomic!SetFrame(f)
  BY <1>8 DEF P!SetFrame, Atomic!SetFrame, P0, G0, M0
<1>9. ASSUME P!Undefined
      PROVE  Atomic!Undefined
  BY <1>1, <1>9 DEF P!Undefined, Atomic!Undefined
<1>10. ASSUME NEW dirs, NEW l, P!MovePlayers(dirs, l)
       PROVE  Atomic!MovePlayers(dirs, l)
  <2>1. P!Targets(dirs) = Atomic!Targets(dirs)
    BY <1>2 DEF P!Targets, Atomic!Targets, P!Step, Atomic!Step,
           P!DirectionToVector, Atomic!DirectionToVector, P0
  <2>2. \A nw : P!Colliding(nw) = Atomic!Colliding(nw)
    BY <1>2 DEF P!Colliding, Atomic!Colliding, P!IsLegalMove, Atomic!IsLegalMove, G0
  <2>3. P!TailLimit(frame) = Atomic!TailLimit(frame)
    BY DEF P!TailLimit, Atomic!TailLimit
  <2>4. \A p : P!Grown(p, l) = Atomic!Grown(p, l)
    BY DEF P!Grown, Atomic!Grown
  <2>5. \A p, pos, limit : P!Moved(p, pos, l, limit) = Atomic!Moved(p, pos, l, limit)
    <3>1. \A tail, limit : P!Kept(tail, limit) = Atomic!Kept(tail, limit)
      BY DEF P!Kept, Atomic!Kept
    <3>2. ASSUME NEW p, NEW pos, NEW limit
          PROVE  P!Moved(p, pos, l, limit) = Atomic!Moved(p, pos, l, limit)
      <4>1. P!Kept(P!Grown(p, l), limit) = Atomic!Kept(Atomic!Grown(p, l), limit)
        BY <2>4, <3>1
      <4>2. QED BY <4>1 DEF P!Moved, Atomic!Moved
    <3>3. QED BY <3>2
  <2>6. \A map, keys : P!MapDeleteAll(map, keys) = Atomic!MapDeleteAll(map, keys)
    BY DEF P!MapDeleteAll, Atomic!MapDeleteAll, P!Occupied, Atomic!Occupied,
           P!Cardinality, Atomic!Cardinality
  <2>7. \A nw, dead, limit : P!PlayersAfter(nw, dead, l, limit)
                              = Atomic!PlayersAfter(nw, dead, l, limit)
    BY <2>5, <2>6 DEF P!PlayersAfter, Atomic!PlayersAfter, P!Occupied,
           Atomic!Occupied, P0
  <2>8. \A nw, dead, limit : P!GridAfter(nw, dead, l, limit)
                              = Atomic!GridAfter(nw, dead, l, limit)
    BY <1>2, <1>4, <2>4 DEF P!GridAfter, Atomic!GridAfter, P!TrimmedCells,
           Atomic!TrimmedCells, P0
  <2>9. QED BY <1>10, <2>1, <2>2, <2>3, <2>7, <2>8
               DEF P!MovePlayers, Atomic!MovePlayers, P0, G0, M0
<1>11. P!Next => Atomic!Next
  BY <1>2, <1>3, <1>5, <1>6, <1>7, <1>8, <1>9, <1>10 DEF P!Next, Atomic!Next
<1>12. QED BY <1>1, <1>11

(* The loops of game_move_players implement the atomic move: whatever the  *)
(* order of removals, stamps and trims, and whichever allocation fails,    *)
(* the callers see a behaviour of Game.                                    *)
THEOREM LoopsImplementTheMove == StepsSpec => Refines
<1>1. StepsInit => Atomic!Init
  BY StepsInitial, SameInit
<1>2. StepsInv /\ [StepsNext]_stepVars => [Atomic!Next]_(Atomic!gameVars)
  BY EveryStep, SameNext DEF Fine
<1>3. QED BY <1>1, <1>2, StepsInductive, PTL DEF StepsSpec, Refines, Atomic!Spec
=============================================================================
