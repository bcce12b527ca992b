------------------------- MODULE RendererViewProofs -------------------------
(***************************************************************************)
(* Proofs about RendererView: what the renderer, which holds no lock while *)
(* it draws, can get wrong, and what it cannot, wherever the steps of the  *)
(* other threads fall between its own.                                     *)
(***************************************************************************)
EXTENDS RendererView, GameStepsProofs

-----------------------------------------------------------------------------
(* The inductive invariant.                                                *)

(* ViewTypeOK apart from the types of the game. *)
ViewTyped ==
  /\ phase \in {"lobby", "first", "drops", "moving", "head", "done"}
  /\ destroying \in Slot
  /\ rpc \in {"idle", "tail", "headY", "head", "over", "winner", "name", "stale"}
  /\ toDraw \subseteq Slot
  /\ (toDraw = {}) = (rpc \in {"idle", "over", "winner"})
  /\ node \in Nat /\ head \in Cell /\ been \in Seq(Cell)
  /\ picture \in Slot \cup {NoBanner}

(* Moves are made in the phase for them; who is being destroyed is still   *)
(* in the table; and in the lobby nobody leaves and nobody has won.        *)
Turns ==
  /\ pc # "idle" => phase = "moving"
  /\ destroying # 0 => destroying \in Condemned
  /\ phase = "lobby" => toDraw \subseteq Active
  /\ rpc \in {"over", "winner", "name"} => phase # "lobby"

(* The node the walk is at has not been freed, with the two exceptions     *)
(* that StaleReadExplained names.                                          *)
NodeReached ==
  rpc = "tail" /\ node # 0 /\ Drawn \in Active \ {destroying} =>
    LiveNode(Drawn, node) \/ Len(TailOf(Drawn)) >= BaseTailLength

(* While a head is half read the history ends where the player is, and one *)
(* move lies between its two places.                                       *)
HeadFollowed ==
  rpc = "headY" /\ been # <<>> =>
    /\ Drawn \in Active /\ Len(been) \in {1, 2}
    /\ been[Len(been)] = PositionOf(Drawn)
    /\ head[1] = been[1][1]
    /\ Len(been) = 2 => Adjacent(been[1], been[2])

(* Once a winner is looked for the game is over, and stays over.           *)
OverStays ==
  /\ players.size = Cardinality(Active)
  /\ rpc \in {"winner", "name"} => GameIsOver
  /\ rpc = "name" => Active \subseteq {Drawn}
  /\ picture # NoBanner =>
       phase # "lobby" /\ GameIsOver /\ Active \subseteq {picture}

ViewInv ==
  /\ StepsInv /\ ViewTyped /\ Turns /\ OverStays
  /\ NodeReached /\ StaleReadExplained
  /\ HeadFollowed /\ HeadWhereItWas

-----------------------------------------------------------------------------
(* What the steps of the other threads do to the table.                    *)

(* The table in any state of the server thread. *)
LEMMA TableFacts ==
  ASSUME StepsInv
  PROVE  /\ players = [entries |-> [k \in Active |-> players.entries[k]],
                       size    |-> players.size]
         /\ Active \subseteq Slot /\ 0 \notin Active /\ IsFiniteSet(Active)
         /\ \A id \in Active : players.entries[id] \in PlayerRecord
<1>1. TypeOK
  BY StepsTyped DEF StepsTypeOK
<1>2. 0 \notin Active
  <2>1. CASE pc = "idle"
    <3>1. P0 = players
      BY <2>1 DEF P0
    <3>2. QED BY <3>1, SeenInv DEF StepsInv, Active, Occupied
  <2>2. CASE pc # "idle"
    BY <2>2, CallFacts
  <2>3. QED BY <2>1, <2>2
<1>3. IsFiniteSet(Active)
  BY <1>1, ActiveFinite
<1>4. QED BY <1>1, <1>2, <1>3 DEF TypeOK

(* One record changes. *)
LEMMA RecordPut ==
  ASSUME StepsInv, NEW id \in Active, NEW r,
         players' = [players EXCEPT !.entries = [players.entries EXCEPT ![id] = r]]
  PROVE  /\ Active' = Active /\ players'.size = players.size
         /\ players'.entries[id] = r
         /\ \A k \in Active : k # id => players'.entries[k] = players.entries[k]
<1> DEFINE q == [players EXCEPT !.entries = [players.entries EXCEPT ![id] = r]]
           A == Active
           size == players.size
<1>1. players = [entries |-> [k \in A |-> players.entries[k]], size |-> size]
  BY TableFacts
<1> HIDE DEF A, size
<1>2. /\ q = [entries |-> [k \in A |-> q.entries[k]], size |-> size]
      /\ q.entries[id] = r
      /\ \A k \in A : k # id => q.entries[k] = players.entries[k]
  BY <1>1, PutRecord DEF A
<1> HIDE DEF q
<1>3. players' = q
  BY DEF q
<1>4. DOMAIN q.entries = A /\ q.size = size
  <2> DEFINE f == [k \in A |-> q.entries[k]]
  <2>1. q = [entries |-> f, size |-> size] /\ DOMAIN f = A
    BY <1>2
  <2> HIDE DEF f
  <2>2. q.entries = f /\ q.size = size
    BY <2>1
  <2>3. QED BY <2>1, <2>2
<1>5. Active' = A
  BY <1>3, <1>4 DEF Active, Occupied
<1>6. QED BY <1>2, <1>3, <1>4, <1>5 DEF A, size

(* A player leaves the table, or it was not there. *)
LEMMA Deleted ==
  ASSUME StepsInv, players.size = Cardinality(Active), NEW id,
         players' = MapDelete(players, id)
  PROVE  /\ Active' = Active \ {id} /\ players'.size = Cardinality(Active')
         /\ players'.size <= players.size
         /\ \A k \in Active' : players'.entries[k] = players.entries[k]
<1>1. IsFiniteSet(Active)
  BY TableFacts
<1>2. CASE id \in Active
  <2>1. /\ Active' = Active \ {id} /\ players'.size = players.size - 1
        /\ \A k \in Active' : players'.entries[k] = players.entries[k]
    BY <1>2 DEF MapDelete, Active, Occupied
  <2>2. Cardinality(Active \ {id}) = Cardinality(Active) - 1 /\ Cardinality(Active) \in Nat
    BY <1>1, <1>2, FS_RemoveElement, FS_CardinalityType
  <2>3. QED BY <2>1, <2>2
<1>3. CASE id \notin Active
  <2>1. players' = players
    BY <1>3 DEF MapDelete, Active, Occupied
  <2>2. Active' = Active /\ Active \ {id} = Active
    BY <1>3, <2>1 DEF Active
  <2>3. Cardinality(Active) \in Nat
    BY <1>1, FS_CardinalityType
  <2>4. QED BY <2>1, <2>2, <2>3
<1>4. QED BY <1>2, <1>3

(* A player joins; no other record is touched. *)
LEMMA Inserted ==
  ASSUME StepsInv, players.size = Cardinality(Active), NEW pos, AddPlayer(pos)
  PROVE  /\ Active \subseteq Active' /\ players'.size = Cardinality(Active')
         /\ \A k \in Active : players'.entries[k] = players.entries[k]
<1>1. IsFiniteSet(Active)
  BY TableFacts
<1>2. CASE idCounter \in Slot /\ idCounter \notin Active
  <2> DEFINE p == PlayerCreate(idCounter, pos)
  <2>1. players' = MapInsert(players, idCounter, p)
    BY <1>2 DEF AddPlayer
  <2> HIDE DEF p
  <2>2. /\ Active' = Active \cup {idCounter} /\ players'.size = players.size + 1
        /\ \A k \in Active : players'.entries[k] = players.entries[k]
    BY <1>2, <2>1 DEF MapInsert, Active, Occupied
  <2>3. Cardinality(Active \cup {idCounter}) = Cardinality(Active) + 1
    BY <1>1, <1>2, FS_AddElement
  <2>4. QED BY <2>2, <2>3
<1>3. CASE ~(idCounter \in Slot /\ idCounter \notin Active)
  <2>1. players' = players
    BY <1>3 DEF AddPlayer, MapInsert, Active, Occupied
  <2>2. QED BY <2>1 DEF Active
<1>4. QED BY <1>2, <1>3

(* The player whose turn it is. *)
LEMMA MoverNow ==
  ASSUME StepsInv, pc = "trim"
  PROVE  LET id == Min(todo)
             g  == Nodes(Begun, Work, id)
         IN  /\ id \in Active
             /\ players.entries[id] =
                  [Rec(Begun, id) EXCEPT !.tail = Partly(g, tailLen, maxTailLength)]
             /\ Rec(Begun, id) \in PlayerRecord
             /\ g \in Seq(Cell) /\ current \in Seq(Cell) /\ tailLen \in Nat
             /\ tailLen + Len(current) = Len(g)
             /\ maxTailLength \in Nat /\ maxTailLength >= BaseTailLength
             /\ BaseTailLength \in Nat \ {0}
             /\ Adjacent(Rec(Begun, id).position, new[id])
<1> DEFINE id == Min(todo)
           b == Begun
           w == Work
<1>1. /\ InCall /\ AtNode /\ Ground(b) /\ ptrs = Ids(b) /\ id \in todo /\ id \in ptrs
      /\ Active = ptrs \ w.gone /\ Judged(b) /\ P!IInv
      /\ \A k \in Active : players.entries[k] = RecordNow(b, w, k)
  BY CallFacts DEF InCall, StepsInv
<1>2. /\ w.gone = colliding /\ w.done = (ptrs \ todo) \ colliding
      /\ w.cur = {id} /\ w.n = tailLen /\ b.limit = maxTailLength /\ b.new = new
  BY DEF Work, Begun
<1>3. /\ id \notin colliding /\ tailLen \in Nat /\ current \in Seq(Cell)
      /\ tailLen + Len(current) = Len(Nodes(b, w, id))
  BY <1>1 DEF AtNode
<1>4. id \in Active /\ id \notin w.done
  BY <1>1, <1>2, <1>3
<1>5. players.entries[id] = [Rec(b, id) EXCEPT !.tail = Partly(Nodes(b, w, id), tailLen, maxTailLength)]
  BY <1>1, <1>2, <1>4 DEF RecordNow
<1>6. Nodes(b, w, id) \in Seq(Cell) /\ Rec(b, id) \in PlayerRecord
  BY <1>1, NodeFacts DEF Ground
<1>7. maxTailLength \in Nat /\ maxTailLength >= BaseTailLength /\ BaseTailLength \in Nat \ {0}
  <2>1. maxTailLength = TailLimit(frame)
    BY <1>1 DEF InCall
  <2>2. frame \in Nat /\ BaseTailLength \in Nat \ {0} /\ FramesPerTailCell \in Nat
        /\ FramesPerTailCell > 0
    BY <1>1, SeenInv, GameAssumption
  <2>3. frame \div FramesPerTailCell \in Nat
    BY <2>2
  <2>4. QED BY <2>1, <2>2, <2>3 DEF TailLimit
<1>8. Adjacent(Rec(b, id).position, new[id])
  <2>1. PICK dirs \in [Ids(b) -> Direction] : b.new = Targeted(b.players, dirs)
    BY <1>1 DEF Judged
  <2>2. id \in Ids(b)
    BY <1>1
  <2>3. new[id] = Step(Rec(b, id).position, dirs[id]) /\ dirs[id] \in Direction
    BY <1>2, <2>1, <2>2 DEF Targeted, Ids, Rec
  <2>4. QED BY <2>3 DEF Adjacent
<1>9. QED BY <1>3, <1>4, <1>5, <1>6, <1>7, <1>8

(* The player who takes the step of StampAndPush. *)
LEMMA MoverNext ==
  ASSUME StepsInv, pc = "advance", ~Skipped(PtrId(Min(todo)))
  PROVE  Min(todo) \in Active /\ PtrId(Min(todo)) = Min(todo)
<1>1. /\ Min(todo) \in ptrs /\ Active = ptrs \ colliding /\ 0 \notin ptrs
      /\ \A id \in Active : players.entries[id].id = id
  BY CallFacts DEF Work
<1>2. QED BY <1>1 DEF Skipped, PtrId

-----------------------------------------------------------------------------
(* A step of another thread, as far as the renderer is concerned.          *)

(* Nobody is moved further than one cell, and after the lobby the table    *)
(* only shrinks.                                                           *)
Evolves ==
  /\ players'.size = Cardinality(Active')
  /\ \A k \in Active \cap Active' :
       \/ PositionOf(k)' = PositionOf(k)
       \/ Adjacent(PositionOf(k), PositionOf(k)')
  /\ IF phase = "lobby"
     THEN Active \subseteq Active'
     ELSE /\ phase' # "lobby" /\ Active' \subseteq Active
          /\ players'.size <= players.size /\ gameStarted' = gameStarted

(* The records of those who stay are as they were. *)
RecordsKept ==
  \A k \in Active \cap Active' : players'.entries[k] = players.entries[k]

(* A history of one place that gets a second. *)
LEMMA AppendOne ==
  ASSUME NEW S, NEW s \in Seq(S), Len(s) = 1, NEW e \in S
  PROVE  LET t == Append(s, e) IN
         t \in Seq(S) /\ Len(t) = 2 /\ t[1] = s[1] /\ t[2] = e
<1>1. Append(s, e) \in Seq(S) /\ Len(Append(s, e)) = Len(s) + 1
  BY AppendProperties, Zenon
<1>2. Len(s) + 1 = 2 /\ 1 \in 1 .. Len(s)
  OBVIOUS
<1>3. Append(s, e)[1] = s[1]
  <2>1. Append(s, e) = s \o <<e>>
    BY AppendIsConcat
  <2>2. (s \o <<e>>)[1] = s[1]
    BY <1>2, ConcatProperties
  <2>3. QED BY <2>1, <2>2
<1>4. Append(s, e)[Len(s) + 1] = e
  BY AppendProperties, Zenon
<1>5. QED BY <1>1, <1>2, <1>3, <1>4, Zenon

(* The types of the game in the next state. *)
LEMMA StepsTypedNext == StepsInv' => StepsTypeOK'
BY StepsTyped, PTL

(* What the next state is left to show of the table. *)
LEMMA TableNext ==
  ASSUME StepsInv'
  PROVE  /\ \A k \in Active' : players'.entries[k] \in PlayerRecord
         /\ players'.size \in Int
BY StepsTypedNext DEF StepsTypeOK, TypeOK

(* The renderer's own state stays in order.                                *)
LEMMA OtherKeeps ==
  ASSUME ViewInv, StepsInv', NEW pushed \in Slot, SeenByRenderer(pushed), Evolves,
         NodeReached', Turns',
         phase' \in {"lobby", "first", "drops", "moving", "head", "done"},
         destroying' \in Slot
  PROVE  ViewInv'
<1>1. /\ ViewTyped /\ Turns /\ OverStays /\ HeadFollowed /\ HeadWhereItWas
  BY DEF ViewInv
<1>2. /\ rpc # "stale" /\ UNCHANGED <<rpc, toDraw, head, picture>>
      /\ node' \in {node, node + 1} /\ Drawn' = Drawn
  BY DEF SeenByRenderer, Drawn
<1>3. rpc # "headY" \/ been = <<>> => been' = been
  BY DEF SeenByRenderer
<1>4. \A k \in Active' : PositionOf(k)' = players'.entries[k].position
                         /\ PositionOf(k)' \in Cell
  BY TableNext DEF PositionOf, PlayerRecord
<1>5. ASSUME rpc = "headY", been # <<>>
      PROVE  HeadFollowed' /\ HeadWhereItWas' /\ been' \in Seq(Cell)
  <2> DEFINE pos == players'.entries[Drawn].position
             last == been[Len(been)]
             seen == IF Drawn \notin Active' THEN <<>>
                     ELSE IF pos = last THEN been
                     ELSE IF Len(been) = 1 THEN Append(been, pos) ELSE <<>>
  <2>1. /\ Drawn \in Active /\ Len(been) \in {1, 2}
        /\ last = PositionOf(Drawn) /\ head[1] = been[1][1]
        /\ Len(been) = 2 => Adjacent(been[1], been[2])
        /\ been \in Seq(Cell)
    BY <1>1, <1>5 DEF HeadFollowed, ViewTyped
  <2>2. been' = seen
    BY <1>5 DEF SeenByRenderer, Active
  <2>3. CASE Drawn \notin Active'
    <3>1. been' = <<>>
      BY <2>2, <2>3
    <3>2. QED BY <1>2, <1>5, <3>1 DEF HeadFollowed, HeadWhereItWas
  <2>4. CASE Drawn \in Active' /\ pos = last
    <3>1. been' = been
      BY <2>2, <2>4
    <3>2. PositionOf(Drawn)' = last
      BY <1>2, <1>4, <2>4
    <3>3. QED BY <1>2, <1>5, <2>1, <2>4, <3>1, <3>2 DEF HeadFollowed, HeadWhereItWas
  <2>5. CASE Drawn \in Active' /\ pos # last /\ Len(been) = 1
    <3>1. been' = Append(been, pos)
      BY <2>2, <2>5
    <3>2. PositionOf(Drawn)' = pos /\ pos \in Cell
      BY <1>2, <1>4, <2>5
    <3>3. Adjacent(been[1], pos)
      <4>1. last = been[1]
        BY <2>5
      <4>2. Drawn \in Active \cap Active'
        BY <2>1, <2>5
      <4>3. PositionOf(Drawn)' = PositionOf(Drawn) \/ Adjacent(PositionOf(Drawn), PositionOf(Drawn)')
        BY <1>2, <4>2 DEF Evolves
      <4>4. QED BY <2>1, <2>5, <3>2, <4>1, <4>3
    <3> HIDE DEF pos, last
    <3>4. been' \in Seq(Cell) /\ Len(been') = 2 /\ been'[1] = been[1] /\ been'[2] = pos
      <4>1. been \in Seq(Cell) /\ Len(been) = 1 /\ pos \in Cell
        BY <2>1, <2>5, <3>2
      <4>2. QED BY <3>1, <4>1, AppendOne
    <3>5. been' # <<>>
      BY <3>4
    <3>6. QED BY <1>2, <1>5, <2>1, <2>5, <3>2, <3>3, <3>4, <3>5 DEF HeadFollowed, HeadWhereItWas
  <2>6. CASE Drawn \in Active' /\ pos # last /\ Len(been) # 1
    <3>1. been' = <<>>
      BY <2>2, <2>6
    <3>2. QED BY <1>2, <1>5, <3>1 DEF HeadFollowed, HeadWhereItWas
  <2>7. QED BY <2>3, <2>4, <2>5, <2>6
<1>6. ASSUME ~(rpc = "headY" /\ been # <<>>)
      PROVE  HeadFollowed' /\ HeadWhereItWas' /\ been' \in Seq(Cell)
  BY <1>1, <1>2, <1>3, <1>6 DEF HeadFollowed, HeadWhereItWas, ViewTyped
<1>7. HeadFollowed' /\ HeadWhereItWas' /\ been' \in Seq(Cell)
  BY <1>5, <1>6
<1>8. ViewTyped'
  BY <1>1, <1>2, <1>7 DEF ViewTyped
<1>9. OverStays'
  <2>1. CASE phase = "lobby"
    <3>1. rpc \notin {"winner", "name"} /\ picture = NoBanner
      BY <1>1, <2>1 DEF Turns, OverStays
    <3>2. QED BY <1>2, <3>1 DEF OverStays, Evolves
  <2>2. CASE phase # "lobby"
    <3>1. /\ phase' # "lobby" /\ Active' \subseteq Active
          /\ players'.size <= players.size /\ gameStarted' = gameStarted
          /\ players'.size = Cardinality(Active')
      BY <2>2 DEF Evolves
    <3>2. players.size \in Int /\ players'.size \in Int
      BY TableNext, StepsTyped DEF ViewInv, StepsTypeOK, TypeOK
    <3>3. GameIsOver => GameIsOver'
      BY <3>1, <3>2 DEF GameIsOver, MapSize
    <3>4. QED BY <1>1, <1>2, <3>1, <3>3 DEF OverStays
  <2>3. QED BY <2>1, <2>2
<1>10. StaleReadExplained'
  BY <1>2 DEF StaleReadExplained
<1>11. QED BY <1>7, <1>8, <1>9, <1>10 DEF ViewInv

(* Where no record changes the walk is not disturbed either.               *)
LEMMA NodeKept ==
  ASSUME ViewInv, StepsInv', SeenByRenderer(0), pc # "trim", RecordsKept,
         \/ Active' \subseteq Active
         \/ toDraw \subseteq Active,
         \/ destroying' = destroying
         \/ destroying = 0
         \/ destroying \notin Active'
  PROVE  NodeReached'
<1> SUFFICES ASSUME rpc' = "tail", node' # 0, Drawn' \in Active' \ {destroying'}
             PROVE  LiveNode(Drawn, node)' \/ Len(TailOf(Drawn))' >= BaseTailLength
  BY DEF NodeReached
<1>1. rpc = "tail" /\ toDraw' = toDraw /\ node' = node /\ Drawn' = Drawn
  BY DEF SeenByRenderer, Drawn
<1>2. NodeReached /\ ViewTyped /\ 0 \notin Active
  BY TableFacts DEF ViewInv
<1>3. Drawn \in toDraw
  <2>1. toDraw \subseteq Slot /\ toDraw # {}
    BY <1>1, <1>2 DEF ViewTyped
  <2>2. QED BY <2>1, MinOfSlots DEF Drawn
<1>4. Drawn \in Active \cap Active'
  BY <1>1, <1>3
<1>5. Drawn \in Active \ {destroying}
  BY <1>1, <1>2, <1>4
<1>6. TailOf(Drawn)' = TailOf(Drawn)
  BY <1>1, <1>4 DEF TailOf, RecordsKept
<1>7. LiveNode(Drawn, node) => node \in DOMAIN TailOf(Drawn)
  BY DEF LiveNode
<1>8. LiveNode(Drawn, node) \/ Len(TailOf(Drawn)) >= BaseTailLength
  BY <1>1, <1>2, <1>5 DEF NodeReached
<1>9. CASE LiveNode(Drawn, node)
  BY <1>1, <1>6, <1>7, <1>9 DEF LiveNode
<1>10. CASE Len(TailOf(Drawn)) >= BaseTailLength
  BY <1>6, <1>10
<1>11. QED BY <1>8, <1>9, <1>10

(* Records that are kept are not moved.                                    *)
LEMMA KeptIsStill ==
  ASSUME RecordsKept
  PROVE  \A k \in Active \cap Active' : PositionOf(k)' = PositionOf(k)
BY DEF RecordsKept, PositionOf

(* A step of another thread that changes no record: the summary of the     *)
(* calls that add, remove or leave alone.                                  *)
LEMMA QuietStep ==
  ASSUME ViewInv, StepsInv', SeenByRenderer(0), pc # "trim", RecordsKept,
         players'.size = Cardinality(Active'),
         IF phase = "lobby"
         THEN Active \subseteq Active'
         ELSE /\ phase' # "lobby" /\ Active' \subseteq Active
              /\ players'.size <= players.size /\ gameStarted' = gameStarted,
         \/ destroying' = destroying
         \/ destroying = 0
         \/ destroying \notin Active',
         Turns',
         phase' \in {"lobby", "first", "drops", "moving", "head", "done"},
         destroying' \in Slot
  PROVE  ViewInv'
<1>1. Evolves
  BY KeptIsStill DEF Evolves
<1>2. Active' \subseteq Active \/ toDraw \subseteq Active
  BY DEF ViewInv, Turns
<1>3. NodeReached'
  BY <1>2, NodeKept
<1>4. 0 \in Slot
  BY MaxPlayersAssumption DEF Slot
<1>5. QED BY <1>1, <1>3, <1>4, OtherKeeps

-----------------------------------------------------------------------------
(* The steps of the other threads, one by one.                             *)

(* To the game each of them is one of its own steps, or none. *)
LEMMA GameGoesOn ==
  ASSUME ViewInv, [ViewNext]_viewVars
  PROVE  [StepsNext]_stepVars
<1>1. StepsInv /\ frame \in Nat /\ destroying \in Slot
  BY StepsTyped DEF ViewInv, ViewTyped, StepsTypeOK, TypeOK
<1>2. ASSUME Join
      PROVE  [StepsNext]_stepVars
  BY <1>2 DEF Join, StepsNext
<1>3. ASSUME LoopHead
      PROVE  [StepsNext]_stepVars
  <2>1. CASE UNCHANGED stepVars
    BY <2>1
  <2>2. CASE ~(UNCHANGED stepVars)
    <3>1. Idle /\ \E f \in Int : f \in {0, frame + 1} /\ f <= MaxFrame /\ SetFrame(f)
      BY <1>1, <1>3, <2>2 DEF LoopHead
    <3>2. Idle /\ \E f \in 0 .. MaxFrame : SetFrame(f)
      BY <1>1, <3>1, GameAssumption
    <3>3. QED BY <3>2 DEF StepsNext
  <2>3. QED BY <2>1, <2>2
<1>4. ASSUME FinishRemoval
      PROVE  [StepsNext]_stepVars
  BY <1>1, <1>4 DEF FinishRemoval, StepsNext, MoveStep
<1>5. ASSUME BeginMove
      PROVE  [StepsNext]_stepVars
  BY <1>5 DEF BeginMove, StepsNext
<1>6. ASSUME Moving
      PROVE  [StepsNext]_stepVars
  BY <1>6 DEF Moving, StepsNext, MoveStep
<1>7. ASSUME DestroyTail \/ EndFrame \/ StartPlay \/ Renderer
      PROVE  [StepsNext]_stepVars
  BY <1>7 DEF DestroyTail, EndFrame, Idle, StartPlay, Renderer, stepVars,
     Collect, DrawNode, ReadHeadX, ReadHeadY, DrawHead, CheckOver, CollectWinner,
     ShowWinner, OthersUnchanged
<1>8. ASSUME UNCHANGED viewVars
      PROVE  [StepsNext]_stepVars
  BY <1>8 DEF viewVars
<1>9. QED
  BY <1>2, <1>3, <1>4, <1>5, <1>6, <1>7, <1>8 DEF ViewNext, Others

(* The game's own invariant holds whatever the renderer does.              *)
LEMMA GameStaysInOrder ==
  ASSUME ViewInv, [ViewNext]_viewVars
  PROVE  StepsInv'
BY GameGoesOn, EveryStep DEF Fine, ViewInv

(* Nobody is being destroyed except where removals are made. *)
LEMMA NobodyCondemned ==
  ASSUME ViewInv, phase # "drops", pc # "remove"
  PROVE  destroying = 0
BY DEF ViewInv, Turns, Condemned

(* A table that is left alone. *)
LEMMA TableSame ==
  ASSUME ViewInv, players' = players
  PROVE  /\ Active' = Active /\ RecordsKept
         /\ players'.size = Cardinality(Active') /\ players'.size <= players.size
<1>1. players.size \in Int
  BY StepsTyped DEF ViewInv, StepsTypeOK, TypeOK
<1>2. Active' = Active
  BY DEF Active
<1>3. players.size = Cardinality(Active)
  BY DEF ViewInv, OverStays
<1>4. QED BY <1>1, <1>2, <1>3 DEF RecordsKept

(* A player joins.                                                         *)
LEMMA JoinStep == ASSUME ViewInv, StepsInv', Join PROVE ViewInv'
<1>1. /\ phase = "lobby" /\ phase' = phase /\ pc = "idle" /\ pc' = "idle"
      /\ destroying' = destroying /\ SeenByRenderer(0)
  BY DEF Join, Idle
<1>2. destroying = 0 /\ destroying' = 0
  BY <1>1, NobodyCondemned
<1>3. Active \subseteq Active' /\ RecordsKept /\ players'.size = Cardinality(Active')
  <2>1. CASE AddPlayerNoRoom
    <3>1. players' = players
      BY <2>1 DEF AddPlayerNoRoom
    <3>2. QED BY <3>1, TableSame
  <2>2. ASSUME NEW pos \in Cell, AddPlayer(pos)
        PROVE  Active \subseteq Active' /\ RecordsKept /\ players'.size = Cardinality(Active')
    <3>1. StepsInv /\ players.size = Cardinality(Active)
      BY DEF ViewInv, OverStays
    <3>2. QED BY <2>2, <3>1, Inserted DEF RecordsKept
  <2>3. QED BY <2>1, <2>2 DEF Join
<1>4. Turns'
  <2>1. toDraw \subseteq Active /\ rpc \notin {"over", "winner", "name"}
    BY <1>1 DEF ViewInv, Turns
  <2>2. toDraw' = toDraw /\ rpc' = rpc
    BY <1>1 DEF SeenByRenderer
  <2>3. QED BY <1>1, <1>2, <1>3, <2>1, <2>2 DEF Turns
<1>5. destroying' \in Slot
  BY <1>1 DEF ViewInv, ViewTyped
<1>6. QED BY <1>1, <1>2, <1>3, <1>4, <1>5, QuietStep

(* The game loop looks whether the game is over.                           *)
LEMMA LoopHeadStep == ASSUME ViewInv, StepsInv', LoopHead PROVE ViewInv'
<1>1. /\ phase \in {"first", "head"} /\ phase' \in {"done", "drops"}
      /\ players' = players /\ gameStarted' = gameStarted /\ pc' = pc
      /\ destroying' = destroying /\ SeenByRenderer(0)
  BY DEF LoopHead, stepVars, gameVars, Idle, SetFrame
<1>2. pc = "idle" /\ destroying' \in Slot
  BY <1>1 DEF ViewInv, Turns, ViewTyped
<1>3. destroying = 0 /\ destroying' = 0
  BY <1>1, <1>2, NobodyCondemned
<1>4. Turns'
  BY <1>1, <1>2, <1>3 DEF Turns
<1>5. QED BY <1>1, <1>2, <1>3, <1>4, TableSame, QuietStep

(* A tail is freed, while its player is still in the table.                *)
LEMMA DestroyTailStep == ASSUME ViewInv, StepsInv', DestroyTail PROVE ViewInv'
<1>1. /\ destroying = 0 /\ destroying' \in Condemned
      /\ phase' = phase /\ SeenByRenderer(0)
      /\ players' = players /\ gameStarted' = gameStarted
      /\ pc' = pc /\ todo' = todo /\ colliding' = colliding
  BY DEF DestroyTail, stepVars, gameVars, locals
<1>2. Active' = Active /\ Condemned' = Condemned
  <2>1. Active' = Active
    BY <1>1 DEF Active
  <2>2. QED BY <1>1, <2>1 DEF Condemned, PtrId
<1>3. Condemned \subseteq Active /\ Active \subseteq Slot
  BY TableFacts DEF Condemned, ViewInv
<1>4. pc # "trim" /\ phase # "lobby"
      /\ (pc # "idle" => phase = "moving")
      /\ phase \in {"lobby", "first", "drops", "moving", "head", "done"}
  BY <1>1 DEF ViewInv, Turns, ViewTyped, Condemned
<1>5. Turns'
  BY <1>1, <1>2, <1>4 DEF Turns
<1>6. destroying' \in Slot
  BY <1>1, <1>3
<1>7. QED BY <1>1, <1>4, <1>5, <1>6, TableSame, QuietStep

(* The player is taken out of the table.                                   *)
LEMMA FinishRemovalStep == ASSUME ViewInv, StepsInv', FinishRemoval PROVE ViewInv'
<1>1. /\ destroying # 0 /\ destroying' = 0 /\ phase' = phase /\ SeenByRenderer(0)
      /\ destroying \in Condemned
      /\ phase \in {"lobby", "first", "drops", "moving", "head", "done"}
      /\ (pc # "idle" => phase = "moving")
      /\ StepsInv /\ players.size = Cardinality(Active)
  BY DEF FinishRemoval, ViewInv, Turns, ViewTyped, OverStays
<1>2. /\ phase # "lobby" /\ pc # "trim" /\ (pc' # "idle" => phase = "moving")
      /\ players' = MapDelete(players, destroying) /\ gameStarted' = gameStarted
  <2>1. CASE phase = "drops"
    BY <1>1, <2>1 DEF FinishRemoval, Idle, RemovePlayer
  <2>2. CASE phase # "drops"
    <3>1. pc = "remove" /\ destroying = PtrId(Min(todo)) /\ destroying \in colliding
      BY <1>1, <2>2 DEF Condemned
    <3>2. RemoveOne
      BY <2>2 DEF FinishRemoval
    <3>3. QED BY <1>1, <3>1, <3>2 DEF RemoveOne
  <2>3. QED BY <2>1, <2>2
<1>3. /\ Active' = Active \ {destroying} /\ players'.size = Cardinality(Active')
      /\ players'.size <= players.size /\ RecordsKept
  BY <1>1, <1>2, Deleted DEF RecordsKept
<1>4. Turns'
  BY <1>1, <1>2 DEF Turns
<1>5. 0 \in Slot
  BY MaxPlayersAssumption DEF Slot
<1>6. QED BY <1>1, <1>2, <1>3, <1>4, <1>5, QuietStep

(* A frame begins to move the players.                                     *)
LEMMA BeginMoveStep == ASSUME ViewInv, StepsInv', BeginMove PROVE ViewInv'
<1>1. /\ phase = "drops" /\ phase' = "moving" /\ destroying = 0 /\ destroying' = 0
      /\ pc = "idle" /\ players' = players /\ gameStarted' = gameStarted
      /\ SeenByRenderer(0)
  BY DEF BeginMove, Begin
<1>2. Turns'
  BY <1>1 DEF Turns
<1>3. 0 \in Slot
  BY MaxPlayersAssumption DEF Slot
<1>4. QED BY <1>1, <1>2, <1>3, TableSame, QuietStep

(* A frame ends.                                                           *)
LEMMA EndFrameStep == ASSUME ViewInv, StepsInv', EndFrame PROVE ViewInv'
<1>1. /\ phase = "moving" /\ phase' = "head" /\ destroying' = destroying
      /\ pc = "idle" /\ pc' = "idle" /\ players' = players
      /\ gameStarted' = gameStarted /\ SeenByRenderer(0)
  BY DEF EndFrame, Idle, gameVars
<1>2. destroying = 0
  BY <1>1, NobodyCondemned
<1>3. Turns'
  BY <1>1, <1>2 DEF Turns
<1>4. 0 \in Slot
  BY MaxPlayersAssumption DEF Slot
<1>5. QED BY <1>1, <1>2, <1>3, <1>4, TableSame, QuietStep

(* A colliding slot that is empty already, or one that does not collide. *)
LEMMA RemoveNobodyStep ==
  ASSUME ViewInv, StepsInv', destroying = 0, Condemned = {}, RemoveOne,
         UNCHANGED <<phase, destroying>>, SeenByRenderer(0)
  PROVE  ViewInv'
<1>1. /\ pc = "remove" /\ phase = "moving" /\ gameStarted' = gameStarted
      /\ \/ players' = players
         \/ players' = MapDelete(players, PtrId(Min(todo)))
  BY DEF RemoveOne, ViewInv, Turns
<1>2. /\ Active' \subseteq Active /\ RecordsKept
      /\ players'.size = Cardinality(Active') /\ players'.size <= players.size
  <2>1. CASE players' = players
    BY <2>1, TableSame
  <2>2. CASE players' = MapDelete(players, PtrId(Min(todo)))
    BY <2>2, Deleted DEF RecordsKept, ViewInv, OverStays
  <2>3. QED BY <1>1, <2>1, <2>2
<1>3. Turns'
  BY <1>1 DEF Turns
<1>4. 0 \in Slot
  BY MaxPlayersAssumption DEF Slot
<1>5. QED BY <1>1, <1>2, <1>3, <1>4, QuietStep

(* A player that stays where it is, as the renderer sees it.               *)
LEMMA SkipOneSeen ==
  ASSUME ViewInv, StepsInv', destroying = 0, SkipOne,
         UNCHANGED <<phase, destroying>>, SeenByRenderer(0)
  PROVE  ViewInv'
<1>1. /\ pc = "advance" /\ phase = "moving" /\ gameStarted' = gameStarted
      /\ players' = players
  BY DEF SkipOne, gameVars, ViewInv, Turns
<1>2. Turns'
  BY <1>1 DEF Turns
<1>3. 0 \in Slot
  BY MaxPlayersAssumption DEF Slot
<1>4. QED BY <1>1, <1>2, <1>3, TableSame, QuietStep

(* A step of the player whose turn it is: its record changes, and nothing  *)
(* else that the renderer reads.                                           *)
LEMMA OneMoves ==
  ASSUME ViewInv, StepsInv', pc \in {"advance", "trim"}, destroying = 0,
         UNCHANGED <<phase, destroying, gameStarted>>,
         NEW id \in Active, id = Min(todo), NEW r,
         players' = [players EXCEPT !.entries = [players.entries EXCEPT ![id] = r]],
         r.position = PositionOf(id) \/ Adjacent(PositionOf(id), r.position),
         NEW pushed \in {0, id}, SeenByRenderer(pushed),
         \A i \in Nat \ {0} :
           LiveNode(id, i) \/ Len(TailOf(id)) >= BaseTailLength =>
             \/ (IF pushed = 0 THEN i ELSE i + 1) \in DOMAIN r.tail
             \/ Len(r.tail) >= BaseTailLength
  PROVE  ViewInv'
<1>1. /\ StepsInv /\ phase = "moving" /\ ViewTyped /\ NodeReached
      /\ players.size = Cardinality(Active)
  BY DEF ViewInv, Turns, OverStays
<1>2. /\ Active' = Active /\ players'.size = players.size
      /\ players'.entries[id] = r
      /\ \A k \in Active : k # id => players'.entries[k] = players.entries[k]
  BY <1>1, RecordPut
<1>3. 0 \notin Active /\ Active \subseteq Slot /\ players.size \in Int
  BY <1>1, TableFacts, StepsTyped DEF StepsTypeOK, TypeOK
<1>4. Evolves
  <2>1. \A k \in Active : PositionOf(k)' = players'.entries[k].position
    BY <1>2 DEF PositionOf
  <2>2. \A k \in Active : k # id => PositionOf(k)' = PositionOf(k)
    BY <1>2, <2>1 DEF PositionOf
  <2>3. PositionOf(id)' = r.position
    BY <1>2, <2>1
  <2>4. \A k \in Active \cap Active' :
          \/ PositionOf(k)' = PositionOf(k)
          \/ Adjacent(PositionOf(k), PositionOf(k)')
    BY <1>2, <2>2, <2>3
  <2>5. QED BY <1>1, <1>2, <1>3, <2>4 DEF Evolves
<1>5. NodeReached'
  <2> SUFFICES ASSUME rpc' = "tail", node' # 0, Drawn' \in Active' \ {destroying'}
               PROVE  LiveNode(Drawn, node)' \/ Len(TailOf(Drawn))' >= BaseTailLength
    BY DEF NodeReached
  <2>1. rpc = "tail" /\ toDraw' = toDraw /\ Drawn' = Drawn
    BY DEF SeenByRenderer, Drawn
  <2>2. node' = IF pushed # 0 /\ pushed = Drawn /\ node # 0 THEN node + 1 ELSE node
    BY <2>1 DEF SeenByRenderer
  <2>3. node \in Nat \ {0}
    BY <1>1, <2>2 DEF ViewTyped
  <2>4. Drawn \in Active \ {destroying}
    BY <1>2, <2>1
  <2>5. LiveNode(Drawn, node) \/ Len(TailOf(Drawn)) >= BaseTailLength
    BY <1>1, <2>1, <2>3, <2>4 DEF NodeReached
  <2>6. LiveNode(Drawn, node)' <=> (\/ node' \in DOMAIN TailOf(Drawn)'
                                    \/ (LiveNode(Drawn, node)' /\ node' \notin DOMAIN TailOf(Drawn)'))
    BY <2>1, <2>4, <1>2 DEF LiveNode
  <2>7. TailOf(Drawn)' = players'.entries[Drawn].tail
    BY <2>1 DEF TailOf
  <2>8. CASE Drawn = id
    <3>1. TailOf(Drawn)' = r.tail
      BY <1>2, <2>7, <2>8
    <3>2. node' = IF pushed = 0 THEN node ELSE node + 1
      BY <1>3, <2>2, <2>3, <2>8
    <3>3. node' \in DOMAIN r.tail \/ Len(r.tail) >= BaseTailLength
      BY <2>3, <2>5, <2>8, <3>2
    <3>4. QED BY <2>6, <3>1, <3>3
  <2>9. CASE Drawn # id
    <3>1. TailOf(Drawn)' = TailOf(Drawn) /\ node' = node
      BY <1>2, <2>2, <2>4, <2>7, <2>9 DEF TailOf
    <3>2. LiveNode(Drawn, node) => node \in DOMAIN TailOf(Drawn)
      BY <2>9 DEF LiveNode
    <3>3. QED BY <2>5, <2>6, <3>1, <3>2
  <2>10. QED BY <2>8, <2>9
<1>6. Turns'
  BY <1>1 DEF Turns
<1>7. /\ phase' \in {"lobby", "first", "drops", "moving", "head", "done"}
      /\ destroying' \in Slot /\ pushed \in Slot
  BY <1>1, <1>3, MaxPlayersAssumption DEF ViewTyped, Slot
<1>8. QED BY <1>4, <1>5, <1>6, <1>7, OtherKeeps

(* The old position is pushed to the tail, as the renderer sees it.        *)
LEMMA StampAndPushSeen ==
  ASSUME ViewInv, StepsInv', destroying = 0, NEW failed \in BOOLEAN,
         StampAndPush(failed), UNCHANGED <<phase, destroying>>,
         SeenByRenderer(IF failed THEN 0 ELSE Min(todo))
  PROVE  ViewInv'
<1> DEFINE id == Min(todo)
           p == players.entries[id]
           tail == IF failed THEN p.tail ELSE <<p.position>> \o p.tail
           r == [p EXCEPT !.tail = tail]
           pushed == IF failed THEN 0 ELSE id
<1>1. StepsInv /\ pc = "advance" /\ ~Skipped(PtrId(id)) /\ gameStarted' = gameStarted
  BY DEF ViewInv, StampAndPush
<1>2. id \in Active /\ PtrId(id) = id
  BY <1>1, MoverNext
<1>3. p \in PlayerRecord
  BY <1>1, <1>2, TableFacts
<1>4. players' = [players EXCEPT !.entries = [players.entries EXCEPT ![id] = r]]
  BY <1>2 DEF StampAndPush
<1>5. r.position = PositionOf(id) /\ r.tail = tail
  BY <1>2, <1>3 DEF PositionOf, PlayerRecord
<1>6. p.tail \in Seq(Cell) /\ p.position \in Cell
  BY <1>3 DEF PlayerRecord
<1>7. ASSUME NEW i \in Nat \ {0}, LiveNode(id, i) \/ Len(TailOf(id)) >= BaseTailLength
      PROVE  \/ (IF pushed = 0 THEN i ELSE i + 1) \in DOMAIN tail
             \/ Len(tail) >= BaseTailLength
  <2>1. i \in DOMAIN p.tail \/ Len(p.tail) >= BaseTailLength
    BY <1>1, <1>7 DEF LiveNode, TailOf
  <2>2. id # 0
    BY <1>1, <1>2, TableFacts
  <2>3. CASE failed
    BY <2>1, <2>3
  <2>4. CASE ~failed
    <3>1. tail = <<p.position>> \o p.tail /\ pushed # 0
      BY <2>2, <2>4
    <3>2. Len(tail) = Len(p.tail) + 1 /\ DOMAIN tail = 1 .. Len(p.tail) + 1
      BY <1>6, <3>1
    <3>3. BaseTailLength \in Nat /\ Len(p.tail) \in Nat /\ DOMAIN p.tail = 1 .. Len(p.tail)
      BY <1>6, GameAssumption
    <3> HIDE DEF tail, p, pushed
    <3>4. QED BY <2>1, <3>1, <3>2, <3>3
  <2>5. QED BY <2>3, <2>4
<1>8. SeenByRenderer(pushed) /\ pushed \in {0, id}
  OBVIOUS
<1> HIDE DEF r, tail, p, pushed, id
<1>9. id = Min(todo)
  BY DEF id
<1>10. QED BY <1>1, <1>2, <1>4, <1>5, <1>7, <1>8, <1>9, OneMoves

(* A node is trimmed, as the renderer sees it.                             *)
LEMMA TrimNodeSeen ==
  ASSUME ViewInv, StepsInv', destroying = 0, TrimNode,
         UNCHANGED <<phase, destroying>>, SeenByRenderer(0)
  PROVE  ViewInv'
<1> DEFINE id == Min(todo)
           g == Nodes(Begun, Work, id)
           p == players.entries[id]
           r == IF tailLen + 1 > maxTailLength
                THEN [p EXCEPT !.tail = SubSeq(p.tail, 1, maxTailLength)]
                ELSE p
<1>1. StepsInv /\ pc = "trim" /\ current # <<>> /\ gameStarted' = gameStarted
  BY DEF ViewInv, TrimNode
<1>2. /\ id \in Active /\ g \in Seq(Cell) /\ current \in Seq(Cell) /\ tailLen \in Nat
      /\ p = [Rec(Begun, id) EXCEPT !.tail = Partly(g, tailLen, maxTailLength)]
      /\ Rec(Begun, id) \in PlayerRecord
      /\ tailLen + Len(current) = Len(g)
      /\ maxTailLength \in Nat /\ maxTailLength >= BaseTailLength
      /\ BaseTailLength \in Nat \ {0}
  BY <1>1, MoverNow
<1>3. p \in PlayerRecord /\ p.tail = Partly(g, tailLen, maxTailLength)
  BY <1>1, <1>2, TableFacts DEF PlayerRecord
<1>4. players' = [players EXCEPT !.entries = [players.entries EXCEPT ![id] = r]]
  <2>1. CASE tailLen + 1 > maxTailLength
    BY <1>2, <2>1 DEF TrimNode
  <2>2. CASE ~(tailLen + 1 > maxTailLength)
    <3>1. players' = players /\ r = p
      BY <2>2 DEF TrimNode
    <3>2. players = [players EXCEPT !.entries = [players.entries EXCEPT ![id] = p]]
      <4> DEFINE e == [k \in Active |-> players.entries[k]]
                 size == players.size
      <4>1. players = [entries |-> e, size |-> size] /\ DOMAIN e = Active
        BY <1>1, TableFacts
      <4> HIDE DEF e, size
      <4>2. players.entries = e
        BY <4>1
      <4>3. e = [e EXCEPT ![id] = e[id]]
        BY DEF e
      <4>4. QED BY <4>1, <4>2, <4>3
    <3>3. QED BY <3>1, <3>2
  <2>3. QED BY <2>1, <2>2
<1>5. r.position = PositionOf(id)
  BY <1>2, <1>3 DEF PositionOf, PlayerRecord
<1>6. Len(current) \in Nat /\ Len(current) > 0 /\ Len(g) \in Nat
  BY <1>1, <1>2, EmptySeq
<1>7. ASSUME NEW i \in Nat \ {0}, LiveNode(id, i) \/ Len(TailOf(id)) >= BaseTailLength
      PROVE  i \in DOMAIN r.tail \/ Len(r.tail) >= BaseTailLength
  <2>1. CASE tailLen + 1 > maxTailLength
    <3>1. r.tail = SubSeq(p.tail, 1, maxTailLength)
      BY <1>3, <2>1 DEF PlayerRecord
    <3>2. p.tail \in Seq(Cell) /\ Len(p.tail) >= maxTailLength
      <4>1. CASE tailLen <= maxTailLength
        <5>1. p.tail = g
          BY <1>3, <4>1 DEF Partly
        <5>2. QED BY <1>2, <1>6, <2>1, <5>1
      <4>2. CASE ~(tailLen <= maxTailLength)
        <5>1. p.tail = SubSeq(g, 1, maxTailLength)
          BY <1>3, <4>2 DEF Partly
        <5>2. maxTailLength <= Len(g)
          BY <1>2, <1>6, <4>2
        <5>3. Len(SubSeq(g, 1, maxTailLength)) = maxTailLength
              /\ SubSeq(g, 1, maxTailLength) \in Seq(Cell)
          BY <1>2, <1>6, <5>2
        <5>4. QED BY <1>2, <5>1, <5>3
      <4>3. QED BY <4>1, <4>2
    <3> DEFINE t == p.tail
    <3> HIDE DEF t
    <3>3. Len(SubSeq(t, 1, maxTailLength)) = maxTailLength
      <4>1. t \in Seq(Cell) /\ Len(t) >= maxTailLength /\ Len(t) \in Nat
        BY <3>2 DEF t
      <4>2. QED BY <1>2, <4>1
    <3>4. QED BY <1>2, <3>1, <3>3 DEF t
  <2>2. CASE ~(tailLen + 1 > maxTailLength)
    <3>1. r = p /\ p.tail = g
      BY <1>2, <1>3, <2>2 DEF Partly
    <3>2. TailOf(id) = g
      BY <3>1 DEF TailOf
    <3>3. LiveNode(id, i) => i \in 1 .. Len(g)
      <4>1. LiveNode(id, i) => i \in DOMAIN g \/ i \in tailLen + 1 .. tailLen + Len(current)
        BY <3>2 DEF LiveNode
      <4>2. DOMAIN g = 1 .. Len(g)
        BY <1>2
      <4> HIDE DEF g
      <4>3. QED BY <1>2, <1>6, <4>1, <4>2
    <3>4. QED BY <1>2, <1>7, <3>1, <3>2, <3>3
  <2>3. QED BY <2>1, <2>2
<1> HIDE DEF r, p, g, id
<1>8. id = Min(todo)
  BY DEF id
<1>9. QED BY <1>1, <1>2, <1>4, <1>5, <1>7, <1>8, OneMoves

(* A head is placed, as the renderer sees it.                              *)
LEMMA PlaceSeen ==
  ASSUME ViewInv, StepsInv', destroying = 0, Place,
         UNCHANGED <<phase, destroying>>, SeenByRenderer(0)
  PROVE  ViewInv'
<1> DEFINE id == Min(todo)
           p == players.entries[id]
           r == [p EXCEPT !.position = new[id]]
<1>1. StepsInv /\ pc = "trim" /\ current = <<>> /\ gameStarted' = gameStarted
  BY DEF ViewInv, Place
<1>2. /\ id \in Active /\ Adjacent(Rec(Begun, id).position, new[id])
      /\ p = [Rec(Begun, id) EXCEPT !.tail = Partly(Nodes(Begun, Work, id), tailLen, maxTailLength)]
      /\ Rec(Begun, id) \in PlayerRecord /\ tailLen \in Nat
  BY <1>1, MoverNow
<1>3. p \in PlayerRecord
  BY <1>1, <1>2, TableFacts
<1>4. players' = [players EXCEPT !.entries = [players.entries EXCEPT ![id] = r]]
  BY DEF Place
<1>5. /\ r.position = new[id] /\ r.tail = p.tail
      /\ PositionOf(id) = Rec(Begun, id).position
  BY <1>2, <1>3 DEF PositionOf, PlayerRecord
<1>6. \A i \in Nat \ {0} :
        LiveNode(id, i) \/ Len(TailOf(id)) >= BaseTailLength =>
          i \in DOMAIN r.tail \/ Len(r.tail) >= BaseTailLength
  <2>1. Len(current) = 0
    BY <1>1
  <2>2. \A i \in Nat \ {0} : LiveNode(id, i) => i \in DOMAIN p.tail
    BY <1>2, <2>1 DEF LiveNode, TailOf
  <2>3. TailOf(id) = p.tail
    BY DEF TailOf
  <2>4. QED BY <1>5, <2>2, <2>3
<1> HIDE DEF r, p, id
<1>7. id = Min(todo)
  BY DEF id
<1>8. QED BY <1>1, <1>2, <1>4, <1>5, <1>6, <1>7, OneMoves

(* Every step of the game loop within a move keeps the invariant.          *)
LEMMA MovingStep == ASSUME ViewInv, StepsInv', Moving PROVE ViewInv'
<1>1. destroying = 0 /\ UNCHANGED <<phase, destroying>>
  BY DEF Moving
<1>2. ASSUME NEW failed \in (IF AllocMayFail THEN BOOLEAN ELSE {FALSE}),
             StampAndPush(failed), SeenByRenderer(IF failed THEN 0 ELSE Min(todo))
      PROVE  ViewInv'
  <2>1. failed \in BOOLEAN
    BY GameAssumption
  <2>2. QED BY <1>1, <1>2, <2>1, StampAndPushSeen
<1>3. QED
  BY <1>1, <1>2, RemoveNobodyStep, SkipOneSeen, TrimNodeSeen, PlaceSeen DEF Moving

-----------------------------------------------------------------------------
(* The steps of the renderer.                                              *)

(* They leave everything alone that the invariant says of the game. *)
LEMMA GameUnseen ==
  ASSUME ViewInv, OthersUnchanged
  PROVE  /\ players' = players /\ Active' = Active
         /\ phase' = phase /\ destroying' = destroying /\ pc' = pc
         /\ Condemned' = Condemned
         /\ GameIsOver' = GameIsOver
         /\ players'.size = Cardinality(Active')
         /\ phase \in {"lobby", "first", "drops", "moving", "head", "done"}
         /\ destroying \in Slot
         /\ (pc # "idle" => phase = "moving")
         /\ (destroying # 0 => destroying \in Condemned)
         /\ \A id : PositionOf(id)' = PositionOf(id) /\ TailOf(id)' = TailOf(id)
         /\ \A id, i : LiveNode(id, i)' = LiveNode(id, i)
<1>1. /\ players' = players /\ gameStarted' = gameStarted /\ pc' = pc /\ todo' = todo
      /\ colliding' = colliding /\ tailLen' = tailLen /\ current' = current
      /\ phase' = phase /\ destroying' = destroying
  BY DEF OthersUnchanged, stepVars, gameVars, locals
<1>2. Active' = Active
  BY <1>1 DEF Active
<1>3. Condemned' = Condemned
  BY <1>1, <1>2 DEF Condemned, PtrId
<1>4. GameIsOver' = GameIsOver
  BY <1>1 DEF GameIsOver
<1>5. \A id : PositionOf(id)' = PositionOf(id) /\ TailOf(id)' = TailOf(id)
  BY <1>1, <1>2 DEF PositionOf, TailOf
<1>6. \A id, i : LiveNode(id, i)' = LiveNode(id, i)
  BY <1>1, <1>2, <1>5 DEF LiveNode
<1>7. QED BY <1>1, <1>2, <1>3, <1>4, <1>5, <1>6 DEF ViewInv, ViewTyped, Turns, OverStays

(* The first node of a list can be read. *)
LEMMA FirstIsLive ==
  ASSUME StepsInv, NEW id \in Active \ {destroying}, FirstNode(id) # 0
  PROVE  FirstNode(id) = 1 /\ LiveNode(id, 1)
<1>1. FirstNode(id) = 1 /\ TailOf(id) # <<>>
  BY DEF FirstNode
<1>2. TailOf(id) \in Seq(Cell)
  BY TableFacts DEF TailOf, PlayerRecord
<1>3. 1 \in DOMAIN TailOf(id)
  BY <1>1, <1>2, EmptySeq
<1>4. QED BY <1>1, <1>3 DEF LiveNode

(* The first node of a tail is a number.                                   *)
LEMMA FirstNodeNat == \A id : FirstNode(id) \in Nat
BY DEF FirstNode

(* The renderer collects the players.                                      *)
LEMMA CollectStep == ASSUME ViewInv, StepsInv', Collect PROVE ViewInv'
<1>1. OthersUnchanged /\ rpc = "idle" /\ destroying = 0
      /\ UNCHANGED <<head, been, picture>>
  BY DEF Collect
<1>2. ViewTyped /\ Turns /\ OverStays /\ StepsInv /\ toDraw = {}
  BY <1>1 DEF ViewInv, ViewTyped
<1>3. Active \subseteq Slot
  BY <1>2, TableFacts
<1>4. CASE Active = {}
  <2>1. /\ rpc' = AfterPlayers /\ toDraw' = toDraw /\ node' = node
        /\ AfterPlayers \in {"idle", "over"}
        /\ (phase = "lobby" => AfterPlayers = "idle")
    BY <1>4 DEF Collect, AfterPlayers
  <2>2. ViewTyped'
    BY <1>1, <1>2, <2>1, GameUnseen DEF ViewTyped
  <2>3. Turns'
    BY <1>1, <1>2, <2>1, GameUnseen DEF Turns
  <2>4. OverStays'
    BY <1>1, <1>2, <2>1, GameUnseen DEF OverStays
  <2>5. /\ NodeReached' /\ StaleReadExplained' /\ HeadFollowed' /\ HeadWhereItWas'
    BY <2>1 DEF NodeReached, StaleReadExplained, HeadFollowed, HeadWhereItWas
  <2>6. QED BY <2>2, <2>3, <2>4, <2>5 DEF ViewInv
<1>5. CASE Active # {}
  <2>1. rpc' = "tail" /\ toDraw' = Active /\ node' = FirstNode(Min(Active))
    BY <1>5 DEF Collect
  <2>2. Min(Active) \in Active /\ Drawn' = Min(Active)
    BY <1>3, <1>5, <2>1, MinOfSlots DEF Drawn
  <2>3. ViewTyped'
    <3>1. node' \in Nat
      BY <2>1, FirstNodeNat
    <3>2. phase' = phase /\ destroying' = destroying
      BY <1>1, GameUnseen
    <3>3. toDraw' \subseteq Slot /\ (toDraw' = {}) = FALSE
      BY <1>3, <1>5, <2>1
    <3>4. (rpc' \in {"idle", "over", "winner"}) = FALSE
      BY <2>1
    <3>5. QED BY <1>1, <1>2, <2>1, <3>1, <3>2, <3>3, <3>4 DEF ViewTyped
  <2>4. Turns'
    BY <1>1, <1>2, <2>1, GameUnseen DEF Turns
  <2>5. OverStays'
    BY <1>1, <1>2, <2>1, GameUnseen DEF OverStays
  <2>6. NodeReached'
    <3>1. node' # 0 => LiveNode(Min(Active), 1) /\ node' = 1
      <4>1. destroying \notin Active
        BY <1>1, <1>2, TableFacts
      <4>2. QED BY <1>2, <2>1, <2>2, <4>1, FirstIsLive
    <3>2. node' # 0 => LiveNode(Drawn, node)'
      <4>1. LiveNode(Min(Active), 1)' = LiveNode(Min(Active), 1)
        BY <1>1, GameUnseen
      <4>2. node' = 1 => (LiveNode(Drawn, node)' <=> LiveNode(Min(Active), 1)')
        BY <2>2, GameUnseen, <1>1 DEF LiveNode
      <4>3. QED BY <3>1, <4>1, <4>2
    <3>3. QED BY <3>2 DEF NodeReached
  <2>7. StaleReadExplained' /\ HeadFollowed' /\ HeadWhereItWas'
    BY <2>1 DEF StaleReadExplained, HeadFollowed, HeadWhereItWas
  <2>8. QED BY <2>3, <2>4, <2>5, <2>6, <2>7 DEF ViewInv
<1>6. QED BY <1>4, <1>5

(* The renderer draws a node of a tail.                                    *)
LEMMA DrawNodeStep == ASSUME ViewInv, StepsInv', DrawNode PROVE ViewInv'
<1>1. /\ OthersUnchanged /\ rpc = "tail" /\ node # 0
      /\ UNCHANGED <<toDraw, head, been, picture>> /\ Drawn' = Drawn
  BY DEF DrawNode, Drawn
<1>2. ViewTyped /\ Turns /\ OverStays /\ NodeReached
  BY DEF ViewInv
<1>3. \/ /\ LiveNode(Drawn, node) /\ rpc' = "tail" /\ node' = NextNode(Drawn, node)
      \/ /\ ~LiveNode(Drawn, node) /\ rpc' = "stale" /\ node' = node
  BY <1>1 DEF DrawNode
<1>4. NextNode(Drawn, node) \in {0, node + 1}
  BY DEF NextNode
<1>5. ViewTyped'
  <2>1. node' \in Nat /\ rpc' \in {"tail", "stale"}
    BY <1>2, <1>3, <1>4 DEF ViewTyped
  <2>2. phase' = phase /\ destroying' = destroying
    BY <1>1, GameUnseen
  <2>3. QED BY <1>1, <1>2, <2>1, <2>2 DEF ViewTyped
<1>6. Turns'
  BY <1>1, <1>2, <1>3, GameUnseen DEF Turns
<1>7. OverStays'
  BY <1>1, <1>2, <1>3, GameUnseen DEF OverStays
<1>8. NodeReached'
  <2>1. ASSUME rpc' = "tail", node' # 0
        PROVE  LiveNode(Drawn, node)'
    <3>1. node' = node + 1 /\ LiveNode(Drawn, node + 1)
      BY <1>3, <2>1 DEF NextNode
    <3>2. /\ Active' = Active /\ destroying' = destroying /\ pc' = pc
          /\ todo' = todo /\ tailLen' = tailLen /\ current' = current
      BY <1>1, GameUnseen DEF OthersUnchanged, stepVars, locals
    <3>3. TailOf(Drawn)' = TailOf(Drawn)
      BY <1>1, GameUnseen DEF TailOf
    <3>4. QED BY <1>1, <3>1, <3>2, <3>3 DEF LiveNode
  <2>2. QED BY <2>1 DEF NodeReached
<1>9. StaleReadExplained'
  <2>1. ASSUME rpc' = "stale"
        PROVE  Drawn \notin Active \ {destroying} \/ Len(TailOf(Drawn)) >= BaseTailLength
    BY <1>1, <1>2, <1>3, <2>1 DEF NodeReached
  <2>2. Active' = Active /\ destroying' = destroying /\ TailOf(Drawn)' = TailOf(Drawn)
    BY <1>1, GameUnseen DEF TailOf
  <2>3. QED BY <1>1, <2>1, <2>2 DEF StaleReadExplained
<1>10. HeadFollowed' /\ HeadWhereItWas'
  BY <1>3 DEF HeadFollowed, HeadWhereItWas
<1>11. QED BY <1>5, <1>6, <1>7, <1>8, <1>9, <1>10 DEF ViewInv

(* Where a player is, an entry of zeros included, is a cell. *)
LEMMA PositionIsCell ==
  ASSUME StepsInv, NEW id
  PROVE  /\ PositionOf(id) \in Cell
         /\ PositionOf(id) = <<PositionOf(id)[1], PositionOf(id)[2]>>
<1>1. PositionOf(id) \in Cell
  <2>1. <<0, 0>> \in Cell
    BY GridAssumption DEF Cell
  <2>2. id \in Active => players.entries[id].position \in Cell
    BY TableFacts DEF PlayerRecord
  <2>3. QED BY <2>1, <2>2 DEF PositionOf
<1>2. QED BY <1>1 DEF Cell

(* The renderer reads one coordinate of a head.                            *)
LEMMA ReadHeadXStep == ASSUME ViewInv, StepsInv', ReadHeadX PROVE ViewInv'
<1> DEFINE pos == PositionOf(Drawn)
<1>1. /\ OthersUnchanged /\ rpc = "tail" /\ rpc' = "headY"
      /\ head' = <<pos[1], 0>>
      /\ been' = IF Drawn \in Active THEN <<pos>> ELSE <<>>
      /\ UNCHANGED <<toDraw, node, picture>> /\ Drawn' = Drawn
  BY DEF ReadHeadX, Drawn
<1>2. ViewTyped /\ Turns /\ OverStays /\ StepsInv
  BY DEF ViewInv
<1>3. PositionOf(Drawn)' = pos /\ pos \in Cell
  BY <1>1, <1>2, GameUnseen, PositionIsCell DEF PositionOf
<1> HIDE DEF pos
<1>4. ViewTyped'
  <2>1. head' \in Cell
    BY <1>1, <1>3, GridAssumption DEF Cell
  <2>2. been' \in Seq(Cell)
    BY <1>1, <1>3
  <2>3. phase' = phase /\ destroying' = destroying
    BY <1>1, GameUnseen
  <2>4. QED BY <1>1, <1>2, <2>1, <2>2, <2>3 DEF ViewTyped
<1>5. Turns'
  BY <1>1, <1>2, GameUnseen DEF Turns
<1>6. OverStays'
  BY <1>1, <1>2, GameUnseen DEF OverStays
<1>7. HeadFollowed'
  <2>1. Active' = Active
    BY <1>1, GameUnseen
  <2>2. ASSUME been' # <<>>
        PROVE  Drawn \in Active /\ been' = <<pos>>
    BY <1>1, <2>2
  <2>3. Len(<<pos>>) = 1 /\ <<pos>>[1] = pos
    OBVIOUS
  <2>4. head'[1] = pos[1]
    BY <1>1
  <2>5. ASSUME been' # <<>>
        PROVE  /\ Drawn' \in Active' /\ Len(been') = 1 /\ been'[1] = pos /\ been'[Len(been')] = pos
    BY <1>1, <2>1, <2>2, <2>3, <2>5
  <2>6. QED BY <1>1, <1>3, <2>4, <2>5 DEF HeadFollowed
<1>8. NodeReached' /\ StaleReadExplained' /\ HeadWhereItWas'
  BY <1>1 DEF NodeReached, StaleReadExplained, HeadWhereItWas
<1>9. QED BY <1>4, <1>5, <1>6, <1>7, <1>8 DEF ViewInv

(* The renderer reads the other one.                                       *)
LEMMA ReadHeadYStep == ASSUME ViewInv, StepsInv', ReadHeadY PROVE ViewInv'
<1> DEFINE pos == PositionOf(Drawn)
<1>1. /\ OthersUnchanged /\ rpc = "headY" /\ rpc' = "head"
      /\ head' = <<head[1], pos[2]>>
      /\ UNCHANGED <<toDraw, node, been, picture>>
  BY DEF ReadHeadY
<1>2. ViewTyped /\ Turns /\ OverStays /\ HeadFollowed /\ StepsInv
  BY DEF ViewInv
<1>3. pos \in Cell /\ pos = <<pos[1], pos[2]>>
  BY <1>2, PositionIsCell
<1>4. been # <<>> => /\ Len(been) \in {1, 2} /\ been[Len(been)] = pos
                     /\ head[1] = been[1][1]
                     /\ Len(been) = 2 => Adjacent(been[1], been[2])
  BY <1>1, <1>2 DEF HeadFollowed
<1> HIDE DEF pos
<1>5. ViewTyped'
  <2>1. head' \in Cell
    BY <1>1, <1>2, <1>3 DEF Cell, ViewTyped
  <2>2. phase' = phase /\ destroying' = destroying
    BY <1>1, GameUnseen
  <2>3. QED BY <1>1, <1>2, <2>1, <2>2 DEF ViewTyped
<1>6. Turns'
  BY <1>1, <1>2, GameUnseen DEF Turns
<1>7. OverStays'
  BY <1>1, <1>2, GameUnseen DEF OverStays
<1>8. HeadWhereItWas'
  <2> SUFFICES ASSUME been # <<>>
               PROVE  \E i \in DOMAIN been : head' = been[i]
    BY <1>1 DEF HeadWhereItWas
  <2>1. been \in Seq(Cell) /\ DOMAIN been = 1 .. Len(been)
    BY <1>2 DEF ViewTyped
  <2>2. 1 \in DOMAIN been
    BY <1>4, <2>1
  <2>3. been[1] \in Cell
    BY <2>1, <2>2
  <2>4. been[1] = <<been[1][1], been[1][2]>> /\ been[1][1] \in Int /\ been[1][2] \in Int
    BY <2>3 DEF Cell
  <2>5. CASE Len(been) = 1
    <3>1. head' = pos /\ been[1] = pos
      BY <1>1, <1>3, <1>4, <2>5
    <3>2. QED BY <2>2, <3>1
  <2>6. CASE Len(been) = 2
    <3>1. been[2] = pos /\ Adjacent(been[1], pos) /\ 2 \in DOMAIN been
      BY <1>4, <2>1, <2>6
    <3>2. PICK dir \in Direction : pos = Step(been[1], dir)
      BY <3>1 DEF Adjacent
    <3>3. \/ DirectionToVector(dir)[1] = 0 /\ DirectionToVector(dir)[2] \in Int
          \/ DirectionToVector(dir)[2] = 0 /\ DirectionToVector(dir)[1] \in Int
      BY DEF DirectionToVector, Direction
    <3>4. pos[1] = been[1][1] \/ pos[2] = been[1][2]
      BY <2>4, <3>2, <3>3 DEF Step
    <3>5. CASE pos[1] = been[1][1]
      <4>1. head' = pos
        BY <1>1, <1>3, <1>4, <3>5
      <4>2. QED BY <3>1, <4>1
    <3>6. CASE pos[2] = been[1][2]
      <4>1. head' = been[1]
        BY <1>1, <1>4, <2>4, <3>6
      <4>2. QED BY <2>2, <4>1
    <3>7. QED BY <3>4, <3>5, <3>6
  <2>7. QED BY <1>4, <2>5, <2>6
<1>9. NodeReached' /\ StaleReadExplained' /\ HeadFollowed'
  BY <1>1 DEF NodeReached, StaleReadExplained, HeadFollowed
<1>10. QED BY <1>5, <1>6, <1>7, <1>8, <1>9 DEF ViewInv

(* The renderer draws a head.                                              *)
LEMMA DrawHeadStep == ASSUME ViewInv, StepsInv', DrawHead PROVE ViewInv'
<1> DEFINE left == toDraw \ {Drawn}
<1>1. /\ OthersUnchanged /\ rpc = "head" /\ toDraw' = left
      /\ head' = <<0, 0>> /\ been' = <<>> /\ picture' = picture
  BY DEF DrawHead
<1>2. ViewTyped /\ Turns /\ OverStays /\ StepsInv
  BY DEF ViewInv
<1>3. left \subseteq toDraw /\ left \subseteq Slot
  BY <1>2 DEF ViewTyped
<1>4. head' \in Cell /\ been' \in Seq(Cell)
  BY <1>1, GridAssumption DEF Cell
<1>5. phase' = phase /\ destroying' = destroying
  BY <1>1, GameUnseen
<1> HIDE DEF left
<1>6. CASE left = {}
  <2>1. /\ rpc' = AfterPlayers /\ node' = node
        /\ AfterPlayers \in {"idle", "over"}
        /\ (phase = "lobby" => AfterPlayers = "idle")
    BY <1>6 DEF DrawHead, AfterPlayers, left
  <2>2. (toDraw' = {}) = TRUE /\ (rpc' \in {"idle", "over", "winner"}) = TRUE
    BY <1>1, <1>6, <2>1
  <2>3. ViewTyped'
    BY <1>1, <1>2, <1>3, <1>4, <1>5, <2>1, <2>2 DEF ViewTyped
  <2>4. Turns'
    BY <1>1, <1>2, <1>6, <2>1, GameUnseen DEF Turns
  <2>5. OverStays'
    BY <1>1, <1>2, <2>1, GameUnseen DEF OverStays
  <2>6. NodeReached' /\ StaleReadExplained' /\ HeadFollowed' /\ HeadWhereItWas'
    BY <2>1 DEF NodeReached, StaleReadExplained, HeadFollowed, HeadWhereItWas
  <2>7. QED BY <2>3, <2>4, <2>5, <2>6 DEF ViewInv
<1>7. CASE left # {}
  <2>1. rpc' = "tail" /\ node' = FirstNode(Min(left))
    BY <1>7 DEF DrawHead, left
  <2>2. Drawn' = Min(left)
    BY <1>1 DEF Drawn
  <2>3. (toDraw' = {}) = FALSE /\ (rpc' \in {"idle", "over", "winner"}) = FALSE
    BY <1>1, <1>7, <2>1
  <2>4. node' \in Nat
    BY <2>1, FirstNodeNat
  <2>5. ViewTyped'
    BY <1>1, <1>2, <1>3, <1>4, <1>5, <2>1, <2>3, <2>4 DEF ViewTyped
  <2>6. Turns'
    BY <1>1, <1>2, <1>3, <2>1, GameUnseen DEF Turns
  <2>7. OverStays'
    BY <1>1, <1>2, <2>1, GameUnseen DEF OverStays
  <2>8. NodeReached'
    <3>1. ASSUME node' # 0, Drawn' \in Active' \ {destroying'}
          PROVE  LiveNode(Drawn, node)'
      <4>1. Min(left) \in Active \ {destroying}
        BY <1>1, <2>2, <3>1, GameUnseen
      <4>2. node' = 1 /\ LiveNode(Min(left), 1)
        BY <1>2, <2>1, <3>1, <4>1, FirstIsLive
      <4>3. /\ Active' = Active /\ destroying' = destroying /\ pc' = pc
            /\ todo' = todo /\ tailLen' = tailLen /\ current' = current
            /\ players' = players
        BY <1>1, GameUnseen DEF OthersUnchanged, stepVars, locals
      <4>4. TailOf(Drawn)' = TailOf(Min(left))
        BY <2>2, <4>3 DEF TailOf
      <4>5. QED BY <2>2, <4>2, <4>3, <4>4 DEF LiveNode
    <3>2. QED BY <3>1 DEF NodeReached
  <2>9. StaleReadExplained' /\ HeadFollowed' /\ HeadWhereItWas'
    BY <2>1 DEF StaleReadExplained, HeadFollowed, HeadWhereItWas
  <2>10. QED BY <2>5, <2>6, <2>7, <2>8, <2>9 DEF ViewInv
<1>8. QED BY <1>6, <1>7

(* A picture is finished; Game Over only when the game is.                 *)
LEMMA FinishStep ==
  ASSUME ViewInv, StepsInv', OthersUnchanged, NEW banner \in Slot \cup {NoBanner},
         Finish(banner),
         banner # NoBanner => phase # "lobby" /\ GameIsOver /\ Active \subseteq {banner}
  PROVE  ViewInv'
<1>1. /\ rpc' = "idle" /\ picture' = banner /\ toDraw' = {}
      /\ UNCHANGED <<node, head, been>>
  BY DEF Finish
<1>2. ViewTyped /\ Turns /\ OverStays
  BY DEF ViewInv
<1>3. ViewTyped'
  <2>1. phase' = phase /\ destroying' = destroying
    BY GameUnseen
  <2>2. (toDraw' = {}) = TRUE /\ (rpc' \in {"idle", "over", "winner"}) = TRUE
    BY <1>1
  <2>3. QED BY <1>1, <1>2, <2>1, <2>2 DEF ViewTyped
<1>4. Turns'
  BY <1>1, <1>2, GameUnseen DEF Turns
<1>5. OverStays'
  BY <1>1, <1>2, GameUnseen DEF OverStays
<1>6. NodeReached' /\ StaleReadExplained' /\ HeadFollowed' /\ HeadWhereItWas'
  BY <1>1 DEF NodeReached, StaleReadExplained, HeadFollowed, HeadWhereItWas
<1>7. QED BY <1>3, <1>4, <1>5, <1>6 DEF ViewInv

(* The renderer asks whether the game is over.                             *)
LEMMA CheckOverStep == ASSUME ViewInv, StepsInv', CheckOver PROVE ViewInv'
<1>1. OthersUnchanged /\ rpc = "over"
  BY DEF CheckOver
<1>2. ViewTyped /\ Turns /\ OverStays
  BY DEF ViewInv
<1>3. CASE GameIsOver
  <2>1. rpc' = "winner" /\ UNCHANGED <<toDraw, node, head, been, picture>>
    BY <1>3 DEF CheckOver, drawVars
  <2>2. ViewTyped'
    <3>1. phase' = phase /\ destroying' = destroying
      BY <1>1, GameUnseen
    <3>2. QED BY <1>1, <1>2, <2>1, <3>1 DEF ViewTyped
  <2>3. Turns'
    BY <1>1, <1>2, <2>1, GameUnseen DEF Turns
  <2>4. OverStays'
    BY <1>1, <1>2, <1>3, <2>1, GameUnseen DEF OverStays
  <2>5. NodeReached' /\ StaleReadExplained' /\ HeadFollowed' /\ HeadWhereItWas'
    BY <2>1 DEF NodeReached, StaleReadExplained, HeadFollowed, HeadWhereItWas
  <2>6. QED BY <2>2, <2>3, <2>4, <2>5 DEF ViewInv
<1>4. CASE ~GameIsOver
  <2>1. Finish(NoBanner)
    BY <1>4 DEF CheckOver
  <2>2. QED BY <1>1, <2>1, FinishStep
<1>5. QED BY <1>3, <1>4

(* Of the one player of a game that is over, the slot is the least. *)
LEMMA OnlyOneLeft ==
  ASSUME ViewInv, GameIsOver, Active # {}
  PROVE  Min(Active) \in Active /\ Active \subseteq {Min(Active)}
<1> DEFINE m == Min(Active)
<1>1. Active \subseteq Slot /\ IsFiniteSet(Active)
  BY TableFacts DEF ViewInv
<1>2. m \in Active
  BY <1>1, MinOfSlots
<1>3. Cardinality(Active) <= 1 /\ Cardinality(Active) \in Nat
  BY <1>1, FS_CardinalityType DEF GameIsOver, MapSize, ViewInv, OverStays
<1> HIDE DEF m
<1>4. /\ IsFiniteSet(Active \ {m})
      /\ Cardinality(Active \ {m}) = Cardinality(Active) - 1
  BY <1>1, <1>2, FS_RemoveElement
<1>5. Cardinality(Active \ {m}) \in Nat
  BY <1>4, FS_CardinalityType
<1>6. Cardinality(Active \ {m}) = 0
  BY <1>3, <1>4, <1>5
<1>7. Active \ {m} = {}
  BY <1>4, <1>6, FS_EmptySet
<1>8. QED BY <1>2, <1>7 DEF m

(* The renderer looks for the winner.                                      *)
LEMMA CollectWinnerStep == ASSUME ViewInv, StepsInv', CollectWinner PROVE ViewInv'
<1>1. OthersUnchanged /\ rpc = "winner"
  BY DEF CollectWinner
<1>2. ViewTyped /\ Turns /\ OverStays /\ GameIsOver /\ phase # "lobby"
  BY <1>1 DEF ViewInv, Turns, OverStays
<1>3. CASE Active = {}
  <2>1. Finish(0) /\ 0 \in Slot
    BY <1>3, MaxPlayersAssumption DEF CollectWinner, Slot
  <2>2. QED BY <1>1, <1>2, <1>3, <2>1, FinishStep
<1>4. CASE Active # {}
  <2> DEFINE m == Min(Active)
  <2>1. rpc' = "name" /\ toDraw' = {m} /\ UNCHANGED <<node, head, been, picture>>
    BY <1>4 DEF CollectWinner
  <2>2. m \in Active /\ Active \subseteq {m} /\ m \in Slot
    BY <1>2, <1>4, OnlyOneLeft, TableFacts DEF ViewInv
  <2>3. Drawn' = m
    <3>1. Drawn' = Min({m})
      BY <2>1 DEF Drawn
    <3>2. {m} \subseteq Slot /\ {m} # {}
      BY <2>2
    <3> HIDE DEF m
    <3>3. Min({m}) \in {m}
      BY <3>2, MinOfSlots
    <3>4. QED BY <3>1, <3>3
  <2> HIDE DEF m
  <2>4. ViewTyped'
    <3>1. phase' = phase /\ destroying' = destroying
      BY <1>1, GameUnseen
    <3>2. (toDraw' = {}) = FALSE /\ (rpc' \in {"idle", "over", "winner"}) = FALSE
      BY <2>1
    <3>3. toDraw' \subseteq Slot
      BY <2>1, <2>2
    <3>4. QED BY <1>1, <1>2, <2>1, <3>1, <3>2, <3>3 DEF ViewTyped
  <2>5. Turns'
    BY <1>1, <1>2, <2>1, GameUnseen DEF Turns
  <2>6. OverStays'
    BY <1>1, <1>2, <2>1, <2>2, <2>3, GameUnseen DEF OverStays
  <2>7. NodeReached' /\ StaleReadExplained' /\ HeadFollowed' /\ HeadWhereItWas'
    BY <2>1 DEF NodeReached, StaleReadExplained, HeadFollowed, HeadWhereItWas
  <2>8. QED BY <2>4, <2>5, <2>6, <2>7 DEF ViewInv
<1>5. QED BY <1>3, <1>4

(* The renderer shows the winner.                                          *)
LEMMA ShowWinnerStep == ASSUME ViewInv, StepsInv', ShowWinner PROVE ViewInv'
<1> DEFINE banner == IF Drawn \in Active THEN Drawn ELSE 0
<1>1. OthersUnchanged /\ rpc = "name" /\ Finish(banner)
  BY DEF ShowWinner
<1>2. Active \subseteq {Drawn} /\ GameIsOver /\ phase # "lobby"
  BY <1>1 DEF ViewInv, Turns, OverStays
<1>3. banner \in Slot /\ Active \subseteq {banner}
  <2>1. Active \subseteq Slot /\ 0 \in Slot
    BY TableFacts, MaxPlayersAssumption DEF ViewInv, Slot
  <2>2. QED BY <1>2, <2>1
<1> HIDE DEF banner
<1>4. QED BY <1>1, <1>2, <1>3, FinishStep

(* The splash screen gives way to the game.                                *)
LEMMA StartPlayStep == ASSUME ViewInv, StepsInv', StartPlay PROVE ViewInv'
<1>1. /\ phase = "lobby" /\ phase' = "first" /\ rpc = "idle" /\ rpc' = "idle"
      /\ UNCHANGED <<players, gameStarted, pc, destroying, toDraw, node, head, been, picture>>
  BY DEF StartPlay, stepVars, gameVars, drawVars
<1>2. ViewTyped /\ Turns /\ OverStays
  BY DEF ViewInv
<1>3. pc = "idle"
  BY <1>1, <1>2 DEF Turns
<1>4. destroying = 0
  BY <1>1, <1>3, NobodyCondemned
<1>5. ViewTyped'
  BY <1>1, <1>2 DEF ViewTyped
<1>6. Turns'
  BY <1>1, <1>3, <1>4 DEF Turns
<1>7. OverStays'
  BY <1>1, <1>2, TableSame DEF OverStays
<1>8. NodeReached' /\ StaleReadExplained' /\ HeadFollowed' /\ HeadWhereItWas'
  BY <1>1 DEF NodeReached, StaleReadExplained, HeadFollowed, HeadWhereItWas
<1>9. QED BY <1>5, <1>6, <1>7, <1>8 DEF ViewInv

-----------------------------------------------------------------------------
(* The theorems.                                                           *)

(* The invariant holds at the start.                                       *)
LEMMA ViewInitial == ViewInit => ViewInv
<1> SUFFICES ASSUME ViewInit PROVE ViewInv
  OBVIOUS
<1>1. /\ phase = "lobby" /\ destroying = 0 /\ rpc = "idle" /\ toDraw = {} /\ node = 0
      /\ head = <<0, 0>> /\ been = <<>> /\ picture = NoBanner
      /\ pc = "idle" /\ players = MapCreate /\ StepsInit
  BY DEF ViewInit, StepsInit, Init
<1>2. StepsInv
  BY <1>1, StepsInitial
<1>3. ViewTyped
  BY <1>1, GridAssumption, MaxPlayersAssumption DEF ViewTyped, Cell, Slot
<1>4. Turns
  BY <1>1 DEF Turns
<1>5. OverStays
  <2>1. Active = {} /\ players.size = 0
    BY <1>1 DEF Active, Occupied, MapCreate
  <2>2. QED BY <1>1, <2>1, FS_EmptySet DEF OverStays
<1>6. NodeReached /\ StaleReadExplained /\ HeadFollowed /\ HeadWhereItWas
  BY <1>1 DEF NodeReached, StaleReadExplained, HeadFollowed, HeadWhereItWas
<1>7. QED BY <1>2, <1>3, <1>4, <1>5, <1>6 DEF ViewInv

(* It holds while nothing happens.                                         *)
LEMMA ViewStutters == ASSUME ViewInv, StepsInv', UNCHANGED viewVars PROVE ViewInv'
<1>1. OthersUnchanged /\ UNCHANGED <<rpc, toDraw, node, head, been, picture>>
  BY DEF viewVars, drawVars, OthersUnchanged
<1>2. /\ UNCHANGED <<players, gameStarted, pc, todo, colliding, tailLen, current>>
      /\ UNCHANGED <<phase, destroying>>
  BY <1>1 DEF OthersUnchanged, stepVars, gameVars, locals
<1>3. Active' = Active /\ Drawn' = Drawn /\ Condemned' = Condemned
  BY <1>1, GameUnseen DEF Drawn
<1>4. TailOf(Drawn)' = TailOf(Drawn) /\ PositionOf(Drawn)' = PositionOf(Drawn)
  BY <1>2, <1>3 DEF TailOf, PositionOf
<1>5. LiveNode(Drawn, node)' <=> LiveNode(Drawn, node)
  BY <1>1, <1>2, <1>3, <1>4 DEF LiveNode
<1>6. ViewTyped'
  BY <1>1, <1>2 DEF ViewInv, ViewTyped
<1>7. Turns'
  BY <1>1, <1>2, <1>3 DEF ViewInv, Turns
<1>8. OverStays'
  BY <1>1, <1>2, <1>3 DEF ViewInv, OverStays, GameIsOver
<1>9. NodeReached' /\ StaleReadExplained'
  BY <1>1, <1>2, <1>3, <1>4, <1>5 DEF ViewInv, NodeReached, StaleReadExplained
<1>10. HeadFollowed' /\ HeadWhereItWas'
  BY <1>1, <1>2, <1>3, <1>4 DEF ViewInv, HeadFollowed, HeadWhereItWas
<1>11. QED BY <1>6, <1>7, <1>8, <1>9, <1>10 DEF ViewInv

(* Every step keeps it.                                                    *)
LEMMA ViewKept == ViewInv /\ [ViewNext]_viewVars => ViewInv'
<1> SUFFICES ASSUME ViewInv, [ViewNext]_viewVars PROVE ViewInv'
  OBVIOUS
<1>1. StepsInv'
  BY GameStaysInOrder
<1>2. ASSUME Others
      PROVE  ViewInv'
  BY <1>1, <1>2, JoinStep, LoopHeadStep, DestroyTailStep, FinishRemovalStep,
     BeginMoveStep, MovingStep, EndFrameStep DEF Others
<1>3. ASSUME Renderer
      PROVE  ViewInv'
  BY <1>1, <1>3, CollectStep, DrawNodeStep, ReadHeadXStep, ReadHeadYStep,
     DrawHeadStep, CheckOverStep, CollectWinnerStep, ShowWinnerStep DEF Renderer
<1>4. QED BY <1>1, <1>2, <1>3, StartPlayStep, ViewStutters DEF ViewNext

(* However the steps of the renderer and of the others interleave, the     *)
(* invariant holds.                                                        *)
THEOREM ViewInductive == ViewSpec => []ViewInv
<1>1. ViewInit => ViewInv
  BY ViewInitial
<1>2. ViewInv /\ [ViewNext]_viewVars => ViewInv'
  BY ViewKept
<1>3. QED BY <1>1, <1>2, PTL DEF ViewSpec

(* The variables of the renderer and of the game keep their types. *)
THEOREM ViewTypeCorrect == ViewSpec => []ViewTypeOK
<1>1. ViewInv => ViewTypeOK
  BY StepsTyped DEF ViewInv, ViewTyped, ViewTypeOK
<1>2. QED BY <1>1, ViewInductive, PTL

(* render_players follows the lists without game_mutex: it meets a freed   *)
(* node only where the player was removed meanwhile or its tail was at the *)
(* limit.                                                                  *)
THEOREM StaleReadsAreExplained == ViewSpec => []StaleReadExplained
<1>1. ViewInv => StaleReadExplained
  BY DEF ViewInv
<1>2. QED BY <1>1, ViewInductive, PTL

(* A head whose two coordinates were read around a move is still drawn     *)
(* where the player was before it or after it.                             *)
THEOREM HeadsWhereTheyWere == ViewSpec => []HeadWhereItWas
<1>1. ViewInv => HeadWhereItWas
  BY DEF ViewInv
<1>2. QED BY <1>1, ViewInductive, PTL

(* Game Over is not taken back and its winner not replaced by another,     *)
(* though renderer_render asks without the lock.                           *)
THEOREM WinnersStay == ViewSpec => WinnerNotReplaced
<1>1. ASSUME ViewInv, [ViewNext]_viewVars, picture # NoBanner
      PROVE  picture' \in {0, picture}
  <2>1. GameIsOver /\ Active \subseteq {picture}
    BY <1>1 DEF ViewInv, OverStays
  <2>2. ASSUME Others \/ StartPlay \/ UNCHANGED viewVars
        PROVE  picture' = picture
    BY <2>2 DEF Others, Join, LoopHead, DestroyTail, FinishRemoval, BeginMove,
       Moving, EndFrame, SeenByRenderer, StartPlay, viewVars
  <2>3. ASSUME Collect \/ DrawNode \/ ReadHeadX \/ ReadHeadY \/ DrawHead
        PROVE  picture' = picture
    BY <2>3 DEF Collect, DrawNode, ReadHeadX, ReadHeadY, DrawHead
  <2>4. ASSUME CheckOver
        PROVE  picture' = picture
    BY <2>1, <2>4 DEF CheckOver
  <2>5. ASSUME CollectWinner
        PROVE  picture' \in {0, picture}
    BY <2>5 DEF CollectWinner, Finish
  <2>6. ASSUME ShowWinner
        PROVE  picture' \in {0, picture}
    BY <2>1, <2>6 DEF ShowWinner, Finish
  <2>7. QED
    BY <1>1, <2>2, <2>3, <2>4, <2>5, <2>6 DEF ViewNext, Renderer
<1>2. ViewInv /\ [ViewNext]_viewVars =>
        [picture # NoBanner => picture' \in {0, picture}]_viewVars
  BY <1>1
<1>3. QED BY <1>2, ViewInductive, PTL DEF ViewSpec, WinnerNotReplaced

(* Nothing the renderer does changes what the game does: every behaviour   *)
(* of the two together is one of GameSteps, and what is proved of those    *)
(* holds here.                                                             *)
THEOREM GameIsUndisturbed == ViewSpec => StepsSpec
<1>1. ViewInit => StepsInit
  BY DEF ViewInit
<1>2. ViewInv /\ [ViewNext]_viewVars => [StepsNext]_stepVars
  BY GameGoesOn
<1>3. QED BY <1>1, <1>2, ViewInductive, PTL DEF ViewSpec, StepsSpec
=============================================================================
