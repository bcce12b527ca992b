# ccycles in TLA+

A specification of the ccycles server (light cycles for bots, over TCP), with
the configurations that model-check it and machine-checked proofs of its safety
properties. Paths below are relative to the repository root.

## 1. The system

A server program plays the game for bots that connect to it. It has three
threads: `main` (SDL window, keyboard), the *accept thread* (the lobby) and the
*server thread* (the game). Bots are separate processes.

| component | state | operations | interacts with |
|---|---|---|---|
| player map (`player_map.c`) | `entries[64]`, `size` | insert, find, delete, get_all | game rules |
| player (`player.c`) | id, colour, head, tail list | create, destroy | player map |
| arena (`server_utils.c`, `types.h`) | none | direction to vector | game rules, bot |
| game rules (`game_logic.c`) | players, grid, frame, tail limit, `id_counter`, `game_started` | create, add, remove, move, set_frame, is_over | called by accept thread, server thread; read by renderer |
| palette, random numbers (`game_logic.c`) | palette, xorshift state | colour of an id, random cell | game rules |
| configuration loader (`game_logic.c`) | five numbers, a flag, the cell size | load | main |
| frame loop (`server.c`, `server_run`) | `client_sockets`, `running`, frame, per-frame flags | send states, receive moves, drop, time out, stop | clients (TCP), game rules, main |
| lobby (`server.c`, `server_accept_clients`) | `accepting`, `client_sockets` | accept, handshake | clients, game rules, main |
| program lifecycle (`server_main.c`) | the threads | splash, start, quit, clean up | all |
| wire format (`server.c`, `c_api.c`) | none | encode, decode | frame loop, lobby, client library |
| client library (`c_api.c`) | a socket | connect, receive state, send move, disconnect | server |
| sample bot (`client_c_simple.c`, `c_utils.h`) | last direction, random state | decide_move | client library |
| renderer (`renderer.c`) | a window | poll events, draw | reads the game beside the server thread |
| resource loader, ulog | none relevant | | |

Threads share `Game` and `GameServer`. The mutex of `Game` protects adding,
removing and collecting pointers, but not the move, the tail lists or
`game_is_over`; nothing protects `GameServer`. What keeps the accept thread and
the server thread apart is that `main` joins the one before it creates the other.

What is hard here, and what makes each part correct:

* **Game rules.** The grid and the tails are two representations of the same
  thing, changed by separate statements of five functions. A move judges all
  targets first, then removes, then moves player after player through pointers
  collected before the removals, and trims each list while walking it. Correct
  means: grid and tails agree, no cell has two owners, the outcome does not
  depend on the order of the loops, trimming takes the oldest end.
* **Frame loop.** Answers may be late, in two pieces, or never come; clients
  close; buffers fill. Correct means: a move is used for the state it answers
  or for a known later one, dropped clients leave no trace, every frame ends.
* **Wire format and client library.** Packets are written in many sends and read
  by counting; the length is computed apart from the writing; a send can fail
  anywhere, and within a player's block the sending goes on after a failure.
  Correct means: whatever is accepted was sent, in order, and a client that the
  server lets go of ends.
* **Sample bot.** It decides on a state that others see too, and that is older
  than the move. Correct means: a valid choice stays valid unless another player
  enters the same cell, and every way out can be found.
* **Renderer.** It reads the game beside the thread that changes it, without the
  lock. Correct means: what it may read wrongly is known, and the outcome it ends
  up showing is the right one.
* **Lobby and lifecycle.** Handshakes can fail at every call; the user can
  press SPACE or close the window at any time. Correct means: threads that share
  unprotected data never overlap, nothing is freed under a thread, the game
  starts, the program stops.

`PROJECT.json` lists every hazard at its line, with the property that would
catch it, or the reason why none does.

## 2. The modules

| module | models | how |
|---|---|---|
| `Arena` | cells, directions, steps | operators |
| `PlayerMap` | `player_map.c` | operators on a record of a partial function `entries` and the separate counter `size` |
| `Game` | `game_logic.c`, `player.c` | a state machine with one atomic action per function: the contract of the interface |
| `GameSteps` | `game_move_players` | the same state plus the locals of the function: one step per player removed, per head stamped, per tail node visited; refines `Game` |
| `FrameLoop` | `server_run`, its helpers, its clients | a state machine of server thread, clients and the byte streams between them |
| `Lifecycle` | `server_main.c`, `server_accept_clients` | main thread, accept thread, server thread, user, the client in the handshake |
| `RendererView` | `renderer_render`, `renderer_render_splash` | the renderer's reads as steps beside `GameSteps`, the lobby and the frame loop |
| `Wire` | the packets of `server.c` and `c_api.c` | operators: encodings as sequences of bytes, the list of sends, the parser |
| `Channel` | what a connection promises | the abstract specification: a FIFO of whole messages |
| `Session` | one client (`c_api.c`, the main loop of the bot) and the server | handshake and frames byte by byte; refines `Channel` in both directions |
| `Bot` | `decide_move`, `c_utils.h` | the bots' decisions draw by draw, in the game of `Game` |
| `ConfigLoader` | `game_config_load` | the loop over parser events |
| `GameProofs`, `GameStepsProofs`, `RendererViewProofs`, `BotProofs`, `FrameLoopProofs`, `LifecycleProofs`, `ConfigLoaderProofs`, `SessionProofs` | | the theorems about the module each is named after, and their inductive invariant |
| `MC...` | | the instances for TLC, one per module that is run |

Variables have the names of the C fields they stand for; every action names its
function, and the `map` of `PROJECT.json` gives the lines. Definitions whose name
begins with `Bug_` are not part of the model: each is the mutated form of the
definition that follows it, to show that a property can fail.

How the parts fit together: `Game` is the contract; `GameSteps` shows that the
loops honour it; `FrameLoop` and `Lifecycle` use of it only what they need
(players die in a move; an id is handed out; a removal takes the player out), so
that the network and the threads can be explored with more freedom than the
full game would allow. `RendererView` and `Bot` go the other way: they extend
`GameSteps` and `Game` and use the rules in full, because what they ask (which
nodes are freed when, which cells are free when the move comes) depends on them.
`Session` takes one client out of `FrameLoop` and looks at the bytes, which
`FrameLoop` takes as whole packets or halves.

### Game and GameSteps

`MovePlayers(dirs, lost)` is the rule of the game as a relation between the
state before and after the call. `lost` is the set of players whose tail node
could not be allocated. `AddPlayer` places a player on *any* free cell, which
stands for the random draws; `AddPlayerNoRoom` is the call that drew 10,000
occupied cells. An id of `MAX_PLAYERS` is written past the end of the table;
C gives the program no meaning from there on, so the model sets `overrun` and
stops (`Undefined`).

`GameSteps` keeps `pc`, the pointers collected, the players still to visit, the
new positions, the collision flags, the trimming counter and the list position.
A pointer is the slot it points to: the entry of a removed player reads as zero,
as `memset` leaves it. `saved` is the state when the call began and serves the
refinement alone. The loops before the first removal only read shared state and
are one step.

### FrameLoop

Per client, `states` are the state packets not yet read and `moves` those the
server has not read. A packet carries the frame it shows and the players in it,
a move the frame whose state it answers: that is all the properties tell apart.
`SendBuffer` packets fit a socket. The model begins where `server_create` and the
lobby have left things, before `server_run` raises the flag (`RunStart`), so a
stop can come before that. A client is waiting, thinking, has sent half
of a move (`MayFragment`) or is closed. The time limit is not counted:
`TimeUp` may happen at the end of any pass over the clients. `dropped`, `taken` and
`missed` are history variables.

A socket whose peer has closed may accept the packet, fail, or kill the process:
the first send after an orderly close succeeds, one after the reset raises
SIGPIPE or, with unread data, fails with ECONNRESET. Nothing in the repository
handles the signal.

### Lifecycle

`main` is where `main()` is (`joinAccept`, `joinServer` are the two
`pthread_join`s), `accept` where the accept thread is in a handshake, `server`
where the server thread is. A client in the handshake is silent, sends a name or
something that is no name packet (`"malformed"`), and may go at any time. A frame is
one step that drops some clients and kills some players. What the accept thread does after everything was freed on
the way from the splash screen to `exit` is undefined, and not modelled.

### RendererView

`phase` follows the thread that changes the game: the accept thread in the
`"lobby"`, then `server_run` from the head of its loop through the drops and the
move to its end (`"done"`). A removal is two steps, `DestroyTail` (the nodes are
freed) and `FinishRemoval` (the entry is cleared, the mutex released). `rpc` is
where the renderer is; `node` is the place of `tail_node` in the list it walks,
counted from the newest node, so a push moves it by one. `LiveNode` says which
nodes exist: those in the list, and those cut off it that the trimming loop has
not reached yet. Reading another is undefined in C: the model records `"stale"` and
stops. A head is read in two steps, x and y. The banner reads two numbers and
is left out.

### Wire and Session

`Wire` writes a packet as the sequence of its bytes and a state packet as the
list of calls to `send_all`, each with the player's block it belongs to; `Parse` is
`cycles_recv_game_state`. A length of 0 or past the client's limit is refused as
soon as it is read (`PacketBytes`), which is what a state too long for the client
comes to. `Parse` refuses a name longer than `MaxString`; `SessionAssumption`
says that the server keeps none so long. `Session` pushes these bytes through `up` and `down`
piece by piece. On the server's side `CallReturns` is what
`send_game_state_packet` does after each call, failed or not. A client that
closes loses what it has not read; a server that closes with unread data may
lose what is under way (a reset). `asked`, `taken`, `sent` and `got` are history
variables, and the refinement maps them to `Channel`: `StatesDown` as they are,
`MovesUp` with each move replaced by the direction nearest to it, since the
server clamps.

### Bot

`stage` follows `server_run`; `unsent` are the bots not shown this frame yet, whose
grid is that of the moment when their turn comes. A `Decide` step is one turn of
the loop in `decide_move` with an accepted draw. Bots in `late` have missed a
deadline: they answer older frames from then on, so any direction is allowed
for them, as for players without a client. `damped` stands for
`inertial_damping`, `Upper` for `upper`, `WordSize` for 2^32.

### ConfigLoader

One action per event type of the loop; aliases and sequences go to its default
branch, which leaves `current_key` as it is (`Alias`, `SequenceStart`). `stack` and `events` are the parser's: they
make the event sequence that of a well-formed document. `entries` records what
the document has said so far, for comparison, and `flat` whether its collections
have held scalars only.

## 3. The runs

| run | checks | bounds |
|---|---|---|
| `game` | types; grid = tails; no trail crosses itself; tails connected from the head back; tails within the limit; `size` = number of players; colours differ; no cell changes hands in a call | 3 x 2 cells, 3 players and the overrun of the fourth, limit 1 to 3 |
| `game_steps` | a target judged free stays free until its turn; tails stay marked between the steps; the loops implement `Game!Spec`; a call returns | 2 x 2 cells, 3 players, failing allocations, limit 1 to 2 |
| `renderer_view` | types; a read of freed memory happens only after a removal or in a tail of at least `BaseTailLength` nodes; a head is drawn where the player has been; no winner is replaced by another; the right winner is shown in the end | 3 x 2 cells, 2 players, 4 frames, limit 1 to 2 |
| `frame_loop` | types; nothing lost or reordered between state and move; the lag of a client is the number of its missed deadlines; dropped clients leave; two versions of a frame differ by dropped clients' players; each frame ends; a stop of the running loop ends it | 2 clients and a player without one, 3 frames; or 3 clients, 1 frame; 2 packets per socket, moves in two pieces |
| `session` | types; the client refuses no packet but one longer than it takes; `cycles_connect` returns 0 only to a client that is in the game; snapshots and moves arrive as through a FIFO channel; a client let go of ends | 2 frames, name of 2 bytes where 1 is kept, grids of 1, 2 and 20 cells (the last too long for the client), a second player with an empty name, moves -1 and 260, each send leaving 0 or 1 byte over or failing |
| `bot` | types; every way out can be drawn; draws unbiased; a bot in time dies of a shared target only; decisions end | 3 x 2 cells, 2 players, 3 frames, 2 attempts, inertia 0 and 2, words of 3 bits |
| `lifecycle` | types; accept and server thread never overlap; nothing freed in use; client limit and one player per lobby client; SPACE starts the game; closing the window ends the process, if the stop is not overwritten or the game ends | table of 5, 2 clients |
| `config` | types and no division by zero; flat documents of scalars are obeyed | documents of 6 events, among them aliases, sequences, inner mappings |

Runs that TLC must find violated, each quoting what the repository says of
itself (the `findings` of `PROJECT.json`):

| run | the repository says | the code |
|---|---|---|
| `slow_players` | a slow player is terminated | it is moved north and stays; its late move answers the next state |
| `split_move` | two reasons for a kick | a move in two pieces is a third |
| `send_to_closed` | a failed send drops the client | it can end the server (SIGPIPE) |
| `ids_used_up` | ids 0 to 63 | failed handshakes use up ids until 64 is written |

Other disagreements and surprises met while modelling, which have no run:

* `game_logic.h:53` says removal clears the trail. When `malloc` of a tail node
  fails (`game_logic.c:267`) the cell the head leaves is in no list and is never
  cleared; `GridAgreesWithTrails` has the condition `~AllocMayFail` for it.
* `writing-a-bot.rst:16` says termination severs the connection. A player that dies
  in the move keeps its socket, also when the loop has ended; the client leaves
  by itself when it is not in the state it gets.
* `server.h:56` says `server_stop` makes `server_run` exit. A stop before
  `server.c:502` is overwritten, and the process then ends with the game only
  (`CloseEndsProcess`), which without players is never.
* `index.rst:61` calls the configuration a YAML file. An alias or a sequence given as
  a value leaves `current_key` set, so that the next key is stored as its value,
  and the end of an inner mapping clears `in_mapping` for the rest of the file.
  `FlatDocumentObeyed` is therefore about documents of scalars.
* `server.h:69` calls `server_accept_clients` non-blocking. A client that connects and is
  silent holds it in `recv_string_packet` (`server.c:323`).
* `server.c:148` gives the player id four bytes in the packet; one is sent, and
  the length and the client agree with one.
* When the game is over nobody tells the clients: their sockets stay open
  until the window is closed. `LetGo` begins there.
* `cycles_create_socket` returns 1 on failure, which passes for a descriptor; the
  failure is noticed by the first `send`, on standard output's descriptor.

**Why the bounds are enough.** Three players allow every collision: with a wall,
with a trail, with one's own trail, head to head of two or three, entering the
cell a dying player occupies. On 3 x 2 cells a trail can turn, enclose another
and reach the limit, and the limit can go down between moves
(`BaseTailLength` 1, `FramesPerTailCell` 1 in place of 55 and 100; the proofs hold
for any values). `AllocMayFail` is FALSE in `game`, where the connectedness of
tails is checked, and TRUE in `game_steps`. In `frame_loop` two clients suffice
for the order within a pass (the first is dropped before the second is sent its
state), the third player keeps the game going when one dies, and three frames
let a client miss a deadline, answer late and miss again. One frame is shown in two versions when the second of
three clients is dropped (it has closed) between the sends to the first and the
third: hence the other start, with three clients, of which one frame is explored
(`Crowd`). In `lifecycle` four
ids with two places let handshakes fail before and after others succeed, and
the ids run out. In `renderer_view` tails reach the limit of one node in the
second frame and are trimmed, both players can die together, one can be dropped
and the other die, and the renderer can sleep at any read through two frames.
In `session` a send leaves over no byte, one byte (so that every call is cut), or
all of the rest (it fails): a hole can start at every call of a block; two frames
let an old move be taken for a new state. In `bot` two attempts let a bot give up
while boxed in, be refused with its old direction once, and still find a way;
`WordSize` 8 makes 4 and 6 one divisor and one non-divisor of the number of
words, as 2^32 has both. In `config` six events are a mapping of two settings
and a half, or one with an alias or a collection inside and a setting behind it.

Named bounds: `MaxFrame` (frames), `Crowd` (with so many clients one frame), `SendBuffer` (packets per socket),
`MaxPlayers`, `GridWidth`, `GridHeight`, `Pieces` (where sends are cut), `MaxEvents`,
`MaxAttempts` and `WordSize` (small in place of 200 and 2^32), `MaxPacket` and
`MaxString` (52 and 2 in place of megabytes).
`CHECK_DEADLOCK FALSE` stands where the program ends: `FrameLoop` (the run is
over, the process was killed, or a bound on frames is reached), `Lifecycle` (the
process has exited, or the table was overrun), `RendererView` (a freed node was
read), `Session` (both ends are closed), `Bot` (the game is over) and
`ConfigLoader` (the call has returned).

**Fairness.** `FairStepsSpec`: the thread in a call goes on. `FrameLoop`: the
server thread goes on (it never blocks: sockets are non-blocking and `select`
has a zero timeout), and `TimeUp` is strongly fair, because each pass is later
than the last and the loop therefore cannot go round for ever without exceeding
`max_comm_ms`. Nothing is assumed of clients. `Lifecycle`: each thread that can
go on does; the user does what he likes. `PoliteSpec` adds that a client in the
handshake sends its name or goes away, which `SpaceStartsGame` needs and which
the code does not enforce. `RendererView`: the main thread draws picture after
picture (it waits for the mutex only, and nothing is assumed of the thread that
holds it but that the property speaks of the time when `server_run` has
returned). `Session`: the client's process goes on sending and receiving; nothing
is assumed of the server. `Bot`: each bot's process goes on, and the generator
does not return rejected numbers for ever.
The second part of `FramesEnd` begins where `server_run` has raised the flag;
`CloseEndsProcess` also says what a stop before that comes to.
`SpaceStartsGame` and `FramesEnd` each name the other way out: an overrun table,
a killed process; `OutcomeShown` one more, the stale read that ends the model.

## 4. The proofs

Every safety property of the runs is a theorem; so are the refinement of `Game`
by the loops of `GameSteps` and those of `Channel` by the moves and by the states
of `Session`. A theorem holds for every value of the constants that the
assumptions admit: every size of the grid and of the tables, every tail limit, any
number of players, clients, frames and attempts, any name, documents of any
length. The assumptions are the ASSUMEs of the modules, each named after its
module. They say what kind of value a constant is; those that say more:

* `MaxPlayersAssumption`, `LifecycleAssumption`: a `PlayerId` is a byte, so there
  are at most 255 slots, and at least one besides slot 0.
* `BotAssumption`: the widest draw, from four directions and the inertia, is not
  wider than the word it is reduced from.
* `WireAssumption`: the client's limit on a packet is an `int` of at least 3, the
  length of the colour packet; its limit on a string is a natural number.
* `SessionAssumption`: a name is a C string whose packet's length fits an
  `int32_t`; the server keeps no more of it than the client takes as a string (the
  limits of the source are 31 bytes and 16 MiB); a move, a coordinate and the
  number of a frame are `int32_t`s; a grid has cells, as many as its width times its height.
* `SizeAssumption`: the size of a state packet fits the 32 bits in which
  `compute_game_server_size` adds it up. The code does not check this: a
  configuration whose grid has 2^32 cells or nearly as many wraps the product in
  `game_create` (which then allocates too little) or the sum, and is outside the
  model. That the client would take the packet is *not* assumed.
* `ConfigAssumption`: `strtoul` returns a natural number.

Each module has one inductive invariant, named parts of which say where things
are between two steps. TLC checked every one of them on the instance of the
module's run before it was proved; the `...Inductive` theorems state them. One
lemma per action is the induction step, and the properties are read off the
invariant or, where they speak of a step, proved of each action from it.

### The game

| theorem | statement |
|---|---|
| `TypeCorrect` | `Spec => []TypeOK` |
| `GridAgreesWithTrails` | `Spec => []GridMatchesTrails` |
| `TrailsStaySimple` | `Spec => []TrailsSimple` |
| `TrailsStayConnected` | `Spec => []TrailsConnected` |
| `TailsStayWithinLimit` | `Spec => []TailsWithinLimit` |
| `SizeIsExact` | `Spec => []SizeCountsPlayers` |
| `ColoursStayDistinct` | `Spec => []ColoursDistinct` |
| `NoCellChangesHands` | `Spec => NoCellStolen` |

None of these is inductive. Freeing the trimmed cells keeps the grid right only if
no kept node is on a trimmed cell: that is `TrailsSimple`. A trail stays
simple only because the head moves to a cell that is free, and a free cell is on
no trail: that is `TrailsMarked`. A new player does not take over an old one's
cells only if its id is fresh (`IdsFresh`: ids in the table are below
`idCounter`). Hence

    IInv == TypeOK /\ IdsFresh /\ GridMatchesTrails /\ TrailsSimple

`GrownFacts` and `KeptFacts` say what pushing and trimming do to a list;
`MoverFacts` puts them together for one mover. `ColoursDistinct` follows from the
types, since ids below `MAX_PLAYERS` are their own remainders. `NoCellStolen` is
proved of each step: the only cells written with an id are targets, which were
free. `TailsWithinLimit`, `TrailsConnected` and `SizeCountsPlayers` are inductive
next to `IInv`.

### The loops of the move

| theorem | statement |
|---|---|
| `StepsInductive`, `StepsTypeCorrect` | `StepsSpec => []StepsInv`, and the types |
| `JudgementStaysValid` | `StepsSpec => []JudgementHolds` |
| `TrailsStayMarkedMeanwhile` | `StepsSpec => []TrailsMarkedMeanwhile` |
| `LoopsImplementTheMove` | `StepsSpec => Refines` |

`StepsInv` compares two records: `Begun`, what the call found and judged, which
does not change, and `Work`, which removals, stamps and trims it has done.
`TableIs` and `GridIs` say what the table and each cell of the grid must hold
after just that work, in whatever order the loops did it; the game as its callers
see it (the state of the last call that returned) satisfies the `IInv` of
`GameProofs`. The order of the loops matters in one place, and the invariant
shows where: a cell freed by a trim or a removal is never the target of another
player, because every target was free when the call began.

The refinement: a step inside a call leaves the callers' game alone (a stutter);
the step that ends the last loop finds all work done, and then `TableIs` and
`GridIs` are the equations of `MovePlayers(dirs, lost)` with the directions and
the failed allocations of this call.

### The renderer beside the game

| theorem | statement |
|---|---|
| `GameIsUndisturbed` | `ViewSpec => StepsSpec`: the theorems above hold here |
| `ViewInductive`, `ViewTypeCorrect` | `ViewSpec => []ViewInv`, and the types |
| `StaleReadsAreExplained` | `ViewSpec => []StaleReadExplained` |
| `HeadsWhereTheyWere` | `ViewSpec => []HeadWhereItWas` |
| `WinnersStay` | `ViewSpec => WinnerNotReplaced` |

`ViewInv` adds to `StepsInv`: whose turn it is (`Turns`: the lobby removes nobody, a
player being destroyed is still in the table); that the node the walk is at is
live, or its player's tail has `BaseTailLength` nodes at least (`NodeReached`);
that the cells recorded while a head is half read are at most two and one move
apart (`HeadFollowed`), which is why a mixture of old x and new y is still one of
the two; and that once a winner is looked for the game is over and nobody joins
(`OverStays`).

### The bots

| theorem | statement |
|---|---|
| `BotInductive`, `BotTypeCorrect` | `BotSpec => []BotInv`, and the types |
| `DeathsAreExplained` | `BotSpec => DeathsExplained` |
| `EveryWayOutIsOffered` | `BotSpec => []WaysOutOffered` |
| `DrawsAreUnbiased` | `BotSpec => []Unbiased` |

`ShownStaysFree` is the heart of `BotInv`: until the move, whoever is dropped
meanwhile, a cell that was free in the state a bot saw is free. With `ChoiceLegal`
the target of its choice is free when the server judges it, so only another
player that enters the same cell can kill it. The other two are arithmetic: the
accepted words are as many multiples of the bound as fit below `WordSize`, each
remainder has a word, and remainders fall evenly.

### The frame loop

| theorem | statement |
|---|---|
| `FrameLoopInductive`, `FrameLoopTypeCorrect` | `Spec => []IInv`, and the types |
| `RoundTripIsFIFO` | `Spec => []PipelineConsecutive` |
| `LagIsExact` | `Spec => []LagIsMissedDeadlines` |
| `DroppedClientsStayOut` | `Spec => []DroppedClientsLeave` |
| `VersionsAgree` | `Spec => []VersionsDifferByDropped` |

`RoundTrip` follows a client round: the moves that wait, the state it decides on and
the states it has not read are consecutive frames, and together they are all the
server has shown it. `Accounts`: each frame has cost the client a move taken or a
deadline missed, from which the lag follows. For the versions of a frame,
`CurrentVersion` says that while a frame's states are being sent, in the order of
the ids, what was sent lacks nobody alive and has too many only those dropped
since; `Versions` keeps that for old frames.

### The threads, and the configuration

| theorem | statement |
|---|---|
| `LifecycleInductive`, `LifecycleTypeCorrect` | `Spec => []IInv`, and `[]TypeOK` with the client limit |
| `ThreadsAreOrdered` | `Spec => []ThreadsTakeTurns` |
| `ConfigInductive`, `ConfigTypeCorrect` | `Spec => []IInv`, and the types, the cell size among them |
| `FlatDocumentsObeyed` | `Spec => []FlatDocumentObeyed` |

`MainOrdersThreads` ties what threads there are to where `main` is. The client
limit needs `Tables`: the place that was free when a client was accepted is free
when its socket is stored, because there is one accept thread. For the
configuration, `FlatShape` says that while the mapping has held only scalars (no
collection, no alias) `current_key` and `in_mapping` are where the parser is, so that each scalar goes to the entry it
belongs to.

### The session

| theorem | statement |
|---|---|
| `SessionInductive`, `SessionTypeCorrect` | `Spec => []IInv`, and the types |
| `ConnectedIsJoined` | `Spec => []ConnectedMeansJoined` |
| `MovesArriveInOrder` | `Spec => MovesDelivered`, that is `MovesUp!ChannelSpec` |
| `StatesInductive` | `Spec => [](IInv /\ StatesUnderWay)` |
| `StatesArriveInOrder` | `Spec => StatesDelivered`, that is `StatesDown!ChannelSpec` |
| `OnlyTooLong` | `Spec => OnlyTooLongRefused` |

Packets are cut anywhere, so the invariant speaks of bytes. `Stream` is what is in
the connection and then what the client has still to send; a cut moves the border
between the two and changes nothing (`PushIsWhole`). In the handshake the stream is
the name packet (`NameUnderWay`); in the game its j-th byte is the byte of the move
packet it belongs to, of a move asked for and not yet taken (`MovesUnderWay`); both are
prefixes if the client is gone, the whole if it is not. `ColourUnderWay` and
`InTable` say the same of the colour on the way down and of the name in the table,
and `Phases` where the two ends can be together. What is left is that a number is
read as it was written (`IntReadBack`, `LengthReadBack`: the digits to the base
256 of an `int32_t`) and that the clamped direction is the nearest (`ClampIsNearest`).
The refinement of `Channel` follows: `SendMove` and `RecvMove` are its two actions,
and the move taken is the first asked for and not taken; every other step is a
stutter.

The states go the other way, and are harder in three respects.

*The packet is a list of calls, its length a sum computed elsewhere.* `CallAt`
gives the place in the packet where the bytes of each call begin. The calls lie
one behind the other (`NextCallAt`, `CallsInOrder`), the last ends at the
announced length, and so a packet that lacks no byte is as long as it says.
The sums over the players (`BlockSizes`) and the client's loop over the blocks
are recursive functions; what is said of them for every number of players is
proved by minimal counterexample (`LeastOfNats`, `LoopRuns`, `Rising`), as the
induction theorems are out of reach. `ParseReads` is the result: the client's parser,
at the place where a block begins, reads the player the block was written for, and
at the end of the packet it has read the snapshot that was sent.

*The client may be in the middle of any packet.* `StatesUnderWay` says that what is
in the connection and in the client's hands is a row of whole packets, those of
the snapshots sent and not yet received, and then nothing, a stump (the server
has closed), or the packet being sent. `StateGoesOut` says how far that packet has
come: `RestOf` are the calls still to make, and the bytes before them are there.
A send that is cut or fails moves the border between the two.

*A send that fails may be followed by others.* Within a player's block the sending
goes on, and the stream gets a hole. The invariant lets the last packet have
one, in the block of a player and after a failure only, and then the server is
past all reading: the block ends, the function returns and the socket is closed.
Bytes that were skipped are never made up for, so the packet stays shorter than
its announced length, the client waits for more, and finds the connection closed.
That is why nothing with a hole is ever parsed: it is the one place where the
client's safety rests on what the server does *after* an error.

`StatesArriveInOrder` follows as for the moves. `OnlyTooLong`: the client parses a
packet only when all of it is there, so it is one of the whole packets and
`ParseReads` applies; if it refuses it before that, it does so for its length,
and this is not 0 (a packet holds at least the sizes of the grid).

### Only model-checked

* Liveness, all of it, as the prover has no rule for fairness here: `MoveReturns`,
  `OutcomeShown`, `FramesEnd`, `LetGo`, `DecisionEnds`, `SpaceStartsGame`,
  `CloseEndsProcess`.

## 5. Not modelled

* The renderer's drawing: shapes, text, post-processing, the numbers of the
  banner; the font resource; logging.
* libyaml and `strtoul`: well-formed events, a number for each text.
* The generators (`xorshift64`, `pcg32`) and the hue arithmetic of the palette: any
  free cell and any word may be drawn, and the 64 colours are taken to differ
  (they do for the constants in the source).
* Failures of `calloc`, `pthread_create` and `listen` before the lobby opens, and
  of `malloc` in the client library: the program prints a message and ends.
* Grids whose cells, or whose state packet, cannot be counted in 32 bits: the
  product in `game_create` wraps, and what is written outside the grid is undefined.
* What the threads do between `server_destroy` on the splash screen and `exit`:
  undefined, and without a claim to check.
* The clock: deadlines may pass at any time, and it is taken to go on.

## 6. Plan

All modules above and the proofs of section 4 are done: no safety property of
the runs is left without a theorem. What is left to TLC is the liveness listed in
section 4, for which the prover has no rules.
