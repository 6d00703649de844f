# Engine Room: TLA+ models, model checks and proofs

Engine Room is a chess arena for programs. Bots connect to one asyncio server
over WebSockets, seek games, and play them against each other or against house
bots; spectators watch through server-sent events; finished games are rated and
stored. This directory models the server's core logic and the Python client in
TLA+, checks them with TLC on small instances, and proves with TLAPS every
safety property that TLC finds to hold: those of the game loop, of reconnection, of
the matcher, of the spectators' streams, of the house bots' life, of the rating
transactions, of the running of an event and of the client.

Paths below are relative to `src/server/engine_room/` unless they begin with
`docs/` or `sdk/`.

## 1. Inventory

The server is **one process and one event loop**. Code between two `await`s is
atomic; at an `await` anything else may run. Almost every hazard here comes from
state read before an `await` and used after it. The only real threads are the
ones `asyncio.to_thread` uses for house-bot searches.

| Component | State | Operations | Modelled in |
|---|---|---|---|
| Game loop (`game/worker.py`, `game.py`, `clock.py`) | `Game`, `game.live` (board, ply, history, clocks, pending draw offer), queues | `run_game`: start, ask, wait (abort, control, move or deadline), confirm, publish, end, record, announce, unbind | `GameLoop`, `GameLifecycle` |
| Seats (`game/seat.py`) | session of a remote seat, last `your_turn`; search thread of a house seat | `request_move`, `confirm_move`, `game_over`, `rebind`, `resend_your_turn` | `GameLoop` (moves), `Reconnect` (sends) |
| Endpoint and sessions (`ws/`) | registry of the live session per bot, send lock per session | handshake, newest wins, resume, receive loop, heartbeat, clean-up | `Reconnect`, `GameLoop` (frames), `Matchmaker` (seeks) |
| Game registry (`game/registry.py`) | active-game index, recent terminal per bot | create, bind, unbind, recall | `Matchmaker`, `Reconnect` |
| Matchmaker (`matchmaking/matcher.py`) | pools, seek index, last opponents | seek, cancel, tick (reap, expire, pair, greet), direct challenge | `Matchmaker` |
| Pairing rules (`elo.py`, `pool.py`, `ticket.py`) | none | window, exclusions, choice of an opponent | `Pairing` |
| Launcher (`matchmaking/launcher.py`) | tasks | bind, two `game_start`, create the loop | `Matchmaker`, `Reconnect` |
| Tournaments (`tournaments/`) | rows: event, entries, pairings; run tasks in memory | enrol, start, run, play a pairing, record; public page | `Tournament`, `RoundRobin` |
| House bots (`house_bots.py`, `minimax.py`) | the shared board while searching | search in a thread | `GameLoop` (its use of the board) |
| Key rotation (`bots/routes.py`) | key hash, live session | rotate, evict | `Reconnect` |
| Finalizer and ratings (`persistence/finalize.py`, `game/ratings.py`) | rows of bots and games, row locks | one transaction at the end of a game | `BotRows`; one step of `GameLoop` |
| Bots and keys (`bots/service.py`) | the bot's row | rotate, delete (against the finalizers) | `BotRows` |
| Ambient games, presence (`game/ambient.py`, `spectate/presence.py`) | live games, refill and poll tasks, last-seen time | start, poll, refill, on finished, stop | `HouseBots` |
| House clients (`game/house_clients.py`) | processes, monitor task | start, respawn, stop | `HouseBots` |
| Lifespan (`app.py`) | what runs | start and stop of all of these | `HouseBots` |
| Spectators (`spectate/sse.py`, `spectate/games.py`, `pubsub/`, watch page) | subscriptions and queues, Redis reader, the page's moves | subscribe, snapshot, tail, fan out, reconnect; look up a game, list the lobby | `Spectate`; `SnapshotIsNearby` of `GameLoop` |
| Python SDK (`sdk/engineroom/`, `sdk/house_bots/runner.py`) | the client's game, its unacknowledged move | seek, play, resend, reconnect, restart | `SdkClient` |
| Leaderboard, other queries, users, settings, metrics, other pages, developer tools | database rows, settings | CRUD, queries, wiring | not modelled |

**How they interact.** An endpoint puts frames into a game's queues and control
list; `run_game` sends through its seats, which hold sessions that the handshake
of a reconnecting bot replaces. The matcher, the tournament runner and the
ambient supervisor all create games in the registry and hand them to the
launcher, which binds both bots in the active index and starts `run_game`. The
index decides to which game a bot's frames go. The finalizer writes to the
database; publication goes through a pub/sub to spectators.

**What makes each part correct.** The *game loop*: one verdict, deserved,
recorded before it is announced; every acknowledged move is on the board; every
game ends. *Reconnection*: a bot that comes back is in its game, knows whether
it is on move and how the game ended; nobody's departure is missed or invented.
The *matcher*: no two bots of one owner meet, a seek has one outcome, nobody
starves, a bot is in one game. *Tournaments*: everybody meets everybody once,
the standings are the results, the event ends. *Spectators*: no move is missed
or shown twice, a stream ends. *Clients*: only moves that were chosen for a ply
are played at it, hooks are told the truth, no game that runs is waited in for ever. *Rows*:
no rating is lost, finalizers deadlock only over an aborted game. *House bots*: the lobby refills,
dead processes return, nothing is left behind. The hazards
behind these are listed in `PROJECT.json`, each at its line.

## 2. Modules

Definitions keep the names of the code where TLA+ allows it. Every mapped
definition has its lines in `PROJECT.json`, "map". Operators whose comment
begins with "Mutant:" are plausible bugs, unused by the specifications: each
property is violated when its mutant replaces the definition below it.

### Sublists

`Keep(s, places)` is what a list comprehension with a condition leaves of a list:
the matcher's `alive` and `live` lists, the send lock without the frames of a
cancelled task, the moves of a queue that a page has not seen, the processes but
one. It is a recursive function, so that proofs can be made about it.

### GameLifecycle (abstract) and GameLoop

`GameLifecycle` says what the rest of the server may rely on: paired, in
progress, finished or aborted; one verdict; recorded, then told, then unbound.
`GameLoop` implements it (`LifecycleSpec`) under the mapping
`verdict <- final.verdict`, and closes every game unless an exception leaves
`run_game` (`LaunchedGameCloses`).

One action of `GameLoop` is the code of `run_game` from one `await` to the next,
and `pc` names the `await`. The move task that a turn starts is `task`; a wake-up
(`Wake...`) handles exactly one of abort, control, move and deadline, in the
code's order, and `WaitAgain` re-enters the wait with the time that is left.
Frames arrive by `MoveArrives` and `ControlArrives` at any time. A move is
`[ply, uci, offer]`; a position is the sequence of moves played; which moves are
legal depends on the ply; whether a position ends the game is a nondeterministic
choice, except after `MaxPly` moves. Time is in ticks, and the loop may wake up
to `Lag` ticks late. For a house seat, `HouseThinks`, `SearchStep` and
`HouseAnswers` are the worker thread, which pushes and pops on the shared board,
`search` moves deep, and cannot be cancelled; `Shown` is how many moves are on
the board for whoever reads it. `SearchDepth` is 3 for the minimax bots of the
ambient games and 0 for the greeter, which picks a legal move and pushes none.
`FinalizeFails` and `PublishFails` are the exceptions that leave `run_game`: of
the durable write, and of each of its three publishes (`pubsub/redis.py:136-139`).

### Reconnect

The connections of the two bots of one game. Each session has a fair send lock,
`outbox[k]`: whoever sends joins it, and the head continues when its frame is
written or raises. `pc[k]` is the `await` of the handler of connection `k`,
from the handshake (`Greet`, `Register`, `Replaced`, `Welcomed`, `TurnResent`,
`MissedDelivered`, `HandshakeFails`) over service to `LeaveLoop` and `CleanUp`;
`gpc` is the `await` of `launch` and then of `run_game`, which here only sends,
and may end at a publish or the durable write (`RunGameRaises`).
Clients vanish at any time (`ClientGone`); the server notices by its heartbeat.
`gap` records the frames of the game that a connection could not see because of
where its handshake was (`Misses`). `NamesAssumption` keeps the names of the other
senders apart from the connections.

### Pairing, Matchmaker

`Pairing` holds the pure rules: the widening rating window, the owner and
previous-opponent exclusions, the choice of an opponent. `Matchmaker` is one
time-control pool over them: the endpoint's calls (`Seek`, `Cancel`,
`DirectChallenge`, `AckChallenge`), and the matcher's tick, cut at its awaits:
`TickStarts` (reap), `Expires`/`ExpiryTold`, `Pairing`, `Greeting`, and
`WhiteTold`, `Launched`, `LaunchFails` of the launch it awaits. The pool, the
index of seeks, the copies the loops walk over and the active-game index are
separate variables, because the code lets them disagree.

### RoundRobin, Tournament

`RoundRobin` is the circle method as a recursive function, with what it must
guarantee beside it. `Tournament` is one event: enrolments and the organiser's
start, the run task (`Begin`, `ReadPending`, `PlayPairing`, `Launched`,
`GameEnds`, `RecordResult`, `Finish`), sessions that come and go, tasks that
raise (`Fails`), and `Restart`, which loses the tasks and keeps the rows. The
transactions of `enroll` and `_run` hold the event's row lock, so each is one
action; `start_tournament` only reads, so its run may find the event started.
`ReadStandings` is a request for the event's page; its results are read in a
later statement, at any time.

### SdkClient

The run loop of the SDK's `Bot`, one action per frame that it reads or timeout
that it takes, with `pc` naming the `await`: `Open`, `OpenFails`, `Welcomed`,
`WelcomedBack` (of `_reconnect_resume`), `AwaitGameStart`, `TakeTurn`, `Skip`,
`TakeGameOver`, `Closed`, `AckTimeout`; `PlayAgain` is the next round of
`run(loop=True)`, or the runner that starts a client that raised. It talks to the
server as one bot sees it: the newest connection's handler, a seat that
reads moves by ply, games one after the other (`Register`, `Rebind`, `ReadFrame`,
`GameStarts`, `ReadMove`, `OpponentMoves`, `GameEnds`, `Unbind`). A launch or a
`run_game` may raise (`LaunchRaises`, `RunGameRaises`, `NotAnnounced`); the game is
then in `lost`, and stays bound to the bot until a later one takes its place, with a
seek of the bot that was left in the pool. `up` and `down`
are the frames under way; `Drop` keeps any prefix of each. Frames are identified by
kind, game and ply. `choose_move` answers anything, and may answer differently
when it is asked again. `MovesAreMoves` keeps the moves apart from the types of other
frames, as the frames of the protocol do.

### Spectate

One game and the pages that watch it. `run_game` is reduced to what it publishes
and when (`Begin` to `Announce`); `Publish` delivers at once in process and
awaits Redis otherwise (`Published`, `PublishRaises`, `Dispatch`,
`ConnectionLost`, `Reconnect`). A stream subscribes (`Watch`), sends the snapshot
(`CatchUp`), decides whether to follow (`AfterSnapshot`), follows (`Follow`), and
its page may go at any time (`Leave`). `LookUp`/`RecordRead` and
`ListActive`/`ListFinished` are the two halves of a request for the game and for
the lobby, between which the game may end, be recorded and be evicted.

### HouseBots

The lifespan of the application with one of its two drivers. The ambient
supervisor: games are counted, `PollWakes`, `RefillBegins` are the tests of the
refill loop before it awaits the ratings of a new game's bots, `PollSpawns`,
`RefillSpawns` what follows; `OnFinished` is the completion callback. The
supervisor of the house clients: `StartClient`, `ProcessExits`, `MonitorPass`,
`BackoffOver`, `Respawn`, `StopClients`, with the list `procs` as the code keeps
it, from which a process is missing while it is respawned. `HouseInit`, `HouseNext`,
`HouseSpec` and `HouseTypeOK` carry the prefix because `SdkProofs` extends `SdkClient`
as well.

### BotRows

The rows of the bots and the transactions that meet on them, under the row locks
of PostgreSQL: the finalizer of each game locks both bots in the order of
their ids (`LockRow`), reads them, inserts the game and commits (`Commit`), or
fails (`InsertFails`, `ConnectionLost`, and `RolledBack` for one of a `Circle` of
transactions that wait for each other); the insert of an aborted game only
share-locks them (`ShareRow`); owners rotate keys and delete bots. Locks, their
waiting and the deadlock detector are the database's, modelled from how the code
uses it.

### MC modules

The modules `MC...` only define values for the constants. `MCTournament` also assumes, and TLC evaluates, that
the schedule is a round robin for two to nine players (section 4 proves it for all).

## 3. Runs

Deadlock checking is off everywhere: a game ends, an event finishes, and bounded
actions run out, so every one of these systems may stop.

| Run | What it asks | Instance |
|---|---|---|
| `GameLoopSafety` | what moves, offers, forfeits and clocks must be, and the refinement of `GameLifecycle` | two remote bots, 3 plies, 3 frames, one tick per side, latency of one tick; the durable write and the publishes may raise |
| `GameLoopLive` | every game closes unless an exception leaves `run_game`; how far a snapshot is from the ply | Black is a house bot that searches 3 moves deep, an increment, 2 frames; the same exceptions |
| `ReconnectTwice` | safety of overlapping handshakes | White opens three connections, Black one, one move |
| `ReconnectLive` | handshakes end, games close unless an exception leaves `run_game` | White reconnects, its key is rotated |
| `MatchAll` | owners, the active index, nobody left unpaired | three bots, two of one owner; one of them cancels, challenges, drops and reconnects |
| `MatchQuiet` | one outcome per seek, pool and index agree, every seek ends | three bots of three owners that only seek, and a house greeter |
| `Tournament` | the schedule, the standings, the page, the end of the event | three bots for three places, two explicit starts, one session end, one restart |
| `Sdk` | chosen moves are played, hooks are told the truth, the client leaves its games | two games, each of which may be lost; three connections, one resend, two plies of its own per game, one move to choose |
| `Spectate` | no gap and no repetition, streams end, look-ups and the lobby find the game | one page with two streams, three moves, both buses, one lost connection |
| `HouseBots` | the lobby refills, clients return, nothing is left behind | three ambient games, five endings; three clients |
| `BotRows` | ratings form a chain, deadlocks need an aborted game | two simultaneous games of the same two bots with the colours reversed, one of a third bot against one of them; one of the first two and the third may be aborted; one rotation per bot |
| `MatchDouble` | a statement of the docs that the code does not meet (section 6) | three bots, two that challenge |

Each module has a type invariant, `TypeOK`; TLC checks the one of `GameLoop`, and
TLAPS proves those of `GameLoop`, `Reconnect`, `BotRows` and `SdkClient` as theorems,
and those of `Spectate` and `HouseBots` as part of the inductive invariant. The
invariants of `Matchmaker` and `Tournament` have typing parts of their own, without
the bounds of the runs; their `TypeOK` was checked while the modules were written. Every
inductive invariant was checked by TLC before it was proved, on the instances of the
runs or on variants of them that meet its theorem's hypotheses.

**Why the bounds are enough.** *Game loop*: with three plies each side is asked,
and White twice, so a frame can be on time, resent for an earlier ply, or sent
ahead; the moves are chosen so that one that is illegal now is legal a ply
later. Three frames allow an offer, a move that declines it and a late
acceptance. One tick and one tick of latency make a clock run out, be overdrawn
and come back by an increment. `GameLoopLive` lets the house bot of a
game against a remote one search, which the seats allow; the wiring (`app.py:230`,
`255`) gives such games a greeter that does not, and ambient games two that do. Its
behaviours include the greeter's, and a search that lasts over a timeout, a
resignation and the end of the game. *Reconnect*: three connections of one bot are the
least with two handshakes that overlap behind a third session's lock (with four
the seat can go to an older session that is not being closed, see section 6); the
frames depend on the ply only by parity, so one or two moves give every case of
"on move". *Matchmaker*: three bots are the least in which two compete for the
third; ratings 1, 2 and 4 with a window growing by one let a pair in at once and
another after a while; the clock runs past the time to live. *Tournament*: a
field of three has a bye in every round, and an early start gives fields of
none, one and two; with two explicit starts and the last entry, three runs of one
event race. The proofs of section 4 hold for any number of bots, those refused by a
full event included. Games end in a draw or an abort;
wins come from forfeits and are recorded alike. *SdkClient*: a second game is
what a stale frame can be taken for, a third connection lets a reconnect be
interrupted by another. *Spectate*: pages do not influence each other, so one
is enough; the second stream is the one an `EventSource` opens by itself; three
moves allow one in the snapshot, one in the queue and one on the wire. *HouseBots*:
three clients let one exit while another is respawned and a third runs;
endings outnumber the games, so a refill can overlap the next end. *BotRows*: a
lost update needs two games of one bot and a deadlock two games of the same two
bots. House bots are in many games at once, and other bots can be (section 6,
`MatchDouble`, and tournament pairings), so any of the three games may end at any time.
*SdkClient* has one move to choose, which keeps the liveness check within minutes: a
move is told from another by its game and ply.

**Fairness.** `GameLoop`: ready coroutines run and time passes
(`WF(RunGame)`, `WF(AskMove \/ ReadMove)`, `WF(Tick)`), which the event loop
and the clock give; no bot ever has to send anything and no search thread has to
finish. `Reconnect`: the same, and a send does not stay suspended for ever (a
stalled socket is closed by the heartbeat or the WebSocket layer's ping), and
the side to move runs out of time. `Matchmaker`: the matcher's task is ticked,
sends return, time passes. `Tournament`: while a run task can go on, one does; its
game ends because `LaunchedGameCloses`. `SdkClient`: client and server run when they
can, a bot that seeks is paired and a game ends by its clocks; connections need
neither stay up nor drop. `Spectate`: the tasks of `run_game`, the reader and the
streams run; nobody has to play, watch or leave, and Redis need not come back.
`HouseBots`: tasks and callbacks run; games need not end, nobody need watch.

Conditions in properties that look like excuses are code facts: `gap` in
`TurnIsKnown` and `OutcomeIsKnown` marks exactly the frames sent between a
handshake's read and its rebinding (`ws/bot_endpoint.py:163-178`); `early` in
`AbandonmentIsNoticed` marks that both bots were gone before the game was in
progress (`:302`); `broken` in `EventEnds` that a task of the event died;
`blind` in `ClientLeaves` that the server told the end of the game while a
handshake of that bot was under way, `"stuck"` there that an exception of the launch
or of `run_game` left the bot bound to a game that no task runs, and `lost` in the
client's other properties the games this happened to; `Died` in `LaunchedGameCloses`
and `"dead"` in `GamesClose` that an exception left `run_game`; `lost` in
`NothingMissed` and `StreamsEnd` marks the streams subscribed when Redis lost an
event. `OnlyAbortsDeadlock` says of which games a circle of waiting finalizers is made.
Section 6 says what happens in those cases.

## 4. Proofs

### The game loop

`GameLoopProofs` proves about `GameLoop`, for **every** value of the constants
(any legal-move function, clocks, latency, frames, length of the game, house
seats, depth of search, failing writes and publishes), from the named assumptions on them
(`MaxPlyAssumption`, `LegalAssumption`, `ClockAssumption`, `HouseAssumption`,
`FrameAssumption`, `FailAssumption`):

- `TypeCorrect`, `AcksAreTrue`, `ForfeitsAreDeserved`, `AgreementsAreMutual`,
  `ShownOffersStand`, `TimeoutsAreDeserved`, `OverrunBound`, `SnapshotBound`: the invariants of the
  runs `GameLoopSafety` and `GameLoopLive`. `SnapshotBound` (`SnapshotIsNearby`) has
  two parts: history and ply lag the moves played by one at most, and while a search
  runs, no move is pushed beside it and what is shown is `SearchDepth` moves off at most;
- `WaitingConsistent`: at a wait, what is shown, ply and history are one position
  (`WaitingSnapshotIsConsistent`), if no seat is a house bot's or none searches. With
  a search it is false (section 6);
- `Refinement`: `GameLoop` implements `GameLifecycle`'s safety.

The properties are not inductive. A forfeit is deserved because an illegal frame
was put on record when it arrived, so the queues must be related to the record
(`QueueInv`) and the move task to the turn (`TaskInv`). An agreement needs a live
offer, so the standing offer must be tied to the last move of the other side
(`OfferInv`). A timeout needs the running wait to end no earlier than the
deadline (`TimerInv`). The refinement needs how much of the ending has happened
at each await (`PhaseInv`). A snapshot needs that a search runs for the task that
waits for it, or its game is over (`SearchInv`). All of them need how board, ply and
history relate (`PositionInv`). `IInv` is their conjunction with the type invariant;
`InductiveInvariant` proves it from `InitIInv` and one lemma per conjunct
(`NextTypeOK`, `NextPosition`, `NextTask`, `NextSearch`, `NextQueue`, `NextOffer`,
`NextTimer`, `NextPhase`, `NextAcked`, `NextVerdictDeserved`), each with one
step per action. `ShownOffersStand` (`SurfacedOfferStands`) needs more, along with
`IInv`: `ShownInv` says that no `your_turn` is ahead of the ply, so a turn is never
opened for a ply its mover was already asked for, and that the offer a move task
captured when it was created stands until the task has sent it.

### The rows of the bots

`BotRowsProofs` proves `RatingsNeverLost` (`RatingsChain`) and `TypeCorrect` for
any bots, games and settings and any rule of rating that stays within the ratings
(`BotRowsAssumption`, `RatingAssumption`). `RatingsChain` is not inductive: a
commit writes what its finalizer computed from rows read earlier. `IInv` adds
that a row that was read is still that row because its lock is held
(`SeenIsHeld`), and that the owners' requests hold the rows they are about to
write (`RequestsHold`). The proof is one lemma per group of actions
(`Untouched`, `GivenUpIInv`, `LockRowIInv`, `CommitIInv`, `RequestIInv`) over two lemmas on
chains (`ChainDef`, `ChainGrows`). Drop the lock, and both `SeenIsHeld` and
`RatingsChain` fail: that is the mutant of the run.

`DeadlocksNeedAnAbort` proves `OnlyAbortsDeadlock`, for any number of bots and games
that end at once and without a hypothesis: in every circle of finalizers that wait for
each other, a rated game waits for the row of an aborted game's White, which has the
greater id. So rated games never deadlock among themselves, and an aborted game does
only if its foreign keys lock its bots against the order of the ids. `LInv`
says which rows a finalizer has passed (`Taken`), that locks are held on such
rows only, for update by rated games and shared by aborted ones
(`LocksAreTaken`), and that a row passed was read or is gone (`TakenIsSeen`). In
a circle, take the game that waits for the greatest row (`GreatestNat`: the bots
are finite), and the one that blocks it. A rated game that holds this row has it as
its lower one and waits for a greater (`BlockerGoesUp`). So the blocker is an aborted
game that shares the row, which is its White's, and it waits for a smaller one, its
Black's (`CircleHasAnAbort`). The property's other half is that an insert which the
database refuses names a bot that was deleted (`FailureIsADeletion`).

### Tournaments

`TournamentProofs` proves every safety property of the run `Tournament`, for any
bots, any number of starts, restarts and failures, and any results a game may have
(`TournamentAssumption`).

`EventsRunOnce` (`OnePairingAtATime`) comes first, for the others rest on it. The property is about the tasks that are at a pairing;
it is not inductive, for a task comes there from its list of open pairings, and
several tasks may have been spawned for one event. `IInv` adds that at most one
task found the event pending (`OneRun`), and that the pairings a task has still
to bring about are those that have no result (`SpecsOpen`, which needs `OneRun`:
nobody else records). There is a lemma per kind of step: `OneMore` (a task is spawned),
`BeginIInv` (over `ScheduleNumbered`), `GoesOn`, `RecordIInv`, `LeaveIInv`;
`StepIInv` puts them together.

`StandingsAreResults` (`StandingsMatchResults`): a result that is recorded is the
first of its pairing, so it adds to what a bot has earned what `Award` gives it
(`RecordEarns`, counting sets of rows); a task ends the event when its list is
empty, and by `SpecsOpen` that list is all that has no result; a page's points were
the score at some time, and points are never taken back (`SInv`).

`EveryoneMeets` (`EveryoneMeetsOnce`) has two parts. `CircleMethod` is about the
schedule alone, for any number of players. It rests on a closed form of the
rotation: in round r, place j is taken by whoever had place `Origin(n, r, j)` in the
beginning (`ArrangementIs`, over the recursive function and the least round that
would differ). The rest is arithmetic: every two places meet in some round, given by
half their sum, or by half of it and n - 1 (`TwoMeet`), and never twice
(`TwoMeetOnce`); each is at one table a round (`OneTable`); and the list numbers the
tables of the rounds one by one (`ScheduleIs`). `WInv` adds that nobody is entered twice
and that the rows of an event that has begun are the schedule of its entrants, who
cannot change any more.

### Lists, and induction over them

`SublistProofs` has what the other proofs need of lists. The provers cannot use the
induction theorems of the library, which take an operator as a parameter; but
`WFMin`, that a well-founded relation has minimal elements, takes none, and gives
`LeastNat`: every set of natural numbers has a least member. With it `KeepPlaces`
shows that what `Keep` leaves is a sublist of any list (an increasing map onto the
places that are kept), and `BestOpponentFinds` and `RisingFills` go through a pool
and a queue of any length.

### Reconnection

`ReconnectProofs` proves every safety property of the run `ReconnectTwice`, for any
number of connections and moves, any order of handshakes and any rotations, from
`ConnAssumption`, `NamesAssumption` and `MaxPlyAssumption`. There are two layers.

`BaseInv` is about who is where. Each coroutine stands at one send lock at most, and
its `pc` tells at which (`LocksGood`); connections are opened in an order
(`OpenedGood`); the registry holds the newest session of a bot unless that one is
shut or somebody waits to close it, and a session that is served and not being
closed is the one in the registry (`RegistryGood`); the state, the ply, the board
and the await of the game agree (`GameGood`); two bots that are gone have left an
abort (`AbandonedGood`). `RegistryInvariant` proves it, one lemma per action, over
lemmas on what joining, leaving and clearing a lock does (`EnqueueGood`,
`DequeueGood`, `WithoutGameGood`). `TypeCorrect`, `ConnectedAreRegistered`,
`AbandonmentNoticed` follow, and the two action properties: `AbortsAreDeserved`, and
`SeatsPassToTheNewest`. The last one needs that a seat is rebound by a handshake that is
the newest, or is being closed by a newer one.

`KnowledgeGood` is about what the bots know. While the game asks for a move, a
connection of the bot on move either has the question, or will get it from the
game's frame or its handshake's, or is in a welcome whose snapshot says so, or
missed it where `gap` says (`TurnGood`); and likewise for the end of the game, which
is kept on record for a bot that nobody could tell (`OutcomeGood`, `MissedGood`,
`RecentGood`). `IInv` is both layers; `TurnsAreKnown` and `OutcomesAreKnown` follow.

### The matcher

`MatchmakerProofs` proves, for any bots, ratings, owners and windows, and any number of
seeks, games and sessions: `BestOpponentFinds`, that the scan of a pool finds an
opponent whenever one is eligible, of those it should look at the nearest in rating,
among these the oldest, among these the earlier in the pool;
`OwnersAreKeptApart`; `IndexIsTrue` (`ActiveGameIsPlayed`); and `NobodyUnpaired`, that
no two tickets that may meet are left behind a pairing pass. `IInv` says that the
queues hold tickets, that every game is between strangers, and that the index names
a game of its bot that was bound and is not over (`GamesGood`). `NobodyUnpaired` is
an action property: it comes from what the code between two awaits leaves of the
pool (`PairingGood`, `ExpiresGood`), for the pass ends only when the scan finds no
pair.

The other properties depend on what bots and users do, so their theorems have
hypotheses, which are the behaviours that break them (section 6, `MatchDouble`).
`Quiet` says that nobody sends `seek_cancel` or challenges a bot directly, `Polite`
that a bot seeks only when it has no ticket and no game, as the SDK's client does.
Sessions are lost and replaced, games end, and seeks expire in all of them, unless
`Drops = {}`. These hypotheses limit what the environment does, and nothing of the
server.

| Theorem | Holds for | Why it needs that |
|---|---|---|
| `PoolIsIndexed` (`PoolMatchesIndex`) | `Quiet` | a cancel or a challenge takes a ticket out of the list that the expiry loop walks, and the ticket behind it is skipped |
| `OneGame` (`OneGameAtATime`), `RunsActive` (`RunningGameIsActive`) | `Quiet`, `Polite` | a challenge binds a bot that is being launched; an impolite bot has two tickets, which are paired one after the other |
| `OneOutcome` (`SeekHasOneOutcome`) | `Quiet`, `Drops = {}` | a launch whose `game_start` raises leaves its tickets in the pool, and they are paired again |

There is an invariant for each. `QuietInv` adds to `IInv` that tickets are numbered
as they are made, that the index of seeks is that of the pool (during the expiry
loop, of what it has kept and what it has still to look at: `QueueGood`), and that
only the last game can be on its way, made of tickets that are still in the pool, and
apart from those that wait to be greeted (`LaunchGood`). `PoliteInv` adds that a bot
has one ticket, none while it is in a game unless that game is stranded, and that a
live game is the one the index leads its players to. `SteadyInv` adds that all
sessions are the first, so no send raises, and that what has had its outcome is not
in the index any more, but for the game that is being launched (`Settled`).
`OneOutcome` does not need polite bots. TLC checked `PoliteInv` with sessions that
drop, and the other two with bots that seek as they like.

### Spectators

`SpectateProofs` proves `PagesMissNothing` (`NothingMissed`) and `LookupsSucceed`
(`LookupsFind`) for any pages, streams, number of moves and lost connections. The
invariant follows a move from `run_game` over the wire and a stream's queue to the
page: in each place the plies rise, they lie above those further on the way, and
together they cover what was published since the subscription (`OrderGood`). What a
page then shows, the moves of its snapshot and those of the queue that follow, is an
initial piece of the game without a gap: that is counting (`RisingFills`,
`ViewAddsUp`). `RunGood` ties what `run_game` has published to its await, `LookupGood`
what a request has found in memory to what it will find on record.

### House bots

`SdkProofs` has the proofs about what is written on the SDK: the supervisors and the
client. `NothingIsLeft` (`StopLeavesNothing`) is for any clients and any number of
games. It needs that the registry holds the games that are counted, that
each process that runs is in the list that `stop()` goes through, also while the
monitor works on a copy of it (`ScanKeeps`), and that a driver that is not set up
does nothing (`HouseInv`).

### The client

`OnlyChosenMoves` (`ChosenMovesArePlayed`) and `HooksAreTrue` (`HooksTellTheTruth`) hold
until a launch or a `run_game` raises (`lost = {}`; what the properties say of the
time after, TLC checks),
for any moves, either side of the board, any length of a game, any number of games,
connections, resends and reconnect attempts, with or without the loop and the runner,
from `MovesAreMoves` alone. What makes them hold is the order of what is under way,
which `SdkInv` states (`Sound` is `SdkInv` for as long as no game is lost):

- A move that is on its way to the server, in the seat's inbox or kept for a resend is
  a decision made for the game that is played now (`DecisionsGood`), so a seat that
  reads it at its ply plays what was chosen. It is invariant because a new game is
  only made of a seek, and a seek of which no game was made is the last frame the
  client sent (`SeekGood`): when the game begins nothing of an earlier one is left
  behind the seek, and a handshake has dropped what an older connection had.
- The client is in the server's last game or in none (`ClientGood`), for what puts it
  in a game, `game_start` or a `welcome` that names one, names the last one.
- Of the frames that it will read in a game, one at most is a `game_over`, that of
  the game, and only when the game is over and its hook has not been called
  (`FramesGood`). The `game_over` of a game it was away from comes before the next
  `game_start`, and is skipped.

`TypeCorrect` is the module's type invariant with its bounds: the client resends and
reconnects no more often than the code lets it, and no ply is beyond the last. It
needs `SdkAssumption` too, and `Fits`: the frames under way carry games and plies of
the instance, and a game that runs has a ply left. It holds with lost games too.

There is a lemma for each action, over lemmas about what reading and sending leave
under way: `ReadKeeps` for the client, `SentKeeps` and `TellsGood` for the server,
`PrefixIs` for a connection that drops.

### Only model-checked

Every safety property of every run that passes is proved, those of the client
until a game is lost. What TLC alone shows:

- All liveness, outside the reach of TLAPS here: `LaunchedGameCloses`, `HandshakesEnd`, `GamesClose`, `EverySeekEnds`, `EventEnds`,
  `ClientLeaves`, `StreamsEnd`, `LobbyRefills`, `DeadClientsReturn`.
- `ChosenMovesArePlayed` and `HooksTellTheTruth` once a game was lost.
- That the code does violate what `MatchDouble` and the configurations of section 6
  state.

## 5. Abstractions, and what is not modelled

- Chess is external: legality by ply, game ends by choice. Which move a house
  bot plays, ratings, evaluation and opening books are left out.
- Frames carry what the properties tell apart. Malformed and refused frames
  change nothing and are left out. `Move.game_id` is parsed and never compared;
  `GameLoop` has one game, so its frames have no game.
- A game in `Matchmaker` and `Tournament` is the fact that it runs and its
  result; `GameLoop` says how it gets one. `Reconnect` keeps of `run_game` what
  it sends.
- One pool, one event: the code keeps pools and events in separate rows or
  lists, and only bots and sessions are common to them.
- A database transaction is one step; a failing one is a step that does nothing
  but raise.
- The server of `SdkClient` is the part of it that one bot meets; `Reconnect`
  has the endpoint with its send locks, `GameLoop` the loop. Draw offers sent
  with a move and heartbeats are left out.
- `Spectate` has one game; channels do not interact. Several workers share only
  Redis, which the model has as a wire.
- A rating is a number and the Elo formula a parameter of `BotRows`; the choice
  of K is modelled.
- `SdkClient` has the games of a bot one after the other, also when one is lost; two
  that overlap (`MatchDouble`) are not in it.
- `Tournament` keeps the bots that entered: an entrant that is deleted takes its entry
  with it and leaves its pairings without a name (`persistence/models.py:174`, `197-202`), which
  is not modelled.
- Not modelled: the search and evaluation of the house bots
  (`minimax.py`, a pure function of the position whose strength nobody relies
  on), creating users and bots, sign-in, the leaderboard, settings, metrics, the
  pages other than the watch page, the developer tools. They are single
  statements, queries or presentation, without steps that could interleave.

## 6. Where the code and its documentation disagree

With a run that shows it:

- `MatchDouble`: two overlapping direct challenges put a bot in two games; the
  second binding overwrites the first (`matcher.py:210-260`, `registry.py:65`),
  while `docs/design/CONTEXT.md:57` says "a Bot is in at most one active Game at
  a time".

With a configuration of its own, kept beside the runs, in which TLC refutes what the
code or its documents say within seconds (`tlc -config <name>.cfg <MC module>`):

- `GameLoopSearch` (`MCGameLoop`): while a house bot thinks, its thread pushes and pops
  on the game's board (`minimax.py:143-146`, `168-180`), and what a spectator or a
  reconnecting bot is shown is several moves away from ply and history
  (`game.py:108-169`), while `seat.py:208-211` says "no other coroutine touches this
  game's board" and `worker.py:127-128` "a reconnect can read a consistent snapshot".
  `WaitingSnapshotIsConsistent` fails in five states; `SnapshotIsNearby` is what holds.
  A search that the deadline has cancelled still goes on while the final position and
  the PGN are made from the board.
- `GameLoopFault` (`MCGameLoop`): a publish that raises, or the durable write, ends
  `run_game` and leaves its game in progress and bound, with no verdict and with nobody
  told (`worker.py:141`, `259`, `298`, `326`, `redis.py:136-139`);
  ADR-0010 (line 42) has a server fault abort the game (`FaultsAbort`).
- `ReconnectLaunch` (`MCReconnect`): a bot that leaves, reconnects or has its key
  rotated during `game_start` makes the launch raise, and the game that was bound is
  never run (`launcher.py:97-99`, against its comment at 72-74); ADR-0010 (line 40) has
  such a game aborted "within the start-grace window", of which there is none
  (`PairedGamesMoveOn`).
- `SdkLost` (`MCSdkClient`): a client that was told of such a game waits for its turn,
  and takes the turns of the bot's next game for its own, because `_recv_turn` does not
  look at `game_id` (`bot.py:218-227`). `on_game_over` is then called for a game whose
  `on_game_start` never was, though each is "called once" (`bot.py:104-107`,
  `HooksNameTheirGame`, 14 states). If no next game comes it waits for ever.
- `BotRowsTwice` (`MCBotRows`): an aborted and a rated game of the same two bots deadlock
  when they end at once. The insert of the aborted one checks its foreign keys
  White first, the rated one locks by id (`finalize.py:80-87`, where "two txns over the
  same pair can't deadlock": `SamePairNeverDeadlocks`, five states). One of the two is then not
  recorded. House bots are in many games at once, and other bots can be, as in
  `MatchDouble` or by a tournament pairing; `OnlyAbortsDeadlock` is what holds.
- `ReconnectSeat` (`MCReconnect`): the seat can go back to an older session. Rebinding is said to
  "point outbound at the reconnected session (newest-wins)" (`seat.py:70`), but
  nothing compares the sessions (`bot_endpoint.py:175-178`). A third connection of
  the bot waits for the lock of the second, whose welcome is suspended; a fourth
  replaces the third and is welcomed and bound; then the second's welcome is
  written, and its handshake binds the seat to the second. The third closes it
  thereafter, so the game goes on sending to a socket that is shut, and the live
  session hears no `your_turn` or `game_over` until it reconnects.
  `SeatGoesToTheNewest` is what does hold. `SeatNeverGoesBack` fails in nine
  states, with five connections, which are too many for the other properties.

Met while modelling, without a configuration of their own. In the game loop,
reconnection and matching:

- `your_turn` sent during the welcome of a reconnecting bot reaches nobody and is
  not repeated (`bot_endpoint.py:163-178`; `docs/design/PROTOCOL.md:194` says it
  is (re)sent).
- The expiry loop awaits while iterating the pool; a removal meanwhile shifts it,
  and a skipped ticket is forgotten (`matcher.py:166-175`).
- Between the push of a move and the update of ply and history a snapshot mixes
  two positions (`worker.py:243-271`); `SnapshotIsNearby` bounds by how much. A
  `your_turn` repeated then carries the new board under the old ply.
- A draw offer made while the recipient thinks is discarded by its move and
  never shown (`worker.py:248`; `docs/shaping/V5-plan.md:104` says otherwise). A
  counter-offer overwrites an offer.
- A bot that reconnects after its seat was told and before the game is unbound
  is never sent `game_over` (`bot_endpoint.py:182`).
- A handshake that raises after registering leaves its session registered with
  nobody serving it (`bot_endpoint.py:157-189`).
- Two bots that both leave before the game is in progress are not noticed: the
  game runs to the flag (`bot_endpoint.py:302`).
- A seek cancelled while its launch is awaited is both cancelled and paired
  (`matcher.py:106`), and the greeter's copy of the pool may start a game for a
  ticket that was cancelled (`matcher.py:203`).
- A rematch is allowed at once when there is nobody else, without the wait that
  ADR-0016 describes (`pool.py:65`).
- Controls that keep arriving re-enter the wait, and each can defer the flag by
  the wake-up latency: `OverrunIsBounded` is the bound.
- A tournament pairing is launched without a look at the active-game index: two
  events at once, or a ladder game, put a bot in two games (`manager.py:248`),
  while `manager.py:13-14` says "no bot is ever in two tournament games at
  once". That holds within an event (`OnePairingAtATime`).
- After a restart or an exception an event stays `running` for ever, and one
  that is full and pending starts only by the organiser (`manager.py:143-162`).

In the client:

- The resend timer of a move goes on after its `move_ack` while the opponent
  thinks; after the resends the client gives up a game that is in order
  (`bot.py:247-270`; `docs/design/PROTOCOL.md:133` ties resends to a missing ack).
- Only a connection that closes under `_send_move` is resumed; one that closes
  while the client waits for its first turn, or is refused, ends the run.
- A game that ended while the client was away is left without `on_game_over`,
  which `bot.py:106` announces for every game. After a reconnect `choose_move`
  may be called again for a ply it has answered.

For spectators:

- A game that ends while a page opens its stream is announced after the snapshot
  at once; moves still queued then are not shown (`sse.py:55-69`).
- A page ignores a move that does not follow the last one it has, so after a lost
  Redis event it shows nothing more until it is reloaded; `redis.py:42-44` says
  the tail "self-heals on the next event".
- A stream left before its tail stays subscribed for ever (`sse.py:44-69`), which
  `subscriber_count` counts. A finalizer or a publish that raises leaves the
  streams of the game open without an end.
- The lobby reads the active games first and the finished ones after an await: a
  game that ends between is listed twice, and one that is over and not yet
  recorded not at all (`games.py:99-120`; `docs/shaping/V6-plan.md:101` says the
  split "avoids double-listing a just-finished game").

For house bots and rows:

- Refills that overlap each count the games before they await: more than `n` can
  run, though `ambient.py:5` says "a fixed number". One rating read that raises
  ends the poll task.
- A house client whose key cannot be made is given up. A process that cannot be
  started ends the monitor, and `stop()` then raises before it terminates the
  processes, or stops the services that stop after it.
- A bot that is deleted during its game breaks the foreign key of the game's row:
  the game is not recorded and `run_game` dies (`finalize.py:107-125`,
  `models.py:106-114`).
- Two requests that create bots at once can exceed the cap (`bots/service.py:33`).

## 7. What is left

The modules are there for every part whose steps interleave. What could be
added, in the order of use:

1. Proofs: the type invariants of `Matchmaker` and `Tournament` with the bounds that
   their runs have.
2. Compositions: `Tournament` with the matcher's active index; several events at
   once; several pools in one tick.
3. The subscriptions that are left behind, and the number of spectators shown.
