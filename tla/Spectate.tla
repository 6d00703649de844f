------------------------------ MODULE Spectate ------------------------------
(***************************************************************************)
(* One game and those who watch it: the events that run_game publishes     *)
(* (game/worker.py), the bus that fans them out, in process or through     *)
(* Redis (pubsub/), the SSE streams with their catch-up snapshot           *)
(* (spectate/sse.py), the page that shows them (frontend/.../watch), and   *)
(* the requests for a game, and for the lobby, while it ends and is        *)
(* evicted (spectate/games.py).  A move is known by its ply.               *)
(***************************************************************************)
EXTENDS Integers, Sequences, Sublists

CONSTANTS Watchers,     \* pages that watch the game
          MaxPly,       \* bound: moves of the game
          MaxStreams,   \* bound: streams that each page opens
          MaxLosses     \* bound: times the Redis reader loses its connection

ASSUME SpectateAssumption == MaxPly \in Nat /\ MaxStreams \in Nat /\ MaxLosses \in Nat

VARIABLES
    bus,        \* "inproc" or "redis", chosen when the app is created
    ambient,    \* the game is evicted from the registry when it is done
    \* run_game
    run,        \* "paired", "playing", "sending", "over", "recorded", "told", "dead"
    n,          \* Len(live.moves)
    terminal,   \* game.state is finished or aborted
    recorded,   \* the durable record is written
    inRegistry,
    pending,    \* the event whose publish run_game awaits, if any
    \* the bus
    wire,       \* events between Redis and the reader
    reader,     \* the reader's connection: "up" or "down"
    losses,     \* how often it was lost
    subs,       \* the registered subscriptions: page and number of its stream
    queue,      \* the events queued in the subscription of the page's last stream
    \* the streams and the pages
    stream,     \* "away", "opening", "caught", "tail", "ended", "refused"
    streams,    \* how many the page has opened
    view,       \* the plies the page shows
    told,       \* the page shows the result
    \* a request for the game, GET /api/games/{id}, or for the lobby, GET /api/games
    lookup,     \* "idle", what it saw in memory, or what it answered
    \* history
    lost        \* pages whose stream an event will never reach

game  == <<run, n, terminal, recorded, inRegistry, pending>>
redis == <<wire, reader, losses>>
pages == <<stream, streams, view, told>>
vars  == <<bus, ambient, game, redis, subs, queue, pages, lookup, lost>>

Event(kind, p) == [kind |-> kind, ply |-> p]
Move(p) == Event("move", p)
Open    == {"opening", "caught", "tail"}
Sub(w)  == <<w, streams[w]>>
Listening == {w \in Watchers : stream[w] \in Open /\ Sub(w) \in subs}

Init ==
    /\ bus \in {"inproc", "redis"} /\ ambient \in BOOLEAN
    /\ run = "paired" /\ n = 0 /\ terminal = FALSE /\ recorded = FALSE
    /\ inRegistry = TRUE /\ pending = <<>>
    /\ wire = <<>> /\ reader = "up" /\ losses = 0
    /\ subs = {} /\ queue = [w \in Watchers |-> <<>>]
    /\ stream = [w \in Watchers |-> "away"] /\ streams = [w \in Watchers |-> 0]
    /\ view = [w \in Watchers |-> <<>>] /\ told = [w \in Watchers |-> FALSE]
    /\ lookup = "idle" /\ lost = {}

-----------------------------------------------------------------------------
(* run_game and the bus. *)

\* Every subscription of the channel gets the event.
Deliver(e) == queue' = [w \in Watchers |-> IF w \in Listening THEN Append(queue[w], e) ELSE queue[w]]

\* publish: the bus in the process delivers at once; Redis is awaited.
Publish(e, next) ==
    \/ bus = "inproc" /\ Deliver(e) /\ run' = next /\ UNCHANGED pending
    \/ bus = "redis" /\ pending' = <<e>> /\ run' = "sending" /\ UNCHANGED queue

Begin ==
    /\ run = "paired" /\ Publish(Event("game_start", 0), "playing")
    /\ UNCHANGED <<bus, ambient, n, terminal, recorded, inRegistry, redis, subs, pages, lookup, lost>>

\* The move is in live.moves before it is published.
PlayMove ==
    /\ run = "playing" /\ n < MaxPly
    /\ n' = n + 1
    /\ Publish(Move(n), "playing")
    /\ UNCHANGED <<bus, ambient, terminal, recorded, inRegistry, redis, subs, pages, lookup, lost>>

\* Redis has the event and passes it to a connected reader, at most once.
Published ==
    /\ run = "sending" /\ pending' = <<>>
    /\ run' = IF pending[1].kind = "game_over" THEN "told" ELSE "playing"
    /\ IF reader = "up" THEN wire' = wire \o pending /\ UNCHANGED lost
                        ELSE lost' = lost \cup Listening /\ UNCHANGED wire
    /\ UNCHANGED <<bus, ambient, n, terminal, recorded, inRegistry, reader, losses, subs, queue,
                   pages, lookup>>

\* The publish raises, and nothing in run_game catches it.
PublishRaises ==
    /\ run = "sending" /\ run' = "dead" /\ pending' = <<>>
    /\ lost' = lost \cup Listening
    /\ UNCHANGED <<bus, ambient, n, terminal, recorded, inRegistry, redis, subs, queue, pages, lookup>>

GameOver ==
    /\ run = "playing" /\ run' = "over" /\ terminal' = TRUE
    /\ UNCHANGED <<bus, ambient, n, recorded, inRegistry, pending, redis, subs, queue, pages, lookup, lost>>

\* The finalizer commits the record, or raises.
Finalized ==
    /\ run = "over"
    /\ \/ run' = "recorded" /\ recorded' = TRUE
       \/ run' = "dead" /\ UNCHANGED recorded
    /\ UNCHANGED <<bus, ambient, n, terminal, inRegistry, pending, redis, subs, queue, pages, lookup, lost>>

Announce ==
    /\ run = "recorded" /\ Publish(Event("game_over", 0), "told")
    /\ UNCHANGED <<bus, ambient, n, terminal, recorded, inRegistry, redis, subs, pages, lookup, lost>>

\* The task of an ambient game is done: its supervisor evicts the game.
Evict ==
    /\ ambient /\ run \in {"told", "dead"} /\ inRegistry /\ inRegistry' = FALSE
    /\ UNCHANGED <<bus, ambient, run, n, terminal, recorded, pending, redis, subs, queue, pages, lookup, lost>>

\* The reader task fans the next event out.
Dispatch ==
    /\ wire # <<>> /\ Deliver(Head(wire)) /\ wire' = Tail(wire)
    /\ UNCHANGED <<bus, ambient, game, reader, losses, subs, pages, lookup, lost>>

ConnectionLost ==
    /\ bus = "redis" /\ reader = "up" /\ losses < MaxLosses
    /\ reader' = "down" /\ losses' = losses + 1 /\ wire' = <<>>
    /\ lost' = IF wire = <<>> THEN lost ELSE lost \cup Listening
    /\ UNCHANGED <<bus, ambient, game, subs, queue, pages, lookup>>

Reconnect ==
    /\ reader = "down" /\ reader' = "up"
    /\ UNCHANGED <<bus, ambient, game, wire, losses, subs, queue, pages, lookup, lost>>

-----------------------------------------------------------------------------
(* Streams and pages. *)

\* The page opens a stream, or its EventSource opens the next: the subscription
\* exists before the response does; a game not in memory is a 404.
Watch(w) ==
    /\ stream[w] = "away" /\ streams[w] < MaxStreams
    /\ IF inRegistry
       THEN /\ streams' = [streams EXCEPT ![w] = @ + 1]
            /\ subs' = subs \cup {<<w, streams'[w]>>}
            /\ stream' = [stream EXCEPT ![w] = "opening"]
            /\ queue' = [queue EXCEPT ![w] = <<>>] /\ lost' = lost \ {w}
       ELSE stream' = [stream EXCEPT ![w] = "refused"] /\ UNCHANGED <<streams, subs, queue, lost>>
    /\ UNCHANGED <<bus, ambient, game, redis, view, told, lookup>>

\* spectator_snapshot: the moves so far, none before run_game has begun.
Snapshot == [i \in 1..n |-> i - 1]

\* The snapshot replaces what the page shows.
CatchUp(w) ==
    /\ stream[w] = "opening" /\ stream' = [stream EXCEPT ![w] = "caught"]
    /\ view' = [view EXCEPT ![w] = Snapshot]
    /\ UNCHANGED <<bus, ambient, game, redis, subs, queue, streams, told, lookup, lost>>

\* The subscription is closed, and its queue is gone.
Closed(w) == subs' = subs \ {Sub(w)} /\ queue' = [queue EXCEPT ![w] = <<>>]

\* Once the snapshot is sent: a terminal game gets its game_over and the stream
\* ends, whatever its queue holds; any other is followed.
\* Mutant: every game is followed.
AfterSnapshotFollows(w) ==
    /\ stream[w] = "caught" /\ stream' = [stream EXCEPT ![w] = "tail"]
    /\ UNCHANGED <<bus, ambient, game, redis, subs, queue, streams, view, told, lookup, lost>>
AfterSnapshot(w) ==
    /\ stream[w] = "caught"
    /\ IF terminal
       THEN /\ stream' = [stream EXCEPT ![w] = "ended"]
            /\ told' = [told EXCEPT ![w] = TRUE] /\ Closed(w)
       ELSE stream' = [stream EXCEPT ![w] = "tail"] /\ UNCHANGED <<told, subs, queue>>
    /\ UNCHANGED <<bus, ambient, game, redis, streams, view, lookup, lost>>

\* The next event goes to the page, which adds a move only where it is the next.
\* Mutant: it adds every move.
FollowAll(w) ==
    /\ stream[w] = "tail" /\ queue[w] # <<>>
    /\ LET e == Head(queue[w])
           Read == queue' = [queue EXCEPT ![w] = Tail(@)] /\ UNCHANGED <<stream, told, subs>>
       IN
       \/ /\ e.kind = "game_over" /\ stream' = [stream EXCEPT ![w] = "ended"]
          /\ told' = [told EXCEPT ![w] = TRUE] /\ Closed(w)
          /\ UNCHANGED view
       \/ /\ e.kind = "move" /\ view' = [view EXCEPT ![w] = Append(@, e.ply)] /\ Read
       \/ e.kind = "game_start" /\ UNCHANGED view /\ Read
    /\ UNCHANGED <<bus, ambient, game, redis, streams, lookup, lost>>
Follow(w) ==
    /\ stream[w] = "tail" /\ queue[w] # <<>>
    /\ LET e == Head(queue[w])
           Read == queue' = [queue EXCEPT ![w] = Tail(@)] /\ UNCHANGED <<stream, told, subs>>
       IN
       \/ /\ e.kind = "game_over" /\ stream' = [stream EXCEPT ![w] = "ended"]
          /\ told' = [told EXCEPT ![w] = TRUE] /\ Closed(w)
          /\ UNCHANGED view
       \/ /\ e.kind = "move" /\ e.ply = Len(view[w])
          /\ view' = [view EXCEPT ![w] = Append(@, e.ply)] /\ Read
       \/ /\ e.kind = "game_start" \/ (e.kind = "move" /\ e.ply # Len(view[w]))
          /\ UNCHANGED view /\ Read
    /\ UNCHANGED <<bus, ambient, game, redis, streams, lookup, lost>>

\* The page's connection goes.  Only the tail closes its subscription: a stream
\* that was left before stays subscribed, and nobody reads its queue.
Leave(w) ==
    /\ stream[w] \in Open /\ stream' = [stream EXCEPT ![w] = "away"]
    /\ queue' = [queue EXCEPT ![w] = <<>>] /\ lost' = lost \ {w}
    /\ subs' = IF stream[w] = "tail" THEN subs \ {Sub(w)} ELSE subs
    /\ UNCHANGED <<bus, ambient, game, redis, streams, view, told, lookup>>

-----------------------------------------------------------------------------
\* The registry lists the games that are paired or in progress.
Active == inRegistry /\ ~terminal

(* GET /api/games/{id}: a live game from memory; otherwise the durable record
   is awaited and preferred to what is still in memory. *)
LookUp ==
    /\ lookup = "idle"
    /\ lookup' = IF Active THEN "found" ELSE IF inRegistry THEN "held" ELSE "absent"
    /\ UNCHANGED <<bus, ambient, game, redis, subs, queue, pages, lost>>

\* Mutant: what is still in memory is not fallen back on.
RecordReadOnly ==
    /\ lookup \in {"held", "absent"}
    /\ lookup' = IF recorded THEN "found" ELSE "missing"
    /\ UNCHANGED <<bus, ambient, game, redis, subs, queue, pages, lost>>
RecordRead ==
    /\ lookup \in {"held", "absent"}
    /\ lookup' = IF recorded \/ lookup = "held" THEN "found" ELSE "missing"
    /\ UNCHANGED <<bus, ambient, game, redis, subs, queue, pages, lost>>

\* GET /api/games: the active games from memory, and then the finished ones, which
\* are awaited.  A game that is over and not yet recorded is in neither list.
ListActive ==
    /\ lookup = "idle"
    /\ lookup' = IF Active THEN "active" ELSE IF recorded THEN "finished" ELSE "between"
    /\ UNCHANGED <<bus, ambient, game, redis, subs, queue, pages, lost>>

ListFinished ==
    /\ lookup \in {"active", "finished", "between"}
    /\ lookup' = CASE lookup = "active" -> IF recorded THEN "twice" ELSE "found"
                   [] lookup = "finished" -> IF recorded THEN "found" ELSE "missing"
                   [] OTHER -> IF recorded THEN "found" ELSE "unlisted"
    /\ UNCHANGED <<bus, ambient, game, redis, subs, queue, pages, lost>>

-----------------------------------------------------------------------------
Worker == Begin \/ PlayMove \/ Published \/ GameOver \/ Finalized \/ Announce \/ Evict
Stream(w) == CatchUp(w) \/ AfterSnapshot(w) \/ Follow(w)
Next == \/ Worker \/ PublishRaises
        \/ Dispatch \/ ConnectionLost \/ Reconnect
        \/ \E w \in Watchers : Watch(w) \/ Stream(w) \/ Leave(w)
        \/ LookUp \/ RecordRead \/ ListActive \/ ListFinished

\* The tasks run, and a game ends because its clocks run out (GameLoop).
Spec == /\ Init /\ [][Next]_vars
        /\ WF_vars(Begin) /\ WF_vars(Published) /\ WF_vars(GameOver) /\ WF_vars(Finalized)
        /\ WF_vars(Announce) /\ WF_vars(Dispatch)
        /\ \A w \in Watchers : WF_vars(Stream(w))

-----------------------------------------------------------------------------
(* Properties. *)

Events == [kind : {"game_start", "move", "game_over"}, ply : 0..MaxPly]

TypeOK ==
    /\ bus \in {"inproc", "redis"} /\ ambient \in BOOLEAN
    /\ run \in {"paired", "playing", "sending", "over", "recorded", "told", "dead"}
    /\ n \in 0..MaxPly /\ {terminal, recorded, inRegistry} \subseteq BOOLEAN
    /\ pending \in Seq(Events) /\ wire \in Seq(Events) /\ reader \in {"up", "down"}
    /\ losses \in 0..MaxLosses /\ subs \subseteq Watchers \X (1..MaxStreams)
    /\ queue \in [Watchers -> Seq(Events)] /\ streams \in [Watchers -> 0..MaxStreams]
    /\ stream \in [Watchers -> Open \cup {"away", "ended", "refused"}]
    /\ lookup \in {"idle", "held", "absent", "active", "finished", "between",
                   "found", "twice", "missing", "unlisted"}
    /\ view \in [Watchers -> Seq(Nat)] /\ told \in [Watchers -> BOOLEAN]
    /\ lost \subseteq Watchers

\* Between its snapshot and the end of its stream a page misses no move and takes
\* none twice (sse.py:42-52, +page.svelte:80-88): what it shows, and then the
\* moves still queued, on the wire or being published, are the game, unless Redis
\* lost an event that the stream was subscribed to.
NothingMissed ==
    \A w \in Watchers : stream[w] \in {"caught", "tail"} /\ w \notin lost =>
        LET sent   == queue[w] \o wire \o pending
            coming == Keep(sent, {i \in DOMAIN sent : sent[i].kind = "move"
                                                      /\ sent[i].ply >= Len(view[w])})
        IN view[w] \o [i \in DOMAIN coming |-> coming[i].ply] = [i \in 1..n |-> i - 1]

\* Every stream ends with the result or because the page went, also when it is
\* opened while the game is ending (sse.py:55-75), unless run_game died before it
\* announced the result or Redis lost an event that the stream was subscribed to.
StreamsEnd ==
    \A w \in Watchers : stream[w] \in Open ~> (stream[w] \notin Open \/ w \in lost \/ run = "dead")

\* A game is found from the moment it is created (games.py:123-140): no look-up
\* falls between the memory a game is evicted from and the record it has by then,
\* unless the record was never written.  A listing of the lobby (games.py:99-120)
\* loses no game between its two lists either; it may show one "twice", and one
\* that was over and not recorded when it began may be "unlisted".
LookupsFind == lookup = "missing" => run = "dead"
=============================================================================
