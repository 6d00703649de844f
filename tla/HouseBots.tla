----------------------------- MODULE HouseBots ------------------------------
(***************************************************************************)
(* What keeps the lobby alive with no user at all: the ambient supervisor  *)
(* (game/ambient.py), which launches house games while somebody is         *)
(* watching (spectate/presence.py), or, where the application is set up    *)
(* so, the supervisor of the house bots that run as SDK clients in         *)
(* processes of their own (game/house_clients.py); and the life of the     *)
(* application that starts and stops the one it has (app.py).  Games are   *)
(* counted, processes are named.                                           *)
(***************************************************************************)
EXTENDS Integers, Sequences, Sublists

CONSTANTS N,            \* ambient games to keep live
          MaxEnds,      \* bound: games that end
          Clients       \* the specs of the house clients, in their order

ASSUME HouseBotsAssumption ==
    N \in Nat \ {0} /\ MaxEnds \in Nat /\ Clients \in Seq(STRING)

VARIABLES
    driver,     \* "ambient" or "clients": create_app sets up exactly one
    app,        \* "booting", "starting", "up", "stopping", "closing", "down", or "failed"
    services,   \* of the lifespan: the event bus, the matchmaker's loop
    \* the ambient supervisor
    fresh,      \* Presence.is_fresh()
    live,       \* len(_live): games whose task is not known to be done
    ended,      \* how many of these tasks are done, their callback still to run
    ends,       \* games that ended so far
    kept,       \* ambient games in the registry
    queued,     \* refill tasks that have not begun
    asking,     \* refill tasks that await the ratings of a new game's bots
    poll,       \* the poll task: "none", "sleep", "asking", "dead"
    \* the supervisor of the clients
    next,       \* the spec that start() comes to next
    procs,      \* _procs, in its order
    alive,      \* the processes that run
    monitor,    \* the monitor task: "none", "sleep", "backoff", "key", "dead"
    todo,       \* what its pass has still to look at
    current,    \* the client it respawns
    unkeyed     \* clients that were given up because no key could be made

ambient   == <<fresh, live, ended, ends, kept, queued, asking, poll>>
clients   == <<next, procs, alive, monitor, todo, current, unkeyed>>
houseVars == <<driver, app, services, ambient, clients>>

Ids == {Clients[i] : i \in DOMAIN Clients}
Nobody == "nobody"

HouseInit ==
    /\ driver \in {"ambient", "clients"} /\ app = "booting" /\ services = {}
    /\ fresh = FALSE /\ live = 0 /\ ended = 0 /\ ends = 0 /\ kept = 0
    /\ queued = 0 /\ asking = 0 /\ poll = "none"
    /\ next = 1 /\ procs = <<>> /\ alive = {} /\ monitor = "none"
    /\ todo = <<>> /\ current = Nobody /\ unkeyed = {}

-----------------------------------------------------------------------------
(* The lifespan: what starts before the house bots and stops after them. *)

\* The bus may not reach Redis, and then nothing is started.
StartServices ==
    /\ app = "booting"
    /\ \/ app' = "starting" /\ services' = {"bus", "matcher"}
       \/ app' = "failed" /\ UNCHANGED services
    /\ UNCHANGED <<driver, ambient, clients>>

StopServices ==
    /\ app = "closing" /\ app' = "down" /\ services' = {}
    /\ UNCHANGED <<driver, ambient, clients>>

-----------------------------------------------------------------------------
(* The ambient supervisor. *)

\* touch: somebody reads the lobby or opens a stream.  Time makes it stale.
Touch == /\ app = "up" /\ ~fresh /\ fresh' = TRUE
         /\ UNCHANGED <<driver, services, app, live, ended, ends, kept, queued, asking, poll, clients>>
GoesStale == /\ fresh /\ fresh' = FALSE
             /\ UNCHANGED <<driver, services, app, live, ended, ends, kept, queued, asking, poll, clients>>

\* start: nobody has been seen before the application serves, so its own refill
\* launches nothing.
StartAmbient ==
    /\ driver = "ambient" /\ app = "starting"
    /\ app' = "up" /\ poll' = "sleep"
    /\ UNCHANGED <<driver, services, fresh, live, ended, ends, kept, queued, asking, clients>>

\* The loop of _refill goes on; whoever awaits the ratings is not counted.
Wanted(games) == app = "up" /\ fresh /\ games < N

\* The end of _spawn_one: the ratings came, the game is made and launched.
Spawned == live' = live + 1 /\ kept' = kept + 1

\* Mutant: only an empty lobby is refilled.
PollWakesEmpty ==
    /\ poll = "sleep" /\ Wanted(live) /\ live = 0 /\ poll' = "asking"
    /\ UNCHANGED <<driver, services, app, fresh, live, ended, ends, kept, queued, asking, clients>>
PollWakes ==
    /\ poll = "sleep" /\ Wanted(live) /\ poll' = "asking"
    /\ UNCHANGED <<driver, services, app, fresh, live, ended, ends, kept, queued, asking, clients>>

\* The poll task launches a game, or dies of what the rating provider raised.
PollSpawns ==
    /\ poll = "asking"
    /\ \/ Spawned /\ poll' = IF Wanted(live + 1) THEN "asking" ELSE "sleep"
       \/ poll' = "dead" /\ UNCHANGED <<live, kept>>
    /\ UNCHANGED <<driver, services, app, fresh, ended, ends, queued, asking, clients>>

AmbientGameEnds ==
    /\ ended < live /\ ends < MaxEnds /\ app = "up"
    /\ ended' = ended + 1 /\ ends' = ends + 1
    /\ UNCHANGED <<driver, services, app, fresh, live, kept, queued, asking, poll, clients>>

\* _on_finished: the game is evicted, and a task is made for its replacement.
OnFinished ==
    /\ ended > 0 /\ ended' = ended - 1 /\ live' = live - 1 /\ kept' = kept - 1
    /\ queued' = IF app = "up" THEN queued + 1 ELSE queued
    /\ UNCHANGED <<driver, services, app, fresh, ends, asking, poll, clients>>

RefillBegins ==
    /\ queued > 0 /\ queued' = queued - 1
    /\ asking' = IF Wanted(live) THEN asking + 1 ELSE asking
    /\ UNCHANGED <<driver, services, app, fresh, live, ended, ends, kept, poll, clients>>

\* A refill task launches a game, or ends with what the rating provider raised.
RefillSpawns ==
    /\ asking > 0
    /\ \/ Spawned /\ asking' = IF Wanted(live + 1) THEN asking ELSE asking - 1
       \/ asking' = asking - 1 /\ UNCHANGED <<live, kept>>
    /\ UNCHANGED <<driver, services, app, fresh, ended, ends, queued, poll, clients>>

\* stop: every task is cancelled and awaited, while callbacks may run; what they
\* have not evicted is evicted at the end.
\* Mutant: the refill tasks are not cancelled.
StopAmbientLeaky ==
    /\ driver = "ambient" /\ app = "up" /\ app' = "stopping"
    /\ poll' = "none" /\ ended' = live
    /\ UNCHANGED <<driver, services, fresh, live, ends, kept, queued, asking, clients>>
StopAmbient ==
    /\ driver = "ambient" /\ app = "up" /\ app' = "stopping"
    /\ poll' = "none" /\ queued' = 0 /\ asking' = 0 /\ ended' = live
    /\ UNCHANGED <<driver, services, fresh, live, ends, kept, clients>>

AmbientStopped ==
    /\ driver = "ambient" /\ app = "stopping" /\ app' = "closing"
    /\ kept' = kept - live /\ live' = 0 /\ ended' = 0
    /\ UNCHANGED <<driver, services, fresh, ends, queued, asking, poll, clients>>

-----------------------------------------------------------------------------
(* The supervisor of the clients. *)

\* _spawn, once the key provider answers: it raised and the client is given up,
\* or the process is started, or starting it raises.
Unkeyed(c) == unkeyed' = unkeyed \cup {c} /\ UNCHANGED <<procs, alive>>
Started(c) == procs' = Append(procs, c) /\ alive' = alive \cup {c} /\ UNCHANGED unkeyed

\* start: one client after the other, then the monitor; a process that cannot be
\* started ends the start of the application, with those before it running.
StartClient ==
    /\ driver = "clients" /\ app = "starting" /\ next <= Len(Clients)
    /\ \/ Started(Clients[next]) /\ next' = next + 1 /\ UNCHANGED app
       \/ Unkeyed(Clients[next]) /\ next' = next + 1 /\ UNCHANGED app
       \/ app' = "failed" /\ UNCHANGED <<next, procs, alive, unkeyed>>
    /\ UNCHANGED <<driver, services, ambient, monitor, todo, current>>

ClientsStarted ==
    /\ driver = "clients" /\ app = "starting" /\ next > Len(Clients)
    /\ app' = "up" /\ monitor' = "sleep"
    /\ UNCHANGED <<driver, services, ambient, next, procs, alive, todo, current, unkeyed>>

ProcessExits == \E c \in alive :
    /\ alive' = alive \ {c}
    /\ UNCHANGED <<driver, services, app, ambient, next, procs, monitor, todo, current, unkeyed>>

\* A pass goes on to the next process that has exited, which leaves _procs.
Scan(rest, ps, running) ==
    LET dead == {i \in DOMAIN rest : rest[i] \notin running}
        i    == CHOOSE j \in dead : \A k \in dead : j <= k
    IN IF dead = {}
       THEN monitor' = "sleep" /\ todo' = <<>> /\ current' = Nobody /\ procs' = ps
       ELSE /\ monitor' = "backoff" /\ current' = rest[i]
            /\ todo' = SubSeq(rest, i + 1, Len(rest))
            /\ procs' = Keep(ps, {j \in DOMAIN ps : ps[j] # rest[i]})

\* Mutant: the monitor returns at a process that still runs.
MonitorPassReturns ==
    /\ monitor = "sleep" /\ \E i \in DOMAIN procs : procs[i] \notin alive
    /\ IF Head(procs) \in alive THEN monitor' = "none" /\ UNCHANGED <<procs, todo, current>>
                                ELSE Scan(procs, procs, alive)
    /\ UNCHANGED <<driver, services, app, ambient, next, alive, unkeyed>>
MonitorPass ==
    /\ monitor = "sleep" /\ \E i \in DOMAIN procs : procs[i] \notin alive
    /\ Scan(procs, procs, alive)
    /\ UNCHANGED <<driver, services, app, ambient, next, alive, unkeyed>>

BackoffOver ==
    /\ monitor = "backoff" /\ monitor' = "key"
    /\ UNCHANGED <<driver, services, app, ambient, next, procs, alive, todo, current, unkeyed>>

\* The pop is undone by _spawn only if the key is made; a process that cannot be
\* started ends the monitor.
Respawn ==
    /\ monitor = "key"
    /\ \/ /\ alive' = alive \cup {current} /\ UNCHANGED unkeyed
          /\ Scan(todo, Append(procs, current), alive')
       \/ /\ unkeyed' = unkeyed \cup {current} /\ UNCHANGED alive
          /\ Scan(todo, procs, alive)
       \/ monitor' = "dead" /\ UNCHANGED <<procs, alive, unkeyed, todo, current>>
    /\ UNCHANGED <<driver, services, app, ambient, next>>

\* stop: the monitor is cancelled and every listed process terminated; a monitor
\* that died raises here again, before any process is terminated.
StopClients ==
    /\ driver = "clients" /\ app = "up"
    /\ IF monitor = "dead"
       THEN app' = "failed" /\ UNCHANGED <<procs, alive, monitor, todo, current>>
       ELSE /\ app' = "closing" /\ monitor' = "none" /\ todo' = <<>> /\ current' = Nobody
            /\ alive' = alive \ {procs[i] : i \in DOMAIN procs} /\ procs' = <<>>
    /\ UNCHANGED <<driver, services, ambient, next, unkeyed>>

-----------------------------------------------------------------------------
HouseNext ==
    \/ StartServices \/ StopServices
    \/ Touch \/ GoesStale \/ StartAmbient \/ PollWakes \/ PollSpawns \/ AmbientGameEnds
    \/ OnFinished \/ RefillBegins \/ RefillSpawns \/ StopAmbient \/ AmbientStopped
    \/ StartClient \/ ClientsStarted \/ ProcessExits \/ MonitorPass \/ BackoffOver
    \/ Respawn \/ StopClients

\* Tasks and callbacks run; nothing makes games end, spectators come, processes
\* exit, or the application stop.
HouseSpec ==
    /\ HouseInit /\ [][HouseNext]_houseVars
    /\ WF_houseVars(StartAmbient) /\ WF_houseVars(PollWakes) /\ WF_houseVars(PollSpawns)
    /\ WF_houseVars(OnFinished) /\ WF_houseVars(RefillBegins) /\ WF_houseVars(RefillSpawns)
    /\ WF_houseVars(StartClient) /\ WF_houseVars(ClientsStarted)
    /\ WF_houseVars(MonitorPass) /\ WF_houseVars(BackoffOver) /\ WF_houseVars(Respawn)

-----------------------------------------------------------------------------
(* Properties. *)

HouseTypeOK ==
    /\ driver \in {"ambient", "clients"}
    /\ app \in {"booting", "starting", "up", "stopping", "closing", "down", "failed"}
    /\ services \subseteq {"bus", "matcher"}
    /\ fresh \in BOOLEAN /\ {live, ended, ends, kept, queued, asking} \subseteq Nat
    /\ ended <= live /\ poll \in {"none", "sleep", "asking", "dead"}
    /\ next \in 1..Len(Clients) + 1 /\ procs \in Seq(Ids) /\ todo \in Seq(Ids)
    /\ alive \subseteq Ids /\ unkeyed \subseteq Ids /\ current \in Ids \cup {Nobody}
    /\ monitor \in {"none", "sleep", "backoff", "key", "dead"}

\* Once somebody goes on watching and no more games end, the lobby fills up to N
\* games (ambient.py:4-18, 138-144), whatever overlapped: refills, polls, games
\* that ended while a rating was read.  The poll task must be alive: the first
\* rating read that raises in it ends it for good (ambient.py:132-140).
LobbyRefills ==
    driver = "ambient" /\ <>[]fresh => <>[](live >= N \/ poll = "dead" \/ app # "up")

\* A client whose process exits is started again (house_clients.py:219-234), also
\* when it exits while the monitor is busy with another, unless no key could be
\* made for it or a process could not be started: then it is given up.
DeadClientsReturn ==
    \A c \in Ids : (driver = "clients" /\ app = "up" /\ c \notin alive)
                       ~> (c \in alive \/ c \in unkeyed \/ monitor = "dead" \/ app # "up")

\* After stop() nothing is left behind (ambient.py:108-125, house_clients.py:170-180):
\* no game in the registry, no task that could launch one, no process; and no
\* service is stopped while a task or a process of theirs can still use it.
StopLeavesNothing ==
    app \in {"closing", "down"} \/ services = {} =>
        live = 0 /\ kept = 0 /\ queued = 0 /\ asking = 0 /\ alive = {}
=============================================================================
