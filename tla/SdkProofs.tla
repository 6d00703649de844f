------------------------------ MODULE SdkProofs -----------------------------
(***************************************************************************)
(* Proofs about the programs that run on the Python SDK: what supervises   *)
(* the house bots (HouseBots), for any number of games to keep live and    *)
(* any clients, and the client itself (SdkClient), for any number of games *)
(* and connections, either side of the board, any number of resends and    *)
(* any length of a game.                                                   *)
(***************************************************************************)
EXTENDS HouseBots, SdkClient, SublistProofs, SequenceTheorems

Items(s) == {s[i] : i \in DOMAIN s}

-----------------------------------------------------------------------------
(* The inductive invariant. *)

\* Nothing of the ambient supervisor is under way.
Quiet == live = 0 /\ ended = 0 /\ kept = 0 /\ queued = 0 /\ asking = 0 /\ poll = "none"

\* Nothing that was started is left.
Still == Quiet /\ alive = {} /\ monitor = "none"

HouseInv ==
    /\ HouseTypeOK
    \* the registry holds the games that the supervisor counts
    /\ kept = live
    \* a process that runs is one that stop() will find
    /\ alive \subseteq Items(procs)
    \* there is one supervisor
    /\ driver = "ambient" => alive = {} /\ monitor = "none"
    /\ driver = "clients" => Quiet
    \* the monitor that waits does so for a client
    /\ monitor \in {"backoff", "key"} => current \in Ids
    \* what has not begun or has ended does nothing
    /\ app = "starting" => Quiet /\ monitor = "none"
    /\ app = "stopping" => driver = "ambient" /\ queued = 0 /\ asking = 0 /\ poll = "none"
    /\ app \in {"booting", "closing", "down"} \/ services = {} => Still
    /\ services = {} => app \in {"booting", "down", "failed"}

-----------------------------------------------------------------------------
(* Actions. *)

\* What a pass of the monitor does: it loses no process that runs, and if it goes
\* on to wait, it does so for a client.
LEMMA ScanKeeps ==
    ASSUME NEW rest \in Seq(Ids), NEW ps \in Seq(Ids), NEW running \in SUBSET Items(ps),
           Scan(rest, ps, running)
    PROVE  /\ procs' \in Seq(Ids) /\ todo' \in Seq(Ids) /\ running \subseteq Items(procs')
           /\ monitor' \in {"sleep", "backoff"} /\ current' \in Ids \cup {Nobody}
           /\ monitor' = "backoff" => current' \in Ids
<1> DEFINE n    == Len(rest)
           dead == {i \in DOMAIN rest : rest[i] \notin running}
<1>1. n \in Nat /\ DOMAIN rest = 1 .. n /\ \A i \in 1 .. n : rest[i] \in Ids
  OBVIOUS
<1>2. CASE dead = {}
  <2>1. monitor' = "sleep" /\ todo' = <<>> /\ current' = Nobody /\ procs' = ps
    BY <1>2 DEF Scan
  <2>2. <<>> \in Seq(Ids)
    OBVIOUS
  <2> QED BY <2>1, <2>2
<1>3. CASE dead # {}
  <2>1. PICK i \in dead : \A k \in dead : i <= k
    <3>1. dead \subseteq Nat
      BY <1>1
    <3> HIDE DEF dead
    <3> QED BY <1>3, <3>1, LeastNat
  <2> DEFINE c == CHOOSE j \in dead : \A k \in dead : j <= k
  <2>2. c \in dead
    <3> HIDE DEF dead
    <3> QED BY <2>1
  <2>3. c \in 1 .. n /\ rest[c] \in Ids /\ rest[c] \notin running
    <3> HIDE DEF c
    <3> QED BY <1>1, <2>2
  <2>4. /\ monitor' = "backoff" /\ current' = rest[c] /\ todo' = SubSeq(rest, c + 1, n)
        /\ procs' = Keep(ps, {j \in DOMAIN ps : ps[j] # rest[c]})
    BY <1>3 DEF Scan
  <2> HIDE DEF c, dead
  <2>5. SubSeq(rest, c + 1, n) \in Seq(Ids)
    BY <1>1, <2>3
  <2> DEFINE places == {j \in DOMAIN ps : ps[j] # rest[c]}
             left   == Keep(ps, places)
  <2>6. left \in Seq(Ids) /\ \E at : Places(at, left, ps, places, Len(ps))
    <3> HIDE DEF places
    <3> QED BY KeepPlaces
  <2>7. PICK at : Places(at, left, ps, places, Len(ps))
    BY <2>6
  <2>8. ASSUME NEW r \in running PROVE r \in Items(left)
    <3>1. PICK j \in DOMAIN ps : ps[j] = r
      BY DEF Items
    <3>2. j \in 1 .. Len(ps) /\ j \in places
      BY <2>3, <3>1
    <3> HIDE DEF places, left
    <3>3. PICK a \in 1 .. Len(left) : at[a] = j
      BY <2>7, <3>2 DEF Places
    <3>4. left[a] = r
      BY <2>7, <3>1, <3>3 DEF Places
    <3>5. a \in DOMAIN left
      BY <2>6, <3>3
    <3> QED BY <3>4, <3>5 DEF Items
  <2> QED BY <2>3, <2>4, <2>5, <2>6, <2>8
<1> QED BY <1>2, <1>3

\* One process more is listed, and those before it stay so.
LEMMA ItemsAppend ==
    ASSUME NEW S, NEW ps \in Seq(S), NEW c \in S
    PROVE  Append(ps, c) \in Seq(S) /\ Items(Append(ps, c)) = Items(ps) \cup {c}
<1> DEFINE n == Len(ps)  qs == Append(ps, c)
<1>1. /\ n \in Nat /\ DOMAIN ps = 1 .. n /\ qs \in Seq(S) /\ DOMAIN qs = 1 .. n + 1
      /\ qs[n + 1] = c /\ \A i \in 1 .. n : qs[i] = ps[i]
  OBVIOUS
<1> HIDE DEF n, qs
<1>2. \A i \in 1 .. n + 1 : i \in 1 .. n \/ i = n + 1
  BY <1>1
<1>3. (\A i \in 1 .. n : i \in 1 .. n + 1) /\ n + 1 \in 1 .. n + 1
  BY <1>1
<1>4. Items(qs) = Items(ps) \cup {c}
  BY <1>1, <1>2, <1>3 DEF Items
<1> QED BY <1>1, <1>4 DEF qs

\* Nothing has been started.
LEMMA HouseInitHolds == HouseInit => HouseInv
<1> SUFFICES ASSUME HouseInit PROVE HouseInv
  OBVIOUS
<1>1. <<>> \in Seq(Ids) /\ 1 \in 1 .. Len(Clients) + 1
  BY HouseBotsAssumption
<1>2. HouseTypeOK
  <2>1. fresh \in BOOLEAN
    BY DEF HouseInit
  <2>2. ended <= live /\ {live, ended, ends, kept, queued, asking} \subseteq Nat
    <3>1. live = 0 /\ ended = 0 /\ ends = 0 /\ kept = 0 /\ queued = 0 /\ asking = 0
      BY DEF HouseInit
    <3> QED BY <3>1
  <2>3. procs \in Seq(Ids) /\ todo \in Seq(Ids) /\ next \in 1 .. Len(Clients) + 1
    BY <1>1 DEF HouseInit
  <2> QED BY <2>1, <2>2, <2>3 DEF HouseInit, HouseTypeOK
<1>3. Still /\ alive \subseteq Items(procs)
  BY DEF HouseInit, Still, Quiet
<1> QED BY <1>2, <1>3 DEF HouseInit, HouseInv, Still, Quiet

\* Services start before and stop after the house bots; spectators come and go.
LEMMA LifespanSteps ==
    ASSUME HouseInv, StartServices \/ StopServices \/ Touch \/ GoesStale PROVE HouseInv'
<1>1. CASE StartServices \/ StopServices
  BY <1>1 DEF HouseInv, HouseTypeOK, Quiet, Still, Items, StartServices, StopServices, ambient, clients
<1>2. CASE Touch \/ GoesStale
  BY <1>2 DEF HouseInv, HouseTypeOK, Quiet, Still, Items, Touch, GoesStale, clients
<1> QED BY <1>1, <1>2

\* The poll task of the ambient supervisor.
LEMMA PollSteps ==
    ASSUME HouseInv, StartAmbient \/ PollWakes \/ PollSpawns PROVE HouseInv'
<1>1. CASE StartAmbient \/ PollWakes
  BY <1>1 DEF HouseInv, HouseTypeOK, Quiet, Still, Items, StartAmbient, PollWakes, Wanted, clients
<1>2. CASE PollSpawns
  BY <1>2 DEF HouseInv, HouseTypeOK, Quiet, Still, Items, PollSpawns, Wanted, Spawned, clients
<1> QED BY <1>1, <1>2

\* Games end, and are replaced by their refill tasks.
LEMMA GameSteps ==
    ASSUME HouseInv, AmbientGameEnds \/ OnFinished \/ RefillBegins \/ RefillSpawns PROVE HouseInv'
<1>1. CASE AmbientGameEnds
  BY <1>1 DEF HouseInv, HouseTypeOK, Quiet, Still, Items, AmbientGameEnds, clients
<1>2. CASE OnFinished
  <2>1. /\ {live, ended, kept, queued} \subseteq Nat /\ ended <= live /\ kept = live
        /\ ended > 0 /\ ended' = ended - 1 /\ live' = live - 1 /\ kept' = kept - 1
        /\ queued' = IF app = "up" THEN queued + 1 ELSE queued
    BY <1>2 DEF HouseInv, HouseTypeOK, OnFinished
  <2>2. /\ {live', ended', kept', queued'} \subseteq Nat /\ ended' <= live' /\ kept' = live'
        /\ app # "up" => queued' = queued
    BY <2>1
  <2>3. live # 0
    BY <2>1
  <2> QED BY <1>2, <2>2, <2>3 DEF HouseInv, HouseTypeOK, Quiet, Still, Items, OnFinished, clients
<1>3. CASE RefillBegins
  BY <1>3 DEF HouseInv, HouseTypeOK, Quiet, Still, Items, RefillBegins, Wanted, clients
<1>4. CASE RefillSpawns
  BY <1>4 DEF HouseInv, HouseTypeOK, Quiet, Still, Items, RefillSpawns, Wanted, Spawned, clients
<1> QED BY <1>1, <1>2, <1>3, <1>4

\* stop() of the ambient supervisor: what callbacks did not evict is evicted.
LEMMA AmbientStops ==
    ASSUME HouseInv, StopAmbient \/ AmbientStopped PROVE HouseInv'
<1>1. CASE StopAmbient
  BY <1>1 DEF HouseInv, HouseTypeOK, Quiet, Still, Items, StopAmbient, clients
<1>2. CASE AmbientStopped
  BY <1>2 DEF HouseInv, HouseTypeOK, Quiet, Still, Items, AmbientStopped, clients
<1> QED BY <1>1, <1>2

\* start() of the house clients: a process that runs is listed.
LEMMA ClientsStart ==
    ASSUME HouseInv, StartClient \/ ClientsStarted PROVE HouseInv'
<1>1. CASE StartClient
  <2>1. Len(Clients) \in Nat /\ next \in 1 .. Len(Clients) /\ next + 1 \in 1 .. Len(Clients) + 1
    BY <1>1, HouseBotsAssumption DEF HouseInv, HouseTypeOK, StartClient
  <2> DEFINE c == Clients[next]
  <2>2. c \in Ids
    BY <2>1, HouseBotsAssumption DEF Ids
  <2>3. Append(procs, c) \in Seq(Ids) /\ Items(Append(procs, c)) = Items(procs) \cup {c}
    BY <2>2, ItemsAppend DEF HouseInv, HouseTypeOK
  <2> HIDE DEF c
  <2>4. CASE Started(c) /\ next' = next + 1 /\ UNCHANGED app
    <3>1. procs' \in Seq(Ids) /\ alive' \subseteq Items(procs') /\ alive' \subseteq Ids
      BY <2>2, <2>3, <2>4 DEF HouseInv, HouseTypeOK, Started
    <3> QED BY <1>1, <2>1, <2>4, <3>1 DEF HouseInv, HouseTypeOK, Quiet, Still, StartClient, Started, ambient
  <2>5. CASE Unkeyed(c) /\ next' = next + 1 /\ UNCHANGED app
    BY <1>1, <2>1, <2>2, <2>5 DEF HouseInv, HouseTypeOK, Quiet, Still, Items, StartClient, Unkeyed, ambient
  <2>6. CASE app' = "failed" /\ UNCHANGED <<next, procs, alive, unkeyed>>
    BY <1>1, <2>6 DEF HouseInv, HouseTypeOK, Quiet, Still, Items, StartClient, ambient
  <2> QED BY <1>1, <2>4, <2>5, <2>6 DEF StartClient, c
<1>2. CASE ClientsStarted
  BY <1>2 DEF HouseInv, HouseTypeOK, Quiet, Still, Items, ClientsStarted, ambient
<1> QED BY <1>1, <1>2

\* Processes exit and are respawned: ScanKeeps says what a pass leaves listed.
LEMMA MonitorSteps ==
    ASSUME HouseInv, ProcessExits \/ MonitorPass \/ BackoffOver \/ Respawn PROVE HouseInv'
<1>1. CASE ProcessExits
  BY <1>1 DEF HouseInv, HouseTypeOK, Quiet, Still, Items, ProcessExits, ambient
<1>2. CASE MonitorPass
  <2>1. procs \in Seq(Ids) /\ alive \in SUBSET Items(procs) /\ Scan(procs, procs, alive)
    BY <1>2 DEF HouseInv, HouseTypeOK, MonitorPass
  <2>2. /\ procs' \in Seq(Ids) /\ todo' \in Seq(Ids) /\ alive \subseteq Items(procs')
        /\ monitor' \in {"sleep", "backoff"} /\ current' \in Ids \cup {Nobody}
        /\ monitor' = "backoff" => current' \in Ids
    BY <2>1, ScanKeeps
  <2> QED BY <1>2, <2>2 DEF HouseInv, HouseTypeOK, Quiet, Still, MonitorPass, ambient
<1>3. CASE BackoffOver
  BY <1>3 DEF HouseInv, HouseTypeOK, Quiet, Still, Items, BackoffOver, ambient
<1>4. CASE Respawn
  <2>1. procs \in Seq(Ids) /\ todo \in Seq(Ids) /\ alive \subseteq Items(procs) /\ current \in Ids
    BY <1>4 DEF HouseInv, HouseTypeOK, Respawn
  <2>2. CASE alive' = alive \cup {current} /\ UNCHANGED unkeyed
             /\ Scan(todo, Append(procs, current), alive')
    <3> DEFINE qs == Append(procs, current)
               running == alive \cup {current}
    <3>1. qs \in Seq(Ids) /\ Items(qs) = Items(procs) \cup {current}
      BY <2>1, ItemsAppend
    <3>2. Scan(todo, qs, running) /\ running \in SUBSET Items(qs)
      BY <2>1, <2>2, <3>1
    <3> HIDE DEF qs, running
    <3>3. /\ procs' \in Seq(Ids) /\ todo' \in Seq(Ids) /\ running \subseteq Items(procs')
          /\ monitor' \in {"sleep", "backoff"} /\ current' \in Ids \cup {Nobody}
          /\ monitor' = "backoff" => current' \in Ids
      BY <2>1, <3>1, <3>2, ScanKeeps
    <3>4. alive' \subseteq Items(procs') /\ alive' \subseteq Ids
      BY <2>1, <2>2, <3>3 DEF running, HouseInv, HouseTypeOK
    <3> QED BY <1>4, <2>2, <3>3, <3>4 DEF HouseInv, HouseTypeOK, Quiet, Still, Respawn, ambient
  <2>3. CASE unkeyed' = unkeyed \cup {current} /\ UNCHANGED alive
             /\ Scan(todo, procs, alive)
    <3>1. /\ procs' \in Seq(Ids) /\ todo' \in Seq(Ids) /\ alive \subseteq Items(procs')
          /\ monitor' \in {"sleep", "backoff"} /\ current' \in Ids \cup {Nobody}
          /\ monitor' = "backoff" => current' \in Ids
      BY <2>1, <2>3, ScanKeeps
    <3> QED BY <1>4, <2>1, <2>3, <3>1 DEF HouseInv, HouseTypeOK, Quiet, Still, Respawn, ambient
  <2>4. CASE monitor' = "dead" /\ UNCHANGED <<procs, alive, unkeyed, todo, current>>
    BY <1>4, <2>4 DEF HouseInv, HouseTypeOK, Quiet, Still, Items, Respawn, ambient
  <2> QED BY <1>4, <2>2, <2>3, <2>4 DEF Respawn
<1> QED BY <1>1, <1>2, <1>3, <1>4

\* stop() of the house clients terminates what is listed, which is all that runs.
LEMMA ClientsStop == ASSUME HouseInv, StopClients PROVE HouseInv'
<1>1. <<>> \in Seq(Ids) /\ alive \ Items(procs) = {}
  BY DEF HouseInv
<1>2. CASE monitor = "dead"
  BY <1>2 DEF HouseInv, HouseTypeOK, Quiet, Still, Items, StopClients, ambient
<1>3. CASE monitor # "dead"
  <2>1. procs' = <<>> /\ todo' = <<>> /\ alive' = {}
    BY <1>1, <1>3 DEF StopClients, Items
  <2> QED BY <1>1, <1>3, <2>1 DEF HouseInv, HouseTypeOK, Quiet, Still, Items, StopClients, ambient
<1> QED BY <1>2, <1>3

\* Every step keeps the invariant.
LEMMA HouseStepHolds == HouseInv /\ [HouseNext]_houseVars => HouseInv'
<1> SUFFICES ASSUME HouseInv, [HouseNext]_houseVars PROVE HouseInv'
  OBVIOUS
<1>1. CASE UNCHANGED houseVars
  BY <1>1 DEF HouseInv, HouseTypeOK, Quiet, Still, Items, houseVars, ambient, clients
<1> QED BY <1>1, LifespanSteps, PollSteps, GameSteps, AmbientStops, ClientsStart, MonitorSteps,
           ClientsStop DEF HouseNext

-----------------------------------------------------------------------------
(* Theorems. *)

\* The state has its type; the registry holds the games that are counted, and
\* every process that runs is one that stop() will terminate.
THEOREM HouseInvariant == HouseSpec => []HouseInv
  BY HouseInitHolds, HouseStepHolds, PTL DEF HouseSpec

\* After stop() nothing is left behind, and no service is stopped while a task or
\* a process can still use it.
THEOREM NothingIsLeft == HouseSpec => []StopLeavesNothing
<1>1. HouseInv => StopLeavesNothing
  BY DEF HouseInv, Still, Quiet, StopLeavesNothing
<1> QED BY <1>1, HouseInvariant, PTL

-----------------------------------------------------------------------------
(* The client. *)

Kinds == {"welcome", "game_start", "your_turn", "move_ack", "game_over", "seek_ack", "error",
          "seek", "control"}
Wire    == [kind : Kinds \cup Uci, game : Nat, ply : Nat]
Choices == [game : Nat, ply : Nat, uci : Uci]

Wires   == Seq(Wire)
Boards  == Seq(Uci \cup {"theirs"})
Calls   == Seq(Nat \X Nat)

Choice(f) == [game |-> f.game, ply |-> f.ply, uci |-> f.kind]     \* the decision a move frame carries

Typed ==
    /\ pc \in {"open", "hello", "seek", "turn", "ack", "closed", "failed"}
    /\ resuming \in BOOLEAN /\ mine \in Nat /\ link \in {"up", "down"}
    /\ up \in Wires /\ down \in Wires /\ inbound \in Wires
    /\ hs \in {"none", "greeted", "serving"} /\ resume.game \in Nat
    /\ seeking \in BOOLEAN /\ bound \in BOOLEAN
    /\ game \in Nat /\ state \in {"none", "running", "told"}
    /\ moves \in Boards /\ terminal \in Nat
    /\ chosen \subseteq Choices /\ closed \in Calls

\* Whatever names a decision, on its way, in the seat's inbox or to be sent again, names one
\* that was made, for the game that is played now.
DecisionsGood ==
    /\ \A f \in Items(up) : f.kind \in Uci => Choice(f) \in chosen /\ f.game = game
    /\ \A f \in Items(inbound) : f.kind \in Uci /\ Choice(f) \in chosen /\ f.game = game
    /\ pc = "ack" => out \in chosen /\ out.game = game
    /\ state = "none" => inbound = <<>>
    /\ state # "none" => game # 0

\* The client is in a game, or on its way back to it, and the game is the server's last.
Playing == pc \in {"turn", "ack"}
ClientGood ==
    /\ Playing \/ resuming => mine = game /\ mine # 0
    /\ ~Playing /\ ~resuming => mine = 0
    /\ resuming => pc \in {"open", "hello"}
    /\ pc \in {"open", "closed", "failed"} => link = "down" /\ down = <<>>
    /\ hs = "none" => down = <<>>
    /\ hs # "serving" => ~bound
    /\ pc = "hello" /\ link = "up" /\ hs # "none" => down # <<>>

\* A frame that tells the client of its game, and those it reads in that game.
Starts(f)    == f.kind = "game_start" \/ (f.kind = "welcome" /\ f.game # 0)
NoStart      == \A i \in DOMAIN down : ~Starts(down[i])
InGame(d, i) == Playing \/ \E j \in DOMAIN d : j < i /\ Starts(d[j])
IsOver(d, i) == i \in DOMAIN d /\ d[i].kind = "game_over" /\ InGame(d, i)

Hooked == <<game, game>> \in Items(closed)

FramesGood ==
    /\ \A i \in DOMAIN down : Starts(down[i]) => down[i].game = game /\ game # 0
    /\ \A i \in DOMAIN down : down[i].kind = "welcome" => i = 1 /\ pc = "hello"
    /\ pc = "hello" /\ down # <<>> => down[1].kind = "welcome"
    /\ \A i : IsOver(down, i) => down[i].game = game /\ state # "running" /\ ~Hooked
    /\ \A i, j : IsOver(down, i) /\ IsOver(down, j) => i = j

\* A seek that no game was made of is the last thing the client sent, and it waits for it.
Sought  == \E i \in DOMAIN up : up[i].kind = "seek"
Idle    == state = "none" /\ ~Playing /\ NoStart
SeekGood ==
    /\ seeking => up = <<>>
    /\ \A i \in DOMAIN up : up[i].kind = "seek" => i = Len(up)
    /\ seeking \/ Sought => Idle /\ ~resuming
    /\ hs = "greeted" => ~seeking
    /\ hs = "greeted" /\ resume.game = 0 => Idle
    /\ \A i \in DOMAIN down : down[i].kind = "welcome" /\ down[i].game = 0 =>
          Idle /\ ~seeking /\ ~Sought /\ hs # "none"

HooksGood ==
    /\ \A i \in DOMAIN closed : closed[i][1] = closed[i][2] /\ closed[i][1] <= game
    /\ \A i, j \in DOMAIN closed : closed[i] = closed[j] => i = j
    /\ state = "running" => ~Hooked

\* The bot's moves on the board are decisions made for this game and their ply.
MovesGood ==
    \A p \in 0 .. Len(moves) - 1 :
        p % 2 = Me => [game |-> game, ply |-> p, uci |-> moves[p + 1]] \in chosen

\* What holds until a game is lost.
SdkInv == Typed /\ DecisionsGood /\ ClientGood /\ FramesGood /\ SeekGood /\ HooksGood
          /\ MovesGood
Sound  == lost = {} => SdkInv

-----------------------------------------------------------------------------
(* Frames under way. *)

\* No frame is under way, no move on the board, no hook called.
LEMMA NoneUnderWay == <<>> \in Wires /\ <<>> \in Boards /\ <<>> \in Calls
BY DEF Wires, Boards, Calls

\* The first frame is read.
LEMMA TailIs ==
    ASSUME NEW d \in Seq(Wire), d # <<>>
    PROVE  /\ Tail(d) \in Seq(Wire) /\ Head(d) = d[1] /\ d[1] \in Wire /\ 1 \in DOMAIN d
           /\ Len(d) \in Nat /\ Len(Tail(d)) = Len(d) - 1 /\ DOMAIN d = 1 .. Len(d)
           /\ \A i \in DOMAIN Tail(d) : i \in Nat /\ i >= 1 /\ i + 1 \in DOMAIN d /\ Tail(d)[i] = d[i + 1]
<1> HIDE DEF Wire
<1> QED OBVIOUS

\* Frames are sent after those under way.
Both(d, e) == d \o e
\* What is read after sending: the frames that were under way, then the others.
LEMMA BothIs ==
    ASSUME NEW d \in Seq(Wire), NEW e \in Seq(Wire)
    PROVE  /\ Both(d, e) \in Seq(Wire)
           /\ Len(d) \in Nat /\ Len(e) \in Nat /\ Len(Both(d, e)) = Len(d) + Len(e)
           /\ DOMAIN d = 1 .. Len(d) /\ DOMAIN e = 1 .. Len(e)
           /\ \A i \in DOMAIN d : i \in DOMAIN Both(d, e) /\ Both(d, e)[i] = d[i]
           /\ \A i \in DOMAIN Both(d, e) : i \in Nat /\
                 \/ i \in DOMAIN d /\ Both(d, e)[i] = d[i]
                 \/ i > Len(d) /\ i - Len(d) \in DOMAIN e /\ Both(d, e)[i] = e[i - Len(d)]
<1> DEFINE r == d \o e
           l == Len(d)
           n == Len(e)
<1> HIDE DEF Wire
<1>1. /\ r \in Seq(Wire) /\ Len(r) = l + n
      /\ \A x \in 1 .. l + n : r[x] = IF x <= l THEN d[x] ELSE e[x - l]
  BY ConcatProperties
<1>2. l \in Nat /\ n \in Nat /\ DOMAIN d = 1 .. l /\ DOMAIN e = 1 .. n
  OBVIOUS
<1>3. DOMAIN r = 1 .. l + n
  BY <1>1
<1> HIDE DEF r, l, n
<1>4. \A i \in 1 .. l : i \in 1 .. l + n /\ r[i] = d[i]
  BY <1>1, <1>2
<1>5. ASSUME NEW i \in 1 .. l + n
      PROVE  i \in Nat /\ ((i \in 1 .. l /\ r[i] = d[i])
                           \/ (i > l /\ i - l \in 1 .. n /\ r[i] = e[i - l]))
  BY <1>1, <1>2
<1> QED BY <1>1, <1>2, <1>3, <1>4, <1>5 DEF Both, r, l, n

\* The connection drops: a prefix is left.
Prefix(d, m) == SubSeq(d, 1, m)
\* What a dropped connection leaves is a list of frames that were under way.
LEMMA PrefixIs ==
    ASSUME NEW d \in Seq(Wire), NEW m \in 0 .. Len(d)
    PROVE  /\ Prefix(d, m) \in Seq(Wire) /\ Len(Prefix(d, m)) = m
           /\ \A i \in DOMAIN Prefix(d, m) : i \in DOMAIN d /\ i <= m /\ Prefix(d, m)[i] = d[i]
<1> HIDE DEF Wire
<1>1. \A x \in 1 .. m : d[x] \in Wire
  OBVIOUS
<1>2. /\ Prefix(d, m) \in Seq(Wire) /\ Len(Prefix(d, m)) = m
      /\ \A x \in 1 .. m : Prefix(d, m)[x] = d[x]
  BY <1>1, SubSeqProperties DEF Prefix
<1>3. DOMAIN Prefix(d, m) = 1 .. m /\ DOMAIN d = 1 .. Len(d)
  BY <1>2
<1> HIDE DEF Prefix
<1> QED BY <1>2, <1>3

\* The client reads a frame: what it reads in the game it did before.
LEMMA ReadKeeps ==
    ASSUME SdkInv, down # <<>>, down' = Tail(down), UNCHANGED <<game, state, closed>>, pc' # "hello",
           Playing' => Playing \/ Starts(down[1])
    PROVE  FramesGood' /\ (NoStart => NoStart')
<1>1. /\ down' \in Seq(Wire) /\ 1 \in DOMAIN down
      /\ \A i \in DOMAIN down' : i \in Nat /\ i >= 1 /\ i + 1 \in DOMAIN down /\ down'[i] = down[i + 1]
  BY TailIs DEF SdkInv, Typed, Wires
<1>2. ASSUME NEW i, IsOver(down, i)' PROVE i \in DOMAIN down' /\ IsOver(down, i + 1)
  <2>1. i \in DOMAIN down' /\ down'[i].kind = "game_over" /\ InGame(down, i)'
    BY <1>2 DEF IsOver
  <2>2. i \in Nat /\ i >= 1 /\ i + 1 \in DOMAIN down /\ down[i + 1].kind = "game_over"
    BY <1>1, <2>1
  <2>3. InGame(down, i + 1)
    <3>1. CASE Playing'
      <4>1. 1 < i + 1
        BY <2>2
      <4> QED BY <1>1, <3>1, <4>1 DEF InGame
    <3>2. CASE ~Playing'
      <4>1. PICK j \in DOMAIN down' : j < i /\ Starts(down'[j])
        BY <2>1, <3>2 DEF InGame
      <4>2. j + 1 \in DOMAIN down /\ j + 1 < i + 1 /\ Starts(down[j + 1])
        BY <1>1, <2>2, <4>1
      <4> QED BY <4>2 DEF InGame
    <3> QED BY <3>1, <3>2
  <2> QED BY <2>1, <2>2, <2>3 DEF IsOver
<1>3. FramesGood
  BY DEF SdkInv
<1>4. \A i \in DOMAIN down' : Starts(down'[i]) => down'[i].game = game /\ game # 0
  BY <1>1, <1>3 DEF FramesGood
<1>5. \A i \in DOMAIN down' : down'[i].kind # "welcome"
  <2> TAKE i \in DOMAIN down'
  <2>1. i + 1 # 1
    BY <1>1
  <2> QED BY <1>1, <1>3, <2>1 DEF FramesGood
<1>6. ASSUME NEW i, IsOver(down, i)' PROVE down'[i].game = game /\ state # "running" /\ ~Hooked
  BY <1>1, <1>2, <1>3, <1>6 DEF FramesGood
<1>7. ASSUME NEW i, NEW j, IsOver(down, i)', IsOver(down, j)' PROVE i = j
  <2>1. i + 1 = j + 1 /\ i \in DOMAIN down' /\ j \in DOMAIN down'
    BY <1>2, <1>3, <1>7 DEF FramesGood
  <2> QED BY <1>1, <2>1
<1>8. FramesGood'
  BY <1>4, <1>5, <1>6, <1>7 DEF FramesGood, Hooked
<1>9. NoStart => NoStart'
  BY <1>1 DEF NoStart
<1> QED BY <1>8, <1>9

\* The server sends frames that start no game, and no game_over but the last, which is
\* that of the game that ends, or comes to a client that is in none.
LEMMA SentKeeps ==
    ASSUME SdkInv, NEW fr \in Seq(Wire),
           down' = down \/ (link = "up" /\ hs # "none" /\ down' = Both(down, fr)),
           UNCHANGED <<pc, game, closed>>, state' = "running" => state = "running",
           \A k \in DOMAIN fr : fr[k].kind \notin {"welcome", "game_start"},
           \A k \in DOMAIN fr : fr[k].kind = "game_over" => k = Len(fr),
           \A k \in DOMAIN fr : fr[k].kind = "game_over" =>
              \/ ~Playing /\ NoStart
              \/ fr[k].game = game /\ state = "running" /\ state' # "running"
    PROVE  /\ FramesGood' /\ (NoStart => NoStart') /\ down' \in Seq(Wire)
           /\ down # <<>> => down' # <<>>
           /\ \A i \in DOMAIN down' : down'[i].kind = "welcome" => i \in DOMAIN down /\ down[i] = down'[i]
<1>0. down \in Seq(Wire) /\ FramesGood
  BY DEF SdkInv, Typed, Wires
<1>1. CASE down' = down
  <2>1. \A i : IsOver(down, i)' <=> IsOver(down, i)
    BY <1>1 DEF IsOver, InGame, Playing
  <2> QED BY <1>0, <1>1, <2>1 DEF FramesGood, Hooked, NoStart
<1>2. CASE link = "up" /\ hs # "none" /\ down' = Both(down, fr)
  <2> DEFINE l == Len(down)
  <2>1. /\ down' \in Seq(Wire) /\ l \in Nat /\ DOMAIN down = 1 .. l /\ DOMAIN fr = 1 .. Len(fr)
        /\ Len(fr) \in Nat /\ Len(down') = l + Len(fr)
        /\ \A i \in DOMAIN down : i \in DOMAIN down' /\ down'[i] = down[i]
        /\ \A i \in DOMAIN down' : i \in Nat /\
              \/ i \in DOMAIN down /\ down'[i] = down[i]
              \/ i > l /\ i - l \in DOMAIN fr /\ down'[i] = fr[i - l]
    <3> HIDE DEF Wire
    <3>1. /\ Both(down, fr) \in Seq(Wire) /\ Len(down) \in Nat /\ Len(fr) \in Nat
          /\ Len(Both(down, fr)) = Len(down) + Len(fr)
          /\ DOMAIN down = 1 .. Len(down) /\ DOMAIN fr = 1 .. Len(fr)
          /\ \A i \in DOMAIN down : i \in DOMAIN Both(down, fr) /\ Both(down, fr)[i] = down[i]
          /\ \A i \in DOMAIN Both(down, fr) : i \in Nat /\
                \/ i \in DOMAIN down /\ Both(down, fr)[i] = down[i]
                \/ i > Len(down) /\ i - Len(down) \in DOMAIN fr /\ Both(down, fr)[i] = fr[i - Len(down)]
      BY <1>0, BothIs, Zenon
    <3> QED BY <1>2, <3>1, Zenon
  <2> HIDE DEF l
  <2>2. \A i \in DOMAIN down' : Starts(down'[i]) => i \in DOMAIN down /\ down'[i] = down[i]
    BY <2>1 DEF Starts
  <2>3. \A i \in DOMAIN down' : down'[i].kind = "welcome" => i \in DOMAIN down /\ down[i] = down'[i]
    BY <2>1
  <2>4. NoStart => NoStart'
    BY <2>2 DEF NoStart
  <2>5. down # <<>> => down' # <<>>
    <3>1. down # <<>> => 1 \in DOMAIN down
      BY <1>0, TailIs
    <3> QED BY <2>1, <3>1
  <2>6. ASSUME NEW i, InGame(down, i)' PROVE InGame(down, i)
    <3>1. CASE Playing
      BY <3>1 DEF InGame
    <3>2. CASE ~Playing
      <4>1. PICK j \in DOMAIN down' : j < i /\ Starts(down'[j])
        BY <2>6, <3>2 DEF InGame, Playing
      <4> QED BY <2>2, <4>1 DEF InGame
    <3> QED BY <3>1, <3>2
  <2>7. ASSUME NEW i, IsOver(down, i)'
        PROVE  \/ i \in DOMAIN down /\ IsOver(down, i) /\ down'[i] = down[i]
               \/ /\ i = l + Len(fr) /\ down'[i].game = game
                  /\ state = "running" /\ state' # "running"
    <3>1. i \in DOMAIN down' /\ down'[i].kind = "game_over" /\ InGame(down, i)
      BY <2>6, <2>7 DEF IsOver
    <3>2. CASE i \in DOMAIN down /\ down'[i] = down[i]
      BY <3>1, <3>2 DEF IsOver
    <3>3. CASE i > l /\ i - l \in DOMAIN fr /\ down'[i] = fr[i - l]
      <4>1. fr[i - l].kind = "game_over" /\ i - l = Len(fr)
        BY <3>1, <3>3
      <4>2. ~(~Playing /\ NoStart)
        BY <3>1 DEF InGame, NoStart
      <4>3. fr[i - l].game = game /\ state = "running" /\ state' # "running"
        BY <3>3, <4>1, <4>2
      <4> QED BY <2>1, <3>1, <3>3, <4>1, <4>3
    <3> QED BY <2>1, <3>1, <3>2, <3>3
  <2>8. ASSUME NEW i, IsOver(down, i)'
        PROVE  down'[i].game = game /\ state' # "running" /\ ~Hooked'
    <3>1. Hooked' = Hooked
      BY DEF Hooked
    <3>2. CASE IsOver(down, i) /\ down'[i] = down[i]
      BY <1>0, <3>1, <3>2 DEF FramesGood
    <3>3. CASE down'[i].game = game /\ state = "running" /\ state' # "running"
      <4>1. ~Hooked
        BY <3>3 DEF SdkInv, HooksGood
      <4> QED BY <3>1, <3>3, <4>1
    <3> QED BY <2>7, <2>8, <3>2, <3>3
  <2>9. ASSUME NEW i, NEW j, IsOver(down, i)', IsOver(down, j)' PROVE i = j
    <3>1. \A k : IsOver(down, k) => state # "running"
      BY <1>0 DEF FramesGood
    <3>2. CASE state = "running"
      BY <2>7, <2>9, <3>1, <3>2
    <3>3. CASE state # "running"
      <4>1. IsOver(down, i) /\ IsOver(down, j)
        BY <2>7, <2>9, <3>3
      <4> QED BY <1>0, <4>1 DEF FramesGood
    <3> QED BY <3>2, <3>3
  <2>10. pc' = "hello" /\ down' # <<>> => down'[1].kind = "welcome"
    <3>1. pc = "hello" => down # <<>> /\ down[1].kind = "welcome"
      BY <1>0, <1>2 DEF SdkInv, ClientGood, FramesGood
    <3>2. pc = "hello" => 1 \in DOMAIN down
      BY <1>0, <3>1, TailIs
    <3> QED BY <2>1, <3>1, <3>2
  <2>11. \A i \in DOMAIN down' : Starts(down'[i]) => down'[i].game = game /\ game # 0
    BY <1>0, <2>2 DEF FramesGood
  <2>12. \A i \in DOMAIN down' : down'[i].kind = "welcome" => i = 1 /\ pc = "hello"
    BY <1>0, <2>3 DEF FramesGood
  <2>13. FramesGood'
    BY <2>8, <2>9, <2>10, <2>11, <2>12 DEF FramesGood
  <2> QED BY <2>1, <2>3, <2>4, <2>5, <2>13
<1> QED BY <1>1, <1>2

\* The client sends a frame, and no seek waits in front of it.
LEMMA UpAppends ==
    ASSUME SdkInv, NEW f \in Wire, up' = Append(up, f), ~Sought
    PROVE  /\ up' \in Seq(Wire) /\ \A g \in Items(up') : g \in Items(up) \/ g = f
           /\ \A i \in DOMAIN up' : up'[i].kind = "seek" => f.kind = "seek" /\ i = Len(up')
<1>1. up \in Seq(Wire)
  BY DEF SdkInv, Typed, Wires
<1>2. /\ up' \in Seq(Wire) /\ Len(up') = Len(up) + 1 /\ Len(up) \in Nat
      /\ \A i \in DOMAIN up' : (i \in DOMAIN up /\ up'[i] = up[i]) \/ (i = Len(up') /\ up'[i] = f)
  <2> HIDE DEF Wire
  <2> QED BY <1>1
<1> QED BY <1>2 DEF Items, Sought

-----------------------------------------------------------------------------
(* The client. *)

\* Nothing has been sent, sought or played.
LEMMA InitInv == Init => SdkInv
<1> SUFFICES ASSUME Init PROVE SdkInv
  OBVIOUS
<1>1. Typed
  BY NoneUnderWay DEF Init, Typed
<1>2. DecisionsGood /\ ClientGood
  BY DEF Init, DecisionsGood, ClientGood, Items, Playing
<1>3. HooksGood /\ MovesGood
  BY DEF Init, HooksGood, MovesGood, Hooked
<1>4. FramesGood /\ SeekGood
  BY DEF Init, FramesGood, SeekGood, IsOver, Sought
<1> QED BY <1>1, <1>2, <1>3, <1>4 DEF SdkInv

\* The client leaves its game, or fails: its connection is closed.
LEMMA LeavesGood ==
    ASSUME SdkInv, pc' \in {"closed", "failed"}, link' = "down", down' = <<>>, Forgotten,
           UNCHANGED <<up, server, chosen>>, closed' \in Calls, HooksGood'
    PROVE  SdkInv'
<1>1. UNCHANGED <<hs, resume, seeking, bound, game, state, moves, inbound, terminal, up, chosen>>
  BY DEF server
<1>2. mine' = 0 /\ resuming' = FALSE /\ ~Playing'
  BY DEF Forgotten, Playing
<1>3. Typed'
  BY <1>1, <1>2, NoneUnderWay DEF SdkInv, Typed
<1>4. DecisionsGood'
  BY <1>1 DEF SdkInv, DecisionsGood, Items, Choice
<1>5. ClientGood'
  BY <1>1, <1>2 DEF SdkInv, ClientGood
<1>6. FramesGood'
  BY DEF FramesGood, IsOver
<1>7. SeekGood'
  BY <1>1, <1>2 DEF SdkInv, SeekGood, Sought, Idle, NoStart
<1>8. MovesGood'
  BY <1>1 DEF SdkInv, MovesGood
<1> QED BY <1>3, <1>4, <1>5, <1>6, <1>7, <1>8 DEF SdkInv

\* An exception ends the round: the game is left without a hook.
LEMMA RaiseGood == ASSUME SdkInv, Raise, UNCHANGED <<server, seen>> PROVE SdkInv'
<1>1. pc' = "failed" /\ link' = "down" /\ down' = <<>> /\ Forgotten /\ UNCHANGED up
  BY DEF Raise
<1>2. UNCHANGED <<chosen, closed, game, state>>
  BY DEF seen, server
<1>3. HooksGood' /\ closed' \in Calls
  BY <1>2 DEF SdkInv, Typed, HooksGood, Hooked
<1> QED BY <1>1, <1>2, <1>3, LeavesGood

\* A connection is opened or refused.
LEMMA OpenGood == ASSUME SdkInv, Open PROVE SdkInv'
<1>1. pc = "open" /\ UNCHANGED <<resume, seeking, stale, game, state, moves, inbound, terminal, seen>>
  BY DEF Open
<1>2. CASE Raise /\ UNCHANGED <<hs, bound>>
  BY <1>1, <1>2, RaiseGood DEF server
<1>3. CASE /\ conns < MaxConns
           /\ conns' = conns + 1 /\ link' = "up" /\ down' = <<>> /\ pc' = "hello"
           /\ hs' = "none" /\ bound' = FALSE
           /\ UNCHANGED <<resuming, tries, mine, out, resends, acked, up>>
  <2>1. UNCHANGED <<chosen, closed>> /\ ~Playing /\ ~Playing'
    BY <1>1, <1>3 DEF seen, Playing
  <2>2. Typed'
    BY <1>1, <1>3, <2>1, NoneUnderWay DEF SdkInv, Typed
  <2>8. HooksGood'
    BY <1>1, <1>3, <2>1 DEF SdkInv, HooksGood, Hooked
  <2>3. DecisionsGood'
    BY <1>1, <1>3, <2>1 DEF SdkInv, DecisionsGood, Items, Choice
  <2>4. ClientGood'
    BY <1>1, <1>3, <2>1 DEF SdkInv, ClientGood
  <2>5. FramesGood'
    BY <1>3 DEF FramesGood, IsOver
  <2>6. SeekGood'
    BY <1>1, <1>3, <2>1 DEF SdkInv, SeekGood, Sought, Idle, NoStart
  <2>7. MovesGood'
    BY <1>1, <2>1 DEF SdkInv, MovesGood
  <2> QED BY <2>2, <2>3, <2>4, <2>5, <2>6, <2>7, <2>8 DEF SdkInv
<1> QED BY <1>2, <1>3 DEF Open

\* The connection closes before welcome: another attempt, or an exception.
LEMMA OpenFailsGood == ASSUME SdkInv, OpenFails PROVE SdkInv'
<1>1. pc = "hello" /\ link = "down" /\ down = <<>> /\ UNCHANGED <<server, seen>>
  BY DEF OpenFails
<1>2. CASE Raise
  BY <1>1, <1>2, RaiseGood
<1>3. CASE pc' = "open" /\ UNCHANGED <<resuming, mine, out, wires>>
  <2>1. UNCHANGED <<chosen, closed, link, up, down, hs, resume, seeking, bound, game, state, moves,
                    inbound, terminal>>
        /\ ~Playing /\ ~Playing'
    BY <1>1, <1>3 DEF seen, wires, server, Playing
  <2>2. Typed'
    BY <1>1, <1>3, <2>1, NoneUnderWay DEF SdkInv, Typed
  <2>8. HooksGood'
    BY <1>1, <1>3, <2>1 DEF SdkInv, HooksGood, Hooked
  <2>3. DecisionsGood'
    BY <1>1, <1>3, <2>1 DEF SdkInv, DecisionsGood, Items, Choice
  <2>4. ClientGood'
    BY <1>1, <1>3, <2>1 DEF SdkInv, ClientGood
  <2>5. FramesGood'
    BY <1>1, <2>1 DEF FramesGood, IsOver
  <2>6. SeekGood'
    BY <1>1, <1>3, <2>1 DEF SdkInv, SeekGood, Sought, Idle, NoStart
  <2>7. MovesGood'
    BY <1>1, <2>1 DEF SdkInv, MovesGood
  <2> QED BY <2>2, <2>3, <2>4, <2>5, <2>6, <2>7, <2>8 DEF SdkInv
<1> QED BY <1>2, <1>3 DEF OpenFails

\* The client reads a frame that leaves it where it was, or tells it of its game.
LEMMA ReadGood ==
    ASSUME SdkInv, down # <<>>, down' = Tail(down), UNCHANGED <<server, seen, up, link, out>>,
           pc' # "hello", pc' \in {pc, "turn"}, pc \in {"hello", "seek", "turn", "ack"},
           Playing' => Playing \/ Starts(down[1]), resuming' = FALSE,
           Playing' => mine' = game /\ mine' # 0, ~Playing' => mine' = 0
    PROVE  SdkInv'
<1>1. UNCHANGED <<chosen, closed, hs, resume, seeking, bound, game, state, moves, inbound, terminal>>
  BY DEF seen, server
<1>2. FramesGood' /\ (NoStart => NoStart')
  BY <1>1, ReadKeeps
<1>3. /\ down \in Seq(Wire) /\ down' \in Seq(Wire) /\ 1 \in DOMAIN down
      /\ \A i \in DOMAIN down' : i \in Nat /\ i >= 1 /\ i + 1 \in DOMAIN down /\ down'[i] = down[i + 1]
  BY TailIs DEF SdkInv, Typed, Wires
<1>4. Typed'
  <2>1. mine' \in Nat
    BY <1>1 DEF SdkInv, Typed
  <2> QED BY <1>1, <1>3, <2>1 DEF SdkInv, Typed, Wires
<1>5. HooksGood'
  BY <1>1 DEF SdkInv, HooksGood, Hooked
<1>6. DecisionsGood'
  BY <1>1 DEF SdkInv, DecisionsGood, Items, Choice
<1>7. ClientGood'
  <2>1. hs # "none"
    BY DEF SdkInv, ClientGood
  <2>2. hs # "serving" => ~bound
    BY DEF SdkInv, ClientGood
  <2> QED BY <1>1, <2>1, <2>2 DEF ClientGood, Playing
<1>8. Idle => Idle'
  <2>1. NoStart => ~Starts(down[1])
    BY <1>3 DEF NoStart
  <2> QED BY <1>1, <1>2, <2>1 DEF Idle
<1>9. SeekGood'
  <2>1. \A i \in DOMAIN down' : down'[i].kind # "welcome"
    <3> TAKE i \in DOMAIN down'
    <3>1. i + 1 # 1
      BY <1>3
    <3> QED BY <1>3, <3>1 DEF SdkInv, FramesGood
  <2> QED BY <1>1, <1>8, <2>1 DEF SdkInv, SeekGood, Sought
<1>10. MovesGood'
  BY <1>1 DEF SdkInv, MovesGood
<1> QED BY <1>2, <1>4, <1>5, <1>6, <1>7, <1>9, <1>10 DEF SdkInv

\* The client answers the turn it reads with a frame.
LEMMA AnswerGood ==
    ASSUME SdkInv, Playing, down # <<>>, down' = Tail(down), NEW f \in Wire, up' = Append(up, f),
           f.kind # "seek", pc' \in {"turn", "ack"}, UNCHANGED <<resuming, mine, link, server, closed>>,
           chosen \subseteq chosen', chosen' \subseteq Choices,
           f.kind \in Uci => Choice(f) \in chosen' /\ f.game = game,
           pc' = "ack" => out' \in chosen' /\ out'.game = game
    PROVE  SdkInv'
<1>1. UNCHANGED <<hs, resume, seeking, bound, game, state, moves, inbound, terminal>>
  BY DEF server
<1>2. mine = game /\ mine # 0 /\ ~resuming /\ ~Idle /\ ~Sought /\ ~seeking /\ Playing'
  BY DEF SdkInv, ClientGood, SeekGood, Idle, Playing
<1>3. FramesGood'
  <2>1. pc' # "hello"
    OBVIOUS
  <2> QED BY <1>1, <2>1, ReadKeeps
<1>4. /\ up' \in Seq(Wire) /\ \A g \in Items(up') : g \in Items(up) \/ g = f
      /\ \A i \in DOMAIN up' : up'[i].kind # "seek"
  BY <1>2, UpAppends
<1>5. /\ down \in Seq(Wire) /\ down' \in Seq(Wire) /\ 1 \in DOMAIN down
      /\ \A i \in DOMAIN down' : i \in Nat /\ i >= 1 /\ i + 1 \in DOMAIN down /\ down'[i] = down[i + 1]
  BY TailIs DEF SdkInv, Typed, Wires
<1>6. Typed'
  BY <1>1, <1>4, <1>5 DEF SdkInv, Typed, Wires
<1>7. DecisionsGood'
  BY <1>1, <1>4 DEF SdkInv, DecisionsGood, Items, Choice
<1>8. ClientGood'
  <2>1. hs # "none" /\ (hs # "serving" => ~bound)
    BY DEF SdkInv, ClientGood
  <2> QED BY <1>1, <1>2, <2>1 DEF ClientGood, Playing
<1>9. HooksGood'
  BY <1>1 DEF SdkInv, HooksGood, Hooked
<1>10. SeekGood'
  <2>1. \A i \in DOMAIN down' : down'[i].kind # "welcome"
    <3> TAKE i \in DOMAIN down'
    <3>1. i + 1 # 1
      BY <1>5
    <3> QED BY <1>5, <3>1 DEF SdkInv, FramesGood
  <2>2. hs = "greeted" => resume.game # 0
    BY <1>2 DEF SdkInv, SeekGood
  <2> QED BY <1>1, <1>2, <1>4, <2>1, <2>2 DEF SeekGood, Sought
<1>11. MovesGood'
  BY <1>1 DEF SdkInv, MovesGood
<1> QED BY <1>3, <1>6, <1>7, <1>8, <1>9, <1>10, <1>11 DEF SdkInv

\* your_turn is answered with a decision for the ply it names, or a control.
LEMMA TakeTurnGood == ASSUME SdkInv, TakeTurn PROVE SdkInv'
<1>1. /\ pc \in {"turn", "ack"} /\ down # <<>> /\ Playing
      /\ UNCHANGED <<server, closed, blind, lost>>
  BY DEF TakeTurn, Got, Playing
<1>2. mine = game /\ mine \in Nat /\ chosen \subseteq Choices
  BY <1>1 DEF SdkInv, ClientGood, Typed
<1>3. Head(down) \in Wire
  BY <1>1, TailIs DEF SdkInv, Typed, Wires
<1>4. CASE link = "down" /\ Raise /\ UNCHANGED chosen
  BY <1>1, <1>4, RaiseGood DEF seen
<1>5. CASE /\ link = "up" /\ Read({"your_turn"})
           /\ pc' = "turn" /\ up' = Append(up, Request("control", mine))
           /\ out' = NoMove /\ resends' = 0 /\ acked' = FALSE
           /\ UNCHANGED <<resuming, tries, mine, link, conns, chosen>>
  <2> DEFINE f == Request("control", mine)
  <2>1. f \in Wire /\ f.kind = "control" /\ f.kind \notin Uci
    BY <1>2, MovesAreMoves DEF Request, Frame, Wire, Kinds
  <2>2. up' = Append(up, f) /\ down' = Tail(down)
    BY <1>5 DEF Read
  <2> HIDE DEF f
  <2> QED BY <1>1, <1>2, <1>5, <2>1, <2>2, AnswerGood
<1>6. CASE /\ link = "up" /\ Read({"your_turn"})
           /\ pc' = "ack" /\ resends' = 0 /\ acked' = FALSE
           /\ \E u \in Uci :
                /\ out' = [game |-> mine, ply |-> Head(down).ply, uci |-> u]
                /\ up' = Append(up, MoveFrame(out'))
                /\ chosen' = chosen \cup {out'}
           /\ UNCHANGED <<resuming, tries, mine, link, conns>>
  <2>1. PICK u \in Uci :
           /\ out' = [game |-> mine, ply |-> Head(down).ply, uci |-> u]
           /\ up' = Append(up, MoveFrame(out'))
           /\ chosen' = chosen \cup {out'}
    BY <1>6
  <2> DEFINE p == Head(down).ply
  <2>2. p \in Nat
    BY <1>3 DEF Wire
  <2> HIDE DEF p
  <2>3. out' = [game |-> mine, ply |-> p, uci |-> u]
    BY <2>1 DEF p
  <2>4. PICK f : f = [kind |-> u, game |-> mine, ply |-> p]
    OBVIOUS
  <2>5. f \in Wire /\ f.kind = u /\ f.game = mine /\ Choice(f) = out' /\ f.kind # "seek"
    BY <1>2, <2>2, <2>3, <2>4, MovesAreMoves DEF Wire, Choice
  <2>6. MoveFrame(out') = f
    BY <2>3, <2>4 DEF MoveFrame, Frame
  <2>7. out' \in Choices /\ out'.game = mine
    BY <1>2, <2>2, <2>3 DEF Choices
  <2>8. down' = Tail(down) /\ UNCHANGED <<resuming, mine, link, server, closed>>
    BY <1>1, <1>6 DEF Read
  <2>9. up' = Append(up, f) /\ out' \in chosen' /\ chosen \subseteq chosen' /\ chosen' \subseteq Choices
    BY <1>2, <2>1, <2>6, <2>7
  <2> HIDE DEF Choices, Wire
  <2> QED BY <1>1, <1>2, <1>6, <2>5, <2>7, <2>8, <2>9, AnswerGood
<1> QED BY <1>4, <1>5, <1>6 DEF TakeTurn

\* The client waited for an acknowledgement in vain: the same frame again.
LEMMA AckTimeoutGood == ASSUME SdkInv, AckTimeout PROVE SdkInv'
<1>1. pc = "ack" /\ link = "up" /\ UNCHANGED <<server, seen>>
  BY DEF AckTimeout
<1>2. CASE Raise
  BY <1>1, <1>2, RaiseGood
<1>3. CASE up' = Append(up, MoveFrame(out)) /\ UNCHANGED <<pc, resuming, mine, out, link, down>>
  <2>1. UNCHANGED <<hs, resume, seeking, bound, game, state, moves, inbound, terminal, chosen, closed>>
    BY <1>1 DEF server, seen
  <2>2. Playing /\ ~Idle /\ ~Sought /\ ~seeking
    BY <1>1 DEF SdkInv, SeekGood, Idle, Playing
  <2>3. out \in chosen /\ out.game = game /\ chosen \subseteq Choices
    BY <1>1 DEF SdkInv, DecisionsGood, Typed
  <2>4. PICK f : f = MoveFrame(out)
    OBVIOUS
  <2>5. f \in Wire /\ Choice(f) = out /\ f.game = game /\ f.kind # "seek"
    <3>1. f = [kind |-> out.uci, game |-> out.game, ply |-> out.ply]
      BY <2>4 DEF MoveFrame, Frame
    <3>2. out \in [game : Nat, ply : Nat, uci : Uci]
      BY <2>3 DEF Choices
    <3>3. out.uci \in Uci /\ out.game \in Nat /\ out.ply \in Nat
          /\ out = [game |-> out.game, ply |-> out.ply, uci |-> out.uci]
      BY <3>2
    <3>4. f \in Wire /\ f.kind = out.uci /\ f.game = out.game /\ f.ply = out.ply
      BY <3>1, <3>3 DEF Wire
    <3> QED BY <2>3, <3>3, <3>4, MovesAreMoves DEF Choice
  <2>6. /\ up' \in Seq(Wire) /\ \A g \in Items(up') : g \in Items(up) \/ g = f
        /\ \A i \in DOMAIN up' : up'[i].kind # "seek"
    BY <1>3, <2>2, <2>4, <2>5, UpAppends
  <2>7. Typed'
    BY <1>3, <2>1, <2>6 DEF SdkInv, Typed, Wires
  <2>8. DecisionsGood'
    <3>1. UNCHANGED <<pc, out, inbound, chosen, game, state, moves>>
      BY <1>3, <2>1
    <3>2. Choice(f) \in chosen /\ f.game = game
      BY <2>3, <2>5
    <3>3. \A g \in Items(up') : g.kind \in Uci => Choice(g) \in chosen /\ g.game = game
      BY <2>6, <3>2 DEF SdkInv, DecisionsGood
    <3> QED BY <3>1, <3>3 DEF SdkInv, DecisionsGood
  <2>9. ClientGood' /\ HooksGood' /\ MovesGood'
    BY <1>3, <2>1 DEF SdkInv, ClientGood, HooksGood, MovesGood, Hooked, Playing
  <2>10. FramesGood'
    <3>1. \A i : IsOver(down, i)' <=> IsOver(down, i)
      BY <1>3 DEF IsOver, InGame, Playing
    <3> QED BY <1>3, <2>1, <3>1 DEF SdkInv, FramesGood, Hooked
  <2>11. SeekGood'
    <3>1. hs = "greeted" => resume.game # 0
      BY <2>2 DEF SdkInv, SeekGood
    <3>2. \A i \in DOMAIN down' : down'[i].kind # "welcome"
      BY <1>1, <1>3 DEF SdkInv, FramesGood
    <3> QED BY <2>1, <2>2, <2>6, <3>1, <3>2 DEF SeekGood, Sought
  <2> QED BY <2>7, <2>8, <2>9, <2>10, <2>11 DEF SdkInv
<1> QED BY <1>2, <1>3 DEF AckTimeout

\* The first frame under way, when there is one.
LEMMA HeadIs ==
    ASSUME SdkInv, down # <<>>
    PROVE  Head(down) = down[1] /\ down[1] \in Wire /\ 1 \in DOMAIN down
BY TailIs DEF SdkInv, Typed, Wires

\* The client seeks, when welcome names no game.
LEMMA SeeksGood ==
    ASSUME SdkInv, pc = "hello", ~resuming, Read({"welcome"}), Head(down).game = 0, link = "up",
           pc' = "seek", up' = Append(up, Request("seek", 0)),
           UNCHANGED <<resuming, mine, out, link, server, seen>>
    PROVE  SdkInv'
<1>1. down # <<>> /\ down' = Tail(down) /\ down[1].kind = "welcome" /\ down[1].game = 0
      /\ 1 \in DOMAIN down
  BY HeadIs DEF Read, Got
<1>2. UNCHANGED <<hs, resume, seeking, bound, game, state, moves, inbound, terminal, chosen, closed>>
  BY DEF server, seen
<1>3. Idle /\ ~seeking /\ ~Sought /\ hs # "none" /\ ~Playing'
  BY <1>1 DEF SdkInv, SeekGood, Playing
<1>4. FramesGood' /\ NoStart'
  BY <1>1, <1>2, <1>3, ReadKeeps DEF Idle
<1>5. PICK f : f = Request("seek", 0)
  OBVIOUS
<1>6. f \in Wire /\ f.kind = "seek" /\ f.kind \notin Uci
  BY <1>5, MovesAreMoves DEF Request, Frame, Wire, Kinds
<1>7. /\ up' \in Seq(Wire) /\ \A g \in Items(up') : g \in Items(up) \/ g = f
      /\ \A i \in DOMAIN up' : up'[i].kind = "seek" => i = Len(up')
  BY <1>3, <1>5, <1>6, UpAppends
<1>8. /\ down' \in Seq(Wire)
      /\ \A i \in DOMAIN down' : i \in Nat /\ i >= 1 /\ i + 1 \in DOMAIN down /\ down'[i] = down[i + 1]
  BY <1>1, TailIs DEF SdkInv, Typed, Wires
<1>9. Typed'
  BY <1>2, <1>7, <1>8 DEF SdkInv, Typed, Wires
<1>10. DecisionsGood'
  BY <1>2, <1>6, <1>7 DEF SdkInv, DecisionsGood, Items, Choice
<1>11. ClientGood'
  BY <1>2, <1>3 DEF SdkInv, ClientGood, Playing
<1>12. HooksGood' /\ MovesGood'
  BY <1>2 DEF SdkInv, HooksGood, MovesGood, Hooked
<1>13. SeekGood'
  <2>1. \A i \in DOMAIN down' : down'[i].kind # "welcome"
    BY <1>4 DEF FramesGood
  <2>2. Idle'
    BY <1>2, <1>3, <1>4 DEF Idle
  <2> QED BY <1>2, <1>3, <1>7, <2>1, <2>2 DEF SeekGood
<1> QED BY <1>4, <1>9, <1>10, <1>11, <1>12, <1>13 DEF SdkInv

\* welcome names the game that is resumed, or a seek is sent.
LEMMA WelcomedGood == ASSUME SdkInv, Welcomed PROVE SdkInv'
<1>1. pc = "hello" /\ ~resuming /\ ~Playing /\ UNCHANGED <<server, seen>>
  BY DEF Welcomed, Playing
<1>2. CASE /\ Read({"welcome"}) /\ Head(down).game # 0
           /\ pc' = "turn" /\ mine' = Head(down).game
           /\ UNCHANGED <<resuming, tries, out, resends, acked, link, conns, up>>
  <2>1. down # <<>> /\ down' = Tail(down) /\ down[1].kind = "welcome" /\ mine' = down[1].game
        /\ 1 \in DOMAIN down /\ mine' # 0
    BY <1>2, HeadIs DEF Read, Got
  <2>2. Starts(down[1])
    BY <1>2, <2>1 DEF Starts
  <2>3. mine' = game
    BY <2>1, <2>2 DEF SdkInv, FramesGood
  <2>4. pc' # "hello" /\ resuming' = FALSE /\ Playing'
    BY <1>1, <1>2 DEF Playing, SdkInv, Typed
  <2> QED BY <1>1, <1>2, <2>1, <2>2, <2>3, <2>4, ReadGood
<1>3. CASE /\ Read({"welcome"}) /\ Head(down).game = 0 /\ link = "up"
           /\ pc' = "seek" /\ up' = Append(up, Request("seek", 0))
           /\ UNCHANGED <<resuming, tries, mine, out, resends, acked, link, conns>>
  BY <1>1, <1>3, SeeksGood
<1>4. CASE Got({"welcome"}) /\ Head(down).game = 0 /\ link = "down" /\ Raise
  BY <1>1, <1>4, RaiseGood
<1> QED BY <1>2, <1>3, <1>4 DEF Welcomed

\* The game has ended meanwhile.
LEMMA EndedGood == ASSUME SdkInv, GameEnded, UNCHANGED <<up, server, seen>> PROVE SdkInv'
<1>1. pc' = "closed" /\ link' = "down" /\ down' = <<>> /\ Forgotten
  BY DEF GameEnded
<1>2. UNCHANGED <<chosen, closed, game, state>>
  BY DEF seen, server
<1>3. HooksGood' /\ closed' \in Calls
  BY <1>2 DEF SdkInv, Typed, HooksGood, Hooked
<1> QED BY <1>1, <1>2, <1>3, LeavesGood

\* welcome after a reconnect: the same game goes on, or it has ended.
LEMMA WelcomedBackGood == ASSUME SdkInv, WelcomedBack PROVE SdkInv'
<1>1. pc = "hello" /\ resuming /\ ~Playing /\ UNCHANGED <<up, server, seen>>
  BY DEF WelcomedBack, Playing
<1>2. CASE /\ Read({"welcome"}) /\ Head(down).game = mine
           /\ pc' = "turn" /\ resuming' = FALSE /\ tries' = 0
           /\ UNCHANGED <<mine, out, resends, acked, link>>
  <2>1. down # <<>> /\ down' = Tail(down) /\ down[1].kind = "welcome" /\ mine = down[1].game
    BY <1>2, HeadIs DEF Read, Got
  <2>2. mine' = game /\ mine' # 0
    BY <1>1, <1>2 DEF SdkInv, ClientGood
  <2>3. Starts(down[1])
    BY <1>2, <2>1, <2>2 DEF Starts
  <2>4. pc' # "hello" /\ Playing'
    BY <1>2 DEF Playing
  <2> QED BY <1>1, <1>2, <2>1, <2>2, <2>3, <2>4, ReadGood
<1>3. CASE Got({"welcome"}) /\ Head(down).game # mine /\ GameEnded
  BY <1>1, <1>3, EndedGood
<1> QED BY <1>2, <1>3 DEF WelcomedBack

\* While a game is sought, only game_start puts the client in one.
LEMMA AwaitGameStartGood == ASSUME SdkInv, AwaitGameStart PROVE SdkInv'
<1>1. pc = "seek" /\ ~Playing /\ UNCHANGED <<resuming, out, link, up, server, seen>>
  BY DEF AwaitGameStart, Playing
<1>2. ~resuming /\ resuming' = FALSE /\ mine = 0
  BY <1>1 DEF SdkInv, ClientGood, Typed
<1>3. CASE Read({"game_start"}) /\ pc' = "turn" /\ mine' = Head(down).game
  <2>1. down # <<>> /\ down' = Tail(down) /\ down[1].kind = "game_start" /\ mine' = down[1].game
        /\ 1 \in DOMAIN down
    BY <1>3, HeadIs DEF Read, Got
  <2>2. Starts(down[1])
    BY <2>1 DEF Starts
  <2>3. mine' = game /\ game # 0
    BY <2>1, <2>2 DEF SdkInv, FramesGood
  <2>4. game' = game
    BY <1>1 DEF server
  <2>5. pc' # "hello" /\ Playing' /\ pc' \in {pc, "turn"}
    BY <1>3 DEF Playing
  <2> QED BY <1>1, <1>2, <2>1, <2>2, <2>3, <2>5, ReadGood
<1>4. CASE Read({"seek_ack", "error", "game_over"}) /\ UNCHANGED <<pc, mine>>
  <2>1. down # <<>> /\ down' = Tail(down)
    BY <1>4 DEF Read, Got
  <2>2. pc' # "hello" /\ ~Playing' /\ pc' \in {pc, "turn"}
    BY <1>1, <1>4 DEF Playing
  <2> QED BY <1>1, <1>2, <1>4, <2>1, <2>2, ReadGood
<1> QED BY <1>3, <1>4 DEF AwaitGameStart

\* The hook is called: for the game the client plays, and not a second time.
LEMMA TakeGameOverGood == ASSUME SdkInv, TakeGameOver PROVE SdkInv'
<1>1. /\ Playing /\ down # <<>> /\ Head(down).kind = "game_over" /\ GameEnded
      /\ closed' = Append(closed, <<mine, Head(down).game>>) /\ UNCHANGED <<up, server, chosen>>
  BY DEF TakeGameOver, Got, Playing
<1>2. UNCHANGED <<game, state>>
  BY <1>1 DEF server
<1>3. mine = game /\ game \in Nat /\ closed \in Calls
  BY <1>1 DEF SdkInv, ClientGood, Typed
<1>4. IsOver(down, 1) /\ Head(down) = down[1]
  BY <1>1, HeadIs DEF IsOver, InGame
<1>5. Head(down).game = game /\ state # "running" /\ ~Hooked
  BY <1>4 DEF SdkInv, FramesGood
<1>6. PICK c : c = <<game, game>>
  OBVIOUS
<1>7. c \in Nat \X Nat /\ c[1] = game /\ c[2] = game /\ c \notin Items(closed)
  BY <1>3, <1>5, <1>6 DEF Hooked
<1>8. closed' = Append(closed, c)
  BY <1>1, <1>3, <1>5, <1>6
<1>9. /\ closed' \in Calls /\ Len(closed) \in Nat
      /\ \A i \in DOMAIN closed' : (i \in DOMAIN closed /\ closed'[i] = closed[i])
                                   \/ (i = Len(closed) + 1 /\ closed'[i] = c)
  <2> DEFINE C == Nat \X Nat
  <2>1. closed \in Seq(C) /\ c \in C
    BY <1>3, <1>7 DEF Calls
  <2> HIDE DEF C
  <2>2. /\ closed' \in Seq(C) /\ Len(closed) \in Nat
        /\ \A i \in DOMAIN closed' : (i \in DOMAIN closed /\ closed'[i] = closed[i])
                                     \/ (i = Len(closed) + 1 /\ closed'[i] = c)
    BY <1>8, <2>1
  <2> QED BY <2>2 DEF Calls, C
<1>10. \A i \in DOMAIN closed' : closed'[i][1] = closed'[i][2] /\ closed'[i][1] <= game
  BY <1>3, <1>7, <1>9 DEF SdkInv, HooksGood
<1>11. ASSUME NEW i \in DOMAIN closed', NEW j \in DOMAIN closed', closed'[i] = closed'[j] PROVE i = j
  <2>1. \A k \in DOMAIN closed : closed[k] # c
    BY <1>7 DEF Items
  <2> QED BY <1>9, <1>11, <2>1 DEF SdkInv, HooksGood
<1>12. HooksGood'
  BY <1>2, <1>5, <1>10, <1>11 DEF HooksGood
<1>13. pc' \in {"closed", "failed"} /\ link' = "down" /\ down' = <<>> /\ Forgotten
  BY <1>1 DEF GameEnded
<1> QED BY <1>1, <1>9, <1>12, <1>13, LeavesGood

\* A frame the client does not act upon.
LEMMA SkipGood == ASSUME SdkInv, Skip PROVE SdkInv'
<1>1. /\ pc \in {"turn", "ack"} /\ down # <<>> /\ down' = Tail(down)
      /\ UNCHANGED <<pc, resuming, mine, out, link, up, server, seen>>
  BY DEF Skip, Read, Got
<1>2. Playing /\ Playing' /\ ~resuming /\ resuming' = FALSE /\ mine = game /\ mine # 0
  BY <1>1 DEF SdkInv, ClientGood, Typed, Playing
<1> QED BY <1>1, <1>2, ReadGood

\* Nothing is under way to the client, and it stays so.
LEMMA SilentGood ==
    ASSUME SdkInv, down = <<>>, down' = <<>>, link = "down", link' = "down", pc' = "open", ~resuming \/ Playing,
           UNCHANGED <<mine, up, server, chosen, closed>>,
           resuming' \in BOOLEAN, resuming' <=> Playing
    PROVE  SdkInv'
<1>1. UNCHANGED <<hs, resume, seeking, bound, game, state, moves, inbound, terminal>>
  BY DEF server
<1>2. Typed'
  BY <1>1 DEF SdkInv, Typed
<1>3. DecisionsGood'
  BY <1>1 DEF SdkInv, DecisionsGood, Items, Choice
<1>4. ClientGood'
  BY <1>1 DEF SdkInv, ClientGood, Playing
<1>5. FramesGood'
  BY DEF FramesGood, IsOver
<1>6. SeekGood'
  <2>1. Idle => Idle' /\ ~Playing
    BY <1>1 DEF Idle, Playing, NoStart
  <2> QED BY <1>1, <2>1 DEF SdkInv, SeekGood, Sought
<1>7. HooksGood' /\ MovesGood'
  BY <1>1 DEF SdkInv, HooksGood, MovesGood, Hooked
<1> QED BY <1>2, <1>3, <1>4, <1>5, <1>6, <1>7 DEF SdkInv

\* The connection closes in a game: a reconnect, or an exception.
LEMMA ClosedGood == ASSUME SdkInv, Closed PROVE SdkInv'
<1>1. link = "down" /\ down = <<>> /\ UNCHANGED <<server, seen>>
  BY DEF Closed
<1>2. CASE pc = "ack"
  <2>1. pc' = "open" /\ resuming' = TRUE /\ UNCHANGED <<mine, wires>> /\ Playing
    BY <1>2 DEF Closed, Playing
  <2> QED BY <1>1, <2>1, SilentGood DEF wires, seen
<1>3. CASE pc # "ack"
  BY <1>1, <1>3, RaiseGood DEF Closed
<1> QED BY <1>2, <1>3

\* The next round, after the one that ended or raised.
LEMMA PlayAgainGood == ASSUME SdkInv, PlayAgain PROVE SdkInv'
<1>1. /\ pc \in {"closed", "failed"} /\ pc' = "open"
      /\ UNCHANGED <<resuming, mine, wires, server, seen>>
  BY DEF PlayAgain
<1>2. ~resuming /\ ~resuming' /\ ~Playing /\ link = "down" /\ down = <<>>
  BY <1>1 DEF SdkInv, ClientGood, Playing
<1>3. resuming' \in BOOLEAN
  BY <1>1 DEF SdkInv, Typed
<1> QED BY <1>1, <1>2, <1>3, SilentGood DEF wires, seen

-----------------------------------------------------------------------------
(* The connection and the server. *)

\* A prefix of what was under way is left.
LEMMA DropGood == ASSUME SdkInv, Drop PROVE SdkInv'
<1>1. PICK m \in 0 .. Len(down), n \in 0 .. Len(up) : down' = Prefix(down, m) /\ up' = Prefix(up, n)
  BY DEF Drop, Prefix
<1>2. link' = "down" /\ UNCHANGED <<client, server, seen>> /\ link = "up"
  BY DEF Drop
<1>3. UNCHANGED <<pc, resuming, mine, out, hs, resume, seeking, bound, game, state, moves, inbound,
                  terminal, chosen, closed>>
  BY <1>2 DEF client, server, seen
<1>4. /\ down' \in Seq(Wire)
      /\ \A i \in DOMAIN down' : i \in DOMAIN down /\ down'[i] = down[i]
  BY <1>1, PrefixIs DEF SdkInv, Typed, Wires
<1>5. /\ up' \in Seq(Wire) /\ Len(up') = n
      /\ \A i \in DOMAIN up' : i \in DOMAIN up /\ i <= n /\ up'[i] = up[i]
  BY <1>1, PrefixIs DEF SdkInv, Typed, Wires
<1>6. Typed'
  BY <1>2, <1>3, <1>4, <1>5 DEF SdkInv, Typed, Wires
<1>7. DecisionsGood'
  BY <1>3, <1>5 DEF SdkInv, DecisionsGood, Items, Choice
<1>8. ClientGood'
  <2>1. pc \notin {"open", "closed", "failed"}
    BY <1>2 DEF SdkInv, ClientGood
  <2>2. hs = "none" => down' = <<>>
    <3>1. hs = "none" => Len(down) = 0
      BY DEF SdkInv, ClientGood
    <3>2. hs = "none" => m = 0
      BY <3>1
    <3>3. Len(down') = m
      BY <1>1, PrefixIs DEF SdkInv, Typed, Wires
    <3> HIDE DEF Wire
    <3> QED BY <1>4, <3>2, <3>3
  <2> QED BY <1>2, <1>3, <2>1, <2>2 DEF SdkInv, ClientGood, Playing
<1>9. FramesGood'
  <2>1. \A i : IsOver(down, i)' => IsOver(down, i) /\ i \in DOMAIN down'
    BY <1>3, <1>4 DEF IsOver, InGame, Playing
  <2>2. pc = "hello" /\ down' # <<>> => down'[1].kind = "welcome"
    <3>1. down' # <<>> => 1 \in DOMAIN down'
      BY <1>4, TailIs
    <3>2. down # <<>> \/ down = <<>>
      OBVIOUS
    <3>3. down' # <<>> => down # <<>>
      BY <1>4, <3>1
    <3> QED BY <1>4, <3>1, <3>3 DEF SdkInv, FramesGood
  <2> QED BY <1>3, <1>4, <2>1, <2>2 DEF SdkInv, FramesGood, Hooked
<1>10. SeekGood'
  <2>1. seeking => up' = <<>>
    <3>1. seeking => Len(up) = 0
      BY DEF SdkInv, SeekGood
    <3>2. seeking => n = 0
      BY <3>1
    <3> HIDE DEF Wire
    <3> QED BY <1>5, <3>2
  <2>2. \A i \in DOMAIN up' : up'[i].kind = "seek" => i = Len(up')
    <3> SUFFICES ASSUME NEW i \in DOMAIN up', up'[i].kind = "seek" PROVE i = Len(up')
      OBVIOUS
    <3>1. i = Len(up) /\ i <= n
      BY <1>5 DEF SdkInv, SeekGood
    <3>2. Len(up) \in Nat /\ n <= Len(up)
      BY DEF SdkInv, Typed, Wires
    <3> QED BY <1>5, <3>1, <3>2
  <2>3. (Sought' => Sought) /\ (NoStart => NoStart')
    BY <1>4, <1>5 DEF Sought, NoStart
  <2>4. Idle => Idle'
    BY <1>3, <2>3 DEF Idle, Playing
  <2> QED BY <1>3, <1>4, <2>1, <2>2, <2>3, <2>4 DEF SdkInv, SeekGood
<1>11. HooksGood' /\ MovesGood'
  BY <1>3 DEF SdkInv, HooksGood, MovesGood, Hooked
<1> QED BY <1>6, <1>7, <1>8, <1>9, <1>10, <1>11 DEF SdkInv

\* The frames fr are sent, if they can be.
Sends(fr) == down' = down \/ (link = "up" /\ hs # "none" /\ down' = Both(down, fr))

\* Both ways of sending send only to a client that is connected and served.
LEMMA SentSends ==
    ASSUME SdkInv, NEW fr, SeatSent(fr) \/ Reply(fr) PROVE Sends(fr)
<1>1. bound => hs = "serving"
  BY DEF SdkInv, ClientGood
<1> QED BY <1>1 DEF SeatSent, Reply, Sent, Sends, Both

\* What the server sends after a handshake: no start of a game, and a game_over last, of
\* the game that ends by this step, or to a client that is in none.
Neutral(f) == f.kind \notin {"welcome", "game_start", "game_over"}
Tells(fr) ==
    /\ fr \in Seq(Wire)
    /\ \A k \in DOMAIN fr : Neutral(fr[k]) \/
          /\ fr[k].kind = "game_over" /\ k = Len(fr)
          /\ \/ ~Playing /\ NoStart
             \/ fr[k].game = game /\ state = "running" /\ state' # "running"

\* A step that sends such frames and starts no game keeps the invariant, if the server's
\* own state does.
LEMMA TellsGood ==
    ASSUME SdkInv, NEW fr, Tells(fr), Sends(fr),
           UNCHANGED <<client, link, game, chosen, closed>>,
           hs' \in {hs, "serving"}, hs' = "serving" => hs # "none", bound' \in BOOLEAN,
           hs' # "serving" => ~bound', hs' = "greeted" => resume'.game = resume.game /\ seeking' = FALSE,
           state' = "running" => state = "running", state = "none" => state' = "none",
           resume'.game \in Nat, state' \in {"none", "running", "told"}, seeking' \in BOOLEAN,
           up' \in Wires, inbound' \in Wires, moves' \in Boards, terminal' \in Nat,
           DecisionsGood', MovesGood', seeking' => up' = <<>>,
           \A i \in DOMAIN up' : up'[i].kind = "seek" => i = Len(up'),
           seeking' \/ Sought' => seeking \/ Sought
    PROVE  SdkInv'
<1>1. UNCHANGED <<pc, resuming, mine, out>>
  BY DEF client
<1>2. \A k \in DOMAIN fr :
          /\ fr[k].kind \notin {"welcome", "game_start"}
          /\ fr[k].kind = "game_over" => k = Len(fr)
          /\ fr[k].kind = "game_over" =>
                \/ ~Playing /\ NoStart
                \/ fr[k].game = game /\ state = "running" /\ state' # "running"
  BY DEF Tells, Neutral
<1>3. fr \in Seq(Wire)
  BY DEF Tells
<1>4. /\ FramesGood' /\ (NoStart => NoStart') /\ down' \in Seq(Wire)
      /\ down # <<>> => down' # <<>>
      /\ \A i \in DOMAIN down' : down'[i].kind = "welcome" => i \in DOMAIN down /\ down[i] = down'[i]
  BY <1>1, <1>2, <1>3, SentKeeps DEF Sends
<1>5. Typed'
  BY <1>1, <1>4 DEF SdkInv, Typed, Wires
<1>6. ClientGood'
  <2>1. hs = "none" => down' = <<>>
    BY DEF SdkInv, ClientGood, Sends
  <2>2. pc \in {"open", "closed", "failed"} => link = "down" /\ down' = <<>>
    BY DEF SdkInv, ClientGood, Sends
  <2>3. pc = "hello" /\ link = "up" /\ hs # "none" => down' # <<>>
    BY <1>4 DEF SdkInv, ClientGood
  <2> QED BY <1>1, <2>1, <2>2, <2>3 DEF SdkInv, ClientGood, Playing
<1>7. Idle => Idle'
  BY <1>1, <1>4 DEF Idle, Playing
<1>8. SeekGood'
  <2>1. hs' = "none" => hs = "none"
    OBVIOUS
  <2>2. hs' = "greeted" => hs = "greeted"
    OBVIOUS
  <2>3. \A i \in DOMAIN down' : down'[i].kind = "welcome" /\ down'[i].game = 0 =>
            Idle' /\ ~seeking' /\ ~Sought' /\ hs' # "none"
    BY <1>4, <1>7, <2>1 DEF SdkInv, SeekGood
  <2>4. seeking' \/ Sought' => Idle' /\ ~resuming'
    BY <1>1, <1>7 DEF SdkInv, SeekGood
  <2>5. hs' = "greeted" /\ resume'.game = 0 => Idle'
    BY <1>7, <2>2 DEF SdkInv, SeekGood
  <2> QED BY <2>3, <2>4, <2>5 DEF SeekGood
<1>9. HooksGood'
  BY DEF SdkInv, HooksGood, Hooked
<1> QED BY <1>4, <1>5, <1>6, <1>8, <1>9 DEF SdkInv

\* One frame, and none.
LEMMA OneTells ==
    ASSUME NEW f \in Wire, Neutral(f) PROVE Tells(<<f>>)
<1> HIDE DEF Wire
<1>1. <<f>> \in Seq(Wire) /\ \A k \in DOMAIN <<f>> : <<f>>[k] = f
  OBVIOUS
<1> QED BY <1>1 DEF Tells

\* Nothing is sent.
LEMMA NoneTells == Tells(<<>>)
<1> HIDE DEF Wire
<1> QED BY DEF Tells

\* A handshake: welcome is the first frame under way.
LEMMA RegisterGood == ASSUME SdkInv, Register PROVE SdkInv'
<1>1. /\ pc = "hello" /\ link = "up" /\ hs = "none" /\ hs' = "greeted" /\ up' = <<>>
      /\ seeking' = FALSE /\ bound' = FALSE
      /\ resume'.game = (IF state = "none" THEN 0 ELSE game)
      /\ Sent(<<Frame("welcome", resume'.game, 0)>>)
      /\ UNCHANGED <<client, link, game, state, moves, inbound, terminal, chosen, closed>>
  BY DEF Register
<1>2. UNCHANGED <<pc, resuming, mine, out>> /\ ~Playing /\ ~Playing'
  BY <1>1 DEF client, Playing
<1>3. game \in Nat /\ resume'.game \in Nat /\ (resume'.game # 0 => resume'.game = game)
      /\ (resume'.game = 0 => state = "none")
  BY <1>1 DEF SdkInv, Typed, DecisionsGood
<1>4. PICK f : f = Frame("welcome", resume'.game, 0)
  OBVIOUS
<1>5. f \in Wire /\ f.kind = "welcome" /\ f.game = resume'.game
  BY <1>3, <1>4 DEF Frame, Wire, Kinds
<1>6. down' \in Seq(Wire) /\ down' # <<>> /\ \A i \in DOMAIN down' : i = 1 /\ down'[i] = f
  <2>1. down = <<>>
    BY <1>1 DEF SdkInv, ClientGood
  <2>2. down' = down \o <<f>>
    BY <1>1, <1>4 DEF Sent
  <2> HIDE DEF Wire
  <2>3. down' = <<f>>
    BY <1>5, <2>1, <2>2
  <2> QED BY <1>5, <2>3
<1>7. 1 \in DOMAIN down' /\ down'[1] = f
  BY <1>6, TailIs
<1>8. Typed'
  BY <1>1, <1>2, <1>3, <1>6, NoneUnderWay DEF SdkInv, Typed, Wires
<1>9. DecisionsGood'
  BY <1>1, <1>2 DEF SdkInv, DecisionsGood, Items, Choice
<1>10. ClientGood'
  BY <1>1, <1>2, <1>6 DEF SdkInv, ClientGood
<1>11. FramesGood'
  <2>1. \A i : ~IsOver(down, i)'
    BY <1>5, <1>6 DEF IsOver
  <2> QED BY <1>1, <1>2, <1>3, <1>5, <1>6, <1>7, <2>1 DEF FramesGood, Starts
<1>12. SeekGood'
  <2>1. f.game = 0 => Idle'
    BY <1>1, <1>2, <1>3, <1>5, <1>6 DEF Idle, NoStart, Starts
  <2> QED BY <1>1, <1>5, <1>6, <2>1 DEF SeekGood, Sought
<1>13. HooksGood' /\ MovesGood'
  BY <1>1 DEF SdkInv, HooksGood, MovesGood, Hooked
<1> QED BY <1>8, <1>9, <1>10, <1>11, <1>12, <1>13 DEF SdkInv

\* After welcome: the turn is repeated, or the end of a missed game is told.
LEMMA RebindGood == ASSUME SdkInv, Rebind PROVE SdkInv'
<1>1. /\ hs = "greeted" /\ hs' = "serving" /\ resume'.game = 0
      /\ UNCHANGED <<client, link, up, seeking, game, state, moves, inbound, chosen, closed>>
  BY DEF Rebind, seen
<1>2. UNCHANGED <<pc, out>>
  BY <1>1 DEF client
<1>3. game \in Nat /\ Len(moves) \in Nat /\ terminal \in Nat /\ up \in Wires /\ inbound \in Wires
      /\ moves \in Boards /\ state \in {"none", "running", "told"} /\ seeking \in BOOLEAN
      /\ bound \in BOOLEAN /\ 0 \in Nat /\ resume.game \in Nat
  BY DEF SdkInv, Typed, Boards
<1>4. DecisionsGood'
  BY <1>1, <1>2 DEF SdkInv, DecisionsGood, Items, Choice
<1>5. MovesGood'
  BY <1>1 DEF SdkInv, MovesGood
<1>6. seeking' = FALSE /\ \A i \in DOMAIN up' : up'[i].kind = "seek" => i = Len(up')
  BY <1>1 DEF SdkInv, SeekGood
<1>7. Sought' => Sought
  BY <1>1 DEF Sought
<1>8. CASE resume.game # 0
  <2> DEFINE fr == IF resume.onMove THEN <<Turn(resume.game)>> ELSE <<>>
  <2>1. Turn(resume.game) \in Wire /\ Neutral(Turn(resume.game))
    BY <1>3 DEF Turn, Frame, Wire, Kinds, Neutral
  <2>2. Tells(fr)
    BY <2>1, OneTells, NoneTells
  <2>3. bound' \in BOOLEAN /\ Sent(fr) /\ terminal' = terminal
    BY <1>8 DEF Rebind
  <2> HIDE DEF fr
  <2>4. Sends(fr)
    BY <1>1, <2>3 DEF Sent, Sends, Both
  <2> QED BY <1>1, <1>3, <1>4, <1>5, <1>6, <1>7, <2>2, <2>3, <2>4, TellsGood
<1>9. CASE resume.game = 0
  <2> DEFINE fr == IF terminal # 0 THEN <<Frame("game_over", terminal, 0)>> ELSE <<>>
  <2>1. PICK f : f = Frame("game_over", terminal, 0)
    OBVIOUS
  <2>2. f \in Wire /\ f.kind = "game_over"
    BY <1>3, <2>1 DEF Frame, Wire, Kinds
  <2>3. ~Playing /\ NoStart
    BY <1>1, <1>9 DEF SdkInv, SeekGood, Idle
  <2>4. Tells(<<f>>)
    <3> HIDE DEF Wire
    <3>1. /\ <<f>> \in Seq(Wire) /\ Len(<<f>>) = 1
          /\ \A k \in DOMAIN <<f>> : k = 1 /\ <<f>>[k] = f
      BY <2>2
    <3> QED BY <2>2, <2>3, <3>1 DEF Tells
  <2>5. Tells(fr)
    BY <2>1, <2>4, NoneTells
  <2>6. bound' = bound /\ Sent(fr) /\ terminal' \in Nat
    BY <1>3, <1>9 DEF Rebind
  <2> HIDE DEF fr
  <2>7. Sends(fr)
    BY <1>1, <2>6 DEF Sent, Sends, Both
  <2> QED BY <1>1, <1>3, <1>4, <1>5, <1>6, <1>7, <2>5, <2>6, <2>7, TellsGood
<1> QED BY <1>8, <1>9

\* The verdict: the last frame is the game_over of the game that ends.
LEMMA OverTells ==
    ASSUME SdkInv, NEW fr \in Seq(Wire), \A k \in DOMAIN fr : Neutral(fr[k]),
           state = "running", state' = "told"
    PROVE  Tells(Append(fr, Frame("game_over", game, 0)))
<1>1. PICK f : f = Frame("game_over", game, 0)
  OBVIOUS
<1>2. f \in Wire /\ f.kind = "game_over" /\ f.game = game
  BY <1>1 DEF Frame, Wire, Kinds, SdkInv, Typed
<1>3. /\ Append(fr, f) \in Seq(Wire) /\ Len(Append(fr, f)) = Len(fr) + 1
      /\ \A k \in DOMAIN Append(fr, f) : (k \in DOMAIN fr /\ Append(fr, f)[k] = fr[k])
                                         \/ (k = Len(fr) + 1 /\ Append(fr, f)[k] = f)
  <2> HIDE DEF Wire
  <2> QED BY <1>2
<1>4. Tells(Append(fr, f))
  BY <1>2, <1>3 DEF Tells
<1> QED BY <1>1, <1>4

\* While no game is lost, a verdict is told.
LEMMA OverIsTold ==
    ASSUME NEW fr, Over(fr), lost' = {}
    PROVE  state' = "told" /\ SeatSent(Append(fr, Frame("game_over", game, 0)))
<1>1. ~RunGameRaises(fr)
  BY DEF RunGameRaises
<1> QED BY <1>1 DEF Over

\* A step of the game: the seat is told.
LEMMA PlaysGood ==
    ASSUME SdkInv, NEW fr, Tells(fr), SeatSent(fr), state' = "running" => state = "running",
           state # "none", state' \in {"running", "told"},
           UNCHANGED <<client, link, up, hs, resume, seeking, bound, game, terminal, chosen, closed>>,
           inbound' \in Wires, Items(inbound') \subseteq Items(inbound), moves' \in Boards,
           MovesGood'
    PROVE  SdkInv'
<1>1. Sends(fr)
  BY SentSends
<1>2. UNCHANGED <<pc, out>>
  BY DEF client
<1>3. DecisionsGood'
  BY <1>2 DEF SdkInv, DecisionsGood
<1>4. up \in Wires /\ terminal \in Nat /\ resume.game \in Nat /\ seeking \in BOOLEAN /\ bound \in BOOLEAN
  BY DEF SdkInv, Typed
<1>5. (hs # "serving" => ~bound) /\ (hs = "greeted" => seeking = FALSE)
  BY <1>4 DEF SdkInv, ClientGood, SeekGood
<1>6. (seeking => up = <<>>) /\ \A i \in DOMAIN up : up[i].kind = "seek" => i = Len(up)
  BY DEF SdkInv, SeekGood
<1>7. Sought' <=> Sought
  BY DEF Sought
<1> QED BY <1>1, <1>3, <1>4, <1>5, <1>6, <1>7, TellsGood

\* A flag falls, or the opponent resigns.
LEMMA GameEndsGood == ASSUME SdkInv, GameEnds, lost' = {} PROVE SdkInv'
<1>1. /\ state = "running" /\ state' = "told" /\ SeatSent(Append(<<>>, Frame("game_over", game, 0)))
      /\ UNCHANGED <<client, link, up, hs, resume, seeking, bound, game, moves, inbound, terminal,
                     chosen, closed>>
  BY OverIsTold DEF GameEnds
<1>2. Tells(Append(<<>>, Frame("game_over", game, 0)))
  <2>1. <<>> \in Seq(Wire) /\ \A k \in DOMAIN <<>> : FALSE
    OBVIOUS
  <2> QED BY <1>1, <2>1, OverTells
<1>3. inbound' \in Wires /\ Items(inbound') \subseteq Items(inbound) /\ moves' \in Boards
      /\ MovesGood'
  BY <1>1 DEF SdkInv, Typed, Items, MovesGood
<1> QED BY <1>1, <1>2, <1>3, PlaysGood

\* The board takes a move that was chosen, or the opponent's.
LEMMA PlayedGood ==
    ASSUME SdkInv, NEW u \in Uci \cup {"theirs"}, NEW fr \in Seq(Wire),
           \A k \in DOMAIN fr : Neutral(fr[k]), state = "running", Played(u, fr),
           Len(moves) % 2 = Me => [game |-> game, ply |-> Len(moves), uci |-> u] \in chosen,
           UNCHANGED <<client, link, up, hs, resume, seeking, bound, game, terminal, chosen, closed>>,
           inbound' \in Wires, Items(inbound') \subseteq Items(inbound), lost' = {}
    PROVE  SdkInv'
<1>1. /\ moves \in Seq(Uci \cup {"theirs"}) /\ game \in Nat /\ moves' = Append(moves, u)
      /\ MovesGood
  BY DEF SdkInv, Typed, Boards, Played
<1>2. /\ moves' \in Boards /\ Len(moves) \in Nat /\ Len(moves') = Len(moves) + 1
      /\ \A p \in 1 .. Len(moves) : moves'[p] = moves[p]
      /\ moves'[Len(moves) + 1] = u
  BY <1>1 DEF Boards
<1>3. MovesGood'
  <2> SUFFICES ASSUME NEW p \in 0 .. Len(moves') - 1, p % 2 = Me
               PROVE  [game |-> game, ply |-> p, uci |-> moves'[p + 1]] \in chosen
    BY DEF MovesGood
  <2>1. CASE p = Len(moves)
    BY <1>2, <2>1
  <2>2. CASE p # Len(moves)
    <3>1. p \in 0 .. Len(moves) - 1 /\ p + 1 \in 1 .. Len(moves)
      <4>1. PICK n \in Nat : n = Len(moves) /\ n + 1 = Len(moves')
        BY <1>2
      <4>2. p \in 0 .. (n + 1) - 1 /\ p # n
        BY <2>2, <4>1
      <4>3. p \in 0 .. n - 1 /\ p + 1 \in 1 .. n
        BY <4>2
      <4> QED BY <4>1, <4>3
    <3> QED BY <1>1, <1>2, <3>1 DEF MovesGood
  <2> QED BY <2>1, <2>2
<1>4. CASE Len(moves) + 1 >= MaxPly
  <2>1. state' = "told" /\ SeatSent(Append(fr, Frame("game_over", game, 0)))
    BY <1>4, OverIsTold DEF Played
  <2>2. Tells(Append(fr, Frame("game_over", game, 0)))
    BY <2>1, OverTells
  <2> QED BY <1>2, <1>3, <2>1, <2>2, PlaysGood
<1>5. CASE ~(Len(moves) + 1 >= MaxPly)
  <2>1. PICK f : f = Frame("your_turn", game, Len(moves) + 1)
    OBVIOUS
  <2>2. f \in Wire /\ Neutral(f)
    BY <1>1, <1>2, <2>1 DEF Frame, Wire, Kinds, Neutral
  <2>3. /\ Append(fr, f) \in Seq(Wire)
        /\ \A k \in DOMAIN Append(fr, f) : (k \in DOMAIN fr /\ Append(fr, f)[k] = fr[k])
                                           \/ Append(fr, f)[k] = f
    <3> HIDE DEF Wire
    <3> QED BY <2>2
  <2>4. Tells(Append(fr, f)) /\ Tells(fr)
    BY <2>2, <2>3 DEF Tells
  <2>5. state' = state /\ (SeatSent(Append(fr, f)) \/ SeatSent(fr))
    BY <1>5, <2>1 DEF Played, RunGameRaises
  <2> QED BY <1>2, <1>3, <2>4, <2>5, PlaysGood
<1> QED BY <1>4, <1>5

\* The opponent moves: the ply is not the bot's.
LEMMA OpponentMovesGood == ASSUME SdkInv, OpponentMoves, lost' = {} PROVE SdkInv'
<1>1. /\ state = "running" /\ Len(moves) % 2 # Me /\ Played("theirs", <<>>)
      /\ UNCHANGED <<client, link, up, hs, resume, seeking, bound, game, inbound, terminal,
                     chosen, closed>>
  BY DEF OpponentMoves, OnMove
<1>2. <<>> \in Seq(Wire) /\ \A k \in DOMAIN <<>> : FALSE
  OBVIOUS
<1>3. inbound' \in Wires /\ Items(inbound') \subseteq Items(inbound)
  BY <1>1 DEF SdkInv, Typed, Items
<1> QED BY <1>1, <1>2, <1>3, PlayedGood

\* The seat reads a move: the one for this ply is a decision made for it.
LEMMA ReadMoveGood == ASSUME SdkInv, ReadMove, lost' = {} PROVE SdkInv'
<1>1. PICK f : f = Head(inbound)
  OBVIOUS
<1>2. /\ OnMove /\ inbound # <<>> /\ inbound' = Tail(inbound)
      /\ UNCHANGED <<client, link, up, hs, resume, seeking, bound, game, terminal, chosen, closed>>
  BY DEF ReadMove
<1>3. /\ inbound' \in Wires /\ f \in Wire /\ f \in Items(inbound)
      /\ Items(inbound') \subseteq Items(inbound)
  BY <1>1, <1>2, TailIs DEF SdkInv, Typed, Wires, Items
<1>4. f.kind \in Uci /\ Choice(f) \in chosen /\ f.game = game
  BY <1>3 DEF SdkInv, DecisionsGood
<1>5. f.ply \in Nat /\ game \in Nat /\ moves \in Boards /\ state = "running"
  BY <1>2, <1>3 DEF Wire, OnMove, SdkInv, Typed
<1>6. PICK a, e : a = Frame("move_ack", game, f.ply) /\ e = Frame("error", game, f.ply)
  OBVIOUS
<1>7. a \in Wire /\ Neutral(a) /\ e \in Wire /\ Neutral(e)
  BY <1>5, <1>6 DEF Frame, Wire, Kinds, Neutral
<1>8. Tells(<<a>>) /\ Tells(<<e>>) /\ Tells(<<>>)
  BY <1>7, OneTells, NoneTells
<1>9. CASE f.ply = Len(moves) /\ Played(f.kind, <<Frame("move_ack", game, f.ply)>>)
  <2>1. <<a>> \in Seq(Wire) /\ \A k \in DOMAIN <<a>> : <<a>>[k] = a
    <3> HIDE DEF Wire
    <3> QED BY <1>7
  <2>2. [game |-> game, ply |-> Len(moves), uci |-> f.kind] \in chosen
    BY <1>4, <1>9 DEF Choice
  <2>3. Played(f.kind, <<a>>)
    BY <1>6, <1>9
  <2> QED BY <1>2, <1>3, <1>4, <1>5, <1>7, <2>1, <2>2, <2>3, PlayedGood
<1>10. CASE /\ SeatSent(<<a>>) \/ SeatSent(<<e>>) \/ SeatSent(<<>>)
            /\ UNCHANGED <<state, moves>>
  <2>1. MovesGood'
    BY <1>2, <1>10 DEF SdkInv, MovesGood
  <2> QED BY <1>2, <1>3, <1>5, <1>8, <1>10, <2>1, PlaysGood
<1> QED BY <1>1, <1>6, <1>9, <1>10 DEF ReadMove

\* The endpoint reads a frame: a seek is the last one under way, and a move is a decision
\* made for the game that is played.
LEMMA ReadFrameGood == ASSUME SdkInv, ReadFrame, lost' = {} PROVE SdkInv'
<1>1. PICK f : f = Head(up)
  OBVIOUS
<1>2. /\ up # <<>> /\ hs # "greeted" /\ up' = Tail(up)
      /\ UNCHANGED <<client, link, hs, resume, bound, game, moves, terminal, chosen, closed>>
  BY DEF ReadFrame
<1>3. /\ up \in Seq(Wire) /\ up' \in Seq(Wire) /\ f = up[1] /\ f \in Wire /\ 1 \in DOMAIN up
      /\ Len(up) \in Nat /\ Len(up') = Len(up) - 1
      /\ \A i \in DOMAIN up' : i \in Nat /\ i >= 1 /\ i + 1 \in DOMAIN up /\ up'[i] = up[i + 1]
  BY <1>1, <1>2, TailIs DEF SdkInv, Typed, Wires
<1>4. Items(up') \subseteq Items(up) /\ f \in Items(up)
  BY <1>3 DEF Items
<1>5. /\ ~seeking /\ seeking = FALSE
      /\ (f.kind = "seek" => Len(up) = 1 /\ Sought)
      /\ \A i \in DOMAIN up' : up'[i].kind = "seek" => i = Len(up')
  <2>1. ~seeking /\ \A i \in DOMAIN up : up[i].kind = "seek" => i = Len(up)
    BY <1>2 DEF SdkInv, SeekGood
  <2>2. f.kind = "seek" => Len(up) = 1 /\ Sought
    BY <1>3, <2>1 DEF Sought
  <2>3. ASSUME NEW i \in DOMAIN up', up'[i].kind = "seek" PROVE i = Len(up')
    <3>1. i + 1 = Len(up) /\ i \in Nat
      BY <1>3, <2>1, <2>3
    <3> QED BY <1>3, <3>1
  <2>4. seeking = FALSE
    BY <2>1 DEF SdkInv, Typed
  <2> QED BY <2>1, <2>2, <2>3, <2>4
<1>6. Sought' => Sought
  BY <1>3 DEF Sought
<1>7. UNCHANGED <<pc, out>>
  BY <1>2 DEF client
<1>8. /\ bound \in BOOLEAN /\ resume.game \in Nat /\ moves \in Boards /\ terminal \in Nat
      /\ state \in {"none", "running", "told"} /\ inbound \in Seq(Wire) /\ up' \in Wires
      /\ (hs # "serving" => ~bound) /\ TRUE \in BOOLEAN /\ FALSE \in BOOLEAN
  BY <1>3 DEF SdkInv, Typed, ClientGood, Wires
<1>9. MovesGood'
  BY <1>2 DEF SdkInv, MovesGood
<1>10. CASE f.kind = "seek" /\ seeking' = TRUE /\ Reply(<<Frame("seek_ack", 0, 0)>>)
            /\ UNCHANGED <<state, inbound>>
  <2>1. Tells(<<Frame("seek_ack", 0, 0)>>)
    <3>1. PICK a : a = Frame("seek_ack", 0, 0)
      OBVIOUS
    <3>2. a \in Wire /\ Neutral(a)
      BY <3>1 DEF Frame, Wire, Kinds, Neutral
    <3> QED BY <3>1, <3>2, OneTells
  <2>2. Sends(<<Frame("seek_ack", 0, 0)>>)
    BY <1>10, SentSends
  <2>3. DecisionsGood'
    BY <1>2, <1>4, <1>7, <1>10 DEF SdkInv, DecisionsGood
  <2>4. up' = <<>>
    <3> HIDE DEF Wire
    <3> QED BY <1>3, <1>5, <1>10
  <2>5. inbound' \in Wires
    BY <1>8, <1>10 DEF Wires
  <2> QED BY <1>2, <1>5, <1>8, <1>9, <1>10, <2>1, <2>2, <2>3, <2>4, <2>5, TellsGood
<1>11. CASE f.kind = "control" /\ state = "running" /\ Over(<<>>) /\ UNCHANGED <<seeking, inbound>>
  <2>1. state' = "told" /\ SeatSent(Append(<<>>, Frame("game_over", game, 0)))
    BY <1>11, OverIsTold
  <2>2. Tells(Append(<<>>, Frame("game_over", game, 0)))
    <3>1. <<>> \in Seq(Wire) /\ \A k \in DOMAIN <<>> : FALSE
      OBVIOUS
    <3> QED BY <1>11, <2>1, <3>1, OverTells
  <2>3. Sends(Append(<<>>, Frame("game_over", game, 0)))
    BY <2>1, SentSends
  <2>4. DecisionsGood'
    BY <1>2, <1>4, <1>7, <1>11, <2>1 DEF SdkInv, DecisionsGood
  <2>5. inbound' \in Wires
    BY <1>8, <1>11 DEF Wires
  <2> QED BY <1>2, <1>5, <1>6, <1>8, <1>9, <1>11, <2>1, <2>2, <2>3, <2>4, <2>5, TellsGood
<1>12. CASE UNCHANGED <<down, state, seeking, inbound>>
  <2>1. Tells(<<>>) /\ Sends(<<>>)
    BY <1>12, NoneTells DEF Sends
  <2>2. DecisionsGood'
    BY <1>2, <1>4, <1>7, <1>12 DEF SdkInv, DecisionsGood
  <2>3. inbound' \in Wires
    BY <1>8, <1>12 DEF Wires
  <2> QED BY <1>2, <1>5, <1>6, <1>8, <1>9, <1>12, <2>1, <2>2, <2>3, TellsGood
<1>13. CASE f.kind \in Uci /\ state = "none" /\ Reply(<<Frame("error", 0, 0)>>)
            /\ UNCHANGED <<inbound, state, seeking>>
  <2>1. Tells(<<Frame("error", 0, 0)>>)
    <3>1. PICK a : a = Frame("error", 0, 0)
      OBVIOUS
    <3>2. a \in Wire /\ Neutral(a)
      BY <3>1 DEF Frame, Wire, Kinds, Neutral
    <3> QED BY <3>1, <3>2, OneTells
  <2>2. Sends(<<Frame("error", 0, 0)>>)
    BY <1>13, SentSends
  <2>3. DecisionsGood'
    BY <1>2, <1>4, <1>7, <1>13 DEF SdkInv, DecisionsGood
  <2>4. inbound' \in Wires
    BY <1>8, <1>13 DEF Wires
  <2> QED BY <1>2, <1>5, <1>6, <1>8, <1>9, <1>13, <2>1, <2>2, <2>3, <2>4, TellsGood
<1>14. CASE f.kind \in Uci /\ state # "none" /\ inbound' = Append(inbound, f)
            /\ UNCHANGED <<down, state, seeking>>
  <2>1. Tells(<<>>) /\ Sends(<<>>)
    BY <1>14, NoneTells DEF Sends
  <2>2. inbound' \in Seq(Wire) /\ \A g \in Items(inbound') : g \in Items(inbound) \/ g = f
    <3> HIDE DEF Wire
    <3>1. /\ inbound' \in Seq(Wire)
          /\ \A i \in DOMAIN inbound' : (i \in DOMAIN inbound /\ inbound'[i] = inbound[i]) \/ inbound'[i] = f
      BY <1>3, <1>8, <1>14
    <3> QED BY <3>1 DEF Items
  <2>3. Choice(f) \in chosen /\ f.game = game
    BY <1>4, <1>14 DEF SdkInv, DecisionsGood
  <2>4. DecisionsGood'
    BY <1>2, <1>4, <1>7, <1>14, <2>2, <2>3 DEF SdkInv, DecisionsGood
  <2>5. inbound' \in Wires
    BY <2>2 DEF Wires
  <2> QED BY <1>2, <1>5, <1>6, <1>8, <1>9, <1>14, <2>1, <2>4, <2>5, TellsGood
<1> QED BY <1>1, <1>10, <1>11, <1>12, <1>13, <1>14 DEF ReadFrame

\* The game leaves the index; since it was in it, no seek waits.
LEMMA UnbindGood == ASSUME SdkInv, Unbind PROVE SdkInv'
<1>1. /\ state = "told" /\ state' = "none" /\ terminal' = game /\ inbound' = <<>>
      /\ UNCHANGED <<pc, resuming, mine, out, link, up, down, hs, resume, seeking, bound, game,
                     moves, chosen, closed>>
  BY DEF Unbind, client, wires, seen
<1>2. Typed'
  BY <1>1, NoneUnderWay DEF SdkInv, Typed
<1>3. DecisionsGood'
  BY <1>1 DEF SdkInv, DecisionsGood, Items, Choice
<1>4. ClientGood'
  BY <1>1 DEF SdkInv, ClientGood, Playing
<1>5. FramesGood'
  <2>1. \A i : IsOver(down, i)' <=> IsOver(down, i)
    BY <1>1 DEF IsOver, InGame, Playing
  <2> QED BY <1>1, <2>1 DEF SdkInv, FramesGood, Hooked
<1>6. SeekGood'
  <2>1. ~Idle
    BY <1>1 DEF Idle
  <2> QED BY <1>1, <2>1 DEF SdkInv, SeekGood, Sought
<1>7. HooksGood' /\ MovesGood'
  BY <1>1 DEF SdkInv, HooksGood, MovesGood
<1> QED BY <1>2, <1>3, <1>4, <1>5, <1>6, <1>7 DEF SdkInv

\* A game is made of the seek: the client is in no game and has read or sent all before it.
LEMMA GameStartsGood == ASSUME SdkInv, GameStarts, lost' = {} PROVE SdkInv'
<1>1. /\ seeking /\ state = "none" /\ seeking' = FALSE /\ game' = game + 1 /\ state' = "running"
      /\ bound' = (hs = "serving") /\ chosen' = {c \in chosen : c.game > game}
      /\ moves' = <<>> /\ inbound' = <<>>
      /\ UNCHANGED <<client, link, up, hs, resume, terminal, closed>>
  <2>1. state = "none"
    BY DEF GameStarts, NewGame, SdkInv, Typed
  <2>2. PICK starts \in BOOLEAN : state' = (IF starts THEN "running" ELSE "stuck")
                                 /\ lost' = (IF starts THEN lost ELSE lost \cup {game + 1})
    BY DEF GameStarts
  <2>3. state' = "running"
    BY <2>2
  <2> QED BY <2>1, <2>3 DEF GameStarts, NewGame
<1>2. UNCHANGED <<pc, resuming, mine, out>> /\ ~Playing /\ ~Playing' /\ NoStart /\ up = <<>>
      /\ ~Sought /\ ~resuming /\ hs # "greeted"
  BY <1>1 DEF client, Playing, SdkInv, SeekGood, Idle, Sought
<1>3. game \in Nat /\ game + 1 # 0 /\ game + 1 \in Nat
      /\ down \in Seq(Wire) /\ 0 \in Nat /\ closed \in Calls
  BY DEF SdkInv, Typed, Wires
<1>4. PICK s : s = Frame("game_start", game + 1, 0)
  OBVIOUS
<1>5. PICK t : t = Frame("your_turn", game + 1, 0)
  OBVIOUS
<1>6. /\ s \in Wire /\ s.kind = "game_start" /\ s.game = game + 1
      /\ t \in Wire /\ t.kind = "your_turn"
  BY <1>3, <1>4, <1>5 DEF Frame, Wire, Kinds
<1>7. PICK fr : fr = <<s>> \o (IF Me = 0 THEN <<t>> ELSE <<>>)
  OBVIOUS
<1>8. fr \in Seq(Wire) /\ \A k \in DOMAIN fr : (k = 1 /\ fr[k] = s) \/ fr[k] = t
  <2> HIDE DEF Wire
  <2>1. CASE Me = 0
    <3>1. fr = <<s>> \o <<t>>
      BY <1>7, <2>1
    <3>2. <<s>> \in Seq(Wire) /\ <<t>> \in Seq(Wire) /\ Len(<<s>>) = 1 /\ Len(<<t>>) = 1
          /\ <<s>>[1] = s /\ <<t>>[1] = t
      BY <1>6
    <3>3. /\ fr \in Seq(Wire) /\ Len(fr) = 2
          /\ \A k \in 1 .. 2 : fr[k] = IF k <= 1 THEN <<s>>[k] ELSE <<t>>[k - 1]
      BY <3>1, <3>2, ConcatProperties
    <3>4. \A k \in 1 .. 2 : (k = 1 /\ fr[k] = s) \/ (k = 2 /\ fr[k] = t)
      BY <3>2, <3>3
    <3>5. DOMAIN fr = 1 .. 2
      BY <3>3
    <3> QED BY <3>3, <3>4, <3>5
  <2>2. CASE Me # 0
    <3>1. fr = <<s>>
      BY <1>7, <2>2
    <3> QED BY <1>6, <3>1
  <2> QED BY <2>1, <2>2
<1>9. (down' = down) \/ (hs = "serving" /\ link = "up" /\ down' = Both(down, fr))
  <2>1. PICK starts \in BOOLEAN :
           /\ lost' = (IF starts THEN lost ELSE lost \cup {game + 1})
           /\ Reply(<<s>> \o (IF starts /\ Me = 0 THEN <<t>> ELSE <<>>))
    BY <1>4, <1>5 DEF GameStarts
  <2>2. Reply(fr)
    BY <1>7, <2>1
  <2> QED BY <2>2 DEF Reply, Sent, Both
<1>10. /\ down' \in Seq(Wire) /\ Len(down) \in Nat /\ DOMAIN down = 1 .. Len(down)
       /\ \A i \in DOMAIN down : i \in DOMAIN down' /\ down'[i] = down[i]
       /\ \A i \in DOMAIN down' : i \in Nat /\
             \/ i \in DOMAIN down /\ down'[i] = down[i]
             \/ i > Len(down) /\ hs = "serving" /\ link = "up" /\ (down'[i] = s \/ down'[i] = t)
  <2>1. CASE down' = down
    <3> HIDE DEF Wire
    <3> QED BY <1>3, <2>1
  <2>2. CASE hs = "serving" /\ link = "up" /\ down' = Both(down, fr)
    <3>1. /\ Both(down, fr) \in Seq(Wire) /\ Len(down) \in Nat /\ DOMAIN down = 1 .. Len(down)
          /\ \A i \in DOMAIN down : i \in DOMAIN Both(down, fr) /\ Both(down, fr)[i] = down[i]
          /\ \A i \in DOMAIN Both(down, fr) : i \in Nat /\
                \/ i \in DOMAIN down /\ Both(down, fr)[i] = down[i]
                \/ i > Len(down) /\ i - Len(down) \in DOMAIN fr /\ Both(down, fr)[i] = fr[i - Len(down)]
      BY <1>3, <1>8, BothIs
    <3> QED BY <1>8, <2>2, <3>1
  <2> QED BY <1>9, <2>1, <2>2
<1>11. \A i \in DOMAIN closed : closed[i][1] = closed[i][2] /\ closed[i][1] <= game
  BY DEF SdkInv, HooksGood
<1>12. ~Hooked'
  <2>1. \A i \in DOMAIN closed : closed[i] # <<game + 1, game + 1>>
    BY <1>3, <1>11
  <2> QED BY <1>1, <2>1 DEF Hooked, Items
<1>13. Typed'
  BY <1>1, <1>2, <1>3, <1>10, NoneUnderWay DEF SdkInv, Typed, Wires
<1>14. DecisionsGood'
  BY <1>1, <1>2, <1>3 DEF DecisionsGood, Items, Playing
<1>15. ClientGood'
  <2>1. pc = "hello" /\ link = "up" /\ hs # "none" => down' # <<>>
    <3>1. down # <<>> => 1 \in DOMAIN down
      BY <1>3, TailIs
    <3>2. down # <<>> => down' # <<>>
      BY <1>10, <3>1
    <3> QED BY <3>2 DEF SdkInv, ClientGood
  <2>2. pc \in {"open", "closed", "failed"} => link = "down" /\ down' = <<>>
    BY <1>9 DEF SdkInv, ClientGood
  <2>3. hs = "none" => down' = <<>>
    BY <1>9 DEF SdkInv, ClientGood
  <2>4. hs # "serving" => ~bound'
    BY <1>1
  <2> QED BY <1>1, <1>2, <2>1, <2>2, <2>3, <2>4 DEF SdkInv, ClientGood
<1>16. FramesGood'
  <2>1. \A i \in DOMAIN down' : Starts(down'[i]) => i \notin DOMAIN down /\ down'[i] = s
    BY <1>2, <1>6, <1>10 DEF Starts, NoStart
  <2>2. \A i \in DOMAIN down' : down'[i].kind = "game_over" => i \in DOMAIN down
    BY <1>6, <1>10
  <2>3. ASSUME NEW i, IsOver(down, i)' PROVE FALSE
    <3>1. i \in DOMAIN down' /\ down'[i].kind = "game_over" /\ InGame(down, i)'
      BY <2>3 DEF IsOver
    <3>2. PICK j \in DOMAIN down' : j < i /\ Starts(down'[j])
      BY <1>2, <3>1 DEF InGame
    <3>3. j > Len(down) /\ i \in 1 .. Len(down) /\ j \in Nat
      BY <1>10, <2>1, <2>2, <3>1, <3>2
    <3> QED BY <1>10, <3>2, <3>3
  <2>4. \A i \in DOMAIN down' : down'[i].kind = "welcome" => i = 1 /\ pc = "hello"
    BY <1>6, <1>10 DEF SdkInv, FramesGood
  <2>5. pc = "hello" /\ down' # <<>> => down'[1].kind = "welcome"
    <3> SUFFICES ASSUME pc = "hello", down' # <<>> PROVE down'[1].kind = "welcome"
      OBVIOUS
    <3>1. down # <<>>
      BY <1>9 DEF SdkInv, ClientGood
    <3>2. 1 \in DOMAIN down
      BY <1>3, <3>1, TailIs
    <3> QED BY <1>10, <3>1, <3>2 DEF SdkInv, FramesGood
  <2>6. \A i \in DOMAIN down' : Starts(down'[i]) => down'[i].game = game' /\ game' # 0
    BY <1>1, <1>3, <1>6, <2>1
  <2> QED BY <1>2, <2>3, <2>4, <2>5, <2>6 DEF FramesGood
<1>17. SeekGood'
  <2>1. \A i \in DOMAIN down' : ~(down'[i].kind = "welcome" /\ down'[i].game = 0)
    BY <1>1, <1>6, <1>10 DEF SdkInv, SeekGood
  <2>2. ~Sought' /\ up' = <<>>
    BY <1>1, <1>2 DEF Sought
  <2> QED BY <1>1, <1>2, <2>1, <2>2 DEF SeekGood
<1>18. HooksGood'
  <2>1. \A i \in DOMAIN closed : closed[i][1] <= game + 1
    <3> TAKE i \in DOMAIN closed
    <3>1. closed[i][1] \in Nat
      BY <1>3 DEF Calls
    <3> QED BY <1>3, <1>11, <3>1
  <2> QED BY <1>1, <1>11, <1>12, <2>1 DEF SdkInv, HooksGood
<1>19. MovesGood'
  BY <1>1 DEF MovesGood
<1> QED BY <1>13, <1>14, <1>15, <1>16, <1>17, <1>18, <1>19 DEF SdkInv

-----------------------------------------------------------------------------
\* A game that is lost stays so.
LEMMA LostStays == [Next]_vars => lost \subseteq lost'
<1>1. ASSUME NEW fr, Over(fr) PROVE lost \subseteq lost'
  BY <1>1 DEF Over, RunGameRaises
<1>2. ASSUME NEW u, NEW fr, Played(u, fr) PROVE lost \subseteq lost'
  BY <1>1, <1>2 DEF Played, RunGameRaises
<1>3. GameStarts => lost \subseteq lost'
  BY DEF GameStarts
<1>4. ReadFrame => lost \subseteq lost'
  BY <1>1 DEF ReadFrame
<1>5. OpponentMoves \/ ReadMove => lost \subseteq lost'
  BY <1>2 DEF OpponentMoves, ReadMove
<1>6. Client \/ PlayAgain \/ Drop => lost' = lost
  BY DEF Client, PlayAgain, Drop, Open, OpenFails, Welcomed, WelcomedBack, AwaitGameStart, TakeTurn,
         TakeGameOver, Skip, Closed, AckTimeout, seen
<1> QED BY <1>1, <1>3, <1>4, <1>5, <1>6
        DEF Next, Register, Rebind, LaunchRaises, GameEnds, NotAnnounced, Unbind, vars, seen

\* Every step that loses no game keeps the invariant.
LEMMA SdkStep == SdkInv /\ [Next]_vars /\ lost' = {} => SdkInv'
<1> SUFFICES ASSUME SdkInv, [Next]_vars, lost' = {} PROVE SdkInv'
  OBVIOUS
<1>1. CASE Client
  <2>1. CASE Open
    BY <2>1, OpenGood
  <2>2. CASE OpenFails
    BY <2>2, OpenFailsGood
  <2>3. CASE Welcomed
    BY <2>3, WelcomedGood
  <2>4. CASE WelcomedBack
    BY <2>4, WelcomedBackGood
  <2>5. CASE AwaitGameStart
    BY <2>5, AwaitGameStartGood
  <2>6. CASE TakeTurn
    BY <2>6, TakeTurnGood
  <2>7. CASE TakeGameOver
    BY <2>7, TakeGameOverGood
  <2>8. CASE Skip
    BY <2>8, SkipGood
  <2>9. CASE Closed
    BY <2>9, ClosedGood
  <2>10. CASE AckTimeout
    BY <2>10, AckTimeoutGood
  <2> QED BY <1>1, <2>1, <2>2, <2>3, <2>4, <2>5, <2>6, <2>7, <2>8, <2>9, <2>10 DEF Client
<1>2. CASE PlayAgain
  BY <1>2, PlayAgainGood
<1>3. CASE Drop
  BY <1>3, DropGood
<1>4. CASE Register
  BY <1>4, RegisterGood
<1>5. CASE Rebind
  BY <1>5, RebindGood
<1>6. CASE ReadFrame
  BY <1>6, ReadFrameGood
<1>7. CASE GameStarts
  BY <1>7, GameStartsGood
<1>8. CASE OpponentMoves
  BY <1>8, OpponentMovesGood
<1>9. CASE ReadMove
  BY <1>9, ReadMoveGood
<1>10. CASE GameEnds
  BY <1>10, GameEndsGood
<1>11. CASE Unbind
  BY <1>11, UnbindGood
<1>13. ~LaunchRaises /\ ~NotAnnounced
  BY DEF LaunchRaises, NotAnnounced
<1>12. CASE UNCHANGED vars
  <2>1. UNCHANGED <<pc, resuming, mine, out, link, up, down, hs, resume, seeking, bound, game, state,
                    moves, inbound, terminal, chosen, closed>>
    BY <1>12 DEF vars, client, server, wires, seen
  <2>2. Typed' /\ DecisionsGood' /\ ClientGood'
    BY <2>1 DEF SdkInv, Typed, DecisionsGood, ClientGood, Items, Choice, Playing
  <2>3. \A i : IsOver(down, i)' <=> IsOver(down, i)
    BY <2>1 DEF IsOver, InGame, Playing
  <2>4. FramesGood' /\ HooksGood' /\ MovesGood'
    BY <2>1, <2>3 DEF SdkInv, FramesGood, HooksGood, Hooked, MovesGood
  <2>5. SeekGood'
    BY <2>1 DEF SdkInv, SeekGood, Sought, Idle, Playing, NoStart
  <2> QED BY <2>2, <2>4, <2>5 DEF SdkInv
<1> QED BY <1>1, <1>2, <1>3, <1>4, <1>5, <1>6, <1>7, <1>8, <1>9, <1>10, <1>11, <1>12, <1>13 DEF Next

\* Until a launch or a run_game raises: decisions on their way belong to the game that is
\* played, a seek that no game was made of is the last thing the client sent, and it reads
\* at most one game_over in a game.
THEOREM SdkInvariant == Spec => []Sound
<1>1. Init => Sound
  BY InitInv DEF Sound
<1>2. Sound /\ [Next]_vars => Sound'
  <2> SUFFICES ASSUME Sound, [Next]_vars, lost' = {} PROVE SdkInv'
    BY DEF Sound
  <2>1. lost = {}
    BY LostStays
  <2> QED BY <2>1, SdkStep DEF Sound
<1> QED BY <1>1, <1>2, PTL DEF Spec

\* Every move of the bot on the board is one that choose_move answered for that very ply
\* of that very game, whatever connections drop, whenever a frame is sent again, as long as
\* no launch and no run_game has raised.
THEOREM OnlyChosenMoves == Spec => [](lost = {} => ChosenMovesArePlayed)
<1>1. Sound => (lost = {} => ChosenMovesArePlayed)
  BY DEF Sound, SdkInv, MovesGood, ChosenMovesArePlayed
<1> QED BY <1>1, SdkInvariant, PTL

\* on_game_over is called for the game the client plays, at most once for each, as long as
\* no launch and no run_game has raised.
THEOREM HooksAreTrue == Spec => [](lost = {} => HooksTellTheTruth)
<1>1. Sound => (lost = {} => HooksTellTheTruth)
  BY DEF Sound, SdkInv, HooksGood, HooksTellTheTruth
<1> QED BY <1>1, SdkInvariant, PTL

-----------------------------------------------------------------------------
(* The client's types, with their bounds. *)

Decisions == [game : 0 .. MaxGames, ply : 0 .. MaxPly, uci : Uci \cup {"none"}]
MoveFrames == {f \in Frames : f.kind \in Uci}

OwnFits ==
    /\ pc \in {"open", "hello", "seek", "turn", "ack", "closed", "failed"}
    /\ resuming \in BOOLEAN /\ mine \in 0 .. MaxGames
    /\ tries \in 0 .. ReconnectAttempts /\ resends \in 0 .. MaxResends /\ acked \in BOOLEAN
    /\ out \in Decisions /\ (pc = "ack" => out.uci \in Uci)
    /\ link \in {"up", "down"} /\ conns \in 0 .. MaxConns

WiresFit ==
    /\ up \in Seq(Frames) /\ down \in Seq(Frames)
    /\ hs \in {"none", "greeted", "serving"} /\ bound \in BOOLEAN

ServedFits ==
    /\ seeking \in BOOLEAN /\ stale \in BOOLEAN /\ inbound \in Seq(MoveFrames)
    /\ game \in 0 .. MaxGames /\ state \in {"none", "running", "told", "stuck"}
    /\ terminal \in 0 .. game /\ resume.game \in 0 .. game /\ lost \subseteq 1 .. game
    /\ moves \in Boards /\ Len(moves) <= MaxPly /\ (state = "running" => Len(moves) < MaxPly)
    /\ state # "none" => game # 0

Fits == OwnFits /\ WiresFit /\ ServedFits

\* A frame with a kind, a game and a ply of the instance.
LEMMA FrameFits ==
    ASSUME NEW k \in Kinds \cup Uci, NEW g \in 0 .. MaxGames, NEW p \in 0 .. MaxPly
    PROVE  Frame(k, g, p) \in Frames
BY DEF Frame, Frames, Kinds

\* Lists of frames, as they are read, sent and lost.
LEMMA ListsFit ==
    ASSUME NEW S, NEW d \in Seq(S)
    PROVE  /\ d # <<>> => Head(d) \in S /\ Tail(d) \in Seq(S)
           /\ \A f \in S : Append(d, f) \in Seq(S) /\ <<f>> \in Seq(S)
           /\ \A e \in Seq(S) : d \o e \in Seq(S)
           /\ \A m \in 0 .. Len(d) : SubSeq(d, 1, m) \in Seq(S)
           /\ <<>> \in Seq(S)
<1>1. ASSUME NEW m \in 0 .. Len(d) PROVE SubSeq(d, 1, m) \in Seq(S)
  <2>1. \A x \in 1 .. m : d[x] \in S
    OBVIOUS
  <2> QED BY <2>1, SubSeqProperties
<1>2. ASSUME NEW e \in Seq(S) PROVE d \o e \in Seq(S)
  BY ConcatProperties
<1> QED BY <1>1, <1>2

\* What the bounds are, and what a frame under way carries.
LEMMA BoundsAre ==
    /\ MaxPly \in Nat /\ MaxGames \in Nat /\ 0 \in 0 .. MaxGames /\ 0 \in 0 .. MaxPly
    /\ NoMove \in Decisions /\ 0 \in 0 .. ReconnectAttempts /\ 0 \in 0 .. MaxResends
    /\ \A f \in Frames : f.game \in 0 .. MaxGames /\ f.ply \in 0 .. MaxPly
BY SdkAssumption DEF NoMove, Decisions, Frames

\* The first states fit.
LEMMA InitFits == Init => Fits
<1> SUFFICES ASSUME Init PROVE Fits
  OBVIOUS
<1>1. /\ <<>> \in Seq(Frames) /\ <<>> \in Seq(MoveFrames) /\ <<>> \in Boards
      /\ Len(<<>>) = 0 /\ 0 \in 0 .. 0 /\ {} \subseteq 1 .. 0
  BY DEF Boards
<1>2. /\ 0 \in 0 .. ReconnectAttempts /\ 0 \in 0 .. MaxResends /\ 0 \in 0 .. MaxConns
      /\ 0 \in 0 .. MaxGames /\ 0 \in 0 .. MaxPly /\ MaxPly \in Nat
  BY SdkAssumption
<1>3. NoMove \in Decisions
  BY BoundsAre
<1> HIDE DEF Frames, MoveFrames, Decisions, NoMove
<1>4. resume.game = 0 /\ state = "none" /\ Len(moves) = 0
  BY <1>1 DEF Init
<1>5. Len(moves) <= MaxPly
  BY <1>2, <1>4
<1>6. OwnFits /\ WiresFit
  BY <1>1, <1>2, <1>3 DEF Init, OwnFits, WiresFit
<1>7. ServedFits
  BY <1>1, <1>2, <1>4, <1>5 DEF Init, ServedFits
<1> QED BY <1>6, <1>7 DEF Fits

\* An exception leaves the client as it begins.
LEMMA RaiseFits ==
    ASSUME Fits, Raise PROVE OwnFits' /\ up' \in Seq(Frames) /\ down' \in Seq(Frames)
<1> HIDE DEF Frames, Decisions, NoMove
<1>1. up' \in Seq(Frames) /\ down' \in Seq(Frames)
  BY DEF Fits, WiresFit, Raise
<1>2. OwnFits'
  BY BoundsAre DEF Fits, OwnFits, Raise, Forgotten
<1> QED BY <1>1, <1>2

\* The client's awaits.
LEMMA ClientFits ==
    ASSUME Fits, Client \/ PlayAgain \/ Drop PROVE Fits'
<1>1. /\ MaxPly \in Nat /\ MaxGames \in Nat /\ 0 \in 0 .. MaxGames /\ 0 \in 0 .. MaxPly
      /\ NoMove \in Decisions /\ 0 \in 0 .. ReconnectAttempts /\ 0 \in 0 .. MaxResends
      /\ mine \in 0 .. MaxGames
      /\ \A f \in Frames : f.game \in 0 .. MaxGames /\ f.ply \in 0 .. MaxPly
  BY BoundsAre DEF Fits, OwnFits
<1>2. ServedFits'
  <2>1. UNCHANGED <<seeking, stale, game, state, moves, inbound, terminal, lost>> /\ resume' = resume
    BY DEF Client, PlayAgain, Drop, Open, OpenFails, Welcomed, WelcomedBack, AwaitGameStart, TakeTurn,
           TakeGameOver, Skip, Closed, AckTimeout, server, seen
  <2> QED BY <2>1 DEF Fits, ServedFits
<1>3. hs' \in {"none", "greeted", "serving"} /\ bound' \in BOOLEAN
  BY DEF Client, PlayAgain, Drop, Open, OpenFails, Welcomed, WelcomedBack, AwaitGameStart, TakeTurn,
         TakeGameOver, Skip, Closed, AckTimeout, server, Fits, WiresFit
<1>4. down \in Seq(Frames) /\ up \in Seq(Frames) /\ <<>> \in Seq(Frames)
  BY ListsFit DEF Fits, WiresFit
<1>5. /\ down # <<>> => Head(down) \in Frames /\ Tail(down) \in Seq(Frames)
      /\ \A f \in Frames : Append(up, f) \in Seq(Frames)
  BY <1>4, ListsFit
<1>6. Request("seek", 0) \in Frames /\ Request("control", mine) \in Frames
  BY <1>1, FrameFits DEF Request, Kinds
<1> DEFINE Own == OwnFits' /\ up' \in Seq(Frames) /\ down' \in Seq(Frames)
<1> SUFFICES Own
  BY <1>2, <1>3 DEF Fits, WiresFit
<1> HIDE DEF Frames, Decisions, NoMove
<1>7. CASE Raise
  BY <1>7, RaiseFits
<1>8. CASE Open /\ ~Raise
  <2>1. conns < MaxConns /\ conns' = conns + 1 /\ conns \in 0 .. MaxConns /\ MaxConns \in Nat
    BY <1>8, SdkAssumption DEF Open, Fits, OwnFits
  <2>2. conns' \in 0 .. MaxConns
    BY <2>1
  <2>3. down' = <<>> /\ pc' = "hello" /\ link' = "up"
        /\ UNCHANGED <<resuming, tries, mine, out, resends, acked, up>>
    BY <1>8 DEF Open
  <2> QED BY <1>4, <2>2, <2>3 DEF Fits, OwnFits
<1>9. CASE OpenFails /\ ~Raise
  <2>1. /\ tries + 1 < ReconnectAttempts /\ tries' = tries + 1
        /\ tries \in 0 .. ReconnectAttempts /\ ReconnectAttempts \in Nat
    BY <1>9, SdkAssumption DEF OpenFails, Fits, OwnFits
  <2>2. tries' \in 0 .. ReconnectAttempts
    BY <2>1
  <2>3. pc' = "open" /\ UNCHANGED <<resuming, mine, out, resends, acked, link, conns, up, down>>
    BY <1>9 DEF OpenFails, wires
  <2> QED BY <1>4, <2>2, <2>3 DEF Fits, OwnFits
<1>10. CASE Welcomed /\ ~Raise
  <2>1. /\ down # <<>> /\ down' = Tail(down) /\ pc' \in {"turn", "seek"}
        /\ mine' \in {mine, Head(down).game} /\ up' \in {up, Append(up, Request("seek", 0))}
        /\ UNCHANGED <<resuming, tries, out, resends, acked, link, conns>>
    BY <1>10 DEF Welcomed, Read, Got
  <2>2. mine' \in 0 .. MaxGames
    BY <1>1, <1>5, <2>1
  <2>3. up' \in Seq(Frames) /\ down' \in Seq(Frames)
    BY <1>4, <1>5, <1>6, <2>1
  <2> QED BY <2>1, <2>2, <2>3 DEF Fits, OwnFits
<1>11. CASE WelcomedBack
  BY <1>1, <1>4, <1>5, <1>11 DEF Fits, OwnFits, WelcomedBack, Read, Got, GameEnded, Forgotten
<1>12. CASE AwaitGameStart
  <2>1. /\ down # <<>> /\ down' = Tail(down) /\ pc' \in {"turn", "seek"}
        /\ mine' \in {mine, Head(down).game}
        /\ UNCHANGED <<resuming, tries, out, resends, acked, link, conns, up>>
    BY <1>12 DEF AwaitGameStart, Read, Got
  <2>2. mine' \in 0 .. MaxGames
    BY <1>1, <1>5, <2>1
  <2> QED BY <1>4, <1>5, <2>1, <2>2 DEF Fits, OwnFits
<1>13. CASE TakeTurn
  <2>1. CASE link = "down" /\ Raise
    BY <1>7, <2>1
  <2>2. CASE Read({"your_turn"}) /\ up' = Append(up, Request("control", mine)) /\ pc' = "turn"
             /\ out' = NoMove /\ resends' = 0 /\ acked' = FALSE
             /\ UNCHANGED <<resuming, tries, mine, link, conns>>
    BY <1>1, <1>4, <1>5, <1>6, <2>2 DEF Fits, OwnFits, Read, Got
  <2>3. ASSUME NEW u \in Uci, Read({"your_turn"}), resends' = 0, acked' = FALSE, pc' = "ack",
               out' = [game |-> mine, ply |-> Head(down).ply, uci |-> u],
               up' = Append(up, MoveFrame(out')), UNCHANGED <<resuming, tries, mine, link, conns>>
        PROVE  Own
    <3>1. Head(down).ply \in 0 .. MaxPly /\ down' \in Seq(Frames)
      BY <1>1, <1>5, <2>3 DEF Read, Got
    <3>2. out' \in Decisions /\ out'.uci \in Uci
      BY <1>1, <2>3, <3>1 DEF Decisions
    <3>3. MoveFrame(out') \in Frames
      BY <1>1, <2>3, <3>1, FrameFits DEF MoveFrame
    <3> QED BY <1>1, <1>5, <2>3, <3>1, <3>2, <3>3 DEF Fits, OwnFits
  <2> QED BY <1>13, <2>1, <2>2, <2>3 DEF TakeTurn
<1>14. CASE TakeGameOver
  BY <1>1, <1>4, <1>14 DEF Fits, OwnFits, TakeGameOver, GameEnded, Forgotten
<1>15. CASE Skip
  BY <1>1, <1>4, <1>5, <1>15 DEF Fits, OwnFits, Skip, Read, Got
<1>16. CASE Closed /\ ~Raise
  BY <1>1, <1>4, <1>16 DEF Fits, OwnFits, Closed, wires
<1>17. CASE AckTimeout /\ ~Raise
  <2>1. resends < MaxResends /\ pc = "ack"
    BY <1>17 DEF AckTimeout
  <2>2. out.uci \in Uci /\ out.game \in 0 .. MaxGames /\ out.ply \in 0 .. MaxPly
    BY <2>1 DEF Fits, OwnFits, Decisions
  <2>3. MoveFrame(out) \in Frames
    BY <2>2, FrameFits DEF MoveFrame
  <2>4. resends' = resends + 1 /\ up' = Append(up, MoveFrame(out))
        /\ UNCHANGED <<pc, resuming, tries, mine, out, acked, link, conns, down>>
    BY <1>17, <2>1 DEF AckTimeout
  <2>5. resends' \in 0 .. MaxResends
    BY <2>1, <2>4, SdkAssumption DEF Fits, OwnFits
  <2>6. up' \in Seq(Frames) /\ down' \in Seq(Frames)
    BY <1>4, <1>5, <2>3, <2>4
  <2> QED BY <2>4, <2>5, <2>6 DEF Fits, OwnFits
<1>18. CASE PlayAgain
  BY <1>4, <1>18 DEF Fits, OwnFits, PlayAgain, wires
<1>19. CASE Drop
  <2>1. PICK m \in 0 .. Len(down), n \in 0 .. Len(up) : down' = SubSeq(down, 1, m) /\ up' = SubSeq(up, 1, n)
    BY <1>19 DEF Drop
  <2>2. down' \in Seq(Frames) /\ up' \in Seq(Frames)
    BY <1>4, <2>1, ListsFit
  <2> QED BY <1>19, <2>2 DEF Fits, OwnFits, Drop, client
<1> QED BY <1>7, <1>8, <1>9, <1>10, <1>11, <1>12, <1>13, <1>14, <1>15, <1>16, <1>17, <1>18, <1>19
        DEF Client

\* The server sends frames that fit.
LEMMA SentFits ==
    ASSUME Fits, NEW fr \in Seq(Frames), Sent(fr) \/ Reply(fr) \/ SeatSent(fr)
    PROVE  down' \in Seq(Frames)
<1>1. down \in Seq(Frames)
  BY DEF Fits, WiresFit
<1>2. down \o fr \in Seq(Frames)
  BY <1>1, ListsFit
<1> QED BY <1>1, <1>2 DEF Sent, Reply, SeatSent

\* A game has its verdict or is lost.
LEMMA OverFits ==
    ASSUME Fits, NEW fr \in Seq(Frames), game # 0, Over(fr) \/ RunGameRaises(fr)
    PROVE  down' \in Seq(Frames) /\ state' \in {"told", "stuck"} /\ lost' \subseteq 1 .. game
<1>1. Frame("game_over", game, 0) \in Frames
  BY BoundsAre, FrameFits DEF Fits, ServedFits, Kinds
<1>2. Append(fr, Frame("game_over", game, 0)) \in Seq(Frames)
  BY <1>1, ListsFit
<1>3. lost \subseteq 1 .. game /\ game \in 1 .. game
  BY DEF Fits, ServedFits
<1> QED BY <1>2, <1>3, SentFits DEF Over, RunGameRaises

\* The board takes a move, and a position with the last ply is final.
LEMMA PlayedFits ==
    ASSUME Fits, NEW u \in Uci \cup {"theirs"}, NEW fr \in Seq(Frames), state = "running",
           Played(u, fr)
    PROVE  /\ down' \in Seq(Frames) /\ moves' \in Boards /\ lost' \subseteq 1 .. game
           /\ state' \in {"running", "told", "stuck"}
           /\ Len(moves') <= MaxPly /\ (state' = "running" => Len(moves') < MaxPly)
<1>1. /\ moves \in Seq(Uci \cup {"theirs"}) /\ moves' = Append(moves, u)
      /\ Len(moves) < MaxPly /\ MaxPly \in Nat /\ game \in 0 .. MaxGames /\ game # 0
      /\ lost \subseteq 1 .. game
  BY BoundsAre DEF Boards, Played, Fits, ServedFits
<1>2. Len(moves') = Len(moves) + 1 /\ Len(moves) \in Nat /\ moves' \in Boards
  BY <1>1 DEF Boards
<1>3. CASE Len(moves) + 1 >= MaxPly
  <2>1. down' \in Seq(Frames) /\ state' \in {"told", "stuck"} /\ lost' \subseteq 1 .. game
    BY <1>1, <1>3, OverFits DEF Played
  <2> QED BY <1>1, <1>2, <2>1
<1>4. CASE ~(Len(moves) + 1 >= MaxPly)
  <2>1. Len(moves) + 1 \in 0 .. MaxPly /\ Len(moves) + 1 < MaxPly
    BY <1>1, <1>2, <1>4
  <2>2. Frame("your_turn", game, Len(moves) + 1) \in Frames
    BY <1>1, <2>1, FrameFits DEF Kinds
  <2>3. Append(fr, Frame("your_turn", game, Len(moves) + 1)) \in Seq(Frames)
    BY <2>2, ListsFit
  <2>4. CASE RunGameRaises(fr)
    <3>1. down' \in Seq(Frames) /\ state' \in {"told", "stuck"} /\ lost' \subseteq 1 .. game
      BY <1>1, <2>4, OverFits
    <3> QED BY <1>2, <2>1, <3>1
  <2>5. CASE ~RunGameRaises(fr)
    <3>1. down' \in Seq(Frames)
      BY <1>4, <2>3, <2>5, SentFits DEF Played
    <3>2. state' = "running" /\ lost' = lost
      BY <1>4, <2>5 DEF Played
    <3> QED BY <1>1, <1>2, <2>1, <3>1, <3>2
  <2> QED BY <2>4, <2>5
<1> QED BY <1>3, <1>4

\* A seek, or a launch, starts a game or loses it.
LEMMA NewGameFits ==
    ASSUME Fits, NewGame, NEW fr \in Seq(Frames), Reply(fr) \/ UNCHANGED down,
           seeking' \in BOOLEAN, bound' \in BOOLEAN, state' \in {"running", "stuck"},
           lost' \in {lost, lost \cup {game + 1}}
    PROVE  Fits'
<1>1. /\ game < MaxGames /\ game' = game + 1 /\ moves' = <<>> /\ inbound' = <<>> /\ stale' = FALSE
      /\ UNCHANGED <<client, link, conns, up, hs, terminal>> /\ resume' = resume
  BY DEF NewGame
<1>2. /\ game \in 0 .. MaxGames /\ MaxGames \in Nat /\ MaxPly \in Nat \ {0}
      /\ terminal \in 0 .. game /\ resume.game \in 0 .. game /\ lost \subseteq 1 .. game
  BY SdkAssumption DEF Fits, ServedFits
<1>3. /\ game' \in 0 .. MaxGames /\ game' # 0 /\ terminal' \in 0 .. game' /\ resume'.game \in 0 .. game'
      /\ lost' \subseteq 1 .. game'
  BY <1>1, <1>2
<1>4. /\ <<>> \in Seq(MoveFrames) /\ <<>> \in Boards /\ Len(<<>>) = 0
  BY DEF Boards
<1>5. Len(moves') <= MaxPly /\ Len(moves') < MaxPly
  BY <1>1, <1>2, <1>4
<1>6. down' \in Seq(Frames)
  BY SentFits DEF Fits, WiresFit
<1> HIDE DEF Frames, MoveFrames, Decisions
<1>7. OwnFits' /\ WiresFit'
  BY <1>1, <1>6 DEF Fits, OwnFits, WiresFit, client
<1>8. ServedFits'
  BY <1>1, <1>3, <1>4, <1>5 DEF ServedFits
<1> QED BY <1>7, <1>8 DEF Fits

\* Whatever the server does, frames, games and plies stay within their bounds.
LEMMA ServerKeepsFits ==
    ASSUME Fits, Register \/ Rebind \/ ReadFrame \/ GameStarts \/ LaunchRaises
                 \/ OpponentMoves \/ ReadMove \/ GameEnds \/ NotAnnounced \/ Unbind
    PROVE  Fits'
<1>1. /\ MaxPly \in Nat \ {0} /\ MaxGames \in Nat /\ 0 \in 0 .. MaxGames /\ 0 \in 0 .. MaxPly
      /\ \A f \in Frames : f.game \in 0 .. MaxGames /\ f.ply \in 0 .. MaxPly
  BY BoundsAre, SdkAssumption
<1>2. OwnFits'
  <2>1. UNCHANGED <<pc, resuming, mine, tries, resends, acked, out, link, conns>>
    BY DEF Register, Rebind, ReadFrame, GameStarts, LaunchRaises, NewGame, OpponentMoves, ReadMove,
           GameEnds, NotAnnounced, Unbind, client, wires
  <2> QED BY <2>1 DEF Fits, OwnFits
<1>3. /\ down \in Seq(Frames) /\ up \in Seq(Frames) /\ <<>> \in Seq(Frames)
      /\ inbound \in Seq(MoveFrames) /\ <<>> \in Seq(MoveFrames)
      /\ game \in 0 .. MaxGames /\ terminal \in 0 .. game /\ resume.game \in 0 .. game
      /\ moves \in Boards /\ Len(moves) \in 0 .. MaxPly
      /\ 0 \in 0 .. game /\ game \in 0 .. game /\ terminal \in 0 .. MaxGames
      /\ resume.game \in 0 .. MaxGames /\ hs \in {"none", "greeted", "serving"} /\ bound \in BOOLEAN
      /\ seeking \in BOOLEAN /\ stale \in BOOLEAN /\ state \in {"none", "running", "told", "stuck"}
      /\ lost \subseteq 1 .. game /\ (state # "none" => game # 0)
  BY <1>1, ListsFit DEF Fits, WiresFit, ServedFits, Boards
<1>4. /\ up # <<>> => Head(up) \in Frames /\ Tail(up) \in Seq(Frames)
      /\ inbound # <<>> => Head(inbound) \in MoveFrames /\ Tail(inbound) \in Seq(MoveFrames)
      /\ \A f \in MoveFrames : Append(inbound, f) \in Seq(MoveFrames)
      /\ \A f \in Frames : <<f>> \in Seq(Frames)
  BY <1>3, ListsFit
<1>5. MoveFrames \subseteq Frames /\ \A f \in Frames : f.kind \in Uci => f \in MoveFrames
  BY DEF MoveFrames
<1> SUFFICES WiresFit' /\ ServedFits'
  BY <1>2 DEF Fits
<1> HIDE DEF Frames, MoveFrames
<1>6. CASE Register
  <2>1. resume'.game \in 0 .. game /\ resume'.game \in 0 .. MaxGames
    <3>1. resume'.game = IF state = "none" THEN 0 ELSE game
      BY <1>6 DEF Register
    <3> QED BY <1>1, <1>3, <3>1
  <2>2. Frame("welcome", resume'.game, 0) \in Frames
    BY <1>1, <2>1, FrameFits DEF Kinds
  <2>3. down' \in Seq(Frames)
    BY <1>4, <1>6, <2>2, SentFits DEF Register
  <2>4. /\ up' = <<>> /\ hs' = "greeted" /\ bound' = FALSE /\ seeking' = FALSE
        /\ stale' \in BOOLEAN /\ UNCHANGED <<inbound, game, terminal, moves, state, lost>>
    BY <1>6 DEF Register
  <2> QED BY <1>3, <2>1, <2>3, <2>4 DEF Fits, WiresFit, ServedFits
<1>7. CASE Rebind
  <2>1. Turn(resume.game) \in Frames /\ Frame("game_over", terminal, 0) \in Frames
    BY <1>1, <1>3, FrameFits DEF Turn, Kinds
  <2>2. /\ <<Turn(resume.game)>> \in Seq(Frames) /\ <<Frame("game_over", terminal, 0)>> \in Seq(Frames)
    BY <1>4, <2>1
  <2>3. down' \in Seq(Frames)
    BY <1>3, <1>7, <2>2, SentFits DEF Rebind
  <2>4. /\ terminal' \in {terminal, 0} /\ resume'.game = 0 /\ hs' = "serving" /\ bound' \in BOOLEAN
        /\ UNCHANGED <<up, inbound, game, moves, state, seeking, stale, lost>>
    BY <1>3, <1>7 DEF Rebind, seen
  <2> QED BY <1>3, <2>3, <2>4 DEF Fits, WiresFit, ServedFits
<1>8. CASE ReadFrame
  <2>1. /\ up # <<>> /\ up' = Tail(up) /\ UNCHANGED <<game, terminal, moves, hs, bound, stale>>
        /\ resume' = resume
    BY <1>8 DEF ReadFrame
  <2>2. Frame("seek_ack", 0, 0) \in Frames /\ Frame("error", 0, 0) \in Frames
    BY <1>1, FrameFits DEF Kinds
  <2>3. <<Frame("seek_ack", 0, 0)>> \in Seq(Frames) /\ <<Frame("error", 0, 0)>> \in Seq(Frames)
    BY <1>4, <2>2
  <2>4. CASE state = "running" /\ Over(<<>>) /\ UNCHANGED <<seeking, inbound>>
    <3>1. down' \in Seq(Frames) /\ state' \in {"told", "stuck"} /\ lost' \subseteq 1 .. game
      BY <1>3, <2>4, OverFits
    <3> QED BY <1>3, <1>4, <2>1, <2>4, <3>1 DEF Fits, WiresFit, ServedFits
  <2>5. CASE /\ seeking' \in BOOLEAN /\ UNCHANGED <<state, lost>>
             /\ \/ Reply(<<Frame("seek_ack", 0, 0)>>) /\ UNCHANGED inbound
                \/ UNCHANGED <<down, inbound>>
                \/ Reply(<<Frame("error", 0, 0)>>) /\ UNCHANGED inbound
                \/ /\ Head(up).kind \in Uci /\ inbound' = Append(inbound, Head(up))
                   /\ UNCHANGED down
    <3>1. down' \in Seq(Frames) /\ inbound' \in Seq(MoveFrames)
      BY <1>3, <1>4, <1>5, <2>1, <2>3, <2>5, SentFits
    <3> QED BY <1>3, <1>4, <2>1, <2>5, <3>1 DEF Fits, WiresFit, ServedFits
  <2> QED BY <1>3, <1>8, <2>4, <2>5 DEF ReadFrame
<1>9. CASE GameStarts \/ LaunchRaises
  <2>1. NewGame /\ game + 1 \in 0 .. MaxGames
    BY <1>1, <1>3, <1>9 DEF GameStarts, LaunchRaises, NewGame
  <2>2. PICK s, t : s = Frame("game_start", game + 1, 0) /\ t = Frame("your_turn", game + 1, 0)
    OBVIOUS
  <2>3. <<s>> \in Seq(Frames) /\ <<t>> \in Seq(Frames)
    BY <1>1, <1>4, <2>1, <2>2, FrameFits DEF Kinds
  <2>4. <<s>> \o <<t>> \in Seq(Frames) /\ <<s>> \o <<>> \in Seq(Frames)
    BY <1>3, <2>3, ListsFit
  <2>5. /\ \E fr \in Seq(Frames) : Reply(fr) \/ UNCHANGED down
        /\ seeking' \in BOOLEAN /\ bound' \in BOOLEAN /\ state' \in {"running", "stuck"}
        /\ lost' \in {lost, lost \cup {game + 1}}
    <3>1. CASE GameStarts
      <4>1. PICK starts \in BOOLEAN :
               /\ state' = IF starts THEN "running" ELSE "stuck"
               /\ lost' = IF starts THEN lost ELSE lost \cup {game + 1}
               /\ Reply(<<s>> \o (IF starts /\ Me = 0 THEN <<t>> ELSE <<>>))
        BY <2>2, <3>1 DEF GameStarts
      <4>2. <<s>> \o (IF starts /\ Me = 0 THEN <<t>> ELSE <<>>) \in Seq(Frames)
        BY <2>4
      <4> QED BY <3>1, <4>1, <4>2 DEF GameStarts
    <3>2. CASE LaunchRaises
      <4>1. /\ state' = "stuck" /\ lost' = lost \cup {game + 1} /\ seeking' = seeking
            /\ bound' \in BOOLEAN
        BY <3>2 DEF LaunchRaises
      <4>2. UNCHANGED down \/ Reply(IF Me = 0 THEN <<s>> ELSE <<>>)
        BY <2>2, <3>2 DEF LaunchRaises
      <4>3. (IF Me = 0 THEN <<s>> ELSE <<>>) \in Seq(Frames)
        BY <1>3, <2>3
      <4> QED BY <1>3, <4>1, <4>2, <4>3
    <3> QED BY <1>9, <3>1, <3>2
  <2>6. Fits'
    BY <2>1, <2>5, NewGameFits
  <2> QED BY <2>6 DEF Fits
<1>10. CASE OpponentMoves
  <2>1. /\ state = "running" /\ Played("theirs", <<>>) /\ resume' = resume
        /\ UNCHANGED <<up, hs, bound, seeking, stale, inbound, game, terminal>>
    BY <1>10 DEF OpponentMoves
  <2>2. /\ down' \in Seq(Frames) /\ moves' \in Boards /\ lost' \subseteq 1 .. game
        /\ state' \in {"running", "told", "stuck"}
        /\ Len(moves') <= MaxPly /\ (state' = "running" => Len(moves') < MaxPly)
    BY <1>3, <2>1, PlayedFits
  <2> QED BY <1>3, <2>1, <2>2 DEF WiresFit, ServedFits
<1>11. CASE ReadMove
  <2>1. PICK f : f = Head(inbound)
    OBVIOUS
  <2>2. /\ state = "running" /\ inbound # <<>> /\ inbound' = Tail(inbound) /\ resume' = resume
        /\ UNCHANGED <<up, hs, bound, seeking, stale, game, terminal>>
    BY <1>11 DEF ReadMove, OnMove
  <2>3. f \in Frames /\ f.ply \in 0 .. MaxPly /\ f.kind \in Uci
    BY <1>1, <1>4, <1>5, <2>1, <2>2 DEF MoveFrames
  <2>4. Frame("move_ack", game, f.ply) \in Frames /\ Frame("error", game, f.ply) \in Frames
    BY <1>3, <2>3, FrameFits DEF Kinds
  <2>5. <<Frame("move_ack", game, f.ply)>> \in Seq(Frames) /\ <<Frame("error", game, f.ply)>> \in Seq(Frames)
    BY <1>4, <2>4
  <2>6. CASE Played(f.kind, <<Frame("move_ack", game, f.ply)>>)
    <3>1. /\ down' \in Seq(Frames) /\ moves' \in Boards /\ lost' \subseteq 1 .. game
          /\ state' \in {"running", "told", "stuck"}
          /\ Len(moves') <= MaxPly /\ (state' = "running" => Len(moves') < MaxPly)
      BY <2>2, <2>3, <2>5, <2>6, PlayedFits
    <3> QED BY <1>3, <1>4, <2>2, <3>1 DEF WiresFit, ServedFits
  <2>7. CASE /\ \/ SeatSent(<<Frame("move_ack", game, f.ply)>>) \/ SeatSent(<<>>)
                \/ SeatSent(<<Frame("error", game, f.ply)>>)
             /\ UNCHANGED <<state, moves, lost>>
    <3>1. down' \in Seq(Frames)
      BY <1>3, <2>5, <2>7, SentFits
    <3> QED BY <1>3, <1>4, <2>2, <2>7, <3>1 DEF Fits, WiresFit, ServedFits
  <2> QED BY <1>11, <2>1, <2>6, <2>7 DEF ReadMove
<1>12. CASE GameEnds
  <2>1. /\ state = "running" /\ Over(<<>>) /\ resume' = resume
        /\ UNCHANGED <<up, hs, bound, seeking, stale, inbound, game, terminal, moves>>
    BY <1>12 DEF GameEnds
  <2>2. down' \in Seq(Frames) /\ state' \in {"told", "stuck"} /\ lost' \subseteq 1 .. game
    BY <1>3, <2>1, OverFits
  <2> QED BY <1>3, <2>1, <2>2 DEF Fits, WiresFit, ServedFits
<1>13. CASE NotAnnounced
  <2>1. /\ state = "told" /\ state' = "stuck" /\ lost' = lost \cup {game} /\ resume' = resume
        /\ UNCHANGED <<up, down, hs, bound, seeking, stale, inbound, game, terminal, moves>>
    BY <1>13 DEF NotAnnounced, wires
  <2>2. lost' \subseteq 1 .. game
    BY <1>3, <2>1
  <2> QED BY <1>3, <2>1, <2>2 DEF Fits, WiresFit, ServedFits
<1>14. CASE Unbind
  <2>1. /\ state' = "none" /\ inbound' = <<>> /\ terminal' = game /\ resume' = resume
        /\ UNCHANGED <<up, down, hs, bound, seeking, stale, game, moves, lost>>
    BY <1>14 DEF Unbind, wires, seen
  <2> QED BY <1>3, <2>1 DEF Fits, WiresFit, ServedFits
<1> QED BY <1>6, <1>7, <1>8, <1>9, <1>10, <1>11, <1>12, <1>13, <1>14

\* No step of client, connection or server leaves the bounds.
LEMMA FitsStep == Fits /\ [Next]_vars => Fits'
<1> SUFFICES ASSUME Fits, [Next]_vars PROVE Fits'
  OBVIOUS
<1>1. CASE UNCHANGED vars
  BY <1>1 DEF Fits, OwnFits, WiresFit, ServedFits, vars, client, server, wires, seen
<1> QED BY <1>1, ClientFits, ServerKeepsFits DEF Next

\* Every variable of the client, its connection and its server keeps its type, within the
\* limits that the code and the bounds set: never more resends or attempts than those.
THEOREM TypeCorrect == Spec => []TypeOK
<1>1. Fits => TypeOK
  <2> SUFFICES ASSUME Fits PROVE TypeOK
    OBVIOUS
  <2>1. inbound \in Seq(Frames)
    <3>1. \A i \in 1 .. Len(inbound) : inbound[i] \in Frames
      BY DEF Fits, ServedFits, MoveFrames
    <3> HIDE DEF Frames, MoveFrames
    <3>2. inbound \in Seq(MoveFrames)
      BY DEF Fits, ServedFits
    <3> QED BY <3>1, <3>2
  <2> HIDE DEF Frames
  <2> QED BY <2>1 DEF Fits, OwnFits, WiresFit, ServedFits, TypeOK, Boards
<1> QED BY <1>1, InitFits, FitsStep, PTL DEF Spec
=============================================================================
