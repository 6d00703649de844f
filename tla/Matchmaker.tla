------------------------------ MODULE Matchmaker ------------------------------
(***************************************************************************)
(* One pool of the Elo matchmaker (matchmaking/matcher.py), the launch of  *)
(* a game (matchmaking/launcher.py), the active-game index                 *)
(* (game/registry.py) and the sessions as far as they decide whether a     *)
(* ticket is dead and a send raises.                                       *)
(*                                                                         *)
(* The matcher is one coroutine; a bot's endpoint handles one frame at a   *)
(* time.  Each action is the code between two awaits: the matcher awaits   *)
(* every seek_ended it sends and both game_starts of every launch, and the *)
(* endpoints run meanwhile.                                                *)
(***************************************************************************)
EXTENDS Pairing, Sublists, FiniteSets

CONSTANTS TTL,         \* ticket_ttl_seconds, in ticks
          GreeterWait, \* greeter_solo_wait_seconds
          Greeted,     \* whether the pool has a house greeter
          Cancels,     \* the bots that may send seek_cancel
          Challenges,  \* the bots that may challenge another one directly
          Drops,       \* the bots that may lose their connection or open another
          Polite,      \* bots seek only when they have no ticket and no game
          House,       \* the house greeter
          MaxTime,     \* bound: the clock
          MaxSeeks,    \* bound: tickets issued
          MaxGames,    \* bound: games created
          MaxSess      \* bound: sessions per bot

ASSUME MatcherAssumption ==
    /\ TTL \in Nat \ {0} /\ GreeterWait \in Nat
    /\ Greeted \in BOOLEAN /\ Polite \in BOOLEAN
    /\ Cancels \subseteq Bot /\ Challenges \subseteq Bot /\ Drops \subseteq Bot
    /\ House \notin Bot
    /\ MaxTime \in Nat /\ MaxSeeks \in Nat /\ MaxGames \in Nat /\ MaxSess \in Nat \ {0}

VARIABLES
  now,    \* the matcher's clock
  sess,   \* SessionRegistry: the live session of each bot, 0 if none
  inc,    \* the number of sessions each bot has opened
  pool,   \* _pools[key], oldest first
  open,   \* _by_seek: the seek ids it knows
  last,   \* _last_opponent
  mpc,    \* the await the matcher is at
  tick,   \* its local `now`
  at,     \* its position in the pool while it expires tickets
  keep,   \* its local `live` list
  greet,  \* what is left of its copy of the pool while it greets
  taken,  \* the tickets it drops when the launch it awaits returns
  games,  \* the games created, in order
  active, \* _active_by_bot: an index of games, 0 if none
  ended,  \* history: <<seek id, reason>> of the seek_ended sent
  seeks   \* history: the tickets issued

sessVars  == <<sess, inc>>
queueVars == <<pool, open, last>>
loopVars  == <<mpc, tick, at, keep, greet, taken>>
gameVars  == <<games, active>>
histVars  == <<ended, seeks>>
vars == <<now, sessVars, queueVars, loopVars, gameVars, histVars>>

None == "none"
Seat(b, s, id) == [bot |-> b, sess |-> s, seek |-> id]    \* a Participant
HouseSeat      == Seat(House, 0, 0)
Game(w, b, by) == [white |-> w, black |-> b, by |-> by, st |-> "created", when |-> now]
Players(g) == {g.white.bot, g.black.bot}
Pending    == {"created", "to_white", "to_black"}          \* launch has not returned
Live       == {"to_white", "to_black", "running"}

\* The endpoint of b is in the middle of its own challenge.
Busy(b) == \E i \in DOMAIN games :
              games[i].by = "challenge" /\ games[i].white.bot = b
              /\ games[i].white.sess = sess[b] /\ games[i].st \in Pending
Ready(b) == sess[b] # 0 /\ ~Busy(b)

Without(p, ids) == Keep(p, {i \in DOMAIN p : p[i].id \notin ids})
IdsOf(p)        == {p[i].id : i \in DOMAIN p}

-----------------------------------------------------------------------------
Init ==
    /\ now = 0
    /\ sess = [b \in Bot |-> 1] /\ inc = [b \in Bot |-> 1]
    /\ pool = <<>> /\ open = {} /\ last = [b \in Bot |-> None]
    /\ mpc = "idle" /\ tick = 0 /\ at = 0 /\ keep = <<>> /\ greet = <<>> /\ taken = <<>>
    /\ games = <<>> /\ active = [b \in Bot |-> 0]
    /\ ended = {} /\ seeks = 0

-----------------------------------------------------------------------------
(* Sessions, and time.                                                     *)

Clock ==
    /\ now < MaxTime
    /\ now' = now + 1
    /\ UNCHANGED <<sessVars, queueVars, loopVars, gameVars, histVars>>

\* A bot connects, again or instead of its live session.
Connect(b) ==
    /\ b \in Drops /\ inc[b] < MaxSess
    /\ inc' = [inc EXCEPT ![b] = @ + 1]
    /\ sess' = [sess EXCEPT ![b] = inc[b] + 1]
    /\ UNCHANGED <<now, queueVars, loopVars, gameVars, histVars>>

Disconnect(b) ==
    /\ b \in Drops /\ Ready(b)
    /\ sess' = [sess EXCEPT ![b] = 0]
    /\ UNCHANGED <<now, inc, queueVars, loopVars, gameVars, histVars>>

-----------------------------------------------------------------------------
(* The endpoint's calls.                                                   *)

Seek(b) ==
    /\ Ready(b) /\ seeks < MaxSeeks /\ now + TTL <= MaxTime
    /\ Polite => active[b] = 0 /\ \A i \in DOMAIN pool : pool[i].bot # b
    /\ seeks' = seeks + 1
    /\ pool' = Append(pool, [id |-> seeks + 1, bot |-> b, sess |-> sess[b], at |-> now])
    /\ open' = open \cup {seeks + 1}
    /\ UNCHANGED <<now, sessVars, last, loopVars, gameVars, ended>>

Cancel(t) ==
    /\ t.id \in open /\ t.bot \in Cancels /\ Ready(t.bot)
    /\ open' = open \ {t.id}
    /\ pool' = Without(pool, {t.id})
    /\ ended' = ended \cup {<<t.id, "cancelled">>}
    /\ UNCHANGED <<now, sessVars, last, loopVars, gameVars, seeks>>

\* A direct challenge: every ticket of either bot is dropped and the game is
\* created; it is bound only when the endpoint launches it, after the seek_ack.
DirectChallenge(b, o) ==
    /\ b \in Challenges /\ Ready(b) /\ b # o
    /\ active[b] = 0 /\ sess[o] # 0 /\ active[o] = 0
    /\ ~(OwnerOf[b] # NoOwner /\ OwnerOf[b] = OwnerOf[o])
    /\ Len(games) < MaxGames
    /\ LET gone == {pool[i].id : i \in {j \in DOMAIN pool : pool[j].bot \in {b, o}}} IN
       /\ pool' = Without(pool, gone)
       /\ open' = open \ gone
    /\ games' = Append(games, Game(Seat(b, sess[b], 0), Seat(o, sess[o], 0), "challenge"))
    /\ last' = [last EXCEPT ![b] = o, ![o] = b]
    /\ UNCHANGED <<now, sessVars, loopVars, active, histVars>>

\* Mutant: only White is bound to the game.
LaunchForWhite(gs, i) ==
    /\ games' = [gs EXCEPT ![i].st = "to_white"]
    /\ active' = [b \in Bot |-> IF b = gs[i].white.bot THEN i ELSE active[b]]

\* launch: the game is bound for its bots (not for the house), whatever they
\* were bound to.
Launch(gs, i) ==
    /\ games' = [gs EXCEPT ![i].st = "to_white"]
    /\ active' = [b \in Bot |-> IF b \in Players(gs[i]) THEN i ELSE active[b]]

\* The seek_ack is written, and the endpoint launches; or it raises, and the
\* game is forgotten.
AckChallenge(i) ==
    /\ i \in DOMAIN games /\ games[i].st = "created"
    /\ IF games[i].white.sess = sess[games[i].white.bot]
         THEN Launch(games, i)
         ELSE /\ games' = [games EXCEPT ![i].st = "forgotten"]
              /\ active' = active
    /\ UNCHANGED <<now, sessVars, queueVars, loopVars, histVars>>

-----------------------------------------------------------------------------
(* The matcher's tick, at the time n it read when it started.              *)

Alive(t)      == sess[t.bot] = t.sess
Expired(t, n) == n - t.at >= TTL
Reaped(p)     == Keep(p, {i \in DOMAIN p : Alive(p[i])})

\* _pair_reals: the oldest ticket that has an opponent.
Opponent(p, i, n) ==
    BestOpponent(p[i], p, n, IF last[p[i].bot] = None THEN {} ELSE {last[p[i].bot]})
Pairable(p, n) == {i \in DOMAIN p : Opponent(p, i, n) # 0}
Oldest(s)      == CHOOSE i \in s : \A j \in s : i <= j

SeatOf(t) == Seat(t.bot, t.sess, t.id)
\* The older ticket plays White, of two as old the one that looked for a game.
White(t, o) == IF t.at <= o.at THEN t ELSE o
Black(t, o) == IF t.at <= o.at THEN o ELSE t

\* Mutant: the opponent's ticket is not dropped.
StartsGameForOne(await, gs, ts, w, b, others) ==
    /\ Len(gs) < MaxGames
    /\ Launch(Append(gs, Game(w, b, "matcher")), Len(gs) + 1)
    /\ mpc' = await /\ taken' = SubSeq(ts, 1, 1) /\ greet' = others /\ at' = 0 /\ keep' = <<>>

\* A game is created for the tickets ts and its launch awaited at `await`; the
\* tickets `others` are still to be greeted.
StartsGame(await, gs, ts, w, b, others) ==
    /\ Len(gs) < MaxGames
    /\ Launch(Append(gs, Game(w, b, "matcher")), Len(gs) + 1)
    /\ mpc' = await /\ taken' = ts /\ greet' = others /\ at' = 0 /\ keep' = <<>>

TickEnds(gs) ==
    /\ games' = gs /\ UNCHANGED active
    /\ mpc' = "idle" /\ taken' = <<>> /\ greet' = <<>> /\ at' = 0 /\ keep' = <<>>

\* _greet, over what is left of its copy q of the pool; gs are the games so far.
Greeting(q, gs, n) ==
    LET due == {i \in DOMAIN q : Greeted /\ n - q[i].at >= GreeterWait} IN
    /\ UNCHANGED last
    /\ IF due = {} THEN TickEnds(gs)
       ELSE \E i \in {Oldest(due)} :
            StartsGame("greeting", gs, <<q[i]>>, SeatOf(q[i]), HouseSeat,
                       SubSeq(q, i + 1, Len(q)))

\* _pair_reals with p in the pool, then _greet.  (The pool is in the order of its
\* clock already: the sort changes nothing.)
Pairing(p, gs, n) ==
    IF Pairable(p, n) = {} THEN Greeting(p, gs, n)
    ELSE \E i \in {Oldest(Pairable(p, n))} : \E j \in {Opponent(p, i, n)} :
         /\ StartsGame("pairing", gs, <<p[i], p[j]>>,
                       SeatOf(White(p[i], p[j])), SeatOf(Black(p[i], p[j])), <<>>)
         /\ last' = [last EXCEPT ![p[i].bot] = p[j].bot, ![p[j].bot] = p[i].bot]

\* Mutant: an expired ticket stays in the index.
ExpiresKnown(p, i, k, o, n) ==
    LET due == {j \in i .. Len(p) : Expired(p[j], n)} IN
    IF due = {}
      THEN \E live \in {k \o SubSeq(p, i, Len(p))} :
           /\ pool' = live /\ open' = o /\ ended' = ended
           /\ Pairing(live, games, n)
      ELSE LET j == Oldest(due) IN
           /\ pool' = p /\ open' = o
           /\ ended' = ended \cup {<<p[j].id, "expired">>}
           /\ mpc' = "expiring" /\ at' = j + 1 /\ keep' = k \o SubSeq(p, i, j - 1)
           /\ UNCHANGED <<greet, taken, gameVars, last>>

\* _expire from position i of the pool p, with k in `live` and o in _by_seek: the
\* next expired ticket is told and the matcher waits; after the last one the
\* pool becomes the list that was kept, and pairing begins.
Expires(p, i, k, o, n) ==
    LET due == {j \in i .. Len(p) : Expired(p[j], n)} IN
    IF due = {}
      THEN \E live \in {k \o SubSeq(p, i, Len(p))} :
           /\ pool' = live /\ open' = o /\ ended' = ended
           /\ Pairing(live, games, n)
      ELSE LET j == Oldest(due) IN
           /\ pool' = p /\ open' = o \ {p[j].id}
           /\ ended' = ended \cup {<<p[j].id, "expired">>}
           /\ mpc' = "expiring" /\ at' = j + 1 /\ keep' = k \o SubSeq(p, i, j - 1)
           /\ UNCHANGED <<greet, taken, gameVars, last>>

\* Mutant: a pool with one ticket is skipped.
TickStartsForTwo ==
    /\ mpc = "idle" /\ Len(pool) > 1
    /\ tick' = now
    /\ \E p \in {Reaped(pool)} :
       Expires(p, 1, <<>>, open \ (IdsOf(pool) \ IdsOf(p)), now)
    /\ UNCHANGED <<now, sessVars, seeks>>

\* A tick starts by reaping the tickets of dead sessions.
TickStarts ==
    /\ mpc = "idle" /\ pool # <<>>
    /\ tick' = now
    /\ \E p \in {Reaped(pool)} :
       Expires(p, 1, <<>>, open \ (IdsOf(pool) \ IdsOf(p)), now)
    /\ UNCHANGED <<now, sessVars, seeks>>

ExpiryTold ==
    /\ mpc = "expiring"
    /\ Expires(pool, at, keep, open, tick)
    /\ UNCHANGED <<now, sessVars, tick, seeks>>

-----------------------------------------------------------------------------
(* launch's sends, one for each bot that has a session.                    *)

Addressee(g) == IF g.st = "to_white" THEN g.white ELSE g.black
Sending(i)   == i \in DOMAIN games /\ games[i].st \in {"to_white", "to_black"}
Reachable(g) == Addressee(g).sess = sess[Addressee(g).bot]
LastSend(g)  == g.st = "to_black" \/ g.black = HouseSeat

WhiteTold(i) ==
    /\ Sending(i) /\ Reachable(games[i]) /\ ~LastSend(games[i])
    /\ games' = [games EXCEPT ![i].st = "to_black"]
    /\ UNCHANGED <<now, sessVars, queueVars, loopVars, active, histVars>>

\* run_game is created and launch returns: to the matcher, which drops the
\* tickets and goes on, or to the challenger's endpoint.
Launched(i) ==
    /\ Sending(i) /\ Reachable(games[i]) /\ LastSend(games[i])
    /\ \E gs \in {[games EXCEPT ![i].st = "running"]} :
       IF games[i].by = "challenge"
         THEN games' = gs /\ UNCHANGED <<queueVars, loopVars, active>>
         ELSE \E p \in {Without(pool, IdsOf(taken))} :
              /\ pool' = p /\ open' = open \ IdsOf(taken) /\ tick' = tick
              /\ IF mpc = "pairing" THEN Pairing(p, gs, tick) ELSE Greeting(greet, gs, tick)
    /\ UNCHANGED <<now, sessVars, histVars>>

\* The session was closed and the send raises: the launch ends, and the tick or
\* the challenger's connection with it; the game stays bound, the tickets stay.
LaunchFails(i) ==
    /\ Sending(i) /\ ~Reachable(games[i])
    /\ IF games[i].by = "matcher"
         THEN TickEnds([games EXCEPT ![i].st = "stranded"]) /\ UNCHANGED <<tick, sess>>
         ELSE /\ games' = [games EXCEPT ![i].st = "stranded"]
              /\ sess' = [b \in Bot |-> IF Seat(b, sess[b], 0) = games[i].white THEN 0 ELSE sess[b]]
              /\ UNCHANGED <<loopVars, active>>
    /\ UNCHANGED <<now, inc, queueVars, histVars>>

\* Mutant: the bots stay bound to the game.
GameEndsBound(i) ==
    /\ i \in DOMAIN games /\ games[i].st = "running"
    /\ games' = [games EXCEPT ![i].st = "over"]
    /\ active' = active
    /\ UNCHANGED <<now, sessVars, queueVars, loopVars, histVars>>

\* run_game ends: its bots are unbound, unless another game took their place.
GameEnds(i) ==
    /\ i \in DOMAIN games /\ games[i].st = "running"
    /\ games' = [games EXCEPT ![i].st = "over"]
    /\ active' = [b \in Bot |-> IF active[b] = i THEN 0 ELSE active[b]]
    /\ UNCHANGED <<now, sessVars, queueVars, loopVars, histVars>>

-----------------------------------------------------------------------------
Matcher  == TickStarts \/ ExpiryTold
Launches == \E i \in 1 .. MaxGames :
                AckChallenge(i) \/ WhiteTold(i) \/ Launched(i) \/ LaunchFails(i)

Next ==
    \/ Matcher \/ Launches \/ Clock
    \/ \E b \in Bot : Seek(b) \/ Connect(b) \/ Disconnect(b)
    \/ \E i \in DOMAIN pool : Cancel(pool[i])
    \/ \E b, o \in Bot : DirectChallenge(b, o)
    \/ \E i \in 1 .. MaxGames : GameEnds(i)

Spec == Init /\ [][Next]_vars

\* The matcher's task is ticked at least every tick_interval, sends return, and
\* time passes; bots do nothing they do not want to.
FairSpec == Spec /\ WF_vars(Matcher) /\ WF_vars(Launches) /\ WF_vars(Clock)

-----------------------------------------------------------------------------
(* Properties.                                                             *)

Entry == [id : 1 .. MaxSeeks, bot : Bot, sess : 1 .. MaxSess, at : 0 .. MaxTime]

\* Every variable has its type, and the pool is in the order of the clock.
TypeOK ==
    /\ now \in 0 .. MaxTime /\ tick \in 0 .. MaxTime
    /\ sess \in [Bot -> 0 .. MaxSess] /\ inc \in [Bot -> 1 .. MaxSess]
    /\ \A s \in {pool, keep, greet, taken} : s \in Seq(Entry)
    /\ \A i, j \in DOMAIN pool : i < j => pool[i].at <= pool[j].at
    /\ open \in SUBSET (1 .. MaxSeeks)
    /\ last \in [Bot -> Bot \cup {None}]
    /\ mpc \in {"idle", "expiring", "pairing", "greeting"} /\ at \in 0 .. MaxSeeks + 1
    /\ \A i \in DOMAIN games :
          /\ games[i].st \in Pending \cup Live \cup {"over", "stranded", "forgotten"}
          /\ Players(games[i]) \subseteq Bot \cup {House}
    /\ active \in [Bot -> 0 .. MaxGames] /\ seeks \in 0 .. MaxSeeks
    /\ ended \in SUBSET ((1 .. MaxSeeks) \X {"cancelled", "expired"})

\* Two bots of one owner never meet, by pairing or by challenge (H5, CONTEXT).
OwnersNeverMeet ==
    \A i \in DOMAIN games : \A b, o \in Players(games[i]) \cap Bot :
        b # o => ~(OwnerOf[b] # NoOwner /\ OwnerOf[b] = OwnerOf[o])

\* The active-game index never leads a bot to a game it does not play or to one
\* that is over, although several games may bind and unbind the same bot.
ActiveGameIsPlayed ==
    \A b \in Bot : active[b] # 0 =>
        /\ b \in Players(games[active[b]])
        /\ games[active[b]].st \in Live \cup {"stranded"}

\* When the matcher stops pairing, no two tickets of the pool could be paired:
\* the anti-rematch exclusion never leaves a bot without a game it could have.
PairingReturns ==
    /\ \/ Matcher
       \/ \E i \in DOMAIN games : games[i].by = "matcher" /\ mpc = "pairing" /\ Launched(i)
    /\ mpc' \in {"greeting", "idle"}
NobodyIsLeftUnpaired ==
    [][PairingReturns =>
         \A i, j \in DOMAIN pool' : ~Eligible(pool'[i], pool'[j], tick')]_vars

\* Bots that seek only when they are free are in one game at a time (CONTEXT,
\* E6) as long as nobody challenges them directly.
InGames(b) == {i \in DOMAIN games : games[i].st \in Live /\ b \in Players(games[i])}
OneGameAtATime == \A b \in Bot : Cardinality(InGames(b)) <= 1

\* A game that runs is the one its bots' frames are routed to.
RunningGameIsActive ==
    \A i \in DOMAIN games : games[i].st = "running" =>
        \A b \in Players(games[i]) \cap Bot : active[b] = i

\* A seek ends in one way: one game, or one seek_ended.
Outcomes(id) == {<<i, "game">> : i \in {j \in DOMAIN games :
                     id \in {games[j].white.seek, games[j].black.seek}}}
                \cup {e \in ended : e[1] = id}
SeekHasOneOutcome == \A id \in 1 .. seeks : Cardinality(Outcomes(id)) <= 1

\* Between two ticks the pool and the index of seeks hold the same tickets, and
\* a ticket the index knows is never missing from the pool.
PoolMatchesIndex ==
    /\ open \subseteq IdsOf(pool)
    /\ mpc = "idle" => IdsOf(pool) = open

\* Every seek is paired, greeted or ended: the TTL lets nobody wait for ever.
EverySeekEnds == \A id \in 1 .. MaxSeeks : id \in open ~> id \notin open
=============================================================================
