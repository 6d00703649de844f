------------------------------ MODULE SdkClient ------------------------------
(***************************************************************************)
(* The run loop of the Python SDK (sdk/engineroom/.../bot.py), restarted   *)
(* by the runner of the house bots (sdk/house_bots/runner.py), against the *)
(* server as one bot sees it: an endpoint that serves the newest           *)
(* connection, a seat that reads moves by their ply, games one after the   *)
(* other, of which some are lost: bound to the bot, and run by no task.  A *)
(* connection may drop at any moment and takes with it any suffix of the   *)
(* frames under way in either direction.                                   *)
(***************************************************************************)
EXTENDS Naturals, Sequences

CONSTANTS Uci,          \* the moves choose_move may return
          Me,           \* whether the bot plays the even plies (0) or the odd (1)
          MaxPly,       \* plies after which a position is final
          MaxGames,     \* bound: games that the server starts
          MaxConns,     \* bound: connections that the client opens
          MaxResends,   \* _max_resends
          ReconnectAttempts,  \* _reconnect_attempts
          Loop,         \* run(loop=True)
          Restarted     \* whether a runner starts a client that raised again

\* A move is not taken for another request: its frame has a type of its own.
ASSUME MovesAreMoves == "seek" \notin Uci /\ "control" \notin Uci

ASSUME SdkAssumption ==
    /\ Me \in {0, 1} /\ MaxPly \in Nat \ {0} /\ MaxGames \in Nat /\ MaxConns \in Nat
    /\ MaxResends \in Nat /\ ReconnectAttempts \in Nat \ {0}
    /\ Loop \in BOOLEAN /\ Restarted \in BOOLEAN

VARIABLES
    \* the client
    pc,         \* where its run loop awaits
    resuming,   \* _open was called by _reconnect_resume
    tries,      \* attempts of _open_with_retry that failed
    mine,       \* the game it plays, 0 for none
    out,        \* the move it sent last: the frame that is resent
    resends,    \* how often
    acked,      \* it has read a move_ack for it
    \* the connection
    link,       \* "up" or "down", as the client finds it
    conns,      \* connections opened so far
    up, down,   \* frames under way to the server and to the client
    \* the server
    hs,         \* the handler of the newest connection: "none", "greeted", "serving"
    resume,     \* what the handshake read: the active game, and whether the bot is on move
    seeking,    \* a seek of the newest session waits
    stale,      \* one of a replaced session is still in the matcher's pass
    bound,      \* the seat's session is the newest connection
    game,       \* the number of the last game, state its state
    state,      \* "none", "running", "told" (game over, still in the index), or
                \* "stuck" (in the index, and no task runs it)
    moves,      \* the moves on its board
    inbound,    \* the frames in its seat's inbox
    terminal,   \* the recent terminal game kept for the bot, 0 for none
    \* history
    chosen,     \* what choose_move answered, by game and ply
    closed,     \* the calls of on_game_over: the client's game, and the frame's
    blind,      \* a game_over went to a session that a handshake was replacing
    lost        \* the games whose launch or run_game ended with an exception

client == <<pc, resuming, tries, mine, out, resends, acked>>
server == <<hs, resume, seeking, stale, bound, game, state, moves, inbound, terminal>>
wires  == <<link, conns, up, down>>
seen   == <<chosen, closed, blind, lost>>
vars   == <<client, server, wires, seen>>

NoMove == [game |-> 0, ply |-> 0, uci |-> "none"]

\* The frames, down to what the client and the server tell them apart by.
Frame(kind, g, p) == [kind |-> kind, game |-> g, ply |-> p]
Request(kind, g)  == Frame(kind, g, 0)
MoveFrame(m)      == Frame(m.uci, m.game, m.ply)

OnMove == state = "running" /\ Len(moves) % 2 = Me
Turn(g) == Frame("your_turn", g, Len(moves))

Init ==
    /\ pc = "open" /\ resuming = FALSE /\ tries = 0 /\ mine = 0
    /\ out = NoMove /\ resends = 0 /\ acked = FALSE
    /\ link = "down" /\ conns = 0 /\ up = <<>> /\ down = <<>>
    /\ hs = "none" /\ resume = [game |-> 0, onMove |-> FALSE]
    /\ seeking = FALSE /\ stale = FALSE /\ bound = FALSE
    /\ game = 0 /\ state = "none" /\ moves = <<>> /\ inbound = <<>> /\ terminal = 0
    /\ chosen = {} /\ closed = <<>> /\ blind = FALSE /\ lost = {}

-----------------------------------------------------------------------------
(* The client's awaits. *)

\* The locals of a call of _play_one_game are gone when it ends.
Forgotten == /\ resuming' = FALSE /\ tries' = 0 /\ mine' = 0
             /\ out' = NoMove /\ resends' = 0 /\ acked' = FALSE

\* Something raised that the run loop does not catch: _play_one_game closes the
\* transport.  What was sent before stays on its way.
Raise ==
    /\ pc' = "failed" /\ link' = "down" /\ down' = <<>>
    /\ Forgotten /\ UNCHANGED <<conns, up>>

\* _open: the connection is refused, which is not a TransportClosed and is not
\* retried, or it opens and hello is sent.
Open ==
    /\ pc = "open"
    /\ \/ Raise /\ UNCHANGED <<hs, bound>>
       \/ /\ conns < MaxConns
          /\ conns' = conns + 1 /\ link' = "up" /\ down' = <<>> /\ pc' = "hello"
          /\ hs' = "none" /\ bound' = FALSE
          /\ UNCHANGED <<resuming, tries, mine, out, resends, acked, up>>
    /\ UNCHANGED <<resume, seeking, stale, game, state, moves, inbound, terminal, seen>>

\* The connection closed before welcome: only _open_with_retry tries again.
OpenFails ==
    /\ pc = "hello" /\ link = "down" /\ down = <<>>
    /\ IF resuming /\ tries + 1 < ReconnectAttempts
       THEN /\ tries' = tries + 1 /\ pc' = "open"
            /\ UNCHANGED <<resuming, mine, out, resends, acked, wires>>
       ELSE Raise
    /\ UNCHANGED <<server, seen>>

Got(kinds) == down # <<>> /\ Head(down).kind \in kinds
Read(kinds) == Got(kinds) /\ down' = Tail(down)

\* The game ended while the client was away: _GameEnded leaves the game without
\* on_game_over.
GameEnded ==
    /\ pc' = "closed" /\ link' = "down" /\ down' = <<>> /\ Forgotten

\* welcome, for _play_one_game: resume the active game or seek.
Welcomed ==
    /\ pc = "hello" /\ ~resuming
    /\ \/ /\ Read({"welcome"}) /\ Head(down).game # 0
          /\ pc' = "turn" /\ mine' = Head(down).game
          /\ UNCHANGED <<resuming, tries, out, resends, acked, link, conns, up>>
       \/ /\ Read({"welcome"}) /\ Head(down).game = 0 /\ link = "up"
          /\ pc' = "seek" /\ up' = Append(up, Request("seek", 0))
          /\ UNCHANGED <<resuming, tries, mine, out, resends, acked, link, conns>>
       \/ Got({"welcome"}) /\ Head(down).game = 0 /\ link = "down" /\ Raise
    /\ UNCHANGED <<server, seen>>

\* welcome, for _reconnect_resume: the same game goes on, or it has ended.
\* Mutant: whatever welcome says, a turn is awaited.
WelcomedBackAnyway ==
    /\ pc = "hello" /\ resuming /\ Read({"welcome"})
    /\ pc' = "turn" /\ resuming' = FALSE /\ tries' = 0
    /\ UNCHANGED <<mine, out, resends, acked, link, conns, up, server, seen>>
WelcomedBack ==
    /\ pc = "hello" /\ resuming
    /\ \/ /\ Read({"welcome"}) /\ Head(down).game = mine
          /\ pc' = "turn" /\ resuming' = FALSE /\ tries' = 0
          /\ UNCHANGED <<mine, out, resends, acked, link>>
       \/ Got({"welcome"}) /\ Head(down).game # mine /\ GameEnded
    /\ UNCHANGED <<conns, up, server, seen>>

\* _await_game_start skips seek_ack and the game_over of an earlier game.
\* Mutant: a stale game_over is taken for the end of the game that was sought.
AwaitGameStartHasty ==
    /\ pc = "seek"
    /\ \/ /\ Read({"game_start"}) /\ pc' = "turn" /\ mine' = Head(down).game
          /\ UNCHANGED <<resuming, tries, out, resends, acked, link, closed>>
       \/ Read({"seek_ack", "error"}) /\ UNCHANGED <<client, link, closed>>
       \/ /\ Got({"game_over"}) /\ GameEnded
          /\ closed' = Append(closed, <<mine, Head(down).game>>)
    /\ UNCHANGED <<conns, up, server, chosen, blind, lost>>
AwaitGameStart ==
    /\ pc = "seek"
    /\ \/ Read({"game_start"}) /\ pc' = "turn" /\ mine' = Head(down).game
       \/ Read({"seek_ack", "error", "game_over"}) /\ UNCHANGED <<pc, mine>>
    /\ UNCHANGED <<resuming, tries, out, resends, acked, link, conns, up, server, seen>>

\* your_turn: choose_move answers with a move for the ply it was shown, or with
\* RESIGN or ACCEPT_DRAW, after which the next turn is awaited.
TakeTurn ==
    /\ pc \in {"turn", "ack"} /\ Got({"your_turn"})
    /\ \/ link = "down" /\ Raise /\ UNCHANGED chosen
       \/ /\ link = "up" /\ Read({"your_turn"})
          /\ pc' = "turn" /\ up' = Append(up, Request("control", mine))
          /\ out' = NoMove /\ resends' = 0 /\ acked' = FALSE
          /\ UNCHANGED <<resuming, tries, mine, link, conns, chosen>>
       \/ /\ link = "up" /\ Read({"your_turn"})
          /\ pc' = "ack" /\ resends' = 0 /\ acked' = FALSE
          /\ \E u \in Uci :
                /\ out' = [game |-> mine, ply |-> Head(down).ply, uci |-> u]
                /\ up' = Append(up, MoveFrame(out'))
                /\ chosen' = chosen \cup {out'}
          /\ UNCHANGED <<resuming, tries, mine, link, conns>>
    /\ UNCHANGED <<server, closed, blind, lost>>

\* game_over: the hook is called and the game is left.
TakeGameOver ==
    /\ pc \in {"turn", "ack"} /\ Got({"game_over"}) /\ GameEnded
    /\ closed' = Append(closed, <<mine, Head(down).game>>)
    /\ UNCHANGED <<conns, up, server, chosen, blind, lost>>

\* Frames that neither _recv_turn nor _send_move acts upon.
Skip ==
    /\ pc \in {"turn", "ack"} /\ Read({"move_ack", "seek_ack", "error", "game_start"})
    /\ acked' = (pc = "ack" /\ (acked \/ Head(down).kind = "move_ack"))
    /\ UNCHANGED <<pc, resuming, tries, mine, out, resends, link, conns, up, server, seen>>

\* The connection closed: only _send_move resumes, every other await raises.
Closed ==
    /\ pc \in {"seek", "turn", "ack"} /\ link = "down" /\ down = <<>>
    /\ IF pc = "ack"
       THEN /\ pc' = "open" /\ resuming' = TRUE
            /\ out' = NoMove /\ resends' = 0 /\ acked' = FALSE
            /\ UNCHANGED <<tries, mine, wires>>
       ELSE Raise
    /\ UNCHANGED <<server, seen>>

\* No frame within _ack_timeout: the same frame again, or the client gives up.
\* It does so after a move_ack too, while the opponent thinks.
AckTimeout ==
    /\ pc = "ack" /\ link = "up"
    /\ IF resends < MaxResends
       THEN /\ resends' = resends + 1
            /\ up' = Append(up, MoveFrame(out))
            /\ UNCHANGED <<pc, resuming, tries, mine, out, acked, link, conns, down>>
       ELSE Raise
    /\ UNCHANGED <<server, seen>>

\* The next round of run(loop=True), or the runner after an exception.
PlayAgain ==
    /\ \/ pc = "closed" /\ Loop
       \/ pc = "failed" /\ Restarted
    /\ pc' = "open"
    /\ UNCHANGED <<resuming, tries, mine, out, resends, acked, wires, server, seen>>

\* The connection drops: each direction keeps a prefix of what was under way.
Drop ==
    /\ link = "up" /\ link' = "down"
    /\ \E i \in 0..Len(down), j \in 0..Len(up) :
          down' = SubSeq(down, 1, i) /\ up' = SubSeq(up, 1, j)
    /\ UNCHANGED <<client, conns, server, seen>>

-----------------------------------------------------------------------------
(* The server. *)

\* A send on the newest connection, one of the handler that reads the frames (of
\* an older connection until the newest registers), a best-effort one of the seat.
Sent(frames)     == down' = IF link = "up" THEN down \o frames ELSE down
Reply(frames)    == IF hs = "serving" THEN Sent(frames) ELSE UNCHANGED down
SeatSent(frames) == IF bound THEN Sent(frames) ELSE UNCHANGED down

\* The newest connection replaces the one before, whose unread frames are lost and
\* whose seek is dropped by the next pass of the matcher, if not paired by this one;
\* welcome carries the bot's game as the index has it.
Register ==
    /\ pc = "hello" /\ link = "up" /\ hs = "none"
    /\ hs' = "greeted" /\ up' = <<>> /\ bound' = FALSE
    /\ seeking' = FALSE /\ stale' = (stale \/ seeking)
    /\ resume' = [game   |-> IF state = "none" THEN 0 ELSE game,
                  onMove |-> state # "none" /\ Len(moves) % 2 = Me]
    /\ Sent(<<Frame("welcome", resume'.game, 0)>>)
    /\ blind' = (blind \/ state = "told")
    /\ UNCHANGED <<client, link, conns, game, state, moves, inbound, terminal, chosen, closed, lost>>

\* What follows the welcome: rebind the seat of the game that was read and repeat its
\* your_turn, or deliver the game_over of one that ended while the bot was away.
Rebind ==
    /\ hs = "greeted" /\ hs' = "serving"
    /\ IF resume.game # 0
       THEN /\ bound' = (resume.game = game)
            /\ Sent(IF resume.onMove THEN <<Turn(resume.game)>> ELSE <<>>)
            /\ UNCHANGED terminal
       ELSE /\ Sent(IF terminal # 0 THEN <<Frame("game_over", terminal, 0)>> ELSE <<>>)
            /\ terminal' = IF link = "up" THEN 0 ELSE terminal
            /\ UNCHANGED bound
    /\ resume' = [game |-> 0, onMove |-> FALSE]
    /\ UNCHANGED <<client, link, conns, up, seeking, stale, game, state, moves, inbound, seen>>

\* A publish or the finalizer raises: run_game is over, and the game stays bound.
RunGameRaises(frames) ==
    /\ state' = "stuck" /\ lost' = lost \cup {game}
    /\ SeatSent(frames) /\ UNCHANGED blind

\* The game has its verdict: once it is recorded the seat is told.  A handshake
\* that has read the index rebinds too late for it.
Over(frames) ==
    \/ /\ state' = "told" /\ SeatSent(Append(frames, Frame("game_over", game, 0)))
       /\ blind' = (blind \/ hs = "greeted") /\ UNCHANGED lost
    \/ RunGameRaises(frames)

\* The endpoint reads a frame: a seek, a control, or a move for the seat of the
\* game the bot is in now, whatever game the frame names.
ReadFrame ==
    /\ up # <<>> /\ hs # "greeted" /\ up' = Tail(up)
    /\ LET f == Head(up) IN
       \/ /\ f.kind = "seek"
          /\ seeking' = TRUE /\ Reply(<<Frame("seek_ack", 0, 0)>>)
          /\ UNCHANGED <<state, inbound, blind, lost>>
       \/ /\ f.kind = "control" /\ state = "running"
          /\ Over(<<>>)
          /\ UNCHANGED <<seeking, inbound>>
       \/ /\ f.kind = "control"      \* no offer to accept, or no game
          /\ UNCHANGED <<down, state, blind, lost, seeking, inbound>>
       \/ /\ f.kind \in Uci
          /\ IF state = "none"
             THEN Reply(<<Frame("error", 0, 0)>>) /\ UNCHANGED inbound
             ELSE inbound' = Append(inbound, f) /\ UNCHANGED down
          /\ UNCHANGED <<state, blind, lost, seeking>>
    /\ UNCHANGED <<client, link, conns, hs, resume, stale, bound, game, moves, terminal, chosen,
                   closed>>

\* A game is made of the bot's seek, with a seat and a board of its own; it takes
\* the place of a game in the index that nobody runs.  A pass of the matcher is
\* over before the game is.
NewGame ==
    /\ state \in {"none", "stuck"} /\ game < MaxGames
    /\ game' = game + 1 /\ moves' = <<>> /\ inbound' = <<>>
    /\ chosen' = {c \in chosen : c.game > game} /\ stale' = FALSE
    /\ UNCHANGED <<client, link, conns, up, hs, resume, terminal, closed, blind>>

\* The game begins; or the first publish of run_game raises, before any your_turn.
GameStarts ==
    /\ NewGame /\ seeking /\ seeking' = FALSE /\ bound' = (hs = "serving")
    /\ \E starts \in BOOLEAN :
          /\ state' = IF starts THEN "running" ELSE "stuck"
          /\ lost' = IF starts THEN lost ELSE lost \cup {game + 1}
          /\ Reply(<<Frame("game_start", game + 1, 0)>> \o
                   (IF starts /\ Me = 0 THEN <<Frame("your_turn", game + 1, 0)>> ELSE <<>>))

\* game_start raises, White's before Black's: to the opponent, or to a session of
\* this bot that is closed.  The game stays bound and the bot's seek in the pool,
\* for the next pass to drop it if its session was replaced.
LaunchRaises ==
    /\ NewGame /\ UNCHANGED seeking
    /\ state' = "stuck" /\ lost' = lost \cup {game + 1}
    /\ \/ stale /\ bound' = FALSE /\ UNCHANGED down
       \/ /\ seeking /\ bound' = (hs = "serving")
          /\ Reply(IF Me = 0 THEN <<Frame("game_start", game + 1, 0)>> ELSE <<>>)

\* The board takes a move: the next side is asked, or the game is over.
Played(u, frames) ==
    /\ moves' = Append(moves, u)
    /\ IF Len(moves) + 1 >= MaxPly
       THEN Over(frames)
       ELSE \/ /\ SeatSent(IF (Len(moves) + 1) % 2 = Me
                           THEN Append(frames, Frame("your_turn", game, Len(moves) + 1)) ELSE frames)
               /\ UNCHANGED <<state, blind, lost>>
            \/ RunGameRaises(frames)

OpponentMoves ==
    /\ state = "running" /\ ~OnMove
    /\ Played("theirs", <<>>)
    /\ UNCHANGED <<client, link, conns, up, hs, resume, seeking, stale, bound, game, inbound,
                   terminal, chosen, closed>>

\* The seat, asked for a move, reads a frame: the move for this ply, a duplicate
\* of one that was played, a stale one, or one from the future.
\* Mutant: whatever frame comes is the move.
ReadMoveAny ==
    /\ OnMove /\ inbound # <<>> /\ inbound' = Tail(inbound)
    /\ Played(Head(inbound).kind, <<Frame("move_ack", game, Len(moves))>>)
    /\ UNCHANGED <<client, link, conns, up, hs, resume, seeking, stale, bound, game, terminal,
                   chosen, closed>>
ReadMove ==
    /\ OnMove /\ inbound # <<>> /\ inbound' = Tail(inbound)
    /\ LET f == Head(inbound) IN
       \/ f.ply = Len(moves) /\ Played(f.kind, <<Frame("move_ack", game, f.ply)>>)
       \/ /\ f.ply < Len(moves)
          /\ SeatSent(IF moves[f.ply + 1] = f.kind
                      THEN <<Frame("move_ack", game, f.ply)>> ELSE <<>>)
          /\ UNCHANGED <<state, moves, blind, lost>>
       \/ /\ f.ply > Len(moves)
          /\ SeatSent(<<Frame("error", game, f.ply)>>)
          /\ UNCHANGED <<state, moves, blind, lost>>
    /\ UNCHANGED <<client, link, conns, up, hs, resume, seeking, stale, bound, game, terminal,
                   chosen, closed>>

\* A flag falls, or the opponent resigns.
GameEnds ==
    /\ state = "running" /\ Over(<<>>)
    /\ UNCHANGED <<client, link, conns, up, hs, resume, seeking, stale, bound, game, moves,
                   inbound, terminal, chosen, closed>>

\* The last publish raises, after the bots were told: the game stays bound.
NotAnnounced ==
    /\ state = "told" /\ state' = "stuck" /\ lost' = lost \cup {game}
    /\ UNCHANGED <<client, wires, hs, resume, seeking, stale, bound, game, moves, inbound,
                   terminal, chosen, closed, blind>>

\* The game leaves the index and is kept as the bot's recent terminal.
Unbind ==
    /\ state = "told" /\ state' = "none" /\ terminal' = game /\ inbound' = <<>>
    /\ UNCHANGED <<client, wires, hs, resume, seeking, stale, bound, game, moves, seen>>

-----------------------------------------------------------------------------
Client == \/ Open \/ OpenFails \/ Welcomed \/ WelcomedBack \/ AwaitGameStart
          \/ TakeTurn \/ TakeGameOver \/ Skip \/ Closed \/ AckTimeout
Next == \/ Client \/ PlayAgain \/ Drop
        \/ Register \/ Rebind \/ ReadFrame \/ GameStarts \/ LaunchRaises
        \/ OpponentMoves \/ ReadMove \/ GameEnds \/ NotAnnounced \/ Unbind

Spec == Init /\ [][Next]_vars

\* The client runs whenever it can, and so does the server; a bot that seeks is
\* paired, and a game ends because its clocks run out.
FairSpec == /\ Spec /\ WF_vars(Client) /\ WF_vars(PlayAgain)
            /\ WF_vars(Register) /\ WF_vars(Rebind) /\ WF_vars(ReadFrame)
            /\ WF_vars(GameStarts) /\ WF_vars(GameEnds) /\ WF_vars(Unbind)

-----------------------------------------------------------------------------
(* Properties. *)

Frames == [kind : {"welcome", "game_start", "your_turn", "move_ack", "game_over", "seek_ack",
                   "error", "seek", "control"} \cup Uci,
           game : 0..MaxGames, ply : 0..MaxPly]

TypeOK ==
    /\ pc \in {"open", "hello", "seek", "turn", "ack", "closed", "failed"}
    /\ resuming \in BOOLEAN /\ tries \in 0..ReconnectAttempts /\ mine \in 0..MaxGames
    /\ resends \in 0..MaxResends /\ acked \in BOOLEAN
    /\ link \in {"up", "down"} /\ conns \in 0..MaxConns
    /\ up \in Seq(Frames) /\ down \in Seq(Frames) /\ inbound \in Seq(Frames)
    /\ hs \in {"none", "greeted", "serving"} /\ bound \in BOOLEAN
    /\ seeking \in BOOLEAN /\ stale \in BOOLEAN
    /\ game \in 0..MaxGames /\ state \in {"none", "running", "told", "stuck"}
    /\ moves \in Seq(Uci \cup {"theirs"}) /\ Len(moves) <= MaxPly
    /\ terminal \in 0..game /\ lost \subseteq 1..game

\* Every move of the bot on the board is one that choose_move answered for that
\* very ply of that very game (bot.py:240-270 with seat.py:121-146,
\* docs/design/PROTOCOL.md:209): a frame that was resent, that was overtaken by a
\* reconnect and a new decision, or that answers an earlier game never moves.  A
\* client that was told to start a lost game takes the next one for it.
ChosenMovesArePlayed ==
    \A p \in 0..Len(moves) - 1 :
        p % 2 = Me => \E g \in {game} \cup lost :
                         [game |-> g, ply |-> p, uci |-> moves[p + 1]] \in chosen

\* on_game_over is called for the game the client plays, at most once for each
\* (bot.py:106-107): never for the stale game_over of a game it missed the end of,
\* unless the game it plays is lost.
HooksTellTheTruth ==
    /\ \A i \in DOMAIN closed : closed[i][1] = closed[i][2] \/ closed[i][1] \in lost
    /\ \A i, j \in DOMAIN closed : closed[i] = closed[j] => i = j

\* on_game_over is called for a game whose on_game_start was called ("once when a
\* game begins", bot.py:103-107), also when launches raise.
HooksNameTheirGame == \A i \in DOMAIN closed : closed[i][1] = closed[i][2]

\* A client in a game leaves it: no lost, late or repeated frame and no reconnect
\* makes it wait for ever (bot.py:154-280), unless the server told the end of the
\* game while a handshake of this bot was under way (bot_endpoint.py:163-187), or
\* the bot is bound to a game that nobody runs (launcher.py:97-99, worker.py:141,
\* 259, 298, 326).
ClientLeaves ==
    pc \in {"hello", "turn", "ack"} ~>
        (pc \notin {"hello", "turn", "ack"} \/ blind \/ state = "stuck")
=============================================================================
