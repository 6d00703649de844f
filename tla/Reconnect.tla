------------------------------ MODULE Reconnect ------------------------------
(***************************************************************************)
(* The connections of the two bots of one game: the socket endpoint        *)
(* (ws/bot_endpoint.py bot_ws), the registry of live sessions, each        *)
(* session's send lock, the seats that sends are addressed to, and         *)
(* run_game as far as it sends frames to the bots (GameLoop has the rest). *)
(*                                                                         *)
(* A session serialises its senders with a fair lock (ws/session.py), so   *)
(* every coroutine that sends joins outbox[k]; the one at the head owns    *)
(* the socket, and continues when its frame is written or raises.  A       *)
(* coroutine is at the await its pc names.                                 *)
(***************************************************************************)
EXTENDS Integers, Sequences, Sublists

CONSTANTS Conn,   \* the connections that may be opened
          Owner,  \* Owner[k]: the color of the bot that opens k
          First,  \* First[c]: the connection c was paired on
          Rotates, \* the bots whose owner may rotate the key
          MaxPly  \* bound: the game is over after MaxPly moves

Color == {"white", "black"}

ASSUME ConnAssumption ==
    /\ Owner \in [Conn -> Color]
    /\ First \in [Color -> Conn] /\ \A c \in Color : Owner[First[c]] = c
    /\ Rotates \subseteq Color
ASSUME NamesAssumption == (Color \cup {"none", "game", "rotation"}) \cap Conn = {}
ASSUME MaxPlyAssumption == MaxPly \in Nat \ {0}

Turn(n)  == IF n % 2 = 0 THEN "white" ELSE "black"
Other(c) == IF c = "white" THEN "black" ELSE "white"
None     == "none"
TheGame  == "game"        \* the senders that are not handshakes
Rotation == "rotation"
Senders  == Conn \cup {TheGame, Rotation}

Frame(t, p, n) == [type |-> t, ply |-> p, fen |-> n]
Plain(t)       == Frame(t, 0, 0)
YourTurn(p, n) == Frame("your_turn", p, n)
GameOver       == Plain("game_over")
Types  == {"game_start", "your_turn", "move_ack", "game_over", "welcome", "session_replaced"}
Frames == [type : Types, ply : 0 .. MaxPly, fen : 0 .. MaxPly]

VARIABLES
  \* per connection
  pc,      \* the await the handler of k is at
  alive,   \* the client still holds its end of k
  shut,    \* the server closed k
  snap,    \* the handshake's `active` and `resume`
  outbox,  \* the senders at the session's lock, with their frames
  got,     \* the your_turn and game_over frames that reached the client
  \* shared
  current, \* SessionRegistry: the live session of each bot
  seat,    \* WsSeat.session of each color
  bound,   \* GameRegistry: the game is in the active index
  recent,  \* GameRegistry: the bots with an undelivered recent terminal
  \* the game
  gpc,     \* the await of launch, then of run_game
  state,   \* Game.state
  ply,     \* live.ply
  board,   \* moves pushed on live.board
  abort,   \* Game.abort
  \* history
  opened,  \* the connections registered so far, oldest first
  gap,     \* <<k, frame>>: sent where k cannot see it, and not repeated
  early    \* both bots had left before the game was in progress

connVars   == <<pc, alive, shut, snap, outbox, got>>
sharedVars == <<current, seat, bound, recent>>
gameVars   == <<gpc, state, ply, board, abort>>
histVars   == <<opened, gap, early>>
vars == <<connVars, sharedVars, gameVars, histVars>>

NoResume == [active |-> FALSE, to_move |-> None]
ConnsOf(c) == {k \in Conn : Owner[k] = c}

-----------------------------------------------------------------------------
(* The send lock.                                                          *)

Enqueue(box, k, who, m) == [box EXCEPT ![k] = Append(@, [by |-> who, msg |-> m])]
Dequeued(k) == [outbox EXCEPT ![k] = Tail(@)]

\* Mutant: a write to a socket the server closed does not raise.
CompletesAnyway(k, who, ok) ==
    /\ outbox[k] # <<>> /\ Head(outbox[k]).by = who
    /\ IF ok THEN TRUE ELSE shut[k] \/ ~alive[k]
    /\ got' = IF ok /\ alive[k] /\ Head(outbox[k]).msg.type \in {"your_turn", "game_over"}
              THEN [got EXCEPT ![k] = @ \cup {Head(outbox[k]).msg}]
              ELSE got

\* The sender at the head of k's lock is `who` and its frame is written (ok) or
\* raises.  A frame written to a client that is gone is lost without an error.
Completes(k, who, ok) ==
    /\ outbox[k] # <<>> /\ Head(outbox[k]).by = who
    /\ IF ok THEN ~shut[k] ELSE shut[k] \/ ~alive[k]
    /\ got' = IF ok /\ alive[k] /\ Head(outbox[k]).msg.type \in {"your_turn", "game_over"}
              THEN [got EXCEPT ![k] = @ \cup {Head(outbox[k]).msg}]
              ELSE got

\* k does not see what is sent to the seat now: its handshake has read the game
\* and not yet rebound the seat, or an older handshake took the seat back.
Misses(k) == \/ pc[k] = "welcoming"
             \/ /\ current[Owner[k]] = k /\ seat[Owner[k]] # k
                /\ pc[k] \in {"resending", "serving"}

\* The game addresses m to the session bound to c's seat.
GameSends(box, c, m) ==
    /\ outbox' = Enqueue(box, seat[c], TheGame, m)
    /\ gap' = gap \cup {<<k, m>> : k \in {h \in ConnsOf(c) : Misses(h)}}

-----------------------------------------------------------------------------
\* launch() has bound the game and is sending game_start to White, on the
\* session White was paired on.
Init ==
    /\ pc = [k \in Conn |-> IF k \in {First[c] : c \in Color} THEN "serving" ELSE "new"]
    /\ alive = [k \in Conn |-> TRUE] /\ shut = [k \in Conn |-> FALSE]
    /\ snap = [k \in Conn |-> NoResume]
    /\ outbox = [k \in Conn |-> IF k = First["white"]
                                THEN <<[by |-> TheGame, msg |-> Plain("game_start")]>>
                                ELSE <<>>]
    /\ got = [k \in Conn |-> {}]
    /\ current = First /\ seat = First /\ bound = TRUE /\ recent = {}
    /\ gpc = "start_white" /\ state = "paired" /\ ply = 0 /\ board = 0 /\ abort = FALSE
    /\ opened = <<First["white"], First["black"]>> /\ gap = {} /\ early = FALSE

-----------------------------------------------------------------------------
(* The game: launch, then run_game.                                        *)

\* launch sends to participant.session, and an exception ends it: run_game is
\* never created, and nothing unbinds the game.
GameStartSent(k, ok) ==
    /\ gpc \in {"start_white", "start_black"}
    /\ Completes(k, TheGame, ok)
    /\ IF ok /\ gpc = "start_white"
         THEN /\ gpc' = "start_black"
              /\ outbox' = Enqueue(Dequeued(k), First["black"], TheGame, Plain("game_start"))
         ELSE /\ gpc' = IF ok THEN "paired" ELSE "stranded"
              /\ outbox' = Dequeued(k)
    /\ UNCHANGED <<pc, alive, shut, snap, sharedVars, state, ply, board, abort, histVars>>

StartGame ==
    /\ gpc = "paired"
    /\ state' = "in_progress"
    /\ gpc' = "starting"
    /\ UNCHANGED <<connVars, sharedVars, ply, board, abort, histVars>>

\* request_move: your_turn goes to whatever session the seat is bound to now.
AskTurn ==
    /\ gpc = "starting"
    /\ gpc' = "asking"
    /\ GameSends(outbox, Turn(board), YourTurn(ply, board))
    /\ UNCHANGED <<pc, alive, shut, snap, got, sharedVars, state, ply, board, abort,
                   opened, early>>

TurnSent(k, ok) ==
    /\ gpc = "asking"
    /\ Completes(k, TheGame, ok)
    /\ outbox' = Dequeued(k)
    /\ gpc' = "waiting"
    /\ UNCHANGED <<pc, alive, shut, snap, sharedVars, state, ply, board, abort, histVars>>

\* The bot on move answers its your_turn over a connection that is served.
BotMoves(k) ==
    /\ gpc = "waiting" /\ Owner[k] = Turn(board)
    /\ pc[k] = "serving" /\ alive[k] /\ ~shut[k]
    /\ YourTurn(ply, board) \in got[k]
    /\ board' = board + 1
    /\ gpc' = "confirming"
    /\ GameSends(outbox, Turn(board), Frame("move_ack", ply, 0))
    /\ UNCHANGED <<pc, alive, shut, snap, got, sharedVars, state, ply, abort, opened, early>>

\* Mutant: a move_ack that raises is not suppressed.
MoveConfirmedOrLost(k, ok) ==
    /\ gpc = "confirming" /\ ok
    /\ Completes(k, TheGame, ok)
    /\ outbox' = Dequeued(k)
    /\ gpc' = "publishing"
    /\ UNCHANGED <<pc, alive, shut, snap, sharedVars, state, ply, board, abort, histVars>>

MoveConfirmed(k, ok) ==
    /\ gpc = "confirming"
    /\ Completes(k, TheGame, ok)
    /\ outbox' = Dequeued(k)
    /\ gpc' = "publishing"
    /\ UNCHANGED <<pc, alive, shut, snap, sharedVars, state, ply, board, abort, histVars>>

\* The move is published: the ply advances, and the game goes on or is over.
NextTurn ==
    /\ gpc = "publishing"
    /\ ply' = ply + 1
    /\ IF ply + 1 = MaxPly
         THEN /\ gpc' = "finalizing" /\ state' = "finished"
              /\ UNCHANGED <<outbox, gap>>
         ELSE /\ gpc' = "asking" /\ state' = state
              /\ GameSends(outbox, Turn(board), YourTurn(ply + 1, board))
    /\ UNCHANGED <<pc, alive, shut, snap, got, sharedVars, board, abort, opened, early>>

WithoutGame(box) == Keep(box, {i \in DOMAIN box : box[i].by # TheGame})

\* The wait ends without a move: the move task is cancelled, its frame with it.
EndTurn(s) ==
    /\ gpc \in {"asking", "waiting"}
    /\ outbox' = [k \in Conn |-> WithoutGame(outbox[k])]
    /\ state' = s
    /\ gpc' = "finalizing"
    /\ UNCHANGED <<pc, alive, shut, snap, got, sharedVars, ply, board, abort, histVars>>

Flag  == ~abort /\ EndTurn("finished")   \* or a resignation, a forfeit, a draw
Abort == abort /\ EndTurn("aborted")

Finalized ==
    /\ gpc = "finalizing"
    /\ gpc' = "over_white"
    /\ GameSends(outbox, "white", GameOver)
    /\ UNCHANGED <<pc, alive, shut, snap, got, sharedVars, state, ply, board, abort,
                   opened, early>>

\* Mutant: a send that raises does not release the lock.
GameOverSentUnreleased(k, ok) ==
    /\ gpc \in {"over_white", "over_black"}
    /\ Completes(k, TheGame, ok)
    /\ LET box == IF ok THEN Dequeued(k) ELSE outbox IN
       IF gpc = "over_white"
         THEN /\ gpc' = "over_black"
              /\ GameSends(box, "black", GameOver)
         ELSE /\ gpc' = "closing"
              /\ outbox' = box /\ gap' = gap
    /\ UNCHANGED <<pc, alive, shut, snap, sharedVars, state, ply, board, abort, opened, early>>

\* A game_over that raises is suppressed; the other side and the spectators follow.
GameOverSent(k, ok) ==
    /\ gpc \in {"over_white", "over_black"}
    /\ Completes(k, TheGame, ok)
    /\ IF gpc = "over_white"
         THEN /\ gpc' = "over_black"
              /\ GameSends(Dequeued(k), "black", GameOver)
         ELSE /\ gpc' = "closing"
              /\ outbox' = Dequeued(k) /\ gap' = gap
    /\ UNCHANGED <<pc, alive, shut, snap, sharedVars, state, ply, board, abort, opened, early>>

\* Mutant: the terminal is not kept for bots that were away.
UnbindForgets ==
    /\ gpc = "closing"
    /\ bound' = FALSE
    /\ recent' = recent
    /\ gpc' = "done"
    /\ UNCHANGED <<connVars, current, seat, state, ply, board, abort, histVars>>

\* unbind_active, after the spectators were told.
Unbind ==
    /\ gpc = "closing"
    /\ bound' = FALSE
    /\ recent' = Color
    /\ gpc' = "done"
    /\ UNCHANGED <<connVars, current, seat, state, ply, board, abort, histVars>>

\* The exception of a publish on the bus (game_start, a move, game_over) or of the
\* finalizer leaves run_game: nobody is told, and the game stays bound.
RunGameRaises ==
    /\ gpc \in {"starting", "publishing", "finalizing", "closing"}
    /\ gpc' = "dead"
    /\ UNCHANGED <<connVars, sharedVars, state, ply, board, abort, histVars>>

-----------------------------------------------------------------------------
(* The endpoint: handshake, service, cleanup.                              *)

\* Mutant: the snapshot names the side that just moved.
GreetWrongSide(k, box) ==
    /\ snap' = [snap EXCEPT ![k] = IF bound THEN [active |-> TRUE, to_move |-> Other(Turn(board))]
                                            ELSE NoResume]
    /\ outbox' = Enqueue(box, k, k, Plain("welcome"))
    /\ pc' = [pc EXCEPT ![k] = "welcoming"]
    /\ gap' = IF bound /\ state \in {"finished", "aborted"}
              THEN gap \cup {<<k, GameOver>>} ELSE gap

\* After the older session is dealt with: read the bot's active game and send
\* welcome.  A game that is over but not unbound is still active.
Greet(k, box) ==
    /\ snap' = [snap EXCEPT ![k] = IF bound THEN [active |-> TRUE, to_move |-> Turn(board)]
                                            ELSE NoResume]
    /\ outbox' = Enqueue(box, k, k, Plain("welcome"))
    /\ pc' = [pc EXCEPT ![k] = "welcoming"]
    /\ gap' = IF bound /\ state \in {"finished", "aborted"}
              THEN gap \cup {<<k, GameOver>>} ELSE gap

\* A good hello: the newest connection becomes the live one, and the one it
\* replaces is told and closed first.
Register(k) ==
    /\ pc[k] = "new" /\ alive[k]
    /\ current' = [current EXCEPT ![Owner[k]] = k]
    /\ opened' = Append(opened, k)
    /\ IF current[Owner[k]] = None
         THEN Greet(k, outbox)
         ELSE /\ pc' = [pc EXCEPT ![k] = "replacing"]
              /\ outbox' = Enqueue(outbox, current[Owner[k]], k, Plain("session_replaced"))
              /\ UNCHANGED <<snap, gap>>
    /\ UNCHANGED <<alive, shut, got, seat, bound, recent, gameVars, early>>

\* Session.terminate suppresses every error; it closes the old socket.
Replaced(k, old, ok) ==
    /\ pc[k] = "replacing"
    /\ Completes(old, k, ok)
    /\ shut' = [shut EXCEPT ![old] = TRUE]
    /\ Greet(k, Dequeued(old))
    /\ UNCHANGED <<alive, sharedVars, gameVars, opened, early>>

\* welcome is written: rebind the seat, and repeat your_turn if the snapshot
\* said it is this bot's turn; without a game, deliver a missed game_over.
Welcomed(k) ==
    LET c == Owner[k]  box == Dequeued(k) IN
    /\ pc[k] = "welcoming" /\ Completes(k, k, TRUE)
    /\ seat' = IF snap[k].active THEN [seat EXCEPT ![c] = k] ELSE seat
    /\ \/ /\ snap[k].active /\ snap[k].to_move = c
          /\ pc' = [pc EXCEPT ![k] = "resending"]
          /\ outbox' = Enqueue(box, k, k, YourTurn(ply, board))
       \/ /\ ~snap[k].active /\ c \in recent
          /\ pc' = [pc EXCEPT ![k] = "delivering"]
          /\ outbox' = Enqueue(box, k, k, GameOver)
       \/ /\ IF snap[k].active THEN snap[k].to_move # c ELSE c \notin recent
          /\ pc' = [pc EXCEPT ![k] = "serving"]
          /\ outbox' = box
    /\ snap' = [snap EXCEPT ![k] = NoResume]
    /\ UNCHANGED <<alive, shut, current, bound, recent, gameVars, histVars>>

TurnResent(k, ok) ==
    /\ pc[k] = "resending" /\ Completes(k, k, ok)
    /\ outbox' = Dequeued(k)
    /\ pc' = [pc EXCEPT ![k] = "serving"]
    /\ UNCHANGED <<alive, shut, snap, sharedVars, gameVars, histVars>>

\* The terminal is forgotten once written, also when the client had vanished.
MissedDelivered(k) ==
    /\ pc[k] = "delivering" /\ Completes(k, k, TRUE)
    /\ outbox' = Dequeued(k)
    /\ recent' = recent \ {Owner[k]}
    /\ pc' = [pc EXCEPT ![k] = "serving"]
    /\ gap' = IF alive[k] THEN gap
              ELSE gap \cup {<<h, GameOver>> : h \in ConnsOf(Owner[k])}
    /\ UNCHANGED <<alive, shut, snap, current, seat, bound, gameVars, opened, early>>

\* welcome or the missed game_over raises: the exception leaves bot_ws before
\* its try block, so the session is not removed and nobody is looked for.
HandshakeFails(k) ==
    /\ pc[k] \in {"welcoming", "delivering"} /\ Completes(k, k, FALSE)
    /\ outbox' = Dequeued(k)
    /\ pc' = [pc EXCEPT ![k] = "failed"]
    /\ UNCHANGED <<alive, shut, snap, sharedVars, gameVars, histVars>>

\* The receive loop ends: the client is gone (at once, or when the heartbeat
\* finds out), or the server closed the socket.
LeaveLoop(k) ==
    /\ pc[k] = "serving" /\ (shut[k] \/ ~alive[k])
    /\ pc' = [pc EXCEPT ![k] = "leaving"]      \* await hb_task
    /\ UNCHANGED <<alive, shut, snap, outbox, got, sharedVars, gameVars, histVars>>

\* Mutant: the bot is removed even if a newer session took over.
CleanUpAlways(k) ==
    LET c == Owner[k] IN
    /\ pc[k] = "leaving"
    /\ pc' = [pc EXCEPT ![k] = "closed"]
    /\ current' = [current EXCEPT ![c] = None]
    /\ LET gone == \A d \in Color : current'[d] = None IN
       /\ abort' = (abort \/ (gone /\ bound /\ state = "in_progress"))
       /\ early' = (early \/ (gone /\ bound /\ state = "paired"))
    /\ UNCHANGED <<alive, shut, snap, outbox, got, seat, bound, recent, gpc, state, ply, board,
                   opened, gap>>

\* Mutant: the check comes before the removal.
CleanUpLate(k) ==
    LET c == Owner[k] IN
    /\ pc[k] = "leaving"
    /\ pc' = [pc EXCEPT ![k] = "closed"]
    /\ current' = IF current[c] = k THEN [current EXCEPT ![c] = None] ELSE current
    /\ LET gone == \A d \in Color : current[d] = None IN
       /\ abort' = (abort \/ (gone /\ bound /\ state = "in_progress"))
       /\ early' = (early \/ (gone /\ bound /\ state = "paired"))
    /\ UNCHANGED <<alive, shut, snap, outbox, got, seat, bound, recent, gpc, state, ply, board,
                   opened, gap>>

\* Mutant: one absent bot counts as mutual abandonment.
CleanUpHasty(k) ==
    LET c == Owner[k] IN
    /\ pc[k] = "leaving"
    /\ pc' = [pc EXCEPT ![k] = "closed"]
    /\ current' = IF current[c] = k THEN [current EXCEPT ![c] = None] ELSE current
    /\ LET gone == \E d \in Color : current'[d] = None IN
       /\ abort' = (abort \/ (gone /\ bound /\ state = "in_progress"))
       /\ early' = (early \/ (gone /\ bound /\ state = "paired"))
    /\ UNCHANGED <<alive, shut, snap, outbox, got, seat, bound, recent, gpc, state, ply, board,
                   opened, gap>>

\* remove_if_current, then the check for mutual abandonment.
CleanUp(k) ==
    LET c == Owner[k] IN
    /\ pc[k] = "leaving"
    /\ pc' = [pc EXCEPT ![k] = "closed"]
    /\ current' = IF current[c] = k THEN [current EXCEPT ![c] = None] ELSE current
    /\ LET gone == \A d \in Color : current'[d] = None IN
       /\ abort' = (abort \/ (gone /\ bound /\ state = "in_progress"))
       /\ early' = (early \/ (gone /\ bound /\ state = "paired"))
    /\ UNCHANGED <<alive, shut, snap, outbox, got, seat, bound, recent, gpc, state, ply, board,
                   opened, gap>>

-----------------------------------------------------------------------------
(* The environment.                                                        *)

\* The client of a connection in use vanishes; the server learns it later.
ClientGone(k) ==
    /\ alive[k] /\ pc[k] \notin {"new", "closed", "failed"}
    /\ alive' = [alive EXCEPT ![k] = FALSE]
    /\ UNCHANGED <<pc, shut, snap, outbox, got, sharedVars, gameVars, histVars>>

\* Key rotation (bots/routes.py) evicts the live session and terminates it.
RotateKey(c) ==
    /\ c \in Rotates /\ current[c] # None
    /\ current' = [current EXCEPT ![c] = None]
    /\ outbox' = Enqueue(outbox, current[c], Rotation, Plain("session_replaced"))
    /\ UNCHANGED <<pc, alive, shut, snap, got, seat, bound, recent, gameVars, histVars>>

Evicted(k, ok) ==
    /\ Completes(k, Rotation, ok)
    /\ outbox' = Dequeued(k)
    /\ shut' = [shut EXCEPT ![k] = TRUE]
    /\ UNCHANGED <<pc, alive, snap, sharedVars, gameVars, histVars>>

-----------------------------------------------------------------------------
GameSent(k, ok) == \/ GameStartSent(k, ok) \/ TurnSent(k, ok)
                   \/ MoveConfirmed(k, ok) \/ GameOverSent(k, ok)
GameRuns == StartGame \/ AskTurn \/ NextTurn \/ Abort \/ Finalized \/ Unbind
Handshake(k) == \/ \E old \in Conn, ok \in BOOLEAN : Replaced(k, old, ok)
                \/ Welcomed(k) \/ MissedDelivered(k) \/ HandshakeFails(k)
                \/ \E ok \in BOOLEAN : TurnResent(k, ok)

Next ==
    \/ GameRuns \/ Flag \/ RunGameRaises
    \/ \E k \in Conn, ok \in BOOLEAN : GameSent(k, ok) \/ Evicted(k, ok)
    \/ \E k \in Conn : Handshake(k) \/ LeaveLoop(k) \/ CleanUp(k)
    \/ \E k \in Conn : Register(k) \/ BotMoves(k) \/ ClientGone(k)
    \/ \E c \in Color : RotateKey(c)

Spec == Init /\ [][Next]_vars

\* Coroutines that can run do, a send does not stay suspended (a stalled socket
\* is closed by the heartbeat or by the WebSocket layer's own pings), and the
\* side to move runs out of time; no client has to do anything.
Fairness ==
    /\ WF_vars(GameRuns) /\ WF_vars(Flag)
    /\ \A k \in Conn :
         /\ WF_vars(\E ok \in BOOLEAN : GameSent(k, ok) \/ Evicted(k, ok))
         /\ WF_vars(Handshake(k)) /\ WF_vars(LeaveLoop(k)) /\ WF_vars(CleanUp(k))
FairSpec == Spec /\ Fairness

-----------------------------------------------------------------------------
(* Properties.                                                             *)

PCs == {"new", "replacing", "welcoming", "resending", "delivering", "serving", "leaving",
        "closed", "failed"}
Playing == {"asking", "waiting", "confirming", "publishing"}

\* Every variable has its type.
TypeOK ==
    /\ pc \in [Conn -> PCs] /\ alive \in [Conn -> BOOLEAN] /\ shut \in [Conn -> BOOLEAN]
    /\ snap \in [Conn -> [active : BOOLEAN, to_move : Color \cup {None}]]
    /\ outbox \in [Conn -> Seq([by : Senders, msg : Frames])]
    /\ got \in [Conn -> SUBSET Frames]
    /\ current \in [Color -> Conn \cup {None}] /\ seat \in [Color -> Conn]
    /\ bound \in BOOLEAN /\ recent \in SUBSET Color
    /\ gpc \in Playing \cup {"start_white", "start_black", "paired", "starting", "finalizing",
                             "over_white", "over_black", "closing", "done", "stranded", "dead"}
    /\ state \in {"paired", "in_progress", "finished", "aborted"}
    /\ ply \in 0 .. MaxPly /\ board \in 0 .. MaxPly /\ abort \in BOOLEAN
    /\ opened \in Seq(Conn) /\ gap \in SUBSET (Conn \X Frames) /\ early \in BOOLEAN

\* k was registered after h.
Newer(k, h) == \E i, j \in 1 .. Len(opened) : i < j /\ opened[i] = h /\ opened[j] = k

\* A newer connection or a key rotation is waiting to close k.
BeingClosed(k) == \E i \in 1 .. Len(outbox[k]) : outbox[k][i].by \in (Conn \ {k}) \cup {Rotation}

\* While a bot has a connection that was not replaced, evicted or dropped, it is
\* found in the registry: its opponent's departure is not mutual abandonment.
ConnectedBotsAreRegistered ==
    \A k \in Conn :
        /\ pc[k] \in {"welcoming", "resending", "delivering", "serving"}
        /\ ~shut[k] /\ ~BeingClosed(k)
        => current[Owner[k]] = k

\* Newest wins (ADR-0016 A6) for the seat too, whatever handshakes overlap and
\* however long their sends take: the seat of a game passes to a newer session,
\* or back to an older one only while the server is already closing that one.
SeatGoesToTheNewest ==
    [][\A c \in Color : seat'[c] # seat[c] =>
          Newer(seat'[c], seat[c]) \/ BeingClosed(seat'[c])]_vars

\* A game is aborted only while no connection of either bot is served, but for
\* those the server is closing (ADR-0025 #3, I7: a single drop costs nothing).
AbortNeedsBothGone ==
    [][abort' /\ ~abort =>
         \A k \in Conn : pc'[k] = "serving" => shut[k] \/ BeingClosed(k)]_vars

NobodyServed == \A k \in Conn : pc[k] \in {"new", "closed"}

\* When both bots leave a running game and their handlers end normally, the game
\* is aborted, however the two cleanups interleave.
AbandonmentIsNoticed ==
    state = "in_progress" /\ NobodyServed /\ ~early => abort

\* A reconnected bot on move has its your_turn, unless the game sent it while
\* the handshake was between reading the game and rebinding the seat, or after an
\* older handshake had taken the seat back (Misses).
Connected(c, k) == current[c] = k /\ pc[k] = "serving" /\ alive[k] /\ ~shut[k]
TurnIsKnown ==
    gpc = "waiting" => \A k \in Conn :
        Connected(Turn(board), k) /\ <<k, YourTurn(ply, board)>> \notin gap
          => YourTurn(ply, board) \in got[k]

\* A connected bot knows that its game is over, unless game_over was sent while
\* its handshake could not see it, or to an earlier connection that had vanished
\* when the missed game_over was written to it.
OutcomeIsKnown ==
    gpc = "done" => \A c \in Color, k \in Conn :
        Connected(c, k) /\ <<k, GameOver>> \notin gap
          => \E h \in ConnsOf(c) : GameOver \in got[h]

\* Nobody waits for ever at a send lock: a handshake always comes to its end,
\* although it waits for the older session, whose lock run_game may hold.  (The
\* connections the bots were paired on have had theirs.)
HandshakesEnd ==
    \A k \in Conn \ {First[c] : c \in Color} :
        pc[k] \in {"replacing", "welcoming", "resending", "delivering"}
          ~> pc[k] \in {"serving", "failed"}

\* A game whose launch succeeded is played to its end and its bots are free,
\* unless an exception leaves run_game: no absence, replacement or failing send of
\* the bots stops it.
GamesClose == [](gpc = "paired" => <>((gpc = "done" /\ ~bound) \/ gpc = "dead"))

\* A bot that fails to get ready costs the pairing and no more: a paired game is
\* started or aborted within the start-grace window (ADR-0010, PAIRED -> ABORTED).
PairedGamesMoveOn == state = "paired" ~> state # "paired"

=============================================================================
