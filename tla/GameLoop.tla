------------------------------ MODULE GameLoop ------------------------------
(***************************************************************************)
(* One game: the coroutine run_game (game/worker.py), the move task it     *)
(* starts every turn (game/seat.py request_move), its control task, its    *)
(* clock, and the frames the socket endpoint puts in its queues.           *)
(*                                                                         *)
(* The server is one asyncio process: code between two awaits is atomic,   *)
(* and everything else may run at an await.  Each action is therefore one  *)
(* stretch of code from an await to the next, and pc names the await at    *)
(* which run_game is suspended.                                            *)
(*                                                                         *)
(* A position is the sequence of moves played; python-chess is external:   *)
(* which moves are legal depends on the ply, and whether a position ends   *)
(* the game is a nondeterministic choice.                                  *)
(***************************************************************************)
EXTENDS Integers, Sequences

CONSTANTS Uci,             \* the move strings a bot may send
          Legal,           \* Legal[p]: the legal moves with p moves played
          MaxPly,          \* bound: the position after MaxPly moves is terminal
          Base,            \* each side's time at the start, in ticks
          Increment,       \* time credited after a move
          Lag,             \* bound: how late the loop may wake up for a timer
          House,           \* the colors played in-process by a house bot
          SearchDepth,     \* the moves its search pushes on the board at most
          FinalizerMayFail,\* whether the durable write may raise
          PublishMayFail,  \* whether the spectators' bus may raise
          MoveFrame,       \* the move frames a bot may send
          MaxFrames        \* bound: the frames the bots send in total

Color == {"white", "black"}
Ply   == 0 .. MaxPly - 1

ASSUME MaxPlyAssumption == MaxPly \in Nat \ {0}
ASSUME LegalAssumption  == Legal \in [Ply -> (SUBSET Uci) \ {{}}]
ASSUME ClockAssumption  == Base \in Nat /\ Increment \in Nat /\ Lag \in Nat
ASSUME HouseAssumption  == House \subseteq Color /\ SearchDepth \in Nat
ASSUME FrameAssumption  ==
    MoveFrame \subseteq [ply : Nat, uci : Uci, offer : BOOLEAN] /\ MaxFrames \in Nat
ASSUME FailAssumption   == FinalizerMayFail \in BOOLEAN /\ PublishMayFail \in BOOLEAN

None       == "none"
Other(c)   == IF c = "white" THEN "black" ELSE "white"
Turn(n)    == IF n % 2 = 0 THEN "white" ELSE "black"   \* board.turn
\* Mutant: an overdrawn clock is not floored at zero.
PositiveUnfloored(t) == t

Positive(t) == IF t > 0 THEN t ELSE 0                  \* max(0, t)

ControlKind == {"resign", "draw_offer", "draw_accept"}
Control   == [color : Color, kind : ControlKind]
NoControl == [color |-> None, kind |-> None]

Wins(c) == IF c = "white" THEN "white_wins" ELSE "black_wins"
Verdict(r, t) == [result |-> r, termination |-> t]
NoVerdict == Verdict(None, None)
Aborted   == Verdict("aborted", "aborted")
Verdicts  ==
    [result : {"white_wins", "black_wins", "draw", "aborted"},
     termination : {"checkmate", "auto_draw", "insufficient_material", "timeout",
                    "resignation", "illegal_move", "agreement", "aborted"}]

VARIABLES
  \* Game
  state,    \* Game.state
  final,    \* the stash made at the terminal: verdict, length of the stashed position
  abort,    \* abort_wait is done
  bound,    \* the game is in the active-game index
  recorded, \* the verdict in the durable record
  \* LiveState
  applied,  \* live.board and live.applied: the moves pushed
  ply,      \* live.ply
  moves,    \* live.moves, the spectators' history
  pending,  \* live.pending_draw_offer
  clock,    \* live.clock, per color
  \* run_game
  pc,       \* the await run_game is suspended at
  verdict,  \* its local (result, termination)
  elapsed,  \* ticks since this turn's t0
  expiry,   \* elapsed at which the running wait times out
  got,      \* what ctrl_task returned
  passes,   \* history: how often this turn's wait was entered again
  task,     \* the move task: progress, the offer it surfaces, the move it returns
  search,   \* moves a house bot's worker thread has pushed on the board, or NoThread
  \* queues and outbound frames
  inbound,  \* seat.inbound, per color
  controls, \* Game.controls
  turn,     \* the last your_turn sent, per color
  acks,     \* the move_acks sent
  told,     \* who was sent game_over
  \* history, for the properties
  frames,   \* how many frames the bots have sent
  offered,  \* per color, the number of moves on the board at its last draw offer
  bad       \* <<color, ply>> of every illegal move sent

gameVars  == <<state, final, abort, bound, recorded>>
liveVars  == <<applied, ply, moves, pending, clock>>
loopVars  == <<pc, verdict, elapsed, expiry, got, passes>>
seatVars  == <<task, search>>
queueVars == <<inbound, controls, frames, bad>>
outVars   == <<turn, acks, told>>
vars == <<gameVars, liveVars, loopVars, seatVars, queueVars, outVars, offered>>

NoThread == -1
Mover    == Turn(Len(applied))
Deadline == Positive(clock[Mover])           \* Clock.deadline_s of the mover
NoFinal  == [verdict |-> NoVerdict, position |-> 0]
\* The moves on live.board for whoever reads it: those played and those of a
\* search.  A read that falls into the middle of a push is one of the two.
Shown    == Len(applied) + Positive(search)

Idle == [st |-> "idle", offer |-> FALSE, uci |-> None]
\* live.pending_draw_offer seen from color c
OfferTo(c) == pending # None /\ pending # c

-----------------------------------------------------------------------------
\* launch() has called prepare_game and bind_active; run_game has not run yet.
Init ==
    /\ state = "paired" /\ final = NoFinal /\ abort = FALSE
    /\ bound = TRUE /\ recorded = NoVerdict
    /\ applied = <<>> /\ ply = 0 /\ moves = <<>> /\ pending = None
    /\ clock = [c \in Color |-> Base]
    /\ pc = "paired" /\ verdict = NoVerdict
    /\ elapsed = 0 /\ expiry = 0 /\ got = NoControl /\ passes = 0
    /\ task = Idle /\ search = NoThread
    /\ inbound = [c \in Color |-> <<>>] /\ controls = <<>>
    /\ turn = [c \in Color |-> [ply |-> -1, offer |-> FALSE]]
    /\ acks = {} /\ told = {}
    /\ frames = 0 /\ offered = [c \in Color |-> -1] /\ bad = {}

-----------------------------------------------------------------------------
(* The environment: what the endpoint does for the two bots, and time.     *)

\* The receive loop routes a move to the seat of the sender's active game.
MoveArrives(c, f) ==
    /\ bound /\ c \notin House /\ frames < MaxFrames
    /\ frames' = frames + 1
    /\ inbound' = [inbound EXCEPT ![c] = Append(@, f)]
    /\ bad' = IF f.ply \in Ply /\ f.uci \notin Legal[f.ply]
                 THEN bad \cup {<<c, f.ply>>} ELSE bad
    /\ UNCHANGED <<gameVars, liveVars, loopVars, seatVars, controls, outVars, offered>>

ControlArrives(ctl) ==
    /\ bound /\ ctl.color \notin House /\ frames < MaxFrames
    /\ frames' = frames + 1
    /\ controls' = Append(controls, ctl)
    /\ UNCHANGED <<gameVars, liveVars, loopVars, seatVars, inbound, bad, outVars, offered>>

\* Both bots' sessions are gone: the endpoint sets Game.abort.
MutualAbandonment ==
    /\ bound /\ state = "in_progress" /\ House = {} /\ ~abort
    /\ abort' = TRUE
    /\ UNCHANGED <<state, final, bound, recorded, liveVars, loopVars, seatVars,
                   queueVars, outVars, offered>>

\* Time is charged only while run_game waits for the mover.
Tick ==
    /\ pc = "wait" /\ elapsed < expiry + Lag
    /\ elapsed' = elapsed + 1
    /\ UNCHANGED <<gameVars, liveVars, pc, verdict, expiry, got, passes, seatVars,
                   queueVars, outVars, offered>>

-----------------------------------------------------------------------------
(* Turns.                                                                  *)

\* The top of run_game's outer loop, up to the first asyncio.wait.
OpenTurn ==
    LET mover == Turn(Len(applied)) IN
    /\ pc' = "wait"
    /\ elapsed' = 0 /\ passes' = 0 /\ got' = NoControl
    /\ expiry' = Deadline
    /\ task' = [st |-> "asking", offer |-> OfferTo(mover), uci |-> None]

StartGame ==
    /\ pc = "paired"
    /\ state' = "in_progress"
    /\ pc' = "starting"                       \* await publish(game_start)
    /\ UNCHANGED <<final, abort, bound, recorded, liveVars, verdict, elapsed, expiry,
                   got, passes, seatVars, queueVars, outVars, offered>>

FirstTurn ==
    /\ pc = "starting"
    /\ OpenTurn
    /\ UNCHANGED <<gameVars, liveVars, verdict, search, queueVars, outVars, offered>>

-----------------------------------------------------------------------------
(* The move task.                                                          *)

\* WsSeat.request_move sends your_turn, with the offer captured at the call.
AskMove ==
    /\ task.st = "asking" /\ Mover \notin House
    /\ turn' = [turn EXCEPT ![Mover] = [ply |-> ply, offer |-> task.offer]]
    /\ task' = [task EXCEPT !.st = "reading"]
    /\ UNCHANGED <<gameVars, liveVars, loopVars, search, queueVars, acks, told, offered>>

\* Mutant: a late frame is acknowledged whatever move it carries.
DuplicateAnyMove(f) == f.ply < ply

\* One frame read: at the current ply it decides the turn, an old one is
\* acknowledged again or ignored, one from the future is reported.
Duplicate(f) == f.ply < ply /\ applied[f.ply + 1] = f.uci

\* Mutant: a late frame decides the turn.
ReadLateMove ==
    /\ task.st = "reading" /\ inbound[Mover] # <<>>
    /\ inbound' = [inbound EXCEPT ![Mover] = Tail(@)]
    /\ LET f == Head(inbound[Mover]) IN
       /\ task' = IF f.ply > ply THEN task
                  ELSE IF f.uci \in Legal[ply]
                       THEN [st |-> "done", offer |-> f.offer, uci |-> f.uci]
                       ELSE [task EXCEPT !.st = "illegal"]
       /\ acks' = IF Duplicate(f)
                  THEN acks \cup {[color |-> Mover, ply |-> f.ply, uci |-> f.uci]}
                  ELSE acks
    /\ UNCHANGED <<gameVars, liveVars, loopVars, search, controls, frames, bad,
                   turn, told, offered>>

ReadMove ==
    /\ task.st = "reading" /\ inbound[Mover] # <<>>
    /\ inbound' = [inbound EXCEPT ![Mover] = Tail(@)]
    /\ LET f == Head(inbound[Mover]) IN
       /\ task' = IF f.ply # ply THEN task
                  ELSE IF f.uci \in Legal[ply]
                       THEN [st |-> "done", offer |-> f.offer, uci |-> f.uci]
                       ELSE [task EXCEPT !.st = "illegal"]
       /\ acks' = IF Duplicate(f)
                  THEN acks \cup {[color |-> Mover, ply |-> f.ply, uci |-> f.uci]}
                  ELSE acks
    /\ UNCHANGED <<gameVars, liveVars, loopVars, search, controls, frames, bad,
                   turn, told, offered>>

\* HouseSeat.request_move: a worker thread searches on live.board itself.
\* Cancelling the task does not stop the thread.
HouseThinks ==
    /\ task.st = "asking" /\ Mover \in House
    /\ task' = [task EXCEPT !.st = "searching"]
    /\ search' = 0
    /\ UNCHANGED <<gameVars, liveVars, loopVars, queueVars, outVars, offered>>

\* choose_move pushes down to its depth and pops every move it pushed.
SearchStep ==
    /\ \/ search # NoThread /\ search < SearchDepth /\ search' = search + 1
       \/ search > 0 /\ search' = search - 1
    /\ UNCHANGED <<gameVars, liveVars, loopVars, task, queueVars, outVars, offered>>

\* Mutant: the best move so far is handed out while the thread searches on.
HouseAnswersEarly ==
    /\ search # NoThread /\ task.st = "searching"
    /\ search' = search
    /\ \E u \in Legal[ply] : task' = [st |-> "done", offer |-> FALSE, uci |-> u]
    /\ UNCHANGED <<gameVars, liveVars, loopVars, queueVars, outVars, offered>>

HouseAnswers ==
    /\ search = 0
    /\ search' = NoThread
    /\ IF task.st = "searching"
         THEN \E u \in Legal[ply] :
                 task' = [st |-> "done", offer |-> FALSE, uci |-> u]
         ELSE task' = task                  \* cancelled meanwhile
    /\ UNCHANGED <<gameVars, liveVars, loopVars, queueVars, outVars, offered>>

-----------------------------------------------------------------------------
(* run_game's inner loop: which of the things it waited for has happened,  *)
(* in the order of the code: abort, control, move, deadline.               *)

TakeControl ==
    /\ pc = "wait" /\ got = NoControl /\ controls # <<>>
    /\ got' = Head(controls)
    /\ controls' = Tail(controls)
    /\ UNCHANGED <<gameVars, liveVars, pc, verdict, elapsed, expiry, passes, seatVars,
                   inbound, frames, bad, outVars, offered>>

\* A result is known: the move task is cancelled and the loop is left.
Leave(v) ==
    /\ verdict' = v
    /\ pc' = "left"                           \* await abort_wait
    /\ task' = Idle
    /\ UNCHANGED <<elapsed, expiry, got, passes, search>>

WakeAbort ==
    /\ pc = "wait" /\ abort
    /\ Leave(Aborted)
    /\ UNCHANGED <<gameVars, liveVars, queueVars, outVars, offered>>

\* Mutants: the mover gets its whole time again; or none at all.
WaitAgainInFull ==
    /\ got' = NoControl
    /\ passes' = passes + 1
    /\ expiry' = elapsed + Deadline
    /\ UNCHANGED <<pc, verdict, elapsed, seatVars>>
WaitAgainTooShort ==
    /\ got' = NoControl
    /\ passes' = passes + 1
    /\ expiry' = elapsed
    /\ UNCHANGED <<pc, verdict, elapsed, seatVars>>

\* A control that does not end the game leaves the move task alone and waits
\* again, for what is left of the mover's time.
WaitAgain ==
    /\ got' = NoControl
    /\ passes' = passes + 1
    /\ expiry' = elapsed + Positive(Deadline - elapsed)
    /\ UNCHANGED <<pc, verdict, elapsed, seatVars>>

WakeResign ==
    /\ pc = "wait" /\ ~abort /\ got.kind = "resign"
    /\ Leave(Verdict(Wins(Other(got.color)), "resignation"))
    /\ UNCHANGED <<gameVars, liveVars, queueVars, outVars, offered>>

\* Mutant: an acceptance that is not valid withdraws the standing offer.
WakeDrawAcceptClears ==
    /\ pc = "wait" /\ ~abort /\ got.kind = "draw_accept"
    /\ IF pending = Other(got.color)
         THEN Leave(Verdict("draw", "agreement")) /\ UNCHANGED pending
         ELSE WaitAgain /\ pending' = None
    /\ UNCHANGED <<gameVars, applied, ply, moves, clock, queueVars, outVars, offered>>

WakeDrawAccept ==
    /\ pc = "wait" /\ ~abort /\ got.kind = "draw_accept"
    /\ IF pending = Other(got.color)
         THEN Leave(Verdict("draw", "agreement"))
         ELSE WaitAgain
    /\ UNCHANGED <<gameVars, liveVars, queueVars, outVars, offered>>

WakeDrawOffer ==
    /\ pc = "wait" /\ ~abort /\ got.kind = "draw_offer"
    /\ pending' = got.color
    /\ offered' = [offered EXCEPT ![got.color] = Len(applied)]
    /\ WaitAgain
    /\ UNCHANGED <<gameVars, applied, ply, moves, clock, queueVars, outVars>>

WakeIllegal ==
    /\ pc = "wait" /\ ~abort /\ got = NoControl /\ task.st = "illegal"
    /\ Leave(Verdict(Wins(Other(Mover)), "illegal_move"))
    /\ UNCHANGED <<gameVars, liveVars, queueVars, outVars, offered>>

\* Mutant: the timer is not armed again after a control.
WakeTimeoutOnce ==
    /\ pc = "wait" /\ ~abort /\ got = NoControl /\ task.st \notin {"done", "illegal"}
    /\ elapsed >= expiry /\ passes = 0
    /\ \/ Leave(Verdict(Wins(Other(Mover)), "timeout"))
       \/ Leave(Verdict("draw", "insufficient_material"))
    /\ UNCHANGED <<gameVars, liveVars, queueVars, outVars, offered>>

\* The flag falls; python-chess decides whether the opponent could still win.
WakeTimeout ==
    /\ pc = "wait" /\ ~abort /\ got = NoControl /\ task.st \notin {"done", "illegal"}
    /\ elapsed >= expiry
    /\ \/ Leave(Verdict(Wins(Other(Mover)), "timeout"))
       \/ Leave(Verdict("draw", "insufficient_material"))
    /\ UNCHANGED <<gameVars, liveVars, queueVars, outVars, offered>>

\* Mutant: a move does not decline the standing offer.
OfferAfterMoveKept(c, offer) == IF offer THEN c ELSE pending

\* live.pending_draw_offer after c moves, with or without an offer.
OfferAfterMove(c, offer) ==
    IF offer THEN c ELSE IF pending = Other(c) THEN None ELSE pending

\* The move is charged, pushed on the board and credited; then its ack is awaited.
WakeMove ==
    /\ pc = "wait" /\ ~abort /\ got = NoControl /\ task.st = "done"
    /\ applied' = Append(applied, task.uci)
    /\ clock' = [clock EXCEPT ![Mover] = @ - elapsed + Increment]
    /\ pending' = OfferAfterMove(Mover, task.offer)
    /\ offered' = IF task.offer THEN [offered EXCEPT ![Mover] = Len(applied) + 1]
                                ELSE offered
    /\ pc' = "confirming"                     \* await confirm_move
    /\ UNCHANGED <<gameVars, ply, moves, verdict, elapsed, expiry, got, passes,
                   seatVars, queueVars, outVars>>

ConfirmMove ==
    /\ pc = "confirming"
    /\ LET c == Other(Mover) IN               \* the board is already pushed
       acks' = IF c \in House THEN acks
               ELSE acks \cup {[color |-> c, ply |-> ply, uci |-> task.uci]}
    /\ moves' = Append(moves, task.uci)
    /\ task' = Idle
    /\ pc' = "publishing"                     \* await publish(move)
    /\ UNCHANGED <<gameVars, applied, ply, pending, clock, verdict, elapsed, expiry,
                   got, passes, search, queueVars, turn, told, offered>>

\* The move counts; the game ends here or the other side is asked.
GameEnds ==
    /\ \/ verdict' = Verdict(Wins(Other(Mover)), "checkmate")
       \/ verdict' = Verdict("draw", "auto_draw")
    /\ pc' = "left"
    /\ UNCHANGED <<elapsed, expiry, got, passes, task>>

PlyDone ==
    /\ pc = "publishing"
    /\ ply' = ply + 1
    /\ \/ GameEnds
       \/ ply + 1 < MaxPly /\ OpenTurn /\ UNCHANGED verdict
    /\ UNCHANGED <<gameVars, applied, moves, pending, clock, search, queueVars,
                   outVars, offered>>

\* The bus raises in one of run_game's three publishes: game_start, a move, or
\* game_over once the bots were told.  The exception leaves run_game there.
PublishFails ==
    /\ PublishMayFail
    /\ \/ pc \in {"starting", "publishing"} /\ pc' = "crashed"
       \/ pc = "notifying" /\ told = Color /\ pc' = "unannounced"
    /\ UNCHANGED <<gameVars, liveVars, verdict, elapsed, expiry, got, passes, seatVars,
                   queueVars, outVars, offered>>

-----------------------------------------------------------------------------
(* The terminal: stash, durable record, notifications, unbinding.          *)

Terminate ==
    /\ pc = "left"
    /\ state' = IF verdict.termination = "aborted" THEN "aborted" ELSE "finished"
    /\ final' = [verdict |-> verdict, position |-> Shown]
    /\ pc' = "finalizing"                     \* await finalizer
    /\ UNCHANGED <<abort, bound, recorded, liveVars, verdict, elapsed, expiry, got,
                   passes, seatVars, queueVars, outVars, offered>>

Finalize ==
    /\ pc = "finalizing"
    /\ recorded' = final.verdict
    /\ pc' = "notifying"
    /\ UNCHANGED <<state, final, abort, bound, liveVars, verdict, elapsed, expiry, got,
                   passes, seatVars, queueVars, outVars, offered>>

\* Mutant: a failed write is logged and the game announced all the same.
FinalizeFailsQuietly ==
    /\ pc = "finalizing" /\ FinalizerMayFail
    /\ pc' = "notifying"
    /\ UNCHANGED <<gameVars, liveVars, verdict, elapsed, expiry, got, passes, seatVars,
                   queueVars, outVars, offered>>

\* The exception leaves run_game: nobody is told, nothing is unbound.
FinalizeFails ==
    /\ pc = "finalizing" /\ FinalizerMayFail
    /\ pc' = "unrecorded"
    /\ UNCHANGED <<gameVars, liveVars, verdict, elapsed, expiry, got, passes, seatVars,
                   queueVars, outVars, offered>>

Audience == Color \cup {"spectators"}

\* White's seat, Black's seat, then the spectators' channel.
NotifyOrder == <<"white", "black", "spectators">>
Notify(a) ==
    /\ pc = "notifying"
    /\ a \notin told
    /\ \A i, j \in 1 .. 3 : NotifyOrder[i] = a /\ j < i => NotifyOrder[j] \in told
    /\ told' = told \cup {a}
    /\ pc' = IF a = "spectators" THEN "unbinding" ELSE pc
    /\ UNCHANGED <<gameVars, liveVars, verdict, elapsed, expiry, got, passes, seatVars,
                   queueVars, turn, acks, offered>>

Unbind ==
    /\ pc = "unbinding"
    /\ bound' = FALSE
    /\ pc' = "done"
    /\ UNCHANGED <<state, final, abort, recorded, liveVars, verdict, elapsed, expiry,
                   got, passes, seatVars, queueVars, outVars, offered>>

-----------------------------------------------------------------------------
MoveTask == AskMove \/ ReadMove \/ HouseThinks \/ HouseAnswers
Wake     == WakeAbort \/ WakeResign \/ WakeDrawAccept \/ WakeDrawOffer
              \/ WakeIllegal \/ WakeTimeout \/ WakeMove
Terminal == Terminate \/ Finalize \/ FinalizeFails
              \/ (\E a \in Audience : Notify(a)) \/ Unbind
RunGame  == StartGame \/ FirstTurn \/ TakeControl \/ Wake \/ ConfirmMove \/ PlyDone
              \/ PublishFails \/ Terminal
Bots     == \/ \E c \in Color, f \in MoveFrame : MoveArrives(c, f)
            \/ \E ctl \in Control : ControlArrives(ctl)
            \/ MutualAbandonment

Next == RunGame \/ MoveTask \/ SearchStep \/ Bots \/ Tick

Spec == Init /\ [][Next]_vars

\* The event loop runs every ready coroutine and time passes; nothing makes a
\* bot send anything, and nothing makes a worker thread finish in time.
Fairness == WF_vars(RunGame) /\ WF_vars(AskMove \/ ReadMove) /\ WF_vars(Tick)
FairSpec == Spec /\ Fairness
-----------------------------------------------------------------------------
(* Properties.                                                             *)

\* run_game ended with an exception: during the game, before the durable record,
\* or before the spectators were told.
Died == {"crashed", "unrecorded", "unannounced"}

PCs == {"paired", "starting", "wait", "confirming", "publishing", "left",
        "finalizing", "notifying", "unbinding", "done"} \cup Died

\* Every variable has its type.
TypeOK ==
    /\ state \in {"paired", "in_progress", "finished", "aborted"}
    /\ final \in [verdict : Verdicts \cup {NoVerdict}, position : Nat]
    /\ abort \in BOOLEAN /\ bound \in BOOLEAN
    /\ recorded \in Verdicts \cup {NoVerdict}
    /\ applied \in Seq(Uci) /\ ply \in Nat /\ moves \in Seq(Uci)
    /\ pending \in Color \cup {None}
    /\ clock \in [Color -> Int]
    /\ pc \in PCs /\ verdict \in Verdicts \cup {NoVerdict}
    /\ elapsed \in Nat /\ expiry \in Nat /\ passes \in Nat
    /\ got \in Control \cup {NoControl}
    /\ task \in [st : {"idle", "asking", "reading", "searching", "done", "illegal"},
                 offer : BOOLEAN, uci : Uci \cup {None}]
    /\ search \in {NoThread} \cup 0 .. SearchDepth
    /\ inbound \in [Color -> Seq(MoveFrame)] /\ controls \in Seq(Control)
    /\ turn \in [Color -> [ply : Nat \cup {-1}, offer : BOOLEAN]]
    /\ acks \in SUBSET [color : Color, ply : Nat, uci : Uci]
    /\ told \in SUBSET Audience
    /\ frames \in Nat
    /\ offered \in [Color -> Nat \cup {-1}]
    /\ bad \in SUBSET (Color \X Ply)

\* A move_ack, the first one or one repeated for a resent frame, names a move
\* that stands on the board at that ply: no resend, however late, is
\* acknowledged for a move that was not applied (PROTOCOL section 9; seat.py
\* request_move, confirm_move).
AckedMovesStand ==
    \A a \in acks : a.ply < Len(applied) /\ applied[a.ply + 1] = a.uci

\* A bot is forfeited for an illegal move only if it sent a move that is
\* illegal at the very ply it had to play: duplicates, late frames and frames
\* from the future never cost a game (PROTOCOL section 9, ADR-0016 B7).
ForfeitIsDeserved ==
    verdict.termination = "illegal_move" =>
        /\ verdict.result = Wins(Other(Mover))
        /\ <<Mover, Len(applied)>> \in bad

\* The number of moves on the board once c made its last move.
LastMoved(c) ==
    LET n == Len(applied) IN IF n = 0 \/ Turn(n - 1) = c THEN n ELSE n - 1

\* A draw is agreed only on an offer of the other side that the accepting bot
\* has not declined by moving since (ADR-0016 D6; the pending_draw_offer
\* lifecycle in worker.py).
AgreementNeedsLiveOffer ==
    verdict.termination = "agreement" =>
        offered[Other(got.color)] >= LastMoved(got.color)

\* An offer surfaced in the your_turn a bot is answering can still be accepted:
\* it stands until that bot moves, unless the bot made a counter-offer itself
\* (PROTOCOL section 7).
SurfacedOfferStands ==
    pc = "wait" /\ turn[Mover].ply = ply /\ turn[Mover].offer =>
        \/ pending = Other(Mover)
        \/ pending = Mover /\ offered[Mover] = Len(applied)

\* Handling controls never buys the mover time: what it is charged exceeds its
\* clock at most by the wake-up latency of each wait of the turn (ADR-0003:
\* the clock is the server's; worker.py passes the remaining time to each wait).
OverrunIsBounded ==
    pc = "wait" => elapsed <= Deadline + Lag * (passes + 1)

\* Nobody loses on time before the whole clock is used.
TimeoutIsDeserved ==
    verdict.termination = "timeout" =>
        /\ verdict.result = Wins(Other(Mover))
        /\ elapsed >= Deadline

\* "so a reconnect can read a consistent snapshot" (worker.py:127-128), and "no
\* other coroutine touches this game's board while request_move is awaited"
\* (seat.py:209-210): what a reconnecting bot or a new spectator reads while
\* run_game waits for a move (position, ply, history) is one position.  It holds
\* where no house bot searches on the board.
WaitingSnapshotIsConsistent ==
    pc = "wait" => Shown = ply /\ moves = applied

\* At any await, the history and the ply a snapshot shows lag the board by one
\* move at most, the history is a prefix of the moves played, and it never
\* misses a move the ply counts: the live tail completes every snapshot.  The
\* position is off by the depth of a search while one runs, and no move is ever
\* pushed beside a running search (seat.py HouseSeat, game.py spectator_snapshot).
SnapshotIsNearby ==
    /\ ply <= Len(moves) /\ Len(moves) <= Len(applied) /\ Len(applied) <= ply + 1
    /\ \A i \in 1 .. Len(moves) : moves[i] = applied[i]
    /\ search # NoThread => Len(applied) = ply /\ Shown <= ply + SearchDepth

\* The game is what the rest of the server may rely on (GameLifecycle).
Lifecycle == INSTANCE GameLifecycle
    WITH AbortedVerdicts <- {Aborted},
         verdict         <- final.verdict
LifecycleSpec == Lifecycle!Spec

\* Every game that was launched ends, is recorded, announced to everybody and
\* unbound, although bots may stay silent for ever (the clock is the sole arbiter,
\* ADR-0025 #3), unless the finalizer or the bus raises under it.
LaunchedGameCloses ==
    <>(pc \in Died \/ (recorded # NoVerdict /\ told = Audience /\ ~bound))

\* "IN_PROGRESS -> ABORTED: only the unrecoverable case ... (e.g. both seats drop
\* and neither reconnects, or a server fault)" (ADR-0010): a game in progress ends,
\* after a server fault as an aborted one.
FaultsAbort == state = "in_progress" ~> state \in {"finished", "aborted"}

-----------------------------------------------------------------------------
(* The inductive invariant behind the safety properties (proved in         *)
(* GameLoopProofs): what is true at each await of run_game.                *)

Opening == {"paired", "starting"}
Playing == Opening \cup {"wait", "confirming", "publishing", "crashed"}
Written == {"notifying", "unannounced", "unbinding", "done"}
Ended   == {"finalizing", "unrecorded"} \cup Written

\* live.ply, live.moves and the board agree except while a move is confirmed
\* and published.
PositionInv ==
    /\ pc \notin {"confirming", "publishing", "crashed"} => ply = Len(applied) /\ moves = applied
    /\ pc = "confirming" => Len(applied) = ply + 1 /\ applied = Append(moves, task.uci)
    /\ pc = "publishing" => Len(applied) = ply + 1 /\ moves = applied
    /\ pc = "crashed" => Len(applied) \in {ply, ply + 1} /\ moves = applied
    /\ pc \in Playing => ply < MaxPly

\* The move task lives only during a wait; its result outlives it until the
\* move is confirmed.
TaskInv ==
    /\ task.st \in {"asking", "reading", "searching", "illegal"} => pc = "wait"
    /\ task.st = "done" => pc \in {"wait", "confirming"} /\ task.uci \in Uci
    /\ pc = "confirming" => task.st = "done"
    /\ task.st = "illegal" => <<Mover, ply>> \in bad

\* A search runs for the task that waits for it, or it was cancelled and the game
\* is over.
SearchInv ==
    /\ search # NoThread => pc \notin Playing \/ (pc = "wait" /\ task.st = "searching")
    /\ search # NoThread => House # {}

\* Illegal frames still queued are on record.
QueueInv ==
    \A c \in Color : \A i \in 1 .. Len(inbound[c]) :
        LET f == inbound[c][i] IN
        f.ply \in Ply /\ f.uci \notin Legal[f.ply] => <<c, f.ply>> \in bad

\* A standing offer has not been declined.
OfferInv == \A c \in Color : pending = c => offered[c] >= LastMoved(Other(c))

\* The running wait ends no earlier than the deadline, and no later than the
\* latency of the earlier waits of the turn allows.
TimerInv ==
    pc = "wait" => /\ Deadline <= expiry
                   /\ expiry <= Deadline + Lag * passes
                   /\ elapsed <= expiry + Lag

\* Where the loop is determines how much of the ending has happened.
PhaseInv ==
    /\ state = IF pc = "paired" THEN "paired"
               ELSE IF pc \in Playing \cup {"left"} THEN "in_progress"
               ELSE IF verdict.termination = "aborted" THEN "aborted" ELSE "finished"
    /\ pc \in Playing => verdict = NoVerdict
    /\ pc \notin Playing => verdict \in Verdicts
    /\ verdict.termination = "aborted" => verdict = Aborted
    /\ final.verdict = IF pc \in Ended THEN verdict ELSE NoVerdict
    /\ recorded = IF pc \in Written THEN verdict ELSE NoVerdict
    /\ pc \notin Written => told = {}
    /\ pc \in {"unbinding", "done"} => told = Audience
    /\ bound = (pc # "done")

IInv ==
    /\ TypeOK
    /\ PositionInv
    /\ TaskInv
    /\ SearchInv
    /\ QueueInv
    /\ OfferInv
    /\ TimerInv
    /\ PhaseInv
    /\ AckedMovesStand
    /\ ForfeitIsDeserved
    /\ AgreementNeedsLiveOffer
    /\ TimeoutIsDeserved
=============================================================================
