--------------------------- MODULE GameLoopProofs ---------------------------
(***************************************************************************)
(* What holds of GameLoop for every choice of its constants: type          *)
(* correctness, the inductive invariant IInv, the safety properties it     *)
(* implies, and that the game loop implements GameLifecycle.               *)
(***************************************************************************)
EXTENDS GameLoop, SequenceTheorems, TLAPS

\* The actions of Next, one name per step, for the case distinctions below.
Steps ==
    \/ \E c \in Color, f \in MoveFrame : MoveArrives(c, f)
    \/ \E ctl \in Control : ControlArrives(ctl)
    \/ MutualAbandonment
    \/ Tick
    \/ StartGame \/ FirstTurn
    \/ AskMove \/ ReadMove \/ HouseThinks \/ SearchStep \/ HouseAnswers
    \/ TakeControl
    \/ WakeAbort \/ WakeResign \/ WakeDrawAccept \/ WakeDrawOffer
    \/ WakeIllegal \/ WakeTimeout \/ WakeMove
    \/ ConfirmMove \/ PlyDone \/ PublishFails
    \/ Terminate \/ Finalize \/ FinalizeFails
    \/ (\E a \in Audience : Notify(a))
    \/ Unbind

\* Next is exactly these steps.
LEMMA NextIsSteps == Next <=> Steps
BY DEF Next, Steps, RunGame, MoveTask, Wake, Terminal, Bots

USE MaxPlyAssumption, LegalAssumption, ClockAssumption, HouseAssumption,
    FrameAssumption, FailAssumption

-----------------------------------------------------------------------------
(* Small facts about the operators.                                        *)

\* Turn alternates, and Other is the other color.
LEMMA TurnProperties ==
    /\ \A n \in Nat : Turn(n) \in Color /\ Turn(n + 1) = Other(Turn(n))
    /\ \A c \in Color : Other(c) \in Color /\ Other(c) # c /\ Other(Other(c)) = c
BY DEF Turn, Other, Color

\* The verdicts the actions name are verdicts.
LEMMA VerdictProperties ==
    /\ Aborted \in Verdicts
    /\ \A c \in Color, t \in {"resignation", "illegal_move", "timeout", "checkmate"} :
          Verdict(Wins(c), t) \in Verdicts
    /\ \A t \in {"agreement", "insufficient_material", "auto_draw"} :
          Verdict("draw", t) \in Verdicts
    /\ NoVerdict \notin Verdicts
BY DEF Aborted, Verdict, Verdicts, Wins, NoVerdict, None, Color

-----------------------------------------------------------------------------
\* The initial state is well typed.
LEMMA InitTypeOK == Init => TypeOK
<1> SUFFICES ASSUME Init PROVE TypeOK
  OBVIOUS
<1>1. /\ state \in {"paired", "in_progress", "finished", "aborted"}
      /\ final \in [verdict : Verdicts \cup {NoVerdict}, position : Nat]
      /\ abort \in BOOLEAN /\ bound \in BOOLEAN
      /\ recorded \in Verdicts \cup {NoVerdict}
  BY DEF Init, NoFinal
<1>2. /\ applied \in Seq(Uci) /\ ply \in Nat /\ moves \in Seq(Uci)
      /\ pending \in Color \cup {None}
      /\ clock \in [Color -> Int]
  BY DEF Init
<1>3. /\ pc \in PCs /\ verdict \in Verdicts \cup {NoVerdict}
    /\ elapsed \in Nat /\ expiry \in Nat /\ passes \in Nat
    /\ got \in Control \cup {NoControl}
  BY DEF Init, PCs
<1>4. task \in [st : {"idle", "asking", "reading", "searching", "done", "illegal"},
                 offer : BOOLEAN, uci : Uci \cup {None}]
  BY DEF Init, Idle
<1>5. /\ search \in {NoThread} \cup 0 .. SearchDepth
      /\ controls \in Seq(Control)
      /\ inbound \in [Color -> Seq(MoveFrame)] 
  BY DEF Init
<1>6. /\ turn \in [Color -> [ply : Nat \cup {-1}, offer : BOOLEAN]]
      /\ acks \in SUBSET [color : Color, ply : Nat, uci : Uci]
      /\ told \in SUBSET Audience
      /\ frames \in Nat
      /\ offered \in [Color -> Nat \cup {-1}]
      /\ bad \in SUBSET (Color \X Ply)
  BY DEF Init
<1>. QED  BY <1>1, <1>2, <1>3, <1>4, <1>5, <1>6 DEF TypeOK

\* The side to move is a color, with a deadline.
LEMMA MoverType ==
    ASSUME TypeOK
    PROVE  Mover \in Color /\ Deadline \in Nat /\ Len(applied) \in Nat
<1>1. Len(applied) \in Nat
  BY LenProperties DEF TypeOK
<1>2. Mover \in Color
  BY <1>1, TurnProperties DEF Mover
<1>3. clock[Mover] \in Int
  BY <1>2 DEF TypeOK
<1>. QED  BY <1>1, <1>2, <1>3 DEF Deadline, Positive

\* Opening a turn starts a well-typed wait and a well-typed move task.
LEMMA OpenTurnType ==
    ASSUME TypeOK, OpenTurn
    PROVE  /\ pc' \in PCs /\ elapsed' \in Nat /\ expiry' \in Nat /\ passes' \in Nat
           /\ got' \in Control \cup {NoControl}
           /\ task' \in [st : {"idle", "asking", "reading", "searching", "done", "illegal"},
                         offer : BOOLEAN, uci : Uci \cup {None}]
BY MoverType DEF OpenTurn, PCs, OfferTo

\* The type invariant by groups of variables: a step needs only to look at the
\* groups it changes.
GameType  == /\ state \in {"paired", "in_progress", "finished", "aborted"}
             /\ final \in [verdict : Verdicts \cup {NoVerdict}, position : Nat]
             /\ abort \in BOOLEAN /\ bound \in BOOLEAN
             /\ recorded \in Verdicts \cup {NoVerdict}
LiveType  == /\ applied \in Seq(Uci) /\ ply \in Nat /\ moves \in Seq(Uci)
             /\ pending \in Color \cup {None}
             /\ clock \in [Color -> Int]
LoopType  == /\ pc \in PCs /\ verdict \in Verdicts \cup {NoVerdict}
             /\ elapsed \in Nat /\ expiry \in Nat /\ passes \in Nat
             /\ got \in Control \cup {NoControl}
SeatType  == /\ task \in [st : {"idle", "asking", "reading", "searching", "done", "illegal"},
                          offer : BOOLEAN, uci : Uci \cup {None}]
             /\ search \in {NoThread} \cup 0 .. SearchDepth
QueueType == /\ inbound \in [Color -> Seq(MoveFrame)] /\ controls \in Seq(Control)
             /\ frames \in Nat
             /\ bad \in SUBSET (Color \X Ply)
OutType   == /\ turn \in [Color -> [ply : Nat \cup {-1}, offer : BOOLEAN]]
             /\ acks \in SUBSET [color : Color, ply : Nat, uci : Uci]
             /\ told \in SUBSET Audience
OfferType == offered \in [Color -> Nat \cup {-1}]

\* The groups make up the type invariant, before a step and after it.
LEMMA TypeGroups ==
    /\ TypeOK => /\ GameType /\ LiveType /\ LoopType /\ SeatType /\ QueueType /\ OutType
                 /\ OfferType
    /\ GameType' /\ LiveType' /\ LoopType' /\ SeatType' /\ QueueType' /\ OutType' /\ OfferType'
         => TypeOK'
BY DEF TypeOK, GameType, LiveType, LoopType, SeatType, QueueType, OutType, OfferType

\* A group a step leaves alone keeps its type.
LEMMA UnchangedTypes ==
    ASSUME TypeOK
    PROVE  /\ UNCHANGED gameVars  => GameType'
           /\ UNCHANGED liveVars  => LiveType'
           /\ UNCHANGED loopVars  => LoopType'
           /\ UNCHANGED seatVars  => SeatType'
           /\ UNCHANGED queueVars => QueueType'
           /\ UNCHANGED outVars   => OutType'
           /\ UNCHANGED offered   => OfferType'
<1>1. UNCHANGED gameVars  => GameType'   BY TypeGroups DEF gameVars, GameType
<1>2. UNCHANGED liveVars  => LiveType'   BY TypeGroups DEF liveVars, LiveType
<1>3. UNCHANGED loopVars  => LoopType'   BY TypeGroups DEF loopVars, LoopType
<1>4. UNCHANGED seatVars  => SeatType'   BY TypeGroups DEF seatVars, SeatType
<1>5. UNCHANGED queueVars => QueueType'  BY TypeGroups DEF queueVars, QueueType
<1>6. UNCHANGED outVars   => OutType'    BY TypeGroups DEF outVars, OutType
<1>7. UNCHANGED offered   => OfferType'  BY TypeGroups DEF OfferType
<1>. QED  BY <1>1, <1>2, <1>3, <1>4, <1>5, <1>6, <1>7

\* Every step preserves the types.
LEMMA NextTypeOK == IInv /\ [Next]_vars => TypeOK'
<1> SUFFICES ASSUME TypeOK, PositionInv, TaskInv, [Next]_vars PROVE TypeOK'
  BY DEF IInv
<1>a. Mover \in Color /\ Deadline \in Nat /\ Len(applied) \in Nat
  BY MoverType
<1>1. ASSUME NEW c \in Color, NEW f \in MoveFrame, MoveArrives(c, f) PROVE TypeOK'
  <2>1. inbound' \in [Color -> Seq(MoveFrame)]
    <3>1. Append(inbound[c], f) \in Seq(MoveFrame)
      BY DEF TypeOK
    <3>. QED  BY <1>1, <3>1 DEF MoveArrives, TypeOK
  <2>2. bad' \in SUBSET (Color \X Ply)
    BY <1>1 DEF MoveArrives, TypeOK
  <2>3. QueueType'
    BY <1>1, <2>1, <2>2, TypeGroups DEF MoveArrives, QueueType
  <2>. QED  BY <1>1, <2>3, UnchangedTypes, TypeGroups DEF MoveArrives
<1>2. ASSUME NEW ctl \in Control, ControlArrives(ctl) PROVE TypeOK'
  BY <1>2 DEF ControlArrives, TypeOK, gameVars, liveVars, loopVars, seatVars, outVars
<1>3. CASE MutualAbandonment
  BY <1>3 DEF MutualAbandonment, TypeOK, liveVars, loopVars, seatVars, queueVars, outVars
<1>4. CASE Tick
  BY <1>4 DEF Tick, TypeOK, gameVars, liveVars, seatVars, queueVars, outVars
<1>5. CASE StartGame
  BY <1>5 DEF StartGame, TypeOK, liveVars, seatVars, queueVars, outVars, PCs
<1>6. CASE FirstTurn
  <2>1. LoopType'
    BY <1>6, OpenTurnType, TypeGroups DEF FirstTurn, LoopType
  <2>2. SeatType'
    BY <1>6, OpenTurnType, TypeGroups DEF FirstTurn, SeatType
  <2>. QED  BY <1>6, <2>1, <2>2, UnchangedTypes, TypeGroups DEF FirstTurn
<1>7. CASE AskMove
  <2>1. turn' \in [Color -> [ply : Nat \cup {-1}, offer : BOOLEAN]]
    <3>1. [ply |-> ply, offer |-> task.offer] \in [ply : Nat \cup {-1}, offer : BOOLEAN]
      BY DEF TypeOK
    <3>. QED  BY <1>7, <3>1 DEF AskMove, TypeOK
  <2>2. task' \in [st : {"idle", "asking", "reading", "searching", "done", "illegal"},
                   offer : BOOLEAN, uci : Uci \cup {None}]
    BY <1>7 DEF AskMove, TypeOK
  <2>3. SeatType'
    BY <1>7, <2>2, TypeGroups DEF AskMove, SeatType
  <2>4. OutType'
    BY <1>7, <2>1, TypeGroups DEF AskMove, OutType
  <2>. QED  BY <1>7, <2>3, <2>4, UnchangedTypes, TypeGroups DEF AskMove
<1>8. CASE ReadMove
  <2>1. /\ inbound[Mover] \in Seq(MoveFrame) /\ inbound[Mover] # <<>>
        /\ Head(inbound[Mover]) \in MoveFrame /\ Tail(inbound[Mover]) \in Seq(MoveFrame)
    BY <1>8, <1>a, HeadTailProperties DEF ReadMove, TypeOK
  <2>2. inbound' \in [Color -> Seq(MoveFrame)]
    BY <1>8, <1>a, <2>1 DEF ReadMove, TypeOK
  <2> DEFINE f == Head(inbound[Mover])
  <2>3. f.ply \in Nat /\ f.uci \in Uci /\ f.offer \in BOOLEAN
    BY <2>1
  <2>4. task' \in [st : {"idle", "asking", "reading", "searching", "done", "illegal"},
                   offer : BOOLEAN, uci : Uci \cup {None}]
    <3> HIDE DEF f
    <3>1. task' = IF f.ply # ply THEN task
                  ELSE IF f.uci \in Legal[ply]
                       THEN [st |-> "done", offer |-> f.offer, uci |-> f.uci]
                       ELSE [task EXCEPT !.st = "illegal"]
      BY <1>8 DEF ReadMove, f
    <3>. QED  BY <3>1, <2>3 DEF TypeOK
  <2>5. acks' \in SUBSET [color : Color, ply : Nat, uci : Uci]
    <3> HIDE DEF f
    <3>1. acks' \subseteq acks \cup {[color |-> Mover, ply |-> f.ply, uci |-> f.uci]}
      BY <1>8 DEF ReadMove, f
    <3>. QED  BY <3>1, <2>3, <1>a DEF TypeOK
  <2>6. SeatType'
    BY <1>8, <2>4, TypeGroups DEF ReadMove, SeatType
  <2>7. QueueType'
    BY <1>8, <2>2, TypeGroups DEF ReadMove, QueueType
  <2>8. OutType'
    BY <1>8, <2>5, TypeGroups DEF ReadMove, OutType
  <2>. QED  BY <1>8, <2>6, <2>7, <2>8, UnchangedTypes, TypeGroups DEF ReadMove
<1>9. CASE HouseThinks
  <2>1. SeatType'
    BY <1>9, TypeGroups DEF HouseThinks, SeatType
  <2>. QED  BY <1>9, <2>1, UnchangedTypes, TypeGroups DEF HouseThinks
<1>9a. CASE SearchStep
  <2>1. search' \in {NoThread} \cup 0 .. SearchDepth
    BY <1>9a DEF SearchStep, TypeOK, NoThread
  <2>2. SeatType'
    BY <1>9a, <2>1, TypeGroups DEF SearchStep, SeatType
  <2>. QED  BY <1>9a, <2>2, UnchangedTypes, TypeGroups DEF SearchStep
<1>10. CASE HouseAnswers
  <2>1. CASE task.st = "searching"
    <3>1. ply \in Ply
      BY <2>1 DEF TaskInv, PositionInv, Playing, TypeOK, Ply
    <3>2. PICK u \in Legal[ply] : task' = [st |-> "done", offer |-> FALSE, uci |-> u]
      BY <1>10, <2>1 DEF HouseAnswers
    <3>3. u \in Uci
      BY <3>1, <3>2
    <3>. QED
      BY <1>10, <3>2, <3>3, SMTT(30) DEF HouseAnswers, TypeOK, gameVars, liveVars, loopVars, queueVars, outVars
  <2>2. CASE task.st # "searching"
    BY <1>10, <2>2 DEF HouseAnswers, TypeOK, gameVars, liveVars, loopVars, queueVars, outVars
  <2>. QED  BY <2>1, <2>2
<1>11. CASE TakeControl
  <2>1. Head(controls) \in Control /\ Tail(controls) \in Seq(Control)
    BY <1>11, HeadTailProperties DEF TakeControl, TypeOK
  <2>. QED
    BY <1>11, <2>1, SMTT(30) DEF TakeControl, TypeOK, gameVars, liveVars, seatVars, outVars
<1>12. ASSUME NEW v \in Verdicts, Leave(v)
       PROVE  /\ pc' \in PCs /\ verdict' \in Verdicts /\ elapsed' \in Nat
              /\ expiry' \in Nat /\ passes' \in Nat /\ got' \in Control \cup {NoControl}
              /\ task' \in [st : {"idle"}, offer : BOOLEAN, uci : {None}] /\ search' = search
  BY <1>12 DEF Leave, TypeOK, PCs, Idle
<1>13. ASSUME WaitAgain
       PROVE  /\ pc' = pc /\ verdict' = verdict /\ task' = task /\ search' = search
              /\ elapsed' \in Nat /\ expiry' \in Nat /\ passes' \in Nat
              /\ got' \in Control \cup {NoControl}
  BY <1>13, <1>a DEF WaitAgain, TypeOK, Positive, seatVars
<1>14. ASSUME NEW v \in Verdicts, Leave(v),
              UNCHANGED <<gameVars, liveVars, queueVars, outVars, offered>>
       PROVE  TypeOK'
  BY <1>12, <1>14 DEF TypeOK, gameVars, liveVars, queueVars, outVars
<1>15. CASE WakeAbort
  BY <1>14, <1>15, VerdictProperties DEF WakeAbort
<1>16. CASE WakeResign
  <2>1. got.color \in Color
    BY <1>16 DEF WakeResign, TypeOK, Control, NoControl, None
  <2>. QED
    BY <1>14, <1>16, <2>1, VerdictProperties, TurnProperties DEF WakeResign
<1>17. CASE WakeDrawAccept
  <2>1. CASE pending = Other(got.color)
    BY <1>14, <1>17, <2>1, VerdictProperties DEF WakeDrawAccept
  <2>2. CASE pending # Other(got.color)
    BY <1>13, <1>17, <2>2 DEF WakeDrawAccept, TypeOK, gameVars, liveVars, queueVars, outVars
  <2>. QED  BY <2>1, <2>2
<1>18. CASE WakeDrawOffer
  <2>1. got.color \in Color
    BY <1>18 DEF WakeDrawOffer, TypeOK, Control, NoControl, None
  <2>. QED
    BY <1>a, <1>13, <1>18, <2>1 DEF WakeDrawOffer, TypeOK, gameVars, queueVars, outVars
<1>19. CASE WakeIllegal
  BY <1>14, <1>19, <1>a, VerdictProperties, TurnProperties DEF WakeIllegal
<1>20. CASE WakeTimeout
  BY <1>14, <1>20, <1>a, VerdictProperties, TurnProperties DEF WakeTimeout
<1>21. CASE WakeMove
  <2>1. task.uci \in Uci
    BY <1>21 DEF WakeMove, TaskInv
  <2>2. /\ applied' \in Seq(Uci) /\ clock' \in [Color -> Int]
        /\ pending' \in Color \cup {None} /\ offered' \in [Color -> Nat \cup {-1}]
        /\ pc' \in PCs
    BY <1>21, <1>a, <2>1 DEF WakeMove, TypeOK, OfferAfterMove, PCs
  <2>3. LiveType' /\ OfferType'
    BY <1>21, <2>2, TypeGroups DEF WakeMove, LiveType, OfferType
  <2>4. LoopType'
    BY <1>21, <2>2, TypeGroups DEF WakeMove, LoopType
  <2>. QED  BY <1>21, <2>3, <2>4, UnchangedTypes, TypeGroups DEF WakeMove
<1>22. CASE ConfirmMove
  <2>1. task.uci \in Uci
    BY <1>22 DEF ConfirmMove, TaskInv
  <2>2. moves' \in Seq(Uci)
    BY <1>22, <2>1 DEF ConfirmMove, TypeOK
  <2>3. acks' \in SUBSET [color : Color, ply : Nat, uci : Uci]
    <3>1. acks' \subseteq acks \cup {[color |-> Other(Mover), ply |-> ply, uci |-> task.uci]}
      BY <1>22 DEF ConfirmMove
    <3>2. Other(Mover) \in Color
      BY <1>a, TurnProperties
    <3>. QED  BY <2>1, <3>1, <3>2 DEF TypeOK
  <2>. QED
    BY <1>22, <2>2, <2>3 DEF ConfirmMove, TypeOK, gameVars, queueVars, PCs, Idle
<1>23. CASE PlyDone
  <2>1. ply' \in Nat
    BY <1>23 DEF PlyDone, TypeOK
  <2>2. LiveType'
    BY <1>23, <2>1, TypeGroups DEF PlyDone, LiveType
  <2>3. LoopType' /\ SeatType'
    <3>1. CASE GameEnds
      <4>1. verdict' \in Verdicts /\ pc' \in PCs
        BY <3>1, <1>a, VerdictProperties, TurnProperties DEF GameEnds, PCs
      <4>2. LoopType'
        BY <3>1, <4>1, TypeGroups DEF GameEnds, LoopType
      <4>3. SeatType'
        BY <1>23, <3>1, TypeGroups DEF PlyDone, GameEnds, SeatType
      <4>. QED  BY <4>2, <4>3
    <3>2. CASE OpenTurn /\ UNCHANGED verdict
      <4>1. LoopType'
        BY <3>2, OpenTurnType, TypeGroups DEF LoopType
      <4>2. SeatType'
        BY <1>23, <3>2, OpenTurnType, TypeGroups DEF PlyDone, SeatType
      <4>. QED  BY <4>1, <4>2
    <3>. QED  BY <1>23, <3>1, <3>2 DEF PlyDone
  <2>. QED  BY <1>23, <2>2, <2>3, UnchangedTypes, TypeGroups DEF PlyDone
<1>24. CASE Terminate
  <2>1. Shown \in Nat
    BY <1>a DEF Shown, TypeOK, Positive, NoThread
  <2>. QED
    BY <1>24, <2>1 DEF Terminate, TypeOK, liveVars, seatVars, queueVars, outVars, PCs
<1>25. CASE Finalize
  BY <1>25 DEF Finalize, TypeOK, liveVars, seatVars, queueVars, outVars, PCs
<1>26. CASE FinalizeFails \/ PublishFails
  BY <1>26 DEF FinalizeFails, PublishFails, Died, TypeOK, gameVars, liveVars, seatVars, queueVars, outVars, PCs
<1>27. ASSUME NEW a \in Audience, Notify(a) PROVE TypeOK'
  BY <1>27 DEF Notify, TypeOK, gameVars, liveVars, seatVars, queueVars, PCs
<1>28. CASE Unbind
  <2>1. pc' \in PCs /\ bound' \in BOOLEAN
    BY <1>28 DEF Unbind, PCs
  <2>. QED
    BY <1>28, <2>1 DEF Unbind, TypeOK, liveVars, seatVars, queueVars, outVars
<1>29. CASE UNCHANGED vars
  BY <1>29 DEF vars, TypeOK, gameVars, liveVars, loopVars, seatVars, queueVars, outVars
<1>. QED
  BY <1>1, <1>2, <1>3, <1>4, <1>5, <1>6, <1>7, <1>8, <1>9, <1>9a, <1>10, <1>11, <1>15,
     <1>16, <1>17, <1>18, <1>19, <1>20, <1>21, <1>22, <1>23, <1>24, <1>25, <1>26, <1>27,
     <1>28, <1>29, NextIsSteps DEF Steps
-----------------------------------------------------------------------------
(* The parts of the inductive invariant, one lemma each.                   *)

\* Steps that move run_game but none of the board, the ply and the history.
LEMMA PositionStable ==
    ASSUME PositionInv, UNCHANGED <<applied, ply, moves>>,
           pc' \in PCs,
           pc' \notin {"confirming", "publishing", "crashed"},
           pc \notin {"confirming", "publishing", "crashed"},
           pc' \in Playing => pc \in Playing
    PROVE  PositionInv'
BY DEF PositionInv

\* Every step keeps the board, the ply and the history in step: a move task
\* belongs to a wait or to a move being confirmed, so nothing else touches its
\* answer between the push and the history.
LEMMA NextPosition == IInv /\ [Next]_vars => PositionInv'
<1> SUFFICES ASSUME TypeOK, PositionInv, TaskInv, [Next]_vars PROVE PositionInv'
  BY DEF IInv
<1>a. pc \in PCs
  BY DEF TypeOK
<1>b. ASSUME UNCHANGED <<applied, ply, moves, pc>>, pc = "confirming" => task' = task
      PROVE  PositionInv'
  BY <1>b DEF PositionInv
<1>1. ASSUME NEW c \in Color, NEW f \in MoveFrame, MoveArrives(c, f) PROVE PositionInv'
  BY <1>1, <1>b DEF MoveArrives, liveVars, loopVars, seatVars
<1>2. ASSUME NEW ctl \in Control, ControlArrives(ctl) PROVE PositionInv'
  BY <1>2, <1>b DEF ControlArrives, liveVars, loopVars, seatVars
<1>3. CASE MutualAbandonment \/ Tick \/ TakeControl
  BY <1>3, <1>b DEF MutualAbandonment, Tick, TakeControl, liveVars, loopVars, seatVars
<1>4. CASE StartGame
  BY <1>4, PositionStable DEF StartGame, liveVars, Playing, Opening, PCs
<1>5. CASE FirstTurn
  BY <1>5, PositionStable DEF FirstTurn, OpenTurn, liveVars, Playing, Opening, PCs
<1>6. CASE AskMove \/ ReadMove \/ HouseThinks \/ SearchStep
  BY <1>6, <1>b DEF AskMove, ReadMove, HouseThinks, SearchStep, TaskInv, liveVars, loopVars
<1>7. CASE HouseAnswers
  BY <1>7, <1>b DEF HouseAnswers, TaskInv, liveVars, loopVars
<1>8. ASSUME NEW v, pc = "wait", Leave(v), UNCHANGED liveVars PROVE PositionInv'
  BY <1>8, PositionStable DEF Leave, liveVars, Playing, Opening, PCs
<1>9. ASSUME pc = "wait", WaitAgain, UNCHANGED <<applied, ply, moves>> PROVE PositionInv'
  BY <1>9, <1>b DEF WaitAgain
<1>10. CASE WakeAbort \/ WakeResign \/ WakeIllegal \/ WakeTimeout
  BY <1>8, <1>10 DEF WakeAbort, WakeResign, WakeIllegal, WakeTimeout
<1>11. CASE WakeDrawAccept
  BY <1>8, <1>9, <1>11 DEF WakeDrawAccept, liveVars
<1>12. CASE WakeDrawOffer
  BY <1>9, <1>12 DEF WakeDrawOffer
<1>13. CASE WakeMove
  <2>1. applied \in Seq(Uci) /\ task.uci \in Uci
    BY <1>13 DEF WakeMove, TaskInv, TypeOK
  <2>2. Len(Append(applied, task.uci)) = Len(applied) + 1
    BY <2>1
  <2>3. ply = Len(applied) /\ moves = applied /\ ply < MaxPly
    BY <1>13 DEF WakeMove, PositionInv, Playing
  <2>4. /\ pc' = "confirming" /\ ply' = ply /\ moves' = moves /\ task' = task
        /\ applied' = Append(applied, task.uci)
    BY <1>13 DEF WakeMove, seatVars
  <2>. QED  BY <2>2, <2>3, <2>4 DEF PositionInv
<1>14. CASE ConfirmMove
  BY <1>14 DEF ConfirmMove, PositionInv, Playing, Opening
<1>15. CASE PlyDone
  <2>1. ply' = Len(applied') /\ moves' = applied'
    BY <1>15 DEF PlyDone, PositionInv
  <2>2. pc' = "left" \/ (pc' = "wait" /\ ply' < MaxPly)
    BY <1>15 DEF PlyDone, GameEnds, OpenTurn
  <2>. QED  BY <2>1, <2>2 DEF PositionInv, Playing, Opening
<1>16. CASE Terminate \/ Finalize \/ FinalizeFails \/ Unbind
  BY <1>16, PositionStable
     DEF Terminate, Finalize, FinalizeFails, Unbind, liveVars, Playing, Opening, PCs, Died
<1>16a. CASE PublishFails
  <2>1. ply \in Nat /\ UNCHANGED <<applied, ply, moves>>
    BY <1>16a DEF PublishFails, liveVars, TypeOK
  <2>2. CASE pc \in {"starting", "publishing"} /\ pc' = "crashed"
    BY <2>1, <2>2 DEF PositionInv, Playing, Opening
  <2>3. CASE pc = "notifying" /\ pc' = "unannounced"
    BY <2>1, <2>3 DEF PositionInv, Playing, Opening
  <2>. QED  BY <1>16a, <2>2, <2>3 DEF PublishFails
<1>17. ASSUME NEW a \in Audience, Notify(a) PROVE PositionInv'
  BY <1>17, PositionStable DEF Notify, liveVars, Playing, Opening, PCs
<1>18. CASE UNCHANGED vars
  BY <1>18, <1>b DEF vars, liveVars, loopVars, seatVars
<1>. QED
  BY <1>1, <1>2, <1>3, <1>4, <1>5, <1>6, <1>7, <1>10, <1>11, <1>12, <1>13, <1>14, <1>15,
     <1>16, <1>16a, <1>17, <1>18, NextIsSteps DEF Steps

\* Every step preserves the link between the move task and run_game, and an
\* illegal answer is always an illegal frame of the side to move.
LEMMA NextTask == IInv /\ [Next]_vars => TaskInv'
<1> SUFFICES ASSUME TypeOK, PositionInv, TaskInv, QueueInv, [Next]_vars PROVE TaskInv'
  BY DEF IInv
<1>a. Mover \in Color /\ pc \in PCs
  BY MoverType DEF TypeOK
<1>b. ASSUME UNCHANGED <<task, pc, applied, ply>>, bad \subseteq bad' PROVE TaskInv'
  BY <1>b DEF TaskInv, Mover
<1>c. ASSUME task' = Idle, pc' # "confirming" PROVE TaskInv'
  BY <1>c DEF TaskInv, Idle
<1>d. ASSUME UNCHANGED pc, pc = "wait", task'.st \in {"reading", "searching"} PROVE TaskInv'
  BY <1>d DEF TaskInv
<1>1. ASSUME NEW c \in Color, NEW f \in MoveFrame, MoveArrives(c, f) PROVE TaskInv'
  BY <1>1, <1>b DEF MoveArrives, liveVars, loopVars, seatVars
<1>2. ASSUME NEW ctl \in Control, ControlArrives(ctl) PROVE TaskInv'
  BY <1>2, <1>b DEF ControlArrives, liveVars, loopVars, seatVars
<1>3. CASE MutualAbandonment \/ Tick \/ TakeControl
  BY <1>3, <1>b
     DEF MutualAbandonment, Tick, TakeControl, liveVars, loopVars, seatVars, queueVars
<1>4. CASE StartGame
  BY <1>4 DEF StartGame, TaskInv, seatVars
<1>5. ASSUME OpenTurn PROVE TaskInv'
  BY <1>5 DEF OpenTurn, TaskInv
<1>6. CASE FirstTurn
  BY <1>5, <1>6 DEF FirstTurn
<1>7. CASE AskMove
  BY <1>7, <1>d DEF AskMove, TaskInv, TypeOK, loopVars
<1>8. CASE HouseThinks
  BY <1>8, <1>d DEF HouseThinks, TaskInv, TypeOK, loopVars
<1>9. CASE SearchStep
  BY <1>9, <1>b DEF SearchStep, liveVars, loopVars, queueVars
<1>10. CASE ReadMove
  <2> DEFINE f == Head(inbound[Mover])
  <2>1. /\ pc = "wait" /\ pc' = pc /\ ply' = ply /\ applied' = applied /\ bad' = bad
        /\ ply = Len(applied) /\ ply < MaxPly
    BY <1>10 DEF ReadMove, TaskInv, PositionInv, Playing, liveVars, loopVars
  <2>2. inbound[Mover] \in Seq(MoveFrame) /\ inbound[Mover] # <<>>
    BY <1>10, <1>a DEF ReadMove, TypeOK
  <2>3. f = inbound[Mover][1] /\ f \in MoveFrame /\ 1 \in 1 .. Len(inbound[Mover])
    BY <2>2, HeadTailProperties, LenProperties, EmptySeq
  <2>4. f.ply \in Ply /\ f.uci \notin Legal[f.ply] => <<Mover, f.ply>> \in bad
    BY <1>a, <2>3 DEF QueueInv
  <2>5. ply \in Ply /\ f.uci \in Uci
    BY <2>1, <2>3 DEF TypeOK, Ply
  <2> HIDE DEF f
  <2>6. task' = IF f.ply # ply THEN task
                ELSE IF f.uci \in Legal[ply]
                     THEN [st |-> "done", offer |-> f.offer, uci |-> f.uci]
                     ELSE [task EXCEPT !.st = "illegal"]
    BY <1>10 DEF ReadMove, f
  <2>7. CASE f.ply # ply
    BY <2>1, <2>6, <2>7, <1>b
  <2>8. CASE f.ply = ply /\ f.uci \in Legal[ply]
    BY <2>1, <2>5, <2>6, <2>8 DEF TaskInv
  <2>9. CASE f.ply = ply /\ f.uci \notin Legal[ply]
    <3>1. task'.st = "illegal"
      BY <2>6, <2>9 DEF TypeOK
    <3>2. <<Mover', ply'>> \in bad'
      BY <2>1, <2>4, <2>5, <2>9 DEF Mover
    <3>. QED  BY <2>1, <3>1, <3>2 DEF TaskInv
  <2>. QED  BY <2>7, <2>8, <2>9
<1>11. CASE HouseAnswers
  <2>1. CASE task.st = "searching"
    <3>1. pc = "wait" /\ pc' = pc /\ ply \in Ply
      BY <1>11, <2>1 DEF HouseAnswers, TaskInv, PositionInv, Playing, TypeOK, Ply, loopVars
    <3>2. PICK u \in Legal[ply] : task' = [st |-> "done", offer |-> FALSE, uci |-> u]
      BY <1>11, <2>1 DEF HouseAnswers
    <3>. QED  BY <3>1, <3>2 DEF TaskInv
  <2>2. CASE task.st # "searching"
    BY <1>11, <2>2, <1>b DEF HouseAnswers, liveVars, loopVars, queueVars
  <2>. QED  BY <2>1, <2>2
<1>12. ASSUME NEW v, Leave(v) PROVE TaskInv'
  BY <1>12, <1>c DEF Leave
<1>13. ASSUME WaitAgain, UNCHANGED <<applied, ply, queueVars>> PROVE TaskInv'
  BY <1>13, <1>b DEF WaitAgain, seatVars, queueVars
<1>14. CASE WakeAbort \/ WakeResign \/ WakeIllegal \/ WakeTimeout
  BY <1>12, <1>14 DEF WakeAbort, WakeResign, WakeIllegal, WakeTimeout
<1>15. CASE WakeDrawAccept
  BY <1>12, <1>13, <1>15 DEF WakeDrawAccept, liveVars
<1>16. CASE WakeDrawOffer
  BY <1>13, <1>16 DEF WakeDrawOffer
<1>17. CASE WakeMove
  BY <1>17 DEF WakeMove, TaskInv, seatVars
<1>18. CASE ConfirmMove
  BY <1>18, <1>c DEF ConfirmMove
<1>19. CASE PlyDone
  <2>1. CASE GameEnds
    BY <1>19, <2>1 DEF PlyDone, GameEnds, TaskInv
  <2>. QED  BY <1>5, <1>19, <2>1 DEF PlyDone
<1>20. CASE Terminate \/ Finalize \/ FinalizeFails \/ PublishFails \/ Unbind
  BY <1>20 DEF Terminate, Finalize, FinalizeFails, PublishFails, Unbind, TaskInv, seatVars
<1>21. ASSUME NEW a \in Audience, Notify(a) PROVE TaskInv'
  BY <1>21 DEF Notify, TaskInv, seatVars
<1>22. CASE UNCHANGED vars
  BY <1>22, <1>b DEF vars, liveVars, loopVars, seatVars, queueVars
<1>. QED
  BY <1>1, <1>2, <1>3, <1>4, <1>6, <1>7, <1>8, <1>9, <1>10, <1>11, <1>14, <1>15, <1>16,
     <1>17, <1>18, <1>19, <1>20, <1>21, <1>22, NextIsSteps DEF Steps

\* Every step keeps the thread of a search with the task that waits for it, until the
\* task is cancelled.
LEMMA NextSearch == IInv /\ [Next]_vars => SearchInv'
<1> SUFFICES ASSUME TypeOK, TaskInv, SearchInv, [Next]_vars PROVE SearchInv'
  BY DEF IInv
<1>a. ASSUME UNCHANGED <<pc, task, search>> PROVE SearchInv'
  BY <1>a DEF SearchInv
<1>b. ASSUME search' = search, search = NoThread \/ (pc \notin Playing /\ pc' \notin Playing)
      PROVE  SearchInv'
  BY <1>b DEF SearchInv
<1>1. ASSUME NEW c \in Color, NEW f \in MoveFrame, MoveArrives(c, f) PROVE SearchInv'
  BY <1>1, <1>a DEF MoveArrives, loopVars, seatVars
<1>2. ASSUME NEW ctl \in Control, ControlArrives(ctl) PROVE SearchInv'
  BY <1>2, <1>a DEF ControlArrives, loopVars, seatVars
<1>3. CASE MutualAbandonment \/ Tick \/ TakeControl \/ WakeDrawOffer \/ UNCHANGED vars
  BY <1>3, <1>a DEF MutualAbandonment, Tick, TakeControl, WakeDrawOffer, WaitAgain, vars,
     loopVars, seatVars
<1>4. CASE StartGame \/ FirstTurn \/ AskMove \/ ReadMove \/ WakeIllegal \/ WakeMove
            \/ ConfirmMove \/ PlyDone
  <2>1. search = NoThread
    <3>1. /\ pc \in Playing
          /\ pc = "wait" => task.st # "searching"
      BY <1>4 DEF StartGame, FirstTurn, AskMove, ReadMove, WakeIllegal, WakeMove, ConfirmMove,
         PlyDone, TaskInv, Playing, Opening
    <3>. QED  BY <3>1 DEF SearchInv
  <2>2. search' = search
    BY <1>4 DEF StartGame, FirstTurn, AskMove, ReadMove, WakeIllegal, WakeMove, ConfirmMove,
       PlyDone, Leave, seatVars
  <2>. QED  BY <2>1, <2>2, <1>b
<1>5. CASE HouseThinks
  <2>1. pc' = "wait" /\ task'.st = "searching" /\ House # {}
    BY <1>5 DEF HouseThinks, TaskInv, TypeOK, loopVars
  <2>. QED  BY <2>1 DEF SearchInv
<1>6. CASE SearchStep
  BY <1>6 DEF SearchStep, SearchInv, NoThread, loopVars
<1>7. CASE HouseAnswers
  BY <1>7 DEF HouseAnswers, SearchInv
<1>8. CASE WakeAbort \/ WakeResign \/ WakeTimeout
  <2>1. search' = search /\ pc' \notin Playing
    BY <1>8 DEF WakeAbort, WakeResign, WakeTimeout, Leave, Playing, Opening
  <2>. QED  BY <2>1 DEF SearchInv
<1>9. CASE WakeDrawAccept
  <2>1. CASE Leave(Verdict("draw", "agreement"))
    BY <2>1 DEF Leave, Playing, Opening, SearchInv
  <2>2. CASE WaitAgain
    BY <2>2, <1>9, <1>a DEF WakeDrawAccept, WaitAgain, seatVars
  <2>. QED  BY <1>9, <2>1, <2>2 DEF WakeDrawAccept
<1>10. CASE Terminate \/ Finalize \/ FinalizeFails \/ Unbind
  BY <1>10, <1>b DEF Terminate, Finalize, FinalizeFails, Unbind, Playing, Opening, seatVars
<1>11. ASSUME NEW a \in Audience, Notify(a) PROVE SearchInv'
  BY <1>11, <1>b DEF Notify, Playing, Opening, seatVars
<1>12. CASE PublishFails
  <2>1. search' = search
    BY <1>12 DEF PublishFails, seatVars
  <2>2. CASE pc \in {"starting", "publishing"}
    BY <2>1, <2>2, <1>b DEF SearchInv, Playing, Opening
  <2>3. CASE pc = "notifying" /\ pc' = "unannounced"
    BY <2>1, <2>3, <1>b DEF Playing, Opening
  <2>. QED  BY <1>12, <2>2, <2>3 DEF PublishFails
<1>. QED
  BY <1>1, <1>2, <1>3, <1>4, <1>5, <1>6, <1>7, <1>8, <1>9, <1>10, <1>11, <1>12, NextIsSteps
     DEF Steps

\* Illegal frames still queued stay on record.
LEMMA NextQueue == IInv /\ [Next]_vars => QueueInv'
<1> SUFFICES ASSUME TypeOK, QueueInv, [Next]_vars PROVE QueueInv'
  BY DEF IInv
<1>a. Mover \in Color
  BY MoverType
<1>b. ASSUME UNCHANGED inbound, bad \subseteq bad' PROVE QueueInv'
  BY <1>b DEF QueueInv
<1>1. ASSUME NEW c \in Color, NEW f \in MoveFrame, MoveArrives(c, f) PROVE QueueInv'
  <2> SUFFICES ASSUME NEW d \in Color, NEW i \in 1 .. Len(inbound'[d]),
                      inbound'[d][i].ply \in Ply,
                      inbound'[d][i].uci \notin Legal[inbound'[d][i].ply]
               PROVE  <<d, inbound'[d][i].ply>> \in bad'
    BY DEF QueueInv
  <2>1. /\ inbound[d] \in Seq(MoveFrame) /\ inbound[c] \in Seq(MoveFrame)
        /\ inbound'[d] = IF d = c THEN Append(inbound[c], f) ELSE inbound[d]
    BY <1>1 DEF MoveArrives, TypeOK
  <2>2. bad \subseteq bad' /\ (f.ply \in Ply /\ f.uci \notin Legal[f.ply] => <<c, f.ply>> \in bad')
    BY <1>1 DEF MoveArrives
  <2>3. CASE i \in 1 .. Len(inbound[d]) /\ inbound'[d][i] = inbound[d][i]
    BY <2>2, <2>3 DEF QueueInv
  <2>4. CASE d = c /\ inbound'[d][i] = f
    BY <2>2, <2>4
  <2>5. \/ i \in 1 .. Len(inbound[d]) /\ inbound'[d][i] = inbound[d][i]
        \/ d = c /\ inbound'[d][i] = f
    <3>1. CASE d = c
      <4>1. /\ Len(Append(inbound[c], f)) = Len(inbound[c]) + 1
            /\ \A k \in 1 .. Len(inbound[c]) : Append(inbound[c], f)[k] = inbound[c][k]
            /\ Append(inbound[c], f)[Len(inbound[c]) + 1] = f
            /\ Len(inbound[c]) \in Nat
        BY <2>1, AppendProperties, LenProperties
      <4>. QED  BY <2>1, <3>1, <4>1
    <3>2. CASE d # c
      BY <2>1, <3>2
    <3>. QED  BY <3>1, <3>2
  <2>. QED
    BY <2>3, <2>4, <2>5
<1>2. ASSUME NEW ctl \in Control, ControlArrives(ctl) PROVE QueueInv'
  BY <1>2, <1>b DEF ControlArrives
<1>3. CASE ReadMove
  <2>1. inbound[Mover] \in Seq(MoveFrame) /\ inbound[Mover] # <<>>
    BY <1>3, <1>a DEF ReadMove, TypeOK
  <2>2. /\ inbound' = [inbound EXCEPT ![Mover] = Tail(inbound[Mover])] /\ bad' = bad
        /\ Len(Tail(inbound[Mover])) = Len(inbound[Mover]) - 1
        /\ \A i \in 1 .. Len(Tail(inbound[Mover])) :
              Tail(inbound[Mover])[i] = inbound[Mover][i + 1]
        /\ Len(inbound[Mover]) \in Nat
    BY <1>3, <2>1, HeadTailProperties, LenProperties DEF ReadMove
  <2> SUFFICES ASSUME NEW d \in Color, NEW i \in 1 .. Len(inbound'[d]),
                      inbound'[d][i].ply \in Ply,
                      inbound'[d][i].uci \notin Legal[inbound'[d][i].ply]
               PROVE  <<d, inbound'[d][i].ply>> \in bad
    BY <2>2, SMTT(30) DEF QueueInv
  <2>3. CASE d = Mover
    <3>1. inbound'[d][i] = inbound[d][i + 1] /\ i + 1 \in 1 .. Len(inbound[d])
      BY <2>2, <2>3 DEF TypeOK
    <3>. QED  BY <3>1 DEF QueueInv
  <2>4. CASE d # Mover
    BY <2>2, <2>4 DEF QueueInv, TypeOK
  <2>. QED  BY <2>3, <2>4
<1>4. CASE UNCHANGED <<inbound, bad>>
  BY <1>4, <1>b
<1>5. CASE MutualAbandonment \/ Tick \/ StartGame \/ FirstTurn \/ AskMove \/ HouseThinks
            \/ SearchStep \/ HouseAnswers \/ TakeControl
  BY <1>4, <1>5 DEF MutualAbandonment, Tick, StartGame, FirstTurn, AskMove, HouseThinks,
     SearchStep, HouseAnswers, TakeControl, queueVars
<1>6. CASE WakeAbort \/ WakeResign \/ WakeDrawAccept \/ WakeDrawOffer \/ WakeIllegal
            \/ WakeTimeout \/ WakeMove \/ ConfirmMove \/ PlyDone
  BY <1>4, <1>6 DEF WakeAbort, WakeResign, WakeDrawAccept, WakeDrawOffer, WakeIllegal,
     WakeTimeout, WakeMove, ConfirmMove, PlyDone, queueVars
<1>7. CASE Terminate \/ Finalize \/ FinalizeFails \/ PublishFails \/ Unbind \/ UNCHANGED vars
  BY <1>4, <1>7 DEF Terminate, Finalize, FinalizeFails, PublishFails, Unbind, vars, queueVars
<1>8. ASSUME NEW a \in Audience, Notify(a) PROVE QueueInv'
  BY <1>4, <1>8 DEF Notify, queueVars
<1>. QED
  BY <1>1, <1>2, <1>3, <1>5, <1>6, <1>7, <1>8, NextIsSteps DEF Steps

\* A move leaves the other side's last move where it was: the last one played.
LEMMA LastMovedProperties ==
    ASSUME TypeOK, NEW u \in Uci, applied' = Append(applied, u), NEW d \in Color,
           d = Other(Mover)
    PROVE  /\ Len(applied') = Len(applied) + 1
           /\ LastMoved(d)' = Len(applied) /\ LastMoved(d) = Len(applied)
<1>1. Len(applied) \in Nat /\ Len(applied') = Len(applied) + 1
  BY AppendProperties, LenProperties DEF TypeOK
<1>2. LastMoved(d) = Len(applied)
  <2>1. CASE Len(applied) = 0
    BY <1>1, <2>1 DEF LastMoved
  <2>2. CASE Len(applied) # 0
    <3>1. Len(applied) - 1 \in Nat /\ (Len(applied) - 1) + 1 = Len(applied)
      BY <1>1, <2>2
    <3>2. Turn(Len(applied)) = Other(Turn(Len(applied) - 1))
      BY <3>1, TurnProperties
    <3>3. d = Turn(Len(applied) - 1)
      BY <3>1, <3>2, TurnProperties DEF Mover
    <3>. QED  BY <2>2, <3>3 DEF LastMoved
  <2>. QED  BY <2>1, <2>2
<1>3. LastMoved(d)' = Len(applied)
  <2>1. Len(applied') # 0 /\ Len(applied') - 1 = Len(applied)
    BY <1>1
  <2>2. Turn(Len(applied)) # d
    BY <1>1, TurnProperties DEF Mover
  <2>. QED  BY <2>1, <2>2 DEF LastMoved
<1>. QED  BY <1>1, <1>2, <1>3

\* LastMoved never exceeds the number of moves played.
LEMMA LastMovedBound ==
    ASSUME TypeOK, NEW c \in Color
    PROVE  LastMoved(c) \in Int /\ LastMoved(c) <= Len(applied)
BY LenProperties DEF LastMoved, TypeOK

\* A standing offer has not been declined, and an agreement is reached on one.
LEMMA NextOffer == IInv /\ [Next]_vars => OfferInv' /\ AgreementNeedsLiveOffer'
<1> SUFFICES ASSUME TypeOK, PhaseInv, TaskInv, OfferInv, AgreementNeedsLiveOffer, [Next]_vars
             PROVE  OfferInv' /\ AgreementNeedsLiveOffer'
  BY DEF IInv
<1>a. Mover \in Color /\ Len(applied) \in Nat
  BY MoverType
<1>b. ASSUME UNCHANGED <<pending, offered, applied>> PROVE OfferInv'
  BY <1>b DEF OfferInv, LastMoved
<1>c. ASSUME UNCHANGED <<verdict, offered, applied, got>> PROVE AgreementNeedsLiveOffer'
  BY <1>c DEF AgreementNeedsLiveOffer, LastMoved
<1>d. ASSUME verdict'.termination # "agreement" PROVE AgreementNeedsLiveOffer'
  BY <1>d DEF AgreementNeedsLiveOffer
<1>e. pc \in Playing => verdict.termination # "agreement"
  BY DEF PhaseInv, NoVerdict, Verdict, None
<1>1. CASE UNCHANGED <<pending, offered, applied, verdict, got>>
  BY <1>1, <1>b, <1>c
<1>2. ASSUME NEW c \in Color, NEW f \in MoveFrame, MoveArrives(c, f)
      PROVE  UNCHANGED <<pending, offered, applied, verdict, got>>
  BY <1>2 DEF MoveArrives, liveVars, loopVars
<1>3. ASSUME NEW ctl \in Control, ControlArrives(ctl)
      PROVE  UNCHANGED <<pending, offered, applied, verdict, got>>
  BY <1>3 DEF ControlArrives, liveVars, loopVars
<1>4. CASE MutualAbandonment \/ Tick \/ StartGame \/ AskMove \/ ReadMove \/ HouseThinks
            \/ SearchStep \/ HouseAnswers \/ ConfirmMove
  BY <1>1, <1>4 DEF MutualAbandonment, Tick, StartGame, AskMove, ReadMove, HouseThinks,
     SearchStep, HouseAnswers, ConfirmMove, liveVars, loopVars
<1>5. CASE Terminate \/ Finalize \/ FinalizeFails \/ PublishFails \/ Unbind \/ UNCHANGED vars
  BY <1>1, <1>5 DEF Terminate, Finalize, FinalizeFails, PublishFails, Unbind, vars, liveVars, loopVars
<1>6. ASSUME NEW a \in Audience, Notify(a)
      PROVE  UNCHANGED <<pending, offered, applied, verdict, got>>
  BY <1>6 DEF Notify, liveVars
<1>7. CASE FirstTurn \/ TakeControl
  BY <1>7, <1>b, <1>d, <1>e DEF FirstTurn, TakeControl, Playing, Opening, liveVars
<1>8. CASE WakeAbort \/ WakeResign \/ WakeIllegal \/ WakeTimeout
  BY <1>8, <1>b, <1>d DEF WakeAbort, WakeResign, WakeIllegal, WakeTimeout, Leave, Verdict,
     Aborted, liveVars
<1>9. CASE WakeDrawAccept
  <2>1. OfferInv'
    BY <1>9, <1>b DEF WakeDrawAccept, liveVars
  <2>2. CASE pending = Other(got.color)
    <3>1. got.color \in Color
      BY <1>9 DEF WakeDrawAccept, TypeOK, Control, NoControl, None
    <3>2. offered[Other(got.color)] >= LastMoved(Other(Other(got.color)))
      BY <2>2, <3>1, TurnProperties DEF OfferInv
    <3>3. got' = got /\ offered' = offered /\ applied' = applied
      BY <1>9, <2>2 DEF WakeDrawAccept, Leave, liveVars
    <3>. QED
      BY <2>1, <3>1, <3>2, <3>3, TurnProperties DEF AgreementNeedsLiveOffer, LastMoved
  <2>3. CASE pending # Other(got.color)
    BY <1>9, <1>d, <1>e, <2>1, <2>3 DEF WakeDrawAccept, WaitAgain, Playing
  <2>. QED  BY <2>2, <2>3
<1>10. CASE WakeDrawOffer
  <2>1. PICK c \in Color : c = got.color
    BY <1>10 DEF WakeDrawOffer, TypeOK, Control, NoControl, None
  <2>2. /\ verdict' = verdict /\ applied' = applied /\ pc \in Playing
        /\ pending' = c /\ offered' = [offered EXCEPT ![c] = Len(applied)]
    BY <1>10, <2>1 DEF WakeDrawOffer, WaitAgain, Playing
  <2>3. OfferInv'
    <3>1. LastMoved(Other(c))' = LastMoved(Other(c)) /\ LastMoved(Other(c)) <= Len(applied)
      BY <2>2, LastMovedBound, TurnProperties DEF LastMoved
    <3>2. offered'[c] = Len(applied)
      BY <2>2 DEF TypeOK
    <3> SUFFICES ASSUME NEW e \in Color, pending' = e
                 PROVE  offered'[e] >= LastMoved(Other(e))'
      BY DEF OfferInv
    <3>3. e = c
      BY <2>2
    <3>. QED  BY <1>a, <3>1, <3>2, <3>3
  <2>. QED  BY <2>2, <2>3, <1>d, <1>e
<1>11. CASE WakeMove
  <2>1. PICK m \in Color, d \in Color :
           m = Mover /\ d = Other(m) /\ d # m /\ m = Other(d)
    BY <1>a, TurnProperties
  <2>2. /\ applied' = Append(applied, task.uci) /\ verdict' = verdict /\ pc \in Playing
        /\ pending' = OfferAfterMove(m, task.offer)
        /\ offered' = IF task.offer THEN [offered EXCEPT ![m] = Len(applied) + 1]
                                    ELSE offered
    BY <1>11, <2>1 DEF WakeMove, Playing
  <2>3. LastMoved(d)' = Len(applied) /\ LastMoved(d) = Len(applied)
    BY <1>11, <2>1, <2>2, LastMovedProperties DEF WakeMove, TaskInv
  <2>4. pending' # d
    BY <2>1, <2>2 DEF OfferAfterMove, None, Color
  <2>5. pending' = m => offered'[m] >= LastMoved(d)'
    <3>1. CASE task.offer
      BY <1>a, <2>2, <2>3, <3>1 DEF TypeOK
    <3>2. CASE ~task.offer
      <4>1. pending' = m => pending = m
        BY <2>2, <3>2 DEF OfferAfterMove, None, Color
      <4>2. pending = m => offered[m] >= LastMoved(d)
        BY <2>1 DEF OfferInv
      <4>. QED  BY <2>2, <2>3, <3>2, <4>1, <4>2
    <3>. QED  BY <3>1, <3>2
  <2>6. OfferInv'
    <3> SUFFICES ASSUME NEW c \in Color, pending' = c
                 PROVE  offered'[c] >= LastMoved(Other(c))'
      BY DEF OfferInv
    <3>1. c = m
      BY <2>1, <2>4 DEF Color
    <3>. QED  BY <2>1, <2>5, <3>1
  <2>. QED  BY <2>2, <2>6, <1>d, <1>e
<1>12. CASE PlyDone
  <2>1. OfferInv'
    BY <1>12, <1>b DEF PlyDone
  <2>2. verdict'.termination # "agreement"
    BY <1>12, <1>e DEF PlyDone, GameEnds, Verdict, Playing
  <2>. QED  BY <2>1, <2>2, <1>d
<1>. QED
  BY <1>1, <1>2, <1>3, <1>4, <1>5, <1>6, <1>7, <1>8, <1>9, <1>10, <1>11, <1>12, NextIsSteps
  DEF Steps

\* The verdict is decided while run_game waits, or when it ends a ply.
LEMMA VerdictStable ==
    ASSUME TypeOK, [Next]_vars, ~(pc = "wait" /\ Wake), pc # "publishing"
    PROVE  UNCHANGED verdict
<1>1. CASE RunGame
  <2>1. CASE StartGame \/ FirstTurn \/ TakeControl \/ ConfirmMove \/ PublishFails \/ Terminal
    BY <2>1 DEF StartGame, FirstTurn, OpenTurn, TakeControl, ConfirmMove, Terminal, Terminate,
       Finalize, FinalizeFails, PublishFails, Notify, Unbind, loopVars
  <2>2. CASE Wake
    BY <2>2 DEF Wake, WakeAbort, WakeResign, WakeDrawAccept, WakeDrawOffer, WakeIllegal,
       WakeTimeout, WakeMove
  <2>3. CASE PlyDone
    BY <2>3 DEF PlyDone
  <2>. QED  BY <1>1, <2>1, <2>2, <2>3 DEF RunGame
<1>2. CASE MoveTask \/ SearchStep \/ Bots \/ Tick \/ UNCHANGED vars
  BY <1>2 DEF MoveTask, AskMove, ReadMove, HouseThinks, HouseAnswers, SearchStep, Bots,
     MoveArrives, ControlArrives, MutualAbandonment, Tick, vars, loopVars
<1>. QED  BY <1>1, <1>2 DEF Next

\* The wait's timer: it expires no earlier than the deadline, and no later than
\* one latency per earlier wait of the turn after it.
LEMMA NextTimer == IInv /\ [Next]_vars => TimerInv'
<1> SUFFICES ASSUME TypeOK, TimerInv, TaskInv, [Next]_vars PROVE TimerInv'
  BY DEF IInv
<1>a. Deadline \in Nat /\ Lag * passes \in Nat /\ Lag * (passes + 1) = Lag * passes + Lag
  BY MoverType DEF TypeOK
<1>b. ASSUME UNCHANGED <<pc, applied, clock, elapsed, expiry, passes>> PROVE TimerInv'
  BY <1>b DEF TimerInv, Deadline, Mover
<1>c. ASSUME pc' # "wait" PROVE TimerInv'
  BY <1>c DEF TimerInv
<1>d. ASSUME OpenTurn, UNCHANGED <<applied, clock>> PROVE TimerInv'
  <2>1. Deadline' = Deadline /\ expiry' = Deadline /\ passes' = 0 /\ elapsed' = 0 /\ Lag * 0 = 0
    BY <1>d DEF OpenTurn, Deadline, Mover
  <2>. QED  BY <1>a, <2>1 DEF TimerInv
<1>e. ASSUME pc = "wait", WaitAgain, UNCHANGED <<applied, clock>> PROVE TimerInv'
  <2>1. /\ Deadline' = Deadline /\ elapsed' = elapsed /\ passes' = passes + 1
        /\ expiry' = elapsed + Positive(Deadline - elapsed)
    BY <1>e DEF WaitAgain, Deadline, Mover
  <2>2. elapsed <= Deadline + Lag * passes + Lag /\ elapsed \in Nat
    BY <1>e, <1>a DEF TimerInv, TypeOK
  <2>3. /\ Deadline <= expiry' /\ expiry' <= Deadline + (Lag * passes + Lag)
        /\ elapsed <= expiry' + Lag
    BY <1>a, <2>1, <2>2 DEF Positive
  <2>. QED  BY <1>a, <2>1, <2>3 DEF TimerInv
<1>1. ASSUME NEW c \in Color, NEW f \in MoveFrame, MoveArrives(c, f) PROVE TimerInv'
  BY <1>1, <1>b DEF MoveArrives, liveVars, loopVars
<1>2. ASSUME NEW ctl \in Control, ControlArrives(ctl) PROVE TimerInv'
  BY <1>2, <1>b DEF ControlArrives, liveVars, loopVars
<1>3. CASE MutualAbandonment \/ AskMove \/ ReadMove \/ HouseThinks \/ SearchStep
            \/ HouseAnswers \/ TakeControl \/ UNCHANGED vars
  BY <1>3, <1>b DEF MutualAbandonment, AskMove, ReadMove, HouseThinks, SearchStep,
     HouseAnswers, TakeControl, vars, liveVars, loopVars
<1>4. CASE Tick
  <2>1. Deadline' = Deadline /\ expiry' = expiry /\ passes' = passes
    BY <1>4 DEF Tick, Deadline, Mover, liveVars
  <2>. QED  BY <1>4, <2>1 DEF Tick, TimerInv, TypeOK
<1>5. CASE FirstTurn
  BY <1>5, <1>d DEF FirstTurn, liveVars
<1>6. CASE PlyDone
  BY <1>6, <1>c, <1>d DEF PlyDone, GameEnds
<1>7. CASE WakeAbort \/ WakeResign \/ WakeIllegal \/ WakeTimeout \/ WakeMove
  BY <1>7, <1>c DEF WakeAbort, WakeResign, WakeIllegal, WakeTimeout, WakeMove, Leave
<1>8. CASE WakeDrawAccept \/ WakeDrawOffer
  BY <1>8, <1>c, <1>e DEF WakeDrawAccept, WakeDrawOffer, Leave, liveVars
<1>9. CASE StartGame \/ ConfirmMove \/ Terminate \/ Finalize \/ FinalizeFails \/ PublishFails \/ Unbind
  BY <1>9, <1>c DEF StartGame, ConfirmMove, Terminate, Finalize, FinalizeFails, PublishFails, Unbind
<1>10. ASSUME NEW a \in Audience, Notify(a) PROVE TimerInv'
  BY <1>10, <1>c DEF Notify
<1>. QED
  BY <1>1, <1>2, <1>3, <1>4, <1>5, <1>6, <1>7, <1>8, <1>9, <1>10, NextIsSteps DEF Steps

\* Nobody loses on time early, and nobody is forfeited without an illegal move.
LEMMA NextVerdictDeserved ==
    IInv /\ [Next]_vars => TimeoutIsDeserved' /\ ForfeitIsDeserved'
<1> SUFFICES ASSUME IInv, [Next]_vars PROVE TimeoutIsDeserved' /\ ForfeitIsDeserved'
  OBVIOUS
<1> USE DEF IInv
<1>a. bad \subseteq bad'
  <2>1. CASE \E c \in Color, f \in MoveFrame : MoveArrives(c, f)
    BY <2>1 DEF MoveArrives
  <2>2. CASE ~(\E c \in Color, f \in MoveFrame : MoveArrives(c, f))
    BY <2>2 DEF Next, RunGame, MoveTask, Bots, Wake, Terminal, StartGame, FirstTurn,
       TakeControl, WakeAbort, WakeResign, WakeDrawAccept, WakeDrawOffer, WakeIllegal,
       WakeTimeout, WakeMove, ConfirmMove, PlyDone, Terminate, Finalize, FinalizeFails, PublishFails, Notify,
       Unbind, AskMove, ReadMove, HouseThinks, HouseAnswers, SearchStep, ControlArrives,
       MutualAbandonment, Tick, vars, queueVars
  <2>. QED  BY <2>1, <2>2
<1>b. pc \in Playing => verdict = NoVerdict
  BY DEF PhaseInv
<1>1. CASE pc \notin Playing
  <2>1. UNCHANGED <<applied, clock, elapsed, verdict>>
    <3>1. pc \notin {"paired", "starting", "wait", "confirming", "publishing"} /\ task.st \notin {"asking", "reading", "searching"}
      BY <1>1 DEF Playing, Opening, TaskInv
    <3>. QED
     BY <3>1 DEF Next, RunGame, MoveTask, Bots, Wake, Terminal, StartGame, FirstTurn,
       TakeControl, WakeAbort, WakeResign, WakeDrawAccept, WakeDrawOffer, WakeIllegal,
       WakeTimeout, WakeMove, ConfirmMove, PlyDone, Terminate, Finalize, FinalizeFails, PublishFails, Notify,
       Unbind, AskMove, ReadMove, HouseThinks, HouseAnswers, SearchStep, MoveArrives, ControlArrives,
       MutualAbandonment, Tick, vars, liveVars, loopVars
  <2>. QED
    BY <1>a, <2>1 DEF TimeoutIsDeserved, ForfeitIsDeserved, Deadline, Mover
<1>2. CASE pc \in Playing /\ verdict' = verdict
  BY <1>b, <1>2 DEF TimeoutIsDeserved, ForfeitIsDeserved, NoVerdict, Verdict, None
<1>3. CASE WakeTimeout
  <2>1. UNCHANGED <<applied, clock, elapsed>> /\ elapsed >= Deadline
    BY <1>3, MoverType, SMTT(30) DEF WakeTimeout, Leave, TimerInv, TypeOK, liveVars
  <2>2. verdict'.termination # "illegal_move" /\ verdict'.termination = "timeout" => verdict'.result = Wins(Other(Mover))
    BY <1>3 DEF WakeTimeout, Leave, Verdict
  <2>. QED
    BY <2>1, <2>2, <1>3 DEF TimeoutIsDeserved, ForfeitIsDeserved, Deadline, Mover, WakeTimeout, Leave, Verdict
<1>4. CASE WakeIllegal
  <2>1. applied' = applied /\ bad' = bad /\ <<Mover, Len(applied)>> \in bad
        /\ verdict' = Verdict(Wins(Other(Mover)), "illegal_move")
    BY <1>4 DEF WakeIllegal, Leave, TaskInv, PositionInv, liveVars, queueVars
  <2>. QED
    BY <2>1 DEF TimeoutIsDeserved, ForfeitIsDeserved, Mover, Verdict
<1>5. ASSUME verdict'.termination \notin {"timeout", "illegal_move"}
      PROVE  TimeoutIsDeserved' /\ ForfeitIsDeserved'
  BY <1>5 DEF TimeoutIsDeserved, ForfeitIsDeserved
<1>6. CASE Wake
  <2>1. CASE WakeAbort \/ WakeResign \/ WakeDrawAccept \/ WakeDrawOffer \/ WakeMove
    BY <1>b, <1>2, <1>5, <2>1 DEF WakeAbort, WakeResign, WakeDrawAccept, WakeDrawOffer,
       WakeMove, Leave, WaitAgain, Verdict, Aborted, Playing
  <2>. QED  BY <1>3, <1>4, <1>6, <2>1 DEF Wake
<1>7. CASE PlyDone
  BY <1>2, <1>5, <1>7 DEF PlyDone, GameEnds, Verdict, Playing
<1>8. CASE pc = "publishing" /\ ~PlyDone
  <2>1. verdict' = verdict
    BY <1>8, VerdictStable DEF Next, RunGame, MoveTask, Bots, Wake, Terminal, StartGame, FirstTurn,
       TakeControl, WakeAbort, WakeResign, WakeDrawAccept, WakeDrawOffer, WakeIllegal,
       WakeTimeout, WakeMove, ConfirmMove, Terminate, Finalize, FinalizeFails, PublishFails, Notify,
       Unbind, AskMove, ReadMove, HouseThinks, HouseAnswers, SearchStep, MoveArrives, ControlArrives,
       MutualAbandonment, Tick, vars, loopVars
  <2>. QED  BY <1>2, <1>8, <2>1 DEF Playing
<1>9. CASE ~Wake /\ pc # "publishing"
  BY <1>1, <1>2, <1>9, VerdictStable
<1>. QED  BY <1>6, <1>7, <1>8, <1>9

\* Every step keeps the ending in its order: the state, the stash, the record,
\* the notifications and the index all follow from where run_game is.
LEMMA NextPhase == IInv /\ [Next]_vars => PhaseInv'
<1> SUFFICES ASSUME TypeOK, TaskInv, PhaseInv, [Next]_vars PROVE PhaseInv'
  BY DEF IInv
<1>a. Mover \in Color /\ Other(Mover) \in Color
  BY MoverType, TurnProperties
<1>b. ASSUME UNCHANGED <<pc, state, verdict, final, recorded, told, bound>> PROVE PhaseInv'
  BY <1>b DEF PhaseInv
<1>c. ASSUME pc \in Playing \ {"paired"}, pc' \in Playing \ {"paired"},
             UNCHANGED <<state, verdict, final, recorded, told, bound>>
      PROVE  PhaseInv'
  BY <1>c DEF PhaseInv, Playing, Opening, Ended, Written
<1>d. ASSUME pc \in Playing \ {"paired"}, pc' = "left", verdict' \in Verdicts,
             verdict'.termination = "aborted" => verdict' = Aborted,
             UNCHANGED <<state, final, recorded, told, bound>>
      PROVE  PhaseInv'
  BY <1>d DEF PhaseInv, Playing, Opening, Ended, Written
<1>1. ASSUME NEW c \in Color, NEW f \in MoveFrame, MoveArrives(c, f) PROVE PhaseInv'
  BY <1>1, <1>b DEF MoveArrives, gameVars, loopVars, outVars
<1>2. ASSUME NEW ctl \in Control, ControlArrives(ctl) PROVE PhaseInv'
  BY <1>2, <1>b DEF ControlArrives, gameVars, loopVars, outVars
<1>3. CASE MutualAbandonment \/ Tick \/ AskMove \/ ReadMove \/ HouseThinks \/ SearchStep
            \/ HouseAnswers \/ TakeControl \/ UNCHANGED vars
  BY <1>3, <1>b DEF MutualAbandonment, Tick, AskMove, ReadMove, HouseThinks, SearchStep,
     HouseAnswers, TakeControl, vars, gameVars, loopVars, outVars
<1>4. CASE StartGame
  BY <1>4 DEF StartGame, PhaseInv, Playing, Opening, Ended, Written, outVars
<1>5. CASE FirstTurn
  BY <1>5, <1>c DEF FirstTurn, OpenTurn, Playing, Opening, gameVars, outVars
<1>6. CASE WakeAbort
  BY <1>6, <1>d, VerdictProperties DEF WakeAbort, Leave, Playing, Opening, gameVars, outVars
<1>7. CASE WakeResign
  <2>1. got.color \in Color
    BY <1>7 DEF WakeResign, TypeOK, Control, NoControl, None
  <2>2. verdict' \in Verdicts /\ verdict'.termination = "resignation"
    BY <1>7, <2>1, VerdictProperties, TurnProperties DEF WakeResign, Leave, Verdict
  <2>. QED  BY <1>7, <2>2, <1>d DEF WakeResign, Leave, Playing, Opening, gameVars, outVars
<1>8. CASE WakeDrawAccept
  <2>1. CASE Leave(Verdict("draw", "agreement"))
    <3>1. verdict' \in Verdicts /\ verdict'.termination = "agreement"
      BY <2>1, VerdictProperties DEF Leave, Verdict
    <3>. QED
      BY <1>8, <2>1, <3>1, <1>d
         DEF WakeDrawAccept, Leave, Playing, Opening, gameVars, outVars
  <2>2. CASE WaitAgain
    BY <1>8, <2>2, <1>b DEF WakeDrawAccept, WaitAgain, gameVars, outVars
  <2>. QED  BY <1>8, <2>1, <2>2 DEF WakeDrawAccept
<1>9. CASE WakeDrawOffer
  BY <1>9, <1>b DEF WakeDrawOffer, WaitAgain, gameVars, outVars
<1>10. CASE WakeIllegal
  <2>1. verdict' \in Verdicts /\ verdict'.termination = "illegal_move"
    BY <1>10, <1>a, VerdictProperties DEF WakeIllegal, Leave, Verdict
  <2>. QED  BY <1>10, <2>1, <1>d DEF WakeIllegal, Leave, Playing, Opening, gameVars, outVars
<1>11. CASE WakeTimeout
  <2>1. verdict' \in {Verdict(Wins(Other(Mover)), "timeout"),
                      Verdict("draw", "insufficient_material")}
    BY <1>11 DEF WakeTimeout, Leave
  <2>2. verdict' \in Verdicts
    BY <2>1, <1>a, VerdictProperties
  <2>3. verdict'.termination # "aborted"
    BY <2>1 DEF Verdict
  <2>. QED  BY <1>11, <2>2, <2>3, <1>d DEF WakeTimeout, Leave, Playing, Opening, gameVars, outVars
<1>12. CASE WakeMove
  BY <1>12, <1>c DEF WakeMove, Playing, Opening, gameVars, outVars
<1>13. CASE ConfirmMove
  BY <1>13, <1>c DEF ConfirmMove, Playing, Opening, gameVars
<1>14. CASE PlyDone
  <2>1. CASE GameEnds
    <3>1. verdict' \in {Verdict(Wins(Other(Mover)), "checkmate"), Verdict("draw", "auto_draw")}
      BY <2>1 DEF GameEnds
    <3>2. verdict' \in Verdicts
      BY <3>1, <1>a, VerdictProperties
    <3>3. verdict'.termination # "aborted"
      BY <3>1 DEF Verdict
    <3>. QED
      BY <1>14, <2>1, <3>2, <3>3, <1>d DEF PlyDone, GameEnds, Playing, Opening, gameVars, outVars
  <2>2. CASE OpenTurn /\ UNCHANGED verdict
    BY <1>14, <2>2, <1>c DEF PlyDone, OpenTurn, Playing, Opening, gameVars, outVars
  <2>. QED  BY <1>14, <2>1, <2>2 DEF PlyDone
<1>15. CASE Terminate
  BY <1>15 DEF Terminate, PhaseInv, Playing, Opening, Ended, Written, outVars
<1>16. CASE Finalize
  BY <1>16 DEF Finalize, PhaseInv, Playing, Opening, Ended, Written, outVars
<1>17. CASE FinalizeFails \/ PublishFails
  BY <1>17 DEF FinalizeFails, PublishFails, PhaseInv, Playing, Opening, Ended, Written, gameVars,
     outVars
<1>18. ASSUME NEW a \in Audience, Notify(a) PROVE PhaseInv'
  <2>1. CASE a = "spectators"
    <3>1. "white" \in told /\ "black" \in told
      BY <1>18, <2>1 DEF Notify, NotifyOrder
    <3>2. told' = told \cup {"spectators"} /\ told \subseteq {"white", "black", "spectators"}
      BY <1>18, <2>1 DEF Notify, Audience, Color, TypeOK
    <3>3. told' = Audience
      BY <3>1, <3>2 DEF Audience, Color
    <3>. QED
      BY <1>18, <2>1, <3>3 DEF Notify, PhaseInv, Playing, Opening, Ended, Written, gameVars
  <2>2. CASE a # "spectators"
    BY <1>18, <2>2 DEF Notify, PhaseInv, Playing, Opening, Ended, Written, gameVars
  <2>. QED  BY <2>1, <2>2
<1>19. CASE Unbind
  BY <1>19 DEF Unbind, PhaseInv, Playing, Opening, Ended, Written, outVars
<1>. QED
  BY <1>1, <1>2, <1>3, <1>4, <1>5, <1>6, <1>7, <1>8, <1>9, <1>10, <1>11, <1>12, <1>13,
     <1>14, <1>15, <1>16, <1>17, <1>18, <1>19, NextIsSteps DEF Steps

\* Acknowledged moves stand: appending a move keeps every earlier one.
LEMMA NextAcked == IInv /\ [Next]_vars => AckedMovesStand'
<1> SUFFICES ASSUME TypeOK, PositionInv, TaskInv, AckedMovesStand, [Next]_vars
             PROVE  AckedMovesStand'
  BY DEF IInv
<1>b. ASSUME UNCHANGED <<applied, acks>> PROVE AckedMovesStand'
  BY <1>b DEF AckedMovesStand
<1>1. ASSUME NEW c \in Color, NEW f \in MoveFrame, MoveArrives(c, f) PROVE AckedMovesStand'
  BY <1>1, <1>b DEF MoveArrives, liveVars, outVars
<1>2. ASSUME NEW ctl \in Control, ControlArrives(ctl) PROVE AckedMovesStand'
  BY <1>2, <1>b DEF ControlArrives, liveVars, outVars
<1>3. CASE MutualAbandonment \/ Tick \/ StartGame \/ FirstTurn \/ AskMove \/ HouseThinks
            \/ SearchStep \/ HouseAnswers \/ TakeControl \/ UNCHANGED vars
  BY <1>3, <1>b DEF MutualAbandonment, Tick, StartGame, FirstTurn, AskMove, HouseThinks,
     SearchStep, HouseAnswers, TakeControl, vars, liveVars, outVars
<1>4. CASE WakeAbort \/ WakeResign \/ WakeDrawAccept \/ WakeDrawOffer \/ WakeIllegal
            \/ WakeTimeout \/ PlyDone
  BY <1>4, <1>b DEF WakeAbort, WakeResign, WakeDrawAccept, WakeDrawOffer, WakeIllegal,
     WakeTimeout, PlyDone, liveVars, outVars
<1>5. CASE Terminate \/ Finalize \/ FinalizeFails \/ PublishFails \/ Unbind
  BY <1>5, <1>b DEF Terminate, Finalize, FinalizeFails, PublishFails, Unbind, liveVars, outVars
<1>6. ASSUME NEW a \in Audience, Notify(a) PROVE AckedMovesStand'
  BY <1>6, <1>b DEF Notify, liveVars
<1>7. CASE ReadMove
  <2>1. PICK f : f = Head(inbound[Mover])
    OBVIOUS
  <2>2. /\ applied' = applied
        /\ acks' = IF Duplicate(f)
                   THEN acks \cup {[color |-> Mover, ply |-> f.ply, uci |-> f.uci]}
                   ELSE acks
    BY <1>7, <2>1 DEF ReadMove, liveVars
  <2>3. ply = Len(applied)
    BY <1>7 DEF ReadMove, TaskInv, PositionInv
  <2>. QED  BY <2>2, <2>3 DEF AckedMovesStand, Duplicate
<1>8. CASE WakeMove
  <2>1. applied \in Seq(Uci) /\ task.uci \in Uci /\ acks' = acks
        /\ applied' = Append(applied, task.uci)
    BY <1>8 DEF WakeMove, TaskInv, TypeOK, outVars
  <2>2. /\ Len(applied') = Len(applied) + 1 /\ Len(applied) \in Nat
        /\ \A i \in 1 .. Len(applied) : applied'[i] = applied[i]
    BY <2>1, AppendProperties, LenProperties
  <2> SUFFICES ASSUME NEW a \in acks
               PROVE  a.ply < Len(applied') /\ applied'[a.ply + 1] = a.uci
    BY <2>1 DEF AckedMovesStand
  <2>3. a.ply \in Nat /\ a.ply < Len(applied) /\ applied[a.ply + 1] = a.uci
    BY DEF AckedMovesStand, TypeOK
  <2>. QED  BY <2>2, <2>3
<1>9. CASE ConfirmMove
  <2>1. /\ applied = Append(moves, task.uci) /\ Len(applied) = ply + 1
        /\ moves \in Seq(Uci) /\ task.uci \in Uci /\ applied' = applied /\ ply \in Nat
    BY <1>9 DEF ConfirmMove, PositionInv, TaskInv, TypeOK
  <2>2. Len(moves) = ply /\ applied[ply + 1] = task.uci
    BY <2>1, AppendProperties, LenProperties
  <2>3. acks' \subseteq acks \cup {[color |-> Other(Mover), ply |-> ply, uci |-> task.uci]}
    BY <1>9 DEF ConfirmMove
  <2> SUFFICES ASSUME NEW a \in acks'
               PROVE  a.ply < Len(applied) /\ applied[a.ply + 1] = a.uci
    BY <2>1 DEF AckedMovesStand
  <2>4. CASE a \in acks
    BY <2>4 DEF AckedMovesStand
  <2>5. CASE a = [color |-> Other(Mover), ply |-> ply, uci |-> task.uci]
    BY <2>1, <2>2, <2>5
  <2>. QED  BY <2>3, <2>4, <2>5
<1>. QED
  BY <1>1, <1>2, <1>3, <1>4, <1>5, <1>6, <1>7, <1>8, <1>9, NextIsSteps DEF Steps

-----------------------------------------------------------------------------
(* The inductive invariant.                                                *)

\* The initial state satisfies every part of it.
LEMMA InitIInv == Init => IInv
<1> SUFFICES ASSUME Init PROVE IInv
  OBVIOUS
<1>1. TypeOK
  BY InitTypeOK
<1>2. ply = Len(applied) /\ moves = applied /\ pc = "paired" /\ 0 < MaxPly
  BY DEF Init
<1>3. PositionInv
  BY <1>2 DEF PositionInv, Init
<1>4. TaskInv
  BY DEF Init, TaskInv, Idle
<1>5. SearchInv /\ QueueInv
  BY DEF Init, SearchInv, QueueInv
<1>6. OfferInv /\ TimerInv
  BY DEF Init, OfferInv, TimerInv, None, Color
<1>7. PhaseInv
  BY DEF Init, PhaseInv, Playing, Opening, Ended, Written, NoVerdict, NoFinal, Verdict, None
<1>8. AckedMovesStand
  BY DEF Init, AckedMovesStand
<1>9. ForfeitIsDeserved /\ AgreementNeedsLiveOffer /\ TimeoutIsDeserved
  BY DEF Init, ForfeitIsDeserved, AgreementNeedsLiveOffer, TimeoutIsDeserved, NoVerdict,
     Verdict, None
<1>. QED  BY <1>1, <1>3, <1>4, <1>5, <1>6, <1>7, <1>8, <1>9 DEF IInv

\* IInv holds at every await of run_game and of the tasks around it.
THEOREM InductiveInvariant == Spec => []IInv
<1>1. IInv /\ [Next]_vars => IInv'
  BY NextTypeOK, NextPosition, NextTask, NextSearch, NextQueue, NextOffer, NextTimer, NextPhase, NextAcked,
     NextVerdictDeserved DEF IInv
<1>. QED  BY <1>1, InitIInv, PTL DEF Spec

-----------------------------------------------------------------------------
(* The properties.                                                         *)

\* Type correctness.
THEOREM TypeCorrect == Spec => []TypeOK
<1>1. IInv => TypeOK
  BY DEF IInv
<1>. QED  BY <1>1, InductiveInvariant, PTL

\* No move_ack is ever sent for a move that is not on the board at its ply,
\* however often and however late frames are resent (seat.py request_move).
THEOREM AcksAreTrue == Spec => []AckedMovesStand
<1>1. IInv => AckedMovesStand
  BY DEF IInv
<1>. QED  BY <1>1, InductiveInvariant, PTL

\* Resends never cost a game: a forfeit names a bot that sent an illegal move
\* for the ply it had to play (seat.py request_move, worker.py run_game).
THEOREM ForfeitsAreDeserved == Spec => []ForfeitIsDeserved
<1>1. IInv => ForfeitIsDeserved
  BY DEF IInv
<1>. QED  BY <1>1, InductiveInvariant, PTL

\* A game is drawn by agreement only on an offer not declined since
\* (worker.py run_game).
THEOREM AgreementsAreMutual == Spec => []AgreementNeedsLiveOffer
<1>1. IInv => AgreementNeedsLiveOffer
  BY DEF IInv
<1>. QED  BY <1>1, InductiveInvariant, PTL

\* Nobody loses on time with time left (worker.py run_game, clock.py).
THEOREM TimeoutsAreDeserved == Spec => []TimeoutIsDeserved
<1>1. IInv => TimeoutIsDeserved
  BY DEF IInv
<1>. QED  BY <1>1, InductiveInvariant, PTL

\* Controls buy no time: at most the wake-up latency of each wait.
THEOREM OverrunBound == Spec => []OverrunIsBounded
<1>1. IInv => OverrunIsBounded
  <2> SUFFICES ASSUME TypeOK, TimerInv, pc = "wait"
               PROVE  elapsed <= Deadline + Lag * (passes + 1)
    BY DEF IInv, OverrunIsBounded
  <2>1. Deadline \in Nat /\ Lag * passes \in Nat /\ Lag * (passes + 1) = Lag * passes + Lag
    BY MoverType DEF TypeOK
  <2>. QED  BY <2>1 DEF TimerInv, TypeOK
<1>. QED  BY <1>1, InductiveInvariant, PTL

\* A reader that comes while run_game waits for a move reads one position, in every
\* game without a house bot and in those whose house bot does not search on the
\* board (worker.py run_game, game.py spectator_snapshot and resume_payload).
THEOREM WaitingConsistent ==
    House = {} \/ SearchDepth = 0 => (Spec => []WaitingSnapshotIsConsistent)
<1> SUFFICES ASSUME House = {} \/ SearchDepth = 0 PROVE Spec => []WaitingSnapshotIsConsistent
  OBVIOUS
<1>1. IInv => WaitingSnapshotIsConsistent
  <2> SUFFICES ASSUME TypeOK, SearchInv, PositionInv, pc = "wait"
               PROVE  Shown = ply /\ moves = applied
    BY DEF IInv, WaitingSnapshotIsConsistent
  <2>1. Positive(search) = 0
    BY DEF TypeOK, SearchInv, Positive, NoThread
  <2>. QED  BY <2>1, MoverType DEF PositionInv, Shown
<1>. QED  BY <1>1, InductiveInvariant, PTL

\* A reader that comes at any await reads a history one move short at most and a
\* position that is off by a running search's depth at most, and no move is pushed
\* beside a search, whoever plays (seat.py HouseSeat, game.py spectator_snapshot).
THEOREM SnapshotBound == Spec => []SnapshotIsNearby
<1>1. IInv => SnapshotIsNearby
  <2> SUFFICES ASSUME TypeOK, PositionInv, TaskInv, SearchInv PROVE SnapshotIsNearby
    BY DEF IInv
  <2>1. /\ ply \in Nat /\ moves \in Seq(Uci) /\ Len(moves) \in Nat
        /\ applied \in Seq(Uci) /\ Len(applied) \in Nat
    BY LenProperties DEF TypeOK
  <2>2. search # NoThread => Len(applied) = ply /\ Shown <= ply + SearchDepth
    <3> SUFFICES ASSUME search # NoThread PROVE Len(applied) = ply /\ Shown <= ply + SearchDepth
      OBVIOUS
    <3>1. Len(applied) = ply
      BY DEF SearchInv, PositionInv, Playing, Opening
    <3>2. Positive(search) <= SearchDepth /\ Positive(search) \in Nat
      BY DEF TypeOK, Positive
    <3>. QED  BY <2>1, <3>1, <3>2 DEF Shown
  <2>3. CASE pc = "confirming"
    <3>1. applied = Append(moves, task.uci) /\ Len(applied) = ply + 1 /\ task.uci \in Uci
      BY <2>3 DEF PositionInv, TaskInv
    <3>2. Len(moves) = ply /\ \A i \in 1 .. Len(moves) : moves[i] = applied[i]
      BY <2>1, <3>1, AppendProperties
    <3>. QED  BY <2>1, <2>2, <3>1, <3>2 DEF SnapshotIsNearby
  <2>4. CASE pc # "confirming"
    <3>1. moves = applied /\ Len(applied) \in {ply, ply + 1}
      BY <2>1, <2>4 DEF PositionInv
    <3>. QED  BY <2>1, <2>2, <3>1 DEF SnapshotIsNearby
  <2>. QED  BY <2>3, <2>4
<1>. QED  BY <1>1, InductiveInvariant, PTL

-----------------------------------------------------------------------------
(* The offers that the bots are shown.                                     *)

\* The offer the mover was, or is about to be, shown can be accepted, or it has
\* made one itself since.
Stands == \/ pending = Other(Mover)
          \/ pending = Mover /\ offered[Mover] = Len(applied)

\* No your_turn is ahead of the ply, and before the first turn there is none.
TurnsAsked == \A c \in Color :
    turn[c].ply <= ply /\ (pc \in {"paired", "starting"} => turn[c].ply < ply)

\* An offer captured by the move task stands until it is shown, and then until the
\* mover moves.
ShownInv ==
    /\ TurnsAsked
    /\ pc = "wait" /\ task.st = "asking" /\ task.offer => Stands
    /\ SurfacedOfferStands

\* While nothing is moved, asked or offered, a turn's offer stands as before.
LEMMA ShownStays ==
    ASSUME ShownInv, UNCHANGED <<pc, applied, ply, turn, pending, offered>>,
           task' = task \/ task'.st # "asking"
    PROVE  ShownInv'
BY DEF ShownInv, TurnsAsked, Stands, SurfacedOfferStands, Mover

\* Outside a wait only the plies matter.
LEMMA ShownOutside ==
    ASSUME TypeOK, ShownInv, turn' = turn, ply' = ply \/ ply' = ply + 1,
           pc' # "wait", pc' \in {"paired", "starting"} => pc = "paired" /\ ply' = ply
    PROVE  ShownInv'
<1>1. ply \in Nat /\ \A c \in Color : turn[c].ply \in Int
  BY DEF TypeOK
<1>2. TurnsAsked'
  BY <1>1 DEF ShownInv, TurnsAsked
<1>. QED  BY <1>2 DEF ShownInv, SurfacedOfferStands

\* A turn opens with an offer of the other side or with none, and the mover has not
\* been asked for this ply.
LEMMA ShownOpens ==
    ASSUME TypeOK, ShownInv, OpenTurn, UNCHANGED <<applied, turn, pending, offered>>,
           \/ pc = "starting" /\ ply' = ply
           \/ ply' = ply + 1
    PROVE  ShownInv'
<1>1. ply \in Nat /\ (\A c \in Color : turn[c].ply \in Int) /\ Mover \in Color
  BY MoverType, SMTT(30) DEF TypeOK
<1>2. \A c \in Color : turn[c].ply < ply'
  BY <1>1 DEF ShownInv, TurnsAsked
<1>3. TurnsAsked'
  BY <1>1, <1>2 DEF TurnsAsked
<1>4. Mover' = Mover /\ pc' = "wait" /\ task'.offer = OfferTo(Mover)
  BY DEF OpenTurn, Mover
<1>5. OfferTo(Mover) => pending = Other(Mover)
  BY <1>1 DEF OfferTo, TypeOK, Color, Other
<1>6. task'.offer => Stands'
  BY <1>4, <1>5 DEF Stands
<1>7. SurfacedOfferStands'
  BY <1>1, <1>2, <1>4 DEF SurfacedOfferStands
<1>. QED  BY <1>3, <1>6, <1>7 DEF ShownInv

\* Every step keeps it.
LEMMA NextShown == IInv /\ ShownInv /\ [Next]_vars => ShownInv'
<1> SUFFICES ASSUME TypeOK, TaskInv, ShownInv, [Next]_vars PROVE ShownInv'
  BY DEF IInv
<1>a. Mover \in Color /\ Len(applied) \in Nat
  BY MoverType
<1>1. ASSUME NEW c \in Color, NEW f \in MoveFrame, MoveArrives(c, f) PROVE ShownInv'
  BY <1>1, ShownStays DEF MoveArrives, liveVars, loopVars, seatVars, outVars
<1>2. ASSUME NEW ctl \in Control, ControlArrives(ctl) PROVE ShownInv'
  BY <1>2, ShownStays DEF ControlArrives, liveVars, loopVars, seatVars, outVars
<1>3. CASE MutualAbandonment \/ Tick \/ TakeControl \/ SearchStep \/ UNCHANGED vars
  BY <1>3, ShownStays DEF MutualAbandonment, Tick, TakeControl, SearchStep, vars, liveVars,
     loopVars, seatVars, outVars
<1>4. CASE ReadMove \/ HouseThinks \/ HouseAnswers
  <2>1. UNCHANGED <<pc, applied, ply, turn, pending, offered>>
    BY <1>4 DEF ReadMove, HouseThinks, HouseAnswers, liveVars, loopVars, outVars
  <2>2. task' = task \/ task'.st # "asking"
    BY <1>4 DEF ReadMove, HouseThinks, HouseAnswers, TypeOK
  <2>. QED  BY <2>1, <2>2, ShownStays
<1>5. CASE AskMove
  <2>1. /\ task.st = "asking" /\ task'.st # "asking"
        /\ UNCHANGED <<pc, applied, ply, pending, offered>>
        /\ turn' = [turn EXCEPT ![Mover] = [ply |-> ply, offer |-> task.offer]]
    BY <1>5 DEF AskMove, TypeOK, liveVars, loopVars
  <2>2. /\ turn'[Mover] = [ply |-> ply, offer |-> task.offer]
        /\ \A c \in Color : c # Mover => turn'[c] = turn[c]
    BY <1>a, <2>1 DEF TypeOK
  <2>3. Mover' = Mover /\ (Stands => Stands')
    BY <2>1 DEF Mover, Stands
  <2>4. pc \notin {"paired", "starting"}
    BY <2>1 DEF TaskInv
  <2>5. TurnsAsked'
    BY <2>1, <2>2, <2>4 DEF ShownInv, TurnsAsked, TypeOK
  <2>6. SurfacedOfferStands'
    BY <2>1, <2>2, <2>3 DEF ShownInv, Stands, SurfacedOfferStands
  <2>. QED  BY <2>1, <2>5, <2>6 DEF ShownInv
<1>6. CASE WakeDrawOffer
  <2>1. /\ got.color \in Color /\ pending' = got.color
        /\ offered' = [offered EXCEPT ![got.color] = Len(applied)]
        /\ UNCHANGED <<pc, applied, ply, turn, task>>
    BY <1>6 DEF WakeDrawOffer, WaitAgain, seatVars, outVars, TypeOK, Control, NoControl, None
  <2>2. offered'[got.color] = Len(applied)
    BY <2>1 DEF TypeOK
  <2>3. got.color = Mover \/ got.color = Other(Mover)
    BY <1>a, <2>1 DEF Color, Other
  <2>4. Mover' = Mover /\ Stands'
    BY <2>1, <2>2, <2>3 DEF Mover, Stands
  <2>. QED  BY <2>1, <2>4 DEF ShownInv, TurnsAsked, Stands, SurfacedOfferStands
<1>7. CASE WakeDrawAccept
  <2>1. CASE pending = Other(got.color)
    BY <1>7, <2>1, ShownOutside DEF WakeDrawAccept, Leave, liveVars, outVars
  <2>2. CASE pending # Other(got.color)
    BY <1>7, <2>2, ShownStays DEF WakeDrawAccept, WaitAgain, liveVars, seatVars, outVars
  <2>. QED  BY <2>1, <2>2
<1>8. CASE WakeAbort \/ WakeResign \/ WakeIllegal \/ WakeTimeout
  BY <1>8, ShownOutside DEF WakeAbort, WakeResign, WakeIllegal, WakeTimeout, Leave, liveVars,
     outVars
<1>9. CASE StartGame \/ WakeMove \/ ConfirmMove
  BY <1>9, ShownOutside DEF StartGame, WakeMove, ConfirmMove, liveVars, outVars
<1>10. CASE Terminate \/ Finalize \/ FinalizeFails \/ PublishFails \/ Unbind
  BY <1>10, ShownOutside DEF Terminate, Finalize, FinalizeFails, PublishFails, Unbind, liveVars, outVars
<1>11. ASSUME NEW a \in Audience, Notify(a) PROVE ShownInv'
  BY <1>11, ShownOutside DEF Notify, liveVars
<1>12. CASE FirstTurn
  BY <1>12, ShownOpens DEF FirstTurn, liveVars, outVars
<1>13. CASE PlyDone
  <2>1. UNCHANGED <<applied, turn, pending, offered>> /\ ply' = ply + 1
    BY <1>13 DEF PlyDone, outVars
  <2>2. CASE GameEnds
    BY <2>1, <2>2, ShownOutside DEF GameEnds
  <2>3. CASE OpenTurn
    BY <2>1, <2>3, ShownOpens
  <2>. QED  BY <1>13, <2>2, <2>3 DEF PlyDone
<1>. QED
  BY <1>1, <1>2, <1>3, <1>4, <1>5, <1>6, <1>7, <1>8, <1>9, <1>10, <1>11, <1>12, <1>13,
     NextIsSteps DEF Steps

\* An offer that a bot was shown with its turn can be accepted until it moves,
\* whatever controls are handled in between, unless it offered a draw itself
\* (worker.py run_game, seat.py request_move).
THEOREM ShownOffersStand == Spec => []SurfacedOfferStands
<1>1. Init => ShownInv
  BY DEF Init, ShownInv, TurnsAsked, SurfacedOfferStands
<1>2. ShownInv => SurfacedOfferStands
  BY DEF ShownInv
<1>. QED  BY <1>1, <1>2, NextShown, InductiveInvariant, PTL DEF Spec

-----------------------------------------------------------------------------
(* The game loop implements GameLifecycle.                                 *)

\* The game starts as the abstract one does.
LEMMA InitRefines == Init => Lifecycle!Init
BY DEF Init, NoFinal, Lifecycle!Init

\* Every step is a step of the abstract game or leaves it alone: StartGame is
\* Begin, Terminate is End, Finalize is Record, Notify is Tell, Unbind is Close.
LEMMA NextRefines == IInv /\ [Next]_vars => [Lifecycle!Next]_(Lifecycle!vars)
<1> SUFFICES ASSUME TypeOK, TaskInv, PhaseInv, [Next]_vars
             PROVE  Lifecycle!Next \/ UNCHANGED Lifecycle!vars
  BY DEF IInv
<1>b. ASSUME UNCHANGED <<state, final, recorded, told, bound>> PROVE UNCHANGED Lifecycle!vars
  BY <1>b DEF Lifecycle!vars
<1>1. ASSUME NEW c \in Color, NEW f \in MoveFrame, MoveArrives(c, f)
      PROVE  UNCHANGED Lifecycle!vars
  BY <1>1, <1>b DEF MoveArrives, gameVars, outVars
<1>2. ASSUME NEW ctl \in Control, ControlArrives(ctl) PROVE UNCHANGED Lifecycle!vars
  BY <1>2, <1>b DEF ControlArrives, gameVars, outVars
<1>3. CASE MutualAbandonment \/ Tick \/ FirstTurn \/ AskMove \/ ReadMove \/ HouseThinks
            \/ SearchStep \/ HouseAnswers \/ TakeControl \/ UNCHANGED vars
  BY <1>3, <1>b DEF MutualAbandonment, Tick, FirstTurn, AskMove, ReadMove, HouseThinks,
     SearchStep, HouseAnswers, TakeControl, vars, gameVars, outVars
<1>4. CASE WakeAbort \/ WakeResign \/ WakeDrawAccept \/ WakeDrawOffer \/ WakeIllegal
            \/ WakeTimeout \/ WakeMove \/ ConfirmMove \/ PlyDone \/ FinalizeFails \/ PublishFails
  BY <1>4, <1>b DEF WakeAbort, WakeResign, WakeDrawAccept, WakeDrawOffer, WakeIllegal,
     WakeTimeout, WakeMove, ConfirmMove, PlyDone, FinalizeFails, PublishFails, gameVars, outVars
<1>5. CASE StartGame
  <2>1. Lifecycle!Begin
    BY <1>5 DEF StartGame, PhaseInv, Lifecycle!Begin, outVars
  <2>. QED  BY <2>1 DEF Lifecycle!Next
<1>6. CASE Terminate
  <2>1. verdict \in Verdicts /\ state = "in_progress"
    BY <1>6 DEF Terminate, PhaseInv, Playing, Opening
  <2>2. verdict.termination = "aborted" <=> verdict \in {Aborted}
    BY DEF PhaseInv, Aborted, Verdict
  <2>3. Lifecycle!End(verdict)
    BY <1>6, <2>1, <2>2 DEF Terminate, Lifecycle!End, outVars
  <2>. QED  BY <2>1, <2>3 DEF Lifecycle!Next
<1>7. CASE Finalize
  <2>1. final.verdict = verdict /\ verdict # NoVerdict /\ recorded = NoVerdict
    BY <1>7, VerdictProperties DEF Finalize, PhaseInv, Playing, Opening, Ended, Written
  <2>2. Lifecycle!Record
    BY <1>7, <2>1 DEF Finalize, Lifecycle!Record, outVars
  <2>. QED  BY <2>2 DEF Lifecycle!Next
<1>8. ASSUME NEW a \in Audience, Notify(a) PROVE Lifecycle!Next
  <2>1. recorded # NoVerdict
    BY <1>8, VerdictProperties DEF Notify, PhaseInv, Playing, Opening, Written
  <2>2. Lifecycle!Tell(a)
    BY <1>8, <2>1 DEF Notify, Lifecycle!Tell, gameVars
  <2>. QED  BY <2>2 DEF Lifecycle!Next
<1>9. CASE Unbind
  <2>1. told = Audience /\ bound
    BY <1>9 DEF Unbind, PhaseInv
  <2>2. Lifecycle!Close
    BY <1>9, <2>1 DEF Unbind, Lifecycle!Close, outVars
  <2>. QED  BY <2>2 DEF Lifecycle!Next
<1>. QED
  BY <1>1, <1>2, <1>3, <1>4, <1>5, <1>6, <1>7, <1>8, <1>9, NextIsSteps DEF Steps

\* What the server relies on (one verdict, recorded before anyone is told, a
\* game unbound only after everyone is) holds of every game loop.
THEOREM Refinement == Spec => LifecycleSpec
<1>. QED
  BY InitRefines, NextRefines, InductiveInvariant, PTL DEF Spec, LifecycleSpec, Lifecycle!Spec
=============================================================================
