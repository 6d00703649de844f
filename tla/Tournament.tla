------------------------------ MODULE Tournament ------------------------------
(***************************************************************************)
(* One event of the TournamentManager (tournaments/manager.py): enrolment, *)
(* the tasks that run the event, the rows it keeps in the database, and    *)
(* the restarts and exceptions that end a task but not the event.          *)
(*                                                                         *)
(* The database transactions of enroll and of _run take the event's row    *)
(* lock, so each is one action.  A game is the result its task returns;    *)
(* GameLoop says how it comes about.                                       *)
(***************************************************************************)
EXTENDS RoundRobin

CONSTANTS Bot,
          TargetSize,  \* the field at which the event starts by itself
          Played,      \* bound: the results run_game returns
          Drops,       \* the bots whose session may end
          MayFail,     \* whether a transaction or a game task may raise
          MaxStarts,   \* bound: explicit starts that find the event pending
          MaxLeaves,   \* bound: sessions that end
          MaxRestarts  \* bound: restarts of the server

ASSUME TournamentAssumption ==
    /\ Played \subseteq {"white_wins", "black_wins", "draw", "aborted"} /\ Played # {}
    /\ NoBot \notin Bot /\ TargetSize \in Nat \ {0, 1} /\ MayFail \in BOOLEAN
    /\ Drops \subseteq Bot
    /\ MaxStarts \in Nat /\ MaxLeaves \in Nat /\ MaxRestarts \in Nat

VARIABLES
  status,    \* tournaments.status
  entries,   \* tournament_entries in the order of their seed
  score,     \* tournament_entries.score, in half points
  rows,      \* tournament_games
  runs,      \* the _run tasks of this process
  live,      \* SessionRegistry: whether a bot has a session
  page,      \* the standings that a request for the event's page has read
  broken,    \* history: a task of the event died before its end
  starts, leaves, restarts    \* counters for the bounds

eventVars == <<status, entries, score, rows>>
boundVars == <<starts, leaves, restarts>>
vars == <<eventVars, runs, live, page, broken, boundVars>>

None == "none"
Results == {"white_wins", "black_wins", "draw", "aborted", "void", "bye", None}

\* A task: where it is, the pairings it has still to resolve, the one it is
\* at and its result, and whether a session it is launching on has closed.
Task(pc, specs, cur, result) ==
    [pc |-> pc, specs |-> specs, cur |-> cur, result |-> result, gone |-> FALSE]
Spawned == Task("spawned", {}, 0, None)
Done    == Task("done", {}, 0, None)

NoPoints == [b \in Bot |-> 0]
Entrants == {entries[s] : s \in DOMAIN entries}
Unresolved == {i \in DOMAIN rows : rows[i].result = None}

Init ==
    /\ status = "pending" /\ entries = <<>> /\ rows = <<>>
    /\ score = NoPoints
    /\ runs = <<>> /\ live = [b \in Bot |-> TRUE] /\ broken = FALSE
    /\ page = NoPoints
    /\ starts = 0 /\ leaves = 0 /\ restarts = 0

-----------------------------------------------------------------------------
(* Bots, the organiser and the server.                                     *)

\* Mutant: the event starts only when a bot finds it full.
EnrollLate(b) ==
    /\ live[b] /\ status = "pending" /\ b \notin Entrants
    /\ Len(entries) < TargetSize
    /\ entries' = Append(entries, b)
    /\ runs' = IF Len(entries) > TargetSize THEN Append(runs, Spawned) ELSE runs
    /\ UNCHANGED <<status, score, rows, live, page, broken, boundVars>>

\* Mutant: the status is not looked at.
EnrollStarted(b) ==
    /\ live[b] /\ b \notin Entrants
    /\ Len(entries) < TargetSize
    /\ entries' = Append(entries, b)
    /\ runs' = IF Len(entries) + 1 >= TargetSize THEN Append(runs, Spawned) ELSE runs
    /\ UNCHANGED <<status, score, rows, live, page, broken, boundVars>>

\* A tournament seek; the entry that fills the field spawns a run.
Enroll(b) ==
    /\ live[b] /\ status = "pending" /\ b \notin Entrants
    /\ Len(entries) < TargetSize
    /\ entries' = Append(entries, b)
    /\ runs' = IF Len(entries) + 1 >= TargetSize THEN Append(runs, Spawned) ELSE runs
    /\ UNCHANGED <<status, score, rows, live, page, broken, boundVars>>

\* The organiser's start reads the status without a lock and spawns a run.
StartTournament ==
    /\ status = "pending" /\ starts < MaxStarts
    /\ starts' = starts + 1
    /\ runs' = Append(runs, Spawned)
    /\ UNCHANGED <<eventVars, live, page, broken, leaves, restarts>>

Join(b) ==
    /\ ~live[b]
    /\ live' = [live EXCEPT ![b] = TRUE]
    /\ UNCHANGED <<eventVars, runs, page, broken, boundVars>>

\* A session ends, perhaps while a launch is sending game_start to it.
Leave(b) ==
    /\ b \in Drops /\ live[b] /\ leaves < MaxLeaves
    /\ leaves' = leaves + 1
    /\ live' = [live EXCEPT ![b] = FALSE]
    /\ runs' = [t \in DOMAIN runs |->
                  IF runs[t].pc = "launching" /\ b \in PlayersOf(rows[runs[t].cur])
                  THEN [runs[t] EXCEPT !.gone = TRUE] ELSE runs[t]]
    /\ UNCHANGED <<eventVars, page, broken, starts, restarts>>

\* The process dies: tasks, sessions and requests are gone, the rows stay.
Restart ==
    /\ restarts < MaxRestarts
    /\ restarts' = restarts + 1
    /\ broken' = (broken \/ \E t \in DOMAIN runs : runs[t] # Done)
    /\ runs' = <<>> /\ live' = [b \in Bot |-> FALSE] /\ page' = NoPoints
    /\ UNCHANGED <<eventVars, starts, leaves>>

-----------------------------------------------------------------------------
(* The task _run.                                                          *)

GoOn(t, task) == runs' = [runs EXCEPT ![t] = task]

\* Mutant: a run does not look at the status under the lock.
BeginAgain(t) ==
    /\ runs[t].pc = "spawned"
    /\ status' = "running"
    /\ rows' = rows \o [k \in DOMAIN Schedule(entries) |->
                    LET p == Schedule(entries)[k] IN
                    [round |-> p.round, white |-> p.white, black |-> p.black,
                     result |-> IF NoBot \in PlayersOf(p) THEN "bye" ELSE None]]
    /\ GoOn(t, Task("reading", {}, 0, None))
    /\ UNCHANGED <<entries, score, live, page, broken, boundVars>>

\* From pending to running, with the whole schedule, in one transaction; a run
\* that comes second finds the event no longer pending.
Begin(t) ==
    /\ runs[t].pc = "spawned"
    /\ IF status = "pending"
       THEN /\ status' = "running"
            /\ rows' = [k \in DOMAIN Schedule(entries) |->
                    LET p == Schedule(entries)[k] IN
                    [round |-> p.round, white |-> p.white, black |-> p.black,
                     result |-> IF NoBot \in PlayersOf(p) THEN "bye" ELSE None]]
            /\ GoOn(t, Task("reading", {}, 0, None))
       ELSE GoOn(t, Done) /\ UNCHANGED <<status, rows>>
    /\ UNCHANGED <<entries, score, live, page, broken, boundVars>>

ReadPending(t) ==
    /\ runs[t].pc = "reading"
    /\ GoOn(t, Task("next", Unresolved, 0, None))
    /\ UNCHANGED <<eventVars, live, page, broken, boundVars>>

\* In the order of rounds; within a round the rows' ids are random.
Due(t, i) == i \in runs[t].specs
             /\ \A j \in runs[t].specs : rows[i].round <= rows[j].round

\* A pairing is forfeited or void at once, or its game is launched.
PlayPairing(t) ==
    /\ runs[t].pc = "next"
    /\ \E i \in DOMAIN rows :
         /\ Due(t, i)
         /\ LET at(pc, result) == GoOn(t, Task(pc, runs[t].specs, i, result)) IN
            CASE live[rows[i].white] /\ live[rows[i].black] -> at("launching", None)
              [] live[rows[i].white] /\ ~live[rows[i].black] -> at("recording", "white_wins")
              [] ~live[rows[i].white] /\ live[rows[i].black] -> at("recording", "black_wins")
              [] OTHER -> at("recording", "void")
    /\ UNCHANGED <<eventVars, live, page, broken, boundVars>>

\* Both game_start are sent; on a session that closed meanwhile a send may raise.
Launched(t) ==
    /\ runs[t].pc = "launching"
    /\ GoOn(t, [runs[t] EXCEPT !.pc = "playing", !.gone = FALSE])
    /\ UNCHANGED <<eventVars, live, page, broken, boundVars>>

GameEnds(t) ==
    /\ runs[t].pc = "playing"
    /\ \E r \in Played : GoOn(t, [runs[t] EXCEPT !.pc = "recording", !.result = r])
    /\ UNCHANGED <<eventVars, live, page, broken, boundVars>>

\* Mutant: an aborted game counts as a draw.
AwardAborted(p, r) ==
    [b \in Bot |-> CASE r = "white_wins" /\ b = p.white -> 2
                     [] r = "black_wins" /\ b = p.black -> 2
                     [] r \in {"draw", "aborted"} /\ b \in PlayersOf(p) -> 1
                     [] OTHER -> 0]

\* The half points a result brings each bot.
Award(p, r) ==
    [b \in Bot |-> CASE r = "white_wins" /\ b = p.white -> 2
                     [] r = "black_wins" /\ b = p.black -> 2
                     [] r = "draw" /\ b \in PlayersOf(p) -> 1
                     [] OTHER -> 0]

\* The result and the points it brings, in one transaction.
RecordResult(t) ==
    /\ runs[t].pc = "recording"
    /\ LET i == runs[t].cur IN
       /\ rows' = [rows EXCEPT ![i].result = runs[t].result]
       /\ score' = [b \in Bot |-> score[b] + Award(rows[i], runs[t].result)[b]]
       /\ GoOn(t, Task("next", runs[t].specs \ {i}, 0, None))
    /\ UNCHANGED <<status, entries, live, page, broken, boundVars>>

Finish(t) ==
    /\ runs[t].pc = "next" /\ runs[t].specs = {}
    /\ status' = IF status = "running" THEN "finished" ELSE status
    /\ GoOn(t, Done)
    /\ UNCHANGED <<entries, score, rows, live, page, broken, boundVars>>

\* An exception ends the task and is logged; the event stays as it is.
Fails(t) ==
    /\ runs[t] # Done
    /\ \/ MayFail /\ runs[t].pc # "launching"
       \/ runs[t].pc = "launching" /\ runs[t].gone
    /\ GoOn(t, Done) /\ broken' = TRUE
    /\ UNCHANGED <<eventVars, live, page, boundVars>>

-----------------------------------------------------------------------------
\* The pairings a bot won, those it drew, and the half points they amount to.
WonBy(b) == {i \in DOMAIN rows : \/ rows[i].white = b /\ rows[i].result = "white_wins"
                                 \/ rows[i].black = b /\ rows[i].result = "black_wins"}
DrawnBy(b) == {i \in DOMAIN rows : b \in PlayersOf(rows[i]) /\ rows[i].result = "draw"}
Earned(b) == 2 * Cardinality(WonBy(b)) + Cardinality(DrawnBy(b))

\* get_tournament reads the entries and, in a later statement, the results that it
\* shows with them.
ReadStandings ==
    /\ page' = score /\ page # score
    /\ UNCHANGED <<eventVars, runs, live, broken, boundVars>>

-----------------------------------------------------------------------------
Step(t) == \/ Begin(t) \/ ReadPending(t) \/ PlayPairing(t) \/ Launched(t)
           \/ GameEnds(t) \/ RecordResult(t) \/ Finish(t)

Runs == \E t \in DOMAIN runs : Step(t) \/ Fails(t)

Next ==
    \/ \E b \in Bot : Enroll(b) \/ Join(b) \/ Leave(b)
    \/ StartTournament \/ Restart
    \/ Runs
    \/ ReadStandings

Spec == Init /\ [][Next]_vars

\* The tasks go on as long as the process lives; a game ends by its clock.
FairSpec == Spec /\ WF_vars(Runs)

-----------------------------------------------------------------------------
(* Properties.                                                             *)

\* Every variable has its type, and the field is never larger than the target.
TypeOK ==
    /\ status \in {"pending", "running", "finished"}
    /\ entries \in Seq(Bot) /\ Len(entries) <= TargetSize
    /\ score \in [Bot -> 0 .. 2 * (TargetSize - 1)]
    /\ \A i \in DOMAIN rows : rows[i] \in
          [round : 0 .. TargetSize, white : Bot \cup {NoBot}, black : Bot \cup {NoBot},
           result : Results]
    /\ \A t \in DOMAIN runs : runs[t] \in
          [pc : {"spawned", "reading", "next", "launching", "playing", "recording", "done"},
           specs : SUBSET (DOMAIN rows), cur : 0 .. Len(rows), result : Results,
           gone : BOOLEAN]
    /\ live \in [Bot -> BOOLEAN] /\ page \in [Bot -> Nat]
    /\ broken \in BOOLEAN
    /\ starts \in 0 .. MaxStarts /\ leaves \in 0 .. MaxLeaves /\ restarts \in 0 .. MaxRestarts

\* Whatever order bots enrol in and however a start races the last entry, the
\* schedule that is played covers the field of the standings: every two entrants
\* meet once, and each is in one pairing a round (schedule.py, "Everyone plays
\* everyone exactly once").
EveryoneMeetsOnce ==
    status # "pending" => MeetOnce(rows, Entrants) /\ OncePerRound(rows, Entrants)

\* However many runs an event was started with, one pairing is played at a time,
\* and none that has its result already (manager.py, "one live game at a time").
AtPairing == {t \in DOMAIN runs : runs[t].pc \in {"launching", "playing", "recording"}}
OnePairingAtATime ==
    /\ Cardinality(AtPairing) <= 1
    /\ \A t \in AtPairing : runs[t].cur \in Unresolved

\* Over forfeits, voids, byes, restarts and exceptions the standings are the
\* results, an event that is finished has a result for every pairing, and a page,
\* whenever its results are read, credits nobody with one that it does not show
\* (service.py:82-124: the standings first).
StandingsMatchResults ==
    /\ \A b \in Bot : LET earned == Earned(b) IN score[b] = earned /\ page[b] <= earned
    /\ status = "finished" => Unresolved = {}

\* An event that is full or was started comes to its end, unless a task of it
\* died: of an exception or with the process.
EventEnds == (Len(entries) = TargetSize \/ status = "running") ~> (status = "finished" \/ broken)
=============================================================================
