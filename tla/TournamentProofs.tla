-------------------------- MODULE TournamentProofs --------------------------
(***************************************************************************)
(* Proofs about Tournament, for any field, any number of starts, restarts  *)
(* and lost sessions, and any game results: however often an event is      *)
(* started, it is run once; its standings are its results; and its games   *)
(* are a round robin, for the circle method is one.                        *)
(***************************************************************************)
EXTENDS Tournament, SublistProofs, FiniteSetTheorems, SequenceTheorems

Pcs == {"spawned", "reading", "next", "launching", "playing", "recording", "done"}
ActivePcs == {"reading", "next", "launching", "playing", "recording"}
PairingPcs == {"launching", "playing", "recording"}

Tasks == [pc : Pcs, specs : SUBSET Nat, cur : Nat, result : Results, gone : BOOLEAN]

\* A row is a pairing with its result.
IsRow(p) == p = [round |-> p.round, white |-> p.white, black |-> p.black, result |-> p.result]

\* The types that the argument rests on.
RunsTyped ==
    /\ runs \in Seq(Tasks) /\ entries \in Seq(Bot) /\ DOMAIN rows \subseteq Nat
    /\ \A i \in DOMAIN rows : IsRow(rows[i])
    /\ status \in {"pending", "running", "finished"}

\* The tasks that found the event pending.
Active == {t \in DOMAIN runs : runs[t].pc \in ActivePcs}

\* There is none before the event runs, and never two.
OneRun == /\ status = "pending" => Active = {}
          /\ \A t, u \in Active : t = u

\* What a task has read of the results it still has to bring about is true, and
\* it records a result that is one.
Holds(task) ==
    /\ task.pc \in ActivePcs \ {"reading"} => task.specs = Unresolved
    /\ task.pc \in PairingPcs => task.cur \in task.specs
    /\ task.pc = "recording" => task.result # None
SpecsOpen == \A t \in DOMAIN runs : Holds(runs[t])

IInv == RunsTyped /\ OneRun /\ SpecsOpen

-----------------------------------------------------------------------------
(* How the tasks change. *)

\* A task that was spawned is not active yet.
LEMMA SpawnedIsTask == Spawned \in Tasks /\ Spawned.pc = "spawned" /\ Done \in Tasks /\ Done.pc = "done"
BY DEF Spawned, Done, Task, Tasks, Pcs, Results, None

\* A task more, not yet active, changes nothing.
LEMMA OneMore ==
    ASSUME IInv, runs' = runs \/ runs' = Append(runs, Spawned),
           entries' \in Seq(Bot), UNCHANGED <<status, rows>>
    PROVE  IInv'
<1>1. CASE runs' = runs
  BY <1>1 DEF IInv, RunsTyped, OneRun, SpecsOpen, Holds, Active, Unresolved
<1>2. CASE runs' = Append(runs, Spawned)
  <2>1. /\ runs' \in Seq(Tasks) /\ Len(runs) \in Nat /\ DOMAIN runs' = 1 .. Len(runs) + 1
        /\ DOMAIN runs = 1 .. Len(runs)
        /\ \A t \in DOMAIN runs : runs'[t] = runs[t]
        /\ runs'[Len(runs) + 1] = Spawned
    <3> HIDE DEF Tasks
    <3> QED BY <1>2, SpawnedIsTask DEF IInv, RunsTyped
  <2>2. RunsTyped'
    BY <2>1 DEF IInv, RunsTyped
  <2>3. Active' = Active
    BY <2>1, SpawnedIsTask DEF Active, ActivePcs
  <2>4. OneRun'
    BY <2>3 DEF IInv, OneRun
  <2>5. ASSUME NEW t \in DOMAIN runs' PROVE Holds(runs[t])'
    <3>1. CASE t \in DOMAIN runs
      BY <2>1, <3>1 DEF IInv, SpecsOpen, Holds, Unresolved
    <3>2. CASE t = Len(runs) + 1
      BY <2>1, <3>2, SpawnedIsTask DEF Holds, ActivePcs, PairingPcs
    <3> QED BY <2>1, <3>1, <3>2
  <2> QED BY <2>2, <2>4, <2>5 DEF IInv, SpecsOpen
<1> QED BY <1>1, <1>2

\* One task goes on while the rows stay: to another place, or out of the run.
LEMMA GoesOn ==
    ASSUME IInv, NEW t \in DOMAIN runs, NEW task \in Tasks, GoOn(t, task),
           task.pc \in ActivePcs => t \in Active,
           Holds(task), UNCHANGED <<entries, rows>>,
           status' \in {"pending", "running", "finished"},
           status' = "pending" => status = "pending"
    PROVE  IInv'
<1>1. /\ runs' \in Seq(Tasks) /\ DOMAIN runs' = DOMAIN runs /\ runs'[t] = task
      /\ \A u \in DOMAIN runs : u # t => runs'[u] = runs[u]
  <2> HIDE DEF Tasks
  <2> QED BY DEF GoOn, IInv, RunsTyped
<1>2. Active' \subseteq Active
  BY <1>1 DEF Active
<1>3. RunsTyped' /\ OneRun'
  BY <1>1, <1>2 DEF IInv, RunsTyped, OneRun
<1>4. SpecsOpen'
  BY <1>1 DEF IInv, SpecsOpen, Holds, Unresolved
<1> QED BY <1>3, <1>4 DEF IInv

\* A session that ends marks tasks, and nothing else of them.
LEMMA LeaveIInv ==
    ASSUME IInv, NEW b \in Bot, Leave(b)
    PROVE  IInv'
<1>1. runs \in Seq(Tasks) /\ DOMAIN runs = 1 .. Len(runs) /\ Len(runs) \in Nat
  BY DEF IInv, RunsTyped
<1>2. ASSUME NEW t \in DOMAIN runs
      PROVE  /\ runs'[t] \in Tasks /\ runs'[t].pc = runs[t].pc
             /\ runs'[t].specs = runs[t].specs /\ runs'[t].cur = runs[t].cur
             /\ runs'[t].result = runs[t].result
  <2>1. runs[t] \in Tasks
    BY <1>1
  <2>2. runs'[t] = runs[t] \/ runs'[t] = [runs[t] EXCEPT !.gone = TRUE]
    BY DEF Leave
  <2> QED BY <2>1, <2>2 DEF Tasks
<1>3. DOMAIN runs' = DOMAIN runs /\ runs' \in Seq(Tasks)
  <2>1. runs' = [t \in 1 .. Len(runs) |-> runs'[t]]
    BY <1>1 DEF Leave
  <2>2. \A t \in 1 .. Len(runs) : runs'[t] \in Tasks
    BY <1>1, <1>2
  <2> HIDE DEF Tasks
  <2> QED BY <1>1, <2>1, <2>2
<1>4. UNCHANGED <<status, entries, rows>>
  BY DEF Leave, eventVars
<1>5. Active' = Active
  BY <1>2, <1>3 DEF Active
<1>6. RunsTyped' /\ OneRun'
  BY <1>3, <1>4, <1>5 DEF IInv, RunsTyped, OneRun
<1>7. SpecsOpen'
  BY <1>2, <1>3, <1>4 DEF IInv, SpecsOpen, Holds, Unresolved
<1> QED BY <1>6, <1>7 DEF IInv

\* The field is a sequence of even length.
LEMMA FieldEven ==
    ASSUME entries \in Seq(Bot)
    PROVE  /\ Field(entries) \in Seq(Bot \cup {NoBot}) /\ Len(Field(entries)) \in Nat
           /\ (Len(Field(entries)) - 1) * (Len(Field(entries)) \div 2) \in Int
<1>1. entries \in Seq(Bot \cup {NoBot}) /\ Len(entries) \in Nat
  OBVIOUS
<1>2. Append(entries, NoBot) \in Seq(Bot \cup {NoBot})
  BY <1>1
<1>3. Field(entries) \in Seq(Bot \cup {NoBot}) /\ Len(Field(entries)) \in Nat
  BY <1>1, <1>2 DEF Field
<1> DEFINE n == Len(Field(entries))
<1>4. n \in Nat
  BY <1>3
<1> HIDE DEF n
<1>5. n - 1 \in Int /\ n \div 2 \in Int
  BY <1>4
<1>6. (n - 1) * (n \div 2) \in Int
  BY <1>5
<1> QED BY <1>3, <1>6 DEF n

\* The schedule is numbered by naturals.
LEMMA ScheduleNumbered ==
    ASSUME entries \in Seq(Bot)
    PROVE  DOMAIN Schedule(entries) \subseteq Nat
<1> DEFINE m == (Len(Field(entries)) - 1) * (Len(Field(entries)) \div 2)
<1>1. m \in Int
  BY FieldEven
<1>2. 1 .. m \subseteq Nat
  BY <1>1
<1>3. CASE Len(entries) < 2
  BY <1>3 DEF Schedule
<1>4. CASE ~(Len(entries) < 2)
  <2>1. DOMAIN Schedule(entries) = 1 .. m
    BY <1>4 DEF Schedule
  <2> QED BY <1>2, <2>1
<1> QED BY <1>3, <1>4

\* The run that finds the event pending is the first, and the only one.
LEMMA BeginIInv ==
    ASSUME IInv, NEW t \in DOMAIN runs, Begin(t)
    PROVE  IInv'
<1>1. Task("reading", {}, 0, None) \in Tasks
  BY DEF Task, Tasks, Pcs, Results, None
<1>2. CASE status = "pending"
  <2>1. /\ status' = "running" /\ entries' = entries
        /\ GoOn(t, Task("reading", {}, 0, None)) /\ DOMAIN rows' = DOMAIN Schedule(entries)
        /\ \A k \in DOMAIN rows' : IsRow(rows'[k])
    BY <1>2 DEF Begin, IsRow
  <2>2. /\ runs' \in Seq(Tasks) /\ DOMAIN runs' = DOMAIN runs
        /\ runs'[t] = Task("reading", {}, 0, None)
        /\ \A u \in DOMAIN runs : u # t => runs'[u] = runs[u]
    <3> HIDE DEF Tasks, Task
    <3> QED BY <1>1, <2>1 DEF GoOn, IInv, RunsTyped
  <2>3. RunsTyped'
    BY <2>1, <2>2, ScheduleNumbered DEF IInv, RunsTyped
  <2>4. \A u \in DOMAIN runs : u # t => runs'[u].pc \notin ActivePcs
    BY <1>2, <2>2 DEF IInv, OneRun, Active
  <2>5. OneRun'
    BY <2>1, <2>2, <2>4 DEF OneRun, Active
  <2>6. runs'[t].pc = "reading"
    BY <2>2 DEF Task
  <2>7. SpecsOpen'
    BY <2>2, <2>4, <2>6 DEF SpecsOpen, Holds, ActivePcs, PairingPcs
  <2> QED BY <2>3, <2>5, <2>7 DEF IInv
<1>3. CASE status # "pending"
  <2>1. GoOn(t, Done) /\ UNCHANGED <<status, rows, entries>>
    BY <1>3 DEF Begin
  <2>2. Holds(Done) /\ Done.pc \notin ActivePcs
    BY SpawnedIsTask DEF Holds, ActivePcs, PairingPcs
  <2> QED BY <2>1, <2>2, SpawnedIsTask, GoesOn DEF IInv, RunsTyped
<1> QED BY <1>2, <1>3

\* The row of a pairing takes its result, and nothing else of it changes.
LEMMA RecordedRow ==
    ASSUME RunsTyped, SpecsOpen, NEW t \in DOMAIN runs, RecordResult(t)
    PROVE  LET i == runs[t].cur IN
           /\ i \in Unresolved /\ runs[t].result # None
           /\ DOMAIN rows' = DOMAIN rows /\ IsRow(rows'[i])
           /\ rows'[i].result = runs[t].result /\ rows'[i].round = rows[i].round
           /\ rows'[i].white = rows[i].white /\ rows'[i].black = rows[i].black
           /\ \A j \in DOMAIN rows : j # i => rows'[j] = rows[j]
<1> DEFINE i == runs[t].cur
<1>1. i \in Unresolved /\ runs[t].result # None
  BY DEF SpecsOpen, Holds, RecordResult, ActivePcs, PairingPcs
<1>2. i \in DOMAIN rows /\ IsRow(rows[i])
  BY <1>1 DEF RunsTyped, Unresolved
<1>3. /\ DOMAIN rows' = DOMAIN rows /\ \A j \in DOMAIN rows : j # i => rows'[j] = rows[j]
      /\ rows'[i] = [rows[i] EXCEPT !.result = runs[t].result]
  BY <1>2 DEF RecordResult
<1>4. [rows[i] EXCEPT !.result = runs[t].result]
        = [round |-> rows[i].round, white |-> rows[i].white, black |-> rows[i].black,
           result |-> runs[t].result]
  BY <1>2 DEF IsRow
<1> QED BY <1>1, <1>3, <1>4 DEF IsRow

\* A result is recorded once, by the one task that has its pairing to resolve.
LEMMA RecordIInv ==
    ASSUME IInv, NEW t \in DOMAIN runs, RecordResult(t)
    PROVE  IInv'
<1> DEFINE i == runs[t].cur
           task == Task("next", runs[t].specs \ {i}, 0, None)
<1>1. runs[t] \in Tasks /\ t \in Active
  BY DEF IInv, RunsTyped, RecordResult, Active, ActivePcs
<1>2. task \in Tasks /\ task.pc = "next" /\ task.specs = runs[t].specs \ {i}
  BY <1>1 DEF Task, Tasks, Pcs, Results, None
<1>3. /\ runs' \in Seq(Tasks) /\ DOMAIN runs' = DOMAIN runs /\ runs'[t] = task
      /\ \A u \in DOMAIN runs : u # t => runs'[u] = runs[u]
  <2>1. GoOn(t, task)
    BY DEF RecordResult
  <2> HIDE DEF Tasks, task
  <2> QED BY <1>2, <2>1 DEF GoOn, IInv, RunsTyped
<1>4. /\ DOMAIN rows' = DOMAIN rows /\ \A j \in DOMAIN rows : j # i => rows'[j] = rows[j]
      /\ i \in DOMAIN rows /\ IsRow(rows'[i]) /\ rows'[i].result # None
  <2>1. RunsTyped /\ SpecsOpen
    BY DEF IInv
  <2> QED BY <2>1, RecordedRow DEF Unresolved
<1>5. RunsTyped'
  BY <1>3, <1>4 DEF RecordResult, IInv, RunsTyped
<1>6. \A u \in DOMAIN runs : u # t => runs'[u].pc \notin ActivePcs
  BY <1>1, <1>3 DEF IInv, OneRun, Active
<1>7. OneRun'
  BY <1>1, <1>3, <1>6 DEF RecordResult, IInv, OneRun, Active
<1>8. task.specs = Unresolved'
  <2>1. runs[t].specs = Unresolved
    BY DEF IInv, SpecsOpen, Holds, ActivePcs, RecordResult
  <2> QED BY <1>2, <1>4, <2>1 DEF Unresolved
<1>9. SpecsOpen'
  BY <1>2, <1>3, <1>6, <1>8 DEF SpecsOpen, Holds, ActivePcs, PairingPcs
<1> QED BY <1>5, <1>7, <1>9 DEF IInv

\* Every other step of a task takes it on, with the rows as they are.
LEMMA StepIInv ==
    ASSUME IInv, NEW t \in DOMAIN runs,
           \/ ReadPending(t) \/ PlayPairing(t) \/ Launched(t)
           \/ GameEnds(t) \/ Finish(t) \/ Fails(t)
    PROVE  IInv'
<1>1. /\ runs[t] \in Tasks /\ Holds(runs[t]) /\ DOMAIN rows \subseteq Nat
      /\ status \in {"pending", "running", "finished"}
  BY DEF IInv, RunsTyped, SpecsOpen
<1>2. Holds(Done) /\ Done.pc \notin ActivePcs
  BY SpawnedIsTask DEF Holds, ActivePcs, PairingPcs
<1>3. CASE ReadPending(t)
  <2> DEFINE task == Task("next", Unresolved, 0, None)
  <2>1. task \in Tasks /\ task.pc = "next" /\ task.specs = Unresolved
    BY <1>1 DEF Task, Tasks, Pcs, Results, None, Unresolved
  <2>2. Holds(task) /\ t \in Active
    BY <1>3, <2>1 DEF Holds, PairingPcs, ReadPending, Active, ActivePcs
  <2>3. GoOn(t, task) /\ UNCHANGED <<status, entries, rows>>
    BY <1>3 DEF ReadPending, eventVars
  <2> HIDE DEF task
  <2> QED BY <1>1, <2>1, <2>2, <2>3, GoesOn
<1>4. CASE PlayPairing(t)
  <2>1. PICK i \in DOMAIN rows, pc \in {"launching", "recording"},
             r \in {None, "white_wins", "black_wins", "void"} :
               /\ Due(t, i) /\ GoOn(t, Task(pc, runs[t].specs, i, r))
               /\ pc = "recording" => r # None
    BY <1>4 DEF PlayPairing, None
  <2> DEFINE task == Task(pc, runs[t].specs, i, r)
  <2>2. /\ task \in Tasks /\ task.pc = pc /\ task.specs = runs[t].specs /\ task.cur = i
        /\ task.result = r
    BY <1>1 DEF Task, Tasks, Pcs, Results, None
  <2>3. Holds(task) /\ t \in Active
    BY <1>1, <1>4, <2>1, <2>2 DEF Holds, PairingPcs, PlayPairing, Due, Active, ActivePcs
  <2>4. GoOn(t, task) /\ UNCHANGED <<status, entries, rows>>
    BY <1>4, <2>1 DEF PlayPairing, eventVars
  <2> HIDE DEF task
  <2> QED BY <1>1, <2>2, <2>3, <2>4, GoesOn
<1>5. CASE Launched(t)
  <2> DEFINE task == [runs[t] EXCEPT !.pc = "playing", !.gone = FALSE]
  <2>1. task \in Tasks /\ task.pc = "playing" /\ task.specs = runs[t].specs /\ task.cur = runs[t].cur
    BY <1>1 DEF Tasks, Pcs
  <2>2. Holds(task) /\ t \in Active
    BY <1>1, <1>5, <2>1 DEF Holds, PairingPcs, Launched, Active, ActivePcs
  <2>3. GoOn(t, task) /\ UNCHANGED <<status, entries, rows>>
    BY <1>5 DEF Launched, eventVars
  <2> HIDE DEF task
  <2> QED BY <1>1, <2>1, <2>2, <2>3, GoesOn
<1>6. CASE GameEnds(t)
  <2>1. PICK r \in Played : GoOn(t, [runs[t] EXCEPT !.pc = "recording", !.result = r])
    BY <1>6 DEF GameEnds
  <2> DEFINE task == [runs[t] EXCEPT !.pc = "recording", !.result = r]
  <2>2. /\ task \in Tasks /\ task.pc = "recording" /\ task.specs = runs[t].specs
        /\ task.cur = runs[t].cur /\ task.result # None
    BY <1>1, TournamentAssumption DEF Tasks, Pcs, Results, None
  <2>3. Holds(task) /\ t \in Active
    BY <1>1, <1>6, <2>2 DEF Holds, PairingPcs, GameEnds, Active, ActivePcs
  <2>4. GoOn(t, task) /\ UNCHANGED <<status, entries, rows>>
    BY <1>6, <2>1 DEF GameEnds, eventVars
  <2> HIDE DEF task
  <2> QED BY <1>1, <2>2, <2>3, <2>4, GoesOn
<1>7. CASE Finish(t)
  <2>1. GoOn(t, Done) /\ UNCHANGED <<entries, rows>>
    BY <1>7 DEF Finish
  <2>2. status' \in {"pending", "running", "finished"} /\ (status' = "pending" => status = "pending")
    BY <1>1, <1>7 DEF Finish
  <2> QED BY <1>2, <2>1, <2>2, SpawnedIsTask, GoesOn
<1>8. CASE Fails(t)
  <2>1. GoOn(t, Done) /\ UNCHANGED <<status, entries, rows>>
    BY <1>8 DEF Fails, eventVars
  <2> QED BY <1>1, <1>2, <2>1, SpawnedIsTask, GoesOn
<1> QED BY <1>3, <1>4, <1>5, <1>6, <1>7, <1>8

-----------------------------------------------------------------------------
(* What follows. *)

\* IInv is inductive: enrolments and starts only add tasks, a task begins the
\* event only while it is pending, and a restart leaves no task.
THEOREM InductiveInvariant == Spec => []IInv
<1>1. Init => IInv
  <2> SUFFICES ASSUME Init PROVE IInv
    OBVIOUS
  <2>1. RunsTyped
    BY DEF Init, RunsTyped
  <2>2. OneRun /\ SpecsOpen
    BY DEF Init, OneRun, Active, SpecsOpen
  <2> QED BY <2>1, <2>2 DEF IInv
<1>2. IInv /\ [Next]_vars => IInv'
  <2> SUFFICES ASSUME IInv, [Next]_vars PROVE IInv'
    OBVIOUS
  <2>1. ASSUME NEW b \in Bot, Enroll(b) PROVE IInv'
    <3>1. entries' \in Seq(Bot)
      BY <2>1 DEF Enroll, IInv, RunsTyped
    <3>2. runs' = runs \/ runs' = Append(runs, Spawned)
      BY <2>1 DEF Enroll
    <3>3. UNCHANGED <<status, rows>>
      BY <2>1 DEF Enroll
    <3> QED BY <3>1, <3>2, <3>3, OneMore
  <2>2. ASSUME NEW b \in Bot, Join(b) PROVE IInv'
    <3>1. runs' = runs /\ UNCHANGED <<status, entries, rows>>
      BY <2>2 DEF Join, eventVars
    <3> QED BY <3>1, OneMore DEF IInv, RunsTyped
  <2>3. CASE StartTournament
    <3>1. runs' = Append(runs, Spawned) /\ UNCHANGED <<status, entries, rows>>
      BY <2>3 DEF StartTournament, eventVars
    <3> QED BY <3>1, OneMore DEF IInv, RunsTyped
  <2>4. CASE Restart
    <3>1. runs' = <<>> /\ UNCHANGED <<status, entries, rows>>
      BY <2>4 DEF Restart, eventVars
    <3>2. RunsTyped'
      BY <3>1 DEF IInv, RunsTyped
    <3> QED BY <3>1, <3>2 DEF IInv, OneRun, Active, SpecsOpen
  <2>5. CASE ReadStandings
    <3>1. runs' = runs /\ UNCHANGED <<status, entries, rows>>
      BY <2>5 DEF ReadStandings, eventVars
    <3> QED BY <3>1, OneMore DEF IInv, RunsTyped
  <2>6. CASE UNCHANGED vars
    <3>1. runs' = runs /\ UNCHANGED <<status, entries, rows>>
      BY <2>6 DEF vars, eventVars
    <3> QED BY <3>1, OneMore DEF IInv, RunsTyped
  <2> QED BY <2>1, <2>2, <2>3, <2>4, <2>5, <2>6, LeaveIInv, BeginIInv, RecordIInv, StepIInv
          DEF Next, Runs, Step
<1> QED BY <1>1, <1>2, PTL DEF Spec

\* However many runs an event was started with, one pairing is played at a time,
\* and none that has its result already: for any field and any number of starts,
\* restarts and failures.
THEOREM EventsRunOnce == Spec => []OnePairingAtATime
<1>1. IInv => OnePairingAtATime
  <2> SUFFICES ASSUME IInv PROVE OnePairingAtATime
    OBVIOUS
  <2>1. AtPairing \subseteq Active
    BY DEF AtPairing, Active, ActivePcs
  <2>2. Cardinality(AtPairing) <= 1
    <3>1. CASE AtPairing = {}
      BY <3>1, FS_EmptySet
    <3>2. ASSUME NEW t \in AtPairing PROVE Cardinality(AtPairing) <= 1
      <4>1. AtPairing = {t}
        BY <2>1, <3>2 DEF IInv, OneRun
      <4>2. Cardinality({t}) = 1
        BY FS_Singleton, Zenon
      <4>3. Cardinality(AtPairing) = 1
        BY <4>1, <4>2, Zenon
      <4> QED BY <4>3
    <3> QED BY <3>1, <3>2
  <2>3. ASSUME NEW t \in AtPairing PROVE runs[t].cur \in Unresolved
    <3>1. runs[t].pc \in PairingPcs /\ Holds(runs[t])
      BY DEF AtPairing, IInv, SpecsOpen, PairingPcs
    <3>2. runs[t].cur \in runs[t].specs /\ runs[t].specs \subseteq Unresolved
      BY <3>1 DEF Holds, PairingPcs, ActivePcs
    <3> QED BY <3>2
  <2> QED BY <2>2, <2>3 DEF OnePairingAtATime
<1> QED BY <1>1, InductiveInvariant, PTL

-----------------------------------------------------------------------------
(* The standings. *)

\* There are no results before there is a schedule, and a page has not read more
\* points than there are.
SInv ==
    /\ IsFiniteSet(DOMAIN rows) /\ score \in [Bot -> Nat] /\ page \in [Bot -> Nat]
    /\ status = "pending" => rows = <<>>
    /\ \A b \in Bot : page[b] <= score[b]
    /\ StandingsMatchResults

\* Nothing is earned where nothing was played.
LEMMA NothingEarned ==
    ASSUME NEW b
    PROVE  /\ (\A i \in DOMAIN rows : rows[i].result \in {"bye", None}) => Earned(b) = 0
           /\ (\A i \in DOMAIN rows' : rows'[i].result \in {"bye", None}) => Earned(b)' = 0
<1>1. Cardinality({}) = 0
  BY FS_EmptySet
<1>2. ASSUME \A i \in DOMAIN rows : rows[i].result \in {"bye", None} PROVE Earned(b) = 0
  <2>1. WonBy(b) = {} /\ DrawnBy(b) = {}
    BY <1>2 DEF WonBy, DrawnBy, None
  <2>2. Cardinality(WonBy(b)) = 0 /\ Cardinality(DrawnBy(b)) = 0
    BY <1>1, <2>1
  <2>3. Earned(b) = 2 * Cardinality(WonBy(b)) + Cardinality(DrawnBy(b))
    BY DEF Earned
  <2> QED BY <2>2, <2>3
<1>3. ASSUME \A i \in DOMAIN rows' : rows'[i].result \in {"bye", None} PROVE Earned(b)' = 0
  <2>1. WonBy(b)' = {} /\ DrawnBy(b)' = {}
    BY <1>3 DEF WonBy, DrawnBy, None
  <2>2. Cardinality(WonBy(b)') = 0 /\ Cardinality(DrawnBy(b)') = 0
    BY <1>1, <2>1
  <2>3. Earned(b)' = 2 * Cardinality(WonBy(b)') + Cardinality(DrawnBy(b)')
    BY DEF Earned
  <2> QED BY <2>2, <2>3
<1> QED BY <1>2, <1>3

\* A step that touches neither rows nor points.
LEMMA PointsStay ==
    ASSUME SInv, UNCHANGED <<status, rows, score, page>>
    PROVE  SInv'
BY DEF SInv, StandingsMatchResults, Earned, WonBy, DrawnBy, Unresolved

\* A result brings each bot what it earns by it.
LEMMA RecordEarns ==
    ASSUME IInv, SInv, NEW t \in DOMAIN runs, RecordResult(t), NEW b \in Bot
    PROVE  /\ Award(rows[runs[t].cur], runs[t].result)[b] \in Nat
           /\ Earned(b)' = Earned(b) + Award(rows[runs[t].cur], runs[t].result)[b]
<1> DEFINE i == runs[t].cur
           r == runs[t].result
           p == rows[i]
<1>1. /\ i \in Unresolved /\ DOMAIN rows' = DOMAIN rows /\ rows'[i].result = r
      /\ rows'[i].white = p.white /\ rows'[i].black = p.black
      /\ \A j \in DOMAIN rows : j # i => rows'[j] = rows[j]
  BY RecordedRow DEF IInv
<1>2. i \in DOMAIN rows /\ p.result = None
  BY <1>1 DEF Unresolved
<1>3. i \notin WonBy(b) /\ i \notin DrawnBy(b)
  BY <1>2 DEF WonBy, DrawnBy, None
<1> DEFINE Wins == \/ p.white = b /\ r = "white_wins"
                   \/ p.black = b /\ r = "black_wins"
           Draws == b \in PlayersOf(p) /\ r = "draw"
<1>4. WonBy(b)' = IF Wins THEN WonBy(b) \cup {i} ELSE WonBy(b)
  BY <1>1, <1>2, <1>3 DEF WonBy
<1>5. DrawnBy(b)' = IF Draws THEN DrawnBy(b) \cup {i} ELSE DrawnBy(b)
  <2> HIDE DEF r
  <2> QED BY <1>1, <1>2, <1>3 DEF DrawnBy, PlayersOf
<1>6. Award(p, r)[b] = IF Wins THEN 2 ELSE IF Draws THEN 1 ELSE 0
  <2> HIDE DEF p, r
  <2> QED BY DEF Award
<1>7. ~(Wins /\ Draws)
  OBVIOUS
<1>8. IsFiniteSet(WonBy(b)) /\ IsFiniteSet(DrawnBy(b))
  BY FS_Subset DEF SInv, WonBy, DrawnBy
<1>9. /\ Cardinality(WonBy(b)) \in Nat /\ Cardinality(DrawnBy(b)) \in Nat
      /\ Cardinality(WonBy(b) \cup {i}) = Cardinality(WonBy(b)) + 1
      /\ Cardinality(DrawnBy(b) \cup {i}) = Cardinality(DrawnBy(b)) + 1
  BY <1>3, <1>8, FS_AddElement, FS_CardinalityType
<1>10. /\ Cardinality(WonBy(b)') = Cardinality(WonBy(b)) + (IF Wins THEN 1 ELSE 0)
       /\ Cardinality(DrawnBy(b)') = Cardinality(DrawnBy(b)) + (IF Draws THEN 1 ELSE 0)
  BY <1>4, <1>5, <1>9
<1>11. Earned(b) = 2 * Cardinality(WonBy(b)) + Cardinality(DrawnBy(b))
  BY DEF Earned
<1>12. Earned(b)' = 2 * Cardinality(WonBy(b)') + Cardinality(DrawnBy(b)')
  BY DEF Earned
<1> HIDE DEF Wins, Draws
<1> QED BY <1>6, <1>7, <1>9, <1>10, <1>11, <1>12

\* So the standings stay the results.
LEMMA RecordSInv ==
    ASSUME IInv, SInv, NEW t \in DOMAIN runs, RecordResult(t)
    PROVE  SInv'
<1> DEFINE award(b) == Award(rows[runs[t].cur], runs[t].result)[b]
<1>1. ASSUME NEW b \in Bot
      PROVE  /\ award(b) \in Nat /\ score'[b] = score[b] + award(b)
             /\ Earned(b)' = Earned(b) + award(b)
  BY RecordEarns DEF RecordResult
<1>2. /\ UNCHANGED <<status, page>> /\ status # "pending"
  BY DEF RecordResult, IInv, OneRun, Active, ActivePcs
<1>3. DOMAIN rows' = DOMAIN rows /\ Unresolved' \subseteq Unresolved
  BY RecordedRow DEF IInv, Unresolved
<1> HIDE DEF award
<1>4. score' \in [Bot -> Nat]
  <2>1. score' = [b \in Bot |-> score'[b]]
    BY DEF RecordResult
  <2>2. \A b \in Bot : score'[b] \in Nat
    BY <1>1 DEF SInv
  <2> QED BY <2>1, <2>2
<1>5. ASSUME NEW b \in Bot PROVE score'[b] = Earned(b)' /\ page'[b] <= score'[b]
  <2>1. score[b] = Earned(b) /\ page[b] <= score[b] /\ score[b] \in Nat /\ page[b] \in Nat
    BY DEF SInv, StandingsMatchResults
  <2> QED BY <1>1, <1>2, <2>1
<1>6. \A b \in Bot : page'[b] <= Earned(b)'
  BY <1>5
<1>7. status' = "finished" => Unresolved' = {}
  BY <1>2, <1>3 DEF SInv, StandingsMatchResults
<1>8. StandingsMatchResults'
  BY <1>5, <1>6, <1>7 DEF StandingsMatchResults
<1> QED BY <1>2, <1>3, <1>4, <1>5, <1>8 DEF SInv

\* The schedule is finite.
LEMMA ScheduleFinite ==
    ASSUME entries \in Seq(Bot)
    PROVE  IsFiniteSet(DOMAIN Schedule(entries))
<1> DEFINE m == (Len(Field(entries)) - 1) * (Len(Field(entries)) \div 2)
<1>1. CASE Len(entries) < 2
  <2>1. DOMAIN Schedule(entries) = {}
    BY <1>1 DEF Schedule
  <2> QED BY <2>1, FS_EmptySet
<1>2. CASE ~(Len(entries) < 2)
  <2>1. DOMAIN Schedule(entries) = 1 .. m
    BY <1>2 DEF Schedule
  <2>2. m \in Int
    BY FieldEven
  <2> QED BY <2>1, <2>2, FS_Interval
<1> QED BY <1>1, <1>2

\* The event begins without results and without points.
LEMMA BeginSInv ==
    ASSUME IInv, SInv, NEW t \in DOMAIN runs, Begin(t)
    PROVE  SInv'
<1>1. CASE status # "pending"
  BY <1>1, PointsStay DEF Begin
<1>2. CASE status = "pending"
  <2>1. /\ status' = "running" /\ UNCHANGED <<score, page>>
        /\ DOMAIN rows' = DOMAIN Schedule(entries)
        /\ \A k \in DOMAIN rows' : rows'[k].result \in {"bye", None}
    BY <1>2 DEF Begin
  <2>2. IsFiniteSet(DOMAIN rows')
    BY <2>1, ScheduleFinite DEF IInv, RunsTyped
  <2>3. ASSUME NEW b \in Bot PROVE Earned(b) = 0 /\ Earned(b)' = 0
    <3>1. DOMAIN rows = {}
      BY <1>2 DEF SInv
    <3> QED BY <2>1, <3>1, NothingEarned
  <2>4. StandingsMatchResults'
    BY <2>1, <2>3 DEF SInv, StandingsMatchResults
  <2> QED BY <2>1, <2>2, <2>4 DEF SInv
<1> QED BY <1>1, <1>2

\* SInv holds along with IInv.
LEMMA NextSInv == IInv /\ SInv /\ [Next]_vars => SInv'
<1> SUFFICES ASSUME IInv, SInv, [Next]_vars PROVE SInv'
  OBVIOUS
<1>1. ASSUME NEW b \in Bot, Enroll(b) \/ Join(b) \/ Leave(b) PROVE SInv'
  BY <1>1, PointsStay DEF Enroll, Join, Leave, eventVars
<1>2. CASE StartTournament
  BY <1>2, PointsStay DEF StartTournament, eventVars
<1>3. CASE Restart
  <2>1. UNCHANGED <<status, rows, score>> /\ page' = NoPoints
    BY <1>3 DEF Restart, eventVars
  <2>2. \A b \in Bot : page'[b] = 0 /\ score[b] \in Nat /\ score[b] = Earned(b)
    BY <2>1 DEF NoPoints, SInv, StandingsMatchResults
  <2>3. page' \in [Bot -> Nat]
    BY <2>1 DEF NoPoints
  <2>4. \A b \in Bot : Earned(b)' = Earned(b)
    BY <2>1 DEF Earned, WonBy, DrawnBy
  <2>5. page' \in [Bot -> Nat] /\ \A b \in Bot : page'[b] <= score'[b] /\ page'[b] <= Earned(b)'
    BY <2>1, <2>2, <2>3, <2>4
  <2> QED BY <2>1, <2>4, <2>5 DEF SInv, StandingsMatchResults, Unresolved
<1>4. CASE ReadStandings
  <2>1. UNCHANGED <<status, rows, score>> /\ page' = score
    BY <1>4 DEF ReadStandings, eventVars
  <2>2. \A b \in Bot : score[b] \in Nat /\ score[b] = Earned(b)
    BY DEF SInv, StandingsMatchResults
  <2> QED BY <2>1, <2>2 DEF SInv, StandingsMatchResults, Earned, WonBy, DrawnBy, Unresolved
<1>5. ASSUME NEW t \in DOMAIN runs,
             ReadPending(t) \/ PlayPairing(t) \/ Launched(t) \/ GameEnds(t) \/ Fails(t)
      PROVE  SInv'
  BY <1>5, PointsStay DEF ReadPending, PlayPairing, Launched, GameEnds, Fails, eventVars
<1>6. ASSUME NEW t \in DOMAIN runs, Finish(t) PROVE SInv'
  <2>1. UNCHANGED <<rows, score, page>> /\ (status' = "pending" => status = "pending")
    BY <1>6 DEF Finish
  <2>2. Unresolved = {}
    BY <1>6 DEF Finish, IInv, SpecsOpen, Holds, ActivePcs
  <2> QED BY <2>1, <2>2 DEF SInv, StandingsMatchResults, Earned, WonBy, DrawnBy, Unresolved
<1>7. CASE UNCHANGED vars
  BY <1>7, PointsStay DEF vars, eventVars
<1> QED BY <1>1, <1>2, <1>3, <1>4, <1>5, <1>6, <1>7, BeginSInv, RecordSInv DEF Next, Runs, Step

\* Nobody has a point before the event.
LEMMA InitSInv == Init => SInv
<1> SUFFICES ASSUME Init PROVE SInv
  OBVIOUS
<1>1. DOMAIN rows = {} /\ IsFiniteSet(DOMAIN rows)
  BY FS_EmptySet DEF Init
<1>2. \A b \in Bot : Earned(b) = 0
  BY <1>1, NothingEarned
<1> QED BY <1>1, <1>2 DEF Init, SInv, NoPoints, StandingsMatchResults

\* The standings are the results, over forfeits, voids, byes, restarts and
\* exceptions, an event that is finished has a result for every pairing, and a page
\* shows the results of the points it credits: for any field.
THEOREM StandingsAreResults == Spec => []StandingsMatchResults
<1>1. SInv => StandingsMatchResults
  BY DEF SInv
<1> QED BY <1>1, InitSInv, NextSInv, InductiveInvariant, PTL DEF Spec

-----------------------------------------------------------------------------
(* The circle method. *)

\* The place in the field of n of whoever is in place j in round r.
Origin(n, r, j) == IF j = 1 THEN 1 ELSE IF j - r >= 2 THEN j - r ELSE j - r + n - 1

\* The two that meet at table i in round r.
Table(n, r, i) == {Origin(n, r, i), Origin(n, r, n + 1 - i)}
MeetAt(n, r, i, x, y) == Table(n, r, i) = {x, y}

\* Everyone comes from somewhere, and the first stays.
LEMMA OriginIsPlace ==
    ASSUME NEW n \in Nat, NEW r \in 0 .. n - 2, NEW j \in 1 .. n
    PROVE  Origin(n, r, j) \in 1 .. n
BY DEF Origin

\* Any two meet: where the sum of their places is even or odd says when.
LEMMA TwoMeet ==
    ASSUME NEW h \in Nat \ {0}, NEW n, n = 2 * h, NEW x \in 1 .. n, NEW y \in 1 .. n, x # y
    PROVE  \E r \in 0 .. n - 2, i \in 1 .. h : MeetAt(n, r, i, x, y)
<1>1. \E r \in 0 .. n - 2, j \in 1 .. n : Origin(n, r, j) = x /\ Origin(n, r, n + 1 - j) = y
  <2>1. CASE x = 1
    <3>1. /\ Origin(n, n - y, 1) = x /\ Origin(n, n - y, n + 1 - 1) = y
          /\ n - y \in 0 .. n - 2
      BY <2>1 DEF Origin
    <3> QED BY <3>1
  <2>2. CASE y = 1
    <3>1. /\ Origin(n, n - x, n) = x /\ Origin(n, n - x, n + 1 - n) = y
          /\ n - x \in 0 .. n - 2
      BY <2>2 DEF Origin
    <3> QED BY <3>1
  <2>3. CASE x # 1 /\ y # 1
    <3>1. PICK e \in Nat : x + y = 2 * e \/ x + y = 2 * e + 1
      <4>1. /\ (x + y) \div 2 \in Nat
            /\ \/ x + y = 2 * ((x + y) \div 2)
               \/ x + y = 2 * ((x + y) \div 2) + 1
        OBVIOUS
      <4> QED BY <4>1
    <3> DEFINE r == IF x + y = 2 * e THEN n - e
                    ELSE IF e <= h THEN h - e ELSE n - 1 + h - e
               j == IF x + r <= n THEN x + r ELSE x + r - (n - 1)
    <3>2. r \in 0 .. n - 2 /\ j \in 1 .. n
      BY <2>3, <3>1
    <3>3. Origin(n, r, j) = x
      BY <2>3, <3>1 DEF Origin
    <3>4. Origin(n, r, n + 1 - j) = y
      BY <2>3, <3>1 DEF Origin
    <3> HIDE DEF r, j
    <3> QED BY <3>2, <3>3, <3>4
  <2> QED BY <2>1, <2>2, <2>3
<1>2. PICK r \in 0 .. n - 2, j \in 1 .. n : Origin(n, r, j) = x /\ Origin(n, r, n + 1 - j) = y
  BY <1>1
<1>3. CASE j \in 1 .. h
  BY <1>2, <1>3 DEF Table, MeetAt
<1>4. CASE j \notin 1 .. h
  <2>1. n + 1 - j \in 1 .. h /\ n + 1 - (n + 1 - j) = j
    BY <1>4
  <2> QED BY <1>2, <2>1 DEF Table, MeetAt
<1> QED BY <1>3, <1>4

\* They meet once.
LEMMA TwoMeetOnce ==
    ASSUME NEW h \in Nat \ {0}, NEW n, n = 2 * h, NEW r \in 0 .. n - 2, NEW q \in 0 .. n - 2,
           NEW i \in 1 .. h, NEW j \in 1 .. h, Table(n, r, i) = Table(n, q, j)
    PROVE  r = q /\ i = j
<1>1. \/ Origin(n, r, i) = Origin(n, q, j) /\ Origin(n, r, n + 1 - i) = Origin(n, q, n + 1 - j)
      \/ Origin(n, r, i) = Origin(n, q, n + 1 - j) /\ Origin(n, r, n + 1 - i) = Origin(n, q, j)
  BY DEF Table
<1> QED BY <1>1 DEF Origin

\* In each round everyone is at a table, and at one.
LEMMA OneTable ==
    ASSUME NEW h \in Nat \ {0}, NEW n, n = 2 * h, NEW r \in 0 .. n - 2, NEW x \in 1 .. n
    PROVE  \E i \in 1 .. h : /\ x \in Table(n, r, i)
                             /\ \A j \in 1 .. h : x \in Table(n, r, j) => j = i
<1> DEFINE p == IF x = 1 THEN 1 ELSE IF x + r <= n THEN x + r ELSE x + r - (n - 1)
<1>1. p \in 1 .. n /\ Origin(n, r, p) = x
  BY DEF Origin
<1>2. \A j \in 1 .. n : Origin(n, r, j) = x => j = p
  BY DEF Origin
<1> HIDE DEF p
<1>3. \A j \in 1 .. h : x \in Table(n, r, j) => j = p \/ n + 1 - j = p
  BY <1>2 DEF Table
<1>4. CASE p <= h
  BY <1>1, <1>3, <1>4 DEF Table
<1>5. CASE p > h
  <2>1. n + 1 - p \in 1 .. h /\ n + 1 - (n + 1 - p) = p
    BY <1>1, <1>5
  <2>2. x \in Table(n, r, n + 1 - p)
    BY <1>1, <2>1 DEF Table
  <2>3. \A j \in 1 .. h : x \in Table(n, r, j) => j = n + 1 - p
    BY <1>1, <1>3, <1>5
  <2> QED BY <2>1, <2>2, <2>3
<1> QED BY <1>1, <1>4, <1>5

\* Quotients and remainders.
LEMMA DivMod ==
    ASSUME NEW k \in Nat, NEW h \in Nat \ {0}
    PROVE  k \div h \in Nat /\ k % h \in 0 .. h - 1 /\ k = h * (k \div h) + (k % h)
OBVIOUS

\* They are unique.
LEMMA DivModUnique ==
    ASSUME NEW h \in Nat \ {0}, NEW r \in Nat, NEW i \in 0 .. h - 1
    PROVE  (h * r + i) \div h = r /\ (h * r + i) % h = i
<1> DEFINE k == h * r + i
<1>1. h * r \in Nat /\ k \in Nat
  OBVIOUS
<1>2. k \div h \in Nat /\ k % h \in 0 .. h - 1 /\ k = h * (k \div h) + (k % h)
  BY <1>1, DivMod
<1>3. k \div h = r
  <2> DEFINE d == k \div h
  <2>1. CASE d < r
    <3>1. h * d + h <= h * r
      BY <1>2, <2>1
    <3> QED BY <1>1, <1>2, <3>1
  <2>2. CASE d > r
    <3>1. h * r + h <= h * d
      BY <1>2, <2>2
    <3> QED BY <1>1, <1>2, <3>1
  <2> QED BY <1>2, <2>1, <2>2
<1> QED BY <1>1, <1>2, <1>3

\* A rotation moves all but the first on by one, and the last into the second place.
LEMMA RotateMoves ==
    ASSUME NEW S, NEW arr \in Seq(S), Len(arr) >= 2
    PROVE  /\ Rotate(arr) \in Seq(S) /\ Len(Rotate(arr)) = Len(arr)
           /\ \A j \in 1 .. Len(arr) :
                 Rotate(arr)[j] = IF j = 1 THEN arr[1]
                                  ELSE IF j = 2 THEN arr[Len(arr)] ELSE arr[j - 1]
<1> DEFINE s == <<arr[1], arr[Len(arr)]>>
           t == SubSeq(arr, 2, Len(arr) - 1)
<1>1. s \in Seq(S) /\ Len(s) = 2 /\ s[1] = arr[1] /\ s[2] = arr[Len(arr)]
  OBVIOUS
<1>2. t \in Seq(S) /\ Len(t) = Len(arr) - 2 /\ \A j \in 1 .. Len(arr) - 2 : t[j] = arr[j + 1]
  <2>1. 2 \in Int /\ Len(arr) - 1 \in Int /\ \A j \in 2 .. Len(arr) - 1 : arr[j] \in S
    OBVIOUS
  <2>2. /\ t \in Seq(S) /\ Len(t) = IF 2 <= Len(arr) - 1 THEN Len(arr) - 1 - 2 + 1 ELSE 0
        /\ \A j \in 1 .. Len(arr) - 1 - 2 + 1 : t[j] = arr[2 + j - 1]
    BY <2>1, SubSeqProperties
  <2>3. Len(arr) \in Nat
    OBVIOUS
  <2> DEFINE l == Len(arr)
  <2> HIDE DEF t, l
  <2>4. l \in Nat /\ l >= 2
    BY <2>3 DEF l
  <2>5. Len(t) = l - 2
    <3>1. Len(t) = IF 2 <= l - 1 THEN l - 1 - 2 + 1 ELSE 0
      BY <2>2 DEF l
    <3> QED BY <2>4, <3>1
  <2>6. ASSUME NEW j \in 1 .. l - 2 PROVE t[j] = arr[j + 1]
    <3>1. j \in 1 .. l - 1 - 2 + 1 /\ 2 + j - 1 = j + 1
      BY <2>4
    <3>2. t[j] = arr[2 + j - 1]
      BY <2>2, <3>1 DEF l
    <3> QED BY <3>1, <3>2
  <2> QED BY <2>2, <2>5, <2>6 DEF l
<1> HIDE DEF s, t
<1>3. /\ s \o t \in Seq(S) /\ Len(s \o t) = Len(arr)
      /\ \A j \in 1 .. Len(arr) : (s \o t)[j] = IF j <= 2 THEN s[j] ELSE t[j - 2]
  <2>1. Len(arr) \in Nat
    OBVIOUS
  <2>2. /\ s \o t \in Seq(S) /\ Len(s \o t) = Len(s) + Len(t)
        /\ \A j \in 1 .. Len(s) + Len(t) :
              (s \o t)[j] = IF j <= Len(s) THEN s[j] ELSE t[j - Len(s)]
    BY <1>1, <1>2, ConcatProperties
  <2> QED BY <1>1, <1>2, <2>1, <2>2
<1> QED BY <1>1, <1>2, <1>3 DEF Rotate, s, t

\* g is the field, rotated once a round.
Rotates(g, F, n) == g = [r \in 0 .. n - 2 |-> IF r = 0 THEN F ELSE Rotate(g[r - 1])]

\* The arrangement of a round in closed form.
Arranged(F, n, r) == [j \in 1 .. n |-> F[Origin(n, r, j)]]

\* A rotation takes the arrangement of one round to that of the next.
LEMMA RotateArranged ==
    ASSUME NEW S, NEW F \in Seq(S), NEW n, n = Len(F), NEW r \in 1 .. n - 2
    PROVE  Rotate(Arranged(F, n, r - 1)) = Arranged(F, n, r)
<1>1. n \in Nat /\ n >= 2 /\ r - 1 \in 0 .. n - 2 /\ r \in 0 .. n - 2
  OBVIOUS
<1> DEFINE a == Arranged(F, n, r - 1)
           b == Arranged(F, n, r)
<1>2. a \in Seq(S) /\ Len(a) = n /\ \A j \in 1 .. n : a[j] = F[Origin(n, r - 1, j)]
  <2>1. ASSUME NEW j \in 1 .. n PROVE F[Origin(n, r - 1, j)] \in S
    <3>1. Origin(n, r - 1, j) \in 1 .. n
      BY <1>1, OriginIsPlace
    <3> QED BY <3>1
  <2> QED BY <1>1, <2>1 DEF Arranged
<1>3. b \in Seq(S) /\ Len(b) = n /\ \A j \in 1 .. n : b[j] = F[Origin(n, r, j)]
  <2>1. ASSUME NEW j \in 1 .. n PROVE F[Origin(n, r, j)] \in S
    <3>1. Origin(n, r, j) \in 1 .. n
      BY <1>1, OriginIsPlace
    <3> QED BY <3>1
  <2> QED BY <1>1, <2>1 DEF Arranged
<1> HIDE DEF a, b
<1>4. /\ Rotate(a) \in Seq(S) /\ Len(Rotate(a)) = n
      /\ \A j \in 1 .. n : Rotate(a)[j] = IF j = 1 THEN a[1] ELSE IF j = 2 THEN a[n] ELSE a[j - 1]
  BY <1>1, <1>2, RotateMoves
<1>5. ASSUME NEW j \in 1 .. n PROVE Rotate(a)[j] = b[j]
  <2>1. CASE j = 1
    BY <1>1, <1>2, <1>3, <1>4, <2>1 DEF Origin
  <2>2. CASE j = 2
    <3>1. Origin(n, r - 1, n) = Origin(n, r, 2)
      BY <1>1 DEF Origin
    <3> QED BY <1>1, <1>2, <1>3, <1>4, <2>2, <3>1
  <2>3. CASE j > 2
    <3>1. Origin(n, r - 1, j - 1) = Origin(n, r, j) /\ j - 1 \in 1 .. n
      BY <1>1, <2>3 DEF Origin
    <3> QED BY <1>1, <1>2, <1>3, <1>4, <2>3, <3>1
  <2> QED BY <1>1, <2>1, <2>2, <2>3
<1>6. Rotate(a) = b
  BY <1>3, <1>4, <1>5, SeqEqual
<1> QED BY <1>6 DEF a, b

\* So it is the arrangement in every round.
LEMMA ArrangementIs ==
    ASSUME NEW S, NEW players, NEW n, Field(players) \in Seq(S), n = Len(Field(players))
    PROVE  \A r \in 0 .. n - 2 : Arrangement(players)[r] = Arranged(Field(players), n, r)
<1> DEFINE F == Field(players)
           G == [r \in 0 .. n - 2 |-> Arranged(F, n, r)]
<1>1. F \in Seq(S) /\ n = Len(F) /\ n \in Nat
  OBVIOUS
<1> HIDE DEF F
<1>2. \A r \in 0 .. n - 2 : r # 0 => G[r - 1] = Arranged(F, n, r - 1) /\ r \in 1 .. n - 2
  BY <1>1
<1>3. n >= 2 => Arranged(F, n, 0) = F
  <2>1. \A j \in 1 .. n : Origin(n, 0, j) = j
    BY <1>1 DEF Origin
  <2>2. F = [j \in 1 .. n |-> F[j]]
    BY <1>1
  <2> QED BY <2>1, <2>2 DEF Arranged
<1>4. Rotates(G, F, n)
  <2>1. ASSUME NEW r \in 0 .. n - 2
        PROVE  Arranged(F, n, r) = IF r = 0 THEN F ELSE Rotate(G[r - 1])
    <3>1. CASE r = 0
      BY <1>1, <1>3, <3>1
    <3>2. CASE r # 0
      BY <1>1, <1>2, <3>2, RotateArranged
    <3> QED BY <3>1, <3>2
  <2> QED BY <2>1 DEF Rotates
<1>5. Rotates(Arrangement(players), F, n)
  <2>1. Arrangement(players) = CHOOSE g : Rotates(g, F, n)
    BY DEF Arrangement, Rotates, F
  <2> QED BY <1>4, <2>1
<1> DEFINE A == Arrangement(players)
           T == {r \in 0 .. n - 2 : A[r] # G[r]}
<1>6. ASSUME T # {} PROVE FALSE
  <2>1. PICK r \in T : \A q \in T : r <= q
    <3>1. T \subseteq Nat
      OBVIOUS
    <3> QED BY <1>6, <3>1, LeastNat
  <2>2. r \in 0 .. n - 2 /\ A[r] = (IF r = 0 THEN F ELSE Rotate(A[r - 1]))
        /\ G[r] = (IF r = 0 THEN F ELSE Rotate(G[r - 1]))
    <3> HIDE DEF A, G
    <3>1. r \in 0 .. n - 2
      OBVIOUS
    <3> QED BY <1>4, <1>5, <3>1 DEF Rotates, A
  <2>3. r # 0
    BY <2>2
  <2>4. r - 1 \in 0 .. n - 2 /\ r - 1 \notin T
    BY <1>1, <2>1, <2>2, <2>3
  <2>5. A[r - 1] = G[r - 1]
    BY <2>4
  <2> QED BY <2>2, <2>5
<1> QED BY <1>6 DEF F

\* Of players in fixed order, all different and none of them the sentinel.
Seeded(players, S) ==
    /\ players \in Seq(S) /\ NoBot \notin S
    /\ \A x, y \in DOMAIN players : players[x] = players[y] => x = y

\* The field: of even length, all different, the players in their places.
LEMMA FieldIs ==
    ASSUME NEW S, NEW players, Seeded(players, S), Len(players) >= 2
    PROVE  LET F == Field(players)
               n == Len(F)
               h == n \div 2
           IN  /\ F \in Seq(S \cup {NoBot}) /\ n \in Nat /\ h \in Nat \ {0} /\ n = 2 * h
               /\ Len(players) <= n /\ \A x \in DOMAIN players : F[x] = players[x]
               /\ \A x, y \in 1 .. n : F[x] = F[y] => x = y
<1> DEFINE F == Field(players)
           l == Len(players)
<1>1. /\ players \in Seq(S) /\ players \in Seq(S \cup {NoBot}) /\ l \in Nat /\ l >= 2
      /\ DOMAIN players = 1 .. l /\ \A x \in 1 .. l : players[x] \in S /\ players[x] # NoBot
  BY DEF Seeded
<1>2. \A x, y \in 1 .. l : players[x] = players[y] => x = y
  BY <1>1 DEF Seeded
<1>3. CASE l % 2 = 1
  <2>1. F = Append(players, NoBot)
    BY <1>3 DEF Field
  <2>2. /\ F \in Seq(S \cup {NoBot}) /\ Len(F) = l + 1 /\ F[l + 1] = NoBot
        /\ \A x \in 1 .. l : F[x] = players[x]
    BY <1>1, <2>1
  <2> HIDE DEF F, l
  <2>3. (l + 1) \div 2 \in Nat \ {0} /\ l + 1 = 2 * ((l + 1) \div 2)
    BY <1>1, <1>3
  <2>4. \A x, y \in 1 .. l + 1 : F[x] = F[y] => x = y
    <3> SUFFICES ASSUME NEW x \in 1 .. l + 1, NEW y \in 1 .. l + 1, F[x] = F[y] PROVE x = y
      OBVIOUS
    <3>1. (x \in 1 .. l \/ x = l + 1) /\ (y \in 1 .. l \/ y = l + 1)
      BY <1>1
    <3> QED BY <1>1, <1>2, <2>2, <3>1
  <2> QED BY <1>1, <2>2, <2>3, <2>4 DEF F, l
<1>4. CASE l % 2 # 1
  <2>1. F = players
    BY <1>4 DEF Field
  <2>2. Len(F) = l
    BY <2>1
  <2> HIDE DEF F, l
  <2>3. l \div 2 \in Nat \ {0} /\ l = 2 * (l \div 2)
    BY <1>1, <1>4
  <2>4. /\ players \in Seq(S \cup {NoBot}) /\ Len(players) \in Nat
        /\ Len(players) \div 2 \in Nat \ {0} /\ Len(players) = 2 * (Len(players) \div 2)
        /\ \A x, y \in 1 .. Len(players) : players[x] = players[y] => x = y
    BY <1>1, <1>2, <2>3 DEF l
  <2>5. Field(players) = players /\ Len(players) <= Len(players)
    BY <2>1, <2>4 DEF F
  <2> QED BY <2>4, <2>5
<1> QED BY <1>3, <1>4

\* Pairing k is a table of its round: the k-th of the schedule.
Seats(F, n, h, k) == LET r == (k - 1) \div h
                         i == ((k - 1) % h) + 1
                     IN  {F[Origin(n, r, i)], F[Origin(n, r, n + 1 - i)]}
\* Pairing k of the schedule is the table of its round that k - 1 counts.
LEMMA ScheduleIs ==
    ASSUME NEW S, NEW players, Seeded(players, S), Len(players) >= 2
    PROVE  LET F == Field(players)
               n == Len(F)
               h == n \div 2
           IN  /\ DOMAIN Schedule(players) = 1 .. (n - 1) * h
               /\ \A k \in 1 .. (n - 1) * h :
                     /\ (k - 1) \div h \in 0 .. n - 2 /\ (k - 1) % h \in 0 .. h - 1
                     /\ k - 1 = h * ((k - 1) \div h) + ((k - 1) % h)
                     /\ Schedule(players)[k].round = (k - 1) \div h
                     /\ PlayersOf(Schedule(players)[k]) = Seats(F, n, h, k)
<1> DEFINE F == Field(players)
           n == Len(F)
           h == n \div 2
<1>1. F \in Seq(S \cup {NoBot}) /\ n \in Nat /\ h \in Nat \ {0} /\ n = 2 * h
  BY FieldIs
<1>2. ~(Len(players) < 2)
  BY DEF Seeded
<1>3. /\ DOMAIN Schedule(players) = 1 .. (n - 1) * h
      /\ \A k \in 1 .. (n - 1) * h :
            Schedule(players)[k]
              = PairAt(Arrangement(players)[(k - 1) \div h], (k - 1) \div h, ((k - 1) % h) + 1)
  BY <1>2 DEF Schedule
<1>4. \A r \in 0 .. n - 2 : Arrangement(players)[r] = Arranged(F, n, r)
  BY <1>1, ArrangementIs
<1> HIDE DEF F, n, h
<1>5. ASSUME NEW k \in 1 .. (n - 1) * h
      PROVE  /\ (k - 1) \div h \in 0 .. n - 2 /\ (k - 1) % h \in 0 .. h - 1
             /\ k - 1 = h * ((k - 1) \div h) + ((k - 1) % h)
             /\ Schedule(players)[k].round = (k - 1) \div h
             /\ PlayersOf(Schedule(players)[k]) = Seats(F, n, h, k)
  <2> DEFINE r == (k - 1) \div h
             i == ((k - 1) % h) + 1
             a == Arranged(F, n, r)
  <2>1. (n - 1) * h \in Nat /\ k - 1 \in Nat /\ k - 1 < (n - 1) * h
    BY <1>1
  <2>2. r \in Nat /\ (k - 1) % h \in 0 .. h - 1 /\ k - 1 = h * r + ((k - 1) % h)
    BY <1>1, <2>1, DivMod
  <2>3. r <= n - 2
    <3>1. SUFFICES ASSUME r > n - 2 PROVE FALSE
      BY <1>1, <2>2
    <3>2. h * (n - 1) <= h * r
      BY <1>1, <2>2, <3>1
    <3>3. h * r \in Nat /\ h * (n - 1) = (n - 1) * h
      BY <1>1, <2>2
    <3> QED BY <2>1, <2>2, <3>2, <3>3
  <2>4. r \in 0 .. n - 2 /\ i \in 1 .. h /\ i \in 1 .. n /\ n + 1 - i \in 1 .. n
    BY <1>1, <2>2, <2>3
  <2>5. Schedule(players)[k] = PairAt(a, r, i)
    BY <1>3, <1>4, <2>4
  <2> HIDE DEF r, i
  <2>6. Len(a) = n /\ a[i] = F[Origin(n, r, i)] /\ a[n + 1 - i] = F[Origin(n, r, n + 1 - i)]
    <3>1. \A j \in 1 .. n : a[j] = F[Origin(n, r, j)]
      BY DEF Arranged
    <3>2. a \in Seq(S \cup {NoBot}) /\ Len(a) = n
      <4>1. ASSUME NEW j \in 1 .. n PROVE F[Origin(n, r, j)] \in S \cup {NoBot}
        <5>1. Origin(n, r, j) \in 1 .. n
          BY <1>1, <2>4, OriginIsPlace
        <5> QED BY <1>1, <5>1 DEF n
      <4> QED BY <1>1, <4>1 DEF Arranged
    <3> QED BY <2>4, <3>1, <3>2
  <2> HIDE DEF a
  <2>7. PairAt(a, r, i).round = r /\ PlayersOf(PairAt(a, r, i)) = {a[i], a[n + 1 - i]}
    BY <2>6 DEF PairAt, PlayersOf
  <2>8. Seats(F, n, h, k) = {F[Origin(n, r, i)], F[Origin(n, r, n + 1 - i)]}
    BY DEF Seats, r, i
  <2> QED BY <2>2, <2>4, <2>5, <2>6, <2>7, <2>8 DEF r, i
<1> QED BY <1>3, <1>5 DEF F, n, h

\* Everyone in the order of the seeds.
Everyone(players) == {players[x] : x \in DOMAIN players}

\* The pairing of a round and a table.
LEMMA PairingAt ==
    ASSUME NEW h \in Nat \ {0}, NEW n, n = 2 * h, NEW r \in 0 .. n - 2, NEW i \in 1 .. h
    PROVE  /\ h * r + i \in 1 .. (n - 1) * h
           /\ ((h * r + i) - 1) \div h = r /\ (((h * r + i) - 1) % h) + 1 = i
<1>1. h * r \in Nat /\ h * r <= h * (n - 2) /\ h * (n - 2) + h = (n - 1) * h
  OBVIOUS
<1>2. h * r + i \in 1 .. (n - 1) * h
  BY <1>1
<1>3. i - 1 \in 0 .. h - 1 /\ r \in Nat
  OBVIOUS
<1>4. (h * r + (i - 1)) \div h = r /\ (h * r + (i - 1)) % h = i - 1
  BY <1>3, DivModUnique
<1>5. (h * r + i) - 1 = h * r + (i - 1)
  BY <1>1
<1>6. (i - 1) + 1 = i
  OBVIOUS
<1> QED BY <1>2, <1>4, <1>5, <1>6

\* k is the pairing of the table i in the round r, of n players at h tables.
IsPairing(k, h, n, r, i) ==
    /\ k = h * r + i /\ k \in 1 .. (n - 1) * h
    /\ (k - 1) \div h = r /\ ((k - 1) % h) + 1 = i

\* There is one for every round and table.
LEMMA PairingExists ==
    ASSUME NEW h \in Nat \ {0}, NEW n, n = 2 * h, NEW r \in 0 .. n - 2, NEW i \in 1 .. h
    PROVE  \E k : IsPairing(k, h, n, r, i)
<1>1. IsPairing(h * r + i, h, n, r, i)
  BY PairingAt DEF IsPairing
<1> QED BY <1>1

\* The round and the table of a pairing.
LEMMA PairingOf ==
    ASSUME NEW h \in Nat \ {0}, NEW k \in Int, NEW r \in Nat, NEW d \in 0 .. h - 1,
           k - 1 = h * r + d
    PROVE  d + 1 \in 1 .. h /\ k = h * r + (d + 1)
<1>1. h * r \in Nat
  OBVIOUS
<1> QED BY <1>1

\* A player is at a table where its place is.
LEMMA AtTable ==
    ASSUME NEW F, NEW n, \A x, y \in 1 .. n : F[x] = F[y] => x = y,
           NEW u \in 1 .. n, NEW v \in 1 .. n, NEW x \in 1 .. n
    PROVE  F[x] \in {F[u], F[v]} <=> x \in {u, v}
OBVIOUS

\* Every two players meet in one pairing.
LEMMA ScheduleMeetsOnce ==
    ASSUME NEW S, NEW players, Seeded(players, S), Len(players) >= 2
    PROVE  MeetOnce(Schedule(players), Everyone(players))
<1> DEFINE F == Field(players)
           n == Len(F)
           h == n \div 2
           s == Schedule(players)
<1>1. /\ F \in Seq(S \cup {NoBot}) /\ n \in Nat /\ h \in Nat \ {0} /\ n = 2 * h
      /\ Len(players) <= n /\ \A x \in DOMAIN players : F[x] = players[x]
      /\ \A x, y \in 1 .. n : F[x] = F[y] => x = y
  BY FieldIs
<1>2. /\ DOMAIN s = 1 .. (n - 1) * h
      /\ \A k \in 1 .. (n - 1) * h :
            /\ (k - 1) \div h \in 0 .. n - 2 /\ (k - 1) % h \in 0 .. h - 1
            /\ k - 1 = h * ((k - 1) \div h) + ((k - 1) % h)
            /\ PlayersOf(s[k]) = Seats(F, n, h, k)
  BY ScheduleIs
<1>3. DOMAIN players = 1 .. Len(players) /\ Len(players) \in Nat
  BY DEF Seeded
<1> HIDE DEF F, n, h, s
<1>4. n \in Nat /\ h \in Nat \ {0} /\ n = 2 * h
  BY <1>1
<1>5. \A x, y \in 1 .. n : F[x] = F[y] => x = y
  BY <1>1
<1>6. ASSUME NEW q \in 0 .. n - 2, NEW j \in 1 .. h
      PROVE  Origin(n, q, j) \in 1 .. n /\ Origin(n, q, n + 1 - j) \in 1 .. n
  <2>1. j \in 1 .. n /\ n + 1 - j \in 1 .. n
    BY <1>4
  <2> QED BY <1>4, <2>1, OriginIsPlace
<1>7. ASSUME NEW a \in Everyone(players), NEW b \in Everyone(players), a # b
      PROVE  Cardinality({k \in DOMAIN s : PlayersOf(s[k]) = {a, b}}) = 1
  <2>1. PICK x \in 1 .. n, y \in 1 .. n : F[x] = a /\ F[y] = b /\ x # y
    <3>1. PICK x \in DOMAIN players, y \in DOMAIN players : players[x] = a /\ players[y] = b
      BY DEF Everyone
    <3>2. x \in 1 .. n /\ y \in 1 .. n /\ F[x] = a /\ F[y] = b /\ x # y
      BY <1>1, <1>3, <1>7, <3>1
    <3> QED BY <3>2
  <2>2. x # y
    BY <2>1
  <2>3. PICK r \in 0 .. n - 2, i \in 1 .. h : MeetAt(n, r, i, x, y)
    BY <1>4, <2>2, TwoMeet
  <2>0. PICK k : IsPairing(k, h, n, r, i)
    BY <1>4, PairingExists
  <2>4. k \in 1 .. (n - 1) * h /\ (k - 1) \div h = r /\ ((k - 1) % h) + 1 = i
    BY <2>0 DEF IsPairing
  <2>5. k = h * r + i
    BY <2>0 DEF IsPairing
  <2>6. ASSUME NEW q \in 0 .. n - 2, NEW j \in 1 .. h
        PROVE  {F[Origin(n, q, j)], F[Origin(n, q, n + 1 - j)]} = {a, b}
                 <=> Table(n, q, j) = {x, y}
    <3> DEFINE u == Origin(n, q, j)
               v == Origin(n, q, n + 1 - j)
    <3>1. u \in 1 .. n /\ v \in 1 .. n
      BY <1>6
    <3>2. Table(n, q, j) = {u, v}
      BY DEF Table
    <3> HIDE DEF u, v
    <3>3. {F[u], F[v]} = {F[x], F[y]} <=> {u, v} = {x, y}
      BY <1>5, <3>1
    <3> QED BY <2>1, <3>2, <3>3 DEF u, v
  <2>7. PlayersOf(s[k]) = {a, b}
    BY <1>2, <2>3, <2>4, <2>6 DEF Seats, MeetAt
  <2>8. ASSUME NEW m \in DOMAIN s, PlayersOf(s[m]) = {a, b} PROVE m = k
    <3> DEFINE q == (m - 1) \div h
               d == (m - 1) % h
               j == d + 1
    <3>1. q \in 0 .. n - 2 /\ d \in 0 .. h - 1 /\ m - 1 = h * q + d
      BY <1>2, <2>8
    <3>2. {F[Origin(n, q, j)], F[Origin(n, q, n + 1 - j)]} = {a, b}
      BY <1>2, <2>8 DEF Seats
    <3> HIDE DEF q, d
    <3>3. j \in 1 .. h /\ m = h * q + j
      <4>1. q \in Nat /\ m \in Int
        BY <1>2, <1>4, <3>1
      <4> QED BY <1>4, <3>1, <4>1, PairingOf
    <3> HIDE DEF j
    <3>4. Table(n, q, j) = Table(n, r, i)
      BY <2>3, <2>6, <3>1, <3>2, <3>3 DEF MeetAt
    <3>5. q = r /\ j = i
      BY <1>4, <3>1, <3>3, <3>4, TwoMeetOnce
    <3> QED BY <2>5, <3>3, <3>5
  <2>9. {m \in DOMAIN s : PlayersOf(s[m]) = {a, b}} = {k}
    BY <1>2, <2>4, <2>7, <2>8
  <2>10. Cardinality({k}) = 1
    BY FS_Singleton, Zenon
  <2> QED BY <2>9, <2>10, Zenon
<1> QED BY <1>7 DEF MeetOnce, s

\* In each round a player has one pairing.
LEMMA ScheduleOncePerRound ==
    ASSUME NEW S, NEW players, Seeded(players, S), Len(players) >= 2
    PROVE  OncePerRound(Schedule(players), Everyone(players))
<1> DEFINE F == Field(players)
           n == Len(F)
           h == n \div 2
           s == Schedule(players)
<1>1. /\ F \in Seq(S \cup {NoBot}) /\ n \in Nat /\ h \in Nat \ {0} /\ n = 2 * h
      /\ Len(players) <= n /\ \A x \in DOMAIN players : F[x] = players[x]
      /\ \A x, y \in 1 .. n : F[x] = F[y] => x = y
  BY FieldIs
<1>2. /\ DOMAIN s = 1 .. (n - 1) * h
      /\ \A k \in 1 .. (n - 1) * h :
            /\ (k - 1) \div h \in 0 .. n - 2 /\ (k - 1) % h \in 0 .. h - 1
            /\ k - 1 = h * ((k - 1) \div h) + ((k - 1) % h)
            /\ s[k].round = (k - 1) \div h
            /\ PlayersOf(s[k]) = Seats(F, n, h, k)
  BY ScheduleIs
<1>3. DOMAIN players = 1 .. Len(players) /\ Len(players) \in Nat
  BY DEF Seeded
<1> HIDE DEF F, n, h, s
<1>4. n \in Nat /\ h \in Nat \ {0} /\ n = 2 * h
  BY <1>1
<1>5. \A x, y \in 1 .. n : F[x] = F[y] => x = y
  BY <1>1
<1>6. ASSUME NEW q \in 0 .. n - 2, NEW j \in 1 .. h
      PROVE  Origin(n, q, j) \in 1 .. n /\ Origin(n, q, n + 1 - j) \in 1 .. n
  <2>1. j \in 1 .. n /\ n + 1 - j \in 1 .. n
    BY <1>4
  <2> QED BY <1>4, <2>1, OriginIsPlace
<1>7. ASSUME NEW r \in {s[k].round : k \in DOMAIN s}, NEW a \in Everyone(players)
      PROVE  Cardinality({k \in DOMAIN s : s[k].round = r /\ a \in PlayersOf(s[k])}) = 1
  <2>1. r \in 0 .. n - 2
    BY <1>2
  <2>2. PICK x \in 1 .. n : F[x] = a
    <3>1. PICK x \in DOMAIN players : players[x] = a
      BY DEF Everyone
    <3>2. x \in 1 .. n /\ F[x] = a
      BY <1>1, <1>3, <3>1
    <3> QED BY <3>2
  <2>3. PICK i \in 1 .. h : x \in Table(n, r, i) /\ \A j \in 1 .. h : x \in Table(n, r, j) => j = i
    BY <1>4, <2>1, OneTable
  <2>0. PICK k : IsPairing(k, h, n, r, i)
    BY <1>4, <2>1, PairingExists
  <2>4. k \in 1 .. (n - 1) * h /\ (k - 1) \div h = r /\ ((k - 1) % h) + 1 = i
    BY <2>0 DEF IsPairing
  <2>5. k = h * r + i
    BY <2>0 DEF IsPairing
  <2>6. ASSUME NEW j \in 1 .. h
        PROVE  a \in {F[Origin(n, r, j)], F[Origin(n, r, n + 1 - j)]} <=> x \in Table(n, r, j)
    <3> DEFINE u == Origin(n, r, j)
               v == Origin(n, r, n + 1 - j)
    <3>1. u \in 1 .. n /\ v \in 1 .. n
      BY <1>6, <2>1
    <3>2. Table(n, r, j) = {u, v}
      BY DEF Table
    <3> HIDE DEF u, v
    <3>3. F[x] \in {F[u], F[v]} <=> x \in {u, v}
      BY <1>5, <3>1, AtTable
    <3> QED BY <2>2, <3>2, <3>3 DEF u, v
  <2>7. s[k].round = r /\ a \in PlayersOf(s[k])
    BY <1>2, <2>3, <2>4, <2>6 DEF Seats
  <2>8. ASSUME NEW m \in DOMAIN s, s[m].round = r, a \in PlayersOf(s[m]) PROVE m = k
    <3> DEFINE d == (m - 1) % h
               j == d + 1
    <3>1. (m - 1) \div h = r /\ d \in 0 .. h - 1 /\ m - 1 = h * r + d
      BY <1>2, <2>8
    <3>2. a \in {F[Origin(n, r, j)], F[Origin(n, r, n + 1 - j)]}
      BY <1>2, <2>8, <3>1 DEF Seats
    <3> HIDE DEF d
    <3>3. j \in 1 .. h /\ m = h * r + j
      <4>1. r \in Nat /\ m \in Int
        BY <1>2, <1>4, <2>1
      <4> QED BY <1>4, <3>1, <4>1, PairingOf
    <3> HIDE DEF j
    <3>4. j = i
      BY <2>3, <2>6, <3>2, <3>3
    <3> QED BY <2>5, <3>3, <3>4
  <2>9. {m \in DOMAIN s : s[m].round = r /\ a \in PlayersOf(s[m])} = {k}
    BY <1>2, <2>4, <2>7, <2>8
  <2>10. Cardinality({k}) = 1
    BY FS_Singleton, Zenon
  <2> QED BY <2>9, <2>10, Zenon
<1> QED BY <1>7 DEF OncePerRound, s

\* The circle method is a round robin (schedule.py, "Everyone plays everyone exactly
\* once"): for any number of players, odd or even, every two meet in one pairing,
\* and each has one pairing a round.
THEOREM CircleMethod ==
    ASSUME NEW S, NEW players, Seeded(players, S)
    PROVE  /\ MeetOnce(Schedule(players), Everyone(players))
           /\ OncePerRound(Schedule(players), Everyone(players))
<1>1. CASE Len(players) >= 2
  BY <1>1, ScheduleMeetsOnce, ScheduleOncePerRound
<1>2. CASE Len(players) < 2
  <2>1. DOMAIN players = 1 .. Len(players) /\ Len(players) \in Nat
    BY DEF Seeded
  <2>2. \A a, b \in Everyone(players) : a = b
    BY <1>2, <2>1 DEF Everyone
  <2>3. DOMAIN Schedule(players) = {}
    BY <1>2 DEF Schedule
  <2> QED BY <2>2, <2>3 DEF MeetOnce, OncePerRound
<1>3. Len(players) \in Nat
  BY DEF Seeded
<1> QED BY <1>1, <1>2, <1>3

-----------------------------------------------------------------------------
(* The rows that are played are the schedule of those who entered. *)

\* Nobody is entered twice.
AllSeeded == \A s, u \in DOMAIN entries : entries[s] = entries[u] => s = u

\* A pairing of the schedule, but for its result.
Scheduled(p, q) == p.round = q.round /\ p.white = q.white /\ p.black = q.black
RowsAreSchedule ==
    status # "pending" =>
        /\ DOMAIN rows = DOMAIN Schedule(entries)
        /\ \A k \in DOMAIN rows : Scheduled(rows[k], Schedule(entries)[k])

WInv == AllSeeded /\ RowsAreSchedule

\* A bot that is not an entrant takes a seed of its own.
LEMMA EnrollWInv ==
    ASSUME IInv, WInv, NEW b \in Bot, Enroll(b)
    PROVE  WInv'
<1>1. entries \in Seq(Bot) /\ entries' = Append(entries, b) /\ status' = "pending"
  BY DEF IInv, RunsTyped, Enroll
<1>2. \A s \in DOMAIN entries : entries[s] # b
  BY DEF Enroll, Entrants
<1>3. /\ Len(entries) \in Nat /\ DOMAIN entries = 1 .. Len(entries)
      /\ DOMAIN entries' = 1 .. Len(entries) + 1 /\ entries'[Len(entries) + 1] = b
      /\ \A s \in DOMAIN entries : entries'[s] = entries[s]
  BY <1>1
<1>4. ASSUME NEW s \in DOMAIN entries', NEW u \in DOMAIN entries', entries'[s] = entries'[u]
      PROVE  s = u
  <2>1. /\ s \in DOMAIN entries \/ s = Len(entries) + 1
        /\ u \in DOMAIN entries \/ u = Len(entries) + 1
    BY <1>3
  <2> QED BY <1>2, <1>3, <1>4, <2>1 DEF WInv, AllSeeded
<1> QED BY <1>1, <1>4 DEF WInv, AllSeeded, RowsAreSchedule

\* The event begins with the schedule of its entrants.
LEMMA BeginWInv ==
    ASSUME WInv, NEW t \in DOMAIN runs, Begin(t)
    PROVE  WInv'
<1>1. CASE status # "pending"
  BY <1>1 DEF Begin, WInv, AllSeeded, RowsAreSchedule
<1>2. CASE status = "pending"
  <2>1. /\ entries' = entries /\ DOMAIN rows' = DOMAIN Schedule(entries)
        /\ \A k \in DOMAIN rows' : Scheduled(rows'[k], Schedule(entries)[k])
    BY <1>2 DEF Begin, Scheduled
  <2> QED BY <2>1 DEF WInv, AllSeeded, RowsAreSchedule
<1> QED BY <1>1, <1>2

\* A result leaves the pairing as it is.
LEMMA RecordWInv ==
    ASSUME IInv, WInv, NEW t \in DOMAIN runs, RecordResult(t)
    PROVE  WInv'
<1> DEFINE i == runs[t].cur
<1>1. UNCHANGED <<status, entries>>
  BY DEF RecordResult
<1>2. /\ DOMAIN rows' = DOMAIN rows /\ rows'[i].round = rows[i].round
      /\ rows'[i].white = rows[i].white /\ rows'[i].black = rows[i].black
      /\ \A j \in DOMAIN rows : j # i => rows'[j] = rows[j]
  BY RecordedRow DEF IInv
<1>3. \A k \in DOMAIN rows : Scheduled(rows'[k], rows[k])
  BY <1>2 DEF Scheduled
<1> QED BY <1>1, <1>2, <1>3 DEF WInv, AllSeeded, RowsAreSchedule, Scheduled

\* WInv holds along with IInv.
LEMMA NextWInv == IInv /\ WInv /\ [Next]_vars => WInv'
<1> SUFFICES ASSUME IInv, WInv, [Next]_vars PROVE WInv'
  OBVIOUS
<1>1. ASSUME UNCHANGED <<entries, rows, status>> PROVE WInv'
  BY <1>1 DEF WInv, AllSeeded, RowsAreSchedule
<1>2. ASSUME NEW b \in Bot, Join(b) \/ Leave(b) PROVE WInv'
  BY <1>1, <1>2 DEF Join, Leave, eventVars
<1>3. CASE StartTournament \/ Restart \/ ReadStandings \/ UNCHANGED vars
  BY <1>1, <1>3 DEF StartTournament, Restart, ReadStandings, vars, eventVars
<1>4. ASSUME NEW t \in DOMAIN runs,
             ReadPending(t) \/ PlayPairing(t) \/ Launched(t) \/ GameEnds(t) \/ Fails(t)
      PROVE  WInv'
  BY <1>1, <1>4 DEF ReadPending, PlayPairing, Launched, GameEnds, Fails, eventVars
<1>5. ASSUME NEW t \in DOMAIN runs, Finish(t) PROVE WInv'
  <2>1. UNCHANGED <<entries, rows>> /\ (status = "pending" => status' = "pending")
    BY <1>5 DEF Finish
  <2> QED BY <2>1 DEF WInv, AllSeeded, RowsAreSchedule
<1> QED BY <1>2, <1>3, <1>4, <1>5, EnrollWInv, BeginWInv, RecordWInv DEF Next, Runs, Step

\* What is true of the pairings of a schedule is true of the rows that have them.
LEMMA SamePairings ==
    ASSUME NEW p, NEW q, NEW E, DOMAIN p = DOMAIN q,
           \A k \in DOMAIN p : Scheduled(p[k], q[k]), MeetOnce(q, E), OncePerRound(q, E)
    PROVE  MeetOnce(p, E) /\ OncePerRound(p, E)
<1>1. \A k \in DOMAIN p : p[k].round = q[k].round /\ PlayersOf(p[k]) = PlayersOf(q[k])
  BY DEF Scheduled, PlayersOf
<1>2. ASSUME NEW a \in E, NEW b \in E, a # b
      PROVE  Cardinality({k \in DOMAIN p : PlayersOf(p[k]) = {a, b}}) = 1
  <2>1. {k \in DOMAIN p : PlayersOf(p[k]) = {a, b}} = {k \in DOMAIN q : PlayersOf(q[k]) = {a, b}}
    BY <1>1
  <2> QED BY <1>2, <2>1 DEF MeetOnce
<1>3. ASSUME NEW r \in {p[k].round : k \in DOMAIN p}, NEW a \in E
      PROVE  Cardinality({k \in DOMAIN p : p[k].round = r /\ a \in PlayersOf(p[k])}) = 1
  <2>1. {k \in DOMAIN p : p[k].round = r /\ a \in PlayersOf(p[k])}
          = {k \in DOMAIN q : q[k].round = r /\ a \in PlayersOf(q[k])}
    BY <1>1
  <2>2. r \in {q[k].round : k \in DOMAIN q}
    BY <1>1
  <2> QED BY <2>1, <2>2 DEF OncePerRound
<1> QED BY <1>2, <1>3 DEF MeetOnce, OncePerRound

\* Whatever order bots enrol in and however starts race the last entry, the rows of
\* an event that has begun are a round robin of its entrants: for any number of them.
THEOREM EveryoneMeets == Spec => []EveryoneMeetsOnce
<1>1. Init => WInv
  BY DEF Init, WInv, AllSeeded, RowsAreSchedule
<1>2. IInv /\ WInv => EveryoneMeetsOnce
  <2> SUFFICES ASSUME IInv, WInv, status # "pending"
               PROVE  MeetOnce(rows, Entrants) /\ OncePerRound(rows, Entrants)
    BY DEF EveryoneMeetsOnce
  <2>1. Seeded(entries, Bot)
    BY TournamentAssumption DEF IInv, RunsTyped, WInv, AllSeeded, Seeded
  <2>2. Entrants = Everyone(entries)
    BY DEF Entrants, Everyone
  <2>3. MeetOnce(Schedule(entries), Entrants) /\ OncePerRound(Schedule(entries), Entrants)
    BY <2>1, <2>2, CircleMethod
  <2>4. /\ DOMAIN rows = DOMAIN Schedule(entries)
        /\ \A k \in DOMAIN rows : Scheduled(rows[k], Schedule(entries)[k])
    BY DEF WInv, RowsAreSchedule
  <2> QED BY <2>3, <2>4, SamePairings
<1> QED BY <1>1, <1>2, NextWInv, InductiveInvariant, PTL DEF Spec
=============================================================================
