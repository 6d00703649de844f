-------------------------- MODULE MatchmakerProofs --------------------------
(***************************************************************************)
(* Proofs about Pairing and Matchmaker, for any bots, ratings, owners and  *)
(* windows, and any number of seeks, games and sessions.                   *)
(***************************************************************************)
EXTENDS Matchmaker, SublistProofs, SequenceTheorems, FiniteSetTheorems

-----------------------------------------------------------------------------
(* The choice of an opponent. *)

\* A gap of ratings is a natural number: the pool can be searched for the least.
LEMMA GapIsNat ==
    ASSUME NEW t \in Ticket, NEW c \in Ticket PROVE Gap(t, c) \in Nat
<1>1. t.bot \in Bot /\ c.bot \in Bot
  BY DEF Ticket
<1>2. Rating[t.bot] \in Nat /\ Rating[c.bot] \in Nat
  BY <1>1, BotAssumption
<1> QED BY <1>2 DEF Gap, Abs

\* The scan finds a candidate that it prefers to every other one.
LEMMA ScanFindsTheBest ==
    ASSUME NEW p \in Seq(Ticket), NEW t \in Ticket, NEW among, among \subseteq DOMAIN p,
           among # {}
    PROVE  /\ Scan(t, p, among) \in among
           /\ \A j \in among : Preferred(t, p, Scan(t, p, among), j)
<1> DEFINE gap(i) == Gap(t, p[i])
<1>1. \A i \in among : i \in Nat /\ p[i] \in Ticket /\ gap(i) \in Nat /\ p[i].at \in Nat
  <2> TAKE i \in among
  <2>1. i \in Nat /\ p[i] \in Ticket
    OBVIOUS
  <2> QED BY <2>1, GapIsNat DEF Ticket
<1> HIDE DEF gap
<1>2. PICK x \in among : \A j \in among : gap(x) <= gap(j)
  <2> DEFINE T == {gap(i) : i \in among}
  <2>1. T \subseteq Nat /\ T # {}
    BY <1>1
  <2> HIDE DEF T
  <2>2. PICK g \in T : \A h \in T : g <= h
    BY <2>1, LeastNat
  <2> USE DEF T
  <2> QED BY <2>2
<1> DEFINE close == {i \in among : gap(i) = gap(x)}
<1>3. PICK y \in close : \A j \in close : p[y].at <= p[j].at
  <2> DEFINE T == {p[i].at : i \in close}
  <2>1. T \subseteq Nat /\ T # {}
    BY <1>1
  <2> HIDE DEF T
  <2>2. PICK g \in T : \A h \in T : g <= h
    BY <2>1, LeastNat
  <2> USE DEF T
  <2> QED BY <2>2
<1> DEFINE old == {i \in close : p[i].at = p[y].at}
<1>4. PICK z \in old : \A j \in old : z <= j
  <2>1. old \subseteq Nat /\ old # {}
    BY <1>1
  <2> HIDE DEF old
  <2> QED BY <2>1, LeastNat
<1>5. \A j \in among : Preferred(t, p, z, j)
  <2> TAKE j \in among
  <2>1. CASE j \notin close
    <3>1. gap(z) < gap(j)
      BY <1>1, <1>2, <2>1
    <3> QED BY <3>1 DEF Preferred, gap
  <2>2. CASE j \in close /\ j \notin old
    <3>1. gap(z) = gap(j) /\ p[z].at < p[j].at
      BY <1>1, <1>3, <2>2
    <3> QED BY <3>1 DEF Preferred, gap
  <2>3. CASE j \in old
    <3>1. gap(z) = gap(j) /\ p[z].at = p[j].at /\ z <= j
      BY <1>4, <2>3
    <3> QED BY <3>1 DEF Preferred, gap
  <2> QED BY <2>1, <2>2, <2>3
<1>6. z \in among
  OBVIOUS
<1> QED BY <1>5, <1>6 DEF Scan

\* best_opponent (pool.py) finds an eligible opponent whenever there is one, and
\* the best one: of those that are not excluded while there are any and the
\* ticket's window is still capped, of all of them otherwise, none is nearer in
\* rating, and none as near is older, or as old and earlier in the pool.
THEOREM BestOpponentFinds ==
    ASSUME NEW p \in Seq(Ticket), NEW t \in Ticket, NEW n \in Nat, NEW excluded
    PROVE  LET best == BestOpponent(t, p, n, excluded)
               all  == {i \in DOMAIN p : Eligible(t, p[i], n)}
               fresh == {i \in all : p[i].bot \notin excluded}
               from == IF Uncapped(t, n) \/ fresh = {} THEN all ELSE fresh
           IN  /\ best = 0 <=> all = {}
               /\ best # 0 =>
                    /\ best \in from
                    /\ \A i \in from :
                         \/ Gap(t, p[best]) < Gap(t, p[i])
                         \/ /\ Gap(t, p[best]) = Gap(t, p[i])
                            /\ \/ p[best].at < p[i].at
                               \/ p[best].at = p[i].at /\ best <= i
<1> DEFINE best == BestOpponent(t, p, n, excluded)
           all  == {i \in DOMAIN p : Eligible(t, p[i], n)}
           fresh == {i \in all : p[i].bot \notin excluded}
           from == IF Uncapped(t, n) \/ fresh = {} THEN all ELSE fresh
<1>1. /\ fresh \subseteq all /\ all \subseteq DOMAIN p /\ 0 \notin all
      /\ Candidates(t, p, n) = all /\ Fresh(t, p, n, excluded) = fresh
  BY DEF Candidates, Fresh
<1>2. ASSUME NEW among, among \subseteq all
      PROVE  /\ Scan(t, p, among) = 0 <=> among = {}
             /\ among # {} => /\ Scan(t, p, among) \in among
                              /\ \A i \in among : Preferred(t, p, Scan(t, p, among), i)
  <2> HIDE DEF all
  <2>1. CASE among = {}
    BY <2>1 DEF Scan
  <2>2. CASE among # {}
    BY <1>1, <1>2, <2>2, ScanFindsTheBest
  <2> QED BY <2>1, <2>2
<1>3. from \subseteq all /\ (from = {} <=> all = {})
  OBVIOUS
<1>4. best = Scan(t, p, from)
  <2> HIDE DEF all, fresh
  <2>1. Scan(t, p, fresh) = 0 <=> fresh = {}
    BY <1>1, <1>2
  <2> QED BY <1>1, <2>1 DEF BestOpponent
<1> HIDE DEF from, best
<1>5. best = 0 <=> all = {}
  BY <1>2, <1>3, <1>4
<1>6. best # 0 => best \in from /\ \A i \in from : Preferred(t, p, best, i)
  BY <1>2, <1>3, <1>4
<1> QED BY <1>5, <1>6 DEF Preferred, best, from

\* In short: it is eligible, and there is none only when nobody is.
LEMMA BestOpponentIsEligible ==
    ASSUME NEW p \in Seq(Ticket), NEW t \in Ticket, NEW n \in Nat, NEW excluded
    PROVE  /\ BestOpponent(t, p, n, excluded) # 0 =>
                /\ BestOpponent(t, p, n, excluded) \in DOMAIN p
                /\ Eligible(t, p[BestOpponent(t, p, n, excluded)], n)
           /\ BestOpponent(t, p, n, excluded) = 0 => \A i \in DOMAIN p : ~Eligible(t, p[i], n)
<1> DEFINE best == BestOpponent(t, p, n, excluded)
           all  == {i \in DOMAIN p : Eligible(t, p[i], n)}
           fresh == {i \in all : p[i].bot \notin excluded}
<1>1. best = 0 <=> all = {}
  BY BestOpponentFinds
<1>2. best # 0 => best \in all
  BY BestOpponentFinds
<1> HIDE DEF best
<1> QED BY <1>1, <1>2 DEF best

-----------------------------------------------------------------------------
(* The invariant. *)

Seats  == [bot : Bot \cup {House}, sess : Nat, seek : Nat]
States == Pending \cup Live \cup {"over", "stranded", "forgotten"}
Games  == [white : Seats, black : Seats, by : {"matcher", "challenge"}, st : States, when : Nat]

\* The states of a game that a bot may be bound to.
Bound == Live \cup {"stranded"}

Strangers(g) == \A b, o \in Players(g) \cap Bot :
                    b # o => ~(OwnerOf[b] # NoOwner /\ OwnerOf[b] = OwnerOf[o])

\* The games gs and the index act, between any two steps.
GamesGood(gs, act) ==
    /\ gs \in Seq(Games) /\ act \in [Bot -> Nat]
    /\ \A i \in DOMAIN gs : Strangers(gs[i])
    /\ \A b \in Bot : act[b] # 0 =>
          act[b] \in DOMAIN gs /\ b \in Players(gs[act[b]]) /\ gs[act[b]].st \in Bound

QueuesTyped ==
    /\ now \in Nat /\ tick \in Nat /\ seeks \in Nat
    /\ sess \in [Bot -> Nat] /\ inc \in [Bot -> Nat]
    /\ pool \in Seq(Ticket) /\ keep \in Seq(Ticket)
    /\ greet \in Seq(Ticket) /\ taken \in Seq(Ticket)
    /\ at \in Nat /\ (mpc = "expiring" => at >= 1)

IInv == QueuesTyped /\ GamesGood(games, active)

-----------------------------------------------------------------------------
(* How the games change. *)

\* The state of one game changes, and not from one that bots are bound to into
\* another.
LEMMA StateChanges ==
    ASSUME NEW gs, NEW act, GamesGood(gs, act), NEW i \in DOMAIN gs, NEW st \in States,
           gs[i].st \in Bound => st \in Bound
    PROVE  GamesGood([gs EXCEPT ![i].st = st], act)
<1> DEFINE new == [gs EXCEPT ![i].st = st]
<1>1. gs \in Seq(Games) /\ act \in [Bot -> Nat]
  BY DEF GamesGood
<1>2. /\ new \in Seq(Games) /\ DOMAIN new = DOMAIN gs
      /\ \A j \in DOMAIN gs : j # i => new[j] = gs[j]
      /\ new[i] = [gs[i] EXCEPT !.st = st]
  <2>1. gs[i] \in Games
    <3> HIDE DEF Games
    <3> QED BY <1>1
  <2>2. [gs[i] EXCEPT !.st = st] \in Games
    BY <2>1 DEF Games
  <2> HIDE DEF Games
  <2> QED BY <1>1, <2>1, <2>2
<1> HIDE DEF new
<1>3. Players(new[i]) = Players(gs[i]) /\ new[i].st = st
  BY <1>1, <1>2 DEF Games, Players
<1>4. \A j \in DOMAIN gs : Players(new[j]) = Players(gs[j])
  BY <1>2, <1>3
<1>5. \A j \in DOMAIN new : Strangers(new[j])
  BY <1>2, <1>4 DEF GamesGood, Strangers
<1>6. ASSUME NEW b \in Bot, act[b] # 0
      PROVE  act[b] \in DOMAIN new /\ b \in Players(new[act[b]]) /\ new[act[b]].st \in Bound
  <2>1. act[b] \in DOMAIN gs /\ b \in Players(gs[act[b]]) /\ gs[act[b]].st \in Bound
    BY <1>6 DEF GamesGood
  <2> QED BY <2>1, <1>2, <1>3, <1>4
<1> QED BY <1>1, <1>2, <1>5, <1>6 DEF GamesGood, new

\* A game of strangers is created.
LEMMA GameCreated ==
    ASSUME NEW gs, NEW act, GamesGood(gs, act), NEW g \in Games, Strangers(g)
    PROVE  /\ GamesGood(Append(gs, g), act)
           /\ Len(gs) + 1 \in DOMAIN Append(gs, g) /\ Append(gs, g)[Len(gs) + 1] = g
<1> DEFINE new == Append(gs, g)
<1>1. gs \in Seq(Games) /\ act \in [Bot -> Nat] /\ Len(gs) \in Nat
  BY DEF GamesGood
<1>2. /\ new \in Seq(Games) /\ DOMAIN new = 1 .. Len(gs) + 1 /\ DOMAIN gs = 1 .. Len(gs)
      /\ \A j \in DOMAIN gs : new[j] = gs[j]
      /\ new[Len(gs) + 1] = g
  <2> HIDE DEF Games
  <2> QED BY <1>1
<1> HIDE DEF new
<1>3. \A j \in DOMAIN new : j \in DOMAIN gs \/ j = Len(gs) + 1
  BY <1>1, <1>2
<1>4. \A j \in DOMAIN new : Strangers(new[j])
  BY <1>2, <1>3 DEF GamesGood
<1>5. DOMAIN gs \subseteq DOMAIN new /\ Len(gs) + 1 \in DOMAIN new
  BY <1>1, <1>2
<1>6. ASSUME NEW b \in Bot, act[b] # 0
      PROVE  act[b] \in DOMAIN new /\ b \in Players(new[act[b]]) /\ new[act[b]].st \in Bound
  <2>1. act[b] \in DOMAIN gs /\ b \in Players(gs[act[b]]) /\ gs[act[b]].st \in Bound
    BY <1>6 DEF GamesGood
  <2> QED BY <2>1, <1>2, <1>5
<1> QED BY <1>1, <1>2, <1>4, <1>5, <1>6 DEF GamesGood, new

\* A launch binds the players of a game to it.
LEMMA LaunchBinds ==
    ASSUME NEW gs, GamesGood(gs, active), NEW i \in DOMAIN gs, Launch(gs, i)
    PROVE  GamesGood(games', active')
<1>1. GamesGood(games', active)
  <2>1. "to_white" \in States /\ "to_white" \in Bound
    BY DEF States, Live, Bound
  <2> QED BY <2>1, StateChanges DEF Launch
<1>2. games' = [gs EXCEPT ![i].st = "to_white"]
      /\ active' = [b \in Bot |-> IF b \in Players(gs[i]) THEN i ELSE active[b]]
  BY DEF Launch
<1>3. i \in Nat /\ DOMAIN games' = DOMAIN gs /\ gs[i] \in Games /\ games'[i] = [gs[i] EXCEPT !.st = "to_white"]
  <2>1. gs \in Seq(Games)
    BY DEF GamesGood
  <2> QED BY <2>1, <1>2
<1>4. Players(games'[i]) = Players(gs[i]) /\ games'[i].st = "to_white"
  BY <1>3 DEF Games, Players
<1>5. active' \in [Bot -> Nat]
  BY <1>2, <1>3 DEF GamesGood
<1>6. ASSUME NEW b \in Bot, active'[b] # 0
      PROVE  /\ active'[b] \in DOMAIN games' /\ b \in Players(games'[active'[b]])
             /\ games'[active'[b]].st \in Bound
  <2>1. CASE b \in Players(gs[i])
    BY <1>2, <1>3, <1>4, <2>1 DEF Bound, Live
  <2>2. CASE b \notin Players(gs[i])
    <3>1. active'[b] = active[b]
      BY <1>2, <2>2
    <3> QED BY <1>1, <1>6, <3>1 DEF GamesGood
  <2> QED BY <2>1, <2>2
<1> QED BY <1>1, <1>5, <1>6 DEF GamesGood

\* The matcher's own games, of two seats that may meet.
LEMMA StartsGameGood ==
    ASSUME NEW gs, GamesGood(gs, active), now \in Nat, NEW w \in Seats, NEW b \in Seats,
           {w.bot, b.bot} \subseteq Bot => ~(OwnerOf[w.bot] # NoOwner /\ OwnerOf[w.bot] = OwnerOf[b.bot]),
           NEW await, NEW ts, NEW others, StartsGame(await, gs, ts, w, b, others)
    PROVE  GamesGood(games', active')
<1> DEFINE g == Game(w, b, "matcher")
<1>1. g \in Games
  BY DEF Game, Games, States, Pending
<1>2. Strangers(g)
  BY DEF Game, Strangers, Players
<1>3. Launch(Append(gs, g), Len(gs) + 1)
  BY DEF StartsGame
<1> HIDE DEF g
<1>4. GamesGood(Append(gs, g), active) /\ Len(gs) + 1 \in DOMAIN Append(gs, g)
  BY <1>1, <1>2, GameCreated
<1> QED BY <1>3, <1>4, LaunchBinds

-----------------------------------------------------------------------------
(* The matcher's tick. *)

\* What is left of a queue is a queue of the same things.
LEMMA KeepIsSeq ==
    ASSUME NEW S, NEW s \in Seq(S), NEW places PROVE Keep(s, places) \in Seq(S)
BY KeepPlaces

\* So is its end.
LEMMA RestIsSeq ==
    ASSUME NEW S, NEW s \in Seq(S), NEW i \in Nat \ {0} PROVE SubSeq(s, i, Len(s)) \in Seq(S)
OBVIOUS

\* The oldest of some places is one of them.
LEMMA OldestIsIn ==
    ASSUME NEW s, s \subseteq Nat, s # {} PROVE Oldest(s) \in s
<1>1. \E i \in s : \A j \in s : i <= j
  BY LeastNat
<1> QED BY <1>1 DEF Oldest

\* Nobody in the queue p can be paired at time n.
NobodyPairs(p, n) == \A i, j \in DOMAIN p : ~Eligible(p[i], p[j], n)

\* What a step of the matcher leaves behind.
TickGoesOn ==
    /\ GamesGood(games', active')
    /\ keep' \in Seq(Ticket) /\ greet' \in Seq(Ticket) /\ taken' \in Seq(Ticket)
    /\ at' \in Nat /\ (mpc' = "expiring" => at' >= 1)

\* Tickets, and the greeter, make seats.
LEMMA SeatsOfTickets ==
    ASSUME NEW t \in Ticket
    PROVE  SeatOf(t) \in Seats /\ SeatOf(t).bot = t.bot /\ HouseSeat \in Seats /\ HouseSeat.bot = House
BY DEF SeatOf, Seat, Seats, HouseSeat, Ticket

\* The greeter's loop goes on with its copy of the pool, or the tick is over.
LEMMA GreetingGood ==
    ASSUME now \in Nat, NEW gs, GamesGood(gs, active), NEW q \in Seq(Ticket), NEW n,
           Greeting(q, gs, n)
    PROVE  TickGoesOn /\ mpc' \in {"idle", "greeting"}
<1> DEFINE due == {i \in DOMAIN q : Greeted /\ n - q[i].at >= GreeterWait}
<1>1. CASE due = {}
  <2>1. TickEnds(gs)
    BY <1>1 DEF Greeting
  <2>2. games' = gs /\ active' = active /\ mpc' = "idle" /\ at' = 0
        /\ keep' = <<>> /\ greet' = <<>> /\ taken' = <<>>
    BY <2>1 DEF TickEnds
  <2>3. GamesGood(games', active')
    BY <2>2
  <2> QED BY <2>2, <2>3 DEF TickGoesOn
<1>2. CASE due # {}
  <2> DEFINE i == Oldest(due)
             others == SubSeq(q, i + 1, Len(q))
  <2>1. i \in DOMAIN q
    <3>1. due \subseteq Nat
      OBVIOUS
    <3> HIDE DEF due
    <3>2. i \in due
      BY <1>2, <3>1, OldestIsIn
    <3> QED BY <3>2 DEF due
  <2>2. StartsGame("greeting", gs, <<q[i]>>, SeatOf(q[i]), HouseSeat, others)
    BY <1>2 DEF Greeting
  <2> HIDE DEF due, i
  <2>3. q[i] \in Ticket /\ i + 1 \in Nat \ {0}
    BY <2>1
  <2>4. others \in Seq(Ticket) /\ <<q[i]>> \in Seq(Ticket)
    BY <2>3, RestIsSeq
  <2> HIDE DEF others
  <2>5. GamesGood(games', active')
    BY <2>2, <2>3, SeatsOfTickets, StartsGameGood, MatcherAssumption
  <2>6. keep' = <<>> /\ greet' = others /\ taken' = <<q[i]>> /\ at' = 0 /\ mpc' = "greeting"
    BY <2>2 DEF StartsGame
  <2> QED BY <2>4, <2>5, <2>6 DEF TickGoesOn
<1> QED BY <1>1, <1>2

\* A pass over the queue p pairs two tickets that may meet, or there are none.
LEMMA PairingGood ==
    ASSUME now \in Nat, NEW gs, GamesGood(gs, active), NEW p \in Seq(Ticket), NEW n \in Nat,
           Pairing(p, gs, n)
    PROVE  TickGoesOn /\ (mpc' = "pairing" \/ (mpc' \in {"idle", "greeting"} /\ NobodyPairs(p, n)))
<1>1. ASSUME NEW i \in DOMAIN p
      PROVE  /\ Opponent(p, i, n) # 0 => Opponent(p, i, n) \in DOMAIN p
                                         /\ Eligible(p[i], p[Opponent(p, i, n)], n)
             /\ Opponent(p, i, n) = 0 => \A j \in DOMAIN p : ~Eligible(p[i], p[j], n)
  <2>1. p[i] \in Ticket
    OBVIOUS
  <2> QED BY <2>1, BestOpponentIsEligible DEF Opponent
<1>2. CASE Pairable(p, n) = {}
  <2>1. NobodyPairs(p, n)
    BY <1>1, <1>2 DEF Pairable, NobodyPairs
  <2>2. Greeting(p, gs, n)
    BY <1>2 DEF Pairing
  <2> QED BY <2>1, <2>2, GreetingGood
<1>3. CASE Pairable(p, n) # {}
  <2> DEFINE i == Oldest(Pairable(p, n))
             j == Opponent(p, i, n)
  <2>1. StartsGame("pairing", gs, <<p[i], p[j]>>,
                   SeatOf(White(p[i], p[j])), SeatOf(Black(p[i], p[j])), <<>>)
    BY <1>3 DEF Pairing
  <2>2. i \in DOMAIN p /\ j # 0
    <3>1. Pairable(p, n) \subseteq DOMAIN p /\ DOMAIN p \subseteq Nat
      BY DEF Pairable
    <3>2. i \in Pairable(p, n)
      BY <1>3, <3>1, OldestIsIn
    <3> QED BY <3>2 DEF Pairable
  <2>3. j \in DOMAIN p /\ Eligible(p[i], p[j], n)
    BY <1>1, <2>2
  <2> HIDE DEF i, j
  <2>4. p[i] \in Ticket /\ p[j] \in Ticket /\ <<p[i], p[j]>> \in Seq(Ticket)
    BY <2>2, <2>3
  <2> DEFINE w == White(p[i], p[j])
             b == Black(p[i], p[j])
  <2>5. {<<w, b>>} \subseteq {<<p[i], p[j]>>, <<p[j], p[i]>>}
    BY DEF White, Black
  <2>6. w \in Ticket /\ b \in Ticket /\ ~(OwnerOf[w.bot] # NoOwner /\ OwnerOf[w.bot] = OwnerOf[b.bot])
    BY <2>3, <2>4, <2>5 DEF Eligible, SameOwner
  <2> HIDE DEF w, b
  <2>7. StartsGame("pairing", gs, <<p[i], p[j]>>, SeatOf(w), SeatOf(b), <<>>)
    BY <2>1 DEF w, b
  <2>8. GamesGood(games', active')
    BY <2>6, <2>7, SeatsOfTickets, StartsGameGood
  <2>9. keep' = <<>> /\ greet' = <<>> /\ taken' = <<p[i], p[j]>> /\ at' = 0 /\ mpc' = "pairing"
    BY <2>7 DEF StartsGame
  <2> QED BY <2>4, <2>8, <2>9 DEF TickGoesOn
<1> QED BY <1>2, <1>3

\* Expiring goes on to the next ticket that is due, or pairing begins.
LEMMA ExpiresGood ==
    ASSUME IInv, NEW p \in Seq(Ticket), NEW i \in Nat \ {0}, NEW k \in Seq(Ticket), NEW o,
           NEW n \in Nat, Expires(p, i, k, o, n)
    PROVE  /\ TickGoesOn /\ pool' \in Seq(Ticket)
           /\ mpc' \in {"idle", "greeting"} => NobodyPairs(pool', n)
<1> DEFINE due == {j \in i .. Len(p) : Expired(p[j], n)}
<1>1. CASE due = {}
  <2> DEFINE live == k \o SubSeq(p, i, Len(p))
  <2>1. pool' = live /\ Pairing(live, games, n)
    BY <1>1 DEF Expires
  <2>2. live \in Seq(Ticket)
    BY RestIsSeq
  <2> HIDE DEF live
  <2>3. now \in Nat /\ GamesGood(games, active)
    BY DEF IInv, QueuesTyped
  <2> QED BY <2>1, <2>2, <2>3, PairingGood
<1>2. CASE due # {}
  <2> DEFINE j == Oldest(due)
  <2>1. /\ pool' = p /\ mpc' = "expiring" /\ at' = j + 1
        /\ keep' = k \o SubSeq(p, i, j - 1)
        /\ UNCHANGED <<greet, taken, gameVars>>
    BY <1>2 DEF Expires
  <2>2. j \in i .. Len(p)
    <3>1. due \subseteq Nat
      OBVIOUS
    <3> HIDE DEF due
    <3>2. j \in due
      BY <1>2, <3>1, OldestIsIn
    <3> QED BY <3>2 DEF due
  <2> HIDE DEF j, due
  <2>3. SubSeq(p, i, j - 1) \in Seq(Ticket)
    <3>1. \A x \in i .. j - 1 : p[x] \in Ticket
      BY <2>2
    <3> QED BY <2>2, <3>1, SubSeqProperties
  <2>4. keep' \in Seq(Ticket)
    BY <2>1, <2>3
  <2>5. GamesGood(games', active')
    BY <2>1 DEF IInv, gameVars
  <2> QED BY <2>1, <2>2, <2>4, <2>5 DEF TickGoesOn, IInv, QueuesTyped
<1> QED BY <1>1, <1>2

-----------------------------------------------------------------------------
(* The steps. *)

\* Nothing has begun.
LEMMA InitIInv == Init => IInv
<1> SUFFICES ASSUME Init PROVE IInv
  OBVIOUS
<1>1. QueuesTyped
  BY DEF Init, QueuesTyped
<1>2. GamesGood(games, active)
  BY DEF Init, GamesGood
<1> QED BY <1>1, <1>2 DEF IInv

\* The sessions, the clock, and what an endpoint does to the queues.
LEMMA EndpointIInv ==
    ASSUME IInv, NEW b \in Bot,
           \/ Clock \/ Connect(b) \/ Disconnect(b) \/ Seek(b)
           \/ \E i \in DOMAIN pool : Cancel(pool[i])
    PROVE  IInv'
<1> USE DEF IInv
<1>1. CASE Clock
  BY <1>1 DEF Clock, QueuesTyped, sessVars, queueVars, loopVars, gameVars, histVars
<1>2. CASE Connect(b)
  BY <1>2 DEF Connect, QueuesTyped, queueVars, loopVars, gameVars, histVars
<1>3. CASE Disconnect(b)
  BY <1>3 DEF Disconnect, QueuesTyped, queueVars, loopVars, gameVars, histVars
<1>4. CASE Seek(b)
  <2>1. [id |-> seeks + 1, bot |-> b, sess |-> sess[b], at |-> now] \in Ticket
    BY DEF QueuesTyped, Ticket
  <2>2. pool' \in Seq(Ticket) /\ seeks' \in Nat
    BY <1>4, <2>1 DEF Seek, QueuesTyped
  <2> QED BY <1>4, <2>2 DEF Seek, QueuesTyped, sessVars, loopVars, gameVars
<1>5. ASSUME NEW i \in DOMAIN pool, Cancel(pool[i]) PROVE IInv'
  <2>1. pool' \in Seq(Ticket)
    BY <1>5, KeepIsSeq DEF Cancel, Without, QueuesTyped
  <2> QED BY <1>5, <2>1 DEF Cancel, QueuesTyped, sessVars, loopVars, gameVars
<1> QED BY <1>1, <1>2, <1>3, <1>4, <1>5

\* A challenge makes a game of strangers, and binds nobody yet.
LEMMA DirectChallengeIInv ==
    ASSUME IInv, NEW b \in Bot, NEW o \in Bot, DirectChallenge(b, o) PROVE IInv'
<1> DEFINE g == Game(Seat(b, sess[b], 0), Seat(o, sess[o], 0), "challenge")
<1>1. g \in Games
  BY DEF Game, Seat, Games, Seats, States, Pending, IInv, QueuesTyped
<1>2. Strangers(g)
  BY DEF Game, Seat, Strangers, Players, DirectChallenge
<1>3. games' = Append(games, g) /\ active' = active
  BY DEF DirectChallenge
<1> HIDE DEF g
<1>4. GamesGood(games', active')
  BY <1>1, <1>2, <1>3, GameCreated DEF IInv
<1>5. pool' \in Seq(Ticket)
  BY KeepIsSeq DEF DirectChallenge, Without, IInv, QueuesTyped
<1> QED BY <1>4, <1>5 DEF DirectChallenge, IInv, QueuesTyped, sessVars, loopVars, histVars

\* The matcher's own steps, and what they find when they stop pairing.
LEMMA MatcherIInv ==
    ASSUME IInv, Matcher
    PROVE  IInv' /\ (mpc' \in {"idle", "greeting"} => NobodyPairs(pool', tick'))
<1>1. CASE TickStarts
  <2> DEFINE p == Reaped(pool)
             o == open \ (IdsOf(pool) \ IdsOf(p))
             none == <<>>
  <2>1. Expires(p, 1, none, o, now)
    BY <1>1 DEF TickStarts
  <2>2. p \in Seq(Ticket) /\ none \in Seq(Ticket) /\ now \in Nat /\ 1 \in Nat \ {0}
    BY KeepIsSeq DEF Reaped, IInv, QueuesTyped
  <2> HIDE DEF p, o, none
  <2>3. /\ TickGoesOn /\ pool' \in Seq(Ticket)
        /\ mpc' \in {"idle", "greeting"} => NobodyPairs(pool', now)
    BY <2>1, <2>2, ExpiresGood
  <2> QED BY <1>1, <2>2, <2>3 DEF TickStarts, TickGoesOn, IInv, QueuesTyped, sessVars
<1>2. CASE ExpiryTold
  <2>1. /\ pool \in Seq(Ticket) /\ keep \in Seq(Ticket) /\ tick \in Nat /\ at \in Nat \ {0}
        /\ Expires(pool, at, keep, open, tick)
    BY <1>2 DEF ExpiryTold, IInv, QueuesTyped
  <2>2. /\ TickGoesOn /\ pool' \in Seq(Ticket)
        /\ mpc' \in {"idle", "greeting"} => NobodyPairs(pool', tick)
    BY <2>1, ExpiresGood
  <2> QED BY <1>2, <2>2 DEF ExpiryTold, TickGoesOn, IInv, QueuesTyped, sessVars
<1> QED BY <1>1, <1>2 DEF Matcher

\* A game's state changes, and the index does not.
LEMMA StateSet ==
    ASSUME IInv, NEW i \in DOMAIN games, NEW st \in States, games[i].st \in Bound => st \in Bound,
           games' = [games EXCEPT ![i].st = st], active' = active
    PROVE  GamesGood(games', active')
BY StateChanges DEF IInv

\* The endpoint binds the game of its own challenge, or forgets it with its session.
LEMMA AckChallengeIInv ==
    ASSUME IInv, NEW i, AckChallenge(i) PROVE IInv'
<1>1. i \in DOMAIN games /\ games[i].st = "created"
  BY DEF AckChallenge
<1>2. CASE games[i].white.sess = sess[games[i].white.bot]
  <2>1. GamesGood(games', active')
    BY <1>1, <1>2, LaunchBinds DEF AckChallenge, IInv
  <2> QED BY <2>1 DEF AckChallenge, IInv, QueuesTyped, sessVars, queueVars, loopVars, histVars
<1>3. CASE games[i].white.sess # sess[games[i].white.bot]
  <2>1. games' = [games EXCEPT ![i].st = "forgotten"] /\ active' = active
    BY <1>3 DEF AckChallenge
  <2>2. GamesGood(games', active')
    BY <1>1, <2>1, StateSet DEF States, Bound, Live
  <2> QED BY <2>2 DEF AckChallenge, IInv, QueuesTyped, sessVars, queueVars, loopVars, histVars
<1> QED BY <1>2, <1>3

\* White was told: the launch goes on to Black.
LEMMA WhiteToldIInv ==
    ASSUME IInv, NEW i, WhiteTold(i) PROVE IInv'
<1>1. GamesGood(games', active')
  BY StateSet DEF WhiteTold, Sending, States, Bound, Live
<1> QED BY <1>1 DEF WhiteTold, IInv, QueuesTyped, sessVars, queueVars, loopVars, histVars

\* A launch returns: the matcher drops the tickets, and goes on.
LEMMA LaunchedIInv ==
    ASSUME IInv, NEW i, Launched(i)
    PROVE  /\ IInv'
           /\ games[i].by = "matcher" /\ mpc = "pairing" /\ mpc' \in {"idle", "greeting"} =>
                NobodyPairs(pool', tick')
<1> DEFINE gs == [games EXCEPT ![i].st = "running"]
<1>1. i \in DOMAIN games /\ games[i].st \in Bound
  BY DEF Launched, Sending, Bound, Live
<1>2. GamesGood(gs, active)
  BY <1>1, StateChanges DEF IInv, States, Bound, Live
<1>3. CASE games[i].by = "challenge"
  <2>1. games' = gs /\ UNCHANGED <<now, sessVars, queueVars, loopVars, active, histVars>>
    BY <1>3 DEF Launched
  <2>2. GamesGood(games', active')
    BY <1>2, <2>1
  <2> QED BY <1>3, <2>1, <2>2 DEF IInv, QueuesTyped, sessVars, queueVars, loopVars, histVars
<1>4. CASE games[i].by # "challenge"
  <2> DEFINE p == Without(pool, IdsOf(taken))
  <2>1. /\ pool' = p /\ tick' = tick
        /\ IF mpc = "pairing" THEN Pairing(p, gs, tick) ELSE Greeting(greet, gs, tick)
        /\ UNCHANGED <<now, sessVars, histVars>>
    BY <1>4 DEF Launched
  <2>2. p \in Seq(Ticket) /\ greet \in Seq(Ticket) /\ tick \in Nat /\ now \in Nat
    BY KeepIsSeq DEF Without, IInv, QueuesTyped
  <2> HIDE DEF p, gs
  <2>3. TickGoesOn /\ (mpc = "pairing" /\ mpc' \in {"idle", "greeting"} => NobodyPairs(p, tick))
    <3>1. CASE mpc = "pairing"
      BY <1>2, <2>1, <2>2, <3>1, PairingGood
    <3>2. CASE mpc # "pairing"
      BY <1>2, <2>1, <2>2, <3>2, GreetingGood
    <3> QED BY <3>1, <3>2
  <2> QED BY <2>1, <2>2, <2>3 DEF TickGoesOn, IInv, QueuesTyped, sessVars, histVars
<1> QED BY <1>3, <1>4

\* A game whose launch raised stays bound, which the invariant allows.
LEMMA LaunchFailsIInv ==
    ASSUME IInv, NEW i, LaunchFails(i) PROVE IInv'
<1>1. i \in DOMAIN games /\ games[i].st \in Bound
  BY DEF LaunchFails, Sending, Bound, Live
<1>2. games' = [games EXCEPT ![i].st = "stranded"] /\ active' = active
  BY DEF LaunchFails, TickEnds, loopVars
<1>3. GamesGood(games', active')
  BY <1>1, <1>2, StateSet DEF States, Bound
<1>4. CASE games[i].by = "matcher"
  <2>1. /\ keep' = <<>> /\ greet' = <<>> /\ taken' = <<>> /\ at' = 0 /\ mpc' = "idle"
        /\ UNCHANGED <<tick, sess, now, inc, pool, seeks>>
    BY <1>4 DEF LaunchFails, TickEnds, queueVars, histVars
  <2> QED BY <1>3, <2>1 DEF IInv, QueuesTyped
<1>5. CASE games[i].by # "matcher"
  <2>1. /\ UNCHANGED <<loopVars, now, inc, pool, seeks>>
        /\ sess' = [b \in Bot |-> IF Seat(b, sess[b], 0) = games[i].white THEN 0 ELSE sess[b]]
    BY <1>5 DEF LaunchFails, queueVars, histVars
  <2>2. sess' \in [Bot -> Nat]
    BY <2>1 DEF IInv, QueuesTyped
  <2> QED BY <1>3, <2>1, <2>2 DEF IInv, QueuesTyped, loopVars
<1> QED BY <1>4, <1>5

\* A game that is over binds nobody.
LEMMA GameEndsIInv ==
    ASSUME IInv, NEW i, GameEnds(i) PROVE IInv'
<1> DEFINE free == [b \in Bot |-> IF active[b] = i THEN 0 ELSE active[b]]
<1>1. i \in DOMAIN games /\ games \in Seq(Games) /\ active \in [Bot -> Nat]
  BY DEF GameEnds, IInv, GamesGood
<1>2. /\ DOMAIN games' = DOMAIN games /\ games' \in Seq(Games)
      /\ \A j \in DOMAIN games : Players(games'[j]) = Players(games[j])
                                 /\ (j # i => games'[j] = games[j])
  <2>1. games[i] \in Games
    <3> HIDE DEF Games
    <3> QED BY <1>1
  <2>2. [games[i] EXCEPT !.st = "over"] \in Games
    BY <2>1 DEF Games, States
  <2>3. /\ DOMAIN games' = DOMAIN games /\ games' \in Seq(Games)
        /\ games'[i] = [games[i] EXCEPT !.st = "over"]
        /\ \A j \in DOMAIN games : j # i => games'[j] = games[j]
    <3> HIDE DEF Games
    <3> QED BY <1>1, <2>1, <2>2 DEF GameEnds
  <2>4. Players(games'[i]) = Players(games[i])
    BY <2>1, <2>3 DEF Games, Players
  <2> QED BY <2>3, <2>4
<1>3. active' = free
  BY DEF GameEnds
<1>4. active' \in [Bot -> Nat]
  BY <1>1, <1>3
<1>5. \A j \in DOMAIN games' : Strangers(games'[j])
  BY <1>2 DEF IInv, GamesGood, Strangers
<1>6. ASSUME NEW b \in Bot, active'[b] # 0
      PROVE  /\ active'[b] \in DOMAIN games' /\ b \in Players(games'[active'[b]])
             /\ games'[active'[b]].st \in Bound
  <2>1. active'[b] = active[b] /\ active[b] # i
    BY <1>3, <1>6
  <2> QED BY <1>2, <1>6, <2>1 DEF IInv, GamesGood
<1>7. GamesGood(games', active')
  BY <1>2, <1>4, <1>5, <1>6 DEF GamesGood
<1> QED BY <1>7 DEF GameEnds, IInv, QueuesTyped, sessVars, queueVars, loopVars, histVars

-----------------------------------------------------------------------------
\* The invariant is inductive.
LEMMA IInvStep == IInv /\ [Next]_vars => IInv'
<1> SUFFICES ASSUME IInv, [Next]_vars PROVE IInv'
  OBVIOUS
<1>1. CASE Matcher
  BY <1>1, MatcherIInv
<1>2. CASE Launches
  BY <1>2, AckChallengeIInv, WhiteToldIInv, LaunchedIInv, LaunchFailsIInv DEF Launches
<1>3. CASE Clock
  BY <1>3 DEF Clock, IInv, QueuesTyped, sessVars, queueVars, loopVars, gameVars, histVars
<1>4. ASSUME NEW b \in Bot, Seek(b) \/ Connect(b) \/ Disconnect(b) PROVE IInv'
  BY <1>4, EndpointIInv
<1>5. CASE \E i \in DOMAIN pool : Cancel(pool[i])
  <2>1. PICK i \in DOMAIN pool : Cancel(pool[i])
    BY <1>5
  <2>2. pool[i].bot \in Bot
    BY <2>1, MatcherAssumption DEF Cancel
  <2> QED BY <2>1, <2>2, EndpointIInv
<1>6. ASSUME NEW b \in Bot, NEW o \in Bot, DirectChallenge(b, o) PROVE IInv'
  BY <1>6, DirectChallengeIInv
<1>7. ASSUME NEW i \in 1 .. MaxGames, GameEnds(i) PROVE IInv'
  BY <1>7, GameEndsIInv
<1>8. CASE UNCHANGED vars
  BY <1>8 DEF vars, IInv, QueuesTyped, sessVars, queueVars, loopVars, gameVars, histVars
<1> QED BY <1>1, <1>2, <1>3, <1>4, <1>5, <1>6, <1>7, <1>8 DEF Next

\* The queues hold tickets, games are between seats of different owners, and the index
\* leads a bot to a game it sits in and is bound to, whatever overlaps.
THEOREM InductiveInvariant == Spec => []IInv
BY IInvStep, InitIInv, PTL DEF Spec

\* Two bots of one owner never meet (elo.py, bot_endpoint.py): for any owners, and
\* whatever pairings, greetings and challenges overlap.
THEOREM OwnersAreKeptApart == Spec => []OwnersNeverMeet
<1>1. IInv => OwnersNeverMeet
  BY DEF IInv, GamesGood, Strangers, OwnersNeverMeet
<1> QED BY <1>1, InductiveInvariant, PTL

\* The active-game index (game/registry.py) leads a bot to a game that it plays and
\* that is not over, however many games bind and unbind it.
THEOREM IndexIsTrue == Spec => []ActiveGameIsPlayed
<1>1. IInv => ActiveGameIsPlayed
  BY DEF IInv, GamesGood, Bound, ActiveGameIsPlayed
<1> QED BY <1>1, InductiveInvariant, PTL

\* When the matcher stops pairing (matcher.py _pair_reals) no two tickets that are
\* left could be paired: for any ratings, windows and previous opponents.
THEOREM NobodyUnpaired == Spec => NobodyIsLeftUnpaired
<1>1. IInv /\ PairingReturns => \A i, j \in DOMAIN pool' : ~Eligible(pool'[i], pool'[j], tick')
  BY MatcherIInv, LaunchedIInv DEF PairingReturns, NobodyPairs
<1>2. IInv /\ [Next]_vars =>
        [PairingReturns => \A i, j \in DOMAIN pool' : ~Eligible(pool'[i], pool'[j], tick')]_vars
  BY <1>1
<1> QED BY <1>2, InductiveInvariant, PTL DEF Spec, NobodyIsLeftUnpaired

-----------------------------------------------------------------------------
(* Without seek_cancel and challenges: what the matcher's tick relies on.  *)

\* No bot cancels a seek or challenges another: the tickets change in the matcher
\* and by new seeks only.
Quiet == Cancels = {} /\ Challenges = {}

Items(p)    == {p[i] : i \in DOMAIN p}
BotsOf(p)   == {p[i].bot : i \in DOMAIN p}
Numbered(p) == \A i, j \in DOMAIN p : p[i].id = p[j].id => i = j
SeeksOf(g)  == {g.white.seek, g.black.seek}

\* The matcher awaits a launch, at the places it does so.
Awaits  == {"pairing", "greeting"}
Sends   == {"to_white", "to_black"}

\* The tickets ts are seated in g, with the greeter if there is only one.
Seated(g, ts) ==
    /\ \E t \in Items(ts) : g.white = SeatOf(t)
    /\ g.black = HouseSeat \/ \E t \in Items(ts) : g.black = SeatOf(t)
    /\ \A t \in Items(ts) : SeatOf(t) \in {g.white, g.black}

\* The index has the tickets of the pool, or those that expiring will leave in it.
QueueGood ==
    /\ Numbered(pool) /\ IdsOf(pool) \subseteq 1 .. seeks
    /\ mpc = "expiring" =>
          /\ at <= Len(pool) + 1 /\ Numbered(keep)
          /\ Items(keep) \subseteq {pool[x] : x \in 1 .. at - 1}
          /\ open = IdsOf(keep) \cup {pool[x].id : x \in at .. Len(pool)}
    /\ mpc # "expiring" => open = IdsOf(pool)

\* The game that is launched is the last one, of tickets that are still in the pool,
\* as are those that wait to be greeted.
LaunchGood ==
    /\ \A i \in DOMAIN games :
          /\ games[i].by = "matcher" /\ games[i].st # "created"
          /\ games[i].st \in Sends => i = Len(games) /\ mpc \in Awaits
    /\ mpc \in Awaits =>
          /\ games # <<>> /\ Seated(games[Len(games)], taken)
          /\ games[Len(games)].st \in Sends
          /\ Items(taken) \subseteq Items(pool) /\ Items(greet) \subseteq Items(pool)
          /\ Numbered(greet) /\ IdsOf(greet) \cap IdsOf(taken) = {}

QuietInv == Quiet /\ IInv /\ QueueGood /\ LaunchGood

\* Polite bots have one ticket, and none while they are in a game that is not lost;
\* the index leads them to the game that is live.
OneTicket    == \A t, u \in Items(pool) : t.bot = u.bot => t = u
LiveIn(gs)   == \A i \in DOMAIN gs : gs[i].st \in Live =>
                    \A b \in Players(gs[i]) \cap Bot : active[b] = i
LiveIsActive == LiveIn(games)
Free(b, gs)  == active[b] # 0 => gs[active[b]].st = "stranded"
SeekersFree  == \A t \in Items(pool) : Free(t.bot, games) \/ (mpc \in Awaits /\ t \in Items(taken))

PoliteInv == Polite /\ QuietInv /\ OneTicket /\ LiveIsActive /\ SeekersFree

\* Without new sessions every ticket and every seat is reachable,
SeatsKept(g) ==
    /\ g.white.bot \in Bot /\ g.white.sess = 1
    /\ g.black = HouseSeat \/ (g.black.bot \in Bot /\ g.black.sess = 1)
    /\ g.st = "to_black" => g.black # HouseSeat
SessionsKept ==
    /\ \A b \in Bot : sess[b] = 1
    /\ \A t \in Items(pool) : t.sess = 1
    /\ \A i \in DOMAIN games : SeatsKept(games[i])

\* and what has become of a ticket, a game or its end, is not in the index any more,
\* unless the game is being launched.
Unshared(gs) == \A i, j \in DOMAIN gs : i # j => SeeksOf(gs[i]) \cap SeeksOf(gs[j]) \subseteq {0}
Unlisted(gs) == \A i \in DOMAIN gs : \A id \in SeeksOf(gs[i]) \ {0} :
                    id <= seeks /\ id \notin open /\ <<id, "expired">> \notin ended
EndedOnce    == \A e \in ended : e[1] \in 1 .. seeks /\ e[1] \notin open /\ e = <<e[1], "expired">>
Settled ==
    /\ \A i \in DOMAIN games : \A id \in SeeksOf(games[i]) \ {0} :
          /\ id <= seeks /\ <<id, "expired">> \notin ended
          /\ id \in open => mpc \in Awaits /\ i = Len(games)
    /\ Unshared(games) /\ EndedOnce

SteadyInv == Drops = {} /\ QuietInv /\ SessionsKept /\ Settled

-----------------------------------------------------------------------------
(* Lists of tickets. *)

\* What is kept of a list of tickets: the tickets at the places, each once.
LEMMA KeptItems ==
    ASSUME NEW p \in Seq(Ticket), Numbered(p), NEW places
    PROVE  /\ Keep(p, places) \in Seq(Ticket) /\ Numbered(Keep(p, places))
           /\ \A t : t \in Items(Keep(p, places)) <=> \E i \in DOMAIN p : i \in places /\ p[i] = t
<1> DEFINE q == Keep(p, places)
<1>1. q \in Seq(Ticket) /\ \E f : Places(f, q, p, places, Len(p))
  BY KeepPlaces
<1> HIDE DEF q
<1>2. PICK f : Places(f, q, p, places, Len(p))
  BY <1>1
<1>3. DOMAIN q = 1 .. Len(q) /\ DOMAIN p = 1 .. Len(p) /\ Len(q) \in Nat /\ Len(p) \in Nat
  BY <1>1
<1>4. /\ \A a \in DOMAIN q : f[a] \in DOMAIN p /\ f[a] \in places /\ q[a] = p[f[a]]
      /\ \A a, b \in DOMAIN q : a < b => f[a] < f[b]
      /\ \A i \in DOMAIN p : i \in places => \E a \in DOMAIN q : f[a] = i
  BY <1>2, <1>3 DEF Places
<1>5. ASSUME NEW a \in DOMAIN q, NEW b \in DOMAIN q, q[a].id = q[b].id PROVE a = b
  <2>1. f[a] = f[b]
    BY <1>4, <1>5 DEF Numbered
  <2>2. ~(a < b) /\ ~(b < a)
    <3>1. f[a] \in Nat /\ f[b] \in Nat
      BY <1>3, <1>4
    <3>2. ~(f[a] < f[b]) /\ ~(f[b] < f[a])
      BY <2>1, <3>1
    <3> QED BY <1>4, <3>2
  <2> QED BY <1>3, <2>2
<1>6. \A t : t \in Items(q) <=> \E i \in DOMAIN p : i \in places /\ p[i] = t
  BY <1>4 DEF Items
<1> QED BY <1>1, <1>5, <1>6 DEF Numbered, q

\* The tickets at the places from i to m.
Part(p, i, m) == {p[x] : x \in i .. m}

Joined(k, p, i, m) == k \o SubSeq(p, i, m)
Empty == <<>>

\* A list r of these tickets, each once.
Lists(r, tickets) == r \in Seq(Ticket) /\ Numbered(r) /\ Items(r) = tickets

\* Some of the first tickets, and then those from i to m.
LEMMA JoinedItems ==
    ASSUME NEW p \in Seq(Ticket), Numbered(p), NEW k \in Seq(Ticket), Numbered(k),
           NEW i \in 1 .. Len(p) + 1, NEW m \in i - 1 .. Len(p), Items(k) \subseteq Part(p, 1, i - 1)
    PROVE  Lists(Joined(k, p, i, m), Items(k) \cup Part(p, i, m))
<1> DEFINE s == SubSeq(p, i, m)
           r == k \o s
           l == Len(k)
           n == Len(s)
<1>1. s \in Seq(Ticket) /\ n = m + 1 - i /\ \A x \in 1 .. n : s[x] = p[i + x - 1]
  <2>1. \A x \in i .. m : p[x] \in Ticket
    OBVIOUS
  <2> QED BY <2>1, SubSeqProperties
<1>2. i \in Int /\ m \in Int /\ n \in Nat /\ l \in Nat
  BY <1>1
<1> HIDE DEF s
<1>3. /\ r \in Seq(Ticket) /\ Len(r) = l + n /\ DOMAIN r = 1 .. l + n
      /\ \A x \in 1 .. l : r[x] = k[x]
      /\ \A x \in 1 .. n : r[l + x] = s[x]
  <2>1. /\ r \in Seq(Ticket) /\ Len(r) = l + n
        /\ \A x \in 1 .. Len(k) + Len(s) : r[x] = IF x <= Len(k) THEN k[x] ELSE s[x - Len(k)]
    BY <1>1, ConcatProperties
  <2>2. DOMAIN r = 1 .. l + n
    BY <2>1
  <2> HIDE DEF r
  <2>3. \A x \in 1 .. l : r[x] = k[x]
    BY <1>2, <2>1
  <2>4. \A x \in 1 .. n : r[l + x] = s[x]
    <3> TAKE x \in 1 .. n
    <3>1. l + x \in 1 .. l + n /\ ~(l + x <= l) /\ (l + x) - l = x
      BY <1>2
    <3> QED BY <2>1, <3>1
  <2> QED BY <2>1, <2>2, <2>3, <2>4
<1> HIDE DEF r, l, n
<1>4. DOMAIN k = 1 .. l /\ DOMAIN p = 1 .. Len(p) /\ Len(p) \in Nat
  BY DEF l
<1>5. ASSUME NEW x \in DOMAIN r, x \notin 1 .. l
      PROVE  i + (x - l) - 1 \in i .. m /\ r[x] = p[i + (x - l) - 1]
  <2>1. x - l \in 1 .. n /\ l + (x - l) = x
    BY <1>2, <1>3, <1>5
  <2>2. r[x] = s[x - l]
    BY <1>3, <2>1
  <2> QED BY <1>1, <1>2, <2>1, <2>2
<1>6. \A x \in 1 .. l : r[x] \in Part(p, 1, i - 1) /\ r[x] \in Items(k) /\ r[x] = k[x]
  BY <1>3, <1>4 DEF Items
<1>7. \A x \in 1 .. i - 1, y \in i .. m : x \in DOMAIN p /\ y \in DOMAIN p /\ p[x].id # p[y].id
  <2> TAKE x \in 1 .. i - 1, y \in i .. m
  <2>1. x \in DOMAIN p /\ y \in DOMAIN p /\ x # y
    BY <1>2, <1>4
  <2> QED BY <2>1 DEF Numbered
<1>8. ASSUME NEW x \in DOMAIN r, NEW y \in DOMAIN r, r[x].id = r[y].id PROVE x = y
  <2>1. CASE x \in 1 .. l /\ y \in 1 .. l
    BY <1>4, <1>6, <1>8, <2>1 DEF Numbered
  <2>2. CASE x \in 1 .. l /\ y \notin 1 .. l
    BY <1>5, <1>6, <1>7, <1>8, <2>2 DEF Part
  <2>3. CASE x \notin 1 .. l /\ y \in 1 .. l
    BY <1>5, <1>6, <1>7, <1>8, <2>3 DEF Part
  <2>4. CASE x \notin 1 .. l /\ y \notin 1 .. l
    <3> DEFINE a == i + (x - l) - 1
               b == i + (y - l) - 1
    <3>1. a \in i .. m /\ b \in i .. m /\ r[x] = p[a] /\ r[y] = p[b]
      BY <1>5, <2>4
    <3>2. a \in DOMAIN p /\ b \in DOMAIN p
      BY <3>1, <1>2, <1>4
    <3>3. a = b
      <4> HIDE DEF a, b
      <4> QED BY <1>8, <3>1, <3>2 DEF Numbered
    <3> QED BY <1>2, <1>3, <3>3
  <2> QED BY <2>1, <2>2, <2>3, <2>4
<1>9. ASSUME NEW t PROVE t \in Items(r) <=> t \in Items(k) \cup Part(p, i, m)
  <2>1. ASSUME t \in Items(r) PROVE t \in Items(k) \cup Part(p, i, m)
    <3>1. PICK x \in DOMAIN r : t = r[x]
      BY <2>1 DEF Items
    <3> QED BY <1>5, <1>6, <3>1 DEF Part
  <2>2. ASSUME t \in Items(k) PROVE t \in Items(r)
    <3>1. PICK x \in 1 .. l : t = k[x]
      BY <2>2, <1>4 DEF Items
    <3>2. x \in DOMAIN r /\ r[x] = t
      BY <1>2, <1>3, <3>1
    <3> QED BY <3>2 DEF Items
  <2>3. ASSUME t \in Part(p, i, m) PROVE t \in Items(r)
    <3>1. PICK y \in i .. m : t = p[y]
      BY <2>3 DEF Part
    <3> DEFINE x == y - i + 1
    <3>2. x \in 1 .. n /\ i + x - 1 = y /\ l + x \in DOMAIN r
      <4>1. x \in 1 .. n /\ i + x - 1 = y
        BY <1>1, <1>2
      <4> HIDE DEF x
      <4>2. l + x \in 1 .. l + n
        BY <1>2, <4>1
      <4> QED BY <1>3, <4>1, <4>2
    <3> HIDE DEF x
    <3>3. r[l + x] = t
      BY <1>1, <1>3, <3>1, <3>2
    <3> QED BY <3>2, <3>3 DEF Items
  <2> QED BY <2>1, <2>2, <2>3
<1>10. Numbered(r) /\ Items(r) = Items(k) \cup Part(p, i, m)
  BY <1>8, <1>9 DEF Numbered
<1> QED BY <1>3, <1>10 DEF Lists, Joined, r, s

\* The rest of a list, from i on.
LEMMA RestItems ==
    ASSUME NEW p \in Seq(Ticket), Numbered(p), NEW i \in 1 .. Len(p) + 1
    PROVE  Lists(SubSeq(p, i, Len(p)), Part(p, i, Len(p)))
<1> DEFINE m == Len(p)
           s == SubSeq(p, i, m)
<1>1. Empty \in Seq(Ticket) /\ Numbered(Empty) /\ Items(Empty) = {}
  BY DEF Numbered, Items, Empty
<1>2. m \in i - 1 .. Len(p)
  OBVIOUS
<1>3. s \in Seq(Ticket)
  <2>1. \A x \in i .. m : p[x] \in Ticket
    OBVIOUS
  <2> QED BY <2>1, SubSeqProperties
<1>4. Joined(Empty, p, i, m) = s
  <2> HIDE DEF s, m
  <2>1. Empty \o s = s
    BY <1>3 DEF Empty
  <2> QED BY <2>1 DEF Joined, s
<1> HIDE DEF s, m
<1>5. Lists(Joined(Empty, p, i, m), Items(Empty) \cup Part(p, i, m))
  <2>1. Items(Empty) \subseteq Part(p, 1, i - 1)
    BY <1>1
  <2> QED BY <1>1, <1>2, <2>1, JoinedItems
<1>6. Lists(s, Part(p, i, m))
  BY <1>1, <1>4, <1>5
<1> QED BY <1>6 DEF s, m

\* One ticket more, with a new number.
LEMMA AppendedItems ==
    ASSUME NEW p \in Seq(Ticket), Numbered(p), NEW t \in Ticket, t.id \notin IdsOf(p)
    PROVE  /\ Append(p, t) \in Seq(Ticket) /\ Numbered(Append(p, t))
           /\ Items(Append(p, t)) = Items(p) \cup {t}
           /\ Len(Append(p, t)) = Len(p) + 1
           /\ \A i \in 1 .. Len(p) : Append(p, t)[i] = p[i]
           /\ Append(p, t)[Len(p) + 1] = t
<1> DEFINE r == Append(p, t)
           n == Len(p)
<1>1. /\ r \in Seq(Ticket) /\ Len(r) = n + 1 /\ DOMAIN r = 1 .. n + 1 /\ DOMAIN p = 1 .. n
      /\ n \in Nat /\ (\A i \in 1 .. n : r[i] = p[i]) /\ r[n + 1] = t
  OBVIOUS
<1> HIDE DEF r, n
<1>2. \A i \in 1 .. n + 1 : i \in 1 .. n \/ i = n + 1
  BY <1>1
<1>3. n + 1 \in 1 .. n + 1 /\ 1 .. n \subseteq 1 .. n + 1
  BY <1>1
<1>4. Numbered(r)
  BY <1>1, <1>2 DEF Numbered, IdsOf
<1>5. Items(r) = Items(p) \cup {t}
  BY <1>1, <1>2, <1>3 DEF Items
<1> QED BY <1>1, <1>4, <1>5 DEF r, n

\* The numbers are those of the items.
LEMMA IdsOfItems ==
    ASSUME NEW p PROVE IdsOf(p) = {t.id : t \in Items(p)} /\ BotsOf(p) = {t.bot : t \in Items(p)}
BY DEF IdsOf, BotsOf, Items

\* A listed ticket is a ticket, of a bot.
LEMMA ItemsTyped ==
    ASSUME NEW p \in Seq(Ticket), NEW t \in Items(p) PROVE t \in Ticket /\ t.bot \in Bot
<1>1. t \in Ticket
  BY DEF Items
<1> QED BY <1>1 DEF Ticket

-----------------------------------------------------------------------------
(* What the tick does with the tickets of a list. *)

\* A game of tickets of the list is created and its launch awaited, the tickets
\* that are still to be greeted are others of the list.
Opens(src, gs) ==
    \E g \in Games :
        /\ games' = Append(gs, g) /\ g.st = "to_white" /\ g.by = "matcher" /\ mpc' \in Awaits
        /\ Seated(g, taken')
        /\ Items(taken') \subseteq Items(src) /\ Items(greet') \subseteq Items(src)
        /\ Numbered(greet') /\ IdsOf(greet') \cap IdsOf(taken') = {}
        /\ active' = [b \in Bot |-> IF b \in Players(g) THEN Len(gs) + 1 ELSE active[b]]

\* The tick is over.
Idles(gs) == games' = gs /\ active' = active /\ mpc' = "idle"

\* The game that a step starts is the last one.
LEMMA StartsLast ==
    ASSUME NEW gs \in Seq(Games), now \in Nat, NEW w \in Seats, NEW b \in Seats,
           NEW await, NEW ts, NEW others, StartsGame(await, gs, ts, w, b, others)
    PROVE  \E g \in Games :
              /\ games' = Append(gs, g) /\ g.white = w /\ g.black = b
              /\ g.st = "to_white" /\ g.by = "matcher"
              /\ active' = [c \in Bot |-> IF c \in Players(g) THEN Len(gs) + 1 ELSE active[c]]
<1> DEFINE g0 == Game(w, b, "matcher")
           g == [g0 EXCEPT !.st = "to_white"]
           new == Append(gs, g0)
<1>1. g0 \in Games /\ g \in Games
  BY DEF Game, Games, States, Pending, Live
<1>2. g.white = w /\ g.black = b /\ g.st = "to_white" /\ g.by = "matcher" /\ Players(g) = Players(g0)
  BY DEF Game, Players
<1>3. games' = [new EXCEPT ![Len(gs) + 1].st = "to_white"]
      /\ active' = [c \in Bot |-> IF c \in Players(new[Len(gs) + 1]) THEN Len(gs) + 1 ELSE active[c]]
  BY DEF StartsGame, Launch
<1> HIDE DEF g0
<1>4. new \in Seq(Games) /\ new[Len(gs) + 1] = g0 /\ Len(gs) \in Nat /\ Len(new) = Len(gs) + 1
  <2> HIDE DEF Games
  <2> QED BY <1>1
<1>5. games' = Append(gs, g)
  <2>1. games' = [new EXCEPT ![Len(gs) + 1] = g]
    <3> HIDE DEF new
    <3> QED BY <1>3, <1>4
  <2> DEFINE l == Len(gs)
             r == Append(gs, g)
  <2> HIDE DEF g, Games
  <2>2. r \in Seq(Games) /\ Len(r) = l + 1 /\ r[l + 1] = g /\ \A x \in 1 .. l : r[x] = gs[x]
    BY <1>1
  <2>3. l \in Nat /\ \A x \in 1 .. l : new[x] = gs[x]
    BY <1>1
  <2> HIDE DEF r, l, new
  <2>4. new \in Seq(Games) /\ Len(new) = l + 1
    BY <1>4 DEF l
  <2>5. /\ games' \in Seq(Games) /\ Len(games') = l + 1 /\ games'[l + 1] = g
        /\ \A x \in 1 .. l : games'[x] = new[x]
    BY <1>1, <2>1, <2>3, <2>4 DEF l
  <2>6. ASSUME NEW x \in 1 .. Len(games') PROVE games'[x] = r[x]
    BY <2>2, <2>3, <2>5
  <2>7. games' = r
    BY <2>2, <2>5, <2>6, SeqEqual
  <2> QED BY <2>7 DEF r
<1>6. active' = [c \in Bot |-> IF c \in Players(g) THEN Len(gs) + 1 ELSE active[c]]
  BY <1>2, <1>3, <1>4
<1> HIDE DEF g, new
<1> QED BY <1>1, <1>2, <1>5, <1>6

\* Greeting a list: the oldest ticket that is due plays the house.
LEMMA GreetingOpens ==
    ASSUME now \in Nat, NEW gs \in Seq(Games), NEW q \in Seq(Ticket), Numbered(q), NEW n,
           Greeting(q, gs, n)
    PROVE  Opens(q, gs) \/ Idles(gs)
<1> DEFINE due == {i \in DOMAIN q : Greeted /\ n - q[i].at >= GreeterWait}
<1>1. CASE due = {}
  BY <1>1 DEF Greeting, TickEnds, Idles
<1>2. CASE due # {}
  <2> DEFINE i == Oldest(due)
             others == SubSeq(q, i + 1, Len(q))
             ts == <<q[i]>>
  <2>1. i \in DOMAIN q
    <3>1. due \subseteq Nat
      OBVIOUS
    <3> HIDE DEF due
    <3>2. i \in due
      BY <1>2, <3>1, OldestIsIn
    <3> QED BY <3>2 DEF due
  <2>2. StartsGame("greeting", gs, ts, SeatOf(q[i]), HouseSeat, others)
    BY <1>2 DEF Greeting
  <2> HIDE DEF due, i
  <2>3. q[i] \in Ticket /\ i \in Nat /\ i + 1 \in 1 .. Len(q) + 1 /\ DOMAIN q = 1 .. Len(q)
    BY <2>1
  <2>4. Lists(others, Part(q, i + 1, Len(q)))
    BY <2>3, RestItems
  <2>5. Items(ts) = {q[i]} /\ IdsOf(ts) = {q[i].id}
    BY DEF Items, IdsOf
  <2>6. mpc' = "greeting" /\ taken' = ts /\ greet' = others
    BY <2>2 DEF StartsGame
  <2>7. PICK g \in Games :
            /\ games' = Append(gs, g) /\ g.white = SeatOf(q[i]) /\ g.black = HouseSeat
            /\ g.st = "to_white" /\ g.by = "matcher"
            /\ active' = [c \in Bot |-> IF c \in Players(g) THEN Len(gs) + 1 ELSE active[c]]
    BY <2>2, <2>3, SeatsOfTickets, StartsLast
  <2> HIDE DEF others, ts
  <2>8. Seated(g, ts)
    BY <2>5, <2>7 DEF Seated
  <2>9. Part(q, i + 1, Len(q)) \subseteq Items(q) /\ q[i] \in Items(q)
    <3>1. \A x \in i + 1 .. Len(q) : x \in DOMAIN q
      BY <2>3
    <3> QED BY <2>1, <3>1 DEF Part, Items
  <2>10. \A t \in Part(q, i + 1, Len(q)) : t.id # q[i].id
    <3> SUFFICES ASSUME NEW x \in i + 1 .. Len(q), q[x].id = q[i].id PROVE FALSE
      BY DEF Part
    <3>1. x \in DOMAIN q /\ x # i
      BY <2>3
    <3> QED BY <2>1, <3>1 DEF Numbered
  <2>11. IdsOf(others) \cap IdsOf(ts) = {}
    BY <2>4, <2>5, <2>10, IdsOfItems DEF Lists
  <2>12. /\ mpc' \in Awaits /\ Seated(g, taken')
         /\ Items(taken') \subseteq Items(q) /\ Items(greet') \subseteq Items(q)
         /\ Numbered(greet') /\ IdsOf(greet') \cap IdsOf(taken') = {}
    BY <2>4, <2>5, <2>6, <2>8, <2>9, <2>11 DEF Lists, Awaits
  <2> QED BY <2>7, <2>12 DEF Opens
<1> QED BY <1>1, <1>2

\* Pairing a list: two of its tickets meet, or it is greeted.
LEMMA PairingOpens ==
    ASSUME now \in Nat, NEW gs \in Seq(Games), NEW p \in Seq(Ticket), Numbered(p), NEW n \in Nat,
           Pairing(p, gs, n)
    PROVE  Opens(p, gs) \/ Idles(gs)
<1>1. CASE Pairable(p, n) = {}
  BY <1>1, GreetingOpens DEF Pairing
<1>2. CASE Pairable(p, n) # {}
  <2> DEFINE i == Oldest(Pairable(p, n))
             j == Opponent(p, i, n)
  <2>1. StartsGame("pairing", gs, <<p[i], p[j]>>,
                   SeatOf(White(p[i], p[j])), SeatOf(Black(p[i], p[j])), <<>>)
    BY <1>2 DEF Pairing
  <2>2. i \in DOMAIN p /\ j # 0
    <3>1. Pairable(p, n) \subseteq DOMAIN p /\ DOMAIN p \subseteq Nat
      BY DEF Pairable
    <3>2. i \in Pairable(p, n)
      BY <1>2, <3>1, OldestIsIn
    <3> QED BY <3>2 DEF Pairable
  <2>3. j \in DOMAIN p
    <3>1. p[i] \in Ticket
      BY <2>2
    <3> QED BY <2>2, <3>1, BestOpponentIsEligible DEF Opponent
  <2> HIDE DEF i, j
  <2> DEFINE t == p[i]
             o == p[j]
             ts == <<t, o>>
             w == SeatOf(White(t, o))
             b == SeatOf(Black(t, o))
  <2>4. t \in Ticket /\ o \in Ticket /\ t \in Items(p) /\ o \in Items(p)
    BY <2>2, <2>3 DEF Items
  <2> HIDE DEF t, o
  <2>5. Items(ts) = {t, o}
    BY DEF Items
  <2>6. {w, b} = {SeatOf(t), SeatOf(o)} /\ w \in Seats /\ b \in Seats
    BY <2>4, SeatsOfTickets DEF White, Black
  <2>7. StartsGame("pairing", gs, ts, w, b, <<>>)
    BY <2>1 DEF t, o
  <2> HIDE DEF ts, w, b
  <2>8. mpc' = "pairing" /\ taken' = ts /\ greet' = <<>>
    BY <2>7 DEF StartsGame
  <2>9. PICK g \in Games :
            /\ games' = Append(gs, g) /\ g.white = w /\ g.black = b
            /\ g.st = "to_white" /\ g.by = "matcher"
            /\ active' = [c \in Bot |-> IF c \in Players(g) THEN Len(gs) + 1 ELSE active[c]]
    BY <2>6, <2>7, StartsLast
  <2>10. Seated(g, ts)
    BY <2>5, <2>6, <2>9 DEF Seated
  <2>11. Items(greet') = {} /\ IdsOf(greet') = {} /\ Numbered(greet')
    BY <2>8 DEF Items, IdsOf, Numbered
  <2>12. /\ mpc' \in Awaits /\ Seated(g, taken')
         /\ Items(taken') \subseteq Items(p) /\ Items(greet') \subseteq Items(p)
         /\ Numbered(greet') /\ IdsOf(greet') \cap IdsOf(taken') = {}
    BY <2>4, <2>5, <2>8, <2>10, <2>11 DEF Awaits
  <2> QED BY <2>9, <2>12 DEF Opens
<1> QED BY <1>1, <1>2

\* The next ticket of p that is due leaves the index.
Expiry(p) ==
    /\ mpc' = "expiring" /\ pool' = p /\ games' = games /\ active' = active
    /\ \E t \in Items(p) : t.id \in open /\ t.id \notin open'
                           /\ ended' = ended \cup {<<t.id, "expired">>}
\* None was due, or those that were are gone: p is paired and greeted.
Ticks(p) == ended' = ended /\ (Opens(p, games) \/ Idles(games))

\* Expiring a list: the next ticket that is due leaves the index, or none is and the
\* list that was kept is the pool.
LEMMA ExpiresMoves ==
    ASSUME IInv, NEW p \in Seq(Ticket), Numbered(p), NEW k \in Seq(Ticket), Numbered(k),
           NEW i \in 1 .. Len(p) + 1, Items(k) \subseteq Part(p, 1, i - 1),
           NEW o, o = IdsOf(k) \cup {p[x].id : x \in i .. Len(p)}, o \subseteq open,
           NEW n \in Nat, Expires(p, i, k, o, n),
           IdsOf(p) \subseteq 1 .. seeks, UNCHANGED seeks
    PROVE  /\ QueueGood' /\ Items(pool') \subseteq Items(p) /\ open' \subseteq o
           /\ Expiry(p) \/ (Ticks(pool') /\ mpc' # "expiring")
<1> DEFINE due == {j \in i .. Len(p) : Expired(p[j], n)}
           m == Len(p)
<1>0. m \in Nat /\ DOMAIN p = 1 .. m /\ i \in 1 .. m + 1 /\ now \in Nat /\ games \in Seq(Games)
  BY DEF IInv, QueuesTyped, GamesGood
<1>1. CASE due = {}
  <2> DEFINE live == Joined(k, p, i, m)
  <2>1. pool' = live /\ open' = o /\ ended' = ended /\ Pairing(live, games, n)
    BY <1>1 DEF Expires, Joined
  <2>2. Lists(live, Items(k) \cup Part(p, i, m))
    <3>1. m \in i - 1 .. Len(p)
      BY <1>0
    <3> QED BY <3>1, JoinedItems
  <2> HIDE DEF live
  <2>3. Opens(live, games) \/ Idles(games)
    BY <1>0, <2>1, <2>2, PairingOpens DEF Lists
  <2>4. IdsOf(live) = o
    <3>1. IdsOf(live) = {t.id : t \in Items(k) \cup Part(p, i, m)}
      BY <2>2, IdsOfItems DEF Lists
    <3>2. IdsOf(k) = {t.id : t \in Items(k)} /\ {p[x].id : x \in i .. m} = {t.id : t \in Part(p, i, m)}
      BY IdsOfItems DEF Part
    <3> HIDE DEF m
    <3>3. o = IdsOf(k) \cup {p[x].id : x \in i .. m}
      BY DEF m
    <3> QED BY <3>1, <3>2, <3>3
  <2>5. Items(live) \subseteq Items(p)
    <3>1. (\A x \in 1 .. i - 1 : x \in DOMAIN p) /\ \A x \in i .. m : x \in DOMAIN p
      BY <1>0
    <3>2. Part(p, 1, i - 1) \subseteq Items(p) /\ Part(p, i, m) \subseteq Items(p)
      BY <3>1 DEF Part, Items
    <3> QED BY <2>2, <3>2 DEF Lists
  <2>6. IdsOf(live) \subseteq IdsOf(p)
    BY <2>5, IdsOfItems
  <2>7. mpc' # "expiring"
    BY <2>3 DEF Opens, Idles, Awaits
  <2>8. QueueGood'
    BY <2>1, <2>2, <2>4, <2>6, <2>7 DEF QueueGood, Lists
  <2> QED BY <2>1, <2>3, <2>5, <2>7, <2>8 DEF Ticks
<1>2. CASE due # {}
  <2> DEFINE j == Oldest(due)
             kk == Joined(k, p, i, j - 1)
  <2>1. /\ pool' = p /\ mpc' = "expiring" /\ at' = j + 1 /\ keep' = kk
        /\ open' = o \ {p[j].id} /\ ended' = ended \cup {<<p[j].id, "expired">>}
        /\ games' = games /\ active' = active
    BY <1>2 DEF Expires, gameVars, Joined
  <2>2. j \in i .. m
    <3>1. due \subseteq Nat
      OBVIOUS
    <3> HIDE DEF due
    <3>2. j \in due
      BY <1>2, <3>1, OldestIsIn
    <3> QED BY <3>2 DEF due
  <2> HIDE DEF j, due, m
  <2>3. /\ j - 1 \in i - 1 .. m /\ j \in DOMAIN p /\ j \in 1 .. m
        /\ \A x \in 1 .. i - 1 : x \in 1 .. j - 1 /\ x \in DOMAIN p /\ x # j
        /\ \A x \in i .. j - 1 : x \in 1 .. j - 1 /\ x \in DOMAIN p /\ x # j
        /\ \A x \in i .. m : x \in DOMAIN p /\ (x \in i .. j - 1 \/ x = j \/ x \in j + 1 .. m)
        /\ \A x \in j + 1 .. m : x \in i .. m /\ x # j
        /\ \A x \in i .. j - 1 : x \in i .. m
    BY <1>0, <2>2
  <2>4. Lists(kk, Items(k) \cup Part(p, i, j - 1))
    <3>1. j - 1 \in i - 1 .. Len(p)
      BY <2>3 DEF m
    <3> QED BY <3>1, JoinedItems
  <2> HIDE DEF kk
  <2>5. Items(kk) \subseteq Part(p, 1, j - 1)
    <3>1. Part(p, 1, i - 1) \subseteq Part(p, 1, j - 1) /\ Part(p, i, j - 1) \subseteq Part(p, 1, j - 1)
      BY <2>3 DEF Part
    <3> QED BY <2>4, <3>1 DEF Lists
  <2>6. o = IdsOf(k) \cup {p[x].id : x \in i .. m}
    BY DEF m
  <2>7. IdsOf(kk) = IdsOf(k) \cup {p[x].id : x \in i .. j - 1}
    <3>1. IdsOf(kk) = {t.id : t \in Items(k) \cup Part(p, i, j - 1)}
      BY <2>4, IdsOfItems DEF Lists
    <3>2. IdsOf(k) = {t.id : t \in Items(k)}
          /\ {p[x].id : x \in i .. j - 1} = {t.id : t \in Part(p, i, j - 1)}
      BY IdsOfItems DEF Part
    <3> QED BY <3>1, <3>2
  <2>8. \A x \in DOMAIN p : x # j => p[x].id # p[j].id
    BY <2>3 DEF Numbered
  <2>9. p[j].id \notin IdsOf(k)
    <3>1. \A t \in Part(p, 1, i - 1) : t.id # p[j].id
      BY <2>3, <2>8 DEF Part
    <3> QED BY <3>1, IdsOfItems
  <2>10. open' = IdsOf(kk) \cup {p[x].id : x \in j + 1 .. m}
    <3>1. ASSUME NEW id PROVE id \in o \ {p[j].id} <=> id \in IdsOf(kk) \cup {p[x].id : x \in j + 1 .. m}
      <4>1. ASSUME id \in o, id # p[j].id PROVE id \in IdsOf(kk) \cup {p[x].id : x \in j + 1 .. m}
        BY <2>3, <2>6, <2>7, <4>1
      <4>2. ASSUME id \in IdsOf(kk) \cup {p[x].id : x \in j + 1 .. m} PROVE id \in o /\ id # p[j].id
        BY <2>3, <2>6, <2>7, <2>8, <2>9, <4>2
      <4> QED BY <4>1, <4>2
    <3> QED BY <2>1, <3>1
  <2>11. j + 1 <= m + 1 /\ (j + 1) - 1 = j /\ Part(p, 1, j - 1) \subseteq Part(p, 1, j)
    <3>1. j + 1 <= m + 1 /\ (j + 1) - 1 = j /\ \A x \in 1 .. j - 1 : x \in 1 .. j
      BY <1>0, <2>3
    <3> QED BY <3>1 DEF Part
  <2>12. QueueGood'
    <3>1. Items(keep') \subseteq {pool'[x] : x \in 1 .. at' - 1}
      BY <2>1, <2>5, <2>11 DEF Part
    <3>2. at' <= Len(pool') + 1 /\ open' = IdsOf(keep') \cup {pool'[x].id : x \in at' .. Len(pool')}
      BY <2>1, <2>10, <2>11 DEF m
    <3>3. Numbered(keep')
      BY <2>1, <2>4 DEF Lists
    <3> QED BY <2>1, <3>1, <3>2, <3>3 DEF QueueGood
  <2>13. p[j] \in Items(p) /\ p[j].id \in o
    BY <2>2, <2>3, <2>6 DEF Items
  <2>14. Expiry(p)
    BY <2>1, <2>13 DEF Expiry
  <2> QED BY <2>1, <2>12, <2>14
<1> QED BY <1>1, <1>2

\* A step of the matcher's own: it takes tickets out of the index, and opens a game
\* for what is left, or goes on waiting.
LEMMA MatcherMoves ==
    ASSUME IInv, QueueGood, Matcher
    PROVE  /\ QueueGood' /\ Items(pool') \subseteq Items(pool) /\ open' \subseteq open
           /\ mpc \notin Awaits /\ UNCHANGED <<seeks, sess, inc>>
           /\ Expiry(pool') \/ (Ticks(pool') /\ mpc' # "expiring")
<1>0. pool \in Seq(Ticket) /\ keep \in Seq(Ticket) /\ Numbered(pool) /\ now \in Nat /\ tick \in Nat
  BY DEF IInv, QueuesTyped, QueueGood
<1>1. CASE TickStarts
  <2> DEFINE p == Reaped(pool)
             o == open \ (IdsOf(pool) \ IdsOf(p))
  <2>1. Expires(p, 1, Empty, o, now) /\ mpc = "idle" /\ UNCHANGED <<seeks, sess, inc>>
    BY <1>1 DEF TickStarts, Empty, sessVars
  <2>2. p \in Seq(Ticket) /\ Numbered(p) /\ Items(p) \subseteq Items(pool)
    <3> DEFINE alive == {i \in DOMAIN pool : Alive(pool[i])}
    <3>1. p = Keep(pool, alive)
      BY DEF Reaped
    <3> HIDE DEF p, alive
    <3>2. /\ p \in Seq(Ticket) /\ Numbered(p)
          /\ \A t : t \in Items(p) <=> \E i \in DOMAIN pool : i \in alive /\ pool[i] = t
      BY <1>0, <3>1, KeptItems
    <3> QED BY <3>2 DEF Items
  <2> HIDE DEF p
  <2>3. IdsOf(p) \subseteq IdsOf(pool)
    BY <2>2, IdsOfItems
  <2>4. o = IdsOf(p) /\ o \subseteq open /\ IdsOf(p) \subseteq 1 .. seeks
    BY <2>1, <2>3 DEF QueueGood
  <2>5. Empty \in Seq(Ticket) /\ Numbered(Empty) /\ Items(Empty) = {} /\ IdsOf(Empty) = {}
    BY DEF Empty, Numbered, Items, IdsOf
  <2>6. 1 \in 1 .. Len(p) + 1 /\ DOMAIN p = 1 .. Len(p)
    BY <2>2
  <2>7. o = IdsOf(Empty) \cup {p[x].id : x \in 1 .. Len(p)}
    BY <2>4, <2>5, <2>6 DEF IdsOf
  <2>8. Items(Empty) \subseteq Part(p, 1, 1 - 1)
    BY <2>5
  <2> HIDE DEF o
  <2>9. /\ QueueGood' /\ Items(pool') \subseteq Items(p) /\ open' \subseteq o
        /\ Expiry(p) \/ (Ticks(pool') /\ mpc' # "expiring")
    BY <1>0, <2>1, <2>2, <2>4, <2>5, <2>6, <2>7, <2>8, ExpiresMoves
  <2>10. Expiry(p) => Expiry(pool')
    BY DEF Expiry
  <2> QED BY <2>1, <2>2, <2>4, <2>9, <2>10 DEF Awaits
<1>2. CASE ExpiryTold
  <2>1. Expires(pool, at, keep, open, tick) /\ mpc = "expiring" /\ UNCHANGED <<seeks, sess, inc>>
    BY <1>2 DEF ExpiryTold, sessVars
  <2>2. /\ at \in 1 .. Len(pool) + 1 /\ Numbered(keep) /\ Items(keep) \subseteq Part(pool, 1, at - 1)
        /\ open = IdsOf(keep) \cup {pool[x].id : x \in at .. Len(pool)}
        /\ IdsOf(pool) \subseteq 1 .. seeks /\ open \subseteq open
    <3>1. at \in Nat /\ at >= 1 /\ at <= Len(pool) + 1 /\ Len(pool) \in Nat
      BY <1>0, <2>1 DEF IInv, QueuesTyped, QueueGood
    <3> QED BY <2>1, <3>1 DEF QueueGood, Part
  <2>3. /\ QueueGood' /\ Items(pool') \subseteq Items(pool) /\ open' \subseteq open
        /\ Expiry(pool) \/ (Ticks(pool') /\ mpc' # "expiring")
    BY <1>0, <2>1, <2>2, ExpiresMoves
  <2>4. Expiry(pool) => Expiry(pool')
    BY DEF Expiry
  <2> QED BY <2>1, <2>3, <2>4 DEF Awaits
<1> QED BY <1>1, <1>2 DEF Matcher

\* The launch of a game returns: its tickets leave the pool and the index, and a game
\* is opened for others that are left.
LEMMA LaunchedMoves ==
    ASSUME QuietInv, NEW i, Launched(i)
    PROVE  /\ i \in DOMAIN games /\ i = Len(games) /\ mpc \in Awaits /\ mpc' # "expiring"
           /\ QueueGood' /\ UNCHANGED <<seeks, sess, ended>>
           /\ \A t : t \in Items(pool') <=> t \in Items(pool) /\ t.id \notin IdsOf(taken)
           /\ open' = open \ IdsOf(taken)
           /\ \E src \in Seq(Ticket) :
                 /\ Items(src) \subseteq Items(pool')
                 /\ LET gs == [games EXCEPT ![i].st = "running"] IN Opens(src, gs) \/ Idles(gs)
<1> DEFINE gs == [games EXCEPT ![i].st = "running"]
           p == Without(pool, IdsOf(taken))
<1>0. /\ pool \in Seq(Ticket) /\ greet \in Seq(Ticket) /\ Numbered(pool) /\ now \in Nat /\ tick \in Nat
      /\ games \in Seq(Games)
  BY DEF QuietInv, IInv, QueuesTyped, QueueGood, GamesGood
<1>1. /\ i \in DOMAIN games /\ i = Len(games) /\ mpc \in Awaits /\ games[i].by = "matcher"
      /\ open = IdsOf(pool) /\ mpc # "expiring"
  BY DEF Launched, Sending, Sends, Awaits, QuietInv, LaunchGood, QueueGood
<1>2. /\ pool' = p /\ open' = open \ IdsOf(taken) /\ UNCHANGED <<seeks, sess, ended>>
      /\ IF mpc = "pairing" THEN Pairing(p, gs, tick) ELSE Greeting(greet, gs, tick)
  BY <1>1 DEF Launched, sessVars, histVars
<1>3. gs \in Seq(Games)
  <2>1. [games[i] EXCEPT !.st = "running"] \in Games
    <3>1. games[i] \in Games
      <4> HIDE DEF Games
      <4> QED BY <1>0, <1>1
    <3> QED BY <3>1 DEF Games, States, Live
  <2> HIDE DEF Games
  <2> QED BY <1>0, <1>1, <2>1
<1> HIDE DEF gs
<1>4. /\ p \in Seq(Ticket) /\ Numbered(p)
      /\ \A t : t \in Items(p) <=> t \in Items(pool) /\ t.id \notin IdsOf(taken)
  <2> DEFINE left == {j \in DOMAIN pool : pool[j].id \notin IdsOf(taken)}
  <2>1. p = Keep(pool, left)
    BY DEF Without
  <2> HIDE DEF p, left
  <2>2. /\ p \in Seq(Ticket) /\ Numbered(p)
        /\ \A t : t \in Items(p) <=> \E j \in DOMAIN pool : j \in left /\ pool[j] = t
    BY <1>0, <2>1, KeptItems
  <2>3. \A j \in DOMAIN pool : j \in left <=> pool[j].id \notin IdsOf(taken)
    BY DEF left
  <2> QED BY <2>2, <2>3 DEF Items
<1> HIDE DEF p
<1>5. IdsOf(p) = open \ IdsOf(taken) /\ IdsOf(p) \subseteq 1 .. seeks
  <2>1. IdsOf(p) = {t.id : t \in Items(p)} /\ IdsOf(pool) = {t.id : t \in Items(pool)}
    BY IdsOfItems
  <2> QED BY <1>1, <1>4, <2>1 DEF QuietInv, QueueGood
<1>6. \E src \in Seq(Ticket) : Items(src) \subseteq Items(p) /\ (Opens(src, gs) \/ Idles(gs))
  <2>1. CASE mpc = "pairing"
    <3>1. Opens(p, gs) \/ Idles(gs)
      BY <1>0, <1>2, <1>3, <1>4, <2>1, PairingOpens
    <3> QED BY <1>4, <3>1
  <2>2. CASE mpc # "pairing"
    <3>1. /\ Numbered(greet) /\ Items(greet) \subseteq Items(pool)
          /\ IdsOf(greet) \cap IdsOf(taken) = {}
      BY <1>1 DEF QuietInv, LaunchGood
    <3>2. Items(greet) \subseteq Items(p)
      BY <1>4, <3>1, IdsOfItems
    <3>3. Opens(greet, gs) \/ Idles(gs)
      BY <1>0, <1>2, <1>3, <2>2, <3>1, GreetingOpens
    <3> QED BY <1>0, <3>2, <3>3
  <2> QED BY <2>1, <2>2
<1>7. mpc' # "expiring"
  BY <1>6 DEF Opens, Idles, Awaits
<1>8. QueueGood'
  BY <1>2, <1>4, <1>5, <1>7 DEF QueueGood
<1> QED BY <1>1, <1>2, <1>4, <1>6, <1>7, <1>8 DEF gs

-----------------------------------------------------------------------------
(* The invariant of a quiet pool. *)

\* A game is opened after games none of which is being launched.
LEMMA OpensLaunch ==
    ASSUME NEW gs \in Seq(Games), NEW src, Items(src) \subseteq Items(pool'),
           \A j \in DOMAIN gs : gs[j].by = "matcher" /\ gs[j].st # "created" /\ gs[j].st \notin Sends,
           Opens(src, gs) \/ Idles(gs)
    PROVE  LaunchGood'
<1>1. CASE Idles(gs)
  BY <1>1 DEF Idles, LaunchGood, Awaits
<1>2. CASE Opens(src, gs)
  <2>1. PICK g \in Games :
            /\ games' = Append(gs, g) /\ g.st = "to_white" /\ g.by = "matcher" /\ mpc' \in Awaits
            /\ Seated(g, taken')
            /\ Items(taken') \subseteq Items(src) /\ Items(greet') \subseteq Items(src)
            /\ Numbered(greet') /\ IdsOf(greet') \cap IdsOf(taken') = {}
    BY <1>2 DEF Opens
  <2> DEFINE n == Len(gs)
  <2>2. /\ Len(games') = n + 1 /\ DOMAIN games' = 1 .. n + 1 /\ games'[n + 1] = g
        /\ n \in Nat /\ DOMAIN gs = 1 .. n
        /\ \A j \in 1 .. n : games'[j] = gs[j]
    <3> HIDE DEF Games
    <3> QED BY <2>1
  <2> HIDE DEF n
  <2>3. \A j \in DOMAIN games' : (j \in 1 .. n /\ games'[j] = gs[j]) \/ (j = n + 1 /\ games'[j] = g)
    BY <2>2
  <2>4. games' # <<>>
    BY <2>2
  <2>5. \A j \in DOMAIN games' :
            /\ games'[j].by = "matcher" /\ games'[j].st # "created"
            /\ games'[j].st \in Sends => j = Len(games') /\ mpc' \in Awaits
    BY <2>1, <2>2, <2>3 DEF Sends
  <2>6. Seated(games'[Len(games')], taken') /\ games'[Len(games')].st \in Sends
    BY <2>1, <2>2 DEF Sends
  <2> QED BY <2>1, <2>4, <2>5, <2>6 DEF LaunchGood
<1> QED BY <1>1, <1>2

\* The state of one game changes.
OnlyState(i, st) ==
    /\ games' \in Seq(Games) /\ DOMAIN games' = DOMAIN games /\ Len(games') = Len(games)
    /\ \A j \in DOMAIN games : j # i => games'[j] = games[j]
    /\ games'[i].white = games[i].white /\ games'[i].black = games[i].black
    /\ games'[i].by = games[i].by /\ games'[i].st = st

\* One game's state changes, and nothing else of any game.
LEMMA OneStateChanges ==
    ASSUME IInv, NEW i \in DOMAIN games, NEW st \in States, games' = [games EXCEPT ![i].st = st]
    PROVE  OnlyState(i, st)
<1>1. games \in Seq(Games)
  BY DEF IInv, GamesGood
<1>2. games[i] \in Games
  <2> HIDE DEF Games
  <2> QED BY <1>1
<1> DEFINE g == [games[i] EXCEPT !.st = st]
<1>3. /\ g \in Games /\ g.white = games[i].white /\ g.black = games[i].black
      /\ g.by = games[i].by /\ g.st = st
  BY <1>2 DEF Games
<1>4. games' = [games EXCEPT ![i] = g]
  BY <1>1
<1> HIDE DEF g
<1>5. /\ games' \in Seq(Games) /\ DOMAIN games' = DOMAIN games /\ Len(games') = Len(games)
      /\ games'[i] = g /\ \A j \in DOMAIN games : j # i => games'[j] = games[j]
  <2> HIDE DEF Games
  <2> QED BY <1>1, <1>3, <1>4
<1> QED BY <1>3, <1>5 DEF OnlyState

\* White was told.
LEMMA WhiteToldQuiet ==
    ASSUME QuietInv, NEW i, WhiteTold(i) PROVE QueueGood' /\ LaunchGood'
<1>1. /\ i \in DOMAIN games /\ games[i].st \in Sends /\ i = Len(games) /\ mpc \in Awaits
      /\ UNCHANGED <<pool, open, seeks, mpc, at, keep, greet, taken>>
  BY DEF WhiteTold, Sending, QuietInv, LaunchGood, Sends, queueVars, loopVars, histVars
<1>2. OnlyState(i, "to_black")
  BY <1>1, OneStateChanges DEF WhiteTold, QuietInv, States, Live
<1>3. QueueGood'
  BY <1>1 DEF QuietInv, QueueGood
<1>4. Seated(games'[Len(games')], taken') /\ games'[Len(games')].st \in Sends /\ games' # <<>>
  <2>1. Seated(games[i], taken)
    BY <1>1 DEF QuietInv, LaunchGood
  <2>2. Len(games') = i
    BY <1>1, <1>2 DEF OnlyState
  <2>3. Seated(games'[i], taken')
    BY <1>1, <1>2, <2>1 DEF Seated, OnlyState
  <2>4. games'[i].st \in Sends /\ games' # <<>>
    BY <1>1, <1>2 DEF Sends, OnlyState
  <2> QED BY <2>2, <2>3, <2>4
<1>5. \A j \in DOMAIN games' :
          /\ games'[j].by = "matcher" /\ games'[j].st # "created"
          /\ games'[j].st \in Sends => j = Len(games') /\ mpc' \in Awaits
  BY <1>1, <1>2 DEF OnlyState, QuietInv, LaunchGood
<1> QED BY <1>1, <1>3, <1>4, <1>5 DEF QuietInv, LaunchGood

\* The launch returns.
LEMMA LaunchedQuiet ==
    ASSUME QuietInv, NEW i, Launched(i) PROVE QueueGood' /\ LaunchGood'
<1> DEFINE gs == [games EXCEPT ![i].st = "running"]
<1>1. /\ i \in DOMAIN games /\ i = Len(games) /\ QueueGood'
      /\ \E src \in Seq(Ticket) : Items(src) \subseteq Items(pool') /\ (Opens(src, gs) \/ Idles(gs))
  BY LaunchedMoves
<1>2. /\ DOMAIN gs = DOMAIN games /\ gs[i].by = games[i].by /\ gs[i].st = "running"
      /\ \A j \in DOMAIN games : j # i => gs[j] = games[j]
      /\ gs \in Seq(Games)
  <2>1. games \in Seq(Games)
    BY DEF QuietInv, IInv, GamesGood
  <2>2. games[i] \in Games
    <3> HIDE DEF Games
    <3> QED BY <1>1, <2>1
  <2>3. [games[i] EXCEPT !.st = "running"] \in Games
    BY <2>2 DEF Games, States, Live
  <2>4. gs = [games EXCEPT ![i] = [games[i] EXCEPT !.st = "running"]]
    BY <2>1
  <2>5. gs \in Seq(Games) /\ DOMAIN gs = DOMAIN games /\ gs[i] = [games[i] EXCEPT !.st = "running"]
        /\ \A j \in DOMAIN games : j # i => gs[j] = games[j]
    <3> HIDE DEF Games
    <3> QED BY <1>1, <2>1, <2>3
  <2> QED BY <2>2, <2>5 DEF Games
<1> HIDE DEF gs
<1>3. \A j \in DOMAIN gs : gs[j].by = "matcher" /\ gs[j].st # "created" /\ gs[j].st \notin Sends
  BY <1>1, <1>2 DEF QuietInv, LaunchGood, Sends
<1> QED BY <1>1, <1>2, <1>3, OpensLaunch

\* The launch raises, and the tick ends.
LEMMA LaunchFailsQuiet ==
    ASSUME QuietInv, NEW i, LaunchFails(i) PROVE QueueGood' /\ LaunchGood'
<1>1. /\ i \in DOMAIN games /\ games[i].st \in Sends /\ games[i].by = "matcher" /\ i = Len(games)
      /\ mpc \in Awaits
  BY DEF LaunchFails, Sending, QuietInv, LaunchGood, Sends
<1>2. games' = [games EXCEPT ![i].st = "stranded"] /\ mpc' = "idle" /\ UNCHANGED <<pool, open, seeks>>
  BY <1>1 DEF LaunchFails, TickEnds, queueVars, histVars
<1>3. OnlyState(i, "stranded")
  BY <1>1, <1>2, OneStateChanges DEF QuietInv, States
<1>4. QueueGood'
  BY <1>1, <1>2 DEF QuietInv, QueueGood, Awaits
<1>5. \A j \in DOMAIN games' : games'[j].by = "matcher" /\ games'[j].st # "created"
                               /\ games'[j].st \notin Sends
  BY <1>1, <1>3 DEF OnlyState, QuietInv, LaunchGood, Sends
<1> QED BY <1>2, <1>4, <1>5 DEF LaunchGood, Awaits

\* A game is over.
LEMMA GameEndsQuiet ==
    ASSUME QuietInv, NEW i, GameEnds(i) PROVE QueueGood' /\ LaunchGood'
<1>1. /\ i \in DOMAIN games /\ games[i].st = "running" /\ games' = [games EXCEPT ![i].st = "over"]
      /\ UNCHANGED <<pool, open, seeks, mpc, at, keep, greet, taken>>
  BY DEF GameEnds, queueVars, loopVars, histVars
<1>2. OnlyState(i, "over")
  BY <1>1, OneStateChanges DEF QuietInv, States
<1>3. QueueGood'
  BY <1>1 DEF QuietInv, QueueGood
<1>4. mpc \in Awaits => i # Len(games)
  BY <1>1 DEF QuietInv, LaunchGood, Sends
<1>5. mpc \in Awaits => Len(games) \in DOMAIN games
  <2>1. games \in Seq(Games) /\ (mpc \in Awaits => games # <<>>)
    BY DEF QuietInv, IInv, GamesGood, LaunchGood
  <2> HIDE DEF Games
  <2> QED BY <2>1
<1>6. mpc \in Awaits => games'[Len(games')] = games[Len(games)] /\ games' # <<>>
  BY <1>2, <1>4, <1>5 DEF OnlyState
<1>7. \A j \in DOMAIN games' :
          /\ games'[j].by = "matcher" /\ games'[j].st # "created"
          /\ games'[j].st \in Sends => j = Len(games') /\ mpc' \in Awaits
  BY <1>1, <1>2 DEF OnlyState, QuietInv, LaunchGood, Sends
<1> QED BY <1>1, <1>3, <1>6, <1>7 DEF QuietInv, LaunchGood

\* A new seek has a new number.
LEMMA SeekAppends ==
    ASSUME QuietInv, NEW b \in Bot, Seek(b)
    PROVE  LET t == [id |-> seeks + 1, bot |-> b, sess |-> sess[b], at |-> now] IN
           /\ t \in Ticket /\ t.id \notin IdsOf(pool) /\ pool' = Append(pool, t)
           /\ pool' \in Seq(Ticket) /\ Numbered(pool') /\ Items(pool') = Items(pool) \cup {t}
           /\ Len(pool') = Len(pool) + 1 /\ pool'[Len(pool) + 1] = t
           /\ \A i \in 1 .. Len(pool) : pool'[i] = pool[i]
           /\ open' = open \cup {t.id} /\ seeks' = seeks + 1
           /\ UNCHANGED <<sess, games, active, mpc, at, keep, greet, taken, ended>>
<1> DEFINE t == [id |-> seeks + 1, bot |-> b, sess |-> sess[b], at |-> now]
<1>1. pool \in Seq(Ticket) /\ Numbered(pool) /\ seeks \in Nat /\ IdsOf(pool) \subseteq 1 .. seeks
  BY DEF QuietInv, QueueGood, IInv, QueuesTyped
<1>2. t \in Ticket /\ t.id = seeks + 1
  BY DEF QuietInv, IInv, QueuesTyped, Ticket
<1>3. t.id \notin IdsOf(pool)
  BY <1>1, <1>2
<1>4. /\ pool' = Append(pool, t) /\ open' = open \cup {t.id} /\ seeks' = seeks + 1
      /\ UNCHANGED <<sess, games, active, mpc, at, keep, greet, taken, ended>>
  BY DEF Seek, sessVars, loopVars, gameVars
<1> HIDE DEF t
<1>5. /\ pool' \in Seq(Ticket) /\ Numbered(pool') /\ Items(pool') = Items(pool) \cup {t}
      /\ Len(pool') = Len(pool) + 1 /\ pool'[Len(pool) + 1] = t
      /\ \A i \in 1 .. Len(pool) : pool'[i] = pool[i]
  BY <1>1, <1>2, <1>3, <1>4, AppendedItems
<1> QED BY <1>2, <1>3, <1>4, <1>5 DEF t

\* A seek is put at the end of the pool with a number of its own.
LEMMA SeekQuiet ==
    ASSUME QuietInv, NEW b \in Bot, Seek(b) PROVE QueueGood' /\ LaunchGood'
<1> DEFINE t0 == [id |-> seeks + 1, bot |-> b, sess |-> sess[b], at |-> now]
<1>0. PICK t : t = t0
  OBVIOUS
<1>1. /\ t \in Ticket /\ pool' \in Seq(Ticket) /\ Numbered(pool') /\ Items(pool') = Items(pool) \cup {t}
      /\ Len(pool') = Len(pool) + 1 /\ pool'[Len(pool) + 1] = t
      /\ \A i \in 1 .. Len(pool) : pool'[i] = pool[i]
      /\ open' = open \cup {t.id} /\ seeks' = seeks + 1
      /\ UNCHANGED <<sess, games, active, mpc, at, keep, greet, taken, ended>>
  BY <1>0, SeekAppends
<1>2. t.id = seeks + 1
  BY <1>0
<1>3. pool \in Seq(Ticket) /\ Len(pool) \in Nat /\ seeks \in Nat /\ QueueGood /\ at \in Nat
  BY DEF QuietInv, IInv, QueuesTyped
<1>4. IdsOf(pool') = IdsOf(pool) \cup {t.id}
  <2>1. IdsOf(pool') = {u.id : u \in Items(pool')} /\ IdsOf(pool) = {u.id : u \in Items(pool)}
    BY IdsOfItems
  <2> QED BY <1>1, <2>1
<1>5. IdsOf(pool') \subseteq 1 .. seeks'
  BY <1>1, <1>2, <1>3, <1>4 DEF QueueGood
<1>6. ASSUME mpc' = "expiring"
      PROVE  /\ at' <= Len(pool') + 1 /\ Numbered(keep')
             /\ Items(keep') \subseteq {pool'[x] : x \in 1 .. at' - 1}
             /\ open' = IdsOf(keep') \cup {pool'[x].id : x \in at' .. Len(pool')}
  <2>1. /\ at <= Len(pool) + 1 /\ Numbered(keep)
        /\ Items(keep) \subseteq {pool[x] : x \in 1 .. at - 1}
        /\ open = IdsOf(keep) \cup {pool[x].id : x \in at .. Len(pool)}
        /\ at' = at /\ keep' = keep
    BY <1>1, <1>3, <1>6 DEF QueueGood
  <2> DEFINE n == Len(pool)
  <2>2. n \in Nat /\ Len(pool') = n + 1 /\ pool'[n + 1] = t /\ \A i \in 1 .. n : pool'[i] = pool[i]
    BY <1>1, <1>3
  <2>3. at \in 1 .. n + 1
    BY <1>3, <1>6, <1>1, <2>1 DEF QuietInv, IInv, QueuesTyped
  <2> HIDE DEF n
  <2>4. /\ \A x \in 1 .. at - 1 : x \in 1 .. n
        /\ \A x \in at .. n : x \in 1 .. n /\ x \in at .. n + 1
        /\ \A x \in at .. n + 1 : x \in at .. n \/ x = n + 1
        /\ n + 1 \in at .. n + 1
    BY <2>2, <2>3
  <2>5. at' <= Len(pool') + 1
    BY <2>1, <2>2, <2>3
  <2>6. Items(keep') \subseteq {pool'[x] : x \in 1 .. at' - 1}
    BY <2>1, <2>2, <2>4
  <2>7. {pool'[x].id : x \in at .. n + 1} = {pool[x].id : x \in at .. n} \cup {t.id}
    BY <2>2, <2>4
  <2>8. open' = IdsOf(keep') \cup {pool'[x].id : x \in at' .. Len(pool')}
    BY <1>1, <2>1, <2>2, <2>7 DEF n
  <2> QED BY <2>1, <2>5, <2>6, <2>8
<1>7. QueueGood'
  BY <1>1, <1>3, <1>4, <1>5, <1>6 DEF QueueGood
<1>8. LaunchGood'
  BY <1>1 DEF QuietInv, LaunchGood
<1> QED BY <1>7, <1>8

\* Every step keeps the invariant of a quiet pool.
LEMMA QuietStep == QuietInv /\ [Next]_vars => QuietInv'
<1> SUFFICES ASSUME QuietInv, [Next]_vars PROVE QuietInv'
  OBVIOUS
<1>0. IInv' /\ Quiet'
  BY IInvStep DEF QuietInv, Quiet
<1>1. CASE Matcher
  <2>1. /\ QueueGood' /\ mpc \notin Awaits
        /\ Expiry(pool') \/ (Ticks(pool') /\ mpc' # "expiring")
    BY <1>1, MatcherMoves DEF QuietInv
  <2>2. games \in Seq(Games) /\ \A j \in DOMAIN games : games[j].by = "matcher"
                                    /\ games[j].st # "created" /\ games[j].st \notin Sends
    BY <2>1 DEF QuietInv, IInv, GamesGood, LaunchGood
  <2>3. LaunchGood'
    <3>1. CASE Expiry(pool')
      BY <2>2, <3>1 DEF Expiry, LaunchGood, Awaits
    <3>2. CASE Ticks(pool')
      BY <2>2, <3>2, OpensLaunch DEF Ticks
    <3> QED BY <2>1, <3>1, <3>2
  <2> QED BY <1>0, <2>1, <2>3 DEF QuietInv
<1>2. ASSUME NEW i \in 1 .. MaxGames,
             AckChallenge(i) \/ WhiteTold(i) \/ Launched(i) \/ LaunchFails(i)
      PROVE  QuietInv'
  <2>1. ~AckChallenge(i)
    BY DEF AckChallenge, QuietInv, LaunchGood
  <2> QED BY <1>0, <1>2, <2>1, WhiteToldQuiet, LaunchedQuiet, LaunchFailsQuiet DEF QuietInv
<1>3. ASSUME NEW b \in Bot, Clock \/ Connect(b) \/ Disconnect(b) PROVE QuietInv'
  <2>1. UNCHANGED <<pool, open, seeks, mpc, at, keep, greet, taken, games>>
    BY <1>3 DEF Clock, Connect, Disconnect, queueVars, loopVars, gameVars, histVars
  <2> QED BY <1>0, <2>1 DEF QuietInv, QueueGood, LaunchGood
<1>4. ASSUME NEW b \in Bot, Seek(b) PROVE QuietInv'
  BY <1>0, <1>4, SeekQuiet DEF QuietInv
<1>5. ASSUME NEW t, Cancel(t) PROVE FALSE
  BY <1>5 DEF Cancel, QuietInv, Quiet
<1>6. ASSUME NEW b \in Bot, NEW o \in Bot, DirectChallenge(b, o) PROVE FALSE
  BY <1>6 DEF DirectChallenge, QuietInv, Quiet
<1>7. ASSUME NEW i \in 1 .. MaxGames, GameEnds(i) PROVE QuietInv'
  BY <1>0, <1>7, GameEndsQuiet DEF QuietInv
<1>8. CASE Clock
  <2>1. UNCHANGED <<pool, open, seeks, mpc, at, keep, greet, taken, games>>
    BY <1>8 DEF Clock, queueVars, loopVars, gameVars, histVars
  <2> QED BY <1>0, <2>1 DEF QuietInv, QueueGood, LaunchGood
<1>9. CASE UNCHANGED vars
  <2>1. UNCHANGED <<pool, open, seeks, mpc, at, keep, greet, taken, games>>
    BY <1>9 DEF vars, queueVars, loopVars, gameVars, histVars
  <2> QED BY <1>0, <2>1 DEF QuietInv, QueueGood, LaunchGood
<1> QED BY <1>1, <1>2, <1>3, <1>4, <1>5, <1>6, <1>7, <1>8, <1>9 DEF Next, Launches

\* No bot has sought, and no game was made.
LEMMA QuietBegins == Quiet /\ Init => QuietInv
<1> SUFFICES ASSUME Quiet, Init PROVE QuietInv
  OBVIOUS
<1>1. pool = <<>> /\ games = <<>> /\ open = {} /\ mpc = "idle"
  BY DEF Init
<1>2. Numbered(pool) /\ IdsOf(pool) = {}
  BY <1>1 DEF Numbered, IdsOf
<1>3. QueueGood /\ LaunchGood
  BY <1>1, <1>2 DEF QueueGood, LaunchGood, Awaits
<1> QED BY <1>3, InitIInv DEF QuietInv

\* Without cancels and challenges the index is that of the pool, and the game that is
\* launched is of tickets in it.
LEMMA QuietAlways == Quiet => (Spec => []QuietInv)
BY QuietStep, QuietBegins, PTL DEF Spec

\* As long as no bot cancels a seek or challenges another, the pool and the index of
\* seeks (matcher.py _pools and _by_seek) agree between two ticks, and never does the
\* index know a ticket that is not in the pool: for bots that seek as often as they
\* like and whose connections come and go.
THEOREM PoolIsIndexed == Quiet => (Spec => []PoolMatchesIndex)
<1>1. QuietInv => PoolMatchesIndex
  <2> SUFFICES ASSUME QuietInv PROVE PoolMatchesIndex
    OBVIOUS
  <2>1. mpc # "expiring" => open = IdsOf(pool)
    BY DEF QuietInv, QueueGood
  <2>2. CASE mpc = "expiring"
    <3>1. /\ at \in Nat /\ at >= 1 /\ pool \in Seq(Ticket)
          /\ Items(keep) \subseteq {pool[x] : x \in 1 .. at - 1} /\ at <= Len(pool) + 1
          /\ open = IdsOf(keep) \cup {pool[x].id : x \in at .. Len(pool)}
      BY <2>2 DEF QuietInv, QueueGood, IInv, QueuesTyped
    <3>2. (\A x \in 1 .. at - 1 : x \in DOMAIN pool) /\ \A x \in at .. Len(pool) : x \in DOMAIN pool
      BY <3>1
    <3>3. IdsOf(keep) \subseteq IdsOf(pool)
      <4>1. Items(keep) \subseteq Items(pool)
        BY <3>1, <3>2 DEF Items
      <4>2. IdsOf(keep) = {t.id : t \in Items(keep)} /\ IdsOf(pool) = {t.id : t \in Items(pool)}
        BY IdsOfItems
      <4> QED BY <4>1, <4>2
    <3>4. {pool[x].id : x \in at .. Len(pool)} \subseteq IdsOf(pool)
      BY <3>2 DEF IdsOf
    <3>5. open \subseteq IdsOf(pool)
      BY <3>1, <3>3, <3>4
    <3> QED BY <2>2, <3>5 DEF PoolMatchesIndex
  <2>3. CASE mpc # "expiring"
    BY <2>1, <2>3 DEF PoolMatchesIndex
  <2> QED BY <2>2, <2>3
<1> QED BY <1>1, QuietAlways, PTL
-----------------------------------------------------------------------------
(* Polite bots.                                                            *)

\* The bots and the seeks of a game are those of the tickets that are seated.
LEMMA SeatedMeans ==
    ASSUME NEW g, NEW ts \in Seq(Ticket), Seated(g, ts)
    PROVE  /\ \A b \in Bot : b \in Players(g) <=> \E t \in Items(ts) : t.bot = b
           /\ \A id : id # 0 => (id \in SeeksOf(g) <=> \E t \in Items(ts) : t.id = id)
<1>1. \A t \in Items(ts) : t \in Ticket /\ SeatOf(t) = [bot |-> t.bot, sess |-> t.sess, seek |-> t.id]
  BY DEF Items, SeatOf, Seat
<1>2. PICK w \in Items(ts) : g.white = SeatOf(w)
  BY DEF Seated
<1>3. g.white.bot = w.bot /\ g.white.seek = w.id
  BY <1>1, <1>2
<1>4. ASSUME NEW u \in Items(ts) PROVE u.bot \in Players(g) /\ u.id \in SeeksOf(g)
  <2>1. SeatOf(u) \in {g.white, g.black}
    BY DEF Seated
  <2>2. SeatOf(u).bot = u.bot /\ SeatOf(u).seek = u.id
    BY <1>1
  <2> QED BY <2>1, <2>2 DEF Players, SeeksOf
<1>5. CASE g.black = HouseSeat
  <2>1. g.black.bot = House /\ g.black.seek = 0 /\ House \notin Bot
    BY <1>5, MatcherAssumption DEF HouseSeat, Seat
  <2> QED BY <1>3, <1>4, <2>1 DEF Players, SeeksOf
<1>6. CASE g.black # HouseSeat
  <2>1. PICK u \in Items(ts) : g.black = SeatOf(u)
    BY <1>6 DEF Seated
  <2>2. g.black.bot = u.bot /\ g.black.seek = u.id
    BY <1>1, <2>1
  <2> QED BY <1>3, <1>4, <2>2 DEF Players, SeeksOf
<1> QED BY <1>5, <1>6

\* A game that is opened for bots that have no other keeps them apart from theirs.
LEMMA OpensPolite ==
    ASSUME NEW gs, GamesGood(gs, active), NEW src, Items(src) \subseteq Items(pool'),
           IInv', OneTicket', LiveIn(gs), \A t \in Items(pool') : Free(t.bot, gs),
           Opens(src, gs) \/ Idles(gs)
    PROVE  LiveIsActive' /\ SeekersFree'
<1>1. CASE Idles(gs)
  <2>1. games' = gs /\ active' = active
    BY <1>1 DEF Idles
  <2> QED BY <2>1 DEF LiveIsActive, LiveIn, SeekersFree, Free
<1>2. CASE Opens(src, gs)
  <2>1. PICK g \in Games :
            /\ games' = Append(gs, g) /\ mpc' \in Awaits
            /\ Seated(g, taken') /\ Items(taken') \subseteq Items(pool')
            /\ active' = [b \in Bot |-> IF b \in Players(g) THEN Len(gs) + 1 ELSE active[b]]
    BY <1>2 DEF Opens
  <2> DEFINE n == Len(gs)
  <2>2. /\ DOMAIN games' = 1 .. n + 1 /\ games'[n + 1] = g /\ n \in Nat /\ DOMAIN gs = 1 .. n
        /\ \A j \in 1 .. n : games'[j] = gs[j] /\ j # n + 1
    <3>1. gs \in Seq(Games)
      BY DEF GamesGood
    <3> HIDE DEF Games
    <3> QED BY <2>1, <3>1
  <2>3. active' = [b \in Bot |-> IF b \in Players(g) THEN n + 1 ELSE active[b]]
    BY <2>1
  <2>4. \A b \in Bot : active[b] # 0 => active[b] \in 1 .. n
    BY <2>2 DEF GamesGood
  <2> HIDE DEF n
  <2>5. \A b \in Bot : b \in Players(g) <=> \E t \in Items(taken') : t.bot = b
    <3>1. taken' \in Seq(Ticket)
      BY DEF IInv, QueuesTyped
    <3> QED BY <2>1, <3>1, SeatedMeans
  <2>6. ASSUME NEW j \in 1 .. n, gs[j].st \in Live, NEW b \in Players(gs[j]) \cap Bot
        PROVE  active'[b] = j
    <3>1. active[b] = j /\ j # 0
      BY <2>2, <2>6 DEF LiveIn
    <3>2. ASSUME b \in Players(g) PROVE FALSE
      <4>1. PICK t \in Items(pool') : t.bot = b
        BY <2>1, <2>5, <3>2
      <4>2. gs[j].st = "stranded"
        BY <3>1, <4>1 DEF Free
      <4> QED BY <2>6, <4>2 DEF Live
    <3> QED BY <2>3, <3>1, <3>2
  <2>7. \A b \in Players(g) \cap Bot : active'[b] = n + 1
    BY <2>3
  <2>8. LiveIsActive'
    <3>1. \A j \in DOMAIN games' : j \in 1 .. n \/ j = n + 1
      BY <2>2
    <3>2. ASSUME NEW j \in DOMAIN games', games'[j].st \in Live,
                 NEW b \in Players(games'[j]) \cap Bot
          PROVE  active'[b] = j
      BY <2>2, <2>6, <2>7, <3>1, <3>2
    <3> QED BY <3>2 DEF LiveIsActive, LiveIn
  <2>9. ASSUME NEW t \in Items(pool'), t \notin Items(taken') PROVE Free(t.bot, games)'
    <3>1. t.bot \in Bot
      BY ItemsTyped DEF IInv, QueuesTyped
    <3>2. t.bot \notin Players(g)
      BY <2>1, <2>5, <2>9, <3>1 DEF OneTicket
    <3>3. active'[t.bot] = active[t.bot]
      BY <2>3, <3>1, <3>2
    <3>4. Free(t.bot, gs)
      OBVIOUS
    <3> QED BY <2>2, <2>4, <3>1, <3>3, <3>4 DEF Free
  <2> QED BY <2>1, <2>8, <2>9 DEF SeekersFree
<1> QED BY <1>1, <1>2
\* A step of the matcher's own.
LEMMA MatcherPolite ==
    ASSUME PoliteInv, IInv', Matcher PROVE OneTicket' /\ LiveIsActive' /\ SeekersFree'
<1>1. /\ Items(pool') \subseteq Items(pool) /\ mpc \notin Awaits
      /\ Expiry(pool') \/ Ticks(pool')
  BY MatcherMoves DEF PoliteInv, QuietInv
<1>2. OneTicket'
  BY <1>1 DEF PoliteInv, OneTicket
<1>3. \A t \in Items(pool') : Free(t.bot, games)
  BY <1>1 DEF PoliteInv, SeekersFree
<1>4. CASE Expiry(pool')
  <2>1. games' = games /\ active' = active
    BY <1>4 DEF Expiry
  <2> QED BY <1>2, <1>3, <2>1 DEF PoliteInv, LiveIsActive, LiveIn, SeekersFree, Free
<1>5. CASE Ticks(pool')
  <2>1. GamesGood(games, active) /\ LiveIn(games)
    BY DEF PoliteInv, QuietInv, IInv, LiveIsActive
  <2>2. Opens(pool', games) \/ Idles(games)
    BY <1>5 DEF Ticks
  <2> QED BY <1>2, <1>3, <2>1, <2>2, OpensPolite
<1> QED BY <1>1, <1>4, <1>5

\* The launch returns: the game runs, and the bots whose tickets are left have none.
LEMMA LaunchedPolite ==
    ASSUME PoliteInv, IInv', NEW i, Launched(i)
    PROVE  OneTicket' /\ LiveIsActive' /\ SeekersFree'
<1> DEFINE gs == [games EXCEPT ![i].st = "running"]
<1>1. /\ i \in DOMAIN games /\ i = Len(games) /\ mpc \in Awaits
      /\ \A t : t \in Items(pool') <=> t \in Items(pool) /\ t.id \notin IdsOf(taken)
      /\ \E src \in Seq(Ticket) : Items(src) \subseteq Items(pool') /\ (Opens(src, gs) \/ Idles(gs))
  BY LaunchedMoves DEF PoliteInv
<1>2. games[i].st \in Sends /\ GamesGood(games, active)
  BY DEF Launched, Sending, Sends, PoliteInv, QuietInv, IInv
<1>3. GamesGood(gs, active)
  BY <1>1, <1>2, StateChanges DEF States, Live, Bound
<1>4. /\ DOMAIN gs = DOMAIN games /\ gs[i].st = "running" /\ Players(gs[i]) = Players(games[i])
      /\ \A j \in DOMAIN games : j # i => gs[j] = games[j]
  <2>1. games[i] \in Games
    <3>1. games \in Seq(Games)
      BY <1>2 DEF GamesGood
    <3> HIDE DEF Games
    <3> QED BY <1>1, <3>1
  <2>2. DOMAIN gs = DOMAIN games /\ gs[i] = [games[i] EXCEPT !.st = "running"]
        /\ \A j \in DOMAIN games : j # i => gs[j] = games[j]
    BY <1>1
  <2> QED BY <2>1, <2>2 DEF Games, Players
<1> HIDE DEF gs
<1>5. OneTicket'
  BY <1>1 DEF PoliteInv, OneTicket
<1>6. LiveIn(gs)
  <2>1. games[i].st \in Live
    BY <1>2 DEF Sends, Live
  <2> QED BY <1>1, <1>4, <2>1 DEF PoliteInv, LiveIsActive, LiveIn
<1>7. ASSUME NEW t \in Items(pool') PROVE Free(t.bot, gs)
  <2>1. t \in Items(pool) /\ t \notin Items(taken)
    BY <1>1, IdsOfItems
  <2>2. Free(t.bot, games)
    BY <2>1 DEF PoliteInv, SeekersFree
  <2>3. t.bot \in Bot
    BY <2>1, ItemsTyped DEF PoliteInv, QuietInv, IInv, QueuesTyped
  <2>4. active[t.bot] # 0 => active[t.bot] \in DOMAIN games
    BY <1>2, <2>3 DEF GamesGood
  <2>5. games[i].st # "stranded"
    BY <1>2 DEF Sends
  <2> QED BY <1>4, <2>2, <2>4, <2>5 DEF Free
<1>8. PICK src \in Seq(Ticket) : Items(src) \subseteq Items(pool') /\ (Opens(src, gs) \/ Idles(gs))
  BY <1>1
<1> QED BY <1>3, <1>5, <1>6, <1>7, <1>8, OpensPolite

\* White was told.
LEMMA WhiteToldPolite ==
    ASSUME PoliteInv, NEW i, WhiteTold(i) PROVE OneTicket' /\ LiveIsActive' /\ SeekersFree'
<1>1. /\ i \in DOMAIN games /\ games[i].st \in Sends /\ UNCHANGED <<pool, mpc, taken, active>>
  BY DEF WhiteTold, Sending, Sends, queueVars, loopVars
<1>2. OnlyState(i, "to_black")
  BY <1>1, OneStateChanges DEF WhiteTold, PoliteInv, QuietInv, States, Live
<1>3. games[i].st \in Live /\ games[i].st # "stranded"
  BY <1>1 DEF Sends, Live
<1>4. LiveIsActive'
  BY <1>1, <1>2, <1>3 DEF OnlyState, PoliteInv, LiveIsActive, LiveIn, Players
<1>5. ASSUME NEW t \in Items(pool), Free(t.bot, games) PROVE Free(t.bot, games)'
  <2>1. t.bot \in Bot
    BY ItemsTyped DEF PoliteInv, QuietInv, IInv, QueuesTyped
  <2>2. active[t.bot] # 0 => active[t.bot] \in DOMAIN games
    BY <2>1 DEF PoliteInv, QuietInv, IInv, GamesGood
  <2> QED BY <1>1, <1>2, <1>3, <1>5, <2>2 DEF OnlyState, Free
<1> QED BY <1>1, <1>4, <1>5 DEF PoliteInv, OneTicket, SeekersFree

\* The launch raises: the bots of the game are bound to a game that is lost.
LEMMA LaunchFailsPolite ==
    ASSUME PoliteInv, NEW i, LaunchFails(i) PROVE OneTicket' /\ LiveIsActive' /\ SeekersFree'
<1>1. /\ i \in DOMAIN games /\ games[i].st \in Sends /\ games[i].by = "matcher" /\ i = Len(games)
      /\ mpc \in Awaits
  BY DEF LaunchFails, Sending, PoliteInv, QuietInv, LaunchGood, Sends
<1>2. games' = [games EXCEPT ![i].st = "stranded"] /\ UNCHANGED <<pool, active>>
  BY <1>1 DEF LaunchFails, TickEnds, queueVars
<1>3. OnlyState(i, "stranded")
  BY <1>1, <1>2, OneStateChanges DEF PoliteInv, QuietInv, States
<1>4. games[i].st \in Live
  BY <1>1 DEF Sends, Live
<1>5. LiveIsActive'
  BY <1>2, <1>3 DEF OnlyState, PoliteInv, LiveIsActive, LiveIn, Live
<1>6. ASSUME NEW t \in Items(pool) PROVE Free(t.bot, games)'
  <2>1. t.bot \in Bot
    BY ItemsTyped DEF PoliteInv, QuietInv, IInv, QueuesTyped
  <2>2. active[t.bot] # 0 => active[t.bot] \in DOMAIN games
    BY <2>1 DEF PoliteInv, QuietInv, IInv, GamesGood
  <2>3. CASE Free(t.bot, games)
    BY <1>2, <1>3, <2>2, <2>3 DEF OnlyState, Free
  <2>4. CASE t \in Items(taken)
    <3>1. taken \in Seq(Ticket) /\ Seated(games[i], taken)
      BY <1>1 DEF PoliteInv, QuietInv, LaunchGood, IInv, QueuesTyped
    <3>2. t.bot \in Players(games[i])
      BY <2>1, <2>4, <3>1, SeatedMeans
    <3>3. active[t.bot] = i
      BY <1>1, <1>4, <2>1, <3>2 DEF PoliteInv, LiveIsActive, LiveIn
    <3> QED BY <1>2, <1>3, <3>3 DEF OnlyState, Free
  <2> QED BY <2>3, <2>4 DEF PoliteInv, SeekersFree
<1> QED BY <1>2, <1>5, <1>6 DEF PoliteInv, OneTicket, SeekersFree

\* A game is over: its bots may seek again.
LEMMA GameEndsPolite ==
    ASSUME PoliteInv, NEW i, GameEnds(i) PROVE OneTicket' /\ LiveIsActive' /\ SeekersFree'
<1>1. /\ i \in DOMAIN games /\ games' = [games EXCEPT ![i].st = "over"]
      /\ active' = [b \in Bot |-> IF active[b] = i THEN 0 ELSE active[b]]
      /\ UNCHANGED <<pool, mpc, taken>>
  BY DEF GameEnds, queueVars, loopVars
<1>2. OnlyState(i, "over")
  BY <1>1, OneStateChanges DEF PoliteInv, QuietInv, States
<1>3. LiveIsActive'
  BY <1>1, <1>2 DEF OnlyState, PoliteInv, LiveIsActive, LiveIn, Live, Players
<1>4. ASSUME NEW t \in Items(pool), Free(t.bot, games) PROVE Free(t.bot, games)'
  <2>1. t.bot \in Bot
    BY ItemsTyped DEF PoliteInv, QuietInv, IInv, QueuesTyped
  <2>2. active[t.bot] # 0 => active[t.bot] \in DOMAIN games
    BY <2>1 DEF PoliteInv, QuietInv, IInv, GamesGood
  <2> QED BY <1>1, <1>2, <1>4, <2>1, <2>2 DEF OnlyState, Free
<1> QED BY <1>1, <1>3, <1>4 DEF PoliteInv, OneTicket, SeekersFree

\* A bot that is free seeks a game.
LEMMA SeekPolite ==
    ASSUME PoliteInv, NEW b \in Bot, Seek(b) PROVE OneTicket' /\ LiveIsActive' /\ SeekersFree'
<1>0. PICK t : t = [id |-> seeks + 1, bot |-> b, sess |-> sess[b], at |-> now]
  OBVIOUS
<1>1. Items(pool') = Items(pool) \cup {t} /\ UNCHANGED <<games, active, mpc, taken>>
  BY <1>0, SeekAppends DEF PoliteInv
<1>2. t.bot = b
  BY <1>0
<1>3. active[b] = 0 /\ \A u \in Items(pool) : u.bot # b
  BY DEF Seek, PoliteInv, Items
<1>4. OneTicket'
  BY <1>1, <1>2, <1>3 DEF PoliteInv, OneTicket
<1>5. LiveIsActive' /\ SeekersFree'
  BY <1>1, <1>2, <1>3 DEF PoliteInv, LiveIsActive, LiveIn, SeekersFree, Free
<1> QED BY <1>4, <1>5

\* Every step keeps the invariant of polite bots.
LEMMA PoliteStep == PoliteInv /\ [Next]_vars => PoliteInv'
<1> SUFFICES ASSUME PoliteInv, [Next]_vars PROVE PoliteInv'
  OBVIOUS
<1>0. QuietInv' /\ IInv' /\ Polite'
  BY QuietStep DEF PoliteInv, QuietInv
<1>1. CASE Matcher
  BY <1>0, <1>1, MatcherPolite DEF PoliteInv
<1>2. ASSUME NEW i \in 1 .. MaxGames,
             AckChallenge(i) \/ WhiteTold(i) \/ Launched(i) \/ LaunchFails(i)
      PROVE  PoliteInv'
  <2>1. ~AckChallenge(i)
    BY DEF AckChallenge, PoliteInv, QuietInv, LaunchGood
  <2> QED BY <1>0, <1>2, <2>1, WhiteToldPolite, LaunchedPolite, LaunchFailsPolite DEF PoliteInv
<1>3. ASSUME NEW b \in Bot, Connect(b) \/ Disconnect(b) PROVE PoliteInv'
  <2>1. UNCHANGED <<pool, mpc, taken, games, active>>
    BY <1>3 DEF Connect, Disconnect, queueVars, loopVars, gameVars
  <2> QED BY <1>0, <2>1 DEF PoliteInv, OneTicket, LiveIsActive, LiveIn, SeekersFree, Free
<1>4. ASSUME NEW b \in Bot, Seek(b) PROVE PoliteInv'
  BY <1>0, <1>4, SeekPolite DEF PoliteInv
<1>5. ASSUME NEW t, Cancel(t) PROVE FALSE
  BY <1>5 DEF Cancel, PoliteInv, QuietInv, Quiet
<1>6. ASSUME NEW b \in Bot, NEW o \in Bot, DirectChallenge(b, o) PROVE FALSE
  BY <1>6 DEF DirectChallenge, PoliteInv, QuietInv, Quiet
<1>7. ASSUME NEW i \in 1 .. MaxGames, GameEnds(i) PROVE PoliteInv'
  BY <1>0, <1>7, GameEndsPolite DEF PoliteInv
<1>8. CASE Clock \/ UNCHANGED vars
  <2>1. UNCHANGED <<pool, mpc, taken, games, active>>
    BY <1>8 DEF Clock, vars, queueVars, loopVars, gameVars
  <2> QED BY <1>0, <2>1 DEF PoliteInv, OneTicket, LiveIsActive, LiveIn, SeekersFree, Free
<1> QED BY <1>1, <1>2, <1>3, <1>4, <1>5, <1>6, <1>7, <1>8 DEF Next, Launches

\* No bot has sought, and no game was made.
LEMMA PoliteBegins == Quiet /\ Polite /\ Init => PoliteInv
<1> SUFFICES ASSUME Quiet, Polite, Init PROVE PoliteInv
  OBVIOUS
<1>1. pool = <<>> /\ games = <<>>
  BY DEF Init
<1> QED BY <1>1, QuietBegins DEF PoliteInv, OneTicket, LiveIsActive, LiveIn, SeekersFree, Items

\* If bots seek only when they are free, a bot has at most one ticket, and none while it
\* is in a game that runs.
LEMMA PoliteAlways == Quiet /\ Polite => (Spec => []PoliteInv)
BY PoliteStep, PoliteBegins, PTL DEF Spec

\* As long as bots seek only when they are free, and nobody cancels a seek or challenges
\* another, a game that runs is the one that the active-game index leads its bots to
\* (registry.py bind, game_for): also when connections are lost in the middle of a launch.
THEOREM RunsActive == Quiet /\ Polite => (Spec => []RunningGameIsActive)
<1>1. PoliteInv => RunningGameIsActive
  BY DEF PoliteInv, LiveIsActive, LiveIn, RunningGameIsActive, Live
<1> QED BY <1>1, PoliteAlways, PTL

\* Such bots play one game at a time: it is the direct challenges that can put a bot in
\* two.
THEOREM OneGame == Quiet /\ Polite => (Spec => []OneGameAtATime)
<1>1. PoliteInv => OneGameAtATime
  <2> SUFFICES ASSUME PoliteInv, NEW b \in Bot PROVE Cardinality(InGames(b)) <= 1
    BY DEF OneGameAtATime
  <2>1. InGames(b) \subseteq {active[b]}
    BY DEF InGames, PoliteInv, LiveIsActive, LiveIn
  <2>2. CASE InGames(b) = {}
    <3>1. Cardinality(InGames(b)) = 0
      BY <2>2, FS_EmptySet
    <3> QED BY <3>1
  <2>3. CASE InGames(b) # {}
    <3>1. InGames(b) = {active[b]}
      BY <2>1, <2>3
    <3>2. Cardinality(InGames(b)) = 1
      BY <3>1, FS_Singleton
    <3> QED BY <3>2
  <2> QED BY <2>2, <2>3
<1> QED BY <1>1, PoliteAlways, PTL
-----------------------------------------------------------------------------
(* Connections that hold.                                                  *)

\* A game is opened for tickets that have no other outcome.
LEMMA OpensSettled ==
    ASSUME NEW gs \in Seq(Games), NEW src, Items(src) \subseteq Items(pool'),
           IInv', QueueGood', mpc' # "expiring",
           \A t \in Items(pool') : t.sess = 1,
           \A j \in DOMAIN gs : SeatsKept(gs[j]),
           Unshared(gs), Unlisted(gs)', EndedOnce',
           Opens(src, gs) \/ Idles(gs)
    PROVE  (\A j \in DOMAIN games' : SeatsKept(games'[j])) /\ Settled'
<1>1. CASE Idles(gs)
  <2>1. games' = gs
    BY <1>1 DEF Idles
  <2> QED BY <2>1 DEF Settled, Unshared, Unlisted
<1>2. CASE Opens(src, gs)
  <2>1. PICK g \in Games :
            /\ games' = Append(gs, g) /\ mpc' \in Awaits /\ g.st = "to_white"
            /\ Seated(g, taken') /\ Items(taken') \subseteq Items(pool')
    BY <1>2 DEF Opens
  <2> DEFINE n == Len(gs)
  <2>2. /\ DOMAIN games' = 1 .. n + 1 /\ games'[n + 1] = g /\ n \in Nat /\ DOMAIN gs = 1 .. n
        /\ Len(games') = n + 1 /\ \A j \in 1 .. n : games'[j] = gs[j]
    <3> HIDE DEF Games
    <3> QED BY <2>1
  <2> HIDE DEF n
  <2>3. \A j \in DOMAIN games' : (j \in 1 .. n /\ games'[j] = gs[j]) \/ (j = n + 1 /\ games'[j] = g)
    BY <2>2
  <2>4. taken' \in Seq(Ticket)
    BY DEF IInv, QueuesTyped
  <2>5. SeatsKept(g)
    <3>1. \A t \in Items(taken') : SeatOf(t).bot \in Bot /\ SeatOf(t).sess = 1
      <4> TAKE t \in Items(taken')
      <4>1. t.bot \in Bot /\ t.sess = 1
        BY <2>1, <2>4, ItemsTyped
      <4> QED BY <4>1 DEF SeatOf, Seat
    <3> QED BY <2>1, <3>1 DEF Seated, SeatsKept
  <2>6. ASSUME NEW id \in SeeksOf(g) \ {0} PROVE id \in open' /\ id \in 1 .. seeks'
    <3>1. PICK t \in Items(taken') : t.id = id
      BY <2>1, <2>4, <2>6, SeatedMeans
    <3>2. id \in IdsOf(pool')
      BY <2>1, <3>1, IdsOfItems
    <3> QED BY <3>2 DEF QueueGood
  <2>7. \A id \in SeeksOf(g) \ {0} : id <= seeks' /\ <<id, "expired">> \notin ended'
    <3> TAKE id \in SeeksOf(g) \ {0}
    <3>1. id \in open' /\ id \in 1 .. seeks'
      BY <2>6
    <3>2. <<id, "expired">>[1] = id
      OBVIOUS
    <3>3. <<id, "expired">> \notin ended'
      BY <3>1, <3>2 DEF EndedOnce
    <3>4. seeks' \in Nat
      BY DEF IInv, QueuesTyped
    <3> QED BY <3>1, <3>3, <3>4
  <2>8. \A j \in 1 .. n : SeeksOf(gs[j]) \cap SeeksOf(g) \subseteq {0}
    BY <2>2, <2>6 DEF Unlisted
  <2>9. Unshared(games')
    BY <2>2, <2>3, <2>8 DEF Unshared
  <2>10. ASSUME NEW j \in DOMAIN games', NEW id \in SeeksOf(games'[j]) \ {0}
         PROVE  /\ id <= seeks' /\ <<id, "expired">> \notin ended'
                /\ id \in open' => mpc' \in Awaits /\ j = Len(games')
    <3>1. CASE j \in 1 .. n /\ games'[j] = gs[j]
      BY <2>2, <3>1 DEF Unlisted
    <3>2. CASE j = n + 1 /\ games'[j] = g
      BY <2>1, <2>2, <2>7, <3>2
    <3> QED BY <2>3, <3>1, <3>2
  <2>11. \A j \in DOMAIN games' : SeatsKept(games'[j])
    BY <2>2, <2>3, <2>5
  <2> QED BY <2>9, <2>10, <2>11 DEF Settled
<1> QED BY <1>1, <1>2
\* A step of the matcher's own: a ticket expires, or a game is opened.
LEMMA MatcherSteady ==
    ASSUME SteadyInv, QuietInv', Matcher PROVE SessionsKept' /\ Settled'
<1>1. /\ Items(pool') \subseteq Items(pool) /\ open' \subseteq open /\ mpc \notin Awaits
      /\ UNCHANGED <<seeks, sess>>
      /\ Expiry(pool') \/ (Ticks(pool') /\ mpc' # "expiring")
  BY MatcherMoves DEF SteadyInv, QuietInv
<1>2. \A t \in Items(pool') : t.sess = 1
  BY <1>1 DEF SteadyInv, SessionsKept
<1>3. Unlisted(games)
  BY <1>1 DEF SteadyInv, Settled, Unlisted
<1>4. CASE Expiry(pool')
  <2>1. PICK t \in Items(pool') : t.id \in open /\ t.id \notin open'
                                  /\ ended' = ended \cup {<<t.id, "expired">>}
    BY <1>4 DEF Expiry
  <2>2. games' = games
    BY <1>4 DEF Expiry
  <2>3. t.id \in 1 .. seeks
    <3>1. t.id \in IdsOf(pool')
      BY IdsOfItems
    <3> QED BY <1>1, <3>1 DEF QuietInv, QueueGood
  <2>4. EndedOnce'
    <3>1. /\ <<t.id, "expired">>[1] = t.id
          /\ EndedOnce
      BY DEF SteadyInv, Settled
    <3> QED BY <1>1, <2>1, <2>3, <3>1 DEF EndedOnce
  <2>5. ASSUME NEW i \in DOMAIN games, NEW id \in SeeksOf(games[i]) \ {0}
        PROVE  id <= seeks /\ id \notin open' /\ <<id, "expired">> \notin ended'
    <3>1. id <= seeks /\ id \notin open /\ <<id, "expired">> \notin ended
      BY <1>3 DEF Unlisted
    <3>2. id # t.id
      BY <2>1, <3>1
    <3> QED BY <1>1, <2>1, <3>1, <3>2
  <2> QED BY <1>1, <1>2, <2>2, <2>4, <2>5 DEF SteadyInv, SessionsKept, Settled
<1>5. CASE Ticks(pool') /\ mpc' # "expiring"
  <2>1. ended' = ended /\ (Opens(pool', games) \/ Idles(games))
    BY <1>5 DEF Ticks
  <2>2. EndedOnce'
    BY <1>1, <2>1 DEF SteadyInv, Settled, EndedOnce
  <2>3. Unlisted(games) /\ \A i \in DOMAIN games : \A id \in SeeksOf(games[i]) \ {0} :
            id <= seeks' /\ id \notin open' /\ <<id, "expired">> \notin ended'
    BY <1>1, <1>3, <2>1 DEF Unlisted
  <2>4. PICK gs : gs = games
    OBVIOUS
  <2>5. Unlisted(gs)'
    BY <2>3, <2>4 DEF Unlisted
  <2>6. gs \in Seq(Games) /\ Unshared(gs) /\ \A j \in DOMAIN gs : SeatsKept(gs[j])
    BY <2>4 DEF SteadyInv, QuietInv, IInv, GamesGood, Settled, SessionsKept
  <2>7. Opens(pool', gs) \/ Idles(gs)
    BY <2>1, <2>4
  <2>8. PICK src : src = pool'
    OBVIOUS
  <2>9. (\A j \in DOMAIN games' : SeatsKept(games'[j])) /\ Settled'
    BY <1>2, <1>5, <2>2, <2>5, <2>6, <2>7, <2>8, OpensSettled DEF QuietInv
  <2> QED BY <1>1, <1>2, <2>9 DEF SteadyInv, SessionsKept
<1> QED BY <1>1, <1>4, <1>5

\* The state of a game changes: its seats and its seeks are the same.
LEMMA StateSteady ==
    ASSUME SteadyInv, NEW i \in DOMAIN games, NEW st, OnlyState(i, st),
           st = "to_black" => games[i].black # HouseSeat,
           UNCHANGED <<pool, open, mpc, seeks, ended, sess>>
    PROVE  SessionsKept' /\ Settled'
<1>1. DOMAIN games' = DOMAIN games /\ Len(games') = Len(games)
  BY DEF OnlyState
<1>2. \A j \in DOMAIN games : SeatsKept(games[j])
  BY DEF SteadyInv, SessionsKept
<1>3. \A j \in DOMAIN games' : SeatsKept(games'[j]) /\ SeeksOf(games'[j]) = SeeksOf(games[j])
  BY <1>2 DEF OnlyState, SeatsKept, SeeksOf
<1>4. SessionsKept'
  BY <1>3 DEF SteadyInv, SessionsKept
<1>5. Unshared(games')
  BY <1>1, <1>3 DEF SteadyInv, Settled, Unshared
<1>6. EndedOnce'
  BY DEF SteadyInv, Settled, EndedOnce
<1>7. ASSUME NEW j \in DOMAIN games', NEW id \in SeeksOf(games'[j]) \ {0}
      PROVE  /\ id <= seeks' /\ <<id, "expired">> \notin ended'
             /\ id \in open' => mpc' \in Awaits /\ j = Len(games')
  BY <1>1, <1>3 DEF SteadyInv, Settled
<1> QED BY <1>4, <1>5, <1>6, <1>7 DEF Settled

\* The launch returns: the tickets that were paired or greeted leave the index.
LEMMA LaunchedSteady ==
    ASSUME SteadyInv, QuietInv', NEW i, Launched(i) PROVE SessionsKept' /\ Settled'
<1> DEFINE gs0 == [games EXCEPT ![i].st = "running"]
<1>1. /\ i \in DOMAIN games /\ i = Len(games) /\ mpc \in Awaits /\ mpc' # "expiring"
      /\ UNCHANGED <<seeks, sess, ended>>
      /\ \A t : t \in Items(pool') <=> t \in Items(pool) /\ t.id \notin IdsOf(taken)
      /\ open' = open \ IdsOf(taken)
      /\ \E src \in Seq(Ticket) : Items(src) \subseteq Items(pool') /\ (Opens(src, gs0) \/ Idles(gs0))
  BY LaunchedMoves DEF SteadyInv
<1>2. PICK gs : gs = gs0
  OBVIOUS
<1>3. /\ gs \in Seq(Games) /\ DOMAIN gs = DOMAIN games
      /\ \A j \in DOMAIN gs : SeatsKept(gs[j]) /\ SeeksOf(gs[j]) = SeeksOf(games[j])
  <2>1. games \in Seq(Games)
    BY DEF SteadyInv, QuietInv, IInv, GamesGood
  <2>2. games[i] \in Games
    <3> HIDE DEF Games
    <3> QED BY <1>1, <2>1
  <2> DEFINE g == [games[i] EXCEPT !.st = "running"]
  <2>3. /\ g \in Games /\ g.white = games[i].white /\ g.black = games[i].black
        /\ g.st = "running"
    BY <2>2 DEF Games, States, Live
  <2>4. gs = [games EXCEPT ![i] = g]
    BY <1>1, <1>2, <2>1
  <2> HIDE DEF g
  <2>5. gs \in Seq(Games) /\ DOMAIN gs = DOMAIN games /\ gs[i] = g
        /\ \A j \in DOMAIN games : j # i => gs[j] = games[j]
    <3> HIDE DEF Games
    <3> QED BY <1>1, <2>1, <2>3, <2>4
  <2>6. \A j \in DOMAIN games : SeatsKept(games[j])
    BY DEF SteadyInv, SessionsKept
  <2> QED BY <2>3, <2>5, <2>6 DEF SeatsKept, SeeksOf
<1>4. \A t \in Items(pool') : t.sess = 1
  BY <1>1 DEF SteadyInv, SessionsKept
<1>5. ASSUME NEW j \in DOMAIN gs, NEW id \in SeeksOf(gs[j]) \ {0}
      PROVE  id <= seeks /\ id \notin open' /\ <<id, "expired">> \notin ended
  <2>1. /\ id <= seeks /\ <<id, "expired">> \notin ended /\ id \in SeeksOf(games[j])
        /\ id \in open => j = i
    BY <1>1, <1>3 DEF SteadyInv, Settled
  <2>2. CASE j = i
    <3>1. taken \in Seq(Ticket) /\ Seated(games[i], taken)
      BY <1>1 DEF SteadyInv, QuietInv, LaunchGood, IInv, QueuesTyped
    <3>2. \E t \in Items(taken) : t.id = id
      BY <2>1, <2>2, <3>1, SeatedMeans
    <3>3. id \in IdsOf(taken)
      BY <3>2, IdsOfItems
    <3> QED BY <1>1, <2>1, <3>3
  <2> QED BY <1>1, <2>1, <2>2
<1>6. Unlisted(gs)'
  BY <1>1, <1>5 DEF Unlisted
<1>7. EndedOnce'
  BY <1>1 DEF SteadyInv, Settled, EndedOnce
<1>8. Unshared(gs)
  BY <1>3 DEF SteadyInv, Settled, Unshared
<1>9. PICK src \in Seq(Ticket) : Items(src) \subseteq Items(pool') /\ (Opens(src, gs) \/ Idles(gs))
  BY <1>1, <1>2
<1>10. (\A j \in DOMAIN games' : SeatsKept(games'[j])) /\ Settled'
  BY <1>1, <1>3, <1>4, <1>6, <1>7, <1>8, <1>9, OpensSettled DEF QuietInv
<1> QED BY <1>1, <1>4, <1>10 DEF SteadyInv, SessionsKept

\* White was told, and Black is a bot.
LEMMA WhiteToldSteady ==
    ASSUME SteadyInv, NEW i, WhiteTold(i) PROVE SessionsKept' /\ Settled'
<1>1. /\ i \in DOMAIN games /\ games[i].st \in Sends /\ games[i].black # HouseSeat
      /\ UNCHANGED <<pool, open, mpc, seeks, ended, sess>>
  BY DEF WhiteTold, Sending, Sends, LastSend, sessVars, queueVars, loopVars, histVars
<1>2. OnlyState(i, "to_black")
  BY <1>1, OneStateChanges DEF WhiteTold, SteadyInv, QuietInv, States, Live
<1> QED BY <1>1, <1>2, StateSteady

\* No send raises.
LEMMA NoLaunchFails == ASSUME SteadyInv, NEW i PROVE ~LaunchFails(i)
<1> SUFFICES ASSUME LaunchFails(i) PROVE FALSE
  OBVIOUS
<1>1. i \in DOMAIN games /\ games[i].st \in Sends /\ ~Reachable(games[i])
  BY DEF LaunchFails, Sending, Sends
<1>2. SeatsKept(games[i]) /\ \A b \in Bot : sess[b] = 1
  BY <1>1 DEF SteadyInv, SessionsKept
<1>3. CASE games[i].st = "to_white"
  BY <1>1, <1>2, <1>3 DEF Reachable, Addressee, SeatsKept
<1>4. CASE games[i].st = "to_black"
  BY <1>1, <1>2, <1>4 DEF Reachable, Addressee, SeatsKept
<1> QED BY <1>1, <1>3, <1>4 DEF Sends

\* A game is over.
LEMMA GameEndsSteady ==
    ASSUME SteadyInv, NEW i, GameEnds(i) PROVE SessionsKept' /\ Settled'
<1>1. /\ i \in DOMAIN games /\ games' = [games EXCEPT ![i].st = "over"]
      /\ UNCHANGED <<pool, open, mpc, seeks, ended, sess>>
  BY DEF GameEnds, sessVars, queueVars, loopVars, histVars
<1>2. OnlyState(i, "over")
  BY <1>1, OneStateChanges DEF SteadyInv, QuietInv, States
<1> QED BY <1>1, <1>2, StateSteady

\* A new seek has no outcome yet.
LEMMA SeekSteady ==
    ASSUME SteadyInv, NEW b \in Bot, Seek(b) PROVE SessionsKept' /\ Settled'
<1>0. PICK t : t = [id |-> seeks + 1, bot |-> b, sess |-> sess[b], at |-> now]
  OBVIOUS
<1>1. /\ Items(pool') = Items(pool) \cup {t} /\ open' = open \cup {t.id} /\ seeks' = seeks + 1
      /\ UNCHANGED <<sess, games, mpc, ended>>
  BY <1>0, SeekAppends DEF SteadyInv
<1>2. t.id = seeks + 1 /\ t.sess = 1 /\ seeks \in Nat
  BY <1>0 DEF SteadyInv, SessionsKept, QuietInv, IInv, QueuesTyped
<1>3. SessionsKept'
  BY <1>1, <1>2 DEF SteadyInv, SessionsKept
<1>4. ASSUME NEW i \in DOMAIN games, NEW id \in SeeksOf(games[i]) \ {0}
      PROVE  id \in Nat /\ id <= seeks' /\ (id \in open' => id \in open)
  <2>1. id <= seeks
    BY DEF SteadyInv, Settled
  <2>2. games[i] \in Games
    <3>1. games \in Seq(Games)
      BY DEF SteadyInv, QuietInv, IInv, GamesGood
    <3> HIDE DEF Games
    <3> QED BY <3>1
  <2>3. id \in Nat
    BY <2>2 DEF Games, Seats, SeeksOf
  <2> QED BY <1>1, <1>2, <2>1, <2>3
<1>5. EndedOnce'
  <2>1. ASSUME NEW e \in ended PROVE e[1] \in 1 .. seeks' /\ e[1] \notin open'
    <3>1. e[1] \in 1 .. seeks /\ e[1] \notin open
      BY DEF SteadyInv, Settled, EndedOnce
    <3> QED BY <1>1, <1>2, <3>1
  <2> QED BY <1>1, <2>1 DEF SteadyInv, Settled, EndedOnce
<1>6. Settled'
  BY <1>1, <1>4, <1>5 DEF SteadyInv, Settled
<1> QED BY <1>3, <1>6

\* Every step keeps the invariant of connections that hold.
LEMMA SteadyStep == SteadyInv /\ [Next]_vars => SteadyInv'
<1> SUFFICES ASSUME SteadyInv, [Next]_vars PROVE SteadyInv'
  OBVIOUS
<1>0. QuietInv' /\ (Drops = {})'
  BY QuietStep DEF SteadyInv
<1>1. CASE Matcher
  BY <1>0, <1>1, MatcherSteady DEF SteadyInv
<1>2. ASSUME NEW i \in 1 .. MaxGames,
             AckChallenge(i) \/ WhiteTold(i) \/ Launched(i) \/ LaunchFails(i)
      PROVE  SteadyInv'
  <2>1. ~AckChallenge(i)
    BY DEF AckChallenge, SteadyInv, QuietInv, LaunchGood
  <2> QED BY <1>0, <1>2, <2>1, WhiteToldSteady, LaunchedSteady, NoLaunchFails DEF SteadyInv
<1>3. ASSUME NEW b \in Bot, Connect(b) \/ Disconnect(b) PROVE FALSE
  BY <1>3 DEF Connect, Disconnect, SteadyInv
<1>4. ASSUME NEW b \in Bot, Seek(b) PROVE SteadyInv'
  BY <1>0, <1>4, SeekSteady DEF SteadyInv
<1>5. ASSUME NEW t, Cancel(t) PROVE FALSE
  BY <1>5 DEF Cancel, SteadyInv, QuietInv, Quiet
<1>6. ASSUME NEW b \in Bot, NEW o \in Bot, DirectChallenge(b, o) PROVE FALSE
  BY <1>6 DEF DirectChallenge, SteadyInv, QuietInv, Quiet
<1>7. ASSUME NEW i \in 1 .. MaxGames, GameEnds(i) PROVE SteadyInv'
  BY <1>0, <1>7, GameEndsSteady DEF SteadyInv
<1>8. CASE Clock \/ UNCHANGED vars
  <2>1. UNCHANGED <<pool, open, mpc, seeks, ended, sess, games>>
    BY <1>8 DEF Clock, vars, sessVars, queueVars, loopVars, gameVars, histVars
  <2> QED BY <1>0, <2>1 DEF SteadyInv, SessionsKept, Settled, Unshared, EndedOnce
<1> QED BY <1>1, <1>2, <1>3, <1>4, <1>5, <1>6, <1>7, <1>8 DEF Next, Launches

\* Every session is the first, and no seek has an outcome.
LEMMA SteadyBegins == Quiet /\ Drops = {} /\ Init => SteadyInv
<1> SUFFICES ASSUME Quiet, Drops = {}, Init PROVE SteadyInv
  OBVIOUS
<1>1. pool = <<>> /\ games = <<>> /\ ended = {} /\ sess = [b \in Bot |-> 1]
  BY DEF Init
<1> QED BY <1>1, QuietBegins DEF SteadyInv, SessionsKept, Settled, Unshared, EndedOnce, Items

\* If no session drops, a ticket that has had its outcome is not in the index any more.
LEMMA SteadyAlways == Quiet /\ Drops = {} => (Spec => []SteadyInv)
BY SteadyStep, SteadyBegins, PTL DEF Spec

\* As long as connections hold, and nobody cancels a seek or challenges another, a seek
\* ends in one way only, a game or a seek_ended (matcher.py _expire, _pair_reals,
\* _greet), although tickets stay in the pool while their game is launched and new ones
\* come in meanwhile: for bots that seek as often as they like.
THEOREM OneOutcome == Quiet /\ Drops = {} => (Spec => []SeekHasOneOutcome)
<1>1. SteadyInv => SeekHasOneOutcome
  <2> SUFFICES ASSUME SteadyInv, NEW id \in 1 .. seeks PROVE Cardinality(Outcomes(id)) <= 1
    BY DEF SeekHasOneOutcome
  <2>1. id # 0
    BY DEF SteadyInv, QuietInv, IInv, QueuesTyped
  <2>2. \A x \in Outcomes(id) :
            \/ x = <<id, "expired">> /\ x \in ended
            \/ \E i \in DOMAIN games : x = <<i, "game">> /\ id \in SeeksOf(games[i])
    BY DEF Outcomes, SeeksOf, SteadyInv, Settled, EndedOnce
  <2>3. \A i \in DOMAIN games : id \in SeeksOf(games[i]) => <<id, "expired">> \notin ended
    BY <2>1 DEF SteadyInv, Settled
  <2>4. \A i, j \in DOMAIN games : id \in SeeksOf(games[i]) /\ id \in SeeksOf(games[j]) => i = j
    BY <2>1 DEF SteadyInv, Settled, Unshared
  <2>5. \A x, y \in Outcomes(id) : x = y
    BY <2>2, <2>3, <2>4
  <2>6. CASE Outcomes(id) = {}
    <3>1. Cardinality(Outcomes(id)) = 0
      BY <2>6, FS_EmptySet
    <3> QED BY <3>1
  <2>7. CASE Outcomes(id) # {}
    <3>1. PICK x : Outcomes(id) = {x}
      BY <2>5, <2>7
    <3>2. Cardinality(Outcomes(id)) = 1
      BY <3>1, FS_Singleton
    <3> QED BY <3>2
  <2> QED BY <2>6, <2>7
<1> QED BY <1>1, SteadyAlways, PTL
=============================================================================
