--------------------------- MODULE BotRowsProofs ----------------------------
(***************************************************************************)
(* Proofs about BotRows, for any bots, games, ratings and any rule of      *)
(* rating: no rating is ever computed from a row that another transaction  *)
(* has changed since, and finalizers wait for each other in a circle only  *)
(* when one of them records an aborted game.                               *)
(***************************************************************************)
EXTENDS BotRows, SublistProofs, FiniteSetTheorems

\* What a finalizer has read of a row is the row for as long as it will be used,
\* because the finalizer holds it.
SeenIsHeld ==
    \A g \in Games, b \in Bots :
        seen[g][b].there => /\ excl[b] = g
                            /\ seen[g][b].rating = rating[b]
                            /\ seen[g][b].played = played[b]

\* The owners' requests hold the rows they are about to write.
RequestsHold ==
    \A b \in Bots : /\ rotation[b] = "locked" => excl[b] = "rotation"
                    /\ deletion[b] = "locked" => excl[b] = "deletion"

IInv == TypeOK /\ SeenIsHeld /\ RequestsHold /\ RatingsChain

-----------------------------------------------------------------------------
(* Chains of rating changes. *)

\* s is a chain from Seed to rating r, of n games.
Chain(s, n, r) ==
    /\ n = Len(s)
    /\ r = IF s = <<>> THEN Seed ELSE s[Len(s)].after
    /\ s # <<>> => s[1].before = Seed
    /\ \A i \in 1..Len(s) - 1 : s[i + 1].before = s[i].after

\* RatingsChain says that the history of each bot is a chain down to its row.
LEMMA ChainDef == RatingsChain <=> \A b \in Bots : Chain(hist[b], played[b], rating[b])
BY DEF RatingsChain, Chain

\* A chain grows by a change that starts where it ends.
LEMMA ChainGrows ==
    ASSUME NEW s \in Seq(Change), NEW n \in Nat, NEW r \in Ratings, NEW t \in Ratings,
           Chain(s, n, r)
    PROVE  Chain(Append(s, [before |-> r, after |-> t]), n + 1, t)
<1> DEFINE c == [before |-> r, after |-> t]
           a == Append(s, c)
<1>1. /\ Len(a) = Len(s) + 1 /\ a # <<>> /\ a[Len(s) + 1] = c
      /\ \A i \in 1..Len(s) : a[i] = s[i]
      /\ Len(s) \in Nat
  <2>1. c \in Change
    BY DEF Change
  <2>2. Len(s) \in Nat
    OBVIOUS
  <2> HIDE DEF c
  <2>3. Len(a) = Len(s) + 1 /\ \A i \in 1..Len(s) : a[i] = s[i]
    BY <2>1
  <2>4. a[Len(s) + 1] = c
    BY <2>1
  <2>5. a # <<>>
    BY <2>2, <2>3
  <2> QED BY <2>2, <2>3, <2>4, <2>5
<1>2. a[1].before = Seed
  <2>1. CASE s = <<>>
    BY <1>1, <2>1 DEF Chain
  <2>2. CASE s # <<>>
    BY <1>1, <2>2 DEF Chain
  <2> QED BY <2>1, <2>2
<1>3. ASSUME NEW i \in 1..Len(a) - 1 PROVE a[i + 1].before = a[i].after
  <2>1. CASE i = Len(s)
    BY <1>1, <2>1 DEF Chain
  <2>2. CASE i # Len(s)
    <3>1. i \in 1..Len(s) - 1 /\ i + 1 \in 1..Len(s) /\ i \in 1..Len(s)
      BY <1>1, <2>2
    <3> QED BY <1>1, <3>1 DEF Chain
  <2> QED BY <2>1, <2>2
<1> HIDE DEF a
<1> QED BY <1>1, <1>2, <1>3 DEF Chain

-----------------------------------------------------------------------------
(* The inductive invariant. *)

\* No game is a reserved holder of a lock.
LEMMA GamesAreNotReserved ==
    \A g \in Games : g # "nobody" /\ g # "rotation" /\ g # "deletion"
BY BotRowsAssumption DEF Reserved

\* No finalizer has begun.
LEMMA InitIInv == Init => IInv
<1> SUFFICES ASSUME Init PROVE IInv
  OBVIOUS
<1>1. TypeOK
  BY BotRowsAssumption DEF Init, TypeOK, Row, Missing, Change, Reserved
<1>2. SeenIsHeld /\ RequestsHold
  BY DEF Init, SeenIsHeld, RequestsHold, Missing
<1>3. RatingsChain
  BY DEF Init, RatingsChain
<1> QED BY <1>1, <1>2, <1>3 DEF IInv

\* What the end of a transaction leaves: the locks of the game are free and what
\* it has read is gone; nothing else moves.
LEMMA EndedReleases ==
    ASSUME TypeOK, SeenIsHeld, RequestsHold, NEW g \in Games,
           NEW how \in {"recorded", "failed", "victim", "lost"}, Ended(g, how), UNCHANGED reqs
    PROVE  /\ pc' \in [Games -> {"playing", "begun", "first", "second", "recorded", "failed", "victim", "lost"}]
           /\ result' \in [Games -> 0..3] /\ seen' \in [Games -> [Bots -> Row]]
           /\ excl' \in [Bots -> Games \cup Reserved] /\ share' \in [Bots -> SUBSET Games]
           /\ RequestsHold'
           /\ \A h \in Games, b \in Bots :
                 seen'[h][b].there => h # g /\ seen'[h][b] = seen[h][b] /\ excl[b] = h /\ excl'[b] = h
<1>1. /\ Missing \in Row /\ Missing.there = FALSE
  BY BotRowsAssumption DEF Missing, Row
<1>2. seen' \in [Games -> [Bots -> Row]]
  BY <1>1 DEF Ended, TypeOK
<1>3. excl' \in [Bots -> Games \cup Reserved] /\ share' \in [Bots -> SUBSET Games]
  BY DEF Ended, TypeOK, Reserved
<1>4. RequestsHold'
  BY GamesAreNotReserved DEF Ended, TypeOK, RequestsHold, reqs
<1>5. ASSUME NEW h \in Games, NEW b \in Bots, seen'[h][b].there
      PROVE  h # g /\ seen'[h][b] = seen[h][b] /\ excl[b] = h /\ excl'[b] = h
  <2>1. h # g
    BY <1>1, <1>5 DEF Ended, TypeOK
  <2>2. seen'[h][b] = seen[h][b]
    BY <2>1 DEF Ended, TypeOK
  <2> QED BY <1>5, <2>1, <2>2 DEF Ended, SeenIsHeld, TypeOK
<1> QED BY <1>2, <1>3, <1>4, <1>5 DEF Ended, TypeOK

\* A step that touches neither the rows nor who holds them keeps the invariant.
LEMMA Untouched ==
    ASSUME IInv, TypeOK', UNCHANGED <<rows, excl, seen, hist, reqs>>
    PROVE  IInv'
<1>1. SeenIsHeld'
  BY DEF IInv, SeenIsHeld, rows
<1>2. RequestsHold'
  BY DEF IInv, RequestsHold, reqs
<1>3. RatingsChain'
  BY DEF IInv, RatingsChain, rows
<1> QED BY <1>1, <1>2, <1>3 DEF IInv

\* The end of a transaction that writes nothing keeps the invariant.
LEMMA GivenUpIInv ==
    ASSUME IInv, NEW g \in Games, NEW how \in {"failed", "victim", "lost"},
           Ended(g, how), UNCHANGED <<rows, hist, reqs>>
    PROVE  IInv'
<1>1. TypeOK'
  BY EndedReleases DEF IInv, TypeOK, rows, reqs
<1>2. SeenIsHeld' /\ RequestsHold'
  BY EndedReleases DEF IInv, SeenIsHeld, rows
<1>3. RatingsChain'
  BY DEF IInv, RatingsChain, rows
<1> QED BY <1>1, <1>2, <1>3 DEF IInv

\* A finalizer locks its next row and reads it, or finds that it is gone.
LEMMA LockRowIInv ==
    ASSUME IInv, NEW g \in Games, LockRow(g)
    PROVE  IInv'
<1> DEFINE b == NextRow(g)
<1>1. b \in Bots
  BY BotRowsAssumption DEF LockRow, NextRow, Order
<1>2. pc' \in [Games -> {"playing", "begun", "first", "second", "recorded", "failed", "victim", "lost"}]
  BY DEF LockRow, Advanced, IInv, TypeOK
<1> HIDE DEF b
<1>3. CASE /\ exists[b] /\ Free(b) /\ excl' = [excl EXCEPT ![b] = g]
           /\ seen' = [seen EXCEPT ![g][b] = [rating |-> rating[b], played |-> played[b],
                                              there |-> TRUE]]
  <2>1. [rating |-> rating[b], played |-> played[b], there |-> TRUE] \in Row
    BY <1>1 DEF IInv, TypeOK, Row
  <2>2. seen' \in [Games -> [Bots -> Row]] /\ excl' \in [Bots -> Games \cup Reserved]
    BY <1>1, <1>3, <2>1 DEF IInv, TypeOK
  <2>3. TypeOK'
    BY <1>2, <2>2 DEF LockRow, IInv, TypeOK, rows, reqs
  <2>4. ASSUME NEW h \in Games, NEW c \in Bots, seen'[h][c].there
        PROVE  excl'[c] = h /\ seen'[h][c].rating = rating'[c] /\ seen'[h][c].played = played'[c]
    <3>1. CASE h = g /\ c = b
      BY <1>1, <1>3, <3>1 DEF LockRow, IInv, TypeOK, rows
    <3>2. CASE ~(h = g /\ c = b)
      <4>1. seen'[h][c] = seen[h][c]
        BY <1>1, <1>3, <3>2 DEF IInv, TypeOK
      <4>2. c # b
        BY <1>1, <1>3, <2>4, <4>1, GamesAreNotReserved DEF Free, IInv, SeenIsHeld
      <4> QED BY <1>1, <1>3, <2>4, <4>1, <4>2 DEF LockRow, IInv, SeenIsHeld, TypeOK, rows
    <3> QED BY <3>1, <3>2
  <2>5. RequestsHold'
    BY <1>1, <1>3 DEF LockRow, IInv, RequestsHold, Free, TypeOK, reqs
  <2>6. RatingsChain'
    BY DEF LockRow, IInv, RatingsChain, rows
  <2> QED BY <2>3, <2>4, <2>5, <2>6 DEF IInv, SeenIsHeld
<1>4. CASE UNCHANGED <<excl, seen>>
  <2>1. TypeOK'
    BY <1>2, <1>4 DEF LockRow, IInv, TypeOK, rows, reqs
  <2>2. UNCHANGED <<rows, excl, seen, hist, reqs>>
    BY <1>4 DEF LockRow
  <2> QED BY <2>1, <2>2, Untouched
<1> QED BY <1>3, <1>4 DEF LockRow, b

\* The commit: the rows that are rated are those the finalizer holds, so what it
\* has read of them is what they still are.
LEMMA CommitIInv ==
    ASSUME IInv, NEW g \in Games, Commit(g)
    PROVE  IInv'
<1> USE DEF IInv
<1> DEFINE rated(b) == Rated(g) /\ b \in Players(g)
<1>1. ASSUME NEW b \in Bots, rated(b)
      PROVE  /\ seen[g][b].there /\ excl[b] = g
             /\ seen[g][b].rating = rating[b] /\ seen[g][b].played = played[b]
             /\ NewRating(g, b) \in Ratings
  <2>1. /\ White[g] \in Bots /\ Black[g] \in Bots
        /\ seen[g][White[g]] \in Row /\ seen[g][Black[g]] \in Row
    <3>1. White[g] \in Bots /\ Black[g] \in Bots
      BY BotRowsAssumption
    <3>2. seen \in [Games -> [Bots -> Row]]
      BY DEF TypeOK
    <3> QED BY <3>1, <3>2
  <2>2. seen[g][White[g]].there /\ seen[g][Black[g]].there
    BY <1>1 DEF Commit, Dangling, Players
  <2>3. result[g] \in 0..2 /\ 2 - result[g] \in 0..2
    BY <1>1 DEF Rated, TypeOK
  <2>4. \A n \in Nat : KFactor(n) \in {ProvisionalK, DefaultK}
    BY DEF KFactor
  <2>5. NewRating(g, b) \in Ratings
    <3> DEFINE other == IF b = White[g] THEN Black[g] ELSE White[g]
               score == IF b = White[g] THEN result[g] ELSE 2 - result[g]
    <3>1. seen[g][b] \in Row /\ seen[g][other] \in Row /\ score \in 0..2
      BY <1>1, <2>1, <2>3 DEF Players
    <3>2. KFactor(seen[g][b].played) \in {ProvisionalK, DefaultK}
      BY <2>4, <3>1 DEF Row
    <3>3. seen[g][b].rating \in Ratings /\ seen[g][other].rating \in Ratings
      BY <3>1 DEF Row
    <3> HIDE DEF other, score
    <3>4. Updated(seen[g][b].rating, seen[g][other].rating, score, KFactor(seen[g][b].played))
            \in Ratings
      BY <3>1, <3>2, <3>3, RatingAssumption
    <3> QED BY <3>4 DEF NewRating, other, score
  <2> QED BY <1>1, <2>2, <2>5 DEF SeenIsHeld, Players
<1>2. ASSUME NEW b \in Bots
      PROVE  /\ rated(b) => /\ rating'[b] = NewRating(g, b) /\ played'[b] = played[b] + 1
                            /\ hist'[b] = Append(hist[b], [before |-> rating[b],
                                                           after  |-> NewRating(g, b)])
             /\ ~rated(b) => /\ rating'[b] = rating[b] /\ played'[b] = played[b]
                             /\ hist'[b] = hist[b]
  BY <1>1 DEF Commit
<1>3. ASSUME NEW b \in Bots
      PROVE  rating'[b] \in Ratings /\ played'[b] \in Nat /\ hist'[b] \in Seq(Change)
  <2>1. rating[b] \in Ratings /\ played[b] \in Nat /\ hist[b] \in Seq(Change)
    BY DEF TypeOK
  <2>2. CASE rated(b)
    <3>1. [before |-> rating[b], after |-> NewRating(g, b)] \in Change
      BY <1>1, <2>1, <2>2 DEF Change
    <3>2. Append(hist[b], [before |-> rating[b], after |-> NewRating(g, b)]) \in Seq(Change)
      <4> HIDE DEF rated
      <4> QED BY <2>1, <3>1
    <3>3. rating'[b] = NewRating(g, b) /\ played'[b] = played[b] + 1
          /\ hist'[b] = Append(hist[b], [before |-> rating[b], after |-> NewRating(g, b)])
      BY <1>2, <2>2
    <3>4. NewRating(g, b) \in Ratings
      BY <1>1, <2>2
    <3> HIDE DEF rated
    <3> QED BY <2>1, <3>2, <3>3, <3>4
  <2>3. CASE ~rated(b)
    BY <1>2, <2>1, <2>3
  <2> QED BY <2>2, <2>3
<1>4. Ended(g, "recorded") /\ UNCHANGED <<exists, key, reqs>>
  BY DEF Commit
<1>5. TypeOK'
  <2>1. /\ rating' \in [Bots -> Ratings] /\ played' \in [Bots -> Nat]
        /\ hist' \in [Bots -> Seq(Change)]
    BY <1>3 DEF Commit
  <2> QED BY <1>4, <2>1, EndedReleases DEF TypeOK, reqs
<1>6. SeenIsHeld' /\ RequestsHold'
  <2>1. RequestsHold'
    BY <1>4, EndedReleases
  <2>2. ASSUME NEW h \in Games, NEW b \in Bots, seen'[h][b].there
        PROVE  excl'[b] = h /\ seen'[h][b].rating = rating'[b] /\ seen'[h][b].played = played'[b]
    <3>1. h # g /\ seen'[h][b] = seen[h][b] /\ excl[b] = h /\ excl'[b] = h
      BY <1>4, <2>2, EndedReleases
    <3>2. ~rated(b)
      BY <1>1, <3>1
    <3>3. rating'[b] = rating[b] /\ played'[b] = played[b]
      BY <1>2, <3>2
    <3>4. seen[h][b].rating = rating[b] /\ seen[h][b].played = played[b]
      BY <2>2, <3>1 DEF SeenIsHeld
    <3> QED BY <3>1, <3>3, <3>4
  <2> QED BY <2>1, <2>2 DEF SeenIsHeld
<1>7. ASSUME NEW b \in Bots PROVE Chain(hist'[b], played'[b], rating'[b])
  <2>1. Chain(hist[b], played[b], rating[b])
    BY ChainDef
  <2>2. CASE rated(b)
    <3>1. NewRating(g, b) \in Ratings
      BY <1>1, <2>2
    <3>2. hist[b] \in Seq(Change) /\ played[b] \in Nat /\ rating[b] \in Ratings
      BY DEF TypeOK
    <3>3. Chain(Append(hist[b], [before |-> rating[b], after |-> NewRating(g, b)]),
                played[b] + 1, NewRating(g, b))
      BY <2>1, <3>1, <3>2, ChainGrows
    <3> QED BY <1>2, <2>2, <3>3
  <2>3. CASE ~rated(b)
    BY <1>2, <2>1, <2>3
  <2> QED BY <2>2, <2>3
<1>8. RatingsChain'
  BY <1>7 DEF RatingsChain, Chain
<1> QED BY <1>5, <1>6, <1>8

\* A request that locks, writes or releases a row touches none a finalizer reads,
\* and no request brings a bot back.
LEMMA RequestTouches ==
    ASSUME IInv, NEW b \in Bots,
           \/ RotateReads(b) \/ RotateLocks(b) \/ Rotated(b)
           \/ DeleteReads(b) \/ DeleteLocks(b) \/ Deleted(b)
    PROVE  /\ UNCHANGED <<rating, played, share, pc, result, seen, hist>>
           /\ \A c \in Bots : excl'[c] = excl[c] \/ (c = b /\ excl[c] \in Reserved)
           /\ \A c \in Bots : excl'[c] = excl[c] \/ excl'[c] \in Reserved
           /\ \A c \in Bots : exists'[c] => exists[c]
           /\ excl' \in [Bots -> Games \cup Reserved]
<1>1. CASE RotateReads(b) \/ DeleteReads(b)
  BY <1>1 DEF RotateReads, DeleteReads, IInv, TypeOK, rows, locks, fins
<1>2. CASE RotateLocks(b)
  BY <1>2 DEF RotateLocks, IInv, TypeOK, rows, fins, Free, Reserved
<1>3. CASE DeleteLocks(b)
  BY <1>3 DEF DeleteLocks, IInv, TypeOK, rows, fins, Free, Reserved
<1>4. CASE Rotated(b)
  BY <1>4 DEF Rotated, IInv, TypeOK, RequestsHold, fins, Reserved
<1>5. CASE Deleted(b)
  BY <1>5 DEF Deleted, IInv, TypeOK, RequestsHold, fins, Reserved
<1> QED BY <1>1, <1>2, <1>3, <1>4, <1>5

\* So it keeps the invariant.
LEMMA RequestIInv ==
    ASSUME IInv, NEW b \in Bots,
           \/ RotateReads(b) \/ RotateLocks(b) \/ Rotated(b)
           \/ DeleteReads(b) \/ DeleteLocks(b) \/ Deleted(b)
    PROVE  IInv'
<1>1. /\ UNCHANGED <<rating, played, share, pc, result, seen, hist>>
      /\ \A c \in Bots : excl'[c] = excl[c] \/ (c = b /\ excl[c] \in Reserved)
      /\ excl' \in [Bots -> Games \cup Reserved]
  BY RequestTouches
<1>2. /\ exists' \in [Bots -> BOOLEAN] /\ key' \in [Bots -> Nat]
      /\ rotation' \in [Bots -> {"idle", "read", "locked"}]
      /\ deletion' \in [Bots -> {"idle", "read", "locked"}]
  <2>1. CASE RotateReads(b) \/ RotateLocks(b)
    BY <2>1 DEF RotateReads, RotateLocks, IInv, TypeOK, rows
  <2>2. CASE DeleteReads(b) \/ DeleteLocks(b)
    BY <2>2 DEF DeleteReads, DeleteLocks, IInv, TypeOK, rows
  <2>3. CASE Rotated(b)
    BY <2>3 DEF Rotated, IInv, TypeOK
  <2>4. CASE Deleted(b)
    BY <2>4 DEF Deleted, IInv, TypeOK
  <2> QED BY <2>1, <2>2, <2>3, <2>4
<1>3. TypeOK'
  BY <1>1, <1>2 DEF IInv, TypeOK
<1>4. SeenIsHeld'
  BY <1>1, GamesAreNotReserved DEF IInv, SeenIsHeld, Reserved
<1>5. RequestsHold'
  <2>1. CASE RotateReads(b) \/ DeleteReads(b)
    BY <2>1 DEF RotateReads, DeleteReads, IInv, TypeOK, RequestsHold, locks
  <2>2. CASE RotateLocks(b)
    BY <2>2 DEF RotateLocks, IInv, TypeOK, RequestsHold, Free
  <2>3. CASE DeleteLocks(b)
    BY <2>3 DEF DeleteLocks, IInv, TypeOK, RequestsHold, Free
  <2>4. CASE Rotated(b)
    BY <2>4 DEF Rotated, IInv, TypeOK, RequestsHold
  <2>5. CASE Deleted(b)
    BY <2>5 DEF Deleted, IInv, TypeOK, RequestsHold
  <2> QED BY <2>1, <2>2, <2>3, <2>4, <2>5
<1>6. RatingsChain'
  BY <1>1 DEF IInv, RatingsChain
<1> QED BY <1>3, <1>4, <1>5, <1>6 DEF IInv

\* A step of a game's finalizer or of a request keeps IInv.
LEMMA NextIInv == IInv /\ [Next]_vars => IInv'
<1> SUFFICES ASSUME IInv, [Next]_vars PROVE IInv'
  OBVIOUS
<1>1. ASSUME NEW g \in Games, GameEnds(g) PROVE IInv'
  <2>1. PICK r \in 0..3 : result' = [result EXCEPT ![g] = r]
    <3>1. (IF g \in MayAbort THEN 0..3 ELSE 0..2) \subseteq 0..3
      OBVIOUS
    <3>2. \E r \in IF g \in MayAbort THEN 0..3 ELSE 0..2 : result' = [result EXCEPT ![g] = r]
      BY <1>1 DEF GameEnds
    <3> QED BY <3>1, <3>2, Zenon
  <2>2. /\ result' \in [Games -> 0..3]
        /\ pc' \in [Games -> {"playing", "begun", "first", "second", "recorded", "failed", "victim", "lost"}]
    BY <1>1, <2>1 DEF GameEnds, IInv, TypeOK
  <2>3. TypeOK'
    BY <1>1, <2>2 DEF GameEnds, IInv, TypeOK, rows, locks, reqs
  <2>4. UNCHANGED <<rows, locks, seen, hist, reqs>>
    BY <1>1 DEF GameEnds
  <2> QED BY <2>3, <2>4, Untouched DEF locks
<1>2. ASSUME NEW g \in Games, ShareRow(g) PROVE IInv'
  <2>1. NextRow(g) \in Bots
    BY BotRowsAssumption, <1>2 DEF ShareRow, NextRow, Order
  <2>2. TypeOK'
    BY <1>2, <2>1 DEF ShareRow, Advanced, IInv, TypeOK, rows, reqs
  <2>3. UNCHANGED <<rows, excl, seen, hist, reqs>>
    BY <1>2 DEF ShareRow
  <2> QED BY <2>2, <2>3, Untouched
<1>3. ASSUME NEW g \in Games, InsertFails(g) \/ RolledBack(g) \/ ConnectionLost(g) PROVE IInv'
  BY <1>3, GivenUpIInv DEF InsertFails, RolledBack, ConnectionLost
<1>4. CASE UNCHANGED vars
  <2>1. TypeOK'
    BY <1>4 DEF vars, rows, locks, fins, reqs, IInv, TypeOK
  <2> QED BY <1>4, <2>1, Untouched DEF vars, locks, fins
<1> QED BY <1>1, <1>2, <1>3, <1>4, LockRowIInv, CommitIInv, RequestIInv DEF Next

\* IInv is inductive.
THEOREM InductiveInvariant == Spec => []IInv
BY InitIInv, NextIInv, PTL DEF Spec

-----------------------------------------------------------------------------
(* Who waits for whom. *)

\* The rows a finalizer has passed: it holds them, unless they were gone.
Taken(g) == CASE pc[g] = "first"  -> {Order(g)[1]}
              [] pc[g] = "second" -> Players(g)
              [] OTHER            -> {}

\* Rated games hold rows for update, aborted ones share them, and only rows they
\* have passed.
LocksAreTaken ==
    \A g \in Games, b \in Bots : /\ excl[b] = g => Rated(g) /\ b \in Taken(g)
                                 /\ g \in share[b] => ~Rated(g) /\ b \in Taken(g)

\* A rated game has read the rows it has passed, or they are gone.
TakenIsSeen ==
    \A g \in Games : Rated(g) => \A b \in Taken(g) : seen[g][b].there \/ ~exists[b]

\* An insert fails for a player that is gone.
FailedIsDeleted == \A g \in Games : pc[g] = "failed" => \E b \in Players(g) : ~exists[b]

LInv == LocksAreTaken /\ TakenIsSeen /\ FailedIsDeleted

\* A finite set of naturals has a greatest one.
LEMMA GreatestNat ==
    ASSUME NEW T, T \subseteq Nat, IsFiniteSet(T), T # {}
    PROVE  \E x \in T : \A y \in T : y <= x
<1> DEFINE Above(x) == {y \in T : y > x}
           N == {Cardinality(Above(x)) : x \in T}
<1>1. \A x \in T : IsFiniteSet(Above(x)) /\ Cardinality(Above(x)) \in Nat
  BY FS_Subset, FS_CardinalityType
<1>2. PICK x \in T : \A y \in T : Cardinality(Above(x)) <= Cardinality(Above(y))
  <2>1. N \subseteq Nat /\ N # {}
    BY <1>1
  <2>2. PICK n \in N : \A m \in N : n <= m
    BY <2>1, LeastNat
  <2> QED BY <2>2
<1>3. ASSUME NEW y \in T, y > x PROVE FALSE
  <2>1. Above(y) \in SUBSET Above(x) /\ y \in Above(x) /\ y \notin Above(y)
    <3>1. x \in Nat /\ y \in Nat /\ \A z \in T : z \in Nat
      OBVIOUS
    <3>2. \A z \in T : z > y => z > x
      BY <1>3, <3>1
    <3>3. ~(y > y)
      BY <3>1
    <3> QED BY <1>3, <3>2, <3>3
  <2>2. Cardinality(Above(y)) <= Cardinality(Above(x)) /\ Cardinality(Above(x)) # Cardinality(Above(y))
    BY <1>1, <2>1, FS_Subset
  <2>3. Cardinality(Above(x)) <= Cardinality(Above(y))
    BY <1>2
  <2> HIDE DEF Above
  <2> QED BY <1>1, <2>2, <2>3
<1> QED BY <1>3

\* A game locks its two bots, a rated one in the order of their ids.
LEMMA OrderLocksBoth ==
    ASSUME TypeOK, NEW g \in Games
    PROVE  /\ Order(g)[1] \in Bots /\ Order(g)[2] \in Bots
           /\ Players(g) = {Order(g)[1], Order(g)[2]}
           /\ Rated(g) => Order(g)[1] < Order(g)[2]
           /\ ~Rated(g) => Order(g)[1] = White[g] /\ Order(g)[2] = Black[g]
<1>1. White[g] \in Bots /\ Black[g] \in Bots /\ White[g] # Black[g]
  BY BotRowsAssumption
<1>2. White[g] \in Nat /\ Black[g] \in Nat
  BY <1>1, BotRowsAssumption
<1> QED BY <1>1, <1>2 DEF Order, Players

\* The next row of a waiting game is the one it has not passed.
LEMMA NextIsNotTaken ==
    ASSUME TypeOK, NEW g \in Games, Waiting(g)
    PROVE  /\ NextRow(g) \in Bots /\ NextRow(g) \in Players(g)
           /\ pc[g] = "begun" => NextRow(g) = Order(g)[1] /\ Taken(g) = {}
           /\ pc[g] = "first" => NextRow(g) = Order(g)[2] /\ Taken(g) = {Order(g)[1]}
BY OrderLocksBoth DEF Waiting, NextRow, Taken

\* When a waiting game waits for a rated one that waits itself, the other has the
\* lower of its rows and goes for a higher one.
LEMMA BlockerGoesUp ==
    ASSUME TypeOK, LInv, NEW f \in Games, NEW h \in Games, Waiting(f), Waiting(h),
           excl[NextRow(f)] = h
    PROVE  Rated(h) /\ NextRow(f) \in Players(h) /\ NextRow(h) > NextRow(f)
<1>1. NextRow(f) \in Bots
  BY NextIsNotTaken
<1>2. Rated(h) /\ NextRow(f) \in Taken(h)
  BY <1>1 DEF LInv, LocksAreTaken
<1>3. pc[h] = "first" /\ NextRow(f) = Order(h)[1] /\ NextRow(h) = Order(h)[2]
  BY <1>2, NextIsNotTaken DEF Waiting
<1>4. Order(h)[1] \in Nat /\ Order(h)[2] \in Nat
  BY OrderLocksBoth, BotRowsAssumption
<1> QED BY <1>2, <1>3, <1>4, OrderLocksBoth

\* Some of the games that wait for each other goes for the greatest row; who blocks
\* it has that row and goes for a smaller one, which no rated game does.
LEMMA CircleHasAnAbort ==
    ASSUME TypeOK, LInv, NEW S \in SUBSET Games, Circle(S)
    PROVE  \E f, h \in S : /\ Rated(f) /\ NextRow(f) = White[h]
                           /\ ~Rated(h) /\ h \in share[White[h]] /\ Black[h] < White[h]
<1>1. S # {} /\ \A f \in S : Waiting(f) /\ \E h \in S \ {f} : Blocks(h, f)
  BY DEF Circle
<1> DEFINE T == {NextRow(f) : f \in S}
<1>2. T \subseteq Bots /\ T # {}
  BY <1>1, NextIsNotTaken
<1>3. IsFiniteSet(T) /\ T \subseteq Nat
  BY <1>2, FS_Subset, BotRowsAssumption
<1>4. PICK f \in S : \A y \in T : y <= NextRow(f)
  BY <1>2, <1>3, GreatestNat, ZenonT(40)
<1>5. \A x \in S : NextRow(x) \in Nat /\ NextRow(x) <= NextRow(f)
  BY <1>3, <1>4
<1> HIDE DEF T
<1>6. PICK h \in S \ {f} : Blocks(h, f)
  BY <1>1
<1>7. Waiting(f) /\ Waiting(h) /\ h \in Games /\ f \in Games
  BY <1>1, <1>6
<1>8. excl[NextRow(f)] # h
  BY <1>5, <1>6, <1>7, BlockerGoesUp
<1>9. Rated(f) /\ h \in share[NextRow(f)] /\ NextRow(f) \in Bots
  BY <1>6, <1>7, <1>8, NextIsNotTaken DEF Blocks
<1>10. /\ ~Rated(h) /\ NextRow(f) = White[h] /\ NextRow(h) = Black[h]
  <2>1. ~Rated(h) /\ NextRow(f) \in Taken(h)
    BY <1>7, <1>9 DEF LInv, LocksAreTaken
  <2>2. pc[h] = "first" /\ NextRow(f) = Order(h)[1] /\ NextRow(h) = Order(h)[2]
    BY <1>7, <2>1, NextIsNotTaken DEF Waiting
  <2> QED BY <1>7, <2>1, <2>2, OrderLocksBoth
<1>11. Black[h] < White[h]
  <2>1. Black[h] <= White[h]
    BY <1>5, <1>6, <1>10
  <2>2. White[h] # Black[h] /\ White[h] \in Nat /\ Black[h] \in Nat
    BY <1>7, BotRowsAssumption
  <2> QED BY <2>1, <2>2
<1> QED BY <1>6, <1>9, <1>10, <1>11

\* What the end of a transaction leaves of the locks.
LEMMA EndedLInv ==
    ASSUME TypeOK, LInv, NEW g \in Games, NEW how \in {"recorded", "failed", "victim", "lost"},
           Ended(g, how), UNCHANGED exists, how = "failed" => \E b \in Players(g) : ~exists[b]
    PROVE  LInv'
<1> USE DEF LInv
<1>1. /\ pc'[g] = how
      /\ \A h \in Games : h # g => pc'[h] = pc[h] /\ result'[h] = result[h] /\ seen'[h] = seen[h]
  BY DEF Ended, TypeOK
<1>2. Taken(g)' = {}
  BY <1>1 DEF Taken
<1>3. ASSUME NEW h \in Games, h # g
      PROVE  (Rated(h)' <=> Rated(h)) /\ Taken(h)' = Taken(h)
  BY <1>1, <1>3 DEF Rated, Taken, Order, Players
<1>4. ASSUME NEW h \in Games, NEW b \in Bots
      PROVE  /\ excl'[b] = h => h # g /\ excl[b] = h
             /\ h \in share'[b] => h # g /\ h \in share[b]
  BY GamesAreNotReserved DEF Ended, TypeOK
<1>5. LocksAreTaken'
  BY <1>3, <1>4 DEF LocksAreTaken
<1>6. TakenIsSeen'
  BY <1>1, <1>2, <1>3 DEF TakenIsSeen
<1>7. FailedIsDeleted'
  BY <1>1 DEF FailedIsDeleted, Players
<1> QED BY <1>5, <1>6, <1>7

\* An insert that fails has a player that is gone.
LEMMA FailureIsADeletion ==
    ASSUME TypeOK, LInv, NEW g \in Games, InsertFails(g)
    PROVE  \E b \in Players(g) : ~exists[b]
<1>1. CASE pc[g] = "second" /\ Rated(g) /\ \E b \in Players(g) : ~seen[g][b].there
  <2>1. Taken(g) = Players(g)
    BY <1>1 DEF Taken
  <2> QED BY <1>1, <2>1 DEF LInv, TakenIsSeen
<1>2. CASE pc[g] \in {"begun", "first"} /\ ~Rated(g) /\ ~exists[NextRow(g)]
  BY <1>2, NextIsNotTaken DEF Waiting
<1> QED BY <1>1, <1>2 DEF InsertFails, Dangling

\* A finalizer that locks or shares its next row has passed one row more.
LEMMA AdvancedTakes ==
    ASSUME TypeOK, NEW g \in Games, Waiting(g), Advanced(g), UNCHANGED result
    PROVE  /\ Taken(g)' = Taken(g) \cup {NextRow(g)} /\ pc'[g] # "failed"
           /\ \A h \in Games : /\ Rated(h)' <=> Rated(h)
                               /\ h # g => Taken(h)' = Taken(h) /\ pc'[h] = pc[h]
<1>1. pc'[g] = IF pc[g] = "begun" THEN "first" ELSE "second"
  BY DEF Advanced, TypeOK
<1>2. \A h \in Games : h # g => pc'[h] = pc[h]
  BY DEF Advanced, TypeOK
<1>3. \A h \in Games : (Rated(h)' <=> Rated(h)) /\ Order(h)' = Order(h) /\ Players(h)' = Players(h)
  BY DEF Rated, Order, Players
<1>4. Taken(g)' = Taken(g) \cup {NextRow(g)}
  BY <1>1, <1>3, NextIsNotTaken, OrderLocksBoth DEF Taken, Waiting
<1>5. \A h \in Games : h # g => Taken(h)' = Taken(h)
  BY <1>2, <1>3 DEF Taken
<1> QED BY <1>1, <1>2, <1>3, <1>4, <1>5

\* Locking or sharing it keeps the invariant.
LEMMA AdvancedLInv ==
    ASSUME TypeOK, LInv, NEW g \in Games, LockRow(g) \/ ShareRow(g)
    PROVE  LInv'
<1> USE DEF LInv
<1> DEFINE b == NextRow(g)
<1>1. Waiting(g) /\ Advanced(g) /\ UNCHANGED <<result, exists>>
  BY DEF LockRow, ShareRow, Waiting, rows
<1>2. b \in Bots /\ b \in Players(g)
  BY <1>1, NextIsNotTaken
<1>3. /\ \A h \in Games, c \in Bots : excl'[c] = h => excl[c] = h \/ (h = g /\ c = b /\ Rated(g))
      /\ \A h \in Games, c \in Bots :
            h \in share'[c] => h \in share[c] \/ (h = g /\ c = b /\ ~Rated(g))
  BY <1>2 DEF LockRow, ShareRow, TypeOK
<1>4. /\ \A h \in Games, c \in Bots : seen[h][c].there => seen'[h][c].there
      /\ Rated(g) => seen'[g][b].there \/ ~exists[b]
  <2>1. CASE UNCHANGED seen /\ (Rated(g) => ~exists[b])
    BY <2>1
  <2>2. CASE seen' = [seen EXCEPT ![g][b] = [rating |-> rating[b], played |-> played[b],
                                             there |-> TRUE]]
    <3> HIDE DEF b
    <3> QED BY <1>2, <2>2 DEF TypeOK
  <2> QED BY <2>1, <2>2 DEF LockRow, ShareRow
<1> HIDE DEF b
<1>5. /\ Taken(g)' = Taken(g) \cup {b} /\ pc'[g] # "failed"
      /\ \A h \in Games : /\ Rated(h)' <=> Rated(h)
                          /\ h # g => Taken(h)' = Taken(h) /\ pc'[h] = pc[h]
  BY <1>1, AdvancedTakes DEF b
<1>6. LocksAreTaken'
  BY <1>3, <1>5 DEF LocksAreTaken
<1>7. TakenIsSeen'
  <2>1. ASSUME NEW h \in Games, Rated(h)', NEW c \in Taken(h)'
        PROVE  seen'[h][c].there \/ ~exists'[c]
    <3>1. Rated(h)
      BY <1>5, <2>1
    <3>2. CASE c \in Taken(h)
      <4>1. c \in Bots
        BY <3>2, OrderLocksBoth DEF Taken
      <4> QED BY <1>1, <1>4, <3>1, <3>2, <4>1 DEF TakenIsSeen
    <3>3. CASE c \notin Taken(h)
      BY <1>1, <1>4, <1>5, <2>1, <3>1, <3>3
    <3> QED BY <3>2, <3>3
  <2> QED BY <2>1 DEF TakenIsSeen
<1>8. FailedIsDeleted'
  BY <1>1, <1>5 DEF FailedIsDeleted, Players
<1> QED BY <1>6, <1>7, <1>8

\* The end of a game begins a transaction that has passed no row yet.
LEMMA GameEndsLInv ==
    ASSUME TypeOK, LInv, NEW g \in Games, GameEnds(g)
    PROVE  LInv'
<1> USE DEF LInv
<1>1. PICK r \in IF g \in MayAbort THEN 0..3 ELSE 0..2 : result' = [result EXCEPT ![g] = r]
  BY DEF GameEnds
<1>2. /\ pc[g] = "playing" /\ pc'[g] = "begun" /\ result'[g] = r
      /\ \A h \in Games : h # g => pc'[h] = pc[h] /\ result'[h] = result[h]
      /\ UNCHANGED <<exists, excl, share, seen>>
  BY <1>1 DEF GameEnds, TypeOK, rows, locks
<1>3. Taken(g) = {} /\ Taken(g)' = {} /\ pc'[g] # "failed"
  BY <1>2 DEF Taken
<1>4. ASSUME NEW h \in Games, h # g
      PROVE  (Rated(h)' <=> Rated(h)) /\ Taken(h)' = Taken(h)
  BY <1>2, <1>4 DEF Rated, Taken, Order, Players
<1>5. LocksAreTaken'
  BY <1>2, <1>3, <1>4 DEF LocksAreTaken
<1>6. TakenIsSeen'
  BY <1>2, <1>3, <1>4 DEF TakenIsSeen
<1>7. FailedIsDeleted'
  BY <1>2, <1>3 DEF FailedIsDeleted, Players
<1> QED BY <1>5, <1>6, <1>7

\* A request touches no lock of a game and brings no bot back.
LEMMA RequestLInv ==
    ASSUME TypeOK, LInv, UNCHANGED <<share, pc, result, seen>>,
           \A c \in Bots : excl'[c] = excl[c] \/ excl'[c] \in Reserved,
           \A c \in Bots : exists'[c] => exists[c]
    PROVE  LInv'
<1> USE DEF LInv
<1>1. \A h \in Games : /\ Rated(h)' <=> Rated(h)
                       /\ Taken(h)' = Taken(h) /\ Players(h)' = Players(h)
  BY DEF Rated, Taken, Order, Players
<1>2. \A h \in Games, c \in Bots : excl'[c] = h => excl[c] = h
  BY GamesAreNotReserved DEF Reserved
<1>3. LocksAreTaken' /\ TakenIsSeen'
  <2>1. \A h \in Games : Taken(h) \subseteq Bots
    BY OrderLocksBoth DEF Taken
  <2> QED BY <1>1, <1>2, <2>1 DEF LocksAreTaken, TakenIsSeen
<1>4. FailedIsDeleted'
  <2>1. \A h \in Games : Players(h) \subseteq Bots
    BY BotRowsAssumption DEF Players
  <2> QED BY <1>1, <2>1 DEF FailedIsDeleted
<1> QED BY <1>3, <1>4

\* LInv holds along with IInv.
LEMMA NextLInv == IInv /\ LInv /\ [Next]_vars => LInv'
<1> SUFFICES ASSUME IInv, LInv, [Next]_vars PROVE LInv'
  OBVIOUS
<1>1. TypeOK
  BY DEF IInv
<1>2. ASSUME NEW g \in Games, Commit(g) PROVE LInv'
  BY <1>1, <1>2, EndedLInv DEF Commit
<1>3. ASSUME NEW g \in Games, InsertFails(g) PROVE LInv'
  <2>1. \E b \in Players(g) : ~exists[b]
    BY <1>1, <1>3, FailureIsADeletion
  <2> QED BY <1>1, <1>3, <2>1, EndedLInv DEF InsertFails, rows
<1>4. ASSUME NEW g \in Games, RolledBack(g) \/ ConnectionLost(g) PROVE LInv'
  BY <1>1, <1>4, EndedLInv DEF RolledBack, ConnectionLost, rows
<1>5. ASSUME NEW b \in Bots,
             \/ RotateReads(b) \/ RotateLocks(b) \/ Rotated(b)
             \/ DeleteReads(b) \/ DeleteLocks(b) \/ Deleted(b)
      PROVE  LInv'
  BY <1>1, <1>5, RequestTouches, RequestLInv
<1>6. CASE UNCHANGED vars
  BY <1>1, <1>6, RequestLInv DEF vars, rows, locks, fins
<1> QED BY <1>1, <1>2, <1>3, <1>4, <1>5, <1>6, GameEndsLInv, AdvancedLInv DEF Next

\* No finalizer has begun.
LEMMA InitLInv == Init => LInv
<1> SUFFICES ASSUME Init PROVE LInv
  OBVIOUS
<1>1. \A g \in Games : pc[g] = "playing" /\ Taken(g) = {}
  BY DEF Init, Taken
<1>2. \A g \in Games, b \in Bots : excl[b] # g /\ g \notin share[b]
  BY GamesAreNotReserved DEF Init
<1> QED BY <1>1, <1>2 DEF LInv, LocksAreTaken, TakenIsSeen, FailedIsDeleted

-----------------------------------------------------------------------------
(* What follows. *)

\* Every variable keeps its type.
THEOREM TypeCorrect == Spec => []TypeOK
<1>1. IInv => TypeOK
  BY DEF IInv
<1> QED BY <1>1, InductiveInvariant, PTL

\* No rating is lost (finalize.py:77-98), whatever finalizers, rotations and
\* deletions of however many bots and games overlap.
THEOREM RatingsNeverLost == Spec => []RatingsChain
<1>1. IInv => RatingsChain
  BY DEF IInv
<1> QED BY <1>1, InductiveInvariant, PTL

\* For any number of bots and games (finalize.py:77-87): a circle of finalizers that
\* wait for each other holds an aborted game whose White has the greater id and a
\* rated one that waits for it, and an insert fails only for a deleted player.
THEOREM DeadlocksNeedAnAbort == Spec => []OnlyAbortsDeadlock
<1>1. IInv /\ LInv => OnlyAbortsDeadlock
  <2> SUFFICES ASSUME IInv, LInv PROVE OnlyAbortsDeadlock
    OBVIOUS
  <2>1. \A S \in SUBSET Games : Circle(S) =>
            \E f, h \in S : /\ Rated(f) /\ NextRow(f) = White[h]
                           /\ ~Rated(h) /\ h \in share[White[h]] /\ Black[h] < White[h]
    BY CircleHasAnAbort DEF IInv
  <2> QED BY <2>1 DEF LInv, FailedIsDeleted, OnlyAbortsDeadlock
<1>2. IInv /\ LInv /\ [Next]_vars => LInv'
  BY NextLInv
<1> QED BY <1>1, <1>2, InitLInv, InductiveInvariant, PTL DEF Spec
=============================================================================
