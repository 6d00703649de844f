------------------------------ MODULE BotRows -------------------------------
(***************************************************************************)
(* The rows of the bots in the database and the transactions that meet on  *)
(* them: the finalizer that records a game and rates both bots             *)
(* (persistence/finalize.py, game/ratings.py), the rotation of a key and   *)
(* the deletion of a bot (bots/service.py), under row locks held until the *)
(* end of a transaction.  A bot is known by the rank of its id, which the  *)
(* finalizer sorts by.                                                     *)
(***************************************************************************)
EXTENDS Naturals, Sequences, FiniteSets

CONSTANTS Ratings,          \* what a rating may be
          Bots,             \* the ranks of the bots' ids
          Owned,            \* bots that a user owns and may rotate or delete
          Games,            \* the games that are played
          White, Black,     \* their players
          MayAbort,         \* games that both players may abandon
          Seed,             \* the rating of a new bot
          ProvisionalK, DefaultK, ProvisionalGames,     \* settings.elo_*
          Updated(_, _, _, _),  \* ratings.updated, from rating, opponent, score and K
          MaxRotations      \* bound: key rotations of a bot

Reserved == {"nobody", "rotation", "deletion"}

ASSUME BotRowsAssumption ==
    /\ Bots \subseteq Nat /\ IsFiniteSet(Bots)
    /\ Owned \subseteq Bots /\ MayAbort \subseteq Games
    /\ White \in [Games -> Bots] /\ Black \in [Games -> Bots]
    /\ \A g \in Games : White[g] # Black[g]
    /\ Games \cap Reserved = {}
    /\ Seed \in Ratings /\ {ProvisionalK, DefaultK, ProvisionalGames, MaxRotations} \subseteq Nat

ASSUME RatingAssumption ==
    \A r, o \in Ratings, s \in 0..2, k \in {ProvisionalK, DefaultK} :
        Updated(r, o, s, k) \in Ratings

VARIABLES
    \* the table of bots
    exists, rating, played, key,
    \* the locks
    excl,       \* who holds a row for update, or "nobody"
    share,      \* the games whose insert holds it as referenced
    \* the finalizers
    pc,         \* "playing", "begun", "first", "second", "recorded", "failed", "victim", "lost"
    result,     \* 0, 1, 2: White's score in halves; 3: aborted
    seen,       \* the rows a finalizer has read under its lock
    hist,       \* by bot, the rating columns of its recorded games, in commit order
    \* the requests of the owners
    rotation,   \* "idle", "read", "locked"
    deletion    \* "idle", "read", "locked"

rows  == <<exists, rating, played, key>>
locks == <<excl, share>>
fins  == <<pc, result, seen, hist>>
reqs  == <<rotation, deletion>>
vars  == <<rows, locks, fins, reqs>>

Missing == [rating |-> Seed, played |-> 0, there |-> FALSE]

Init ==
    /\ exists = [b \in Bots |-> TRUE] /\ rating = [b \in Bots |-> Seed]
    /\ played = [b \in Bots |-> 0] /\ key = [b \in Bots |-> 0]
    /\ excl = [b \in Bots |-> "nobody"] /\ share = [b \in Bots |-> {}]
    /\ pc = [g \in Games |-> "playing"] /\ result = [g \in Games |-> 3]
    /\ seen = [g \in Games |-> [b \in Bots |-> Missing]]
    /\ hist = [b \in Bots |-> <<>>]
    /\ rotation = [b \in Bots |-> "idle"] /\ deletion = [b \in Bots |-> "idle"]

-----------------------------------------------------------------------------
(* The finalizer of a game. *)

Players(g) == {White[g], Black[g]}
Rated(g) == result[g] # 3

\* The fixed order in which a rated game locks its bots; the foreign keys of an
\* aborted one are checked White first.
\* Mutant: White before Black in every game.
OrderUnsorted(g) == <<White[g], Black[g]>>
Order(g) == IF Rated(g) /\ Black[g] < White[g] THEN <<Black[g], White[g]>> ELSE <<White[g], Black[g]>>

\* The row a finalizer locks next.
NextRow(g) == Order(g)[IF pc[g] = "begun" THEN 1 ELSE 2]
Free(b) == excl[b] = "nobody" /\ share[b] = {}

\* The transaction and the call end: locks and what was read are gone.
Ended(g, how) ==
    /\ pc' = [pc EXCEPT ![g] = how]
    /\ result' = [result EXCEPT ![g] = 3]
    /\ seen' = [seen EXCEPT ![g] = [b \in Bots |-> Missing]]
    /\ excl' = [b \in Bots |-> IF excl[b] = g THEN "nobody" ELSE excl[b]]
    /\ share' = [b \in Bots |-> share[b] \ {g}]

\* The game is over and its finalizer called.
GameEnds(g) ==
    /\ pc[g] = "playing"
    /\ \E r \in IF g \in MayAbort THEN 0..3 ELSE 0..2 : result' = [result EXCEPT ![g] = r]
    /\ pc' = [pc EXCEPT ![g] = "begun"]
    /\ UNCHANGED <<rows, locks, seen, hist, reqs>>

Advanced(g) == pc' = [pc EXCEPT ![g] = IF @ = "begun" THEN "first" ELSE "second"]

\* SELECT ... FOR UPDATE of the next row, which may be gone; the row is read once
\* the lock is held.
\* Mutant: the row is read without a lock.
LockRowUnlocked(g) ==
    /\ pc[g] \in {"begun", "first"} /\ Rated(g)
    /\ LET b == NextRow(g) IN
       /\ seen' = [seen EXCEPT ![g][b] = [rating |-> rating[b], played |-> played[b],
                                          there |-> exists[b]]]
    /\ Advanced(g) /\ UNCHANGED <<rows, locks, result, hist, reqs>>
LockRow(g) ==
    /\ pc[g] \in {"begun", "first"} /\ Rated(g)
    /\ LET b == NextRow(g) IN
       \/ /\ exists[b] /\ Free(b)
          /\ excl' = [excl EXCEPT ![b] = g]
          /\ seen' = [seen EXCEPT ![g][b] = [rating |-> rating[b], played |-> played[b],
                                             there |-> TRUE]]
       \/ ~exists[b] /\ UNCHANGED <<excl, seen>>
    /\ Advanced(g) /\ UNCHANGED <<rows, share, result, hist, reqs>>

\* An aborted game is only inserted: its foreign keys share-lock the bots.
ShareRow(g) ==
    /\ pc[g] \in {"begun", "first"} /\ ~Rated(g)
    /\ LET b == NextRow(g) IN exists[b] /\ excl[b] = "nobody"
                              /\ share' = [share EXCEPT ![b] = @ \cup {g}]
    /\ Advanced(g) /\ UNCHANGED <<rows, excl, result, seen, hist, reqs>>

\* The insert refers to a bot that is gone: the transaction is rolled back and the
\* finalizer raises.
Dangling(g) == \/ pc[g] = "second" /\ Rated(g) /\ \E b \in Players(g) : ~seen[g][b].there
               \/ pc[g] \in {"begun", "first"} /\ ~Rated(g) /\ ~exists[NextRow(g)]

InsertFails(g) ==
    /\ Dangling(g)
    /\ Ended(g, "failed")
    /\ UNCHANGED <<rows, hist, reqs>>

\* The transactions of the games S wait for each other.
Waiting(g) == pc[g] \in {"begun", "first"}
Blocks(h, g) == \/ excl[NextRow(g)] = h
                \/ Rated(g) /\ h \in share[NextRow(g)]
Circle(S) == S # {} /\ \A f \in S : Waiting(f) /\ \E h \in S \ {f} : Blocks(h, f)

\* The database finds them and rolls one of them back: its finalizer raises.
RolledBack(g) ==
    /\ \E S \in SUBSET Games : g \in S /\ Circle(S)
    /\ Ended(g, "victim")
    /\ UNCHANGED <<rows, hist, reqs>>

\* The connection goes in the middle of the transaction.
ConnectionLost(g) ==
    /\ pc[g] \in {"begun", "first", "second"}
    /\ Ended(g, "lost")
    /\ UNCHANGED <<rows, hist, reqs>>

KFactor(n) == IF n < ProvisionalGames THEN ProvisionalK ELSE DefaultK

\* The new rating of a bot in game g, from the rows as they were read.
NewRating(g, b) ==
    LET other == IF b = White[g] THEN Black[g] ELSE White[g]
        score == IF b = White[g] THEN result[g] ELSE 2 - result[g]
    IN Updated(seen[g][b].rating, seen[g][other].rating, score, KFactor(seen[g][b].played))

\* The commit: both bots are rated and counted, and the game is a row.
Commit(g) ==
    /\ pc[g] = "second" /\ ~Dangling(g)
    /\ LET rated(b) == Rated(g) /\ b \in Players(g) IN
       /\ rating' = [b \in Bots |-> IF rated(b) THEN NewRating(g, b) ELSE rating[b]]
       /\ played' = [b \in Bots |-> IF rated(b) THEN seen[g][b].played + 1 ELSE played[b]]
       /\ hist' = [b \in Bots |->
             IF rated(b) THEN Append(hist[b], [before |-> seen[g][b].rating,
                                               after  |-> NewRating(g, b)])
                         ELSE hist[b]]
    /\ Ended(g, "recorded")
    /\ UNCHANGED <<exists, key, reqs>>

-----------------------------------------------------------------------------
(* The requests of a bot's owner. *)

\* rotate_key: the row is read, and updated when the request comes to it; only
\* the columns of the key are written.
RotateReads(b) ==
    /\ b \in Owned /\ exists[b] /\ rotation[b] = "idle" /\ key[b] < MaxRotations
    /\ rotation' = [rotation EXCEPT ![b] = "read"]
    /\ UNCHANGED <<rows, locks, fins, deletion>>

\* The update locks the row; a row that is gone is an error.
RotateLocks(b) ==
    /\ rotation[b] = "read"
    /\ IF exists[b] THEN /\ Free(b) /\ excl' = [excl EXCEPT ![b] = "rotation"]
                         /\ rotation' = [rotation EXCEPT ![b] = "locked"]
                    ELSE rotation' = [rotation EXCEPT ![b] = "idle"] /\ UNCHANGED excl
    /\ UNCHANGED <<rows, share, fins, deletion>>

Rotated(b) ==
    /\ rotation[b] = "locked" /\ rotation' = [rotation EXCEPT ![b] = "idle"]
    /\ key' = [key EXCEPT ![b] = @ + 1]
    /\ excl' = [excl EXCEPT ![b] = "nobody"]
    /\ UNCHANGED <<exists, rating, played, share, fins, deletion>>

\* delete_bot, likewise; the rows of its games stay and lose their reference.
DeleteReads(b) ==
    /\ b \in Owned /\ exists[b] /\ deletion[b] = "idle"
    /\ deletion' = [deletion EXCEPT ![b] = "read"]
    /\ UNCHANGED <<rows, locks, fins, rotation>>

DeleteLocks(b) ==
    /\ deletion[b] = "read" /\ exists[b] /\ Free(b)
    /\ excl' = [excl EXCEPT ![b] = "deletion"]
    /\ deletion' = [deletion EXCEPT ![b] = "locked"]
    /\ UNCHANGED <<rows, share, fins, rotation>>

Deleted(b) ==
    /\ deletion[b] = "locked" /\ deletion' = [deletion EXCEPT ![b] = "idle"]
    /\ exists' = [exists EXCEPT ![b] = FALSE]
    /\ excl' = [excl EXCEPT ![b] = "nobody"]
    /\ UNCHANGED <<rating, played, key, share, fins, rotation>>

-----------------------------------------------------------------------------
Next ==
    \/ \E g \in Games : \/ GameEnds(g) \/ LockRow(g) \/ ShareRow(g) \/ Commit(g)
                        \/ InsertFails(g) \/ RolledBack(g) \/ ConnectionLost(g)
    \/ \E b \in Bots : \/ RotateReads(b) \/ RotateLocks(b) \/ Rotated(b)
                       \/ DeleteReads(b) \/ DeleteLocks(b) \/ Deleted(b)

Spec == Init /\ [][Next]_vars

-----------------------------------------------------------------------------
(* Properties. *)

Row == [rating : Ratings, played : Nat, there : BOOLEAN]
Change == [before : Ratings, after : Ratings]

TypeOK ==
    /\ exists \in [Bots -> BOOLEAN] /\ rating \in [Bots -> Ratings]
    /\ played \in [Bots -> Nat] /\ key \in [Bots -> Nat]
    /\ excl \in [Bots -> Games \cup Reserved] /\ share \in [Bots -> SUBSET Games]
    /\ pc \in [Games -> {"playing", "begun", "first", "second", "recorded", "failed", "victim", "lost"}]
    /\ result \in [Games -> 0..3] /\ seen \in [Games -> [Bots -> Row]]
    /\ hist \in [Bots -> Seq(Change)]
    /\ rotation \in [Bots -> {"idle", "read", "locked"}]
    /\ deletion \in [Bots -> {"idle", "read", "locked"}]

\* No rating is lost (finalize.py:77-98): the games of a bot form a chain, each
\* from the rating the one before left, down to the rating and the count in its
\* row, however finalizers, key rotations and deletions overlap.
RatingsChain ==
    \A b \in Bots :
        /\ played[b] = Len(hist[b])
        /\ rating[b] = IF hist[b] = <<>> THEN Seed ELSE hist[b][Len(hist[b])].after
        /\ hist[b] # <<>> => hist[b][1].before = Seed
        /\ \A i \in 1..Len(hist[b]) - 1 : hist[b][i + 1].before = hist[b][i].after

\* What the order of the locks is for (finalize.py:77-87).  When finalizers wait
\* for each other, one of them records an aborted game: its insert has locked White,
\* who has the greater id, before Black, and a rated game that goes by the ids waits
\* for White.  Otherwise the database refuses a game only when one of its players
\* was deleted.
OnlyAbortsDeadlock ==
    /\ \A S \in SUBSET Games : Circle(S) =>
          \E f, h \in S : /\ Rated(f) /\ NextRow(f) = White[h]
                         /\ ~Rated(h) /\ h \in share[White[h]] /\ Black[h] < White[h]
    /\ \A g \in Games : pc[g] = "failed" => \E b \in Players(g) : ~exists[b]

\* "Lock in a fixed id order so two txns over the same pair can't deadlock"
\* (finalize.py:81-82).  It does not hold: the foreign keys of an aborted game lock
\* its bots in another order.
SamePairNeverDeadlocks ==
    \A g, h \in Games : g # h /\ Players(g) = Players(h) => ~Circle({g, h})
=============================================================================
