------------------------------- MODULE Pairing -------------------------------
(***************************************************************************)
(* Who may be paired with whom: the widening Elo window                    *)
(* (matchmaking/elo.py) and the choice of an opponent                      *)
(* (matchmaking/pool.py best_opponent), as pure operators on tickets.      *)
(***************************************************************************)
EXTENDS Integers, Sequences

CONSTANTS Bot,      \* the bots that seek games
          Rating,   \* Rating[b]: the rating the session's bot was loaded with
          User,     \* the owners
          OwnerOf,  \* OwnerOf[b]: a user, or NoOwner for a house bot's key
          NoOwner,
          Start,    \* Windowing.start: half-width of the window at first
          Step,     \* Windowing.step: what it gains ...
          StepTime, \* Windowing.step_seconds: ... every StepTime ticks
          Uncap     \* Windowing.uncap_after_seconds

ASSUME BotAssumption ==
    /\ Rating \in [Bot -> Nat]
    /\ OwnerOf \in [Bot -> User \cup {NoOwner}]
ASSUME WindowAssumption ==
    Start \in Nat /\ Step \in Nat /\ StepTime \in Nat \ {0} /\ Uncap \in Nat

\* A ticket: a seek of one session of a bot, enqueued at a time of the clock.
Ticket == [id : Nat, bot : Bot, sess : Nat, at : Nat]

Abs(n)     == IF n >= 0 THEN n ELSE -n
Gap(t, c)  == Abs(Rating[t.bot] - Rating[c.bot])

\* Mutant: only a bot's own tickets are excluded.
SameBot(t, c) == t.bot = c.bot

SameOwner(t, c) == OwnerOf[t.bot] # NoOwner /\ OwnerOf[t.bot] = OwnerOf[c.bot]

Waited(t, now) == IF now >= t.at THEN now - t.at ELSE 0      \* max(0.0, waited_s)
Uncapped(t, now)  == now - t.at >= Uncap
HalfWidth(t, now) == Start + Step * (Waited(t, now) \div StepTime)

\* Either side's window may bridge the gap; an uncapped one bridges any.
RatingGapOk(t, c, now) ==
    \/ Uncapped(t, now) \/ Uncapped(c, now)
    \/ Gap(t, c) <= HalfWidth(t, now)
    \/ Gap(t, c) <= HalfWidth(c, now)

Eligible(t, c, now) ==
    /\ c # t /\ ~SameOwner(t, c)
    /\ RatingGapOk(t, c, now)

\* The order in which the scan prefers candidates: rating gap, then age; the
\* pool's order breaks the ties that are left.
Preferred(t, pool, i, j) ==
    \/ Gap(t, pool[i]) < Gap(t, pool[j])
    \/ Gap(t, pool[i]) = Gap(t, pool[j])
         /\ (pool[i].at < pool[j].at \/ (pool[i].at = pool[j].at /\ i <= j))

\* The scan over the pool: 0, or the index of the best candidate in `among`.
Scan(t, pool, among) ==
    IF among = {} THEN 0
    ELSE CHOOSE i \in among : \A j \in among : Preferred(t, pool, i, j)

Candidates(t, pool, now) == {i \in DOMAIN pool : Eligible(t, pool[i], now)}
Fresh(t, pool, now, excluded) ==
    {i \in Candidates(t, pool, now) : pool[i].bot \notin excluded}

\* Mutant: the exclusion of the previous opponent is hard.
FreshOpponent(t, pool, now, excluded) ==
    Scan(t, pool, IF Uncapped(t, now) THEN Candidates(t, pool, now)
                                      ELSE Fresh(t, pool, now, excluded))

\* best_opponent.  The previous opponent is excluded while there is another
\* candidate, and not at all once t's window is uncapped.
BestOpponent(t, pool, now, excluded) ==
    LET match == Scan(t, pool, Fresh(t, pool, now, excluded)) IN
    IF Uncapped(t, now) \/ match = 0
      THEN Scan(t, pool, Candidates(t, pool, now))
      ELSE match
=============================================================================
