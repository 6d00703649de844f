--------------------------- MODULE SpectateProofs ---------------------------
(***************************************************************************)
(* Proofs about Spectate, for any pages, any length of the game, and any   *)
(* number of streams and of connections that the reader loses.             *)
(***************************************************************************)
EXTENDS Spectate, SublistProofs, SequenceTheorems

-----------------------------------------------------------------------------
(* The moves of a list of events, and the order they are in. *)

IsMove(e) == e.kind = "move"
Plies(s)  == {s[i].ply : i \in {j \in 1 .. Len(s) : IsMove(s[j])}}
Rising(s) == \A i, j \in 1 .. Len(s) : i < j /\ IsMove(s[i]) /\ IsMove(s[j]) => s[i].ply < s[j].ply

\* The first l moves.
Beginning(l) == [i \in 1 .. l |-> i - 1]

\* The moves of s are older than those of t.
Before(s, t) == \A p \in Plies(s), q \in Plies(t) : p < q

\* The plies of a queue are those at its places.
LEMMA PliesAre ==
    ASSUME NEW s, NEW p
    PROVE  p \in Plies(s) <=> \E i \in 1 .. Len(s) : IsMove(s[i]) /\ s[i].ply = p
BY DEF Plies

\* One more event, which is younger than the moves before it.
LEMMA AppendOrder ==
    ASSUME NEW s \in Seq(Events), NEW e \in Events
    PROVE  /\ Append(s, e) \in Seq(Events)
           /\ Plies(Append(s, e)) = Plies(s) \cup (IF IsMove(e) THEN {e.ply} ELSE {})
           /\ Rising(s) /\ (IsMove(e) => \A p \in Plies(s) : p < e.ply) => Rising(Append(s, e))
<1> DEFINE r == Append(s, e)
           l == Len(s)
<1>1. /\ l \in Nat /\ r \in Seq(Events) /\ Len(r) = l + 1 /\ r[l + 1] = e
      /\ \A i \in 1 .. l : r[i] = s[i]
  OBVIOUS
<1>2. l = Len(s)
  OBVIOUS
<1> HIDE DEF r, l
<1>3. \A i \in 1 .. l + 1 : i \in 1 .. l \/ i = l + 1
  BY <1>1
<1>4. 1 .. l \subseteq 1 .. l + 1 /\ l + 1 \in 1 .. l + 1
  BY <1>1
<1>5. \A p : p \in Plies(r) <=> p \in Plies(s) \/ (IsMove(e) /\ p = e.ply)
  <2> TAKE p
  <2>1. p \in Plies(r) <=> \E i \in 1 .. l + 1 : IsMove(r[i]) /\ r[i].ply = p
    BY <1>1, PliesAre
  <2>2. p \in Plies(s) <=> \E i \in 1 .. l : IsMove(s[i]) /\ s[i].ply = p
    BY <1>2, PliesAre
  <2> QED BY <2>1, <2>2, <1>1, <1>3, <1>4
<1>6. ASSUME Rising(s), IsMove(e) => \A p \in Plies(s) : p < e.ply PROVE Rising(r)
  <2> SUFFICES ASSUME NEW i \in 1 .. l + 1, NEW j \in 1 .. l + 1, i < j,
                      IsMove(r[i]), IsMove(r[j])
               PROVE  r[i].ply < r[j].ply
    BY <1>1 DEF Rising
  <2>1. i \in 1 .. l
    BY <1>1
  <2>2. CASE j \in 1 .. l
    BY <2>1, <2>2, <1>1, <1>2, <1>6 DEF Rising
  <2>3. CASE j = l + 1
    <3>1. s[i].ply \in Plies(s)
      BY <2>1, <1>1, <1>2, PliesAre
    <3> QED BY <2>1, <2>3, <3>1, <1>1, <1>6
  <2> QED BY <2>2, <2>3, <1>3
<1>7. Plies(r) = Plies(s) \cup (IF IsMove(e) THEN {e.ply} ELSE {})
  BY <1>5
<1> QED BY <1>1, <1>6, <1>7 DEF r

\* The first event is taken.
LEMMA TailOrder ==
    ASSUME NEW s \in Seq(Events), s # <<>>
    PROVE  /\ Head(s) \in Events /\ Tail(s) \in Seq(Events)
           /\ Plies(s) = Plies(Tail(s)) \cup (IF IsMove(Head(s)) THEN {Head(s).ply} ELSE {})
           /\ Rising(s) => /\ Rising(Tail(s))
                           /\ IsMove(Head(s)) => \A p \in Plies(Tail(s)) : Head(s).ply < p
<1> DEFINE r == Tail(s)
           e == Head(s)
           l == Len(s)
<1>1. /\ l \in Nat \ {0} /\ r \in Seq(Events) /\ Len(r) = l - 1 /\ e = s[1] /\ e \in Events
      /\ \A i \in 1 .. Len(r) : r[i] = s[i + 1]
  BY HeadTailProperties
<1>2. l = Len(s)
  OBVIOUS
<1> HIDE DEF r, e, l
<1>3. ASSUME NEW i \in 1 .. l PROVE i = 1 \/ (i - 1 \in 1 .. l - 1 /\ (i - 1) + 1 = i)
  BY <1>1
<1>4. ASSUME NEW i \in 1 .. l - 1 PROVE i + 1 \in 1 .. l /\ 1 < i + 1
  BY <1>1
<1>5. 1 \in 1 .. l
  BY <1>1
<1>6. ASSUME NEW p PROVE p \in Plies(r) <=> \E i \in 1 .. l - 1 : IsMove(s[i + 1]) /\ s[i + 1].ply = p
  <2>1. p \in Plies(r) <=> \E i \in 1 .. l - 1 : IsMove(r[i]) /\ r[i].ply = p
    BY <1>1, PliesAre
  <2> QED BY <2>1, <1>1
<1>7. ASSUME NEW p PROVE p \in Plies(s) <=> p \in Plies(r) \/ (IsMove(e) /\ p = e.ply)
  <2>1. p \in Plies(s) <=> \E i \in 1 .. l : IsMove(s[i]) /\ s[i].ply = p
    BY <1>2, PliesAre
  <2> QED BY <2>1, <1>1, <1>3, <1>4, <1>5, <1>6
<1>8. ASSUME Rising(s)
      PROVE  Rising(r) /\ (IsMove(e) => \A p \in Plies(r) : e.ply < p)
  <2>1. \A i, j \in 1 .. l : i < j /\ IsMove(s[i]) /\ IsMove(s[j]) => s[i].ply < s[j].ply
    BY <1>8, <1>2 DEF Rising
  <2>2. Rising(r)
    <3> SUFFICES ASSUME NEW i \in 1 .. l - 1, NEW j \in 1 .. l - 1, i < j,
                        IsMove(s[i + 1]), IsMove(s[j + 1])
                 PROVE  s[i + 1].ply < s[j + 1].ply
      BY <1>1 DEF Rising
    <3> QED BY <2>1, <1>4
  <2>3. ASSUME IsMove(e), NEW p \in Plies(r) PROVE e.ply < p
    <3>1. PICK i \in 1 .. l - 1 : IsMove(s[i + 1]) /\ s[i + 1].ply = p
      BY <1>6
    <3> QED BY <2>1, <2>3, <3>1, <1>1, <1>4, <1>5
  <2> QED BY <2>2, <2>3
<1>9. Plies(s) = Plies(r) \cup (IF IsMove(e) THEN {e.ply} ELSE {})
  BY <1>7
<1> QED BY <1>1, <1>8, <1>9 DEF r, e

\* One list after the other.
LEMMA ConcatOrder ==
    ASSUME NEW s \in Seq(Events), NEW t \in Seq(Events)
    PROVE  /\ s \o t \in Seq(Events)
           /\ Plies(s \o t) = Plies(s) \cup Plies(t)
           /\ Rising(s) /\ Rising(t) /\ Before(s, t) => Rising(s \o t)
<1> DEFINE r == s \o t
           l == Len(s)
           m == Len(t)
<1>1. /\ l \in Nat /\ m \in Nat /\ r \in Seq(Events) /\ Len(r) = l + m
      /\ \A i \in 1 .. l + m : r[i] = IF i <= l THEN s[i] ELSE t[i - l]
  BY ConcatProperties
<1>2. l = Len(s) /\ m = Len(t)
  OBVIOUS
<1> HIDE DEF r, l, m
<1>3. ASSUME NEW i \in 1 .. l + m
      PROVE  \/ i \in 1 .. l /\ r[i] = s[i]
             \/ i - l \in 1 .. m /\ r[i] = t[i - l] /\ ~(i \in 1 .. l)
  BY <1>1
<1>4. /\ \A i \in 1 .. l : i \in 1 .. l + m /\ r[i] = s[i]
      /\ \A i \in 1 .. m : l + i \in 1 .. l + m /\ r[l + i] = t[i]
  <2>1. \A i \in 1 .. l : i \in 1 .. l + m /\ i <= l
    BY <1>1
  <2>2. \A i \in 1 .. m : l + i \in 1 .. l + m /\ ~(l + i <= l) /\ (l + i) - l = i
    BY <1>1
  <2>3. ASSUME NEW i \in 1 .. m PROVE r[l + i] = t[i]
    <3>1. PICK k \in 1 .. l + m : k = l + i
      BY <2>2
    <3>2. r[k] = t[k - l] /\ k - l = i
      BY <1>1, <2>2, <3>1
    <3> QED BY <3>1, <3>2
  <2> QED BY <1>1, <2>1, <2>2, <2>3
<1>5. ASSUME NEW p PROVE p \in Plies(r) <=> p \in Plies(s) \/ p \in Plies(t)
  <2>1. p \in Plies(r) <=> \E i \in 1 .. l + m : IsMove(r[i]) /\ r[i].ply = p
    <3>1. Len(r) = l + m
      BY <1>1
    <3> QED BY <3>1, PliesAre
  <2>2. p \in Plies(s) <=> \E i \in 1 .. l : IsMove(s[i]) /\ s[i].ply = p
    BY <1>2, PliesAre
  <2>3. p \in Plies(t) <=> \E i \in 1 .. m : IsMove(t[i]) /\ t[i].ply = p
    BY <1>2, PliesAre
  <2>4. p \in Plies(r) => p \in Plies(s) \/ p \in Plies(t)
    BY <2>1, <2>2, <2>3, <1>3
  <2>5. p \in Plies(s) => p \in Plies(r)
    BY <2>1, <2>2, <1>4
  <2>6. p \in Plies(t) => p \in Plies(r)
    BY <2>1, <2>3, <1>4
  <2> QED BY <2>4, <2>5, <2>6
<1>6. ASSUME Rising(s), Rising(t), Before(s, t) PROVE Rising(r)
  <2> SUFFICES ASSUME NEW i \in 1 .. l + m, NEW j \in 1 .. l + m, i < j,
                      IsMove(r[i]), IsMove(r[j])
               PROVE  r[i].ply < r[j].ply
    BY <1>1 DEF Rising
  <2>1. CASE i \in 1 .. l /\ r[i] = s[i] /\ j \in 1 .. l /\ r[j] = s[j]
    BY <2>1, <1>2, <1>6 DEF Rising
  <2>2. CASE i \in 1 .. l /\ r[i] = s[i] /\ j - l \in 1 .. m /\ r[j] = t[j - l]
    <3>1. s[i].ply \in Plies(s) /\ t[j - l].ply \in Plies(t)
      BY <2>2, <1>2, PliesAre
    <3> QED BY <2>2, <3>1, <1>6 DEF Before
  <2>3. CASE i - l \in 1 .. m /\ r[i] = t[i - l] /\ j - l \in 1 .. m /\ r[j] = t[j - l]
    <3>1. i - l < j - l
      BY <1>1
    <3> QED BY <2>3, <3>1, <1>2, <1>6 DEF Rising
  <2>4. i \in 1 .. l \/ ~(j \in 1 .. l)
    BY <1>1
  <2> QED BY <2>1, <2>2, <2>3, <2>4, <1>3
<1>7. Plies(r) = Plies(s) \cup Plies(t)
  BY <1>5
<1> QED BY <1>1, <1>6, <1>7 DEF r

\* The empty queue.
LEMMA NoMoves == Plies(<<>>) = {} /\ Rising(<<>>)
<1>1. \A i \in 1 .. Len(<<>>) : FALSE
  OBVIOUS
<1> QED BY <1>1 DEF Plies, Rising

\* Numbers that rise and fill an interval are the interval, in its order.
Fills(f, m, l, k) ==
    /\ \A a \in 1 .. m : f[a] \in l .. k - 1
    /\ \A a, b \in 1 .. m : a < b => f[a] < f[b]
    /\ \A p \in l .. k - 1 : \E a \in 1 .. m : f[a] = p
Counts(f, m, l) == \A a \in 1 .. m : f[a] = l + a - 1

\* Plies that rise and fill an interval are counted by it: the n-th is the n-th.
LEMMA RisingFills ==
    ASSUME NEW m \in Nat, NEW l \in Nat, NEW k \in Nat, l <= k, NEW f, Fills(f, m, l, k)
    PROVE  m = k - l /\ Counts(f, m, l)
<1>0. /\ \A a \in 1 .. m : f[a] \in l .. k - 1
      /\ \A a, b \in 1 .. m : a < b => f[a] < f[b]
      /\ \A p \in l .. k - 1 : \E a \in 1 .. m : f[a] = p
  BY DEF Fills
<1>1. \A a \in 1 .. m : f[a] = l + a - 1
  <2> DEFINE T == {a \in 1 .. m : f[a] # l + a - 1}
  <2> SUFFICES ASSUME T # {} PROVE FALSE
    OBVIOUS
  <2>1. PICK a \in T : \A b \in T : a <= b
    <3>1. T \subseteq Nat
      OBVIOUS
    <3> HIDE DEF T
    <3> QED BY <3>1, LeastNat
  <2>2. a \in 1 .. m /\ f[a] # l + a - 1 /\ f[a] \in l .. k - 1
    BY <1>0
  <2>3. \A b \in 1 .. m : b < a => f[b] = l + b - 1
    BY <2>1
  <2> HIDE DEF T
  <2>4. f[a] > l + a - 1
    <3>1. CASE a = 1
      BY <3>1, <2>2
    <3>2. CASE a # 1
      <4>1. PICK b \in 1 .. m : b = a - 1
        BY <3>2, <2>2
      <4>2. f[b] = l + b - 1 /\ f[b] < f[a]
        BY <4>1, <1>0, <2>2, <2>3
      <4> QED BY <4>1, <4>2, <2>2
    <3> QED BY <3>1, <3>2
  <2>5. l + a - 1 \in l .. k - 1
    BY <2>2, <2>4
  <2>6. PICK b \in 1 .. m : f[b] = l + a - 1
    BY <1>0, <2>5
  <2>7. CASE b < a
    BY <2>2, <2>3, <2>6, <2>7
  <2>8. CASE b = a
    BY <2>2, <2>6, <2>8
  <2>9. CASE b > a
    <3>1. f[a] < f[b]
      BY <1>0, <2>2, <2>9
    <3> QED BY <3>1, <2>2, <2>4, <2>6
  <2> QED BY <2>2, <2>7, <2>8, <2>9
<1>2. m <= k - l
  <2>1. CASE m = 0
    BY <2>1
  <2>2. CASE m # 0
    <3>1. m \in 1 .. m
      BY <2>2
    <3>2. f[m] = l + m - 1 /\ f[m] \in l .. k - 1
      BY <1>0, <1>1, <3>1
    <3> QED BY <3>2
  <2> QED BY <2>1, <2>2
<1>3. k - l <= m
  <2>1. SUFFICES ASSUME m < k - l PROVE FALSE
    OBVIOUS
  <2>2. l + m \in l .. k - 1
    BY <2>1
  <2>3. PICK a \in 1 .. m : f[a] = l + m
    BY <1>0, <2>2
  <2> QED BY <1>1, <2>3
<1> QED BY <1>1, <1>2, <1>3 DEF Counts

\* What the page shows and what it will take add up to the game.
LEMMA ViewAddsUp ==
    ASSUME NEW s \in Seq(Events), NEW l \in Nat, NEW k \in Nat, l <= k,
           Rising(s), Plies(s) \subseteq 0 .. k - 1, l .. k - 1 \subseteq Plies(s)
    PROVE  LET coming == Keep(s, {i \in DOMAIN s : s[i].kind = "move" /\ s[i].ply >= l})
           IN  Beginning(l) \o [i \in DOMAIN coming |-> coming[i].ply] = Beginning(k)
<1> DEFINE places == {i \in DOMAIN s : s[i].kind = "move" /\ s[i].ply >= l}
           coming == Keep(s, places)
           c == Len(coming)
           rest == [i \in DOMAIN coming |-> coming[i].ply]
<1>1. /\ coming \in Seq(Events)
      /\ \E at : Places(at, coming, s, places, Len(s))
  BY KeepPlaces
<1>2. PICK at : Places(at, coming, s, places, Len(s))
  BY <1>1
<1>3. c \in Nat /\ DOMAIN coming = 1 .. c
  BY <1>1
<1>4. Len(s) \in Nat /\ DOMAIN s = 1 .. Len(s)
  OBVIOUS
<1>5. /\ \A i \in places : i \in 1 .. Len(s) /\ IsMove(s[i]) /\ s[i].ply >= l
      /\ \A i \in 1 .. Len(s) : IsMove(s[i]) /\ s[i].ply >= l => i \in places
  BY <1>4 DEF IsMove
<1>6. rest = [i \in 1 .. c |-> coming[i].ply]
  BY <1>3
<1> HIDE DEF places, coming, c, rest
<1>7. /\ \A a \in 1 .. c : at[a] \in places /\ at[a] \in 1 .. Len(s) /\ coming[a] = s[at[a]]
      /\ \A a, b \in 1 .. c : a < b => at[a] < at[b]
      /\ \A i \in places : \E a \in 1 .. c : at[a] = i
  BY <1>2, <1>5 DEF Places, c
<1>8. \A a \in 1 .. c : rest[a] = s[at[a]].ply
  BY <1>6, <1>7
<1>9. \A a \in 1 .. c : rest[a] \in l .. k - 1
  <2> TAKE a \in 1 .. c
  <2>1. rest[a] = s[at[a]].ply /\ IsMove(s[at[a]]) /\ s[at[a]].ply >= l /\ at[a] \in 1 .. Len(s)
    BY <1>5, <1>7, <1>8
  <2>2. rest[a] \in Plies(s)
    BY <2>1, PliesAre
  <2> QED BY <2>1, <2>2
<1>10. \A a, b \in 1 .. c : a < b => rest[a] < rest[b]
  BY <1>5, <1>7, <1>8 DEF Rising
<1>11. \A p \in l .. k - 1 : \E a \in 1 .. c : rest[a] = p
  <2> TAKE p \in l .. k - 1
  <2>1. PICK i \in 1 .. Len(s) : IsMove(s[i]) /\ s[i].ply = p
    BY PliesAre
  <2>2. i \in places
    BY <2>1, <1>5
  <2>3. PICK a \in 1 .. c : at[a] = i
    BY <2>2, <1>7
  <2> QED BY <2>1, <2>3, <1>8
<1>12. c = k - l /\ \A a \in 1 .. c : rest[a] = l + a - 1
  <2>1. Fills(rest, c, l, k)
    BY <1>9, <1>10, <1>11 DEF Fills
  <2>2. c = k - l /\ Counts(rest, c, l)
    BY <1>3, <2>1, RisingFills
  <2> QED BY <2>2 DEF Counts
<1>13. /\ Beginning(l) \in Seq(Nat) /\ Len(Beginning(l)) = l
       /\ \A i \in 1 .. l : Beginning(l)[i] = i - 1
  BY DEF Beginning
<1>14. rest \in Seq(Nat) /\ Len(rest) = c
  BY <1>3, <1>6, <1>9
<1> DEFINE both == Beginning(l) \o rest
<1>15. /\ both \in Seq(Nat) /\ Len(both) = l + c
       /\ \A i \in 1 .. l + c : both[i] = IF i <= l THEN Beginning(l)[i] ELSE rest[i - l]
  <2>1. PICK b : b = Beginning(l)
    OBVIOUS
  <2>2. b \in Seq(Nat) /\ rest \in Seq(Nat) /\ Len(b) = l /\ Len(rest) = c
    BY <2>1, <1>13, <1>14
  <2>3. /\ b \o rest \in Seq(Nat) /\ Len(b \o rest) = Len(b) + Len(rest)
        /\ \A i \in 1 .. Len(b) + Len(rest) :
              (b \o rest)[i] = IF i <= Len(b) THEN b[i] ELSE rest[i - Len(b)]
    BY <2>2, ConcatProperties
  <2> QED BY <2>1, <2>2, <2>3
<1> HIDE DEF both
<1>16. l + c = k
  BY <1>3, <1>12
<1>17. \A i \in 1 .. k : both[i] = i - 1
  <2> TAKE i \in 1 .. k
  <2>1. CASE i <= l
    BY <2>1, <1>13, <1>15, <1>16
  <2>2. CASE ~(i <= l)
    <3>1. i - l \in 1 .. c
      BY <2>2, <1>3, <1>16
    <3>2. rest[i - l] = l + (i - l) - 1
      BY <3>1, <1>12
    <3> QED BY <2>2, <3>2, <1>15, <1>16
  <2> QED BY <2>1, <2>2
<1>18. both = [i \in 1 .. k |-> both[i]]
  BY <1>15, <1>16
<1>19. both = Beginning(k)
  BY <1>17, <1>18 DEF Beginning
<1> QED BY <1>19 DEF both, rest, coming, places

-----------------------------------------------------------------------------
(* The inductive invariant. *)

Coming(w)    == Plies(queue[w]) \cup Plies(wire) \cup Plies(pending)

\* Every event on its way is of the game, in its order.
OrderGood ==
    /\ Rising(wire) /\ Rising(pending) /\ Before(wire, pending)
    /\ \A w \in Watchers :
          /\ Rising(queue[w]) /\ Before(queue[w], wire) /\ Before(queue[w], pending)
          /\ Coming(w) \subseteq 0 .. n - 1
    /\ Plies(wire) \cup Plies(pending) \subseteq 0 .. n - 1

\* What run_game has done so far.
RunGood ==
    /\ run = "sending" <=> pending # <<>>
    /\ pending # <<>> => Len(pending) = 1
    /\ bus = "inproc" => wire = <<>> /\ pending = <<>>
    /\ run \in {"recorded", "told"} => recorded
    /\ pending # <<>> /\ pending[1].kind = "game_over" => recorded
    /\ ~inRegistry => run \in {"told", "dead"}

\* What the page of a stream shows, and what is still on its way to it.
StreamGood(w) ==
    /\ stream[w] \in Open => Sub(w) \in subs
    /\ stream[w] \in {"caught", "tail"} =>
          /\ Len(view[w]) <= n /\ view[w] = Beginning(Len(view[w]))
          /\ w \notin lost => Len(view[w]) .. n - 1 \subseteq Coming(w)

\* What a look-up has seen.
LookupGood ==
    /\ lookup = "absent" => recorded \/ run = "dead"
    /\ lookup = "finished" => recorded
    /\ lookup = "missing" => run = "dead"

IInv == /\ TypeOK /\ OrderGood /\ RunGood /\ LookupGood
        /\ \A w \in Watchers : StreamGood(w)

-----------------------------------------------------------------------------
(* The steps of run_game and of the bus. *)

\* A move is known by its ply.
LEMMA MoveIs == \A p : IsMove(Move(p)) /\ Move(p).ply = p
                       /\ ~IsMove(Event("game_start", p)) /\ ~IsMove(Event("game_over", p))
BY DEF IsMove, Move, Event

\* A page with an open stream is subscribed.
LEMMA OpenListens ==
    ASSUME NEW w \in Watchers, StreamGood(w), stream[w] \in Open PROVE w \in Listening
BY DEF StreamGood, Listening

\* Every subscription gets e, which is younger than what is in its queue.
LEMMA DeliverGood ==
    ASSUME TypeOK, NEW e \in Events, Deliver(e), NEW w \in Watchers, Rising(queue[w]),
           IsMove(e) => \A p \in Plies(queue[w]) : p < e.ply
    PROVE  /\ queue'[w] \in Seq(Events) /\ Rising(queue'[w])
           /\ Plies(queue'[w]) = Plies(queue[w]) \cup (IF w \in Listening /\ IsMove(e) THEN {e.ply} ELSE {})
<1>1. queue[w] \in Seq(Events)
  BY DEF TypeOK
<1>2. CASE w \in Listening
  <2>1. queue'[w] = Append(queue[w], e)
    BY <1>2 DEF Deliver
  <2>2. /\ Append(queue[w], e) \in Seq(Events) /\ Rising(Append(queue[w], e))
        /\ Plies(Append(queue[w], e)) = Plies(queue[w]) \cup (IF IsMove(e) THEN {e.ply} ELSE {})
    BY <1>1, AppendOrder
  <2> QED BY <1>2, <2>1, <2>2
<1>3. CASE w \notin Listening
  <2>1. queue'[w] = queue[w]
    BY <1>3 DEF Deliver
  <2> QED BY <1>1, <1>3, <2>1
<1> QED BY <1>2, <1>3

\* run_game publishes the next event of the game.
LEMMA PublishGood ==
    ASSUME IInv, NEW e \in Events, NEW next, Publish(e, next), run # "sending",
           UNCHANGED <<wire, subs, stream, streams, view, lost>>,
           n' = IF IsMove(e) THEN n + 1 ELSE n, IsMove(e) => e.ply = n
    PROVE  /\ OrderGood' /\ \A w \in Watchers : StreamGood(w)'
           /\ pending' \in Seq(Events) /\ queue' \in [Watchers -> Seq(Events)]
<1>0. /\ TypeOK /\ OrderGood /\ RunGood /\ n \in Nat /\ pending = <<>>
      /\ pending \in Seq(Events) /\ queue \in [Watchers -> Seq(Events)]
  BY DEF IInv, TypeOK, RunGood
<1> DEFINE new == IF IsMove(e) THEN {e.ply} ELSE {}
<1>1. 0 .. n' - 1 = 0 .. n - 1 \cup new /\ n' \in Nat
  BY <1>0
<1>2. \A w \in Watchers : Plies(queue[w]) \subseteq 0 .. n - 1 /\ Rising(queue[w])
  BY <1>0 DEF OrderGood, Coming
<1>3. IsMove(e) => \A p \in 0 .. n - 1 : p < e.ply
  BY <1>0
<1> HIDE DEF new
<1>4. CASE bus = "inproc" /\ Deliver(e) /\ UNCHANGED pending
  <2>1. wire = <<>> /\ wire' = <<>> /\ pending' = <<>>
    BY <1>0, <1>4 DEF RunGood
  <2>2. \A w \in Watchers :
           /\ queue'[w] \in Seq(Events) /\ Rising(queue'[w])
           /\ Plies(queue'[w]) = Plies(queue[w]) \cup
                  (IF w \in Listening /\ IsMove(e) THEN {e.ply} ELSE {})
    BY <1>0, <1>2, <1>3, <1>4, DeliverGood
  <2>3. \A w \in Watchers : /\ Plies(queue'[w]) \subseteq Plies(queue[w]) \cup new
                            /\ w \in Listening => Plies(queue'[w]) = Plies(queue[w]) \cup new
    BY <2>2 DEF new
  <2>4. OrderGood'
    BY <1>1, <1>2, <2>1, <2>2, <2>3, NoMoves DEF OrderGood, Coming, Before
  <2>5. \A w \in Watchers : stream[w] \in Open => Coming(w)' = Coming(w) \cup new
    BY <2>1, <2>3, <1>0, OpenListens, NoMoves DEF Coming, IInv
  <2>6. queue' \in [Watchers -> Seq(Events)]
    BY <1>4, <2>2 DEF Deliver
  <2>7. \A w \in Watchers : stream[w] \in Open => Coming(w) \cup new \subseteq Coming(w)'
    BY <2>5
  <2> QED BY <1>0, <2>1, <2>4, <2>6, <2>7, <1>1 DEF StreamGood, IInv, Sub, Open, new
<1>5. CASE bus = "redis" /\ pending' = <<e>> /\ UNCHANGED queue
  <2>1. pending' = Append(<<>>, e) /\ <<>> \in Seq(Events)
    BY <1>5
  <2>2. pending' \in Seq(Events) /\ Plies(pending') = new /\ Rising(pending')
    BY <2>1, AppendOrder, NoMoves DEF new
  <2>3. \A p \in 0 .. n - 1, q \in new : p < q
    BY <1>3 DEF new
  <2>4. OrderGood'
    BY <1>0, <1>1, <1>5, <2>2, <2>3, NoMoves DEF OrderGood, Coming, Before
  <2>5. \A w \in Watchers : Coming(w) \cup new \subseteq Coming(w)'
    BY <1>0, <1>5, <2>2, NoMoves DEF Coming
  <2> QED BY <1>0, <1>5, <2>2, <2>4, <2>5, <1>1 DEF StreamGood, IInv, Sub, Open, new
<1> QED BY <1>4, <1>5 DEF Publish

\* Nothing is published, delivered or lost.
LEMMA QuietBus ==
    ASSUME IInv, UNCHANGED <<n, wire, pending, queue, subs, stream, streams, view, lost>>
    PROVE  OrderGood' /\ \A w \in Watchers : StreamGood(w)'
<1>1. OrderGood'
  BY DEF IInv, OrderGood, Coming, Before
<1> QED BY <1>1 DEF IInv, StreamGood, Coming, Sub, Open

\* An event is gone for ever: whoever was subscribed has lost it.
LEMMA LossGood ==
    ASSUME IInv, UNCHANGED <<n, queue, subs, stream, streams, view>>,
           \/ wire' = wire /\ pending' = <<>>
           \/ wire' = <<>> /\ pending' = pending,
           lost' = lost \cup Listening
    PROVE  OrderGood' /\ \A w \in Watchers : StreamGood(w)'
<1>1. OrderGood'
  BY NoMoves DEF IInv, OrderGood, Coming, Before
<1>2. ASSUME NEW w \in Watchers PROVE StreamGood(w)'
  <2>1. stream[w] \in Open => w \in lost'
    BY OpenListens DEF IInv
  <2> QED BY <2>1 DEF IInv, StreamGood, Sub, Open
<1> QED BY <1>1, <1>2

\* Redis has taken the event: it is on the wire.
LEMMA PublishedGood == ASSUME IInv, Published PROVE IInv'
<1>0. TypeOK /\ OrderGood /\ RunGood /\ LookupGood
  BY DEF IInv
<1>1. /\ run = "sending" /\ pending' = <<>> /\ pending # <<>>
      /\ run' = IF pending[1].kind = "game_over" THEN "told" ELSE "playing"
      /\ UNCHANGED <<bus, ambient, n, terminal, recorded, inRegistry, reader, losses, subs, queue,
                     stream, streams, view, told, lookup>>
  BY <1>0 DEF Published, RunGood, pages
<1>2. CASE reader = "up"
  <2>1. wire' = wire \o pending /\ lost' = lost
    BY <1>2 DEF Published
  <2>2. wire \in Seq(Events) /\ pending \in Seq(Events)
    BY <1>0 DEF TypeOK
  <2>3. /\ wire' \in Seq(Events) /\ Rising(wire')
        /\ Plies(wire') = Plies(wire) \cup Plies(pending)
    BY <2>1, <2>2, <1>0, ConcatOrder DEF OrderGood
  <2>4. OrderGood' /\ \A w \in Watchers : Coming(w)' = Coming(w)
    BY <1>0, <1>1, <2>3, NoMoves DEF OrderGood, Coming, Before
  <2>5. \A w \in Watchers : StreamGood(w)'
    BY <1>1, <2>1, <2>4 DEF IInv, StreamGood, Sub, Open
  <2>6. TypeOK'
    BY <1>0, <1>1, <2>1, <2>3 DEF TypeOK, Open
  <2>7. RunGood' /\ LookupGood'
    BY <1>0, <1>1 DEF RunGood, LookupGood
  <2> QED BY <2>4, <2>5, <2>6, <2>7 DEF IInv
<1>3. CASE reader # "up"
  <2>1. wire' = wire /\ lost' = lost \cup Listening
    BY <1>3 DEF Published
  <2>2. OrderGood' /\ \A w \in Watchers : StreamGood(w)'
    BY <1>1, <2>1, LossGood
  <2>3. TypeOK'
    BY <1>0, <1>1, <2>1 DEF TypeOK, Open, Listening
  <2>4. RunGood' /\ LookupGood'
    BY <1>0, <1>1, <2>1 DEF RunGood, LookupGood
  <2> QED BY <2>2, <2>3, <2>4 DEF IInv
<1> QED BY <1>2, <1>3

\* Redis did not take the event: run_game dies, and nothing is published any more.
LEMMA PublishRaisesGood == ASSUME IInv, PublishRaises PROVE IInv'
<1>0. TypeOK /\ RunGood /\ LookupGood
  BY DEF IInv
<1>1. /\ pending' = <<>> /\ run' = "dead" /\ lost' = lost \cup Listening
      /\ UNCHANGED <<bus, ambient, n, terminal, recorded, inRegistry, wire, reader, losses, subs, queue,
                     stream, streams, view, told, lookup>>
  BY DEF PublishRaises, pages, redis
<1>2. OrderGood' /\ \A w \in Watchers : StreamGood(w)'
  BY <1>1, LossGood
<1>3. TypeOK'
  BY <1>0, <1>1 DEF TypeOK, Open, Listening
<1>4. RunGood' /\ LookupGood'
  BY <1>0, <1>1 DEF RunGood, LookupGood
<1> QED BY <1>2, <1>3, <1>4 DEF IInv

\* The steps of run_game that publish, over either bus.
LEMMA PublishingGood ==
    ASSUME IInv, Begin \/ PlayMove \/ Announce PROVE IInv'
<1>0. TypeOK /\ RunGood /\ LookupGood
  BY DEF IInv
<1>1. PICK e, next :
         /\ Publish(e, next) /\ run \in {"paired", "playing", "recorded"}
         /\ \/ e = Event("game_start", 0) /\ n' = n /\ next = "playing"
            \/ e = Move(n) /\ n' = n + 1 /\ n < MaxPly /\ next = "playing"
            \/ e = Event("game_over", 0) /\ n' = n /\ next = "told" /\ run = "recorded"
  BY DEF Begin, PlayMove, Announce
<1>2. UNCHANGED <<bus, ambient, terminal, recorded, inRegistry, wire, reader, losses, subs,
                  stream, streams, view, told, lookup, lost>>
  BY DEF Begin, PlayMove, Announce, pages, redis
<1>3. e \in Events /\ n' \in 0 .. MaxPly
  BY <1>0, <1>1, SpectateAssumption DEF TypeOK, Events, Event, Move
<1>4. n' = (IF IsMove(e) THEN n + 1 ELSE n) /\ (IsMove(e) => e.ply = n)
  BY <1>1, MoveIs
<1>5. /\ OrderGood' /\ \A w \in Watchers : StreamGood(w)'
      /\ pending' \in Seq(Events) /\ queue' \in [Watchers -> Seq(Events)]
  BY <1>1, <1>2, <1>3, <1>4, PublishGood
<1>6. TypeOK'
  BY <1>0, <1>1, <1>2, <1>3, <1>5 DEF TypeOK, Open, Publish
<1>7. RunGood' /\ LookupGood'
  <2>1. e.kind = "game_over" => recorded
    BY <1>0, <1>1 DEF RunGood, Event, Move
  <2>2. CASE bus = "inproc" /\ run' = next /\ UNCHANGED pending
    BY <1>0, <1>1, <1>2, <2>2 DEF RunGood, LookupGood
  <2>3. CASE bus = "redis" /\ pending' = <<e>> /\ run' = "sending"
    <3>1. pending' # <<>> /\ Len(pending') = 1 /\ pending'[1] = e
      BY <2>3
    <3> QED BY <1>0, <1>1, <1>2, <2>1, <2>3, <3>1 DEF RunGood, LookupGood
  <2> QED BY <1>1, <2>2, <2>3 DEF Publish
<1> QED BY <1>5, <1>6, <1>7 DEF IInv

\* The steps of run_game that publish nothing.
LEMMA WorkerGood ==
    ASSUME IInv, GameOver \/ Finalized \/ Evict PROVE IInv'
<1>0. TypeOK /\ RunGood /\ LookupGood
  BY DEF IInv
<1>1. UNCHANGED <<bus, ambient, n, pending, wire, reader, losses, subs, queue,
                  stream, streams, view, told, lookup, lost>>
  BY DEF GameOver, Finalized, Evict, pages, redis
<1>2. OrderGood' /\ \A w \in Watchers : StreamGood(w)'
  BY <1>1, QuietBus
<1>3. TypeOK'
  BY <1>0, <1>1 DEF TypeOK, Open, GameOver, Finalized, Evict
<1>4. RunGood' /\ LookupGood'
  BY <1>0, <1>1 DEF RunGood, LookupGood, GameOver, Finalized, Evict
<1> QED BY <1>2, <1>3, <1>4 DEF IInv

\* The reader hands the oldest event on the wire to every open stream.
LEMMA DispatchGood == ASSUME IInv, Dispatch PROVE IInv'
<1>0. TypeOK /\ OrderGood /\ RunGood /\ LookupGood /\ wire \in Seq(Events) /\ wire # <<>>
  BY DEF IInv, TypeOK, Dispatch
<1>1. PICK e : e = Head(wire)
  OBVIOUS
<1>2. /\ Deliver(e) /\ wire' = Tail(wire)
      /\ UNCHANGED <<bus, ambient, run, n, terminal, recorded, inRegistry, pending, reader, losses,
                     subs, stream, streams, view, told, lookup, lost>>
  BY <1>1 DEF Dispatch, game, pages
<1> DEFINE new == IF IsMove(e) THEN {e.ply} ELSE {}
<1>3. /\ e \in Events /\ wire' \in Seq(Events) /\ Plies(wire) = Plies(wire') \cup new
      /\ Rising(wire') /\ (IsMove(e) => \A p \in Plies(wire') : e.ply < p)
  BY <1>0, <1>1, <1>2, TailOrder DEF OrderGood
<1>4. IsMove(e) => e.ply \in Plies(wire)
  BY <1>3
<1>5. \A w \in Watchers :
         /\ queue'[w] \in Seq(Events) /\ Rising(queue'[w])
         /\ Plies(queue'[w]) = Plies(queue[w]) \cup
                (IF w \in Listening /\ IsMove(e) THEN {e.ply} ELSE {})
  BY <1>0, <1>2, <1>3, <1>4, DeliverGood DEF OrderGood, Before
<1>6. \A w \in Watchers :
         /\ Plies(queue[w]) \subseteq Plies(queue'[w])
         /\ Plies(queue'[w]) \subseteq Plies(queue[w]) \cup new
         /\ w \in Listening => Plies(queue'[w]) = Plies(queue[w]) \cup new
  BY <1>5
<1>7. \A p \in new : p \in Plies(wire) /\ \A q \in Plies(wire') : p < q
  BY <1>3, <1>4
<1> HIDE DEF new
<1>8. OrderGood'
  <2>1. Before(wire', pending)
    BY <1>0, <1>3 DEF OrderGood, Before
  <2>2. ASSUME NEW w \in Watchers
        PROVE  /\ Before(queue'[w], wire') /\ Before(queue'[w], pending)
               /\ Plies(queue'[w]) \cup Plies(wire') \cup Plies(pending) \subseteq 0 .. n - 1
    BY <1>0, <1>3, <1>6, <1>7 DEF OrderGood, Coming, Before
  <2>3. Plies(wire') \cup Plies(pending) \subseteq 0 .. n - 1
    BY <1>0, <1>3 DEF OrderGood
  <2> QED BY <1>0, <1>2, <1>3, <1>5, <2>1, <2>2, <2>3 DEF OrderGood, Coming
<1>9. ASSUME NEW w \in Watchers PROVE StreamGood(w)'
  <2>1. stream[w] \in Open => Coming(w) \subseteq Coming(w)'
    BY <1>2, <1>3, <1>6, OpenListens DEF Coming, IInv
  <2> QED BY <1>2, <2>1 DEF IInv, StreamGood, Sub, Open
<1>10. TypeOK'
  <2>1. queue' \in [Watchers -> Seq(Events)]
    BY <1>2, <1>5 DEF Deliver
  <2> QED BY <1>0, <1>2, <1>3, <2>1 DEF TypeOK, Open
<1>11. RunGood' /\ LookupGood'
  BY <1>0, <1>2 DEF RunGood, LookupGood
<1> QED BY <1>8, <1>9, <1>10, <1>11 DEF IInv

\* The reader loses its connection, with what was on the wire, or gets it back.
LEMMA ReaderGood ==
    ASSUME IInv, ConnectionLost \/ Reconnect PROVE IInv'
<1>0. TypeOK /\ RunGood /\ LookupGood
  BY DEF IInv
<1>1. UNCHANGED <<bus, ambient, run, n, terminal, recorded, inRegistry, pending, subs, queue,
                  stream, streams, view, told, lookup>>
  BY DEF ConnectionLost, Reconnect, game, pages
<1>2. \/ wire' = wire /\ lost' = lost
      \/ wire' = <<>> /\ lost' = lost \cup Listening
  BY DEF ConnectionLost, Reconnect
<1>3. OrderGood' /\ \A w \in Watchers : StreamGood(w)'
  BY <1>1, <1>2, QuietBus, LossGood
<1>4. TypeOK'
  <2>1. wire' \in Seq(Events) /\ lost' \subseteq Watchers
    <3>1. Listening \subseteq Watchers /\ lost \subseteq Watchers
      BY <1>0 DEF TypeOK, Listening
    <3>2. wire \in Seq(Events) /\ <<>> \in Seq(Events)
      BY <1>0 DEF TypeOK
    <3>3. wire' = wire \/ wire' = <<>>
      BY <1>2
    <3>4. lost' = lost \/ lost' = lost \cup Listening
      BY <1>2
    <3>5. lost' \subseteq Watchers
      BY <3>1, <3>4
    <3> QED BY <3>2, <3>3, <3>5
  <2>2. losses' \in 0 .. MaxLosses /\ reader' \in {"up", "down"}
    BY <1>0, SpectateAssumption DEF TypeOK, ConnectionLost, Reconnect
  <2> QED BY <1>0, <1>1, <2>1, <2>2 DEF TypeOK, Open
<1>5. RunGood' /\ LookupGood'
  BY <1>0, <1>1, <1>2 DEF RunGood, LookupGood, ConnectionLost, Reconnect
<1> QED BY <1>3, <1>4, <1>5 DEF IInv

\* Requests for the game and for the lobby.
LEMMA LookingUpGood ==
    ASSUME IInv, LookUp \/ RecordRead \/ ListActive \/ ListFinished PROVE IInv'
<1>0. TypeOK /\ RunGood /\ LookupGood
  BY DEF IInv
<1>1. UNCHANGED <<bus, ambient, run, n, terminal, recorded, inRegistry, pending, wire, reader, losses,
                  subs, queue, stream, streams, view, told, lost>>
  BY DEF LookUp, RecordRead, ListActive, ListFinished, game, redis, pages
<1>2. OrderGood' /\ \A w \in Watchers : StreamGood(w)'
  BY <1>1, QuietBus
<1>3. TypeOK'
  BY <1>0, <1>1 DEF TypeOK, Open, LookUp, RecordRead, ListActive, ListFinished
<1>4. RunGood' /\ LookupGood'
  BY <1>0, <1>1 DEF RunGood, LookupGood, LookUp, RecordRead, ListActive, ListFinished, Active
<1> QED BY <1>2, <1>3, <1>4 DEF IInv

-----------------------------------------------------------------------------
(* The steps of one page. *)

\* The other pages do not see it.
LEMMA OtherPages ==
    ASSUME IInv, NEW w \in Watchers, UNCHANGED <<n, wire, pending>>,
           \A u \in Watchers \ {w} :
              /\ stream'[u] = stream[u] /\ streams'[u] = streams[u] /\ view'[u] = view[u]
              /\ queue'[u] = queue[u] /\ (Sub(u) \in subs => Sub(u) \in subs')
              /\ u \in lost => u \in lost',
           Rising(queue'[w]), Plies(queue'[w]) \subseteq Plies(queue[w]), StreamGood(w)'
    PROVE  OrderGood' /\ \A u \in Watchers : StreamGood(u)'
<1>1. OrderGood /\ \A u \in Watchers : StreamGood(u)
  BY DEF IInv
<1>2. \A u \in Watchers : Plies(queue'[u]) \subseteq Plies(queue[u]) /\ Rising(queue'[u])
  BY <1>1 DEF OrderGood
<1>3. OrderGood'
  BY <1>1, <1>2 DEF OrderGood, Coming, Before
<1>4. ASSUME NEW u \in Watchers \ {w} PROVE StreamGood(u)'
  <2>1. Sub(u)' = Sub(u) /\ Coming(u)' = Coming(u)
    BY DEF Sub, Coming
  <2> QED BY <1>1, <2>1 DEF StreamGood, Open
<1> QED BY <1>3, <1>4

\* A stream subscribes: nothing is claimed of what came before.
LEMMA WatchGood == ASSUME IInv, NEW w \in Watchers, Watch(w) PROVE IInv'
<1>0. TypeOK /\ OrderGood /\ RunGood /\ LookupGood /\ StreamGood(w)
  BY DEF IInv
<1>1. UNCHANGED <<bus, ambient, run, n, terminal, recorded, inRegistry, pending, wire, reader, losses,
                  view, told, lookup>>
  BY DEF Watch, game, redis
<1>2. CASE inRegistry
  <2>1. /\ streams' = [streams EXCEPT ![w] = @ + 1] /\ subs' = subs \cup {<<w, streams'[w]>>}
        /\ stream' = [stream EXCEPT ![w] = "opening"]
        /\ queue' = [queue EXCEPT ![w] = <<>>] /\ lost' = lost \ {w} /\ streams[w] < MaxStreams
    BY <1>2 DEF Watch
  <2>2. stream'[w] = "opening" /\ streams'[w] \in 1 .. MaxStreams /\ queue'[w] = <<>>
    BY <1>0, <2>1, SpectateAssumption DEF TypeOK
  <2>3. StreamGood(w)'
    BY <2>1, <2>2 DEF StreamGood, Sub
  <2>4. OrderGood' /\ \A u \in Watchers : StreamGood(u)'
    BY <1>0, <1>1, <2>1, <2>2, <2>3, OtherPages, NoMoves DEF TypeOK
  <2>5. TypeOK'
    <3>1. streams' \in [Watchers -> 0 .. MaxStreams] /\ subs' \subseteq Watchers \X (1 .. MaxStreams)
      BY <1>0, <2>1, <2>2 DEF TypeOK
    <3> QED BY <1>0, <1>1, <2>1, <3>1 DEF TypeOK, Open
  <2>6. RunGood' /\ LookupGood'
    BY <1>0, <1>1 DEF RunGood, LookupGood
  <2> QED BY <2>4, <2>5, <2>6 DEF IInv
<1>3. CASE ~inRegistry
  <2>1. /\ UNCHANGED <<streams, subs, queue, lost>> /\ stream' = [stream EXCEPT ![w] = "refused"]
    BY <1>3 DEF Watch
  <2>2. stream'[w] = "refused"
    BY <1>0, <2>1 DEF TypeOK
  <2>3. StreamGood(w)'
    BY <2>2 DEF StreamGood, Open
  <2>4. OrderGood' /\ \A u \in Watchers : StreamGood(u)'
    BY <1>0, <1>1, <2>1, <2>3, OtherPages DEF TypeOK, OrderGood
  <2>5. TypeOK'
    BY <1>0, <1>1, <2>1 DEF TypeOK, Open
  <2>6. RunGood' /\ LookupGood'
    BY <1>0, <1>1 DEF RunGood, LookupGood
  <2> QED BY <2>4, <2>5, <2>6 DEF IInv
<1> QED BY <1>2, <1>3

\* The snapshot shows what was published, which the queue goes on from.
LEMMA CatchUpGood == ASSUME IInv, NEW w \in Watchers, CatchUp(w) PROVE IInv'
<1>0. TypeOK /\ OrderGood /\ RunGood /\ LookupGood /\ StreamGood(w)
  BY DEF IInv
<1>1. /\ stream[w] = "opening" /\ stream' = [stream EXCEPT ![w] = "caught"]
      /\ view' = [view EXCEPT ![w] = Snapshot]
      /\ UNCHANGED <<bus, ambient, run, n, terminal, recorded, inRegistry, pending, wire, reader, losses,
                     subs, queue, streams, told, lookup, lost>>
  BY DEF CatchUp, game, redis
<1>2. n \in Nat /\ Snapshot = Beginning(n) /\ Snapshot \in Seq(Nat) /\ Len(Snapshot) = n
  BY <1>0 DEF TypeOK, Snapshot, Beginning
<1>3. stream'[w] = "caught" /\ view'[w] = Snapshot
  BY <1>0, <1>1 DEF TypeOK
<1>4. StreamGood(w)'
  BY <1>0, <1>1, <1>2, <1>3 DEF StreamGood, Sub, Open
<1>5. OrderGood' /\ \A u \in Watchers : StreamGood(u)'
  BY <1>0, <1>1, <1>4, OtherPages DEF TypeOK, OrderGood, Sub
<1>6. TypeOK'
  <2>1. view' \in [Watchers -> Seq(Nat)]
    BY <1>0, <1>1, <1>2 DEF TypeOK
  <2> QED BY <1>0, <1>1, <2>1 DEF TypeOK, Open
<1>7. RunGood' /\ LookupGood'
  BY <1>0, <1>1 DEF RunGood, LookupGood
<1> QED BY <1>5, <1>6, <1>7 DEF IInv

\* The stream ends, by the snapshot of a finished game, by game_over, or with the page.
LEMMA EndsGood ==
    ASSUME IInv, NEW w \in Watchers, NEW s \in {"ended", "away"},
           stream' = [stream EXCEPT ![w] = s], queue' = [queue EXCEPT ![w] = <<>>],
           subs' \in {subs, subs \ {Sub(w)}}, told' \in [Watchers -> BOOLEAN],
           lost' \in {lost, lost \ {w}},
           UNCHANGED <<bus, ambient, run, n, terminal, recorded, inRegistry, pending, wire, reader,
                       losses, streams, view, lookup>>
    PROVE  IInv'
<1>0. TypeOK /\ OrderGood /\ RunGood /\ LookupGood /\ StreamGood(w)
  BY DEF IInv
<1>1. stream'[w] = s /\ queue'[w] = <<>>
  BY <1>0 DEF TypeOK
<1>2. StreamGood(w)'
  BY <1>1 DEF StreamGood, Open
<1>3. \A u \in Watchers \ {w} : Sub(u) \in subs => Sub(u) \in subs'
  BY DEF Sub
<1>4. OrderGood' /\ \A u \in Watchers : StreamGood(u)'
  BY <1>0, <1>1, <1>2, <1>3, OtherPages, NoMoves DEF TypeOK
<1>5. TypeOK'
  <2>1. <<>> \in Seq(Events)
    OBVIOUS
  <2> QED BY <1>0, <2>1 DEF TypeOK, Open
<1>6. RunGood' /\ LookupGood'
  BY <1>0 DEF RunGood, LookupGood
<1> QED BY <1>4, <1>5, <1>6 DEF IInv

\* A game that is over after the snapshot is announced at once; else the stream is followed.
LEMMA AfterSnapshotGood == ASSUME IInv, NEW w \in Watchers, AfterSnapshot(w) PROVE IInv'
<1>0. TypeOK /\ OrderGood /\ RunGood /\ LookupGood /\ StreamGood(w)
  BY DEF IInv
<1>1. UNCHANGED <<bus, ambient, run, n, terminal, recorded, inRegistry, pending, wire, reader, losses,
                  streams, view, lookup, lost>>
  BY DEF AfterSnapshot, game, redis
<1>2. CASE terminal
  <2>1. /\ stream' = [stream EXCEPT ![w] = "ended"] /\ queue' = [queue EXCEPT ![w] = <<>>]
        /\ subs' = subs \ {Sub(w)} /\ told' = [told EXCEPT ![w] = TRUE]
    BY <1>2 DEF AfterSnapshot, Closed
  <2>2. told' \in [Watchers -> BOOLEAN]
    BY <1>0, <2>1 DEF TypeOK
  <2> QED BY <1>1, <2>1, <2>2, EndsGood
<1>3. CASE ~terminal
  <2>1. /\ stream[w] = "caught" /\ stream' = [stream EXCEPT ![w] = "tail"]
        /\ UNCHANGED <<told, subs, queue>>
    BY <1>3 DEF AfterSnapshot
  <2>2. StreamGood(w)'
    BY <1>0, <1>1, <2>1 DEF StreamGood, Sub, Open, Coming, TypeOK
  <2>3. OrderGood' /\ \A u \in Watchers : StreamGood(u)'
    BY <1>0, <1>1, <2>1, <2>2, OtherPages DEF TypeOK, OrderGood, Sub
  <2>4. TypeOK'
    BY <1>0, <1>1, <2>1 DEF TypeOK, Open
  <2>5. RunGood' /\ LookupGood'
    BY <1>0, <1>1 DEF RunGood, LookupGood
  <2> QED BY <2>3, <2>4, <2>5 DEF IInv
<1> QED BY <1>2, <1>3

\* A page that takes an event out of order would miss it: there is none.
LEMMA FollowGood == ASSUME IInv, NEW w \in Watchers, Follow(w) PROVE IInv'
<1>0. /\ TypeOK /\ OrderGood /\ RunGood /\ LookupGood /\ StreamGood(w)
      /\ queue[w] \in Seq(Events) /\ queue[w] # <<>> /\ stream[w] = "tail"
      /\ view[w] \in Seq(Nat) /\ n \in Nat
  <2>1. TypeOK /\ OrderGood /\ RunGood /\ LookupGood /\ StreamGood(w)
    BY DEF IInv
  <2>2. queue[w] # <<>> /\ stream[w] = "tail"
    BY DEF Follow
  <2>3. queue[w] \in Seq(Events) /\ view[w] \in Seq(Nat) /\ n \in Nat
    BY <2>1 DEF TypeOK
  <2> QED BY <2>1, <2>2, <2>3
<1>1. PICK e, l : e = Head(queue[w]) /\ l = Len(view[w])
  OBVIOUS
<1>2. UNCHANGED <<bus, ambient, run, n, terminal, recorded, inRegistry, pending, wire, reader, losses,
                  streams, lookup, lost>>
  BY DEF Follow, game, redis
<1> DEFINE new == IF IsMove(e) THEN {e.ply} ELSE {}
<1>3. /\ e \in Events /\ Tail(queue[w]) \in Seq(Events)
      /\ Plies(queue[w]) = Plies(Tail(queue[w])) \cup new
      /\ Rising(Tail(queue[w])) /\ (IsMove(e) => \A p \in Plies(Tail(queue[w])) : e.ply < p)
  BY <1>0, <1>1, TailOrder DEF OrderGood
<1>4. CASE e.kind = "game_over"
  <2>1. /\ stream' = [stream EXCEPT ![w] = "ended"] /\ queue' = [queue EXCEPT ![w] = <<>>]
        /\ subs' = subs \ {Sub(w)} /\ told' = [told EXCEPT ![w] = TRUE] /\ view' = view
    BY <1>1, <1>4 DEF Follow, Closed
  <2>2. told' \in [Watchers -> BOOLEAN]
    BY <1>0, <2>1 DEF TypeOK
  <2> QED BY <1>2, <2>1, <2>2, EndsGood
<1>5. CASE e.kind # "game_over"
  <2>1. /\ queue' = [queue EXCEPT ![w] = Tail(@)] /\ UNCHANGED <<stream, told, subs>>
        /\ \/ IsMove(e) /\ e.ply = l /\ view' = [view EXCEPT ![w] = Append(view[w], e.ply)]
           \/ (IsMove(e) => e.ply # l) /\ view' = view
    <3>1. queue' = [queue EXCEPT ![w] = Tail(@)] /\ UNCHANGED <<stream, told, subs>>
      BY <1>1, <1>5 DEF Follow
    <3>2. \/ /\ e.kind = "move" /\ e.ply = l
             /\ view' = [view EXCEPT ![w] = Append(view[w], e.ply)]
          \/ (e.kind = "game_start" \/ (e.kind = "move" /\ e.ply # l)) /\ view' = view
      BY <1>1, <1>5 DEF Follow
    <3>3. e.kind = "game_start" => ~IsMove(e)
      BY DEF IsMove
    <3>4. e.kind = "move" <=> IsMove(e)
      BY DEF IsMove
    <3> QED BY <3>1, <3>2, <3>3, <3>4
  <2>2. queue'[w] = Tail(queue[w]) /\ queue' \in [Watchers -> Seq(Events)]
    BY <1>0, <1>3, <2>1 DEF TypeOK
  <2>3. l \in Nat /\ l <= n /\ view[w] = Beginning(l) /\ (w \notin lost => l .. n - 1 \subseteq Coming(w))
    BY <1>0, <1>1 DEF StreamGood
  <2>4. Coming(w) = Coming(w)' \cup new
    BY <1>2, <1>3, <2>2 DEF Coming
  <2>5. IsMove(e) => e.ply \in 0 .. n - 1 /\ \A p \in Coming(w)' : e.ply < p
    <3>1. IsMove(e) => e.ply \in Plies(queue[w])
      BY <1>3
    <3> QED BY <1>0, <1>2, <1>3, <2>2, <3>1 DEF OrderGood, Coming, Before
  <2>6. view' \in [Watchers -> Seq(Nat)] /\ StreamGood(w)'
    <3>1. CASE IsMove(e) /\ e.ply = l /\ view' = [view EXCEPT ![w] = Append(view[w], e.ply)]
      <4>1. view'[w] = Append(view[w], l) /\ Len(view'[w]) = l + 1 /\ view' \in [Watchers -> Seq(Nat)]
        <5>1. PICK v : v = Append(view[w], l)
          OBVIOUS
        <5>2. v \in Seq(Nat) /\ Len(v) = l + 1
          BY <1>0, <1>1, <2>3, <5>1
        <5> QED BY <1>0, <3>1, <5>1, <5>2 DEF TypeOK
      <4>2. Append(Beginning(l), l) = Beginning(l + 1)
        BY <2>3 DEF Beginning
      <4>3. l + 1 <= n /\ l + 1 .. n - 1 \subseteq l .. n - 1 /\ l \notin l + 1 .. n - 1
        BY <1>0, <2>3, <2>5, <3>1
      <4>4. w \notin lost => l + 1 .. n - 1 \subseteq Coming(w)'
        BY <2>3, <2>4, <3>1, <4>3
      <4> QED BY <1>0, <1>2, <2>1, <2>3, <3>1, <4>1, <4>2, <4>3, <4>4 DEF StreamGood, Sub
    <3>2. CASE (IsMove(e) => e.ply # l) /\ view' = view
      <4>1. ASSUME w \notin lost, NEW p \in l .. n - 1 PROVE p \in Coming(w)'
        <5>1. p \in Coming(w)' \/ (IsMove(e) /\ p = e.ply)
          BY <2>3, <2>4, <4>1
        <5>2. ASSUME IsMove(e), p = e.ply PROVE FALSE
          <6>1. l \in l .. n - 1 /\ l < p
            BY <1>0, <2>3, <3>2, <5>2
          <6>2. l \in Coming(w)'
            BY <2>3, <2>4, <3>2, <4>1, <5>2, <6>1
          <6> QED BY <2>3, <2>5, <5>2, <6>1, <6>2
        <5> QED BY <5>1, <5>2
      <4> QED BY <1>0, <1>1, <1>2, <2>1, <2>3, <3>2, <4>1 DEF StreamGood, Sub, TypeOK
    <3> QED BY <2>1, <3>1, <3>2
  <2>7. OrderGood' /\ \A u \in Watchers : StreamGood(u)'
    <3>1. Rising(queue'[w]) /\ Plies(queue'[w]) \subseteq Plies(queue[w])
      BY <1>3, <2>2
    <3>2. \A u \in Watchers \ {w} : view'[u] = view[u] /\ queue'[u] = queue[u]
      BY <1>0, <2>1 DEF TypeOK
    <3> QED BY <1>2, <2>1, <2>6, <3>1, <3>2, OtherPages DEF Sub
  <2>8. TypeOK'
    BY <1>0, <1>2, <2>1, <2>2, <2>6 DEF TypeOK, Open
  <2>9. RunGood' /\ LookupGood'
    BY <1>0, <1>2 DEF RunGood, LookupGood
  <2> QED BY <2>7, <2>8, <2>9 DEF IInv
<1> QED BY <1>4, <1>5

\* A page leaves: it is claimed to have what it had.
LEMMA LeaveGood == ASSUME IInv, NEW w \in Watchers, Leave(w) PROVE IInv'
<1>1. /\ stream' = [stream EXCEPT ![w] = "away"] /\ queue' = [queue EXCEPT ![w] = <<>>]
      /\ subs' \in {subs, subs \ {Sub(w)}} /\ lost' = lost \ {w}
      /\ UNCHANGED <<bus, ambient, run, n, terminal, recorded, inRegistry, pending, wire, reader,
                     losses, streams, view, told, lookup>>
  BY DEF Leave, game, redis
<1>2. told' \in [Watchers -> BOOLEAN]
  BY <1>1 DEF IInv, TypeOK
<1> QED BY <1>1, <1>2, EndsGood

-----------------------------------------------------------------------------
(* The theorems. *)

\* Nothing was published.
LEMMA InitGood == Init => IInv
<1> SUFFICES ASSUME Init PROVE IInv
  OBVIOUS
<1>1. TypeOK
  <2>1. /\ queue \in [Watchers -> Seq(Events)] /\ view \in [Watchers -> Seq(Nat)]
        /\ pending \in Seq(Events) /\ wire \in Seq(Events)
    BY DEF Init
  <2>2. n \in 0 .. MaxPly /\ losses \in 0 .. MaxLosses /\ streams \in [Watchers -> 0 .. MaxStreams]
    BY SpectateAssumption DEF Init
  <2> QED BY <2>1, <2>2 DEF Init, TypeOK, Open
<1>2. OrderGood
  BY NoMoves DEF Init, OrderGood, Coming, Before
<1>3. RunGood /\ LookupGood /\ \A w \in Watchers : StreamGood(w)
  BY DEF Init, RunGood, LookupGood, StreamGood, Open
<1> QED BY <1>1, <1>2, <1>3 DEF IInv

\* Every step keeps the invariant.
LEMMA NextGood == ASSUME IInv, [Next]_vars PROVE IInv'
<1>1. CASE Worker \/ PublishRaises
  BY <1>1, PublishingGood, PublishedGood, WorkerGood, PublishRaisesGood DEF Worker
<1>2. CASE Dispatch \/ ConnectionLost \/ Reconnect
  BY <1>2, DispatchGood, ReaderGood
<1>3. CASE \E w \in Watchers : Watch(w) \/ Stream(w) \/ Leave(w)
  BY <1>3, WatchGood, CatchUpGood, AfterSnapshotGood, FollowGood, LeaveGood DEF Stream
<1>4. CASE LookUp \/ RecordRead \/ ListActive \/ ListFinished
  BY <1>4, LookingUpGood
<1>5. CASE UNCHANGED vars
  <2>1. UNCHANGED <<bus, ambient, run, n, terminal, recorded, inRegistry, pending, wire, reader, losses,
                    subs, queue, stream, streams, view, told, lookup, lost>>
    BY <1>5 DEF vars, game, redis, pages
  <2>2. OrderGood' /\ \A w \in Watchers : StreamGood(w)'
    BY <2>1, QuietBus
  <2>3. TypeOK' /\ RunGood' /\ LookupGood'
    BY <2>1, ZenonT(40) DEF IInv, TypeOK, RunGood, LookupGood, Open
  <2> QED BY <2>2, <2>3 DEF IInv
<1> QED BY <1>1, <1>2, <1>3, <1>4, <1>5 DEF Next

\* Events reach the pages in the order of the game, and none is lost in between.
THEOREM InductiveInvariant == Spec => []IInv
<1>1. Init => IInv
  BY InitGood
<1>2. IInv /\ [Next]_vars => IInv'
  BY NextGood
<1> QED BY <1>1, <1>2, PTL DEF Spec

\* What a page shows and what is on its way are the game, from the snapshot to the
\* end of the stream (sse.py:42-52, +page.svelte:80-88).
THEOREM PagesMissNothing == Spec => []NothingMissed
<1>1. ASSUME IInv PROVE NothingMissed
  <2> SUFFICES ASSUME NEW w \in Watchers, stream[w] \in {"caught", "tail"}, w \notin lost
               PROVE  LET sent   == queue[w] \o wire \o pending
                          coming == Keep(sent, {i \in DOMAIN sent : sent[i].kind = "move"
                                                           /\ sent[i].ply >= Len(view[w])})
                      IN  view[w] \o [i \in DOMAIN coming |-> coming[i].ply]
                            = [i \in 1..n |-> i - 1]
    BY DEF NothingMissed
  <2>0. /\ TypeOK /\ OrderGood /\ StreamGood(w) /\ n \in Nat
        /\ queue[w] \in Seq(Events) /\ wire \in Seq(Events) /\ pending \in Seq(Events)
    BY <1>1 DEF IInv, TypeOK
  <2>1. PICK s : s = queue[w] \o wire \o pending
    OBVIOUS
  <2>2. PICK b : b = queue[w] \o wire
    OBVIOUS
  <2>3. /\ b \in Seq(Events) /\ Plies(b) = Plies(queue[w]) \cup Plies(wire) /\ Rising(b)
    BY <2>0, <2>2, ConcatOrder DEF OrderGood
  <2>4. Before(b, pending)
    BY <2>0, <2>3 DEF OrderGood, Before
  <2>5. s \in Seq(Events) /\ Plies(s) = Coming(w) /\ Rising(s)
    BY <2>0, <2>1, <2>2, <2>3, <2>4, ConcatOrder, ZenonT(40) DEF OrderGood, Coming
  <2>6. PICK l \in Nat : /\ l = Len(view[w]) /\ l <= n /\ view[w] = Beginning(l)
                         /\ l .. n - 1 \subseteq Coming(w)
    <3>1. Len(view[w]) \in Nat
      BY <2>0 DEF TypeOK
    <3> QED BY <2>0, <3>1 DEF StreamGood
  <2>7. LET coming == Keep(s, {i \in DOMAIN s : s[i].kind = "move" /\ s[i].ply >= l})
        IN  Beginning(l) \o [i \in DOMAIN coming |-> coming[i].ply] = Beginning(n)
    <3>1. /\ s \in Seq(Events) /\ n \in Nat /\ l <= n /\ Rising(s)
          /\ Plies(s) \subseteq 0 .. n - 1 /\ l .. n - 1 \subseteq Plies(s)
      BY <2>0, <2>5, <2>6 DEF OrderGood
    <3> QED BY <3>1, ViewAddsUp
  <2> QED BY <2>1, <2>6, <2>7 DEF Beginning
<1> QED BY <1>1, InductiveInvariant, PTL

\* A game is found in memory or in its record, if one was written (games.py:123-140).
THEOREM LookupsSucceed == Spec => []LookupsFind
<1>1. IInv => LookupsFind
  BY DEF IInv, LookupGood, LookupsFind
<1> QED BY <1>1, InductiveInvariant, PTL
=============================================================================
