--------------------------- MODULE ReconnectProofs ---------------------------
(***************************************************************************)
(* Proofs about Reconnect, for any connections of the two bots, any        *)
(* rotations of their keys and any length of the game.                     *)
(***************************************************************************)
EXTENDS Reconnect, SublistProofs, SequenceTheorems

-----------------------------------------------------------------------------
(* The send locks.  The proofs look at a lock only through the frames that *)
(* each sender waits with, and through the fact that it waits once.        *)

Entry == [by : Senders, msg : Frames]
Boxes == [Conn -> Seq(Entry)]

\* The frames that s waits with at the lock of h.
Sent(box, h, s) == {box[h][i].msg : i \in {j \in 1 .. Len(box[h]) : box[h][j].by = s}}

\* s waits at most once at the lock of h.
Once(box, h, s) == \A i, j \in 1 .. Len(box[h]) : box[h][i].by = s /\ box[h][j].by = s => i = j

Waits(h, s) == Sent(outbox, h, s) # {}

\* What stands at a lock is among the frames that its sender waits with there.
LEMMA SentIn ==
    ASSUME NEW box \in Boxes, NEW h \in Conn, NEW i \in 1 .. Len(box[h])
    PROVE  box[h][i].msg \in Sent(box, h, box[h][i].by)
BY DEF Sent

\* One more sender at the lock of k.
LEMMA EnqueueGood ==
    ASSUME NEW box \in Boxes, NEW k \in Conn, NEW who \in Senders, NEW m \in Frames
    PROVE  LET new == Enqueue(box, k, who, m) IN
           /\ new \in Boxes
           /\ \A h \in Conn, s \in Senders :
                 Sent(new, h, s) = Sent(box, h, s) \cup (IF h = k /\ s = who THEN {m} ELSE {})
           /\ \A h \in Conn, s \in Senders :
                 Once(box, h, s) /\ (h = k /\ s = who => Sent(box, h, s) = {}) => Once(new, h, s)
<1> DEFINE new == Enqueue(box, k, who, m)
           e == [by |-> who, msg |-> m]
           n == Len(box[k])
<1>1. e \in Entry /\ e.by = who /\ e.msg = m
  BY DEF Entry
<1>2. box[k] \in Seq(Entry) /\ n \in Nat
  BY DEF Boxes
<1>3. new \in Boxes /\ new[k] = Append(box[k], e) /\ \A h \in Conn \ {k} : new[h] = box[h]
  BY <1>1, <1>2 DEF Enqueue, Boxes
<1> HIDE DEF e, new
<1>4. /\ Len(new[k]) = n + 1 /\ new[k][n + 1] = e
      /\ \A i \in 1 .. n : new[k][i] = box[k][i]
  BY <1>1, <1>2, <1>3
<1> HIDE DEF n
<1>5. ASSUME NEW h \in Conn, NEW s \in Senders
      PROVE  Sent(new, h, s) = Sent(box, h, s) \cup (IF h = k /\ s = who THEN {m} ELSE {})
  <2>1. CASE h # k
    BY <2>1, <1>3 DEF Sent
  <2>2. CASE h = k
    <3>0. n = Len(box[k])
      BY DEF n
    <3>1. \A x : x \in Sent(new, k, s) <=>
                 x \in Sent(box, k, s) \/ (s = who /\ x = m)
      <4> TAKE x
      <4>1. x \in Sent(new, k, s) <=> \E i \in 1 .. n + 1 : new[k][i].by = s /\ new[k][i].msg = x
        BY <1>4 DEF Sent
      <4>2. x \in Sent(box, k, s) <=> \E i \in 1 .. n : box[k][i].by = s /\ box[k][i].msg = x
        BY <3>0 DEF Sent
      <4>3. 1 .. n + 1 = (1 .. n) \cup {n + 1}
        BY <1>2
      <4> QED BY <4>1, <4>2, <4>3, <1>4, <1>1
    <3> QED BY <3>1, <2>2
  <2> QED BY <2>1, <2>2
<1>6. ASSUME NEW h \in Conn, NEW s \in Senders, Once(box, h, s),
             h = k /\ s = who => Sent(box, h, s) = {}
      PROVE  Once(new, h, s)
  <2>1. CASE h # k
    BY <2>1, <1>3, <1>6 DEF Once
  <2>2. CASE h = k
    <3>0. n = Len(box[k])
      BY DEF n
    <3>1. ASSUME s = who, NEW i \in 1 .. n PROVE box[k][i].by # s
      BY <3>1, <3>0, <1>6, <2>2, SentIn
    <3>2. \A i, j \in 1 .. n : box[k][i].by = s /\ box[k][j].by = s => i = j
      BY <1>6, <2>2, <3>0 DEF Once
    <3>3. \A i \in 1 .. n + 1 : i \in 1 .. n \/ i = n + 1
      BY <1>2
    <3>4. \A i, j \in 1 .. n + 1 : new[k][i].by = s /\ new[k][j].by = s => i = j
      BY <1>1, <1>4, <3>1, <3>2, <3>3
    <3> QED BY <3>4, <2>2, <1>4 DEF Once
  <2> QED BY <2>1, <2>2
<1> QED BY <1>3, <1>5, <1>6 DEF new

\* The sender at the head leaves the lock of k.
LEMMA DequeueGood ==
    ASSUME NEW box \in Boxes, NEW k \in Conn, box[k] # <<>>
    PROVE  LET new == [box EXCEPT ![k] = Tail(@)]
               who == Head(box[k]).by
               m == Head(box[k]).msg IN
           /\ new \in Boxes /\ who \in Senders /\ m \in Frames
           /\ m \in Sent(box, k, who)
           /\ Once(box, k, who) => Sent(box, k, who) = {m} /\ Sent(new, k, who) = {}
           /\ \A h \in Conn, s \in Senders : h # k \/ s # who => Sent(new, h, s) = Sent(box, h, s)
           /\ \A h \in Conn, s \in Senders : Sent(new, h, s) \subseteq Sent(box, h, s)
           /\ \A h \in Conn, s \in Senders : Once(box, h, s) => Once(new, h, s)
<1> DEFINE new == [box EXCEPT ![k] = Tail(@)]
           who == Head(box[k]).by
           m == Head(box[k]).msg
           n == Len(box[k])
<1>1. box[k] \in Seq(Entry) /\ n \in Nat \ {0}
  BY DEF Boxes
<1>2. who = box[k][1].by /\ m = box[k][1].msg /\ box[k][1] \in Entry
  BY <1>1
<1>3. new \in Boxes /\ new[k] = Tail(box[k]) /\ \A h \in Conn \ {k} : new[h] = box[h]
  BY <1>1 DEF Boxes
<1>4. Len(new[k]) = n - 1 /\ \A i \in 1 .. n - 1 : new[k][i] = box[k][i + 1]
  <2>1. Len(Tail(box[k])) = n - 1 /\ \A i \in 1 .. Len(Tail(box[k])) : Tail(box[k])[i] = box[k][i + 1]
    BY <1>1, HeadTailProperties
  <2> HIDE DEF new, n
  <2> QED BY <2>1, <1>3
<1>5. who \in Senders /\ m \in Frames
  BY <1>2 DEF Entry
<1> HIDE DEF new, who, m
<1>6. n = Len(box[k]) /\ 1 \in 1 .. n
  BY <1>1
<1> HIDE DEF n
<1>7. m \in Sent(box, k, who)
  BY <1>2, <1>6 DEF Sent
<1>8. ASSUME NEW s \in Senders, NEW x
      PROVE  /\ x \in Sent(new, k, s) <=>
                   \E i \in 1 .. n - 1 : box[k][i + 1].by = s /\ box[k][i + 1].msg = x
             /\ x \in Sent(box, k, s) <=> \E i \in 1 .. n : box[k][i].by = s /\ box[k][i].msg = x
  BY <1>4, <1>6 DEF Sent
<1>9. ASSUME NEW i \in 1 .. n, i # 1 PROVE i - 1 \in 1 .. n - 1 /\ (i - 1) + 1 = i
  BY <1>9, <1>1
<1>10. ASSUME NEW i \in 1 .. n - 1 PROVE i + 1 \in 1 .. n /\ i + 1 # 1
  BY <1>1
<1>11. ASSUME Once(box, k, who) PROVE Sent(box, k, who) = {m} /\ Sent(new, k, who) = {}
  <2>1. \A i \in 1 .. n : box[k][i].by = who => i = 1
    BY <1>11, <1>2, <1>6 DEF Once
  <2>2. \A x \in Sent(box, k, who) : x = m
    BY <2>1, <1>8, <1>5, <1>2
  <2>3. \A x : x \notin Sent(new, k, who)
    BY <2>1, <1>8, <1>5, <1>10
  <2> QED BY <2>2, <2>3, <1>7
<1>12. ASSUME NEW h \in Conn, NEW s \in Senders, h # k \/ s # who
       PROVE  Sent(new, h, s) = Sent(box, h, s)
  <2>1. CASE h # k
    BY <2>1, <1>3 DEF Sent
  <2>2. CASE h = k
    <3>1. s # who
      BY <1>12, <2>2
    <3>2. \A x : x \in Sent(new, k, s) => x \in Sent(box, k, s)
      BY <1>8, <1>10
    <3>3. ASSUME NEW x \in Sent(box, k, s) PROVE x \in Sent(new, k, s)
      <4>1. PICK i \in 1 .. n : box[k][i].by = s /\ box[k][i].msg = x
        BY <1>8
      <4>2. i # 1
        BY <4>1, <3>1, <1>2
      <4> QED BY <4>1, <4>2, <1>8, <1>9
    <3>4. Sent(new, k, s) = Sent(box, k, s)
      BY <3>2, <3>3
    <3> QED BY <3>4, <2>2
  <2> QED BY <2>1, <2>2
<1>13. ASSUME NEW h \in Conn, NEW s \in Senders PROVE Sent(new, h, s) \subseteq Sent(box, h, s)
  <2>1. CASE h # k \/ s # who
    BY <2>1, <1>12
  <2>2. CASE h = k /\ s = who
    BY <2>2, <1>8, <1>10
  <2> QED BY <2>1, <2>2
<1>14. ASSUME NEW h \in Conn, NEW s \in Senders, Once(box, h, s) PROVE Once(new, h, s)
  <2>1. CASE h # k
    BY <2>1, <1>3, <1>14 DEF Once
  <2>2. CASE h = k
    <3>1. \A i, j \in 1 .. n : box[k][i].by = s /\ box[k][j].by = s => i = j
      BY <2>2, <1>6, <1>14 DEF Once
    <3>2. ASSUME NEW i \in 1 .. n - 1, NEW j \in 1 .. n - 1, new[k][i].by = s, new[k][j].by = s
          PROVE  i = j
      <4>1. i + 1 = j + 1
        BY <3>1, <3>2, <1>4, <1>10
      <4> QED BY <4>1
    <3> QED BY <3>2, <2>2, <1>4 DEF Once
  <2> QED BY <2>1, <2>2
<1> QED BY <1>3, <1>5, <1>7, <1>11, <1>12, <1>13, <1>14 DEF new, who, m

\* The game's move task is cancelled while it waits: nobody else loses a place.
LEMMA WithoutGameGood ==
    ASSUME NEW box \in Boxes
    PROVE  LET new == [k \in Conn |-> WithoutGame(box[k])] IN
           /\ new \in Boxes
           /\ \A h \in Conn, s \in Senders :
                 Sent(new, h, s) = IF s = TheGame THEN {} ELSE Sent(box, h, s)
           /\ \A h \in Conn, s \in Senders : Once(box, h, s) => Once(new, h, s)
<1> DEFINE new == [k \in Conn |-> WithoutGame(box[k])]
<1>1. ASSUME NEW h \in Conn
      PROVE  /\ WithoutGame(box[h]) \in Seq(Entry)
             /\ \E at : Places(at, WithoutGame(box[h]), box[h],
                               {i \in DOMAIN box[h] : box[h][i].by # TheGame}, Len(box[h]))
  BY KeepPlaces DEF WithoutGame, Boxes
<1>2. new \in Boxes
  BY <1>1 DEF Boxes
<1>3. ASSUME NEW h \in Conn, NEW s \in Senders
      PROVE  /\ Sent(new, h, s) = IF s = TheGame THEN {} ELSE Sent(box, h, s)
             /\ Once(box, h, s) => Once(new, h, s)
  <2> DEFINE v == new[h]
             b == box[h]
             places == {i \in DOMAIN b : b[i].by # TheGame}
  <2>1. v \in Seq(Entry) /\ b \in Seq(Entry)
    BY <1>2 DEF Boxes
  <2>2. PICK at : Places(at, v, b, places, Len(b))
    BY <1>1
  <2>3. \A i \in places : i \in 1 .. Len(b) /\ b[i].by # TheGame
    BY <2>1
  <2>4. \A i \in 1 .. Len(b) : b[i].by # TheGame => i \in places
    BY <2>1
  <2> HIDE DEF v, b, places
  <2>5. /\ \A i \in 1 .. Len(v) : at[i] \in places /\ v[i] = b[at[i]]
        /\ \A i, j \in 1 .. Len(v) : i < j => at[i] < at[j]
        /\ \A p \in places : p \in 1 .. Len(b) => \E i \in 1 .. Len(v) : at[i] = p
    BY <2>2 DEF Places
  <2>6. Sent(new, h, s) = {v[i].msg : i \in {j \in 1 .. Len(v) : v[j].by = s}}
    BY DEF Sent, v
  <2>7. Sent(box, h, s) = {b[i].msg : i \in {j \in 1 .. Len(b) : b[j].by = s}}
    BY DEF Sent, b
  <2>8. ASSUME s = TheGame PROVE Sent(new, h, s) = {}
    <3>1. \A i \in 1 .. Len(v) : v[i].by # s
      BY <2>8, <2>3, <2>5
    <3> QED BY <3>1, <2>6
  <2>9. ASSUME s # TheGame PROVE Sent(new, h, s) = Sent(box, h, s)
    <3>1. ASSUME NEW x \in Sent(new, h, s) PROVE x \in Sent(box, h, s)
      BY <2>3, <2>5, <2>6, <2>7
    <3>2. ASSUME NEW x \in Sent(box, h, s) PROVE x \in Sent(new, h, s)
      <4>1. PICK p \in 1 .. Len(b) : b[p].by = s /\ b[p].msg = x
        BY <2>7
      <4>2. p \in places
        BY <4>1, <2>4, <2>9
      <4>3. PICK i \in 1 .. Len(v) : at[i] = p
        BY <4>2, <2>5
      <4> QED BY <4>1, <4>3, <2>5, <2>6
    <3> QED BY <3>1, <3>2
  <2>10. ASSUME Once(box, h, s) PROVE Once(new, h, s)
    <3>1. \A i, j \in 1 .. Len(b) : b[i].by = s /\ b[j].by = s => i = j
      BY <2>10 DEF Once, b
    <3>2. ASSUME NEW i \in 1 .. Len(v), NEW j \in 1 .. Len(v), v[i].by = s, v[j].by = s
          PROVE  i = j
      <4>1. at[i] = at[j]
        BY <3>1, <3>2, <2>3, <2>5, SMTT(30)
      <4>2. at[i] \in Int /\ i \in Int /\ j \in Int /\ ~(at[i] < at[i])
        BY <2>3, <2>5
      <4> QED BY <4>1, <4>2, <2>5
    <3> QED BY <3>2 DEF Once, v
  <2> QED BY <2>8, <2>9, <2>10
<1> QED BY <1>2, <1>3

-----------------------------------------------------------------------------
(* The inductive invariant. *)

\* The senders that have a place of their own: the game and the handshakes.
Coroutines == Conn \cup {TheGame}
Sending == {"start_white", "start_black", "asking", "confirming", "over_white", "over_black"}

\* A coroutine waits at one lock at a time, and only while it is at a send.
LocksGood ==
    /\ \A h \in Conn, s \in Coroutines : Once(outbox, h, s)
    /\ \A h, g \in Conn, s \in Coroutines : Waits(h, s) /\ Waits(g, s) => h = g
    /\ \A h \in Conn : Waits(h, TheGame) => gpc \in Sending
    /\ \A k \in Conn : Waits(k, k) => pc[k] \in {"welcoming", "resending", "delivering"}
    /\ \A h, k \in Conn : Waits(h, k) /\ h # k => pc[k] = "replacing"

\* A connection that was not opened yet is untouched; the others are in opened.
OpenedGood ==
    /\ \A h \in Conn : pc[h] = "new" => ~shut[h] /\ \A s \in Senders : ~Waits(h, s)
    /\ \A c \in Color : pc[First[c]] # "new"
    /\ \A h \in Conn : pc[h] # "new" <=> \E i \in 1 .. Len(opened) : opened[i] = h

\* The server closed h, or somebody waits to close it.
Ousted(h) == shut[h] \/ \E s \in Senders \ {h, TheGame} : Waits(h, s)

\* The registry holds the newest session of each bot, if it is not ousted.
RegistryGood ==
    /\ \A c \in Color : current[c] # None =>
          /\ Owner[current[c]] = c /\ pc[current[c]] \notin {"new", "closed"}
          /\ \A h \in ConnsOf(c) : pc[h] # "new" /\ h # current[c] => Newer(current[c], h)
    /\ \A h \in Conn : Ousted(h) => current[Owner[h]] # h
    /\ \A k \in Conn :
          /\ pc[k] \in {"replacing", "welcoming", "resending", "delivering", "serving"}
          /\ ~Ousted(k)
          => current[Owner[k]] = k
    /\ \A c \in Color : Owner[seat[c]] = c /\ pc[seat[c]] # "new"

\* Where the game is, its state, its ply and its board agree.
GameGood ==
    /\ gpc \in {"start_white", "start_black", "paired", "stranded"} <=> state = "paired"
    /\ gpc \in {"starting"} \cup Playing => state = "in_progress"
    /\ state = "in_progress" => gpc \in {"starting", "dead"} \cup Playing
    /\ bound <=> gpc # "done"
    /\ gpc \in {"start_white", "start_black", "paired", "stranded", "starting", "asking", "waiting"}
         => board = ply /\ ply < MaxPly
    /\ gpc \in {"confirming", "publishing"} => board = ply + 1 /\ ply < MaxPly

\* When both bots are gone for good the game was aborted, or had not begun.
AbandonedGood ==
    state \in {"paired", "in_progress"} /\ NobodyServed /\ ~early => abort

BaseInv == TypeOK /\ LocksGood /\ OpenedGood /\ RegistryGood /\ GameGood /\ AbandonedGood

\* What the game is sending.
FramesGood ==
    /\ gpc = "asking" => \A h \in Conn : Sent(outbox, h, TheGame) \subseteq {YourTurn(ply, board)}
    /\ gpc \in {"over_white", "over_black"} =>
          \A h \in Conn : Sent(outbox, h, TheGame) \subseteq {GameOver}

\* A handshake without a game to resume delivers the missed game_over.
MissedGood(k) ==
    /\ pc[k] = "delivering" => Sent(outbox, k, k) \subseteq {GameOver}
    /\ pc[k] = "delivering" \/ (pc[k] = "welcoming" /\ ~snap[k].active) => ~bound

Here(k) == current[Owner[k]] = k /\ alive[k] /\ pc[k] \in {"resending", "serving"}

\* The question of this turn reaches the connected session of the bot on move:
\* the snapshot of its handshake tells it, or it has the frame, or will get it.
TurnGood(k) ==
    LET y == YourTurn(ply, board) IN
    gpc \in {"asking", "waiting"} /\ Owner[k] = Turn(board) /\ <<k, y>> \notin gap =>
        /\ pc[k] = "welcoming" => snap[k].active /\ snap[k].to_move = Turn(board)
        /\ Here(k) => y \in got[k] \cup Sent(outbox, k, TheGame) \cup Sent(outbox, k, k)

\* game_over was addressed to c, and some connection of c has it.
Told(c)  == gpc \in {"over_black", "closing", "done"} \cup
                    (IF c = "white" THEN {"over_white"} ELSE {})
Heard(c) == \E h \in ConnsOf(c) : GameOver \in got[h]

\* It reaches the connected session of c, or will be repeated to it.
OutcomeGood(k) ==
    Told(Owner[k]) /\ <<k, GameOver>> \notin gap =>
        /\ pc[k] = "welcoming" => ~snap[k].active
        /\ Here(k) => Heard(Owner[k]) \/ GameOver \in Sent(outbox, k, TheGame)

\* A terminal is forgotten when it was delivered, or written to nobody.
RecentGood ==
    \A c \in Color : gpc = "done" /\ c \notin recent =>
        Heard(c) \/ \A h \in ConnsOf(c) : <<h, GameOver>> \in gap

ConnGood(k) == MissedGood(k) /\ TurnGood(k) /\ OutcomeGood(k)

KnowledgeGood == FramesGood /\ RecentGood /\ \A k \in Conn : ConnGood(k)

IInv == BaseInv /\ KnowledgeGood

-----------------------------------------------------------------------------
(* What a step does to the locks. *)

\* In box only s may wait with other frames than in outbox.
Like(box, s) ==
    /\ box \in Boxes
    /\ \A h \in Conn, t \in Senders \ {s} : Sent(box, h, t) = Sent(outbox, h, t)
    /\ \A h \in Conn, t \in Coroutines : Once(box, h, t)

Silent(box, s)       == Like(box, s) /\ \A h \in Conn : Sent(box, h, s) = {}
Speaks(box, s, k, m) == Like(box, s) /\ \A h \in Conn :
                                           Sent(box, h, s) = IF h = k THEN {m} ELSE {}

\* The names are pairwise different.
LEMMA Names ==
    /\ TheGame \in Coroutines /\ Rotation \notin Coroutines /\ TheGame \notin Conn
    /\ None \notin Conn /\ Rotation \notin Conn /\ Color \cap Conn = {} /\ None \notin Color
    /\ Coroutines \subseteq Senders /\ Senders = Coroutines \cup {Rotation}
    /\ Conn \subseteq Coroutines
BY NamesAssumption DEF Coroutines, Senders, TheGame, Rotation, None, Color

\* The type of the locks, by the name the lemmas on locks use.
LEMMA OutboxIsBoxes == TypeOK => outbox \in Boxes
BY DEF TypeOK, Boxes, Entry

\* A coroutine that is not at a send waits nowhere.
LEMMA WasSilent ==
    ASSUME TypeOK, LocksGood, NEW s \in Coroutines,
           s = TheGame => gpc \notin Sending,
           s \in Conn => pc[s] \notin {"replacing", "welcoming", "resending", "delivering"}
    PROVE  Silent(outbox, s)
<1>1. \A h \in Conn : Sent(outbox, h, s) = {}
  <2> TAKE h \in Conn
  <2>1. CASE s = TheGame
    BY <2>1 DEF LocksGood, Waits
  <2>2. CASE s \in Conn /\ s = h
    BY <2>2 DEF LocksGood, Waits
  <2>3. CASE s \in Conn /\ s # h
    BY <2>3 DEF LocksGood, Waits
  <2> QED BY <2>1, <2>2, <2>3 DEF Coroutines
<1> QED BY <1>1, OutboxIsBoxes DEF Silent, Like, LocksGood

\* The coroutine at the head of a lock leaves it, and then waits nowhere.
LEMMA Leaves ==
    ASSUME TypeOK, LocksGood, NEW k \in Conn, NEW s \in Coroutines, NEW ok,
           Completes(k, s, ok)
    PROVE  LET m == Head(outbox[k]).msg IN
           /\ Silent(Dequeued(k), s) /\ m \in Frames
           /\ \A h \in Conn : Sent(outbox, h, s) = IF h = k THEN {m} ELSE {}
<1> DEFINE new == [outbox EXCEPT ![k] = Tail(@)]
           m == Head(outbox[k]).msg
<1>1. outbox[k] # <<>> /\ Head(outbox[k]).by = s
  BY DEF Completes
<1>2. outbox \in Boxes /\ s \in Senders
  BY OutboxIsBoxes, Names
<1>3. Once(outbox, k, s)
  BY DEF LocksGood
<1>4. /\ new \in Boxes /\ m \in Frames
      /\ Sent(outbox, k, s) = {m} /\ Sent(new, k, s) = {}
      /\ \A h \in Conn, t \in Senders : h # k \/ t # s => Sent(new, h, t) = Sent(outbox, h, t)
      /\ \A h \in Conn, t \in Senders : Once(outbox, h, t) => Once(new, h, t)
  <2> DEFINE who == Head(outbox[k]).by
  <2>1. /\ new \in Boxes /\ m \in Frames
        /\ Once(outbox, k, who) => Sent(outbox, k, who) = {m} /\ Sent(new, k, who) = {}
        /\ \A h \in Conn, t \in Senders : h # k \/ t # who => Sent(new, h, t) = Sent(outbox, h, t)
        /\ \A h \in Conn, t \in Senders : Once(outbox, h, t) => Once(new, h, t)
    BY <1>1, <1>2, DequeueGood
  <2>2. who = s
    BY <1>1
  <2> HIDE DEF who, new, m
  <2> QED BY <2>1, <2>2, <1>3
<1> HIDE DEF new, m
<1>5. \A h \in Conn : h # k => Sent(outbox, h, s) = {}
  BY <1>4 DEF LocksGood, Waits
<1>6. \A h \in Conn, t \in Coroutines : Once(new, h, t)
  BY <1>4, Names DEF LocksGood
<1>7. Silent(new, s)
  BY <1>2, <1>4, <1>5, <1>6 DEF Silent, Like
<1> QED BY <1>4, <1>5, <1>7 DEF Dequeued, new, m

\* A coroutine that waits nowhere joins the lock of k.
LEMMA Joins ==
    ASSUME NEW box, NEW s \in Coroutines, Silent(box, s), NEW k \in Conn, NEW m \in Frames
    PROVE  Speaks(Enqueue(box, k, s, m), s, k, m)
<1> DEFINE new == Enqueue(box, k, s, m)
<1>1. box \in Boxes /\ s \in Senders /\ Coroutines \subseteq Senders
  BY Names DEF Silent, Like
<1>2. /\ new \in Boxes
      /\ \A h \in Conn, t \in Senders :
            Sent(new, h, t) = Sent(box, h, t) \cup (IF h = k /\ t = s THEN {m} ELSE {})
      /\ \A h \in Conn, t \in Senders :
            Once(box, h, t) /\ (h = k /\ t = s => Sent(box, h, t) = {}) => Once(new, h, t)
  BY <1>1, EnqueueGood
<1> HIDE DEF new
<1>3. \A h \in Conn, t \in Coroutines : Once(new, h, t)
  BY <1>1, <1>2 DEF Silent, Like
<1>4. \A h \in Conn, t \in Senders \ {s} : Sent(new, h, t) = Sent(outbox, h, t)
  <2> TAKE h \in Conn, t \in Senders \ {s}
  <2>1. Sent(new, h, t) = Sent(box, h, t) \cup {}
    BY <1>2
  <2> QED BY <2>1 DEF Silent, Like
<1>5. \A h \in Conn : Sent(new, h, s) = IF h = k THEN {m} ELSE {}
  BY <1>1, <1>2 DEF Silent
<1>6. Speaks(new, s, k, m)
  BY <1>2, <1>3, <1>4, <1>5 DEF Speaks, Like
<1> QED BY <1>6 DEF new

\* A connection is ousted if it is shut or being closed, and only then.
LEMMA ClosedIsOusted ==
    ASSUME TypeOK, NEW k \in Conn PROVE shut[k] \/ BeingClosed(k) <=> Ousted(k)
<1>1. ASSUME BeingClosed(k) PROVE Ousted(k)
  <2>1. PICK i \in 1 .. Len(outbox[k]) : outbox[k][i].by \in (Conn \ {k}) \cup {Rotation}
    BY <1>1 DEF BeingClosed
  <2>2. outbox[k][i].msg \in Sent(outbox, k, outbox[k][i].by)
    BY <2>1 DEF Sent
  <2>3. outbox[k][i].by \in Senders \ {k, TheGame}
    BY <2>1, Names, NamesAssumption DEF Senders, Rotation, TheGame
  <2> QED BY <2>2, <2>3 DEF Ousted, Waits
<1>2. ASSUME Ousted(k), ~shut[k] PROVE BeingClosed(k)
  <2>1. PICK s \in Senders \ {k, TheGame} : Sent(outbox, k, s) # {}
    BY <1>2 DEF Ousted, Waits
  <2>2. PICK i \in 1 .. Len(outbox[k]) : outbox[k][i].by = s
    BY <2>1 DEF Sent
  <2>3. s \in (Conn \ {k}) \cup {Rotation}
    BY DEF Senders
  <2> QED BY <2>2, <2>3 DEF BeingClosed
<1> QED BY <1>1, <1>2 DEF Ousted
-----------------------------------------------------------------------------
(* The steps of the game: it sends, and leaves the handshakes alone. *)

\* What a step of the game does to the locks.
GameIsAt == \/ Silent(outbox', TheGame)
            \/ /\ gpc' \in Sending
               /\ \E k \in Conn, m \in Frames : pc[k] # "new" /\ Speaks(outbox', TheGame, k, m)

\* A step of the game touches no session, and no handshake's place at a lock.
LEMMA GameKeepsRegistry ==
    ASSUME TypeOK, LocksGood, OpenedGood, RegistryGood, GameIsAt,
           UNCHANGED <<pc, shut, current, seat, opened>>
    PROVE  outbox' \in Boxes /\ LocksGood' /\ OpenedGood' /\ RegistryGood'
<1>1. Like(outbox', TheGame)
  BY DEF GameIsAt, Silent, Speaks
<1>2. \A h \in Conn, t \in Senders \ {TheGame} : Waits(h, t)' <=> Waits(h, t)
  BY <1>1 DEF Like, Waits
<1>3. /\ gpc' \notin Sending => \A h \in Conn : ~Waits(h, TheGame)'
      /\ \A h, g \in Conn : Waits(h, TheGame)' /\ Waits(g, TheGame)' => h = g
      /\ \A h \in Conn : Waits(h, TheGame)' => pc[h] # "new"
  BY DEF GameIsAt, Silent, Speaks, Waits
<1>4. \A h \in Conn : Ousted(h)' <=> Ousted(h)
  BY <1>2 DEF Ousted
<1>5. LocksGood'
  <2>1. \A h \in Conn, s \in Coroutines : Once(outbox', h, s)
    BY <1>1 DEF Like
  <2>2. \A h, g \in Conn, s \in Conn : Waits(h, s)' /\ Waits(g, s)' => h = g
    BY <1>2, Names DEF LocksGood
  <2>3. \A h, g \in Conn, s \in Coroutines : Waits(h, s)' /\ Waits(g, s)' => h = g
    BY <2>2, <1>3 DEF Coroutines
  <2>4. \A h \in Conn : Waits(h, TheGame)' => gpc' \in Sending
    BY <1>3
  <2>5. \A k \in Conn : Waits(k, k)' => pc'[k] \in {"welcoming", "resending", "delivering"}
    BY <1>2, Names DEF LocksGood
  <2>6. \A h, k \in Conn : Waits(h, k)' /\ h # k => pc'[k] = "replacing"
    BY <1>2, Names DEF LocksGood
  <2> QED BY <2>1, <2>3, <2>4, <2>5, <2>6 DEF LocksGood
<1>6. OpenedGood'
  BY <1>2, <1>3 DEF OpenedGood
<1>7. RegistryGood'
  BY <1>4 DEF RegistryGood, ConnsOf, Newer
<1> QED BY <1>1, <1>5, <1>6, <1>7 DEF Like

\* The game joins the lock of the session bound to the seat of c.
LEMMA GameSendsGood ==
    ASSUME TypeOK, RegistryGood, NEW box, Silent(box, TheGame), NEW c \in Color,
           NEW m \in Frames, GameSends(box, c, m)
    PROVE  /\ Speaks(outbox', TheGame, seat[c], m)
           /\ seat[c] \in Conn /\ pc[seat[c]] # "new"
           /\ gap' \in SUBSET (Conn \X Frames)
<1>1. seat[c] \in Conn /\ pc[seat[c]] # "new"
  BY DEF TypeOK, RegistryGood
<1>2. Speaks(Enqueue(box, seat[c], TheGame, m), TheGame, seat[c], m)
  BY <1>1, Names, Joins
<1>3. gap' \in SUBSET (Conn \X Frames)
  BY DEF GameSends, TypeOK, ConnsOf
<1> QED BY <1>1, <1>2, <1>3 DEF GameSends

\* Every frame the code sends at this ply is a frame.
LEMMA FramesOfTurn ==
    ASSUME TypeOK
    PROVE  /\ YourTurn(ply, board) \in Frames /\ Frame("move_ack", ply, 0) \in Frames
           /\ GameOver \in Frames /\ Plain("game_start") \in Frames
           /\ Plain("session_replaced") \in Frames /\ Plain("welcome") \in Frames
           /\ Turn(board) \in Color
BY MaxPlyAssumption DEF TypeOK, Frames, Types, YourTurn, Frame, Plain, GameOver, Turn, Color

\* Clients are given frames only.
LEMMA GotGood ==
    ASSUME TypeOK, NEW k \in Conn, NEW s, NEW ok, Completes(k, s, ok), Head(outbox[k]).msg \in Frames
    PROVE  got' \in [Conn -> SUBSET Frames]
BY DEF TypeOK, Completes

\* launch sends to White, then to Black, or raises and goes no further.
LEMMA GameStartSentBase ==
    ASSUME BaseInv, NEW k \in Conn, NEW ok \in BOOLEAN, GameStartSent(k, ok) PROVE BaseInv'
<1> USE DEF BaseInv
<1>1. Completes(k, TheGame, ok) /\ UNCHANGED <<pc, shut, current, seat, opened>>
  BY DEF GameStartSent, sharedVars, histVars
<1>2. Silent(Dequeued(k), TheGame) /\ Head(outbox[k]).msg \in Frames
  BY <1>1, Leaves, Names
<1>3. GameIsAt
  <2>1. CASE ok /\ gpc = "start_white"
    <3>1. gpc' = "start_black" /\ First["black"] \in Conn /\ pc[First["black"]] # "new"
      BY <2>1, ConnAssumption DEF GameStartSent, OpenedGood, Color
    <3>2. outbox' = Enqueue(Dequeued(k), First["black"], TheGame, Plain("game_start"))
      BY <2>1 DEF GameStartSent
    <3>3. Speaks(outbox', TheGame, First["black"], Plain("game_start"))
      BY <3>1, <3>2, <1>2, Joins, Names, FramesOfTurn
    <3> QED BY <3>1, <3>3, FramesOfTurn DEF GameIsAt, Sending
  <2>2. CASE ~(ok /\ gpc = "start_white")
    <3>1. outbox' = Dequeued(k)
      BY <2>2 DEF GameStartSent
    <3> QED BY <3>1, <1>2 DEF GameIsAt
  <2> QED BY <2>1, <2>2
<1>4. outbox' \in Boxes /\ LocksGood' /\ OpenedGood' /\ RegistryGood'
  BY <1>1, <1>3, GameKeepsRegistry
<1>5. TypeOK'
  <2>1. got' \in [Conn -> SUBSET Frames]
    BY <1>1, <1>2, GotGood
  <2> QED BY <1>4, <2>1 DEF GameStartSent, TypeOK, Boxes, Entry, sharedVars, histVars
<1>6. GameGood' /\ AbandonedGood'
  BY DEF GameStartSent, GameGood, AbandonedGood, NobodyServed, Playing, sharedVars, histVars
<1> QED BY <1>4, <1>5, <1>6

\* run_game begins; bots that had both left before are marked in early.
LEMMA StartGameBase ==
    ASSUME BaseInv, StartGame PROVE BaseInv'
<1> USE DEF BaseInv
<1>1. UNCHANGED <<pc, shut, current, seat, opened, outbox>>
  BY DEF StartGame, connVars, sharedVars, histVars
<1>2. GameIsAt
  <2>1. Silent(outbox, TheGame)
    BY WasSilent, Names DEF StartGame, Sending
  <2> QED BY <2>1, <1>1 DEF GameIsAt
<1>3. outbox' \in Boxes /\ LocksGood' /\ OpenedGood' /\ RegistryGood'
  BY <1>1, <1>2, GameKeepsRegistry
<1>4. TypeOK'
  BY DEF StartGame, TypeOK, connVars, sharedVars, histVars
<1>5. GameGood' /\ AbandonedGood'
  BY DEF StartGame, GameGood, AbandonedGood, NobodyServed, Playing, connVars, sharedVars, histVars
<1> QED BY <1>3, <1>4, <1>5

\* The game joins the lock of the seat on move.
LEMMA AskTurnBase ==
    ASSUME BaseInv, AskTurn PROVE BaseInv'
<1> USE DEF BaseInv
<1>1. UNCHANGED <<pc, shut, current, seat, opened>>
  BY DEF AskTurn, sharedVars
<1>2. GameSends(outbox, Turn(board), YourTurn(ply, board)) /\ gpc' = "asking"
  BY DEF AskTurn
<1>3. Silent(outbox, TheGame)
  BY WasSilent, Names DEF AskTurn, Sending
<1>4. GameIsAt /\ gap' \in SUBSET (Conn \X Frames)
  BY <1>2, <1>3, GameSendsGood, FramesOfTurn DEF GameIsAt, Sending
<1>5. outbox' \in Boxes /\ LocksGood' /\ OpenedGood' /\ RegistryGood'
  BY <1>1, <1>4, GameKeepsRegistry
<1>6. TypeOK'
  BY <1>4, <1>5 DEF AskTurn, TypeOK, Boxes, Entry, sharedVars, Playing
<1>7. GameGood' /\ AbandonedGood'
  BY DEF AskTurn, GameGood, AbandonedGood, NobodyServed, Playing, sharedVars
<1> QED BY <1>5, <1>6, <1>7

\* The game leaves the lock it was at.
LEMMA TurnSentBase ==
    ASSUME BaseInv, NEW k \in Conn, NEW ok \in BOOLEAN, TurnSent(k, ok) PROVE BaseInv'
<1> USE DEF BaseInv
<1>1. /\ Completes(k, TheGame, ok) /\ outbox' = Dequeued(k)
      /\ UNCHANGED <<pc, shut, current, seat, opened>>
  BY DEF TurnSent, sharedVars, histVars
<1>2. Silent(outbox', TheGame) /\ Head(outbox[k]).msg \in Frames
  BY <1>1, Leaves, Names
<1>3. outbox' \in Boxes /\ LocksGood' /\ OpenedGood' /\ RegistryGood'
  BY <1>1, <1>2, GameKeepsRegistry DEF GameIsAt
<1>4. TypeOK'
  <2>1. got' \in [Conn -> SUBSET Frames]
    BY <1>1, <1>2, GotGood
  <2> QED BY <1>3, <2>1 DEF TurnSent, TypeOK, Boxes, Entry, sharedVars, histVars, Playing
<1>5. GameGood' /\ AbandonedGood'
  BY DEF TurnSent, GameGood, AbandonedGood, NobodyServed, Playing, sharedVars, histVars
<1> QED BY <1>3, <1>4, <1>5

\* A move comes in while the game is at no lock; its ack joins one.
LEMMA BotMovesBase ==
    ASSUME BaseInv, NEW k \in Conn, BotMoves(k) PROVE BaseInv'
<1> USE DEF BaseInv
<1>1. UNCHANGED <<pc, shut, current, seat, opened>>
  BY DEF BotMoves, sharedVars
<1>2. GameSends(outbox, Turn(board), Frame("move_ack", ply, 0)) /\ gpc' = "confirming"
  BY DEF BotMoves
<1>3. Silent(outbox, TheGame)
  BY WasSilent, Names DEF BotMoves, Sending
<1>4. GameIsAt /\ gap' \in SUBSET (Conn \X Frames)
  BY <1>2, <1>3, GameSendsGood, FramesOfTurn DEF GameIsAt, Sending
<1>5. outbox' \in Boxes /\ LocksGood' /\ OpenedGood' /\ RegistryGood'
  BY <1>1, <1>4, GameKeepsRegistry
<1>6. GameGood' /\ AbandonedGood'
  BY DEF BotMoves, GameGood, AbandonedGood, NobodyServed, Playing, sharedVars
<1>7. TypeOK'
  <2>1. board' \in 0 .. MaxPly
    BY MaxPlyAssumption DEF BotMoves, TypeOK, GameGood
  <2> QED BY <1>4, <1>5, <2>1 DEF BotMoves, TypeOK, Boxes, Entry, sharedVars, Playing
<1> QED BY <1>5, <1>6, <1>7

\* The ack is written, or raises and is lost.
LEMMA MoveConfirmedBase ==
    ASSUME BaseInv, NEW k \in Conn, NEW ok \in BOOLEAN, MoveConfirmed(k, ok) PROVE BaseInv'
<1> USE DEF BaseInv
<1>1. /\ Completes(k, TheGame, ok) /\ outbox' = Dequeued(k)
      /\ UNCHANGED <<pc, shut, current, seat, opened>>
  BY DEF MoveConfirmed, sharedVars, histVars
<1>2. Silent(outbox', TheGame) /\ Head(outbox[k]).msg \in Frames
  BY <1>1, Leaves, Names
<1>3. outbox' \in Boxes /\ LocksGood' /\ OpenedGood' /\ RegistryGood'
  BY <1>1, <1>2, GameKeepsRegistry DEF GameIsAt
<1>4. TypeOK'
  <2>1. got' \in [Conn -> SUBSET Frames]
    BY <1>1, <1>2, GotGood
  <2> QED BY <1>3, <2>1 DEF MoveConfirmed, TypeOK, Boxes, Entry, sharedVars, histVars, Playing
<1>5. GameGood' /\ AbandonedGood'
  BY DEF MoveConfirmed, GameGood, AbandonedGood, NobodyServed, Playing, sharedVars, histVars
<1> QED BY <1>3, <1>4, <1>5

\* The ply catches up with the board; the next side is asked, or the game is over.
LEMMA NextTurnBase ==
    ASSUME BaseInv, NextTurn PROVE BaseInv'
<1> USE DEF BaseInv
<1>1. UNCHANGED <<pc, shut, current, seat, opened>>
  BY DEF NextTurn, sharedVars
<1>2. Silent(outbox, TheGame)
  BY WasSilent, Names DEF NextTurn, Sending
<1>3. ply \in Nat /\ ply < MaxPly /\ board = ply + 1 /\ board \in 0 .. MaxPly
  BY DEF NextTurn, GameGood, TypeOK
<1>4. GameIsAt /\ gap' \in SUBSET (Conn \X Frames)
  <2>1. CASE ply + 1 = MaxPly
    <3>1. outbox' = outbox /\ gap' = gap
      BY <2>1 DEF NextTurn
    <3> QED BY <3>1, <1>2 DEF GameIsAt, TypeOK
  <2>2. CASE ply + 1 # MaxPly
    <3>1. GameSends(outbox, Turn(board), YourTurn(ply + 1, board)) /\ gpc' = "asking"
      BY <2>2 DEF NextTurn
    <3>2. YourTurn(ply + 1, board) \in Frames
      BY <1>3, <2>2, MaxPlyAssumption DEF YourTurn, Frame, Frames, Types
    <3> QED BY <1>2, <3>1, <3>2, GameSendsGood, FramesOfTurn DEF GameIsAt, Sending
  <2> QED BY <2>1, <2>2
<1>5. outbox' \in Boxes /\ LocksGood' /\ OpenedGood' /\ RegistryGood'
  BY <1>1, <1>4, GameKeepsRegistry
<1>6. GameGood' /\ AbandonedGood'
  BY <1>3, MaxPlyAssumption
     DEF NextTurn, GameGood, AbandonedGood, NobodyServed, Playing, sharedVars
<1>7. TypeOK'
  <2>1. ply' \in 0 .. MaxPly
    BY <1>3, MaxPlyAssumption DEF NextTurn
  <2> QED BY <1>4, <1>5, <2>1 DEF NextTurn, TypeOK, Boxes, Entry, sharedVars, Playing
<1> QED BY <1>5, <1>6, <1>7

\* The game's frame is withdrawn wherever it stood; the other senders keep their places.
LEMMA EndTurnBase ==
    ASSUME BaseInv, NEW s \in {"finished", "aborted"}, EndTurn(s) PROVE BaseInv'
<1> USE DEF BaseInv
<1>1. /\ outbox' = [k \in Conn |-> WithoutGame(outbox[k])] /\ gpc' = "finalizing"
      /\ UNCHANGED <<pc, shut, current, seat, opened>>
  BY DEF EndTurn, sharedVars, histVars
<1>2. Silent(outbox', TheGame)
  <2>1. /\ outbox' \in Boxes
        /\ \A h \in Conn, t \in Senders :
              Sent(outbox', h, t) = IF t = TheGame THEN {} ELSE Sent(outbox, h, t)
        /\ \A h \in Conn, t \in Senders : Once(outbox, h, t) => Once(outbox', h, t)
    BY <1>1, OutboxIsBoxes, WithoutGameGood
  <2>2. \A h \in Conn, t \in Coroutines : Once(outbox', h, t)
    BY <2>1, Names DEF LocksGood
  <2> QED BY <2>1, <2>2, Names DEF Silent, Like
<1>3. outbox' \in Boxes /\ LocksGood' /\ OpenedGood' /\ RegistryGood'
  BY <1>1, <1>2, GameKeepsRegistry DEF GameIsAt
<1>4. TypeOK'
  BY <1>3 DEF EndTurn, TypeOK, Boxes, Entry, sharedVars, histVars
<1>5. GameGood' /\ AbandonedGood'
  BY DEF EndTurn, GameGood, AbandonedGood, NobodyServed, Playing, sharedVars, histVars
<1> QED BY <1>3, <1>4, <1>5

\* White is told the end.
LEMMA FinalizedBase ==
    ASSUME BaseInv, Finalized PROVE BaseInv'
<1> USE DEF BaseInv
<1>1. UNCHANGED <<pc, shut, current, seat, opened>>
  BY DEF Finalized, sharedVars
<1>2. GameSends(outbox, "white", GameOver) /\ gpc' = "over_white" /\ "white" \in Color
  BY DEF Finalized, Color
<1>3. Silent(outbox, TheGame)
  BY WasSilent, Names DEF Finalized, Sending
<1>4. GameIsAt /\ gap' \in SUBSET (Conn \X Frames)
  BY <1>2, <1>3, GameSendsGood, FramesOfTurn DEF GameIsAt, Sending
<1>5. outbox' \in Boxes /\ LocksGood' /\ OpenedGood' /\ RegistryGood'
  BY <1>1, <1>4, GameKeepsRegistry
<1>6. TypeOK'
  BY <1>4, <1>5 DEF Finalized, TypeOK, Boxes, Entry, sharedVars, Playing
<1>7. GameGood' /\ AbandonedGood'
  BY DEF Finalized, GameGood, AbandonedGood, NobodyServed, Playing, sharedVars
<1> QED BY <1>5, <1>6, <1>7

\* White's game_over is followed by Black's, also when it raises.
LEMMA GameOverSentBase ==
    ASSUME BaseInv, NEW k \in Conn, NEW ok \in BOOLEAN, GameOverSent(k, ok) PROVE BaseInv'
<1> USE DEF BaseInv
<1>1. Completes(k, TheGame, ok) /\ UNCHANGED <<pc, shut, current, seat, opened>>
  BY DEF GameOverSent, sharedVars
<1>2. Silent(Dequeued(k), TheGame) /\ Head(outbox[k]).msg \in Frames
  BY <1>1, Leaves, Names
<1>3. GameIsAt /\ gap' \in SUBSET (Conn \X Frames)
  <2>1. CASE gpc = "over_white"
    <3>1. GameSends(Dequeued(k), "black", GameOver) /\ gpc' = "over_black" /\ "black" \in Color
      BY <2>1 DEF GameOverSent, Color
    <3> QED BY <1>2, <3>1, GameSendsGood, FramesOfTurn DEF GameIsAt, Sending
  <2>2. CASE gpc # "over_white"
    <3>1. outbox' = Dequeued(k) /\ gap' = gap
      BY <2>2 DEF GameOverSent
    <3> QED BY <3>1, <1>2 DEF GameIsAt, TypeOK
  <2> QED BY <2>1, <2>2
<1>4. outbox' \in Boxes /\ LocksGood' /\ OpenedGood' /\ RegistryGood'
  BY <1>1, <1>3, GameKeepsRegistry
<1>5. TypeOK'
  <2>1. got' \in [Conn -> SUBSET Frames]
    BY <1>1, <1>2, GotGood
  <2> QED BY <1>3, <1>4, <2>1 DEF GameOverSent, TypeOK, Boxes, Entry, sharedVars
<1>6. GameGood' /\ AbandonedGood'
  BY DEF GameOverSent, GameGood, AbandonedGood, NobodyServed, Playing, sharedVars
<1> QED BY <1>4, <1>5, <1>6

\* The game is unbound at the end, when it is at no lock.
LEMMA UnbindBase ==
    ASSUME BaseInv, Unbind PROVE BaseInv'
<1> USE DEF BaseInv
<1>1. UNCHANGED <<pc, shut, current, seat, opened, outbox>>
  BY DEF Unbind, connVars, histVars
<1>2. GameIsAt
  <2>1. Silent(outbox, TheGame)
    BY WasSilent, Names DEF Unbind, Sending
  <2> QED BY <2>1, <1>1 DEF GameIsAt
<1>3. outbox' \in Boxes /\ LocksGood' /\ OpenedGood' /\ RegistryGood'
  BY <1>1, <1>2, GameKeepsRegistry
<1>4. TypeOK'
  BY DEF Unbind, TypeOK, connVars, histVars
<1>5. GameGood' /\ AbandonedGood'
  BY DEF Unbind, GameGood, AbandonedGood, NobodyServed, Playing, connVars, histVars
<1> QED BY <1>3, <1>4, <1>5

\* The exception leaves run_game between its sends; the game stays bound.
LEMMA RunGameRaisesBase ==
    ASSUME BaseInv, RunGameRaises PROVE BaseInv'
<1> USE DEF BaseInv
<1>1. UNCHANGED <<pc, shut, current, seat, opened, outbox>>
  BY DEF RunGameRaises, connVars, sharedVars, histVars
<1>2. GameIsAt
  <2>1. Silent(outbox, TheGame)
    BY WasSilent, Names DEF RunGameRaises, Sending
  <2> QED BY <2>1, <1>1 DEF GameIsAt
<1>3. outbox' \in Boxes /\ LocksGood' /\ OpenedGood' /\ RegistryGood'
  BY <1>1, <1>2, GameKeepsRegistry
<1>4. TypeOK'
  BY DEF RunGameRaises, TypeOK, connVars, sharedVars, histVars
<1>5. GameGood' /\ AbandonedGood'
  BY DEF RunGameRaises, GameGood, AbandonedGood, NobodyServed, Playing, connVars, sharedVars,
         histVars
<1> QED BY <1>3, <1>4, <1>5

-----------------------------------------------------------------------------
(* The steps of the handshakes, the clean-ups and the environment. *)

Serviced == {"replacing", "welcoming", "resending", "delivering", "serving"}

\* Where the handshake of k is after the step: at no send, or at the lock of h.
HandshakeIsAt(k) ==
    \/ Silent(outbox', k)
    \/ \E h \in Conn, m \in Frames :
          /\ Speaks(outbox', k, h, m) /\ pc'[h] # "new"
          /\ pc'[k] \in IF h = k THEN {"welcoming", "resending", "delivering"} ELSE {"replacing"}

\* A handshake's step leaves every other sender where it was.
LEMMA HandshakeKeepsLocks ==
    ASSUME TypeOK, LocksGood, NEW k \in Conn, HandshakeIsAt(k), UNCHANGED gpc,
           \A h \in Conn \ {k} : pc'[h] = pc[h]
    PROVE  outbox' \in Boxes /\ LocksGood'
<1>1. Like(outbox', k)
  BY DEF HandshakeIsAt, Silent, Speaks
<1>2. \A h \in Conn, t \in Senders \ {k} : Waits(h, t)' <=> Waits(h, t)
  BY <1>1 DEF Like, Waits
<1>3. /\ \A h, g \in Conn : Waits(h, k)' /\ Waits(g, k)' => h = g
      /\ Waits(k, k)' => pc'[k] \in {"welcoming", "resending", "delivering"}
      /\ \A h \in Conn : Waits(h, k)' /\ h # k => pc'[k] = "replacing"
  BY DEF HandshakeIsAt, Silent, Speaks, Waits
<1>4. \A h \in Conn, s \in Coroutines : Once(outbox', h, s)
  BY <1>1 DEF Like
<1>5. \A h, g \in Conn, s \in Coroutines : Waits(h, s)' /\ Waits(g, s)' => h = g
  BY <1>2, <1>3, Names DEF LocksGood
<1>6. \A h \in Conn : Waits(h, TheGame)' => gpc' \in Sending
  BY <1>2, Names DEF LocksGood
<1>7. \A g \in Conn : Waits(g, g)' => pc'[g] \in {"welcoming", "resending", "delivering"}
  BY <1>2, <1>3, Names DEF LocksGood
<1>8. \A h, g \in Conn : Waits(h, g)' /\ h # g => pc'[g] = "replacing"
  BY <1>2, <1>3, Names DEF LocksGood
<1> QED BY <1>1, <1>4, <1>5, <1>6, <1>7, <1>8 DEF LocksGood, Like

\* The registry is as good as before when nobody is ousted or reinstated.
LEMMA RegistryKept ==
    ASSUME TypeOK, RegistryGood, UNCHANGED <<current, opened>>,
           \A h \in Conn : Ousted(h)' <=> Ousted(h),
           \A h \in Conn : /\ pc'[h] = "new" <=> pc[h] = "new"
                           /\ pc'[h] = "closed" <=> pc[h] = "closed"
                           /\ pc'[h] \in Serviced => pc[h] \in Serviced,
           \A c \in Color : seat'[c] # seat[c] => seat'[c] \in Conn /\ Owner[seat'[c]] = c
                                                   /\ pc[seat'[c]] # "new"
    PROVE  RegistryGood'
<1>1. \A c \in Color : seat[c] \in Conn /\ (current[c] # None => current[c] \in Conn)
  BY DEF TypeOK
<1>2. \A c \in Color : current'[c] # None =>
          /\ Owner[current'[c]] = c /\ pc'[current'[c]] \notin {"new", "closed"}
          /\ \A h \in ConnsOf(c) : pc'[h] # "new" /\ h # current'[c] => Newer(current[c], h)'
  BY <1>1 DEF RegistryGood, ConnsOf, Newer
<1>3. \A c \in Color : Owner[seat'[c]] = c /\ pc'[seat'[c]] # "new"
  BY <1>1 DEF RegistryGood
<1>4. \A h \in Conn : pc'[h] \in Serviced /\ ~Ousted(h)' => current'[Owner[h]] = h
  BY DEF RegistryGood, Serviced
<1>5. \A h \in Conn : Ousted(h)' => current'[Owner[h]] # h
  BY DEF RegistryGood
<1> QED BY <1>2, <1>3, <1>4, <1>5 DEF RegistryGood, Serviced, ConnsOf

\* A step of k's handshake, after it was registered, ousts nobody but the
\* session that it had waited to oust.
LEMMA HandshakeOusts ==
    ASSUME NEW k \in Conn, Like(outbox', k),
           \A h \in Conn \ {k} : Waits(h, k)' \/ shut'[h] <=> Waits(h, k) \/ shut[h],
           shut'[k] = shut[k]
    PROVE  \A h \in Conn : Ousted(h)' <=> Ousted(h)
<1>1. \A h \in Conn, t \in Senders \ {k} : Waits(h, t)' <=> Waits(h, t)
  BY DEF Like, Waits
<1>2. k \in Senders /\ k # TheGame
  BY Names
<1>3. Ousted(k)' <=> Ousted(k)
  BY <1>1 DEF Ousted
<1>4. ASSUME NEW h \in Conn, h # k PROVE Ousted(h)' <=> Ousted(h)
  <2>1. Ousted(h) <=> (Waits(h, k) \/ shut[h]) \/ \E s \in Senders \ {h, TheGame, k} : Waits(h, s)
    BY <1>2, <1>4 DEF Ousted
  <2>2. Ousted(h)' <=> (Waits(h, k)' \/ shut'[h])
                       \/ \E s \in Senders \ {h, TheGame, k} : Waits(h, s)'
    BY <1>2, <1>4 DEF Ousted
  <2>3. \A s \in Senders \ {h, TheGame, k} : Waits(h, s)' <=> Waits(h, s)
    BY <1>1
  <2> QED BY <2>1, <2>2, <2>3, <1>4
<1> QED BY <1>3, <1>4

\* The steps of a handshake that sends on its own socket only.
OwnStep(k) ==
    /\ pc[k] \in {"welcoming", "resending", "delivering"}
    /\ pc' = [pc EXCEPT ![k] = pc'[k]]
    /\ pc'[k] \in {"welcoming", "resending", "delivering", "serving", "failed"}
    /\ UNCHANGED <<current, shut, opened, gpc>>
    /\ seat' = seat \/ seat' = [seat EXCEPT ![Owner[k]] = k]

\* A handshake goes on at its own lock, or comes to its end.
LEMMA OwnStepGood ==
    ASSUME BaseInv, NEW k \in Conn, HandshakeIsAt(k), OwnStep(k)
    PROVE  outbox' \in Boxes /\ LocksGood' /\ OpenedGood' /\ RegistryGood'
<1> USE DEF BaseInv
<1>1. \A h \in Conn \ {k} : pc'[h] = pc[h]
  BY DEF OwnStep, TypeOK
<1>2. outbox' \in Boxes /\ LocksGood'
  BY <1>1, HandshakeKeepsLocks DEF OwnStep
<1>3. Like(outbox', k)
  BY DEF HandshakeIsAt, Silent, Speaks
<1>4. \A h \in Conn \ {k} : ~Waits(h, k) /\ ~Waits(h, k)'
  <2> TAKE h \in Conn \ {k}
  <2>1. ~Waits(h, k)
    BY DEF LocksGood, OwnStep
  <2>2. ~Waits(h, k)'
    BY <1>2 DEF LocksGood, OwnStep
  <2> QED BY <2>1, <2>2
<1>5. \A h \in Conn : Ousted(h)' <=> Ousted(h)
  BY <1>3, <1>4, HandshakeOusts DEF OwnStep
<1>6. \A h \in Conn : /\ pc'[h] = "new" <=> pc[h] = "new"
                      /\ pc'[h] = "closed" <=> pc[h] = "closed"
                      /\ pc'[h] \in Serviced => pc[h] \in Serviced
  BY <1>1 DEF OwnStep, Serviced
<1>7. RegistryGood'
  <2>1. \A c \in Color : seat'[c] # seat[c] => seat'[c] = k /\ Owner[k] = c
    <3>1. seat \in [Color -> Conn] /\ Owner[k] \in Color
      BY ConnAssumption DEF TypeOK
    <3>2. seat' = seat \/ seat' = [seat EXCEPT ![Owner[k]] = k]
      BY DEF OwnStep
    <3> HIDE DEF BaseInv
    <3> QED BY <3>1, <3>2
  <2>2. pc[k] # "new" /\ UNCHANGED <<current, opened>>
    BY DEF OwnStep
  <2> HIDE DEF BaseInv
  <2>3. TypeOK /\ RegistryGood
    BY DEF BaseInv
  <2> QED BY <1>5, <1>6, <2>1, <2>2, <2>3, RegistryKept
<1>8. OpenedGood'
  <2>1. \A h \in Conn : pc[h] = "new" => \A s \in Senders : ~Waits(h, s)'
    <3> TAKE h \in Conn
    <3> HAVE pc[h] = "new"
    <3> TAKE s \in Senders
    <3>1. h # k
      BY DEF OwnStep
    <3>2. CASE s = k
      BY <3>1, <3>2, <1>4
    <3>3. CASE s # k
      BY <3>3, <1>3 DEF Like, Waits, OpenedGood
    <3> QED BY <3>2, <3>3
  <2>2. \A c \in Color : First[c] \in Conn
    BY ConnAssumption
  <2> QED BY <2>1, <2>2, <1>6 DEF OpenedGood, OwnStep
<1> QED BY <1>2, <1>7, <1>8

\* Greet leaves the handshake of k at its own lock.
LEMMA GreetGood ==
    ASSUME TypeOK, NEW k \in Conn, NEW box, Silent(box, k), Greet(k, box)
    PROVE  /\ Speaks(outbox', k, k, Plain("welcome")) /\ pc' = [pc EXCEPT ![k] = "welcoming"]
           /\ snap' \in [Conn -> [active : BOOLEAN, to_move : Color \cup {None}]]
           /\ gap' \in SUBSET (Conn \X Frames)
<1>1. Speaks(Enqueue(box, k, k, Plain("welcome")), k, k, Plain("welcome"))
  BY FramesOfTurn, Joins, Names
<1>2. snap' \in [Conn -> [active : BOOLEAN, to_move : Color \cup {None}]]
  <2> DEFINE Snap == [active : BOOLEAN, to_move : Color \cup {None}]
             r == IF bound THEN [active |-> TRUE, to_move |-> Turn(board)] ELSE NoResume
  <2>1. r \in Snap
    BY FramesOfTurn DEF NoResume
  <2>2. snap \in [Conn -> Snap]
    BY DEF TypeOK
  <2>3. snap' = [snap EXCEPT ![k] = r]
    BY DEF Greet
  <2> HIDE DEF r, Snap
  <2>4. snap' \in [Conn -> Snap]
    BY <2>1, <2>2, <2>3
  <2> QED BY <2>4 DEF Snap
<1>3. gap' \in SUBSET (Conn \X Frames)
  <2>1. gap \in SUBSET (Conn \X Frames) /\ <<k, GameOver>> \in Conn \X Frames
    BY FramesOfTurn DEF TypeOK
  <2>2. gap' = gap \/ gap' = gap \cup {<<k, GameOver>>}
    BY DEF Greet
  <2> QED BY <2>1, <2>2
<1> QED BY <1>1, <1>2, <1>3 DEF Greet

\* A new connection joins its own lock, or that of the session it replaces.
LEMMA RegisterJoins ==
    ASSUME BaseInv, NEW k \in Conn, Register(k)
    PROVE  /\ Owner[k] \in Color /\ Silent(outbox, k)
           /\ \E h \in Conn, m \in Frames :
                 /\ Speaks(outbox', k, h, m)
                 /\ h = IF current[Owner[k]] = None THEN k ELSE current[Owner[k]]
                 /\ pc' = [pc EXCEPT ![k] = IF h = k THEN "welcoming" ELSE "replacing"]
           /\ snap' \in [Conn -> [active : BOOLEAN, to_move : Color \cup {None}]]
           /\ gap' \in SUBSET (Conn \X Frames)
<1> USE DEF BaseInv
<1> DEFINE old == current[Owner[k]]
<1>1. Owner[k] \in Color /\ pc[k] = "new"
  BY ConnAssumption DEF Register
<1>2. Silent(outbox, k)
  BY <1>1, WasSilent, Names
<1>3. CASE old = None
  <2>1. Greet(k, outbox)
    BY <1>3 DEF Register
  <2>2. /\ Speaks(outbox', k, k, Plain("welcome")) /\ pc' = [pc EXCEPT ![k] = "welcoming"]
        /\ snap' \in [Conn -> [active : BOOLEAN, to_move : Color \cup {None}]]
        /\ gap' \in SUBSET (Conn \X Frames)
    BY <2>1, <1>2, GreetGood
  <2> QED BY <1>1, <1>2, <1>3, <2>2, FramesOfTurn
<1>4. CASE old # None
  <2>1. old \in Conn /\ pc[old] # "new"
    BY <1>1, <1>4 DEF TypeOK, RegistryGood
  <2>2. /\ outbox' = Enqueue(outbox, old, k, Plain("session_replaced"))
        /\ pc' = [pc EXCEPT ![k] = "replacing"] /\ UNCHANGED <<snap, gap>>
    BY <1>4 DEF Register
  <2>3. Speaks(outbox', k, old, Plain("session_replaced")) /\ Plain("session_replaced") \in Frames
    BY <2>1, <2>2, <1>2, FramesOfTurn, Joins, Names
  <2>4. old # k
    BY <1>1, <2>1
  <2>5. snap' \in [Conn -> [active : BOOLEAN, to_move : Color \cup {None}]]
        /\ gap' \in SUBSET (Conn \X Frames)
    BY <2>2 DEF TypeOK
  <2> HIDE DEF old
  <2>6. old = current[Owner[k]]
    BY DEF old
  <2> QED BY <1>1, <1>2, <1>4, <2>1, <2>2, <2>3, <2>4, <2>5, <2>6
<1> QED BY <1>3, <1>4

\* A connection registers: the one it replaces is now being closed, by it.
LEMMA RegisterBase ==
    ASSUME BaseInv, NEW k \in Conn, Register(k) PROVE BaseInv'
<1> DEFINE c == Owner[k]
<1>0. TypeOK /\ LocksGood /\ OpenedGood /\ RegistryGood /\ GameGood /\ AbandonedGood
  BY DEF BaseInv
<1>1. PICK h0 \in Conn, m \in Frames :
          /\ Speaks(outbox', k, h0, m)
          /\ h0 = IF current[c] = None THEN k ELSE current[c]
          /\ pc' = [pc EXCEPT ![k] = IF h0 = k THEN "welcoming" ELSE "replacing"]
  BY RegisterJoins
<1>2. /\ c \in Color /\ pc[k] = "new" /\ ~shut[k]
      /\ \A s \in Senders : ~Waits(k, s)
      /\ current' = [current EXCEPT ![c] = k] /\ opened' = Append(opened, k)
      /\ UNCHANGED <<alive, shut, got, seat, bound, recent, gpc, state, ply, board, abort, early>>
  BY <1>0, RegisterJoins DEF Register, OpenedGood, gameVars
<1>3. /\ \A h \in Conn \ {k} : pc'[h] = pc[h]
      /\ pc'[k] = IF h0 = k THEN "welcoming" ELSE "replacing"
      /\ h0 # k => pc[h0] # "new" /\ Owner[h0] = c
  BY <1>0, <1>1, <1>2 DEF TypeOK, RegistryGood
<1>4. /\ \A h \in Conn, s \in Senders \ {k} : Waits(h, s)' <=> Waits(h, s)
      /\ \A h \in Conn : Waits(h, k)' <=> h = h0
      /\ \A h \in Conn : ~Waits(h, k)
  BY <1>1, RegisterJoins, SMTT(30) DEF Speaks, Silent, Like, Waits
<1>5. outbox' \in Boxes /\ LocksGood'
  <2>1. pc'[h0] # "new"
    BY <1>3
  <2>2. HandshakeIsAt(k)
    BY <1>1, <1>3, <2>1 DEF HandshakeIsAt
  <2> QED BY <1>0, <1>2, <1>3, <2>2, HandshakeKeepsLocks
<1>6. /\ Len(opened') = Len(opened) + 1 /\ opened'[Len(opened) + 1] = k
      /\ \A i \in 1 .. Len(opened) : opened'[i] = opened[i]
      /\ opened \in Seq(Conn) /\ opened' \in Seq(Conn) /\ Len(opened) \in Nat
  BY <1>0, <1>2 DEF TypeOK
<1>7. \A h \in Conn : pc'[h] # "new" <=> \E i \in 1 .. Len(opened') : opened'[i] = h
  <2> TAKE h \in Conn
  <2>1. CASE h = k
    <3>1. Len(opened) + 1 \in 1 .. Len(opened')
      BY <1>6
    <3> QED BY <2>1, <3>1, <1>3, <1>6
  <2>2. CASE h # k
    <3>1. pc[h] # "new" <=> \E i \in 1 .. Len(opened) : opened[i] = h
      BY <1>0 DEF OpenedGood
    <3>2. (\E i \in 1 .. Len(opened') : opened'[i] = h) <=> \E i \in 1 .. Len(opened) : opened[i] = h
      BY <1>6, <2>2
    <3> QED BY <2>2, <3>1, <3>2, <1>3
  <2> QED BY <2>1, <2>2
<1>8. OpenedGood'
  <2>1. ASSUME NEW h \in Conn, pc'[h] = "new"
        PROVE  h # k /\ h # h0 /\ pc[h] = "new"
    BY <2>1, <1>3
  <2>2. ASSUME NEW h \in Conn, pc'[h] = "new"
        PROVE  ~shut'[h] /\ \A s \in Senders : ~Waits(h, s)'
    BY <1>0, <1>2, <1>4, <2>1, <2>2 DEF OpenedGood
  <2>3. \A d \in Color : pc'[First[d]] # "new"
    BY <1>0, <1>3, ConnAssumption DEF OpenedGood
  <2> QED BY <1>7, <2>2, <2>3 DEF OpenedGood
<1>9. ASSUME NEW h \in Conn, NEW g \in Conn, Newer(h, g) PROVE Newer(h, g)'
  <2>1. PICK i, j \in 1 .. Len(opened) : i < j /\ opened[i] = g /\ opened[j] = h
    BY <1>9 DEF Newer
  <2>2. i \in 1 .. Len(opened') /\ j \in 1 .. Len(opened')
    BY <1>6
  <2> QED BY <1>6, <2>1, <2>2 DEF Newer
<1>10. ASSUME NEW g \in Conn, pc[g] # "new" PROVE Newer(k, g)'
  <2>1. PICK i \in 1 .. Len(opened) : opened[i] = g
    BY <1>0, <1>10 DEF OpenedGood
  <2>2. i \in 1 .. Len(opened') /\ Len(opened) + 1 \in 1 .. Len(opened') /\ i < Len(opened) + 1
    BY <1>6
  <2> QED BY <1>6, <2>1, <2>2 DEF Newer
<1>11. current'[c] = k /\ \A d \in Color \ {c} : current'[d] = current[d]
  BY <1>0, <1>2 DEF TypeOK
<1>12. \A h \in Conn : Owner[h] = c /\ Ousted(h)' => h # k
  <2>1. ~Ousted(k)'
    BY <1>2, <1>4 DEF Ousted
  <2> QED BY <2>1
<1>13. ASSUME NEW h \in Conn, Owner[h] # c PROVE Ousted(h)' <=> Ousted(h)
  <2>1. h # k /\ h # h0
    BY <1>3, <1>13
  <2> QED BY <1>2, <1>4, <2>1 DEF Ousted
<1>14. ASSUME NEW h \in Conn, h # k, Owner[h] = c, pc'[h] \in Serviced PROVE Ousted(h)'
  <2>1. CASE Ousted(h)
    <3>1. k \in Senders /\ h \in Senders
      BY Names
    <3>2. \A s \in Senders \ {h, TheGame} : Waits(h, s) => Waits(h, s)'
      BY <1>2, <1>4
    <3> QED BY <2>1, <3>2, <1>2 DEF Ousted
  <2>2. CASE ~Ousted(h)
    <3>1. current[c] = h
      BY <2>2, <1>0, <1>3, <1>14 DEF RegistryGood, Serviced
    <3>2. h0 = h
      BY <3>1, <1>1, Names
    <3>3. Waits(h, k)' /\ k \in Senders \ {h, TheGame}
      BY <3>2, <1>4, <1>14, Names
    <3> QED BY <3>3 DEF Ousted
  <2> QED BY <2>1, <2>2
<1>15. RegistryGood'
  <2>1. ASSUME NEW d \in Color, current'[d] # None
        PROVE  /\ Owner[current'[d]] = d /\ pc'[current'[d]] \notin {"new", "closed"}
               /\ \A h \in ConnsOf(d) : pc'[h] # "new" /\ h # current'[d] => Newer(current[d], h)'
    <3>1. CASE d = c
      BY <3>1, <1>3, <1>10, <1>11 DEF ConnsOf, Newer
    <3>2. CASE d # c
      <4>1. current'[d] = current[d] /\ current[d] \in Conn /\ current[d] # k
        BY <3>2, <2>1, <1>0, <1>2, <1>11 DEF TypeOK, RegistryGood
      <4>2. /\ Owner[current[d]] = d /\ pc[current[d]] \notin {"new", "closed"}
            /\ \A h \in ConnsOf(d) : pc[h] # "new" /\ h # current[d] => Newer(current[d], h)
        BY <4>1, <2>1, <1>0 DEF RegistryGood
      <4>3. \A h \in ConnsOf(d) : h \in Conn /\ h # k
        BY <3>2 DEF ConnsOf
      <4>4. \A h \in ConnsOf(d) : pc'[h] # "new" /\ h # current[d] => Newer(current[d], h)'
        BY <4>1, <4>2, <4>3, <1>3, <1>9 DEF Newer
      <4> QED BY <4>1, <4>2, <4>4, <1>3
    <3> QED BY <3>1, <3>2
  <2>2. ASSUME NEW h \in Conn, Ousted(h)' PROVE current'[Owner[h]] # h
    <3>1. CASE Owner[h] = c
      BY <3>1, <2>2, <1>11, <1>12
    <3>2. CASE Owner[h] # c
      BY <3>2, <2>2, <1>0, <1>11, <1>13, ConnAssumption DEF RegistryGood
    <3> QED BY <3>1, <3>2
  <2>3. ASSUME NEW h \in Conn, pc'[h] \in Serviced, ~Ousted(h)' PROVE current'[Owner[h]] = h
    <3>1. CASE Owner[h] = c
      BY <3>1, <2>3, <1>11, <1>14
    <3>2. CASE Owner[h] # c
      BY <3>2, <2>3, <1>0, <1>3, <1>11, <1>13, ConnAssumption DEF RegistryGood, Serviced
    <3> QED BY <3>1, <3>2
  <2>4. \A d \in Color : Owner[seat'[d]] = d /\ pc'[seat'[d]] # "new"
    BY <1>0, <1>2, <1>3 DEF RegistryGood, TypeOK
  <2> QED BY <2>1, <2>2, <2>3, <2>4 DEF RegistryGood, Serviced
<1>16. TypeOK'
  <2>1. pc' \in [Conn -> PCs] /\ current' \in [Color -> Conn \cup {None}]
    BY <1>0, <1>1, <1>2 DEF TypeOK, PCs
  <2> QED BY <1>0, <1>2, <1>5, <1>6, <2>1, RegisterJoins DEF TypeOK, Boxes, Entry
<1>17. GameGood' /\ AbandonedGood'
  BY <1>0, <1>2, <1>3 DEF GameGood, AbandonedGood, NobodyServed, Playing
<1> QED BY <1>5, <1>8, <1>15, <1>16, <1>17 DEF BaseInv

\* The older session is told and shut: nobody is ousted by the registration any more.
LEMMA ReplacedBase ==
    ASSUME BaseInv, NEW k \in Conn, NEW old \in Conn, NEW ok \in BOOLEAN, Replaced(k, old, ok)
    PROVE  BaseInv'
<1>0. TypeOK /\ LocksGood /\ OpenedGood /\ RegistryGood /\ GameGood /\ AbandonedGood
  BY DEF BaseInv
<1>1. /\ pc[k] = "replacing" /\ Completes(old, k, ok) /\ Greet(k, Dequeued(old))
      /\ shut' = [shut EXCEPT ![old] = TRUE]
      /\ UNCHANGED <<alive, sharedVars, gameVars, opened, early>>
  BY DEF Replaced
<1>2. /\ Silent(Dequeued(old), k) /\ Head(outbox[old]).msg \in Frames
      /\ \A h \in Conn : Waits(h, k) <=> h = old
  <2> DEFINE m == Head(outbox[old]).msg
  <2>1. k \in Coroutines /\ Completes(old, k, ok)
    BY <1>1, Names
  <2>2. /\ Silent(Dequeued(old), k) /\ m \in Frames
        /\ \A h \in Conn : Sent(outbox, h, k) = IF h = old THEN {m} ELSE {}
    BY <1>0, <2>1, Leaves
  <2> HIDE DEF m
  <2>3. \A h \in Conn : Waits(h, k) <=> h = old
    BY <2>2 DEF Waits
  <2> QED BY <2>2, <2>3 DEF m
<1>3. /\ Speaks(outbox', k, k, Plain("welcome")) /\ pc' = [pc EXCEPT ![k] = "welcoming"]
      /\ snap' \in [Conn -> [active : BOOLEAN, to_move : Color \cup {None}]]
      /\ gap' \in SUBSET (Conn \X Frames)
  BY <1>0, <1>1, <1>2, GreetGood
<1>4. old # k
  BY <1>0, <1>1, <1>2 DEF LocksGood
<1>5. /\ \A h \in Conn \ {k} : pc'[h] = pc[h]
      /\ pc'[k] = "welcoming" /\ shut'[old] /\ \A h \in Conn \ {old} : shut'[h] = shut[h]
  BY <1>0, <1>1, <1>3 DEF TypeOK
<1>6. outbox' \in Boxes /\ LocksGood'
  <2>1. HandshakeIsAt(k)
    BY <1>3, <1>5, FramesOfTurn, <1>0 DEF HandshakeIsAt
  <2> QED BY <1>0, <1>1, <1>5, <2>1, HandshakeKeepsLocks DEF gameVars
<1>7. Like(outbox', k) /\ \A h \in Conn : Waits(h, k)' <=> h = k
  BY <1>3 DEF Speaks, Waits
<1>8. \A h \in Conn : Ousted(h)' <=> Ousted(h)
  <2>1. \A h \in Conn \ {k} : Waits(h, k)' \/ shut'[h] <=> Waits(h, k) \/ shut[h]
    BY <1>2, <1>5, <1>7
  <2> QED BY <1>4, <1>5, <1>7, <2>1, HandshakeOusts
<1>9. \A h \in Conn : /\ pc'[h] = "new" <=> pc[h] = "new"
                      /\ pc'[h] = "closed" <=> pc[h] = "closed"
                      /\ pc'[h] \in Serviced => pc[h] \in Serviced
  BY <1>1, <1>5 DEF Serviced
<1>10. RegistryGood'
  BY <1>0, <1>1, <1>8, <1>9, RegistryKept DEF sharedVars
<1>11. OpenedGood'
  <2>1. pc[old] # "new"
    BY <1>0, <1>2, Names DEF OpenedGood
  <2>2. ASSUME NEW h \in Conn, pc[h] = "new" PROVE ~shut'[h] /\ \A s \in Senders : ~Waits(h, s)'
    <3>1. h # k /\ h # old
      BY <1>1, <2>1, <2>2
    <3>2. \A s \in Senders \ {k} : Waits(h, s)' <=> Waits(h, s)
      BY <1>7 DEF Like, Waits
    <3> QED BY <1>0, <1>5, <1>7, <2>2, <3>1, <3>2 DEF OpenedGood
  <2>3. \A c \in Color : First[c] \in Conn
    BY ConnAssumption
  <2> QED BY <1>0, <1>1, <1>9, <2>2, <2>3 DEF OpenedGood
<1>12. TypeOK'
  <2>1. got' \in [Conn -> SUBSET Frames]
    BY <1>0, <1>1, <1>2, GotGood
  <2>2. pc' \in [Conn -> PCs] /\ shut' \in [Conn -> BOOLEAN]
    BY <1>0, <1>1, <1>3 DEF TypeOK, PCs
  <2> QED BY <1>0, <1>1, <1>3, <1>6, <2>1, <2>2
          DEF TypeOK, Boxes, Entry, sharedVars, gameVars
<1>13. GameGood' /\ AbandonedGood'
  BY <1>0, <1>1, <1>5 DEF GameGood, AbandonedGood, NobodyServed, Playing, sharedVars, gameVars
<1> QED BY <1>6, <1>10, <1>11, <1>12, <1>13 DEF BaseInv

\* The steps of a handshake that only leave k's lock and end the handshake.
LEMMA OwnLeaves ==
    ASSUME BaseInv, NEW k \in Conn, NEW ok \in BOOLEAN, Completes(k, k, ok)
    PROVE  /\ Silent(Dequeued(k), k) /\ got' \in [Conn -> SUBSET Frames]
           /\ Sent(outbox, k, k) = {Head(outbox[k]).msg} /\ Head(outbox[k]).msg \in Frames
BY Leaves, Names, GotGood DEF BaseInv

\* The welcome is written; the seat is rebound, which the registry does not see.
LEMMA WelcomedBase ==
    ASSUME BaseInv, NEW k \in Conn, Welcomed(k) PROVE BaseInv'
<1>0. TypeOK /\ LocksGood /\ OpenedGood /\ RegistryGood /\ GameGood /\ AbandonedGood
  BY DEF BaseInv
<1>1. /\ pc[k] = "welcoming" /\ Completes(k, k, TRUE)
      /\ seat' = seat \/ seat' = [seat EXCEPT ![Owner[k]] = k]
      /\ snap' = [snap EXCEPT ![k] = NoResume]
      /\ UNCHANGED <<alive, shut, current, bound, recent, gameVars, histVars>>
  BY DEF Welcomed
<1>2. Silent(Dequeued(k), k) /\ got' \in [Conn -> SUBSET Frames]
  BY <1>1, OwnLeaves
<1>3. /\ HandshakeIsAt(k) /\ pc' = [pc EXCEPT ![k] = pc'[k]]
      /\ pc'[k] \in {"resending", "delivering", "serving"}
  <2>1. CASE pc' = [pc EXCEPT ![k] = "serving"] /\ outbox' = Dequeued(k)
    BY <2>1, <1>0, <1>2 DEF HandshakeIsAt, TypeOK
  <2>2. ASSUME NEW p \in {"resending", "delivering"}, NEW m \in Frames,
               pc' = [pc EXCEPT ![k] = p], outbox' = Enqueue(Dequeued(k), k, k, m)
        PROVE  HandshakeIsAt(k) /\ pc' = [pc EXCEPT ![k] = pc'[k]] /\ pc'[k] = p
    <3>1. Speaks(outbox', k, k, m)
      BY <2>2, <1>2, Joins, Names
    <3>2. pc'[k] = p
      BY <2>2, <1>0 DEF TypeOK
    <3>3. pc'[k] # "new" /\ pc'[k] \in {"welcoming", "resending", "delivering"}
      BY <3>2
    <3>4. HandshakeIsAt(k)
      BY <3>1, <3>3 DEF HandshakeIsAt
    <3> QED BY <2>2, <3>2, <3>4
  <2> QED BY <1>0, <2>1, <2>2, FramesOfTurn DEF Welcomed
<1>4. OwnStep(k)
  BY <1>1, <1>3 DEF OwnStep, gameVars, histVars
<1>5. outbox' \in Boxes /\ LocksGood' /\ OpenedGood' /\ RegistryGood'
  BY <1>3, <1>4, OwnStepGood
<1>6. TypeOK'
  <2>1. pc' \in [Conn -> PCs]
    BY <1>0, <1>3 DEF TypeOK, PCs
  <2>2. seat' \in [Color -> Conn]
    BY <1>0, <1>1, ConnAssumption DEF TypeOK
  <2>3. snap' \in [Conn -> [active : BOOLEAN, to_move : Color \cup {None}]]
    BY <1>0, <1>1 DEF TypeOK, NoResume
  <2> QED BY <1>0, <1>1, <1>2, <1>5, <2>1, <2>2, <2>3
          DEF TypeOK, Boxes, Entry, gameVars, histVars
<1>7. GameGood' /\ AbandonedGood'
  BY <1>0, <1>1, <1>3 DEF GameGood, AbandonedGood, NobodyServed, Playing, gameVars, histVars
<1> QED BY <1>5, <1>6, <1>7 DEF BaseInv

\* The repeated your_turn is written, or raises and is lost.
LEMMA TurnResentBase ==
    ASSUME BaseInv, NEW k \in Conn, NEW ok \in BOOLEAN, TurnResent(k, ok) PROVE BaseInv'
<1>0. TypeOK /\ LocksGood /\ OpenedGood /\ RegistryGood /\ GameGood /\ AbandonedGood
  BY DEF BaseInv
<1>1. /\ pc[k] = "resending" /\ Completes(k, k, ok) /\ outbox' = Dequeued(k)
      /\ pc' = [pc EXCEPT ![k] = "serving"]
      /\ UNCHANGED <<alive, shut, snap, sharedVars, gameVars, histVars>>
  BY DEF TurnResent
<1>2. Silent(outbox', k) /\ got' \in [Conn -> SUBSET Frames]
  BY <1>1, OwnLeaves
<1>3. pc'[k] = "serving" /\ \A h \in Conn \ {k} : pc'[h] = pc[h]
  BY <1>0, <1>1 DEF TypeOK
<1>4. HandshakeIsAt(k) /\ OwnStep(k)
  BY <1>1, <1>2, <1>3 DEF HandshakeIsAt, OwnStep, sharedVars, gameVars, histVars
<1>5. outbox' \in Boxes /\ LocksGood' /\ OpenedGood' /\ RegistryGood'
  BY <1>4, OwnStepGood
<1>6. TypeOK'
  <2>1. pc' \in [Conn -> PCs]
    BY <1>0, <1>1 DEF TypeOK, PCs
  <2> QED BY <1>0, <1>1, <1>2, <1>5, <2>1
          DEF TypeOK, Boxes, Entry, sharedVars, gameVars, histVars
<1>7. GameGood' /\ AbandonedGood'
  BY <1>0, <1>1, <1>3
     DEF GameGood, AbandonedGood, NobodyServed, Playing, sharedVars, gameVars, histVars
<1> QED BY <1>5, <1>6, <1>7 DEF BaseInv

\* The missed game_over is written.
LEMMA MissedDeliveredBase ==
    ASSUME BaseInv, NEW k \in Conn, MissedDelivered(k) PROVE BaseInv'
<1>0. TypeOK /\ LocksGood /\ OpenedGood /\ RegistryGood /\ GameGood /\ AbandonedGood
  BY DEF BaseInv
<1>1. /\ pc[k] = "delivering" /\ Completes(k, k, TRUE) /\ outbox' = Dequeued(k)
      /\ pc' = [pc EXCEPT ![k] = "serving"] /\ recent' = recent \ {Owner[k]}
      /\ UNCHANGED <<alive, shut, snap, current, seat, bound, gameVars, opened, early>>
  BY DEF MissedDelivered
<1>2. Silent(outbox', k) /\ got' \in [Conn -> SUBSET Frames]
  BY <1>1, OwnLeaves
<1>3. pc'[k] = "serving" /\ \A h \in Conn \ {k} : pc'[h] = pc[h]
  BY <1>0, <1>1 DEF TypeOK
<1>4. HandshakeIsAt(k) /\ OwnStep(k)
  BY <1>1, <1>2, <1>3 DEF HandshakeIsAt, OwnStep, gameVars
<1>5. outbox' \in Boxes /\ LocksGood' /\ OpenedGood' /\ RegistryGood'
  BY <1>4, OwnStepGood
<1>6. TypeOK'
  <2>1. pc' \in [Conn -> PCs]
    BY <1>0, <1>1 DEF TypeOK, PCs
  <2>2. gap' \in SUBSET (Conn \X Frames)
    <3>1. gap \in SUBSET (Conn \X Frames) /\ \A h \in Conn : <<h, GameOver>> \in Conn \X Frames
      BY <1>0, FramesOfTurn DEF TypeOK
    <3>2. gap' = gap \/ gap' = gap \cup {<<h, GameOver>> : h \in ConnsOf(Owner[k])}
      BY DEF MissedDelivered
    <3> QED BY <3>1, <3>2 DEF ConnsOf
  <2> QED BY <1>0, <1>1, <1>2, <1>5, <2>1, <2>2 DEF TypeOK, Boxes, Entry, gameVars
<1>7. GameGood' /\ AbandonedGood'
  BY <1>0, <1>1, <1>3 DEF GameGood, AbandonedGood, NobodyServed, Playing, gameVars
<1> QED BY <1>5, <1>6, <1>7 DEF BaseInv

\* A handshake that raises leaves its session registered.
LEMMA HandshakeFailsBase ==
    ASSUME BaseInv, NEW k \in Conn, HandshakeFails(k) PROVE BaseInv'
<1>0. TypeOK /\ LocksGood /\ OpenedGood /\ RegistryGood /\ GameGood /\ AbandonedGood
  BY DEF BaseInv
<1>1. /\ pc[k] \in {"welcoming", "delivering"} /\ Completes(k, k, FALSE) /\ outbox' = Dequeued(k)
      /\ pc' = [pc EXCEPT ![k] = "failed"]
      /\ UNCHANGED <<alive, shut, snap, sharedVars, gameVars, histVars>>
  BY DEF HandshakeFails
<1>2. Silent(outbox', k) /\ got' \in [Conn -> SUBSET Frames]
  BY <1>1, OwnLeaves
<1>3. pc'[k] = "failed" /\ \A h \in Conn \ {k} : pc'[h] = pc[h]
  BY <1>0, <1>1 DEF TypeOK
<1>4. HandshakeIsAt(k) /\ OwnStep(k)
  BY <1>1, <1>2, <1>3 DEF HandshakeIsAt, OwnStep, sharedVars, gameVars, histVars
<1>5. outbox' \in Boxes /\ LocksGood' /\ OpenedGood' /\ RegistryGood'
  BY <1>4, OwnStepGood
<1>6. TypeOK'
  <2>1. pc' \in [Conn -> PCs]
    BY <1>0, <1>1 DEF TypeOK, PCs
  <2> QED BY <1>0, <1>1, <1>2, <1>5, <2>1
          DEF TypeOK, Boxes, Entry, sharedVars, gameVars, histVars
<1>7. GameGood' /\ AbandonedGood'
  BY <1>0, <1>1, <1>3
     DEF GameGood, AbandonedGood, NobodyServed, Playing, sharedVars, gameVars, histVars
<1> QED BY <1>5, <1>6, <1>7 DEF BaseInv

\* A step that touches no lock, and only the place of k among the connections.
LEMMA LocksUntouched ==
    ASSUME TypeOK, LocksGood, OpenedGood, UNCHANGED <<outbox, shut, opened, gpc>>,
           \A h \in Conn : /\ pc'[h] = "new" <=> pc[h] = "new"
                           /\ pc[h] \in {"replacing", "welcoming", "resending", "delivering"}
                                => pc'[h] = pc[h]
    PROVE  /\ LocksGood' /\ OpenedGood'
           /\ \A h \in Conn : Ousted(h)' <=> Ousted(h)
<1>1. \A h \in Conn, s \in Senders : Waits(h, s)' <=> Waits(h, s)
  BY DEF Waits
<1>2. \A h \in Conn : Ousted(h)' <=> Ousted(h)
  BY <1>1 DEF Ousted
<1>3. LocksGood'
  <2>1. \A h \in Conn, s \in Coroutines : Once(outbox', h, s)
    BY DEF LocksGood
  <2>2. \A h, g \in Conn, s \in Coroutines : Waits(h, s)' /\ Waits(g, s)' => h = g
    BY <1>1, Names DEF LocksGood
  <2>3. \A h \in Conn : Waits(h, TheGame)' => gpc' \in Sending
    BY <1>1, Names DEF LocksGood
  <2>4. \A k \in Conn : Waits(k, k)' => pc'[k] \in {"welcoming", "resending", "delivering"}
    BY <1>1, Names DEF LocksGood
  <2>5. \A h, k \in Conn : Waits(h, k)' /\ h # k => pc'[k] = "replacing"
    BY <1>1, Names DEF LocksGood
  <2> QED BY <2>1, <2>2, <2>3, <2>4, <2>5 DEF LocksGood
<1>4. OpenedGood'
  BY <1>1, ConnAssumption DEF OpenedGood
<1> QED BY <1>2, <1>3, <1>4

\* A handler leaves its loop only when its connection is shut or its client gone.
LEMMA LeaveLoopBase ==
    ASSUME BaseInv, NEW k \in Conn, LeaveLoop(k) PROVE BaseInv'
<1>0. TypeOK /\ LocksGood /\ OpenedGood /\ RegistryGood /\ GameGood /\ AbandonedGood
  BY DEF BaseInv
<1>1. /\ pc[k] = "serving" /\ pc' = [pc EXCEPT ![k] = "leaving"]
      /\ UNCHANGED <<alive, shut, snap, outbox, got, sharedVars, gameVars, histVars>>
  BY DEF LeaveLoop
<1>2. pc'[k] = "leaving" /\ \A h \in Conn \ {k} : pc'[h] = pc[h]
  BY <1>0, <1>1 DEF TypeOK
<1>3. LocksGood' /\ OpenedGood' /\ \A h \in Conn : Ousted(h)' <=> Ousted(h)
  BY <1>0, <1>1, <1>2, LocksUntouched DEF gameVars, histVars
<1>4. \A h \in Conn : /\ pc'[h] = "new" <=> pc[h] = "new"
                      /\ pc'[h] = "closed" <=> pc[h] = "closed"
                      /\ pc'[h] \in Serviced => pc[h] \in Serviced
  BY <1>1, <1>2 DEF Serviced
<1>5. RegistryGood'
  BY <1>0, <1>1, <1>3, <1>4, RegistryKept DEF sharedVars, histVars
<1>6. TypeOK'
  <2>1. pc' \in [Conn -> PCs]
    BY <1>0, <1>1 DEF TypeOK, PCs
  <2> QED BY <1>0, <1>1, <2>1 DEF TypeOK, sharedVars, gameVars, histVars
<1>7. GameGood' /\ AbandonedGood'
  BY <1>0, <1>1, <1>2
     DEF GameGood, AbandonedGood, NobodyServed, Playing, sharedVars, gameVars, histVars
<1> QED BY <1>3, <1>5, <1>6, <1>7 DEF BaseInv

\* A handler removes its session if it is still the live one, and looks whether both bots are gone.
LEMMA CleanUpBase ==
    ASSUME BaseInv, NEW k \in Conn, CleanUp(k) PROVE BaseInv'
<1>0. TypeOK /\ LocksGood /\ OpenedGood /\ RegistryGood /\ GameGood /\ AbandonedGood
  BY DEF BaseInv
<1>1. /\ pc[k] = "leaving" /\ pc' = [pc EXCEPT ![k] = "closed"]
      /\ current' = IF current[Owner[k]] = k THEN [current EXCEPT ![Owner[k]] = None] ELSE current
      /\ UNCHANGED <<alive, shut, snap, outbox, got, seat, bound, recent, gpc, state, ply, board,
                     opened, gap>>
  BY DEF CleanUp
<1>2. pc'[k] = "closed" /\ \A h \in Conn \ {k} : pc'[h] = pc[h]
  BY <1>0, <1>1 DEF TypeOK
<1>3. LocksGood' /\ OpenedGood' /\ \A h \in Conn : Ousted(h)' <=> Ousted(h)
  BY <1>0, <1>1, <1>2, LocksUntouched
<1>4. /\ current' \in [Color -> Conn \cup {None}]
      /\ \A d \in Color : current'[d] = IF current[d] = k THEN None ELSE current[d]
  <2>1. \A d \in Color : current[d] = k => d = Owner[k]
    BY <1>0, Names DEF RegistryGood
  <2> QED BY <1>0, <1>1, <2>1, ConnAssumption DEF TypeOK
<1>5. RegistryGood'
  <2>1. ASSUME NEW d \in Color, current'[d] # None
        PROVE  /\ Owner[current'[d]] = d /\ pc'[current'[d]] \notin {"new", "closed"}
               /\ \A h \in ConnsOf(d) : pc'[h] # "new" /\ h # current'[d] => Newer(current[d], h)'
    <3>1. current'[d] = current[d] /\ current[d] \in Conn \ {k}
      BY <2>1, <1>0, <1>4 DEF TypeOK
    <3> QED BY <3>1, <2>1, <1>0, <1>1, <1>2 DEF RegistryGood, ConnsOf, Newer
  <2>2. \A h \in Conn : Ousted(h)' => current'[Owner[h]] # h
    BY <1>0, <1>3, <1>4, ConnAssumption, Names DEF RegistryGood
  <2>3. \A h \in Conn : pc'[h] \in Serviced /\ ~Ousted(h)' => current'[Owner[h]] = h
    BY <1>0, <1>2, <1>3, <1>4, ConnAssumption DEF RegistryGood, Serviced
  <2>4. \A d \in Color : Owner[seat'[d]] = d /\ pc'[seat'[d]] # "new"
    BY <1>0, <1>1, <1>2 DEF RegistryGood, TypeOK
  <2> QED BY <2>1, <2>2, <2>3, <2>4 DEF RegistryGood, Serviced
<1>6. TypeOK'
  <2>1. pc' \in [Conn -> PCs]
    BY <1>0, <1>1 DEF TypeOK, PCs
  <2>2. abort' \in BOOLEAN /\ early' \in BOOLEAN
    BY <1>0 DEF CleanUp, TypeOK
  <2> QED BY <1>0, <1>1, <1>4, <2>1, <2>2 DEF TypeOK
<1>7. GameGood'
  BY <1>0, <1>1 DEF GameGood, Playing
<1>8. AbandonedGood'
  <2> SUFFICES ASSUME state' \in {"paired", "in_progress"}, NobodyServed', ~early'
               PROVE  abort'
    BY DEF AbandonedGood
  <2>1. \A d \in Color : current'[d] = None
    <3> SUFFICES ASSUME NEW d \in Color, current'[d] # None PROVE FALSE
      OBVIOUS
    <3>1. pc'[current'[d]] \notin {"new", "closed"} /\ current'[d] \in Conn
      BY <1>4, <1>5 DEF RegistryGood
    <3> QED BY <3>1 DEF NobodyServed
  <2>2. bound
    BY <1>0, <1>1 DEF GameGood, Playing
  <2> QED BY <1>1, <2>1, <2>2 DEF CleanUp
<1> QED BY <1>3, <1>5, <1>6, <1>7, <1>8 DEF BaseInv

\* A client vanishes: the server has not noticed.
LEMMA ClientGoneBase ==
    ASSUME BaseInv, NEW k \in Conn, ClientGone(k) PROVE BaseInv'
<1>0. TypeOK /\ LocksGood /\ OpenedGood /\ RegistryGood /\ GameGood /\ AbandonedGood
  BY DEF BaseInv
<1>1. UNCHANGED <<pc, shut, snap, outbox, got, sharedVars, gameVars, histVars>>
  BY DEF ClientGone
<1>2. LocksGood' /\ OpenedGood' /\ \A h \in Conn : Ousted(h)' <=> Ousted(h)
  BY <1>0, <1>1, LocksUntouched DEF gameVars, histVars
<1>3. RegistryGood'
  BY <1>0, <1>1, <1>2, RegistryKept DEF sharedVars, histVars
<1>4. TypeOK'
  BY <1>0, <1>1 DEF ClientGone, TypeOK, sharedVars, gameVars, histVars
<1>5. GameGood' /\ AbandonedGood'
  BY <1>0, <1>1
     DEF GameGood, AbandonedGood, NobodyServed, Playing, sharedVars, gameVars, histVars
<1> QED BY <1>2, <1>3, <1>4, <1>5 DEF BaseInv

\* A step that only adds or removes the frame of a rotation at the lock of k.
LEMMA RotationStep ==
    ASSUME TypeOK, LocksGood, OpenedGood, NEW k \in Conn, pc[k] # "new", outbox' \in Boxes,
           UNCHANGED <<pc, opened, gpc>>,
           \A h \in Conn \ {k} : shut'[h] = shut[h],
           \A h \in Conn, s \in Coroutines : Sent(outbox', h, s) = Sent(outbox, h, s),
           \A h \in Conn \ {k} : Sent(outbox', h, Rotation) = Sent(outbox, h, Rotation),
           \A h \in Conn, s \in Coroutines : Once(outbox', h, s)
    PROVE  /\ LocksGood' /\ OpenedGood'
           /\ \A h \in Conn \ {k} : Ousted(h)' <=> Ousted(h)
           /\ \A s \in Coroutines : Waits(k, s)' <=> Waits(k, s)
<1>1. \A h \in Conn, s \in Coroutines : Waits(h, s)' <=> Waits(h, s)
  BY DEF Waits
<1>2. \A h \in Conn \ {k}, s \in Senders : Waits(h, s)' <=> Waits(h, s)
  BY <1>1, Names DEF Waits
<1>3. \A h \in Conn \ {k} : Ousted(h)' <=> Ousted(h)
  BY <1>2 DEF Ousted
<1>4. LocksGood'
  <2>1. \A h, g \in Conn, s \in Coroutines : Waits(h, s)' /\ Waits(g, s)' => h = g
    BY <1>1 DEF LocksGood
  <2>2. \A h \in Conn : Waits(h, TheGame)' => gpc' \in Sending
    BY <1>1, Names DEF LocksGood
  <2>3. \A g \in Conn : Waits(g, g)' => pc'[g] \in {"welcoming", "resending", "delivering"}
    BY <1>1, Names DEF LocksGood
  <2>4. \A h, g \in Conn : Waits(h, g)' /\ h # g => pc'[g] = "replacing"
    BY <1>1, Names DEF LocksGood
  <2> QED BY <2>1, <2>2, <2>3, <2>4 DEF LocksGood
<1>5. OpenedGood'
  BY <1>2, ConnAssumption DEF OpenedGood
<1> QED BY <1>1, <1>3, <1>4, <1>5

\* A rotation takes the live session out of the registry and joins its lock.
LEMMA RotateKeyBase ==
    ASSUME BaseInv, NEW c \in Color, RotateKey(c) PROVE BaseInv'
<1>0. TypeOK /\ LocksGood /\ OpenedGood /\ RegistryGood /\ GameGood /\ AbandonedGood
  BY DEF BaseInv
<1> DEFINE m == Plain("session_replaced")
<1>a. PICK k \in Conn : k = current[c]
  BY <1>0 DEF RotateKey, TypeOK
<1>1. /\ pc[k] # "new" /\ Owner[k] = c /\ m \in Frames
      /\ outbox' = Enqueue(outbox, k, Rotation, m) /\ current' = [current EXCEPT ![c] = None]
      /\ UNCHANGED <<pc, alive, shut, snap, got, seat, bound, recent, gameVars, histVars>>
  <2>1. pc[k] # "new" /\ Owner[k] = c
    BY <1>0, <1>a DEF RotateKey, RegistryGood
  <2> QED BY <2>1, <1>0, <1>a, FramesOfTurn DEF RotateKey
<1>2. /\ outbox' \in Boxes
      /\ \A h \in Conn, s \in Senders :
            Sent(outbox', h, s) = Sent(outbox, h, s) \cup (IF h = k /\ s = Rotation THEN {m} ELSE {})
      /\ \A h \in Conn, s \in Senders :
            Once(outbox, h, s) /\ (h = k /\ s = Rotation => Sent(outbox, h, s) = {})
              => Once(outbox', h, s)
  <2> DEFINE new == Enqueue(outbox, k, Rotation, m)
  <2>1. outbox \in Boxes /\ Rotation \in Senders /\ m \in Frames /\ outbox' = new
    BY <1>0, <1>1, OutboxIsBoxes, Names
  <2> HIDE DEF m
  <2>2. /\ new \in Boxes
        /\ \A h \in Conn, s \in Senders :
              Sent(new, h, s) = Sent(outbox, h, s) \cup (IF h = k /\ s = Rotation THEN {m} ELSE {})
        /\ \A h \in Conn, s \in Senders :
              Once(outbox, h, s) /\ (h = k /\ s = Rotation => Sent(outbox, h, s) = {})
                => Once(new, h, s)
    BY <2>1, EnqueueGood
  <2> HIDE DEF new
  <2> QED BY <2>1, <2>2
<1> HIDE DEF m
<1>3. /\ \A h \in Conn, s \in Coroutines : Sent(outbox', h, s) = Sent(outbox, h, s)
      /\ \A h \in Conn \ {k} : Sent(outbox', h, Rotation) = Sent(outbox, h, Rotation)
      /\ \A h \in Conn, s \in Coroutines : Once(outbox', h, s)
      /\ Waits(k, Rotation)'
  <2>1. \A h \in Conn, s \in Coroutines : Sent(outbox', h, s) = Sent(outbox, h, s) \cup {}
    BY <1>2, Names
  <2>2. \A h \in Conn \ {k} : Sent(outbox', h, Rotation) = Sent(outbox, h, Rotation) \cup {}
    BY <1>2, Names
  <2>3. \A h \in Conn, s \in Coroutines : Once(outbox', h, s)
    BY <1>0, <1>2, Names DEF LocksGood
  <2>4. Waits(k, Rotation)'
    BY <1>1, <1>2, Names DEF Waits
  <2> QED BY <2>1, <2>2, <2>3, <2>4
<1>4. /\ LocksGood' /\ OpenedGood'
      /\ \A h \in Conn \ {k} : Ousted(h)' <=> Ousted(h)
  BY <1>0, <1>1, <1>2, <1>3, RotationStep DEF gameVars, histVars
<1>5. Ousted(k)'
  BY <1>1, <1>3, Names DEF Ousted
<1>6. current'[c] = None /\ \A d \in Color \ {c} : current'[d] = current[d]
  BY <1>0, <1>1 DEF TypeOK
<1>7. RegistryGood'
  <2>1. ASSUME NEW d \in Color, current'[d] # None
        PROVE  /\ Owner[current'[d]] = d /\ pc'[current'[d]] \notin {"new", "closed"}
               /\ \A h \in ConnsOf(d) : pc'[h] # "new" /\ h # current'[d] => Newer(current[d], h)'
    BY <2>1, <1>0, <1>1, <1>6 DEF RegistryGood, ConnsOf, Newer, histVars
  <2>2. \A h \in Conn : Ousted(h)' => current'[Owner[h]] # h
    BY <1>0, <1>1, <1>4, <1>6, ConnAssumption, Names DEF RegistryGood
  <2>3. ASSUME NEW h \in Conn, pc'[h] \in Serviced, ~Ousted(h)' PROVE current'[Owner[h]] = h
    <3>1. h # k
      BY <2>3, <1>5
    <3>2. current[Owner[h]] = h
      BY <2>3, <3>1, <1>0, <1>1, <1>4 DEF RegistryGood, Serviced
    <3>3. Owner[h] # c
      BY <3>1, <3>2, <1>a
    <3> QED BY <3>2, <3>3, <1>6, ConnAssumption
  <2>4. \A d \in Color : Owner[seat'[d]] = d /\ pc'[seat'[d]] # "new"
    BY <1>0, <1>1 DEF RegistryGood
  <2> QED BY <2>1, <2>2, <2>3, <2>4 DEF RegistryGood, Serviced
<1>8. TypeOK'
  BY <1>0, <1>1, <1>2 DEF TypeOK, Boxes, Entry, gameVars, histVars
<1>9. GameGood' /\ AbandonedGood'
  BY <1>0, <1>1 DEF GameGood, AbandonedGood, NobodyServed, Playing, gameVars, histVars
<1> QED BY <1>4, <1>7, <1>8, <1>9 DEF BaseInv

\* The evicted session is shut.
LEMMA EvictedBase ==
    ASSUME BaseInv, NEW k \in Conn, NEW ok \in BOOLEAN, Evicted(k, ok) PROVE BaseInv'
<1>0. TypeOK /\ LocksGood /\ OpenedGood /\ RegistryGood /\ GameGood /\ AbandonedGood
  BY DEF BaseInv
<1>1. /\ Completes(k, Rotation, ok) /\ outbox' = [outbox EXCEPT ![k] = Tail(@)]
      /\ outbox[k] # <<>> /\ Head(outbox[k]).by = Rotation
      /\ shut' = [shut EXCEPT ![k] = TRUE]
      /\ UNCHANGED <<pc, alive, snap, sharedVars, gameVars, histVars>>
  BY DEF Evicted, Completes, Dequeued
<1>2. /\ outbox' \in Boxes /\ Head(outbox[k]).msg \in Frames
      /\ Head(outbox[k]).msg \in Sent(outbox, k, Rotation)
      /\ \A h \in Conn, s \in Senders : h # k \/ s # Rotation => Sent(outbox', h, s) = Sent(outbox, h, s)
      /\ \A h \in Conn, s \in Senders : Once(outbox, h, s) => Once(outbox', h, s)
  <2> DEFINE new == [outbox EXCEPT ![k] = Tail(@)]
             who == Head(outbox[k]).by
             m == Head(outbox[k]).msg
  <2>1. /\ new \in Boxes /\ m \in Frames /\ m \in Sent(outbox, k, who)
        /\ \A h \in Conn, s \in Senders : h # k \/ s # who => Sent(new, h, s) = Sent(outbox, h, s)
        /\ \A h \in Conn, s \in Senders : Once(outbox, h, s) => Once(new, h, s)
    BY <1>0, <1>1, DequeueGood, OutboxIsBoxes
  <2>2. who = Rotation /\ outbox' = new
    BY <1>1
  <2> HIDE DEF who, new, m
  <2>3. /\ outbox' \in Boxes /\ m \in Frames /\ m \in Sent(outbox, k, Rotation)
        /\ \A h \in Conn, s \in Senders : h # k \/ s # Rotation => Sent(outbox', h, s) = Sent(outbox, h, s)
        /\ \A h \in Conn, s \in Senders : Once(outbox, h, s) => Once(outbox', h, s)
    BY <2>1, <2>2
  <2> QED BY <2>3 DEF m
<1>3. /\ \A h \in Conn, s \in Coroutines : Sent(outbox', h, s) = Sent(outbox, h, s)
      /\ \A h \in Conn \ {k} : Sent(outbox', h, Rotation) = Sent(outbox, h, Rotation)
      /\ \A h \in Conn, s \in Coroutines : Once(outbox', h, s)
      /\ Waits(k, Rotation)
  BY <1>0, <1>2, Names DEF LocksGood, Waits
<1>4. Ousted(k) /\ pc[k] # "new"
  BY <1>0, <1>3, Names DEF Ousted, OpenedGood
<1>5. shut'[k] /\ \A h \in Conn \ {k} : shut'[h] = shut[h]
  BY <1>0, <1>1 DEF TypeOK
<1>6. /\ LocksGood' /\ OpenedGood'
      /\ \A h \in Conn \ {k} : Ousted(h)' <=> Ousted(h)
  BY <1>0, <1>1, <1>2, <1>3, <1>4, <1>5, RotationStep DEF gameVars, histVars
<1>7. \A h \in Conn : Ousted(h)' <=> Ousted(h)
  BY <1>4, <1>5, <1>6 DEF Ousted
<1>8. RegistryGood'
  BY <1>0, <1>1, <1>7, RegistryKept DEF sharedVars, histVars
<1>9. TypeOK'
  <2>1. got' \in [Conn -> SUBSET Frames]
    BY <1>0, <1>1, <1>2, GotGood
  <2> QED BY <1>0, <1>1, <1>2, <2>1 DEF TypeOK, Boxes, Entry, sharedVars, gameVars, histVars
<1>10. GameGood' /\ AbandonedGood'
  BY <1>0, <1>1
     DEF GameGood, AbandonedGood, NobodyServed, Playing, sharedVars, gameVars, histVars
<1> QED BY <1>6, <1>8, <1>9, <1>10 DEF BaseInv

-----------------------------------------------------------------------------
(* The theorems about the registry and the seats. *)

\* Both bots are served, and the game is at White's lock.
LEMMA InitBase == Init => BaseInv
<1> SUFFICES ASSUME Init PROVE BaseInv
  OBVIOUS
<1>1. /\ First["white"] \in Conn /\ First["black"] \in Conn
      /\ Owner[First["white"]] = "white" /\ Owner[First["black"]] = "black"
      /\ First \in [Color -> Conn] /\ {First[c] : c \in Color} = {First["white"], First["black"]}
  BY ConnAssumption DEF Color
<1> DEFINE start == [by |-> TheGame, msg |-> Plain("game_start")]
<1>2. start \in Entry /\ start.by = TheGame
  BY MaxPlyAssumption DEF Entry, Senders, Frames, Types, Plain, Frame
<1>3. /\ outbox[First["white"]] = <<start>>
      /\ \A h \in Conn : h # First["white"] => outbox[h] = <<>>
  BY <1>1 DEF Init
<1>4. TypeOK
  <2>1. outbox \in Boxes
    BY <1>1, <1>2 DEF Init, Boxes
  <2>2. opened \in Seq(Conn)
    BY <1>1 DEF Init
  <2>3. /\ current \in [Color -> Conn \cup {None}] /\ seat \in [Color -> Conn]
        /\ pc \in [Conn -> PCs]
    BY <1>1 DEF Init, PCs
  <2>4. /\ alive \in [Conn -> BOOLEAN] /\ shut \in [Conn -> BOOLEAN]
        /\ snap \in [Conn -> [active : BOOLEAN, to_move : Color \cup {None}]]
        /\ got \in [Conn -> SUBSET Frames]
    BY DEF Init, NoResume
  <2>5. ply \in 0 .. MaxPly /\ board \in 0 .. MaxPly
    BY MaxPlyAssumption DEF Init
  <2> QED BY <2>1, <2>2, <2>3, <2>4, <2>5 DEF Init, TypeOK, Boxes, Entry
<1> HIDE DEF start
<1>5. \A h \in Conn, s \in Senders : Waits(h, s) => h = First["white"] /\ s = TheGame
  <2> TAKE h \in Conn, s \in Senders
  <2> HAVE Waits(h, s)
  <2>1. PICK i \in 1 .. Len(outbox[h]) : outbox[h][i].by = s
    BY DEF Waits, Sent
  <2>2. h = First["white"]
    BY <2>1, <1>3
  <2>3. i = 1 /\ outbox[h][1] = start
    BY <2>1, <2>2, <1>3
  <2> QED BY <2>1, <2>2, <2>3, <1>2
<1>6. LocksGood
  <2>1. ASSUME NEW h \in Conn, NEW s \in Coroutines PROVE Once(outbox, h, s)
    <3>1. outbox[h] = <<start>> \/ outbox[h] = <<>>
      BY <1>3
    <3>2. Len(<<start>>) = 1 /\ Len(<<>>) = 0
      OBVIOUS
    <3>3. Len(outbox[h]) = 1 \/ Len(outbox[h]) = 0
      BY <3>1, <3>2
    <3>4. \A i \in 1 .. Len(outbox[h]) : i = 1
      <4>1. \A n \in {0, 1} : \A i \in 1 .. n : i = 1
        OBVIOUS
      <4> QED BY <3>3, <4>1
    <3> QED BY <3>4 DEF Once
  <2> QED BY <2>1, <1>5, Names DEF LocksGood, Init, Sending
<1>7. \A h \in Conn : pc[h] = IF h \in {First["white"], First["black"]} THEN "serving" ELSE "new"
  BY <1>1 DEF Init
<1>8. OpenedGood
  <2>1. \A h \in Conn : pc[h] = "new" => ~shut[h] /\ \A s \in Senders : ~Waits(h, s)
    BY <1>5, <1>7 DEF Init
  <2>2. \A c \in Color : pc[First[c]] # "new"
    BY <1>1, <1>7 DEF Color
  <2>3. \A h \in Conn : pc[h] # "new" <=> \E i \in 1 .. Len(opened) : opened[i] = h
    <3>1. Len(opened) = 2 /\ opened[1] = First["white"] /\ opened[2] = First["black"]
      BY DEF Init
    <3>2. 1 \in 1 .. 2 /\ 2 \in 1 .. 2 /\ \A i \in 1 .. 2 : i = 1 \/ i = 2
      OBVIOUS
    <3> QED BY <3>1, <3>2, <1>7
  <2> QED BY <2>1, <2>2, <2>3 DEF OpenedGood
<1>9. RegistryGood
  <2>1. \A h \in Conn : ~Ousted(h)
    BY <1>5 DEF Ousted, Init
  <2>2. \A c \in Color : /\ Owner[First[c]] = c /\ pc[First[c]] = "serving"
                         /\ \A h \in ConnsOf(c) : pc[h] # "new" => h = First[c]
    BY <1>1, <1>7 DEF ConnsOf, Color
  <2>3. \A h \in Conn : pc[h] # "new" => First[Owner[h]] = h
    BY <1>1, <1>7
  <2> QED BY <2>1, <2>2, <2>3 DEF RegistryGood, Init
<1>10. GameGood /\ AbandonedGood
  BY <1>1, <1>7, MaxPlyAssumption DEF Init, GameGood, AbandonedGood, NobodyServed, Playing
<1> QED BY <1>4, <1>6, <1>8, <1>9, <1>10 DEF BaseInv

\* Nothing happens.
LEMMA StutterBase ==
    ASSUME BaseInv, UNCHANGED vars PROVE BaseInv'
<1>0. TypeOK /\ LocksGood /\ OpenedGood /\ RegistryGood /\ GameGood /\ AbandonedGood
  BY DEF BaseInv
<1>1. UNCHANGED <<connVars, sharedVars, gameVars, histVars>>
  BY DEF vars
<1>2. LocksGood' /\ OpenedGood' /\ \A h \in Conn : Ousted(h)' <=> Ousted(h)
  BY <1>0, <1>1, LocksUntouched DEF connVars, gameVars, histVars
<1>3. RegistryGood'
  BY <1>0, <1>1, <1>2, RegistryKept DEF connVars, sharedVars, histVars
<1>4. TypeOK'
  BY <1>0, <1>1 DEF TypeOK, connVars, sharedVars, gameVars, histVars
<1>5. GameGood' /\ AbandonedGood'
  BY <1>0, <1>1 DEF GameGood, AbandonedGood, NobodyServed, connVars, sharedVars, gameVars, histVars
<1> QED BY <1>2, <1>3, <1>4, <1>5 DEF BaseInv

\* Every step keeps the invariant.
LEMMA NextBase ==
    ASSUME BaseInv, [Next]_vars PROVE BaseInv'
<1>1. CASE GameRuns \/ Flag \/ RunGameRaises
  BY <1>1, StartGameBase, AskTurnBase, NextTurnBase, EndTurnBase, FinalizedBase, UnbindBase,
     RunGameRaisesBase DEF GameRuns, Flag, Abort
<1>2. CASE \E k \in Conn, ok \in BOOLEAN : GameSent(k, ok) \/ Evicted(k, ok)
  BY <1>2, GameStartSentBase, TurnSentBase, MoveConfirmedBase, GameOverSentBase, EvictedBase
     DEF GameSent
<1>3. CASE \E k \in Conn : Handshake(k) \/ LeaveLoop(k) \/ CleanUp(k)
  BY <1>3, ReplacedBase, WelcomedBase, TurnResentBase, MissedDeliveredBase, HandshakeFailsBase,
     LeaveLoopBase, CleanUpBase DEF Handshake
<1>4. CASE \E k \in Conn : Register(k) \/ BotMoves(k) \/ ClientGone(k)
  BY <1>4, RegisterBase, BotMovesBase, ClientGoneBase
<1>5. CASE \E c \in Color : RotateKey(c)
  BY <1>5, RotateKeyBase
<1>6. CASE UNCHANGED vars
  BY <1>6, StutterBase
<1> QED BY <1>1, <1>2, <1>3, <1>4, <1>5, <1>6 DEF Next

\* Whatever connections open, overlap, fail and leave, and whatever the game does
\* meanwhile: every coroutine waits at one lock at most, the one its pc tells; a
\* connection that is not registered is shut, being closed, or on its way out; and
\* nobody leaves a running game unnoticed.  This is what registering, rotation and
\* clean-up of bot_ws keep true of one another.
THEOREM RegistryInvariant == Spec => []BaseInv
<1>1. Init => BaseInv
  BY InitBase
<1>2. BaseInv /\ [Next]_vars => BaseInv'
  BY NextBase
<1> QED BY <1>1, <1>2, PTL DEF Spec

\* Every variable has its type.
THEOREM TypeCorrect == Spec => []TypeOK
<1>1. BaseInv => TypeOK
  BY DEF BaseInv
<1> QED BY <1>1, RegistryInvariant, PTL

\* A connection that is not ousted is the one in the registry (session_registry.py),
\* whatever handshakes, clean-ups and rotations overlap.
THEOREM ConnectedAreRegistered == Spec => []ConnectedBotsAreRegistered
<1>1. BaseInv => ConnectedBotsAreRegistered
  BY ClosedIsOusted DEF BaseInv, RegistryGood, ConnectedBotsAreRegistered
<1> QED BY <1>1, RegistryInvariant, PTL

\* Two bots that left a running game leave an aborted one (bot_endpoint.py:223-232).
THEOREM AbandonmentNoticed == Spec => []AbandonmentIsNoticed
<1>1. BaseInv => AbandonmentIsNoticed
  BY DEF BaseInv, AbandonedGood, AbandonmentIsNoticed
<1> QED BY <1>1, RegistryInvariant, PTL

\* Nobody is served when a game is aborted, but those the server is closing.
THEOREM AbortsAreDeserved == Spec => AbortNeedsBothGone
<1>1. ASSUME BaseInv, Next, abort', ~abort, NEW h \in Conn, pc'[h] = "serving"
      PROVE  shut[h] \/ BeingClosed(h)
  <2>1. PICK k \in Conn : CleanUp(k)
    BY <1>1 DEF Next, GameRuns, Flag, Abort, EndTurn, StartGame, AskTurn, NextTurn, Finalized,
                RunGameRaises, Unbind, GameSent, GameStartSent, TurnSent, MoveConfirmed, GameOverSent, Evicted,
                Handshake, Replaced, Welcomed, MissedDelivered, HandshakeFails, TurnResent,
                LeaveLoop, Register, BotMoves, ClientGone, RotateKey, gameVars
  <2>2. h # k /\ pc[h] = "serving" /\ \A d \in Color : current'[d] = None
    BY <1>1, <2>1 DEF CleanUp, BaseInv, TypeOK
  <2>3. current[Owner[h]] # h
    BY <2>1, <2>2, ConnAssumption, Names DEF CleanUp, BaseInv, TypeOK
  <2>4. Ousted(h)
    BY <1>1, <2>2, <2>3 DEF BaseInv, RegistryGood
  <2> QED BY <1>1, <2>4, ClosedIsOusted DEF BaseInv
<1>2. BaseInv /\ [Next]_vars =>
        [abort' /\ ~abort => \A k \in Conn : pc'[k] = "serving" => shut[k] \/ BeingClosed(k)]_vars
  BY <1>1
<1> QED BY <1>2, RegistryInvariant, PTL DEF Spec, AbortNeedsBothGone

\* A seat passes to the newest session, or to one that is being closed
\* (bot_endpoint.py:170-178, seat.py:66-74).
THEOREM SeatsPassToTheNewest == Spec => SeatGoesToTheNewest
<1>1. ASSUME BaseInv, Next, NEW c \in Color, seat'[c] # seat[c], ~BeingClosed(seat'[c])
      PROVE  Newer(seat'[c], seat[c])
  <2>0. TypeOK /\ RegistryGood
    BY <1>1 DEF BaseInv
  <2>1. PICK k \in Conn : Welcomed(k)
    BY <1>1 DEF Next, GameRuns, Flag, Abort, EndTurn, StartGame, AskTurn, NextTurn, Finalized,
                RunGameRaises, Unbind, GameSent, GameStartSent, TurnSent, MoveConfirmed, GameOverSent, Evicted,
                Handshake, Replaced, Welcomed, MissedDelivered, HandshakeFails, TurnResent,
                LeaveLoop, CleanUp, Register, BotMoves, ClientGone, RotateKey, sharedVars,
                connVars
  <2>2. c = Owner[k] /\ seat'[c] = k /\ pc[k] = "welcoming" /\ ~shut[k]
    BY <1>1, <2>0, <2>1 DEF Welcomed, Completes, TypeOK
  <2>3. current[c] = k
    BY <1>1, <2>0, <2>2, ClosedIsOusted DEF RegistryGood
  <2>4. seat[c] \in ConnsOf(c) /\ pc[seat[c]] # "new" /\ seat[c] # k
    BY <1>1, <2>0, <2>2 DEF RegistryGood, TypeOK, ConnsOf
  <2> QED BY <2>0, <2>2, <2>3, <2>4, Names DEF RegistryGood
<1>2. BaseInv /\ [Next]_vars =>
        [\A c \in Color : seat'[c] # seat[c] =>
            Newer(seat'[c], seat[c]) \/ BeingClosed(seat'[c])]_vars
  BY <1>1
<1> QED BY <1>2, RegistryInvariant, PTL DEF Spec, SeatGoesToTheNewest

-----------------------------------------------------------------------------
(* What the connected bots know: steps that leave the game where it is. *)

\* What a connection knows stays known while the game stays where it is.
LEMMA ConnKeeps ==
    ASSUME NEW h \in Conn, ConnGood(h), UNCHANGED <<gpc, ply, board, bound>>,
           gap \subseteq gap', \A g \in Conn : got[g] \subseteq got'[g],
           Sent(outbox', h, TheGame) = Sent(outbox, h, TheGame),
           Sent(outbox', h, h) = Sent(outbox, h, h),
           Here(h)' => Here(h),
           pc'[h] = "welcoming" => pc[h] = "welcoming" /\ snap'[h] = snap[h],
           pc'[h] = "delivering" => pc[h] = "delivering"
    PROVE  ConnGood(h)'
<1>1. MissedGood(h)'
  BY DEF ConnGood, MissedGood
<1>2. TurnGood(h)'
  BY DEF ConnGood, TurnGood
<1>3. Heard(Owner[h]) => Heard(Owner[h])'
  BY DEF Heard, ConnsOf
<1>4. OutcomeGood(h)'
  BY <1>3 DEF ConnGood, OutcomeGood, Told
<1> QED BY <1>1, <1>2, <1>4 DEF ConnGood

\* So do the game's frames.
LEMMA GameKeepsFrames ==
    ASSUME FramesGood, UNCHANGED <<gpc, ply, board>>,
           \A h \in Conn : Sent(outbox', h, TheGame) = Sent(outbox, h, TheGame)
    PROVE  FramesGood'
BY DEF FramesGood

\* The bots that still have to be told stay on record.
LEMMA RecentKept ==
    ASSUME RecentGood, UNCHANGED gpc, recent \subseteq recent', gap \subseteq gap',
           \A g \in Conn : got[g] \subseteq got'[g]
    PROVE  RecentGood'
<1>1. \A c \in Color : Heard(c) => Heard(c)'
  BY DEF Heard, ConnsOf
<1> QED BY <1>1 DEF RecentGood, ConnsOf

\* What reached a client does not leave it.
LEMMA GotGrows ==
    ASSUME TypeOK, NEW k \in Conn, NEW s, NEW ok, Completes(k, s, ok)
    PROVE  \A g \in Conn : got[g] \subseteq got'[g]
BY DEF TypeOK, Completes

\* A frame that is written to a client that is there reaches it, and a connected
\* session is not ousted: the write does not raise.
LEMMA WrittenIsGot ==
    ASSUME TypeOK, RegistryGood, NEW k \in Conn, NEW s, NEW ok \in BOOLEAN, Completes(k, s, ok),
           current[Owner[k]] = k, alive[k],
           Head(outbox[k]).msg.type \in {"your_turn", "game_over"}
    PROVE  Head(outbox[k]).msg \in got'[k]
<1>1. ~shut[k]
  BY DEF RegistryGood, Ousted
<1>2. ok
  BY <1>1 DEF Completes
<1> QED BY <1>2 DEF Completes, TypeOK

\* The snapshot of a handshake tells it the turn, or that the game is over.
LEMMA GreetKnows ==
    ASSUME BaseInv, NEW k \in Conn, NEW box, Greet(k, box), Silent(box, k),
           UNCHANGED <<gpc, ply, board, bound>>
    PROVE  ConnGood(k)' /\ gap \subseteq gap'
<1>0. TypeOK /\ GameGood
  BY DEF BaseInv
<1>1. /\ pc'[k] = "welcoming"
      /\ snap'[k] = IF bound THEN [active |-> TRUE, to_move |-> Turn(board)] ELSE NoResume
  BY <1>0 DEF Greet, TypeOK
<1>2. bound <=> snap'[k].active
  BY <1>0, <1>1 DEF NoResume, TypeOK
<1>3. MissedGood(k)'
  BY <1>1, <1>2 DEF MissedGood
<1>4. TurnGood(k)'
  <2>1. gpc \in {"asking", "waiting"} => bound
    BY <1>0 DEF GameGood
  <2>2. ~Here(k)'
    BY <1>1 DEF Here
  <2> QED BY <1>1, <2>1, <2>2 DEF TurnGood
<1>5. OutcomeGood(k)'
  <2>1. Told(Owner[k]) => state \in {"finished", "aborted"}
    BY <1>0 DEF Told, GameGood, TypeOK, Playing
  <2>2. Told(Owner[k]) /\ bound => <<k, GameOver>> \in gap'
    BY <2>1 DEF Greet
  <2>3. ~Here(k)' /\ (Told(Owner[k])' <=> Told(Owner[k]))
    BY <1>1 DEF Here, Told
  <2> QED BY <1>2, <2>2, <2>3 DEF OutcomeGood
<1>6. gap \subseteq gap'
  BY DEF Greet
<1> QED BY <1>3, <1>4, <1>5, <1>6 DEF ConnGood

\* The handshake of k is at a send, and what the others know is left alone.
LEMMA OthersKeep ==
    ASSUME IInv, NEW k \in Conn, Like(outbox', k), UNCHANGED <<gpc, ply, board, bound>>,
           gap \subseteq gap', \A g \in Conn : got[g] \subseteq got'[g],
           \A h \in Conn \ {k} : /\ pc'[h] = pc[h] /\ snap'[h] = snap[h] /\ alive'[h] = alive[h]
                                 /\ current'[Owner[h]] = h => current[Owner[h]] = h
    PROVE  FramesGood' /\ \A h \in Conn \ {k} : ConnGood(h)'
<1>1. \A h \in Conn : Sent(outbox', h, TheGame) = Sent(outbox, h, TheGame)
  BY Names DEF Like
<1>2. FramesGood'
  BY <1>1, GameKeepsFrames DEF IInv, KnowledgeGood
<1>3. ASSUME NEW h \in Conn \ {k} PROVE ConnGood(h)'
  <2>1. Sent(outbox', h, h) = Sent(outbox, h, h)
    BY Names DEF Like
  <2>2. Here(h)' => Here(h)
    BY DEF Here
  <2>3. ConnGood(h)
    BY DEF IInv, KnowledgeGood
  <2> QED BY <1>1, <2>1, <2>2, <2>3, ConnKeeps
<1> QED BY <1>2, <1>3

\* A connection registers: it knows nothing yet and owes nothing.
LEMMA RegisterKnows ==
    ASSUME IInv, NEW k \in Conn, Register(k) PROVE KnowledgeGood'
<1>0. BaseInv /\ TypeOK /\ RegistryGood /\ OpenedGood /\ RecentGood
  BY DEF IInv, BaseInv, KnowledgeGood
<1>1. Owner[k] \in Color /\ Silent(outbox, k) /\ Like(outbox', k)
  BY <1>0, RegisterJoins DEF Speaks
<1>2. /\ UNCHANGED <<gpc, ply, board, bound, recent, got, alive>> /\ pc[k] = "new"
      /\ current' = [current EXCEPT ![Owner[k]] = k]
  BY DEF Register, gameVars
<1>3. /\ \A h \in Conn \ {k} : pc'[h] = pc[h] /\ snap'[h] = snap[h]
      /\ ConnGood(k)' /\ gap \subseteq gap'
  <2>1. CASE Greet(k, outbox)
    <3>1. ConnGood(k)' /\ gap \subseteq gap'
      BY <2>1, <1>0, <1>1, <1>2, GreetKnows
    <3>2. \A h \in Conn \ {k} : pc'[h] = pc[h] /\ snap'[h] = snap[h]
      BY <2>1, <1>0 DEF Greet, TypeOK
    <3> QED BY <3>1, <3>2
  <2>2. CASE pc' = [pc EXCEPT ![k] = "replacing"] /\ UNCHANGED <<snap, gap>>
    <3>1. pc'[k] = "replacing" /\ ~Here(k)'
      BY <2>2, <1>0 DEF TypeOK, Here
    <3>2. ConnGood(k)'
      BY <3>1 DEF ConnGood, MissedGood, TurnGood, OutcomeGood
    <3> QED BY <2>2, <3>2, <1>0 DEF TypeOK
  <2> QED BY <2>1, <2>2 DEF Register
<1>4. \A h \in Conn \ {k} : current'[Owner[h]] = h => current[Owner[h]] = h
  BY <1>0, <1>1, <1>2, ConnAssumption DEF TypeOK
<1>5. FramesGood' /\ \A h \in Conn \ {k} : ConnGood(h)'
  BY <1>1, <1>2, <1>3, <1>4, OthersKeep
<1>6. RecentGood'
  BY <1>0, <1>2, <1>3, RecentKept
<1> QED BY <1>3, <1>5, <1>6 DEF KnowledgeGood

\* The older session is closed; the handshake reads the game.
LEMMA ReplacedKnows ==
    ASSUME IInv, NEW k \in Conn, NEW old \in Conn, NEW ok \in BOOLEAN, Replaced(k, old, ok)
    PROVE  KnowledgeGood'
<1>0. BaseInv /\ TypeOK /\ LocksGood /\ RecentGood
  BY DEF IInv, BaseInv, KnowledgeGood
<1>1. /\ Completes(old, k, ok) /\ Greet(k, Dequeued(old))
      /\ UNCHANGED <<gpc, ply, board, bound, recent, current, alive>>
  BY DEF Replaced, gameVars, sharedVars
<1>2. Silent(Dequeued(old), k)
  BY <1>0, <1>1, Leaves, Names
<1>3. Like(outbox', k)
  BY <1>0, <1>1, <1>2, GreetGood DEF Speaks
<1>4. ConnGood(k)' /\ gap \subseteq gap'
  BY <1>0, <1>1, <1>2, GreetKnows
<1>5. \A h \in Conn \ {k} : pc'[h] = pc[h] /\ snap'[h] = snap[h]
  BY <1>0, <1>1 DEF Greet, TypeOK
<1>6. \A g \in Conn : got[g] \subseteq got'[g]
  BY <1>0, <1>1, GotGrows
<1>7. FramesGood' /\ \A h \in Conn \ {k} : ConnGood(h)'
  BY <1>1, <1>3, <1>4, <1>5, <1>6, OthersKeep
<1>8. RecentGood'
  BY <1>0, <1>1, <1>4, <1>6, RecentKept
<1> QED BY <1>4, <1>7, <1>8 DEF KnowledgeGood

\* The step of a handshake that sends on its own socket only: what is left is k.
LEMMA OwnStepKnows ==
    ASSUME IInv, NEW k \in Conn, NEW ok \in BOOLEAN, Completes(k, k, ok), HandshakeIsAt(k),
           OwnStep(k), UNCHANGED <<gpc, ply, board, bound, alive>>, gap \subseteq gap',
           \A h \in Conn \ {k} : snap'[h] = snap[h]
    PROVE  FramesGood' /\ \A h \in Conn \ {k} : ConnGood(h)'
<1>0. TypeOK
  BY DEF IInv, BaseInv
<1>1. Like(outbox', k)
  BY DEF HandshakeIsAt, Silent, Speaks
<1>2. \A g \in Conn : got[g] \subseteq got'[g]
  BY <1>0, GotGrows
<1>3. \A h \in Conn \ {k} : pc'[h] = pc[h]
  BY <1>0 DEF OwnStep, TypeOK
<1>4. UNCHANGED current
  BY DEF OwnStep
<1> QED BY <1>1, <1>2, <1>3, <1>4, OthersKeep

\* The welcome is written: what was read decides what the bot is sent, and what
\* changed since it was read is marked in gap.
LEMMA WelcomedKnows ==
    ASSUME IInv, NEW k \in Conn, Welcomed(k) PROVE KnowledgeGood'
<1>0. BaseInv /\ TypeOK /\ GameGood /\ RecentGood /\ MissedGood(k) /\ TurnGood(k) /\ OutcomeGood(k)
  BY DEF IInv, BaseInv, KnowledgeGood, ConnGood
<1>1. /\ pc[k] = "welcoming" /\ Completes(k, k, TRUE)
      /\ snap' = [snap EXCEPT ![k] = NoResume]
      /\ UNCHANGED <<alive, shut, current, bound, recent, gpc, ply, board, opened, gap>>
      /\ seat' = seat \/ seat' = [seat EXCEPT ![Owner[k]] = k]
  BY DEF Welcomed, gameVars, histVars
<1>2. Silent(Dequeued(k), k)
  BY <1>1, OwnLeaves, <1>0
<1>3. \A g \in Conn : got[g] \subseteq got'[g]
  BY <1>0, <1>1, GotGrows
<1>4. RecentGood'
  BY <1>0, <1>1, <1>3, RecentKept
<1> DEFINE c == Owner[k]
<1>5. c \in Color /\ (gpc \in {"asking", "waiting"} => bound) /\ (~bound => gpc = "done")
  BY <1>0, ConnAssumption DEF GameGood
<1>6. \A h \in Conn \ {k} : snap'[h] = snap[h]
  BY <1>0, <1>1 DEF TypeOK
<1>7. HandshakeIsAt(k) /\ OwnStep(k) /\ ConnGood(k)'
  <2>1. CASE /\ snap[k].active /\ snap[k].to_move = c
             /\ pc' = [pc EXCEPT ![k] = "resending"]
             /\ outbox' = Enqueue(Dequeued(k), k, k, YourTurn(ply, board))
    <3>1. pc'[k] = "resending"
      BY <2>1, <1>0 DEF TypeOK
    <3>2. Speaks(outbox', k, k, YourTurn(ply, board)) /\ YourTurn(ply, board) \in Frames
      BY <2>1, <1>0, <1>2, FramesOfTurn, Joins, Names
    <3>3. HandshakeIsAt(k)
      BY <3>1, <3>2 DEF HandshakeIsAt
    <3>4. OwnStep(k)
      BY <2>1, <3>1, <1>1 DEF OwnStep
    <3>5. YourTurn(ply, board) \in Sent(outbox', k, k)
      BY <3>2 DEF Speaks
    <3>6. TurnGood(k)'
      BY <1>1, <3>1, <3>5 DEF TurnGood
    <3>7. OutcomeGood(k)'
      BY <1>0, <1>1, <2>1, <3>1 DEF OutcomeGood, Told
    <3> QED BY <3>1, <3>3, <3>4, <3>6, <3>7 DEF ConnGood, MissedGood
  <2>2. CASE /\ ~snap[k].active /\ c \in recent
             /\ pc' = [pc EXCEPT ![k] = "delivering"]
             /\ outbox' = Enqueue(Dequeued(k), k, k, GameOver)
    <3>1. pc'[k] = "delivering"
      BY <2>2, <1>0 DEF TypeOK
    <3>2. Speaks(outbox', k, k, GameOver) /\ GameOver \in Frames
      BY <2>2, <1>0, <1>2, FramesOfTurn, Joins, Names
    <3>3. HandshakeIsAt(k)
      BY <3>1, <3>2 DEF HandshakeIsAt
    <3>4. OwnStep(k)
      BY <2>2, <3>1, <1>1 DEF OwnStep
    <3>5. Sent(outbox', k, k) \subseteq {GameOver} /\ ~bound'
      BY <1>0, <1>1, <2>2, <3>2 DEF Speaks, MissedGood
    <3>6. ~Here(k)'
      BY <3>1 DEF Here
    <3> QED BY <3>1, <3>3, <3>4, <3>5, <3>6 DEF ConnGood, MissedGood, TurnGood, OutcomeGood
  <2>3. CASE /\ IF snap[k].active THEN snap[k].to_move # c ELSE c \notin recent
             /\ pc' = [pc EXCEPT ![k] = "serving"] /\ outbox' = Dequeued(k)
    <3>1. pc'[k] = "serving"
      BY <2>3, <1>0 DEF TypeOK
    <3>2. HandshakeIsAt(k)
      BY <2>3, <1>2 DEF HandshakeIsAt
    <3>3. OwnStep(k)
      BY <2>3, <3>1, <1>1 DEF OwnStep
    <3>4. TurnGood(k)'
      BY <1>0, <1>1, <1>5, <2>3, <3>1 DEF TurnGood, MissedGood
    <3>5. OutcomeGood(k)'
      <4>1. Heard(c) => Heard(c)'
        BY <1>3 DEF Heard, ConnsOf
      <4>2. ~snap[k].active => Heard(c) \/ <<k, GameOver>> \in gap
        BY <1>0, <1>1, <1>5, <2>3 DEF RecentGood, MissedGood, ConnsOf
      <4>3. Told(c)' <=> Told(c)
        BY <1>1 DEF Told
      <4> QED BY <1>0, <1>1, <3>1, <4>1, <4>2, <4>3 DEF OutcomeGood
    <3> QED BY <3>1, <3>2, <3>3, <3>4, <3>5 DEF ConnGood, MissedGood
  <2> QED BY <2>1, <2>2, <2>3 DEF Welcomed
<1>8. FramesGood' /\ \A h \in Conn \ {k} : ConnGood(h)'
  BY <1>1, <1>6, <1>7, OwnStepKnows
<1> QED BY <1>4, <1>7, <1>8 DEF KnowledgeGood

\* The repeated your_turn is written: the bot on move has it.
LEMMA TurnResentKnows ==
    ASSUME IInv, NEW k \in Conn, NEW ok \in BOOLEAN, TurnResent(k, ok) PROVE KnowledgeGood'
<1>0. BaseInv /\ TypeOK /\ RegistryGood /\ RecentGood /\ MissedGood(k) /\ TurnGood(k) /\ OutcomeGood(k)
  BY DEF IInv, BaseInv, KnowledgeGood, ConnGood
<1>1. /\ pc[k] = "resending" /\ Completes(k, k, ok) /\ outbox' = Dequeued(k)
      /\ pc' = [pc EXCEPT ![k] = "serving"]
      /\ UNCHANGED <<alive, shut, snap, current, seat, bound, recent, gpc, ply, board, opened, gap>>
  BY DEF TurnResent, sharedVars, gameVars, histVars
<1>2. Silent(outbox', k) /\ Sent(outbox, k, k) = {Head(outbox[k]).msg}
  BY <1>0, <1>1, OwnLeaves
<1>3. pc'[k] = "serving"
  BY <1>0, <1>1 DEF TypeOK
<1>4. HandshakeIsAt(k) /\ OwnStep(k)
  BY <1>1, <1>2, <1>3 DEF HandshakeIsAt, OwnStep
<1>5. \A g \in Conn : got[g] \subseteq got'[g]
  BY <1>0, <1>1, GotGrows
<1>6. FramesGood' /\ \A h \in Conn \ {k} : ConnGood(h)'
  BY <1>1, <1>4, OwnStepKnows
<1>7. RecentGood'
  BY <1>0, <1>1, <1>5, RecentKept
<1>8. Sent(outbox', k, TheGame) = Sent(outbox, k, TheGame)
  BY <1>2, Names DEF Silent, Like
<1>9. Here(k)' => Here(k)
  BY <1>1 DEF Here
<1>10. TurnGood(k)'
  <2> DEFINE y == YourTurn(ply, board)
  <2>1. ASSUME Here(k), y \in Sent(outbox, k, k) PROVE y \in got'[k]
    <3>1. Head(outbox[k]).msg = y /\ y.type = "your_turn"
      BY <2>1, <1>2 DEF YourTurn, Frame
    <3> QED BY <1>0, <1>1, <2>1, <3>1, WrittenIsGot DEF Here
  <2> QED BY <1>0, <1>1, <1>3, <1>5, <1>8, <1>9, <2>1 DEF TurnGood
<1>11. OutcomeGood(k)'
  <2>1. Heard(Owner[k]) => Heard(Owner[k])'
    BY <1>5 DEF Heard, ConnsOf
  <2> QED BY <1>0, <1>1, <1>3, <1>8, <1>9, <2>1 DEF OutcomeGood, Told
<1>12. ConnGood(k)'
  BY <1>3, <1>10, <1>11 DEF ConnGood, MissedGood
<1> QED BY <1>6, <1>7, <1>12 DEF KnowledgeGood

\* The missed game_over is written: the bot has it, or had vanished, which gap marks.
LEMMA MissedDeliveredKnows ==
    ASSUME IInv, NEW k \in Conn, MissedDelivered(k) PROVE KnowledgeGood'
<1>0. BaseInv /\ TypeOK /\ RegistryGood /\ GameGood /\ RecentGood /\ MissedGood(k)
  BY DEF IInv, BaseInv, KnowledgeGood, ConnGood
<1>1. /\ pc[k] = "delivering" /\ Completes(k, k, TRUE) /\ outbox' = Dequeued(k)
      /\ pc' = [pc EXCEPT ![k] = "serving"] /\ recent' = recent \ {Owner[k]}
      /\ gap' = IF alive[k] THEN gap ELSE gap \cup {<<h, GameOver>> : h \in ConnsOf(Owner[k])}
      /\ UNCHANGED <<alive, shut, snap, current, seat, bound, gpc, ply, board, opened>>
  BY DEF MissedDelivered, gameVars
<1>2. Silent(outbox', k) /\ Sent(outbox, k, k) = {Head(outbox[k]).msg}
  BY <1>0, <1>1, OwnLeaves
<1>3. pc'[k] = "serving"
  BY <1>0, <1>1 DEF TypeOK
<1>4. HandshakeIsAt(k) /\ OwnStep(k)
  BY <1>1, <1>2, <1>3 DEF HandshakeIsAt, OwnStep
<1>5. gap \subseteq gap' /\ \A g \in Conn : got[g] \subseteq got'[g]
  BY <1>0, <1>1, GotGrows
<1>6. FramesGood' /\ \A h \in Conn \ {k} : ConnGood(h)'
  BY <1>1, <1>4, <1>5, OwnStepKnows
<1>7. Head(outbox[k]).msg = GameOver /\ GameOver.type = "game_over"
  BY <1>0, <1>1, <1>2 DEF MissedGood, GameOver, Plain, Frame
<1>8. alive[k] => GameOver \in got'[k]
  BY <1>0, <1>1, <1>7 DEF Completes, TypeOK
<1>9. alive[k] => Heard(Owner[k])'
  BY <1>8 DEF Heard, ConnsOf
<1>10. RecentGood'
  <2>1. \A d \in Color : Heard(d) => Heard(d)'
    BY <1>5 DEF Heard, ConnsOf
  <2>2. ~alive[k] => \A h \in ConnsOf(Owner[k]) : <<h, GameOver>> \in gap'
    BY <1>1
  <2>3. ASSUME NEW d \in Color, gpc = "done", d \notin recent'
        PROVE  Heard(d)' \/ \A h \in ConnsOf(d) : <<h, GameOver>> \in gap'
    <3>1. CASE d = Owner[k]
      BY <3>1, <1>9, <2>2
    <3>2. CASE d # Owner[k]
      BY <3>2, <2>1, <2>3, <1>0, <1>1, <1>5 DEF RecentGood
    <3> QED BY <3>1, <3>2
  <2> QED BY <1>1, <2>3 DEF RecentGood, ConnsOf
<1>11. ConnGood(k)'
  <2>1. ~bound /\ gpc = "done"
    BY <1>0, <1>1 DEF MissedGood, GameGood
  <2>2. TurnGood(k)'
    BY <1>1, <2>1 DEF TurnGood
  <2>3. Here(k)' => Heard(Owner[k])'
    BY <1>1, <1>9 DEF Here
  <2> QED BY <1>3, <2>2, <2>3 DEF ConnGood, MissedGood, OutcomeGood
<1> QED BY <1>6, <1>10, <1>11 DEF KnowledgeGood

\* A handshake that raises serves nobody.
LEMMA HandshakeFailsKnows ==
    ASSUME IInv, NEW k \in Conn, HandshakeFails(k) PROVE KnowledgeGood'
<1>0. BaseInv /\ TypeOK /\ RecentGood
  BY DEF IInv, BaseInv, KnowledgeGood
<1>1. /\ pc[k] \in {"welcoming", "delivering"} /\ Completes(k, k, FALSE) /\ outbox' = Dequeued(k)
      /\ pc' = [pc EXCEPT ![k] = "failed"]
      /\ UNCHANGED <<alive, shut, snap, current, seat, bound, recent, gpc, ply, board, opened, gap>>
  BY DEF HandshakeFails, sharedVars, gameVars, histVars
<1>2. Silent(outbox', k)
  BY <1>0, <1>1, OwnLeaves
<1>3. pc'[k] = "failed" /\ ~Here(k)'
  BY <1>0, <1>1 DEF TypeOK, Here
<1>4. HandshakeIsAt(k) /\ OwnStep(k)
  BY <1>1, <1>2, <1>3 DEF HandshakeIsAt, OwnStep
<1>5. \A g \in Conn : got[g] \subseteq got'[g]
  BY <1>0, <1>1, GotGrows
<1>6. FramesGood' /\ \A h \in Conn \ {k} : ConnGood(h)'
  BY <1>1, <1>4, OwnStepKnows
<1>7. RecentGood'
  BY <1>0, <1>1, <1>5, RecentKept
<1>8. ConnGood(k)'
  BY <1>3 DEF ConnGood, MissedGood, TurnGood, OutcomeGood
<1> QED BY <1>6, <1>7, <1>8 DEF KnowledgeGood

\* A step after which nobody is connected who was not, and no frame of the game
\* or of a handshake moves: the end of a connection, or a rotation.
LEMMA QuietStepKnows ==
    ASSUME IInv, UNCHANGED <<gpc, ply, board, bound, recent, gap>>,
           \A g \in Conn : got[g] \subseteq got'[g],
           \A h \in Conn, s \in Coroutines : Sent(outbox', h, s) = Sent(outbox, h, s),
           \A h \in Conn : /\ Here(h)' => Here(h)
                           /\ pc'[h] = "welcoming" => pc[h] = "welcoming" /\ snap'[h] = snap[h]
                           /\ pc'[h] = "delivering" => pc[h] = "delivering"
    PROVE  KnowledgeGood'
<1>1. FramesGood'
  BY GameKeepsFrames, Names DEF IInv, KnowledgeGood
<1>2. RecentGood'
  BY RecentKept DEF IInv, KnowledgeGood
<1>3. ASSUME NEW h \in Conn PROVE ConnGood(h)'
  BY ConnKeeps, Names DEF IInv, KnowledgeGood
<1> QED BY <1>1, <1>2, <1>3 DEF KnowledgeGood

\* Leaving and cleaning up write nothing.
LEMMA LeavingKnows ==
    ASSUME IInv, NEW k \in Conn, LeaveLoop(k) \/ CleanUp(k) \/ ClientGone(k) PROVE KnowledgeGood'
<1>0. TypeOK /\ RegistryGood
  BY DEF IInv, BaseInv
<1>1. UNCHANGED <<gpc, ply, board, bound, recent, gap, got, outbox, snap>>
  BY DEF LeaveLoop, CleanUp, ClientGone, sharedVars, gameVars, histVars
<1>2. \A h \in Conn : pc'[h] = pc[h] \/ pc'[h] \in {"leaving", "closed"}
  BY <1>0 DEF LeaveLoop, CleanUp, ClientGone, TypeOK
<1>3. \A h \in Conn : alive'[h] => alive[h]
  BY <1>0 DEF LeaveLoop, CleanUp, ClientGone, TypeOK
<1>4. \A c \in Color, h \in Conn : current'[c] = h => current[c] = h
  <2>1. UNCHANGED current \/ current' = [current EXCEPT ![Owner[k]] = None]
    BY DEF LeaveLoop, CleanUp, ClientGone, sharedVars
  <2>2. current \in [Color -> Conn \cup {None}]
    BY <1>0 DEF TypeOK
  <2> QED BY <2>1, <2>2, Names, ConnAssumption
<1>5. \A h \in Conn : Here(h)' => Here(h)
  BY <1>2, <1>3, <1>4, ConnAssumption DEF Here
<1> QED BY <1>1, <1>2, <1>5, QuietStepKnows

\* A rotation takes a session out of the registry: nothing is claimed of it any more.
LEMMA RotateKeyKnows ==
    ASSUME IInv, NEW c \in Color, RotateKey(c) PROVE KnowledgeGood'
<1>0. TypeOK /\ RegistryGood
  BY DEF IInv, BaseInv
<1>1. PICK k \in Conn : k = current[c]
  BY <1>0 DEF RotateKey, TypeOK
<1>2. /\ outbox' = Enqueue(outbox, k, Rotation, Plain("session_replaced"))
      /\ current' = [current EXCEPT ![c] = None]
      /\ UNCHANGED <<gpc, ply, board, bound, recent, gap, got, pc, alive, snap>>
  BY <1>1 DEF RotateKey, gameVars, histVars
<1>3. \A h \in Conn, s \in Coroutines : Sent(outbox', h, s) = Sent(outbox, h, s) \cup {}
  <2> DEFINE m == Plain("session_replaced")
             new == Enqueue(outbox, k, Rotation, m)
  <2>1. outbox \in Boxes
    BY <1>0, OutboxIsBoxes
  <2>2. m \in Frames
    BY <1>0, FramesOfTurn
  <2>3. Rotation \in Senders /\ Rotation \notin Coroutines /\ Coroutines \subseteq Senders
    BY Names
  <2>4. outbox' = new
    BY <1>2
  <2> HIDE DEF m
  <2>5. \A h \in Conn, s \in Senders :
           Sent(new, h, s) = Sent(outbox, h, s) \cup (IF h = k /\ s = Rotation THEN {m} ELSE {})
    BY <2>1, <2>2, <2>3, EnqueueGood
  <2> HIDE DEF new
  <2>6. ASSUME NEW h \in Conn, NEW s \in Coroutines PROVE Sent(new, h, s) = Sent(outbox, h, s)
    <3>1. s \in Senders /\ s # Rotation
      BY <2>3
    <3>2. Sent(new, h, s) = Sent(outbox, h, s) \cup (IF h = k /\ s = Rotation THEN {m} ELSE {})
      BY <3>1, <2>5
    <3> QED BY <3>1, <3>2
  <2> QED BY <2>4, <2>6
<1>4. \A h \in Conn : Here(h)' => Here(h)
  BY <1>0, <1>2, Names, ConnAssumption DEF Here, TypeOK
<1>5. \A h \in Conn, s \in Coroutines : Sent(outbox', h, s) = Sent(outbox, h, s)
  BY <1>3
<1> QED BY <1>2, <1>4, <1>5, QuietStepKnows

\* The evicted session is shut.
LEMMA EvictedKnows ==
    ASSUME IInv, NEW k \in Conn, NEW ok \in BOOLEAN, Evicted(k, ok) PROVE KnowledgeGood'
<1>0. TypeOK
  BY DEF IInv, BaseInv
<1>1. /\ Completes(k, Rotation, ok) /\ outbox' = [outbox EXCEPT ![k] = Tail(@)]
      /\ outbox[k] # <<>> /\ Head(outbox[k]).by = Rotation
      /\ UNCHANGED <<gpc, ply, board, bound, recent, gap, pc, alive, snap, current>>
  BY DEF Evicted, Completes, Dequeued, sharedVars, gameVars, histVars
<1>2. \A h \in Conn, s \in Coroutines : Sent(outbox', h, s) = Sent(outbox, h, s)
  <2> DEFINE new == [outbox EXCEPT ![k] = Tail(@)]
             who == Head(outbox[k]).by
  <2>1. \A h \in Conn, s \in Senders : h # k \/ s # who => Sent(new, h, s) = Sent(outbox, h, s)
    BY <1>0, <1>1, DequeueGood, OutboxIsBoxes
  <2>2. who = Rotation /\ outbox' = new
    BY <1>1
  <2> HIDE DEF who, new
  <2> QED BY <2>1, <2>2, Names
<1>3. \A g \in Conn : got[g] \subseteq got'[g]
  BY <1>0, <1>1, GotGrows
<1>4. \A h \in Conn : Here(h)' => Here(h)
  BY <1>1 DEF Here
<1> QED BY <1>1, <1>2, <1>3, <1>4, QuietStepKnows

-----------------------------------------------------------------------------
(* What the connected bots know: steps of the game. *)

\* A step of the game leaves the handshakes where they are.
LEMMA GameStepKnows ==
    ASSUME IInv, Like(outbox', TheGame), UNCHANGED <<pc, alive, snap, current>>,
           bound' => bound, gap \subseteq gap', \A g \in Conn : got[g] \subseteq got'[g]
    PROVE  /\ \A h \in Conn : MissedGood(h)' /\ (Here(h)' <=> Here(h))
           /\ \A h \in Conn : Sent(outbox', h, h) = Sent(outbox, h, h)
           /\ \A c \in Color : Heard(c) => Heard(c)'
<1>1. \A h \in Conn : Sent(outbox', h, h) = Sent(outbox, h, h)
  BY Names DEF Like
<1>2. \A h \in Conn : MissedGood(h)'
  BY <1>1 DEF IInv, KnowledgeGood, ConnGood, MissedGood
<1>3. \A h \in Conn : Here(h)' <=> Here(h)
  BY DEF Here
<1> QED BY <1>1, <1>2, <1>3 DEF Heard, ConnsOf

\* Between a question's answer and the next question, and before the game is
\* over, nobody has to know anything.
LEMMA NothingToKnow ==
    ASSUME \A h \in Conn : MissedGood(h)',
           gpc' \notin {"asking", "waiting", "over_white", "over_black", "closing", "done"}
    PROVE  KnowledgeGood'
<1>1. \A c \in Color : ~Told(c)'
  BY DEF Told
<1>2. \A h \in Conn : Owner[h] \in Color
  BY ConnAssumption
<1> QED BY <1>1, <1>2
        DEF KnowledgeGood, FramesGood, RecentGood, ConnGood, TurnGood, OutcomeGood

\* A frame that the game addresses to c is at the lock of the connected session
\* of c, and at no handshake's expense, or it is in gap.
LEMMA Addressed ==
    ASSUME TypeOK, RegistryGood, NEW box, Silent(box, TheGame), NEW c \in Color,
           NEW m \in Frames, GameSends(box, c, m), UNCHANGED <<pc, alive, current>>
    PROVE  /\ gap \subseteq gap' /\ Like(outbox', TheGame)
           /\ \A h \in Conn : Sent(outbox', h, TheGame) \subseteq {m}
           /\ \A h \in ConnsOf(c) : <<h, m>> \notin gap' =>
                 pc[h] # "welcoming" /\ (Here(h)' => m \in Sent(outbox', h, TheGame))
<1>1. Speaks(outbox', TheGame, seat[c], m) /\ seat[c] \in Conn
  BY GameSendsGood
<1>2. gap' = gap \cup {<<h, m>> : h \in {g \in ConnsOf(c) : Misses(g)}}
  BY DEF GameSends
<1>3. ASSUME NEW h \in ConnsOf(c), <<h, m>> \notin gap'
      PROVE  pc[h] # "welcoming" /\ (Here(h)' => m \in Sent(outbox', h, TheGame))
  <2>1. ~Misses(h) /\ Owner[h] = c /\ h \in Conn
    BY <1>2, <1>3 DEF ConnsOf
  <2>2. Here(h)' => seat[c] = h
    BY <2>1 DEF Misses, Here
  <2> QED BY <1>1, <2>1, <2>2 DEF Misses, Speaks
<1> QED BY <1>1, <1>2, <1>3 DEF Speaks

\* The game asks the side on move: on the seat it has, or on none that could see it,
\* which gap marks.
LEMMA AsksKnows ==
    ASSUME IInv, Silent(outbox, TheGame), NEW y \in Frames, y = YourTurn(ply', board'),
           GameSends(outbox, Turn(board'), y), gpc' = "asking", Turn(board') \in Color,
           UNCHANGED <<pc, alive, snap, current, bound, got>>
    PROVE  KnowledgeGood'
<1>0. TypeOK /\ RegistryGood
  BY DEF IInv, BaseInv
<1>1. PICK c \in Color : c = Turn(board')
  OBVIOUS
<1>2. /\ gap \subseteq gap' /\ Like(outbox', TheGame)
      /\ \A h \in Conn : Sent(outbox', h, TheGame) \subseteq {y}
      /\ \A h \in ConnsOf(c) : <<h, y>> \notin gap' =>
            pc[h] # "welcoming" /\ (Here(h)' => y \in Sent(outbox', h, TheGame))
  <2>1. GameSends(outbox, c, y)
    BY <1>1
  <2> QED BY <1>0, <2>1, Addressed
<1>3. \A h \in Conn : MissedGood(h)'
  BY <1>2, GameStepKnows
<1>4. \A h \in Conn : TurnGood(h)'
  BY <1>1, <1>2 DEF TurnGood, ConnsOf
<1>5. \A h \in Conn : OutcomeGood(h)'
  <2>1. \A d \in Color : ~Told(d)'
    BY DEF Told
  <2> QED BY <2>1, ConnAssumption DEF OutcomeGood
<1>6. FramesGood' /\ RecentGood'
  BY <1>2 DEF FramesGood, RecentGood
<1> QED BY <1>3, <1>4, <1>5, <1>6 DEF KnowledgeGood, ConnGood

\* The first turn.
LEMMA AskTurnKnows == ASSUME IInv, AskTurn PROVE KnowledgeGood'
<1>0. TypeOK /\ LocksGood
  BY DEF IInv, BaseInv
<1>1. Silent(outbox, TheGame)
  BY <1>0, WasSilent, Names DEF AskTurn, Sending
<1>2. /\ gpc' = "asking" /\ GameSends(outbox, Turn(board), YourTurn(ply, board))
      /\ UNCHANGED <<pc, alive, snap, current, bound, got, ply, board>>
  BY DEF AskTurn, sharedVars
<1>3. Turn(board) \in Color /\ YourTurn(ply, board) \in Frames
  BY <1>0, FramesOfTurn
<1> QED BY <1>1, <1>2, <1>3, AsksKnows

\* The following turns, and the end after the last.
LEMMA NextTurnKnows == ASSUME IInv, NextTurn PROVE KnowledgeGood'
<1>0. TypeOK /\ LocksGood /\ GameGood
  BY DEF IInv, BaseInv
<1>1. Silent(outbox, TheGame)
  BY <1>0, WasSilent, Names DEF NextTurn, Sending
<1>2. UNCHANGED <<pc, alive, snap, current, bound, got, board>> /\ ply' = ply + 1
  BY DEF NextTurn, sharedVars
<1>3. CASE ply + 1 = MaxPly
  <2>1. UNCHANGED <<outbox, gap>> /\ gpc' = "finalizing"
    BY <1>3 DEF NextTurn
  <2>2. \A h \in Conn : MissedGood(h)'
    BY <1>1, <1>2, <2>1, GameStepKnows DEF Silent
  <2> QED BY <2>1, <2>2, NothingToKnow
<1>4. CASE ply + 1 # MaxPly
  <2>1. gpc' = "asking" /\ GameSends(outbox, Turn(board), YourTurn(ply + 1, board))
    BY <1>4 DEF NextTurn
  <2>2. ply \in Nat /\ ply < MaxPly /\ board \in 0 .. MaxPly
    BY <1>0 DEF NextTurn, GameGood, TypeOK
  <2>3. YourTurn(ply + 1, board) \in Frames /\ Turn(board) \in Color
    BY <1>0, <1>4, <2>2, MaxPlyAssumption, FramesOfTurn DEF YourTurn, Frame, Frames, Types
  <2> QED BY <1>1, <1>2, <2>1, <2>3, AsksKnows
<1> QED BY <1>3, <1>4

\* your_turn is written: the connection of the seat has it.
LEMMA TurnSentKnows ==
    ASSUME IInv, NEW k \in Conn, NEW ok \in BOOLEAN, TurnSent(k, ok) PROVE KnowledgeGood'
<1>0. TypeOK /\ LocksGood /\ RegistryGood
  BY DEF IInv, BaseInv
<1>1. /\ gpc = "asking" /\ gpc' = "waiting" /\ Completes(k, TheGame, ok) /\ outbox' = Dequeued(k)
      /\ UNCHANGED <<pc, alive, snap, current, bound, recent, gap, ply, board>>
  BY DEF TurnSent, sharedVars, histVars
<1>2. /\ Silent(outbox', TheGame)
      /\ \A h \in Conn : Sent(outbox, h, TheGame) = IF h = k THEN {Head(outbox[k]).msg} ELSE {}
  BY <1>0, <1>1, Leaves, Names
<1>3. \A g \in Conn : got[g] \subseteq got'[g]
  BY <1>0, <1>1, GotGrows
<1>4. /\ \A h \in Conn : MissedGood(h)' /\ (Here(h)' <=> Here(h))
      /\ \A h \in Conn : Sent(outbox', h, h) = Sent(outbox, h, h)
  BY <1>1, <1>2, <1>3, GameStepKnows DEF Silent
<1>5. ASSUME NEW h \in Conn PROVE TurnGood(h)'
  <2>1. TurnGood(h)
    BY DEF IInv, KnowledgeGood, ConnGood
  <2>2. PICK y : y = YourTurn(ply, board)
    OBVIOUS
  <2>3. ASSUME Here(h), y \in Sent(outbox, h, TheGame) PROVE y \in got'[h]
    <3>1. h = k /\ Head(outbox[k]).msg = y /\ y.type = "your_turn"
      BY <2>2, <2>3, <1>2 DEF YourTurn, Frame
    <3> QED BY <1>0, <1>1, <2>3, <3>1, WrittenIsGot DEF Here
  <2> QED BY <1>1, <1>3, <1>4, <2>1, <2>2, <2>3 DEF TurnGood
<1>6. \A h \in Conn : OutcomeGood(h)'
  <2>1. \A d \in Color : ~Told(d)'
    BY <1>1 DEF Told
  <2> QED BY <2>1, ConnAssumption DEF OutcomeGood
<1>7. FramesGood' /\ RecentGood'
  BY <1>1 DEF FramesGood, RecentGood
<1> QED BY <1>4, <1>5, <1>6, <1>7 DEF KnowledgeGood, ConnGood

\* The steps before the first question, and from an answer to the next one.
LEMMA QuietGameKnows ==
    ASSUME IInv, Like(outbox', TheGame), UNCHANGED <<pc, alive, snap, current, bound>>,
           gap \subseteq gap', \A g \in Conn : got[g] \subseteq got'[g],
           gpc' \notin {"asking", "waiting", "over_white", "over_black", "closing", "done"}
    PROVE  KnowledgeGood'
BY GameStepKnows, NothingToKnow

\* game_start tells nothing that is claimed.
LEMMA GameStartSentKnows ==
    ASSUME IInv, NEW k \in Conn, NEW ok \in BOOLEAN, GameStartSent(k, ok) PROVE KnowledgeGood'
<1>0. TypeOK /\ LocksGood
  BY DEF IInv, BaseInv
<1>1. /\ Completes(k, TheGame, ok) /\ gpc' \in {"start_black", "paired", "stranded"}
      /\ UNCHANGED <<pc, alive, snap, current, bound, gap>>
  BY DEF GameStartSent, sharedVars, histVars
<1>2. Silent(Dequeued(k), TheGame) /\ \A g \in Conn : got[g] \subseteq got'[g]
  BY <1>0, <1>1, Leaves, GotGrows, Names
<1>3. Like(outbox', TheGame)
  <2>1. CASE outbox' = Dequeued(k)
    BY <2>1, <1>2 DEF Silent
  <2>2. CASE outbox' = Enqueue(Dequeued(k), First["black"], TheGame, Plain("game_start"))
    <3>1. First["black"] \in Conn /\ Plain("game_start") \in Frames
      BY <1>0, ConnAssumption, FramesOfTurn DEF Color
    <3> QED BY <2>2, <3>1, <1>2, Joins, Names DEF Speaks
  <2> QED BY <2>1, <2>2 DEF GameStartSent
<1> QED BY <1>1, <1>2, <1>3, QuietGameKnows

\* The steps of a turn between your_turn and the next, and the end of run_game by an exception.
LEMMA QuietTurnKnows ==
    ASSUME IInv,
           \/ StartGame \/ RunGameRaises \/ \E s \in {"finished", "aborted"} : EndTurn(s)
           \/ \E k \in Conn : BotMoves(k)
           \/ \E k \in Conn, ok \in BOOLEAN : MoveConfirmed(k, ok)
    PROVE  KnowledgeGood'
<1>0. TypeOK /\ LocksGood /\ RegistryGood
  BY DEF IInv, BaseInv
<1>1. CASE StartGame
  <2>1. /\ UNCHANGED <<pc, alive, snap, current, bound, gap, got, outbox>> /\ gpc' = "starting"
    BY <1>1 DEF StartGame, connVars, sharedVars, histVars
  <2>2. Like(outbox', TheGame)
    BY <1>0, <1>1, <2>1, WasSilent, Names DEF StartGame, Sending, Silent
  <2> QED BY <2>1, <2>2, QuietGameKnows
<1>2. CASE \E s \in {"finished", "aborted"} : EndTurn(s)
  <2>1. /\ UNCHANGED <<pc, alive, snap, current, bound, gap, got>> /\ gpc' = "finalizing"
        /\ outbox' = [k \in Conn |-> WithoutGame(outbox[k])]
    BY <1>2 DEF EndTurn, sharedVars, histVars
  <2>2. Like(outbox', TheGame)
    <3>1. /\ outbox' \in Boxes
          /\ \A h \in Conn, t \in Senders :
                Sent(outbox', h, t) = IF t = TheGame THEN {} ELSE Sent(outbox, h, t)
          /\ \A h \in Conn, t \in Senders : Once(outbox, h, t) => Once(outbox', h, t)
      BY <1>0, <2>1, OutboxIsBoxes, WithoutGameGood
    <3>2. \A h \in Conn, t \in Coroutines : Once(outbox', h, t)
      BY <1>0, <3>1, Names DEF LocksGood
    <3> QED BY <3>1, <3>2 DEF Like
  <2> QED BY <2>1, <2>2, QuietGameKnows
<1>3. CASE \E k \in Conn : BotMoves(k)
  <2>1. /\ UNCHANGED <<pc, alive, snap, current, bound, got>> /\ gpc' = "confirming"
        /\ GameSends(outbox, Turn(board), Frame("move_ack", ply, 0))
    BY <1>3 DEF BotMoves, sharedVars
  <2>2. Silent(outbox, TheGame)
    BY <1>0, <1>3, WasSilent, Names DEF BotMoves, Sending
  <2>3. Turn(board) \in Color /\ Frame("move_ack", ply, 0) \in Frames
    BY <1>0, FramesOfTurn
  <2>4. gap \subseteq gap' /\ Like(outbox', TheGame)
    BY <1>0, <2>1, <2>2, <2>3, Addressed
  <2> QED BY <2>1, <2>4, QuietGameKnows
<1>4. CASE \E k \in Conn, ok \in BOOLEAN : MoveConfirmed(k, ok)
  <2>1. PICK k \in Conn, ok \in BOOLEAN : MoveConfirmed(k, ok)
    BY <1>4
  <2>2. /\ UNCHANGED <<pc, alive, snap, current, bound, gap>> /\ gpc' = "publishing"
        /\ Completes(k, TheGame, ok) /\ outbox' = Dequeued(k)
    BY <2>1 DEF MoveConfirmed, sharedVars, histVars
  <2>3. Silent(outbox', TheGame) /\ \A g \in Conn : got[g] \subseteq got'[g]
    BY <1>0, <2>2, Leaves, GotGrows, Names
  <2> QED BY <2>2, <2>3, QuietGameKnows DEF Silent
<1>5. CASE RunGameRaises
  <2>1. /\ UNCHANGED <<pc, alive, snap, current, bound, gap, got, outbox>> /\ gpc' = "dead"
    BY <1>5 DEF RunGameRaises, connVars, sharedVars, histVars
  <2>2. Like(outbox', TheGame)
    BY <1>0, <1>5, <2>1, WasSilent, Names DEF RunGameRaises, Sending, Silent
  <2> QED BY <2>1, <2>2, QuietGameKnows
<1> QED BY <1>1, <1>2, <1>3, <1>4, <1>5

\* game_over is at the lock of the connected session of the color it is for.
LEMMA FinalizedKnows == ASSUME IInv, Finalized PROVE KnowledgeGood'
<1>0. TypeOK /\ LocksGood /\ RegistryGood
  BY DEF IInv, BaseInv
<1>1. /\ gpc' = "over_white" /\ GameSends(outbox, "white", GameOver) /\ "white" \in Color
      /\ UNCHANGED <<pc, alive, snap, current, bound, got>>
  BY DEF Finalized, sharedVars, Color
<1>2. Silent(outbox, TheGame)
  BY <1>0, WasSilent, Names DEF Finalized, Sending
<1>3. /\ gap \subseteq gap' /\ Like(outbox', TheGame)
      /\ \A h \in Conn : Sent(outbox', h, TheGame) \subseteq {GameOver}
      /\ \A h \in ConnsOf("white") : <<h, GameOver>> \notin gap' =>
            pc[h] # "welcoming" /\ (Here(h)' => GameOver \in Sent(outbox', h, TheGame))
  BY <1>0, <1>1, <1>2, Addressed, FramesOfTurn
<1>4. \A h \in Conn : MissedGood(h)'
  BY <1>1, <1>3, GameStepKnows
<1>5. \A h \in Conn : OutcomeGood(h)'
  <2>1. \A d \in Color : Told(d)' => d = "white"
    BY <1>1 DEF Told
  <2> QED BY <2>1, <1>1, <1>3, ConnAssumption DEF OutcomeGood, ConnsOf
<1>6. FramesGood' /\ RecentGood' /\ \A h \in Conn : TurnGood(h)'
  BY <1>1, <1>3 DEF FramesGood, RecentGood, TurnGood
<1> QED BY <1>4, <1>5, <1>6 DEF KnowledgeGood, ConnGood

\* The game_over at the head of a lock is written, or its client is gone.
LEMMA OverWritten ==
    ASSUME IInv, NEW k \in Conn, NEW ok \in BOOLEAN, Completes(k, TheGame, ok),
           gpc \in {"over_white", "over_black"}, gap \subseteq gap',
           NEW h \in Conn, Told(Owner[h]), <<h, GameOver>> \notin gap'
    PROVE  /\ pc[h] = "welcoming" => ~snap[h].active
           /\ Here(h) => Heard(Owner[h])'
<1>0. TypeOK /\ LocksGood /\ RegistryGood /\ OutcomeGood(h) /\ FramesGood
  BY DEF IInv, BaseInv, KnowledgeGood, ConnGood
<1>1. \A g \in Conn : Sent(outbox, g, TheGame) = IF g = k THEN {Head(outbox[k]).msg} ELSE {}
  BY <1>0, Leaves, Names
<1>2. \A g \in Conn : got[g] \subseteq got'[g]
  BY <1>0, GotGrows
<1>3. ASSUME Here(h), GameOver \in Sent(outbox, h, TheGame) PROVE GameOver \in got'[h]
  <2>1. h = k /\ Head(outbox[k]).msg = GameOver /\ GameOver.type = "game_over"
    BY <1>1, <1>3 DEF GameOver, Plain, Frame
  <2> QED BY <1>0, <1>3, <2>1, WrittenIsGot DEF Here
<1>4. Heard(Owner[h]) => Heard(Owner[h])'
  BY <1>2 DEF Heard, ConnsOf
<1>5. GameOver \in got'[h] => Heard(Owner[h])'
  BY DEF Heard, ConnsOf
<1> QED BY <1>0, <1>3, <1>4, <1>5 DEF OutcomeGood

\* game_over is written to White, then to Black.
LEMMA GameOverSentKnows ==
    ASSUME IInv, NEW k \in Conn, NEW ok \in BOOLEAN, GameOverSent(k, ok) PROVE KnowledgeGood'
<1>0. TypeOK /\ LocksGood /\ RegistryGood
  BY DEF IInv, BaseInv
<1>1. /\ gpc \in {"over_white", "over_black"} /\ Completes(k, TheGame, ok)
      /\ UNCHANGED <<pc, alive, snap, current, bound, recent>>
  BY DEF GameOverSent, sharedVars
<1>2. Silent(Dequeued(k), TheGame) /\ \A g \in Conn : got[g] \subseteq got'[g]
  BY <1>0, <1>1, Leaves, GotGrows, Names
<1>3. CASE gpc = "over_white"
  <2>1. gpc' = "over_black" /\ GameSends(Dequeued(k), "black", GameOver) /\ "black" \in Color
    BY <1>3 DEF GameOverSent, Color
  <2>2. /\ gap \subseteq gap' /\ Like(outbox', TheGame)
        /\ \A h \in Conn : Sent(outbox', h, TheGame) \subseteq {GameOver}
        /\ \A h \in ConnsOf("black") : <<h, GameOver>> \notin gap' =>
              pc[h] # "welcoming" /\ (Here(h)' => GameOver \in Sent(outbox', h, TheGame))
    BY <1>0, <1>1, <1>2, <2>1, Addressed, FramesOfTurn
  <2>3. \A h \in Conn : MissedGood(h)' /\ (Here(h)' <=> Here(h))
    BY <1>1, <1>2, <2>2, GameStepKnows
  <2>4. ASSUME NEW h \in Conn PROVE OutcomeGood(h)'
    <3>1. CASE Owner[h] = "white"
      <4>1. Told(Owner[h])
        BY <1>3, <3>1 DEF Told
      <4> QED BY <1>1, <2>2, <2>3, <4>1, OverWritten DEF OutcomeGood
    <3>2. CASE Owner[h] = "black"
      BY <3>2, <1>1, <2>2 DEF OutcomeGood, ConnsOf
    <3> QED BY <3>1, <3>2, ConnAssumption DEF Color
  <2>5. FramesGood' /\ RecentGood' /\ \A h \in Conn : TurnGood(h)'
    BY <2>1, <2>2 DEF FramesGood, RecentGood, TurnGood
  <2> QED BY <2>3, <2>4, <2>5 DEF KnowledgeGood, ConnGood
<1>4. CASE gpc = "over_black"
  <2>1. gpc' = "closing" /\ outbox' = Dequeued(k) /\ gap' = gap
    BY <1>4 DEF GameOverSent
  <2>2. \A h \in Conn : MissedGood(h)' /\ (Here(h)' <=> Here(h))
    BY <1>1, <1>2, <2>1, GameStepKnows DEF Silent
  <2>3. ASSUME NEW h \in Conn PROVE OutcomeGood(h)'
    <3>1. Told(Owner[h])
      BY <1>4 DEF Told
    <3> QED BY <1>1, <2>1, <2>2, <3>1, OverWritten DEF OutcomeGood
  <2>4. FramesGood' /\ RecentGood' /\ \A h \in Conn : TurnGood(h)'
    BY <2>1 DEF FramesGood, RecentGood, TurnGood
  <2> QED BY <2>2, <2>3, <2>4 DEF KnowledgeGood, ConnGood
<1> QED BY <1>1, <1>3, <1>4

\* Whoever was not told is on record from now on.
LEMMA UnbindKnows == ASSUME IInv, Unbind PROVE KnowledgeGood'
<1>0. TypeOK /\ LocksGood
  BY DEF IInv, BaseInv
<1>1. /\ gpc = "closing" /\ gpc' = "done" /\ ~bound' /\ recent' = Color
      /\ UNCHANGED <<pc, alive, snap, current, gap, got, outbox>>
  BY DEF Unbind, connVars, histVars
<1>2. Like(outbox', TheGame)
  BY <1>0, <1>1, WasSilent, Names DEF Sending, Silent
<1>3. /\ \A h \in Conn : MissedGood(h)' /\ (Here(h)' <=> Here(h))
      /\ \A c \in Color : Heard(c) => Heard(c)'
  BY <1>1, <1>2, GameStepKnows
<1>4. ASSUME NEW h \in Conn PROVE OutcomeGood(h)'
  <2>1. OutcomeGood(h) /\ Told(Owner[h]) /\ Owner[h] \in Color
    BY <1>1, ConnAssumption DEF IInv, KnowledgeGood, ConnGood, Told
  <2> QED BY <1>1, <1>3, <2>1 DEF OutcomeGood
<1>5. FramesGood' /\ RecentGood' /\ \A h \in Conn : TurnGood(h)'
  BY <1>1 DEF FramesGood, RecentGood, TurnGood
<1> QED BY <1>3, <1>4, <1>5 DEF KnowledgeGood, ConnGood

-----------------------------------------------------------------------------
(* The theorems about what the bots know. *)

\* No turn has been asked for.
LEMMA InitKnows == Init => KnowledgeGood
<1> SUFFICES ASSUME Init PROVE KnowledgeGood
  OBVIOUS
<1>1. gpc = "start_white" /\ \A h \in Conn : pc[h] \in {"serving", "new"}
  BY DEF Init
<1>2. \A c \in Color : ~Told(c)
  BY <1>1 DEF Told
<1>3. \A h \in Conn : Owner[h] \in Color
  BY ConnAssumption
<1> QED BY <1>1, <1>2, <1>3
        DEF KnowledgeGood, FramesGood, RecentGood, ConnGood, MissedGood, TurnGood, OutcomeGood

\* Every step keeps what the bots know.
LEMMA NextKnows ==
    ASSUME IInv, [Next]_vars PROVE KnowledgeGood'
<1>1. CASE GameRuns \/ Flag \/ RunGameRaises
  BY <1>1, QuietTurnKnows, AskTurnKnows, NextTurnKnows, FinalizedKnows, UnbindKnows
     DEF GameRuns, Flag, Abort
<1>2. CASE \E k \in Conn, ok \in BOOLEAN : GameSent(k, ok) \/ Evicted(k, ok)
  BY <1>2, GameStartSentKnows, TurnSentKnows, QuietTurnKnows, GameOverSentKnows, EvictedKnows
     DEF GameSent
<1>3. CASE \E k \in Conn : Handshake(k) \/ LeaveLoop(k) \/ CleanUp(k)
  BY <1>3, ReplacedKnows, WelcomedKnows, TurnResentKnows, MissedDeliveredKnows,
     HandshakeFailsKnows, LeavingKnows DEF Handshake
<1>4. CASE \E k \in Conn : Register(k) \/ BotMoves(k) \/ ClientGone(k)
  BY <1>4, RegisterKnows, QuietTurnKnows, LeavingKnows
<1>5. CASE \E c \in Color : RotateKey(c)
  BY <1>5, RotateKeyKnows
<1>6. CASE UNCHANGED vars
  <2>1. UNCHANGED <<pc, alive, snap, outbox, got, current, bound, recent, gpc, ply, board, gap>>
    BY <1>6 DEF vars, connVars, sharedVars, gameVars, histVars
  <2>2. \A h \in Conn : Here(h)' => Here(h)
    BY <2>1 DEF Here
  <2> QED BY <2>1, <2>2, QuietStepKnows
<1> QED BY <1>1, <1>2, <1>3, <1>4, <1>5, <1>6 DEF Next

\* The registry is right, and every connected bot knows what was sent to it.
THEOREM InductiveInvariant == Spec => []IInv
<1>1. Init => IInv
  BY InitBase, InitKnows DEF IInv
<1>2. IInv /\ [Next]_vars => IInv'
  BY NextBase, NextKnows DEF IInv
<1> QED BY <1>1, <1>2, PTL DEF Spec

\* The bot on move has its your_turn, over whichever connection it is served
\* (bot_endpoint.py:166-190, seat.py:66-74), but for the frames in gap.
THEOREM TurnsAreKnown == Spec => []TurnIsKnown
<1>1. ASSUME IInv PROVE TurnIsKnown
  <2> SUFFICES ASSUME gpc = "waiting", NEW k \in Conn, Connected(Turn(board), k),
                      <<k, YourTurn(ply, board)>> \notin gap
               PROVE  YourTurn(ply, board) \in got[k]
    BY DEF TurnIsKnown
  <2>0. TypeOK /\ LocksGood /\ RegistryGood /\ TurnGood(k)
    BY <1>1 DEF IInv, BaseInv, KnowledgeGood, ConnGood
  <2>1. Turn(board) \in Color
    BY <2>0, FramesOfTurn
  <2>2. Owner[k] = Turn(board) /\ Here(k)
    BY <2>0, <2>1, Names DEF Connected, RegistryGood, Here
  <2>3. Sent(outbox, k, TheGame) = {} /\ Sent(outbox, k, k) = {}
    BY <2>0 DEF Connected, LocksGood, Waits, Sending
  <2> QED BY <2>0, <2>2, <2>3 DEF TurnGood
<1> QED BY <1>1, InductiveInvariant, PTL

\* A connected bot knows that its game is over, but for the frames in gap
\* (run.py's game_over, bot_endpoint.py:191-206).
THEOREM OutcomesAreKnown == Spec => []OutcomeIsKnown
<1>1. ASSUME IInv PROVE OutcomeIsKnown
  <2> SUFFICES ASSUME gpc = "done", NEW c \in Color, NEW k \in Conn, Connected(c, k),
                      <<k, GameOver>> \notin gap
               PROVE  Heard(c)
    BY DEF OutcomeIsKnown, Heard
  <2>0. TypeOK /\ LocksGood /\ RegistryGood /\ OutcomeGood(k)
    BY <1>1 DEF IInv, BaseInv, KnowledgeGood, ConnGood
  <2>1. Owner[k] = c /\ Here(k)
    BY <2>0, Names DEF Connected, RegistryGood, Here
  <2>2. Sent(outbox, k, TheGame) = {} /\ Told(Owner[k])
    BY <2>0 DEF LocksGood, Waits, Sending, Told
  <2> QED BY <2>0, <2>1, <2>2 DEF OutcomeGood
<1> QED BY <1>1, InductiveInvariant, PTL
=============================================================================
