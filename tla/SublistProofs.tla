---------------------------- MODULE SublistProofs ----------------------------
(***************************************************************************)
(* What the proofs of the components need of lists: the induction over     *)
(* natural numbers, as the least number principle, and that what is kept   *)
(* of a list is a sublist of it.                                           *)
(***************************************************************************)
EXTENDS Sublists, TLAPS, WellFoundedInduction

Less == {p \in Nat \X Nat : p[1] < p[2]}

\* Every set of naturals has a least one: what induction over them needs.
LEMMA LeastNat ==
    ASSUME NEW T, T \subseteq Nat, T # {} PROVE \E x \in T : \A y \in T : x <= y
<1>1. IsWellFoundedOn(Less, Nat)
  <2>1. IsWellFoundedOn(OpToRel(<, Nat), Nat)
    BY NatLessThanWellFounded, Zenon
  <2>2. OpToRel(<, Nat) = Less
    BY DEF OpToRel, Less
  <2> QED BY <2>1, <2>2
<1>2. PICK x \in T : \A y \in T : <<y, x>> \notin Less
  BY <1>1, WFMin
<1>3. ASSUME NEW y \in T PROVE x <= y
  <2>1. <<y, x>> \notin Less
    BY <1>2
  <2> QED BY <2>1 DEF Less
<1> QED BY <1>3

\* f is what is kept of the first items, up to the n-th.
Builds(f, s, places, n) ==
    f = [i \in 0 .. n |->
            IF i = 0 THEN <<>>
            ELSE IF i \in places THEN Append(f[i - 1], s[i]) ELSE f[i - 1]]

\* There is such an f: by the least number of items for which there were none.
LEMMA BuildsExists ==
    ASSUME NEW s, NEW places, NEW n \in Nat
    PROVE  \E f : Builds(f, s, places, n)
<1> DEFINE T == {k \in Nat : ~\E f : Builds(f, s, places, k)}
<1> SUFFICES ASSUME T # {} PROVE FALSE
  OBVIOUS
<1>1. PICK k \in T : \A j \in T : k <= j
  BY LeastNat
<1>2. k # 0
  <2>1. Builds([i \in 0 .. 0 |-> <<>>], s, places, 0)
    BY DEF Builds
  <2> QED BY <2>1
<1>3. k - 1 \in Nat /\ k - 1 \notin T
  BY <1>1, <1>2
<1>4. PICK g : Builds(g, s, places, k - 1)
  BY <1>3
<1> DEFINE h == [i \in 0 .. k |->
                    IF i < k THEN g[i]
                    ELSE IF k \in places THEN Append(g[k - 1], s[k]) ELSE g[k - 1]]
<1>5. ASSUME NEW i \in 0 .. k
      PROVE  h[i] = IF i = 0 THEN <<>>
                    ELSE IF i \in places THEN Append(h[i - 1], s[i]) ELSE h[i - 1]
  <2>1. CASE i = k
    BY <2>1, <1>2, <1>3
  <2>2. CASE i < k
    <3>1. i \in 0 .. k - 1 /\ h[i] = g[i] /\ (i # 0 => h[i - 1] = g[i - 1])
      BY <2>2, <1>3
    <3>2. g[i] = IF i = 0 THEN <<>>
                 ELSE IF i \in places THEN Append(g[i - 1], s[i]) ELSE g[i - 1]
      BY <1>4, <3>1 DEF Builds
    <3> HIDE DEF h
    <3> QED BY <3>1, <3>2
  <2> QED BY <2>1, <2>2
<1>6. Builds(h, s, places, k)
  BY <1>5 DEF Builds
<1> QED BY <1>6

\* The recursive function of Sublists is one.
LEMMA KeptBuilds ==
    ASSUME NEW s, NEW places, Len(s) \in Nat
    PROVE  Builds(KeptUpTo(s, places), s, places, Len(s))
<1>1. \E f : Builds(f, s, places, Len(s))
  BY BuildsExists
<1>2. KeptUpTo(s, places) = CHOOSE f : Builds(f, s, places, Len(s))
  BY DEF KeptUpTo, Builds
<1> QED BY <1>1, <1>2

\* at[a] is the place in s, among the first n, of the a-th item that was kept.
Places(at, r, s, places, n) ==
    /\ at \in [1 .. Len(r) -> 1 .. n]
    /\ \A a, b \in 1 .. Len(r) : a < b => at[a] < at[b]
    /\ \A a \in 1 .. Len(r) : at[a] \in places /\ r[a] = s[at[a]]
    /\ \A i \in 1 .. n : i \in places => \E a \in 1 .. Len(r) : at[a] = i

\* r is what is kept of the first n items of s.
IsKept(r, S, s, places, n) == r \in Seq(S) /\ \E at : Places(at, r, s, places, n)

\* One item more, that is kept or not.
LEMMA KeptStep ==
    ASSUME NEW S, NEW s, NEW places, NEW n \in Nat, NEW r, IsKept(r, S, s, places, n),
           s[n + 1] \in S
    PROVE  IsKept(IF n + 1 \in places THEN Append(r, s[n + 1]) ELSE r, S, s, places, n + 1)
<1>1. PICK at : Places(at, r, s, places, n)
  BY DEF IsKept
<1>2. r \in Seq(S) /\ Len(r) \in Nat
  BY DEF IsKept
<1>3. CASE n + 1 \notin places
  <2>1. Places(at, r, s, places, n + 1)
    BY <1>1, <1>2, <1>3 DEF Places
  <2> QED BY <1>2, <1>3, <2>1 DEF IsKept
<1>4. CASE n + 1 \in places
  <2> DEFINE l == Len(r)
             rr == Append(r, s[n + 1])
             up == [a \in 1 .. l + 1 |-> IF a = l + 1 THEN n + 1 ELSE at[a]]
  <2>1. /\ rr \in Seq(S) /\ Len(rr) = l + 1 /\ rr[l + 1] = s[n + 1]
        /\ \A a \in 1 .. l : rr[a] = r[a]
    BY <1>2
  <2>2. l \in Nat
    BY <1>2
  <2>3. /\ at \in [1 .. l -> 1 .. n]
        /\ \A a, b \in 1 .. l : a < b => at[a] < at[b]
        /\ \A a \in 1 .. l : at[a] \in places /\ r[a] = s[at[a]]
        /\ \A i \in 1 .. n : i \in places => \E a \in 1 .. l : at[a] = i
    BY <1>1 DEF Places
  <2> HIDE DEF rr, l
  <2>4. Places(up, rr, s, places, n + 1)
    <3>1. up \in [1 .. l + 1 -> 1 .. n + 1]
      BY <2>2, <2>3
    <3>2. (\A a \in 1 .. l : up[a] = at[a] /\ up[a] \in 1 .. n) /\ up[l + 1] = n + 1
      BY <2>2, <2>3
    <3> HIDE DEF up
    <3>3. \A a, b \in 1 .. l + 1 : a < b => up[a] < up[b]
      <4> SUFFICES ASSUME NEW a \in 1 .. l + 1, NEW b \in 1 .. l + 1, a < b PROVE up[a] < up[b]
        OBVIOUS
      <4>1. a \in 1 .. l
        BY <2>2
      <4>2. CASE b \in 1 .. l
        BY <4>1, <4>2, <2>3, <3>2
      <4>3. CASE b = l + 1
        BY <4>1, <4>3, <2>2, <3>2
      <4> QED BY <2>2, <4>2, <4>3
    <3>4. \A a \in 1 .. l + 1 : up[a] \in places /\ rr[a] = s[up[a]]
      <4> TAKE a \in 1 .. l + 1
      <4>1. CASE a = l + 1
        BY <4>1, <1>4, <2>1, <3>2
      <4>2. CASE a \in 1 .. l
        BY <4>2, <2>1, <2>3, <3>2
      <4> QED BY <2>2, <4>1, <4>2
    <3>5. \A i \in 1 .. n + 1 : i \in places => \E a \in 1 .. l + 1 : up[a] = i
      <4> SUFFICES ASSUME NEW i \in 1 .. n + 1, i \in places PROVE \E a \in 1 .. l + 1 : up[a] = i
        OBVIOUS
      <4>1. CASE i = n + 1
        <5> l + 1 \in 1 .. l + 1
          BY <2>2
        <5> QED BY <4>1, <3>2
      <4>2. CASE i \in 1 .. n
        <5>1. PICK a \in 1 .. l : at[a] = i
          BY <4>2, <2>3
        <5>2. a \in 1 .. l + 1 /\ up[a] = i
          BY <2>2, <3>2, <5>1
        <5> QED BY <5>2
      <4> QED BY <4>1, <4>2
    <3> QED BY <2>1, <3>1, <3>3, <3>4, <3>5 DEF Places
  <2>5. rr \in Seq(S)
    BY <2>1
  <2> QED BY <1>4, <2>4, <2>5 DEF IsKept, rr
<1> QED BY <1>3, <1>4

\* What is kept of the first k items is a sublist of them, for every k.
LEMMA BuildsKept ==
    ASSUME NEW S, NEW s, NEW places, NEW n \in Nat, \A i \in 1 .. n : s[i] \in S,
           NEW f, Builds(f, s, places, n)
    PROVE  \A k \in 0 .. n : IsKept(f[k], S, s, places, k)
<1> DEFINE T == {k \in 0 .. n : ~IsKept(f[k], S, s, places, k)}
<1> SUFFICES ASSUME T # {} PROVE FALSE
  OBVIOUS
<1>1. PICK k \in T : \A j \in T : k <= j
  <2>1. T \subseteq Nat
    OBVIOUS
  <2> HIDE DEF T
  <2> QED BY <2>1, LeastNat
<1>2. \A i \in 0 .. n :
        f[i] = IF i = 0 THEN <<>>
               ELSE IF i \in places THEN Append(f[i - 1], s[i]) ELSE f[i - 1]
  BY DEF Builds
<1>3. k # 0
  <2>1. f[0] = <<>>
    BY <1>2
  <2>2. Places(<<>>, <<>>, s, places, 0)
    BY DEF Places
  <2>3. <<>> \in Seq(S)
    OBVIOUS
  <2> QED BY <2>1, <2>2, <2>3 DEF IsKept
<1> DEFINE j == k - 1
<1>4. j \in Nat /\ j \in 0 .. n /\ j + 1 = k /\ k \in 1 .. n
  BY <1>3
<1>5. IsKept(f[j], S, s, places, j)
  BY <1>1, <1>4
<1>6. s[j + 1] \in S
  BY <1>4
<1>7. f[k] = IF j + 1 \in places THEN Append(f[j], s[j + 1]) ELSE f[j]
  BY <1>2, <1>4
<1> HIDE DEF j
<1>8. IsKept(f[k], S, s, places, j + 1)
  BY <1>4, <1>5, <1>6, <1>7, KeptStep
<1> QED BY <1>4, <1>8

\* What is kept is a sublist: there is an increasing map of places, onto the
\* places that are kept.
LEMMA KeepPlaces ==
    ASSUME NEW S, NEW s \in Seq(S), NEW places
    PROVE  /\ Keep(s, places) \in Seq(S)
           /\ \E at : Places(at, Keep(s, places), s, places, Len(s))
<1> DEFINE f == KeptUpTo(s, places)
           n == Len(s)
<1>1. n \in Nat /\ \A i \in 1 .. n : s[i] \in S
  OBVIOUS
<1>2. Builds(f, s, places, n)
  BY <1>1, KeptBuilds
<1> HIDE DEF f, n
<1>3. \A k \in 0 .. n : IsKept(f[k], S, s, places, k)
  BY <1>1, <1>2, BuildsKept
<1>4. IsKept(f[n], S, s, places, n)
  BY <1>1, <1>3
<1> QED BY <1>4 DEF IsKept, Keep, f, n
=============================================================================
