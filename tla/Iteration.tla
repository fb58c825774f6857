----------------------------- MODULE Iteration -----------------------------
(***************************************************************************)
(* Induction over the naturals and functions defined by recursion, in a    *)
(* form that speaks of sets and functions only, and what the functions of  *)
(* Selection, defined so, return.                                          *)
(***************************************************************************)
EXTENDS Integers, Selection, SequenceTheorems, WellFoundedInduction, TLAPS

Smaller == {p \in Nat \X Nat : p[1] < p[2]}

LEMMA SmallerWellFounded == IsWellFoundedOn(Smaller, Nat)
  BY NatLessThanWellFounded DEF OpToRel, Smaller

\* A non-empty set of naturals has a least element.
LEMMA LeastNatural ==
  ASSUME NEW S \in SUBSET Nat, S # {}
  PROVE  \E m \in S : \A n \in S : m <= n
<1>1. PICK m \in S : \A n \in S : <<n, m>> \notin Smaller
  BY SmallerWellFounded, WFMin
<1>2. ASSUME NEW n \in S PROVE m <= n
  <2>1. <<n, m>> \in Nat \X Nat /\ <<n, m>> \notin Smaller
    BY <1>1
  <2>2. ~(n < m)
    BY <2>1 DEF Smaller
  <2> QED
    BY <2>2
<1> QED
  BY <1>2

\* Induction: a set with 0 and each successor of its elements has them all.
LEMMA Induction ==
  ASSUME NEW T, 0 \in T, \A n \in Nat : n \in T => n + 1 \in T
  PROVE  Nat \subseteq T
<1> DEFINE S == {n \in Nat : n \notin T}
<1>1. SUFFICES ASSUME S # {} PROVE FALSE
  OBVIOUS
<1>2. PICK m \in S : \A n \in S : m <= n
  BY <1>1, LeastNatural
<1>3. m \in Nat /\ m # 0 /\ m \notin T
  BY <1>2
<1>4. m - 1 \in Nat /\ m = (m - 1) + 1 /\ ~(m <= m - 1)
  BY <1>3
<1>5. m - 1 \in T
  BY <1>2, <1>4
<1> QED
  BY <1>3, <1>4, <1>5

\* The first n values of a function defined by recursion.
UpTo(g, n, S, a, step) ==
    /\ g \in [0 .. n -> S] /\ g[0] = a
    /\ \A i \in 0 .. n - 1 : g[i + 1] = step[<<i, g[i]>>]

LEMMA UpToExists ==
  ASSUME NEW S, NEW a \in S, NEW step \in [Nat \X S -> S], NEW n \in Nat
  PROVE  \E g : UpTo(g, n, S, a, step)
<1> DEFINE T == {k \in Nat : \E g : UpTo(g, k, S, a, step)}
<1>1. 0 \in T
  <2>1. UpTo([i \in 0 .. 0 |-> a], 0, S, a, step)
    BY DEF UpTo
  <2> QED
    BY <2>1
<1>2. ASSUME NEW k \in Nat, k \in T PROVE k + 1 \in T
  <2>1. PICK g : UpTo(g, k, S, a, step)
    BY <1>2
  <2>2. PICK h : h = [i \in 0 .. k + 1 |-> IF i = k + 1 THEN step[<<k, g[k]>>] ELSE g[i]]
    OBVIOUS
  <2>3. k \in 0 .. k /\ g[k] \in S /\ step[<<k, g[k]>>] \in S
    BY <2>1 DEF UpTo
  <2>4. ASSUME NEW i \in 0 .. k PROVE h[i] = g[i] /\ g[i] \in S
    BY <2>1, <2>2 DEF UpTo
  <2>5. h[k + 1] = step[<<k, g[k]>>]
    BY <2>2
  <2>6. h \in [0 .. k + 1 -> S]
    <3>1. ASSUME NEW i \in 0 .. k + 1 PROVE h[i] \in S
      <4>1. CASE i = k + 1
        BY <4>1, <2>3, <2>5
      <4>2. CASE i # k + 1
        <5>1. i \in 0 .. k
          BY <4>2
        <5> QED
          BY <5>1, <2>4
      <4> QED
        BY <4>1, <4>2
    <3> QED
      BY <3>1, <2>2
  <2>7. ASSUME NEW i \in 0 .. k PROVE h[i + 1] = step[<<i, h[i]>>]
    <3>1. CASE i = k
      BY <3>1, <2>4, <2>5
    <3>2. CASE i \in 0 .. k - 1
      <4>1. i + 1 \in 0 .. k
        BY <3>2
      <4> QED
        BY <3>2, <4>1, <2>1, <2>4 DEF UpTo
    <3> QED
      BY <3>1, <3>2
  <2>8. h[0] = a
    BY <2>1, <2>4 DEF UpTo
  <2>9. (k + 1) - 1 = k
    OBVIOUS
  <2>10. UpTo(h, k + 1, S, a, step)
    BY <2>6, <2>7, <2>8, <2>9 DEF UpTo
  <2> QED
    BY <2>10
<1> HIDE DEF T
<1>3. n \in T
  BY <1>1, <1>2, Induction
<1> QED
  BY <1>3 DEF T

\* A function on a tree of bounded height is defined by recursion on the
\* nodes below each.
TreeFunction(f, D, S, step) ==
    f \in [D -> S] /\ \A p \in D : f[p] = step[<<p, f>>]

LEMMA TreeRecursion ==
  ASSUME NEW D, NEW S, NEW a \in S, NEW step \in [D \X [D -> S] -> S],
         NEW h \in Nat, NEW rank \in [D -> 0 .. h],
         \A p \in D : \A f, g \in [D -> S] :
            (\A q \in D : rank[q] > rank[p] => f[q] = g[q]) => step[<<p, f>>] = step[<<p, g>>]
  PROVE  \E f : TreeFunction(f, D, S, step)
<1>1. PICK F : F = [D -> S]
  OBVIOUS
<1>2. PICK next : next = [k \in Nat \X F |-> [p \in D |-> step[<<p, k[2]>>]]]
  OBVIOUS
<1>3. next \in [Nat \X F -> F]
  BY <1>1, <1>2
<1>4. PICK b \in F : b = [p \in D |-> a]
  BY <1>1
<1>5. PICK g : UpTo(g, h + 2, F, b, next)
  <2>1. PICK m \in Nat : m = h + 2
    OBVIOUS
  <2>2. \E g : UpTo(g, m, F, b, next)
    BY <1>3, UpToExists
  <2> QED
    BY <2>1, <2>2
<1>6. /\ \A n \in 0 .. h + 2 : g[n] \in F
      /\ \A n \in 0 .. h + 1 : g[n + 1] = [p \in D |-> step[<<p, g[n]>>]]
  <2>1. g \in [0 .. h + 2 -> F] /\ \A n \in 0 .. h + 2 - 1 : g[n + 1] = next[<<n, g[n]>>]
    BY <1>5 DEF UpTo
  <2>2. ASSUME NEW n \in 0 .. h + 1 PROVE g[n + 1] = [p \in D |-> step[<<p, g[n]>>]]
    <3>1. n \in Nat /\ n \in 0 .. h + 2 /\ n \in 0 .. h + 2 - 1
      OBVIOUS
    <3>2. PICK x \in F : x = g[n]
      BY <2>1, <3>1
    <3>3. next[<<n, x>>] = [p \in D |-> step[<<p, x>>]]
      <4>1. <<n, x>> \in Nat \X F /\ <<n, x>>[2] = x
        BY <3>1
      <4> QED
        BY <1>2, <4>1
    <3> QED
      BY <2>1, <3>1, <3>2, <3>3
  <2> QED
    BY <2>1, <2>2
<1> DEFINE N == {k \in Nat : k <= h => \A p \in D : rank[p] >= h - k => g[k + 1][p] = g[k + 2][p]}
<1>7. ASSUME NEW k \in Nat, k <= h, NEW p \in D,
             \A q \in D : rank[q] > rank[p] => g[k][q] = g[k + 1][q]
      PROVE  g[k + 1][p] = g[k + 2][p]
  <2>1. k \in 0 .. h + 1 /\ k + 1 \in 0 .. h + 1 /\ k \in 0 .. h + 2 /\ k + 1 \in 0 .. h + 2 /\ (k + 1) + 1 = k + 2
    BY <1>7
  <2>2. PICK x \in F, y \in F : x = g[k] /\ y = g[k + 1]
    BY <1>6, <2>1
  <2>3. step[<<p, x>>] = step[<<p, y>>]
    BY <1>1, <1>7, <2>2
  <2>4. g[k + 1] = [q \in D |-> step[<<q, x>>]] /\ g[k + 2] = [q \in D |-> step[<<q, y>>]]
    BY <1>6, <2>1, <2>2
  <2> QED
    BY <2>3, <2>4
<1>8. 0 \in N
  <2> SUFFICES ASSUME NEW p \in D, rank[p] >= h - 0 PROVE g[0 + 1][p] = g[0 + 2][p]
    OBVIOUS
  <2>1. \A q \in D : ~(rank[q] > rank[p])
    OBVIOUS
  <2> QED
    BY <1>7, <2>1
<1>9. ASSUME NEW k \in Nat, k \in N PROVE k + 1 \in N
  <2> SUFFICES ASSUME k + 1 <= h, NEW p \in D, rank[p] >= h - (k + 1)
               PROVE  g[(k + 1) + 1][p] = g[(k + 1) + 2][p]
    OBVIOUS
  <2>1. PICK m \in Nat : m = k + 1 /\ k + 2 = m + 1 /\ m <= h
    OBVIOUS
  <2>2. ASSUME NEW q \in D, rank[q] > rank[p] PROVE g[m][q] = g[m + 1][q]
    <3>1. rank[q] \in Nat /\ rank[p] \in Nat
      OBVIOUS
    <3>2. rank[q] >= h - k /\ k <= h
      BY <2>1, <2>2, <3>1
    <3>3. \A r \in D : rank[r] >= h - k => g[k + 1][r] = g[k + 2][r]
      BY <1>9, <3>2
    <3> QED
      BY <2>1, <3>2, <3>3
  <2>3. g[m + 1][p] = g[m + 2][p]
    BY <1>7, <2>1, <2>2
  <2> QED
    BY <2>1, <2>3
<1> HIDE DEF N
<1>10. Nat \subseteq N
  BY <1>8, <1>9, Induction
<1>11. \A p \in D : g[h + 1][p] = g[h + 2][p]
  BY <1>10 DEF N
<1>12. PICK f \in F : f = g[h + 1]
  <2>1. h + 1 \in 0 .. h + 2
    OBVIOUS
  <2> QED
    BY <1>6, <2>1
<1>13. g[h + 2] = [p \in D |-> step[<<p, f>>]]
  <2>1. h + 1 \in 0 .. h + 1 /\ (h + 1) + 1 = h + 2
    OBVIOUS
  <2> QED
    BY <1>6, <1>12, <2>1
<1>14. TreeFunction(f, D, S, step)
  BY <1>1, <1>11, <1>12, <1>13 DEF TreeFunction
<1> QED
  BY <1>14

\* What holds of a node when it does of those below it holds of all.
LEMMA TreeInduction ==
  ASSUME NEW D, NEW T, NEW h \in Nat, NEW rank \in [D -> 0 .. h],
         \A p \in D : (\A q \in D : rank[q] > rank[p] => q \in T) => p \in T
  PROVE  D \subseteq T
<1> DEFINE N == {n \in Nat : \A p \in D : rank[p] > h - n => p \in T}
<1>1. 0 \in N
  <2>1. \A p \in D : ~(rank[p] > h - 0)
    OBVIOUS
  <2> QED
    BY <2>1
<1>2. ASSUME NEW n \in Nat, n \in N PROVE n + 1 \in N
  <2>1. ASSUME NEW p \in D, rank[p] > h - (n + 1) PROVE p \in T
    <3>1. \A q \in D : rank[q] > rank[p] => rank[q] > h - n
      BY <2>1
    <3>2. \A q \in D : rank[q] > rank[p] => q \in T
      BY <1>2, <3>1
    <3> QED
      BY <3>2
  <2> QED
    BY <2>1
<1> HIDE DEF N
<1>3. Nat \subseteq N
  BY <1>1, <1>2, Induction
<1>4. h + 1 \in N
  BY <1>3
<1>5. \A p \in D : rank[p] > h - (h + 1)
  OBVIOUS
<1> QED
  BY <1>4, <1>5 DEF N

-----------------------------------------------------------------------------
(* What is kept of a sequence.  *)

\* The steps of Kept.
Keeping(upto, S, s, places) ==
    /\ Kept(s, places) = upto[Len(s)] /\ upto[0] = <<>>
    /\ \A n \in 0 .. Len(s) : upto[n] \in Seq(S)
    /\ \A n \in 0 .. Len(s) - 1 :
         upto[n + 1] = IF n + 1 \in places THEN Append(upto[n], s[n + 1]) ELSE upto[n]

\* Kept is the last of them.
LEMMA KeptSteps ==
  ASSUME NEW S, NEW s \in Seq(S), NEW places
  PROVE  \E upto : Keeping(upto, S, s, places)
<1> DEFINE Steps(u) ==
      u = [n \in 0 .. Len(s) |->
             IF n = 0 THEN <<>>
             ELSE IF n \in places THEN Append(u[n - 1], s[n]) ELSE u[n - 1]]
<1>1. PICK l \in Nat : l = Len(s) /\ DOMAIN s = 1 .. l
  OBVIOUS
<1>2. PICK step : step = [k \in Nat \X Seq(S) |->
        IF k[1] + 1 \in places /\ k[1] + 1 \in 1 .. l THEN Append(k[2], s[k[1] + 1]) ELSE k[2]]
  OBVIOUS
<1>3. step \in [Nat \X Seq(S) -> Seq(S)]
  <2>1. ASSUME NEW k \in Nat \X Seq(S)
        PROVE  (IF k[1] + 1 \in places /\ k[1] + 1 \in 1 .. l
                THEN Append(k[2], s[k[1] + 1]) ELSE k[2]) \in Seq(S)
    <3>1. k[2] \in Seq(S)
      BY <2>1
    <3>2. ASSUME k[1] + 1 \in 1 .. l PROVE s[k[1] + 1] \in S
      BY <1>1, <3>2
    <3> QED
      BY <3>1, <3>2
  <2> QED
    BY <1>2, <2>1
<1>4. <<>> \in Seq(S)
  OBVIOUS
<1>5. PICK g : UpTo(g, l, Seq(S), <<>>, step)
  BY <1>3, <1>4, UpToExists
<1>6. /\ g \in [0 .. l -> Seq(S)] /\ g[0] = <<>>
      /\ \A i \in 0 .. l - 1 : g[i + 1] = step[<<i, g[i]>>]
  BY <1>5 DEF UpTo
<1>7. ASSUME NEW n \in 0 .. l - 1
      PROVE  g[n + 1] = IF n + 1 \in places THEN Append(g[n], s[n + 1]) ELSE g[n]
  <2>1. n \in Nat /\ n \in 0 .. l /\ n + 1 \in 1 .. l
    OBVIOUS
  <2>2. g[n] \in Seq(S)
    BY <1>6, <2>1
  <2>3. PICK x \in Seq(S) : x = g[n]
    BY <2>2
  <2>4. step[<<n, x>>] = IF n + 1 \in places THEN Append(x, s[n + 1]) ELSE x
    <3>1. <<n, x>> \in Nat \X Seq(S) /\ <<n, x>>[1] = n /\ <<n, x>>[2] = x
      BY <2>1
    <3> QED
      BY <1>2, <2>1, <3>1
  <2> QED
    BY <1>6, <2>3, <2>4
<1>8. Steps(g)
  <2>1. ASSUME NEW n \in 0 .. l
        PROVE  g[n] = IF n = 0 THEN <<>>
                      ELSE IF n \in places THEN Append(g[n - 1], s[n]) ELSE g[n - 1]
    <3>1. CASE n = 0
      BY <1>6, <3>1
    <3>2. CASE n # 0
      <4>1. n - 1 \in 0 .. l - 1 /\ (n - 1) + 1 = n
        BY <3>2
      <4> QED
        BY <1>7, <3>2, <4>1
    <3> QED
      BY <3>1, <3>2
  <2> QED
    BY <1>1, <1>6, <2>1
<1>9. PICK upto : upto = CHOOSE u : Steps(u)
  OBVIOUS
<1>10. Steps(upto)
  BY <1>8, <1>9
<1>11. Kept(s, places) = upto[l]
  BY <1>1, <1>9 DEF Kept
<1>12. upto[0] = <<>>
  BY <1>1, <1>10
<1>13. ASSUME NEW n \in 0 .. l - 1
       PROVE  upto[n + 1] = IF n + 1 \in places THEN Append(upto[n], s[n + 1]) ELSE upto[n]
  <2>1. n + 1 \in 0 .. l /\ n + 1 # 0 /\ (n + 1) - 1 = n
    OBVIOUS
  <2> QED
    BY <1>1, <1>10, <2>1
<1> HIDE DEF Steps
<1> DEFINE T == {n \in Nat : n <= l => upto[n] \in Seq(S)}
<1>14. 0 \in T
  BY <1>4, <1>12
<1>15. ASSUME NEW n \in Nat, n \in T PROVE n + 1 \in T
  <2> SUFFICES ASSUME n + 1 <= l PROVE upto[n + 1] \in Seq(S)
    OBVIOUS
  <2>1. n \in 0 .. l - 1 /\ n + 1 \in 1 .. l /\ upto[n] \in Seq(S)
    BY <1>15
  <2>2. s[n + 1] \in S
    BY <1>1, <2>1
  <2>3. upto[n + 1] = upto[n] \/ upto[n + 1] = Append(upto[n], s[n + 1])
    BY <1>13, <2>1
  <2>4. Append(upto[n], s[n + 1]) \in Seq(S)
    BY <2>1, <2>2
  <2> QED
    BY <2>1, <2>3, <2>4
<1> HIDE DEF T
<1>16. Nat \subseteq T
  BY <1>14, <1>15, Induction
<1>17. \A n \in 0 .. l : upto[n] \in Seq(S)
  BY <1>16 DEF T
<1>18. Keeping(upto, S, s, places)
  BY <1>1, <1>11, <1>12, <1>13, <1>17 DEF Keeping
<1> QED
  BY <1>18

\* t has what s has at those of the first k places that are named, in order:
\* place says where each of its elements comes from.
Placed(t, s, k, places, place) ==
    /\ place \in [1 .. Len(t) -> 1 .. k]
    /\ \A n \in 1 .. Len(t) : place[n] \in places /\ t[n] = s[place[n]]
    /\ \A m, n \in 1 .. Len(t) : m < n => place[m] < place[n]
    /\ \A i \in 1 .. k : i \in places => \E n \in 1 .. Len(t) : place[n] = i

\* One more place of s is looked at.
LEMMA PlacedNext ==
  ASSUME NEW S, NEW s \in Seq(S), NEW places, NEW k \in Nat, k + 1 <= Len(s),
         NEW t \in Seq(S), NEW place, Placed(t, s, k, places, place)
  PROVE  \E next : Placed(IF k + 1 \in places THEN Append(t, s[k + 1]) ELSE t,
                          s, k + 1, places, next)
<1>1. PICK l \in Nat, c \in Nat : l = Len(t) /\ c = k + 1
  OBVIOUS
<1>2. s[c] \in S /\ 1 .. k \subseteq 1 .. c
  BY <1>1
<1>3. CASE c \notin places
  <2>1. \A i \in 1 .. c : i \in places => i \in 1 .. k
    BY <1>1, <1>3
  <2> QED
    BY <1>1, <1>2, <1>3, <2>1 DEF Placed
<1>4. CASE c \in places
  <2>0. PICK u : u = Append(t, s[c])
    OBVIOUS
  <2>1. PICK m \in Nat : u = Append(t, s[c]) /\ m = l + 1
    BY <1>1, <2>0
  <2>2. Len(u) = m /\ u[m] = s[c] /\ \A n \in 1 .. l : u[n] = t[n]
    BY <1>1, <1>2, <2>1
  <2>3. PICK next : next = [n \in 1 .. m |-> IF n = m THEN c ELSE place[n]]
    OBVIOUS
  <2>4. ASSUME NEW n \in 1 .. m PROVE n = m \/ n \in 1 .. l
    BY <2>1
  <2>5. next[m] = c
    BY <2>1, <2>3
  <2>11. ASSUME NEW n \in 1 .. l
         PROVE  /\ next[n] = place[n] /\ next[n] \in 1 .. k
                /\ next[n] \in places /\ t[n] = s[next[n]]
    <3>1. n \in 1 .. m /\ n # m
      BY <2>1
    <3>2. next[n] = place[n]
      BY <2>3, <3>1
    <3>3. place[n] \in 1 .. k /\ place[n] \in places /\ t[n] = s[place[n]]
      BY <1>1 DEF Placed
    <3> QED
      BY <3>2, <3>3
  <2>6. next \in [1 .. m -> 1 .. c]
    <3>1. ASSUME NEW n \in 1 .. m PROVE next[n] \in 1 .. c
      BY <1>1, <1>2, <2>4, <2>5, <2>11
    <3> QED
      BY <2>3, <3>1
  <2>7. ASSUME NEW n \in 1 .. m PROVE next[n] \in places /\ u[n] = s[next[n]]
    BY <1>4, <2>2, <2>4, <2>5, <2>11
  <2>8. ASSUME NEW i \in 1 .. m, NEW n \in 1 .. m, i < n PROVE next[i] < next[n]
    <3>1. i \in 1 .. l
      BY <2>1, <2>4, <2>8
    <3>2. CASE n = m
      BY <1>1, <2>5, <2>11, <3>1, <3>2
    <3>3. CASE n \in 1 .. l
      BY <1>1, <2>8, <2>11, <3>1, <3>3 DEF Placed
    <3> QED
      BY <2>4, <3>2, <3>3
  <2>9. ASSUME NEW i \in 1 .. c, i \in places PROVE \E n \in 1 .. m : next[n] = i
    <3>1. CASE i = c
      BY <2>1, <2>5, <3>1
    <3>2. CASE i # c
      <4>1. i \in 1 .. k
        BY <1>1, <3>2
      <4>2. PICK n \in 1 .. l : place[n] = i
        BY <1>1, <2>9, <4>1 DEF Placed
      <4> QED
        BY <2>1, <2>11, <4>2
    <3> QED
      BY <3>1, <3>2
  <2>10. Placed(u, s, c, places, next)
    BY <2>2, <2>6, <2>7, <2>8, <2>9 DEF Placed
  <2> QED
    BY <1>1, <1>4, <2>1, <2>10
<1> QED
  BY <1>3, <1>4

\* What Kept returns.
LEMMA KeptFields ==
  ASSUME NEW S, NEW s \in Seq(S), NEW places
  PROVE  /\ Kept(s, places) \in Seq(S)
         /\ \E place : Placed(Kept(s, places), s, Len(s), places, place)
<1>1. PICK l \in Nat : l = Len(s)
  OBVIOUS
<1>0. PICK upto : Keeping(upto, S, s, places)
  BY KeptSteps
<1>2. /\ Kept(s, places) = upto[l] /\ upto[0] = <<>>
      /\ \A n \in 0 .. l : upto[n] \in Seq(S)
      /\ \A n \in 0 .. l - 1 :
           upto[n + 1] = IF n + 1 \in places THEN Append(upto[n], s[n + 1]) ELSE upto[n]
  BY <1>0, <1>1 DEF Keeping
<1> DEFINE T == {n \in Nat : n <= l => \E place : Placed(upto[n], s, n, places, place)}
<1>3. 0 \in T
  <2>1. Placed(<<>>, s, 0, places, <<>>)
    BY DEF Placed
  <2> QED
    BY <1>2, <2>1
<1>4. ASSUME NEW n \in Nat, n \in T PROVE n + 1 \in T
  <2> SUFFICES ASSUME n + 1 <= l PROVE \E place : Placed(upto[n + 1], s, n + 1, places, place)
    OBVIOUS
  <2>1. n \in 0 .. l /\ n \in 0 .. l - 1 /\ n <= l
    OBVIOUS
  <2>2. PICK place : Placed(upto[n], s, n, places, place)
    BY <1>4, <2>1
  <2>3. upto[n] \in Seq(S)
    BY <1>2, <2>1
  <2>4. n + 1 <= Len(s)
    BY <1>1
  <2>5. \E next : Placed(IF n + 1 \in places THEN Append(upto[n], s[n + 1]) ELSE upto[n],
                         s, n + 1, places, next)
    BY <2>2, <2>3, <2>4, PlacedNext
  <2> QED
    BY <1>2, <2>1, <2>5
<1> HIDE DEF T
<1>5. Nat \subseteq T
  BY <1>3, <1>4, Induction
<1> QED
  BY <1>1, <1>2, <1>5 DEF T

-----------------------------------------------------------------------------
(* What is a sequence.  *)

\* A sequence over a set is one over any that has its elements.
LEMMA SuperSequence ==
  ASSUME NEW A, NEW B, A \subseteq B, NEW s \in Seq(A)
  PROVE  s \in Seq(B)
<1>1. \A i \in 1 .. Len(s) : s[i] \in B
  OBVIOUS
<1> QED
  BY <1>1

\* A sequence over any set is one over its elements.
LEMMA SequenceOf ==
  ASSUME NEW S, NEW s \in Seq(S)
  PROVE  Sequence(s) /\ ToSet(s) \subseteq S
<1>1. PICK l \in Nat : l = Len(s) /\ DOMAIN s = 1 .. l
  OBVIOUS
<1>2. \A i \in 1 .. l : s[i] \in S /\ s[i] \in ToSet(s)
  BY <1>1 DEF ToSet
<1>3. s \in Seq(ToSet(s))
  <2>1. s \in [1 .. l -> ToSet(s)]
    <3>1. s = [i \in 1 .. l |-> s[i]]
      BY <1>1
    <3> QED
      BY <1>2, <3>1
  <2> QED
    BY <2>1, SeqDef
<1> QED
  BY <1>1, <1>2, <1>3 DEF Sequence, ToSet

\* Two sequences in a row.
LEMMA JoinedSequence ==
  ASSUME NEW a, NEW b, Sequence(a), Sequence(b)
  PROVE  Sequence(a \o b) /\ ToSet(a \o b) = ToSet(a) \cup ToSet(b)
<1>1. PICK S : S = ToSet(a) \cup ToSet(b)
  OBVIOUS
<1>2. a \in Seq(S) /\ b \in Seq(S)
  BY <1>1, SuperSequence DEF Sequence
<1>3. PICK c : c = a \o b
  OBVIOUS
<1>4. PICK u \in Nat, v \in Nat : u = Len(a) /\ v = Len(b) /\ DOMAIN a = 1 .. u /\ DOMAIN b = 1 .. v
  BY <1>2
<1>5. /\ c \in Seq(S) /\ Len(c) = u + v
      /\ \A i \in 1 .. u : c[i] = a[i]
      /\ \A i \in 1 .. v : c[u + i] = b[i]
  BY <1>2, <1>3, <1>4
<1>6. Sequence(c) /\ ToSet(c) \subseteq S
  BY <1>5, SequenceOf
<1>7. DOMAIN c = 1 .. u + v /\ (\A i \in 1 .. u : i \in 1 .. u + v) /\ (\A i \in 1 .. v : u + i \in 1 .. u + v)
  BY <1>5
<1>8. (\A i \in 1 .. u : a[i] \in ToSet(c)) /\ (\A i \in 1 .. v : b[i] \in ToSet(c))
  BY <1>5, <1>7 DEF ToSet
<1>9. S \subseteq ToSet(c)
  BY <1>1, <1>4, <1>8 DEF ToSet
<1> QED
  BY <1>1, <1>3, <1>6, <1>9

\* A sequence without its head.
LEMMA TailSequence ==
  ASSUME NEW s, Sequence(s), s # <<>>
  PROVE  Head(s) \in ToSet(s) /\ Sequence(Tail(s)) /\ ToSet(Tail(s)) \subseteq ToSet(s)
<1>1. PICK S : S = ToSet(s) /\ s \in Seq(S)
  BY DEF Sequence
<1>2. Head(s) \in S /\ Tail(s) \in Seq(S)
  BY <1>1
<1> QED
  BY <1>1, <1>2, SequenceOf

\* The sequences of one element and of none.
LEMMA OneSequence ==
  ASSUME NEW x
  PROVE  Sequence(<<x>>) /\ ToSet(<<x>>) = {x} /\ Sequence(<<>>) /\ ToSet(<<>>) = {}
<1>1. <<x>> \in Seq({x}) /\ <<>> \in Seq({x})
  OBVIOUS
<1>2. ToSet(<<x>>) = {x} /\ ToSet(<<>>) = {}
  BY DEF ToSet
<1> QED
  BY <1>1, <1>2, SequenceOf

\* A function of the places of a sequence.
LEMMA FunctionSequence ==
  ASSUME NEW s, Sequence(s), NEW f, DOMAIN f = DOMAIN s, f = [i \in DOMAIN s |-> f[i]]
  PROVE  Sequence(f)
<1>1. PICK l \in Nat : DOMAIN s = 1 .. l
  BY DEF Sequence
<1>2. f \in Seq({f[i] : i \in 1 .. l})
  <2>1. f \in [1 .. l -> {f[i] : i \in 1 .. l}]
    BY <1>1
  <2> QED
    BY <1>1, <2>1, SeqDef
<1> QED
  BY <1>2, SequenceOf

\* The elements kept, as places of the sequence.
LEMMA KeptSequence ==
  ASSUME NEW s, Sequence(s), NEW places
  PROVE  /\ Sequence(Kept(s, places))
         /\ ToSet(Kept(s, places)) = {s[i] : i \in DOMAIN s \cap places}
<1>1. PICK S : s \in Seq(S)
  BY DEF Sequence
<1>2. PICK t : t = Kept(s, places)
  OBVIOUS
<1>3. t \in Seq(S) /\ \E place : Placed(t, s, Len(s), places, place)
  BY <1>1, <1>2, KeptFields
<1>4. PICK place : Placed(t, s, Len(s), places, place)
  BY <1>3
<1>5. PICK k \in Nat, l \in Nat : k = Len(t) /\ l = Len(s) /\ DOMAIN t = 1 .. k /\ DOMAIN s = 1 .. l
  BY <1>1, <1>3
<1>6. ASSUME NEW x \in ToSet(t) PROVE x \in {s[i] : i \in DOMAIN s \cap places}
  <2>1. PICK n \in 1 .. k : x = t[n]
    BY <1>5 DEF ToSet
  <2>2. place[n] \in 1 .. l /\ place[n] \in places /\ x = s[place[n]]
    BY <1>4, <1>5, <2>1 DEF Placed
  <2> QED
    BY <1>5, <2>2
<1>7. ASSUME NEW i \in DOMAIN s \cap places PROVE s[i] \in ToSet(t)
  <2>1. PICK n \in 1 .. k : place[n] = i
    BY <1>4, <1>5 DEF Placed
  <2>2. s[i] = t[n]
    BY <1>4, <1>5, <2>1 DEF Placed
  <2> QED
    BY <1>5, <2>2 DEF ToSet
<1>8. ToSet(t) = {s[i] : i \in DOMAIN s \cap places}
  BY <1>6, <1>7
<1> QED
  BY <1>2, <1>3, <1>8, SequenceOf

\* The elements of t are those s has at the places, in their order.
PickedOut(t, s, places, place) ==
    /\ place \in [DOMAIN t -> DOMAIN s]
    /\ \A r \in DOMAIN t : t[r] = s[place[r]] /\ place[r] \in places
    /\ \A q, r \in DOMAIN t : q < r => place[q] < place[r]
    /\ \A m \in DOMAIN s : m \in places => \E r \in DOMAIN t : place[r] = m

\* What is kept is picked out.
LEMMA KeptPlaces ==
  ASSUME NEW s, Sequence(s), NEW places
  PROVE  Sequence(Kept(s, places)) /\ \E place : PickedOut(Kept(s, places), s, places, place)
<1>1. PICK S, t : s \in Seq(S) /\ t = Kept(s, places)
  BY DEF Sequence
<1>2. t \in Seq(S) /\ \E place : Placed(t, s, Len(s), places, place)
  BY <1>1, KeptFields
<1>3. PICK place : Placed(t, s, Len(s), places, place)
  BY <1>2
<1>4. DOMAIN t = 1 .. Len(t) /\ DOMAIN s = 1 .. Len(s)
  BY <1>1, <1>2
<1>5. place \in [DOMAIN t -> DOMAIN s]
  BY <1>3, <1>4 DEF Placed
<1>6. \A r \in DOMAIN t : t[r] = s[place[r]] /\ place[r] \in places
  BY <1>3, <1>4 DEF Placed
<1>7. \A q, r \in DOMAIN t : q < r => place[q] < place[r]
  BY <1>3, <1>4 DEF Placed
<1>8. \A m \in DOMAIN s : m \in places => \E r \in DOMAIN t : place[r] = m
  BY <1>3, <1>4 DEF Placed
<1>9. PickedOut(t, s, places, place)
  BY <1>5, <1>6, <1>7, <1>8 DEF PickedOut
<1> QED
  BY <1>1, <1>2, <1>9, SequenceOf

\* The places of l elements that are named, in order.
Picked(l, places) == Kept([i \in 1 .. l |-> i], places)

\* They go up, and are the named ones.
LEMMA PickedFields ==
  ASSUME NEW l \in Nat, NEW places
  PROVE  /\ Picked(l, places) \in Seq(1 .. l)
         /\ \A m, n \in DOMAIN Picked(l, places) :
              m < n => Picked(l, places)[m] < Picked(l, places)[n]
         /\ ToSet(Picked(l, places)) = 1 .. l \cap places
<1>1. PICK id : id = [i \in 1 .. l |-> i]
  OBVIOUS
<1>2. id \in Seq(1 .. l) /\ Len(id) = l
  BY <1>1
<1>3. PICK t : t = Kept(id, places)
  OBVIOUS
<1>4. t \in Seq(1 .. l) /\ \E place : Placed(t, id, l, places, place)
  BY <1>2, <1>3, KeptFields
<1>5. PICK place : Placed(t, id, l, places, place)
  BY <1>4
<1>6. PICK k \in Nat : k = Len(t) /\ DOMAIN t = 1 .. k
  BY <1>4
<1>7. \A n \in 1 .. k : place[n] \in 1 .. l /\ place[n] \in places /\ t[n] = id[place[n]]
  BY <1>5, <1>6 DEF Placed
<1>8. \A n \in 1 .. k : t[n] = place[n]
  BY <1>1, <1>7
<1>9. \A m, n \in 1 .. k : m < n => t[m] < t[n]
  BY <1>5, <1>6, <1>8 DEF Placed
<1>10. \A i \in 1 .. l : i \in places => \E n \in 1 .. k : t[n] = i
  BY <1>5, <1>6, <1>8 DEF Placed
<1>11. ToSet(t) = 1 .. l \cap places
  BY <1>6, <1>7, <1>8, <1>10 DEF ToSet
<1>12. Picked(l, places) = t
  BY <1>1, <1>3 DEF Picked
<1> QED
  BY <1>4, <1>6, <1>9, <1>11, <1>12

\* What is kept of any sequence is what it has there.
LEMMA KeptPicked ==
  ASSUME NEW s, Sequence(s), NEW places
  PROVE  Kept(s, places) = [j \in DOMAIN Picked(Len(s), places) |->
                              s[Picked(Len(s), places)[j]]]
<1>0. PICK S : s \in Seq(S)
  BY DEF Sequence
<1>1. PICK l \in Nat : s \in Seq(S) /\ l = Len(s) /\ DOMAIN s = 1 .. l
  BY <1>0
<1>2. PICK id : id = [i \in 1 .. l |-> i]
  OBVIOUS
<1>3. id \in Seq(1 .. l) /\ Len(id) = l
  BY <1>2
<1>3a. PICK u : Keeping(u, S, s, places)
  BY <1>1, KeptSteps
<1>3b. PICK v : Keeping(v, 1 .. l, id, places)
  BY <1>3, KeptSteps
<1>4. /\ Kept(s, places) = u[l] /\ u[0] = <<>>
      /\ \A n \in 0 .. l : u[n] \in Seq(S)
      /\ \A n \in 0 .. l - 1 :
           u[n + 1] = IF n + 1 \in places THEN Append(u[n], s[n + 1]) ELSE u[n]
  BY <1>1, <1>3a DEF Keeping
<1>5. /\ Kept(id, places) = v[l] /\ v[0] = <<>>
      /\ \A n \in 0 .. l : v[n] \in Seq(1 .. l)
      /\ \A n \in 0 .. l - 1 :
           v[n + 1] = IF n + 1 \in places THEN Append(v[n], id[n + 1]) ELSE v[n]
  BY <1>3, <1>3b DEF Keeping
<1> DEFINE Alike(a, b) == Len(a) = Len(b) /\ \A j \in 1 .. Len(a) : b[j] \in 1 .. l /\ a[j] = s[b[j]]
           T == {n \in Nat : n <= l => Alike(u[n], v[n])}
<1>6. 0 \in T
  BY <1>4, <1>5
<1>7. ASSUME NEW n \in Nat, n \in T PROVE n + 1 \in T
  <2> SUFFICES ASSUME n + 1 <= l PROVE Alike(u[n + 1], v[n + 1])
    OBVIOUS
  <2>1. PICK c \in 1 .. l : c = n + 1
    OBVIOUS
  <2>2. n \in 0 .. l /\ n \in 0 .. l - 1 /\ Alike(u[n], v[n])
    BY <1>7
  <2>3. PICK a \in Seq(S), b \in Seq(1 .. l) : a = u[n] /\ b = v[n]
    BY <1>4, <1>5, <2>2
  <2>4. u[c] = IF c \in places THEN Append(a, s[c]) ELSE a
    BY <1>4, <2>1, <2>2, <2>3
  <2>5. v[c] = IF c \in places THEN Append(b, c) ELSE b
    BY <1>2, <1>5, <2>1, <2>2, <2>3
  <2>6. s[c] \in S
    BY <1>1
  <2>7. Alike(a, b)
    BY <2>2, <2>3
  <2>8. Alike(Append(a, s[c]), Append(b, c))
    <3>0. Len(a) = Len(b) /\ Len(a) \in Nat
      BY <2>3, <2>7
    <3>1. PICK k \in Nat : k = Len(a) /\ k = Len(b)
      BY <3>0
    <3>1a. PICK e, x, y : e = s[c] /\ x = Append(a, e) /\ y = Append(b, c)
      OBVIOUS
    <3>1b. e \in S
      BY <2>6, <3>1a
    <3>2. Len(x) = k + 1 /\ x[k + 1] = e /\ \A j \in 1 .. k : x[j] = a[j]
      <4>1. Len(Append(a, e)) = Len(a) + 1 /\ Append(a, e)[Len(a) + 1] = e
            /\ \A j \in 1 .. Len(a) : Append(a, e)[j] = a[j]
        BY <3>1b, AppendProperties
      <4> QED
        BY <3>1, <3>1a, <4>1
    <3>2a. Len(y) = k + 1 /\ y[k + 1] = c /\ \A j \in 1 .. k : y[j] = b[j]
      <4>1. Len(Append(b, c)) = Len(b) + 1 /\ Append(b, c)[Len(b) + 1] = c
            /\ \A j \in 1 .. Len(b) : Append(b, c)[j] = b[j]
        BY AppendProperties
      <4> QED
        BY <3>1, <3>1a, <4>1
    <3>3. \A j \in 1 .. k + 1 : j \in 1 .. k \/ j = k + 1
      OBVIOUS
    <3>4. ASSUME NEW j \in 1 .. k + 1 PROVE y[j] \in 1 .. l /\ x[j] = s[y[j]]
      BY <2>7, <3>1, <3>1a, <3>2, <3>2a, <3>3
    <3> QED
      BY <3>1, <3>1a, <3>2, <3>2a, <3>4
  <2> QED
    BY <2>1, <2>4, <2>5, <2>7, <2>8
<1>8. Nat \subseteq T
  <2> HIDE DEF T
  <2> QED
    BY <1>6, <1>7, Induction
<1>9. Alike(u[l], v[l])
  BY <1>8
<1>10. PICK a, b : a \in Seq(S) /\ b \in Seq(1 .. l) /\ a = u[l] /\ b = v[l]
  <2>1. l \in 0 .. l
    OBVIOUS
  <2> QED
    BY <1>4, <1>5, <2>1
<1>11. a = [j \in DOMAIN b |-> s[b[j]]]
  <2>1. DOMAIN a = DOMAIN b /\ \A j \in DOMAIN a : a[j] = s[b[j]]
    BY <1>9, <1>10
  <2>2. a = [j \in DOMAIN a |-> a[j]]
    BY <1>10
  <2> QED
    BY <2>1, <2>2
<1> QED
  BY <1>1, <1>2, <1>4, <1>5, <1>10, <1>11 DEF Picked

\* All of a sequence is kept.
LEMMA KeptAll ==
  ASSUME NEW s, Sequence(s), NEW places, DOMAIN s \subseteq places
  PROVE  Kept(s, places) = s
<1>0. PICK S : s \in Seq(S)
  BY DEF Sequence
<1>1. PICK l \in Nat : l = Len(s) /\ DOMAIN s = 1 .. l
  BY <1>0
<1>2. PICK u : Keeping(u, S, s, places)
  BY <1>0, KeptSteps
<1>3. /\ Kept(s, places) = u[l] /\ u[0] = <<>>
      /\ \A n \in 0 .. l : u[n] \in Seq(S)
      /\ \A n \in 0 .. l - 1 :
           u[n + 1] = IF n + 1 \in places THEN Append(u[n], s[n + 1]) ELSE u[n]
  BY <1>1, <1>2 DEF Keeping
<1> DEFINE Same(a, n) == Len(a) = n /\ \A j \in 1 .. n : a[j] = s[j]
           T == {n \in Nat : n <= l => Same(u[n], n)}
<1>4. 0 \in T
  BY <1>3
<1>5. ASSUME NEW n \in Nat, n \in T PROVE n + 1 \in T
  <2> SUFFICES ASSUME n + 1 <= l PROVE Same(u[n + 1], n + 1)
    OBVIOUS
  <2>1. n \in 0 .. l - 1 /\ n + 1 \in DOMAIN s
    BY <1>1
  <2>2. u[n] \in Seq(S) /\ Same(u[n], n)
    BY <1>3, <1>5, <2>1
  <2>3. PICK e, a : e = s[n + 1] /\ a = u[n]
    OBVIOUS
  <2>4. e \in S /\ a \in Seq(S)
    BY <1>0, <2>1, <2>2, <2>3
  <2>5. Len(Append(a, e)) = Len(a) + 1 /\ Append(a, e)[Len(a) + 1] = e
        /\ \A j \in 1 .. Len(a) : Append(a, e)[j] = a[j]
    <3> HIDE DEF T, Same
    <3> QED
      BY <2>4, AppendProperties
  <2>6. u[n + 1] = Append(a, e)
    BY <1>3, <2>1, <2>3
  <2>7. \A j \in 1 .. n + 1 : j \in 1 .. n \/ j = n + 1
    OBVIOUS
  <2> QED
    BY <2>2, <2>3, <2>5, <2>6, <2>7
<1>6. Nat \subseteq T
  <2> HIDE DEF T
  <2> QED
    BY <1>4, <1>5, Induction
<1>7. l \in 0 .. l /\ Same(u[l], l)
  BY <1>6
<1>8. PICK a \in Seq(S) : a = u[l]
  BY <1>3, <1>7
<1>9. Len(a) = Len(s) /\ \A j \in 1 .. Len(a) : a[j] = s[j]
  BY <1>1, <1>7, <1>8
<1>10. a = s
  <2> HIDE DEF T, Same
  <2> QED
    BY <1>0, <1>9, SeqEqual
<1> QED
  BY <1>3, <1>8, <1>10

\* Whether anything is kept.
LEMMA NoneKept ==
  ASSUME NEW s, Sequence(s), NEW places
  PROVE  Kept(s, places) = <<>> <=> DOMAIN s \cap places = {}
<1>1. PICK t : t = Kept(s, places)
  OBVIOUS
<1>2. Sequence(t) /\ ToSet(t) = {s[i] : i \in DOMAIN s \cap places}
  BY <1>1, KeptSequence
<1>3. PICK S : t \in Seq(S)
  BY <1>2 DEF Sequence
<1>4. t = <<>> <=> ToSet(t) = {}
  <2>1. ASSUME t = <<>> PROVE ToSet(t) = {}
    BY <2>1 DEF ToSet
  <2>2. ASSUME t # <<>> PROVE ToSet(t) # {}
    <3>1. 1 \in DOMAIN t
      BY <1>3, <2>2
    <3> QED
      BY <3>1 DEF ToSet
  <2> QED
    BY <2>1, <2>2
<1> QED
  BY <1>1, <1>2, <1>4

\* The last one kept is the one at the last place.
LEMMA LastKept ==
  ASSUME NEW s, Sequence(s), NEW places, NEW m \in DOMAIN s \cap places,
         \A i \in DOMAIN s \cap places : i <= m
  PROVE  Last(Kept(s, places)) = s[m]
<1>1. PICK t : t = Kept(s, places)
  OBVIOUS
<1>2. Sequence(t) /\ \E place : PickedOut(t, s, places, place)
  BY <1>1, KeptPlaces
<1>3. PICK place : PickedOut(t, s, places, place)
  BY <1>2
<1>4. PICK k \in Nat : k = Len(t) /\ DOMAIN t = 1 .. k
  BY <1>2 DEF Sequence
<1>5. PICK r \in 1 .. k : place[r] = m
  BY <1>3, <1>4 DEF PickedOut
<1>6. k \in DOMAIN t
  BY <1>4
<1>7. place[k] \in DOMAIN s \cap places /\ t[k] = s[place[k]]
  BY <1>3, <1>6 DEF PickedOut
<1>8. r < k => place[r] < place[k]
  BY <1>3, <1>4, <1>6 DEF PickedOut
<1>9. place[k] <= m
  BY <1>7
<1>10. place[k] \in Nat /\ m \in Nat
  BY <1>7 DEF Sequence
<1>11. r = k
  BY <1>4, <1>5, <1>8, <1>9, <1>10
<1> QED
  BY <1>1, <1>4, <1>5, <1>7, <1>11 DEF Last

\* The same places of two sequences are kept together.
LEMMA KeptAlike ==
  ASSUME NEW s, NEW t, Sequence(s), Sequence(t), DOMAIN s = DOMAIN t, NEW places
  PROVE  /\ DOMAIN Kept(s, places) = DOMAIN Kept(t, places)
         /\ \A j \in DOMAIN Kept(s, places) : \E i \in DOMAIN s \cap places :
              Kept(s, places)[j] = s[i] /\ Kept(t, places)[j] = t[i]
<1>1. PICK l \in Nat : l = Len(s) /\ l = Len(t) /\ DOMAIN s = 1 .. l
  <2>1. PICK m \in Nat, n \in Nat : m = Len(s) /\ n = Len(t) /\ DOMAIN s = 1 .. m /\ DOMAIN t = 1 .. n
    BY DEF Sequence
  <2>2. m = n
    <3>1. ASSUME m < n PROVE FALSE
      <4>1. n \in 1 .. n /\ n \notin 1 .. m
        BY <3>1
      <4> QED
        BY <2>1, <4>1
    <3>2. ASSUME n < m PROVE FALSE
      <4>1. m \in 1 .. m /\ m \notin 1 .. n
        BY <3>2
      <4> QED
        BY <2>1, <4>1
    <3> QED
      BY <3>1, <3>2
  <2> QED
    BY <2>1, <2>2
<1>2. PICK pick : pick = Picked(l, places)
  OBVIOUS
<1>3. /\ Kept(s, places) = [j \in DOMAIN pick |-> s[pick[j]]]
      /\ Kept(t, places) = [j \in DOMAIN pick |-> t[pick[j]]]
  BY <1>1, <1>2, KeptPicked
<1>4. ToSet(pick) = 1 .. l \cap places
  BY <1>2, PickedFields
<1>5. \A j \in DOMAIN pick : pick[j] \in DOMAIN s \cap places
  BY <1>1, <1>4 DEF ToSet
<1> QED
  BY <1>3, <1>5

-----------------------------------------------------------------------------
(* What is joined.  *)

\* The steps of Concat.
Joining(upto, S, ss) ==
    /\ Concat(ss) = upto[Len(ss)] /\ upto[0] = <<>>
    /\ \A n \in 0 .. Len(ss) : upto[n] \in Seq(S)
    /\ \A n \in 0 .. Len(ss) - 1 : upto[n + 1] = upto[n] \o ss[n + 1]

\* Concat is the last of them.
LEMMA ConcatSteps ==
  ASSUME NEW S, NEW ss \in Seq(Seq(S))
  PROVE  \E upto : Joining(upto, S, ss)
<1> DEFINE Steps(u) ==
      u = [n \in 0 .. Len(ss) |-> IF n = 0 THEN <<>> ELSE u[n - 1] \o ss[n]]
<1>1. PICK l \in Nat : l = Len(ss) /\ DOMAIN ss = 1 .. l
  OBVIOUS
<1>2. PICK step : step = [k \in Nat \X Seq(S) |->
        IF k[1] + 1 \in 1 .. l THEN k[2] \o ss[k[1] + 1] ELSE k[2]]
  OBVIOUS
<1>3. step \in [Nat \X Seq(S) -> Seq(S)]
  <2>1. ASSUME NEW k \in Nat \X Seq(S)
        PROVE  (IF k[1] + 1 \in 1 .. l THEN k[2] \o ss[k[1] + 1] ELSE k[2]) \in Seq(S)
    <3>1. k[2] \in Seq(S)
      OBVIOUS
    <3>2. ASSUME k[1] + 1 \in 1 .. l PROVE ss[k[1] + 1] \in Seq(S)
      BY <1>1, <3>2
    <3> QED
      BY <3>1, <3>2
  <2> QED
    BY <1>2, <2>1
<1>4. <<>> \in Seq(S)
  OBVIOUS
<1>5. PICK g : UpTo(g, l, Seq(S), <<>>, step)
  BY <1>1, <1>3, <1>4, UpToExists
<1>6. /\ g \in [0 .. l -> Seq(S)] /\ g[0] = <<>>
      /\ \A i \in 0 .. l - 1 : g[i + 1] = step[<<i, g[i]>>]
  BY <1>5 DEF UpTo
<1>7. ASSUME NEW n \in 0 .. l - 1 PROVE g[n + 1] = g[n] \o ss[n + 1]
  <2>1. n \in Nat /\ n \in 0 .. l /\ n + 1 \in 1 .. l
    BY <1>1
  <2>2. PICK x \in Seq(S) : x = g[n]
    BY <1>6, <2>1
  <2>3. step[<<n, x>>] = x \o ss[n + 1]
    <3>1. <<n, x>> \in Nat \X Seq(S) /\ <<n, x>>[1] = n /\ <<n, x>>[2] = x
      BY <2>1
    <3> QED
      BY <1>2, <2>1, <3>1
  <2> QED
    BY <1>6, <2>2, <2>3
<1>8. Steps(g)
  <2>1. ASSUME NEW n \in 0 .. l
        PROVE  g[n] = IF n = 0 THEN <<>> ELSE g[n - 1] \o ss[n]
    <3>1. CASE n = 0
      BY <1>6, <3>1
    <3>2. CASE n # 0
      <4>1. n - 1 \in 0 .. l - 1 /\ (n - 1) + 1 = n
        BY <3>2
      <4> QED
        BY <1>7, <3>2, <4>1
    <3> QED
      BY <3>1, <3>2
  <2> QED
    BY <1>1, <1>6, <2>1
<1>9. PICK upto : upto = CHOOSE u : Steps(u)
  OBVIOUS
<1>10. Steps(upto)
  BY <1>8, <1>9
<1>11. Concat(ss) = upto[l]
  BY <1>1, <1>9 DEF Concat
<1>12. upto[0] = <<>>
  BY <1>1, <1>10
<1>13. ASSUME NEW n \in 0 .. l - 1 PROVE upto[n + 1] = upto[n] \o ss[n + 1]
  <2>1. n + 1 \in 0 .. l /\ n + 1 # 0 /\ (n + 1) - 1 = n
    OBVIOUS
  <2> QED
    BY <1>1, <1>10, <2>1
<1> HIDE DEF Steps
<1> DEFINE T == {n \in Nat : n <= l => upto[n] \in Seq(S)}
<1>14. 0 \in T
  BY <1>4, <1>12
<1>15. ASSUME NEW n \in Nat, n \in T PROVE n + 1 \in T
  <2> SUFFICES ASSUME n + 1 <= l PROVE upto[n + 1] \in Seq(S)
    OBVIOUS
  <2>1. n \in 0 .. l - 1 /\ n + 1 \in 1 .. l /\ upto[n] \in Seq(S)
    BY <1>15
  <2>2. PICK x \in Seq(S), y \in Seq(S) : x = upto[n] /\ y = ss[n + 1]
    BY <1>1, <2>1
  <2>3. upto[n + 1] = x \o y
    BY <1>13, <2>1, <2>2
  <2> QED
    BY <2>3
<1> HIDE DEF T
<1>16. Nat \subseteq T
  BY <1>14, <1>15, Induction
<1>17. \A n \in 0 .. l : upto[n] \in Seq(S)
  BY <1>16 DEF T
<1>18. Joining(upto, S, ss)
  BY <1>1, <1>11, <1>12, <1>13, <1>17 DEF Joining
<1> QED
  BY <1>18

\* What Concat returns: a sequence of the elements of its sequences.
LEMMA ConcatElements ==
  ASSUME NEW S, NEW ss \in Seq(Seq(S))
  PROVE  Concat(ss) \in Seq(S) /\ ToSet(Concat(ss)) = UNION {ToSet(ss[i]) : i \in DOMAIN ss}
<1>1. PICK l \in Nat : l = Len(ss) /\ DOMAIN ss = 1 .. l
  OBVIOUS
<1>2. PICK upto : Joining(upto, S, ss)
  BY ConcatSteps
<1>3. /\ Concat(ss) = upto[l] /\ upto[0] = <<>>
      /\ \A n \in 0 .. l : upto[n] \in Seq(S)
      /\ \A n \in 0 .. l - 1 : upto[n + 1] = upto[n] \o ss[n + 1]
  BY <1>1, <1>2 DEF Joining
<1> DEFINE T == {n \in Nat : n <= l => ToSet(upto[n]) = UNION {ToSet(ss[i]) : i \in 1 .. n}}
<1>4. 0 \in T
  BY <1>3 DEF ToSet
<1>5. ASSUME NEW n \in Nat, n \in T PROVE n + 1 \in T
  <2> SUFFICES ASSUME n + 1 <= l
               PROVE  ToSet(upto[n + 1]) = UNION {ToSet(ss[i]) : i \in 1 .. n + 1}
    OBVIOUS
  <2>1. n \in 0 .. l - 1 /\ n \in 0 .. l /\ n + 1 \in 1 .. l
    OBVIOUS
  <2>2. PICK a, b : a = upto[n] /\ b = ss[n + 1]
    OBVIOUS
  <2>3. a \in Seq(S) /\ b \in Seq(S)
    BY <1>1, <1>3, <2>1, <2>2
  <2>4. Sequence(a) /\ Sequence(b)
    BY <2>3, SequenceOf
  <2>5. ToSet(a \o b) = ToSet(a) \cup ToSet(b)
    BY <2>4, JoinedSequence
  <2>6. 1 .. n + 1 = 1 .. n \cup {n + 1}
    OBVIOUS
  <2>7. ToSet(a) = UNION {ToSet(ss[i]) : i \in 1 .. n}
    BY <1>5, <2>1, <2>2
  <2>8. upto[n + 1] = a \o b
    BY <1>3, <2>1, <2>2
  <2> QED
    BY <2>2, <2>5, <2>6, <2>7, <2>8
<1> HIDE DEF T
<1>6. Nat \subseteq T
  BY <1>4, <1>5, Induction
<1>7. ToSet(upto[l]) = UNION {ToSet(ss[i]) : i \in 1 .. l}
  BY <1>6 DEF T
<1>8. l \in 0 .. l
  OBVIOUS
<1> QED
  BY <1>1, <1>3, <1>7, <1>8

\* Joining nothing, and one more.
LEMMA ConcatEmpty == Concat(<<>>) = <<>>
<1>1. <<>> \in Seq(Seq({}))
  OBVIOUS
<1>2. PICK upto : Joining(upto, {}, <<>>)
  BY <1>1, ConcatSteps
<1> QED
  BY <1>2 DEF Joining

LEMMA ConcatAppend ==
  ASSUME NEW S, NEW a \in Seq(Seq(S)), NEW b \in Seq(S)
  PROVE  Concat(Append(a, b)) = Concat(a) \o b
<1>0. PICK c : c = Append(a, b)
  OBVIOUS
<1>1. PICK l \in Nat : l = Len(a) /\ c = Append(a, b)
  BY <1>0
<1>2. c \in Seq(Seq(S)) /\ Len(c) = l + 1 /\ c[l + 1] = b /\ \A i \in 1 .. l : c[i] = a[i]
  <2>1. PICK T : T = Seq(S)
    OBVIOUS
  <2>2. a \in Seq(T) /\ b \in T
    BY <2>1
  <2>3. Append(a, b) \in Seq(T) /\ Len(Append(a, b)) = Len(a) + 1
        /\ Append(a, b)[Len(a) + 1] = b
        /\ \A i \in 1 .. Len(a) : Append(a, b)[i] = a[i]
    BY <2>2, AppendProperties
  <2> QED
    BY <1>1, <2>1, <2>3
<1>3. PICK u : Joining(u, S, a)
  BY ConcatSteps
<1>4. PICK v : Joining(v, S, c)
  BY <1>2, ConcatSteps
<1>5. /\ Concat(a) = u[l] /\ u[0] = <<>>
      /\ \A n \in 0 .. l - 1 : u[n + 1] = u[n] \o a[n + 1]
  BY <1>1, <1>3 DEF Joining
<1>6. /\ Concat(c) = v[l + 1] /\ v[0] = <<>>
      /\ \A n \in 0 .. l : v[n + 1] = v[n] \o c[n + 1]
  <2>1. Concat(c) = v[Len(c)] /\ v[0] = <<>> /\ \A n \in 0 .. Len(c) - 1 : v[n + 1] = v[n] \o c[n + 1]
    BY <1>4 DEF Joining
  <2>2. PICK m \in Nat : m = Len(c) /\ m = l + 1
    BY <1>2
  <2>3. \A n \in 0 .. l : n \in 0 .. m - 1
    BY <2>2
  <2> QED
    BY <2>1, <2>2, <2>3
<1> DEFINE T == {n \in Nat : n <= l => u[n] = v[n]}
<1>7. 0 \in T
  BY <1>5, <1>6
<1>8. ASSUME NEW n \in Nat, n \in T PROVE n + 1 \in T
  <2> SUFFICES ASSUME n + 1 <= l PROVE u[n + 1] = v[n + 1]
    OBVIOUS
  <2>1. n \in 0 .. l - 1 /\ n \in 0 .. l /\ n + 1 \in 1 .. l /\ u[n] = v[n]
    BY <1>8
  <2>2. u[n + 1] = u[n] \o a[n + 1]
    BY <1>5, <2>1
  <2>3. v[n + 1] = v[n] \o c[n + 1]
    BY <1>6, <2>1
  <2>4. c[n + 1] = a[n + 1]
    BY <1>2, <2>1
  <2> QED
    BY <2>1, <2>2, <2>3, <2>4
<1> HIDE DEF T
<1>9. Nat \subseteq T
  BY <1>7, <1>8, Induction
<1>10. u[l] = v[l]
  BY <1>9 DEF T
<1>11. v[l + 1] = v[l] \o c[l + 1]
  <2>1. l \in 0 .. l
    OBVIOUS
  <2> QED
    BY <1>6, <2>1
<1> QED
  BY <1>1, <1>2, <1>5, <1>6, <1>10, <1>11

\* What adds nothing can be left out before joining.
LEMMA ConcatKept ==
  ASSUME NEW S, NEW ss \in Seq(Seq(S)), NEW places,
         \A i \in DOMAIN ss : i \notin places => ss[i] = <<>>
  PROVE  Concat(Kept(ss, places)) = Concat(ss)
<1>1. PICK l \in Nat : l = Len(ss) /\ DOMAIN ss = 1 .. l
  OBVIOUS
<1>2. PICK T : T = Seq(S) /\ ss \in Seq(T)
  OBVIOUS
<1>3. PICK u : Keeping(u, T, ss, places)
  BY <1>2, KeptSteps
<1>4. PICK v : Joining(v, S, ss)
  BY ConcatSteps
<1>5. /\ Kept(ss, places) = u[l] /\ u[0] = <<>>
      /\ \A n \in 0 .. l : u[n] \in Seq(T)
      /\ \A n \in 0 .. l - 1 :
           u[n + 1] = IF n + 1 \in places THEN Append(u[n], ss[n + 1]) ELSE u[n]
  BY <1>1, <1>3 DEF Keeping
<1>6. /\ Concat(ss) = v[l] /\ v[0] = <<>>
      /\ \A n \in 0 .. l : v[n] \in Seq(S)
      /\ \A n \in 0 .. l - 1 : v[n + 1] = v[n] \o ss[n + 1]
  BY <1>1, <1>4 DEF Joining
<1> DEFINE N == {n \in Nat : n <= l => Concat(u[n]) = v[n]}
<1>7. 0 \in N
  BY <1>5, <1>6, ConcatEmpty
<1>8. ASSUME NEW n \in Nat, n \in N PROVE n + 1 \in N
  <2> SUFFICES ASSUME n + 1 <= l PROVE Concat(u[n + 1]) = v[n + 1]
    OBVIOUS
  <2>1. n \in 0 .. l - 1 /\ n \in 0 .. l /\ n + 1 \in 1 .. l /\ Concat(u[n]) = v[n]
    BY <1>8
  <2>2. PICK a, b, x : a = u[n] /\ b = ss[n + 1] /\ x = v[n]
    OBVIOUS
  <2>3. a \in Seq(T) /\ b \in T /\ x \in Seq(S)
    <3>1. a \in Seq(T)
      BY <1>5, <2>1, <2>2
    <3>2. b \in T
      BY <1>1, <1>2, <2>1, <2>2
    <3>3. x \in Seq(S)
      BY <1>6, <2>1, <2>2
    <3> QED
      BY <3>1, <3>2, <3>3
  <2>4. v[n + 1] = x \o b
    BY <1>6, <2>1, <2>2
  <2>5. CASE n + 1 \in places
    <3>1. u[n + 1] = Append(a, b)
      BY <1>5, <2>1, <2>2, <2>5
    <3>2. Concat(Append(a, b)) = Concat(a) \o b
      BY <1>2, <2>3, ConcatAppend
    <3> QED
      BY <2>1, <2>2, <2>4, <3>1, <3>2
  <2>6. CASE n + 1 \notin places
    <3>1. u[n + 1] = a
      BY <1>5, <2>1, <2>2, <2>6
    <3>2. b = <<>>
      BY <1>1, <2>1, <2>2, <2>6
    <3>3. x \o <<>> = x
      BY <2>3, ConcatEmptySeq
    <3> QED
      BY <2>1, <2>2, <2>4, <3>1, <3>2, <3>3
  <2> QED
    BY <2>5, <2>6
<1> HIDE DEF N
<1>9. Nat \subseteq N
  BY <1>7, <1>8, Induction
<1>10. Concat(u[l]) = v[l]
  BY <1>9 DEF N
<1> QED
  BY <1>5, <1>6, <1>10

-----------------------------------------------------------------------------
(* The elements of one kind.  *)

Those(s, T) == Kept(s, {i \in DOMAIN s : s[i] \in T})

Joint(a, b, T) == Those(a \o b, T) = Those(a, T) \o Those(b, T)

\* Those of two sequences in a row.
LEMMA ThoseJoined ==
  ASSUME NEW S, NEW a \in Seq(S), NEW b \in Seq(S), NEW T
  PROVE  Joint(a, b, T)
<1>1a. PICK l \in Nat : l = Len(a)
  OBVIOUS
<1>1b. PICK m \in Nat : m = Len(b)
  OBVIOUS
<1>1c. PICK h \in Nat : h = l + m
  OBVIOUS
<1>1d. PICK c : c = a \o b
  OBVIOUS
<1>1. c = a \o b /\ l = Len(a) /\ m = Len(b) /\ h = l + m
  BY <1>1a, <1>1b, <1>1c, <1>1d
<1>2. l \in Nat /\ m \in Nat /\ h \in Nat /\ DOMAIN a = 1 .. l /\ DOMAIN b = 1 .. m
  BY <1>1
<1>3. /\ c \in Seq(S) /\ Len(c) = h /\ DOMAIN c = 1 .. h
      /\ \A i \in 1 .. l : c[i] = a[i]
      /\ \A i \in 1 .. m : c[l + i] = b[i]
  BY <1>1
<1>4. PICK A, B, C : /\ A = {i \in DOMAIN a : a[i] \in T} /\ B = {i \in DOMAIN b : b[i] \in T}
                     /\ C = {i \in DOMAIN c : c[i] \in T}
  OBVIOUS
<1>5. PICK u : Keeping(u, S, c, C)
  BY <1>3, KeptSteps
<1>6. PICK v : Keeping(v, S, a, A)
  BY KeptSteps
<1>7. PICK w : Keeping(w, S, b, B)
  BY KeptSteps
<1>8. /\ Those(c, T) = u[h] /\ u[0] = <<>>
      /\ \A n \in 0 .. h : u[n] \in Seq(S)
      /\ \A n \in 0 .. h - 1 :
           u[n + 1] = IF n + 1 \in C THEN Append(u[n], c[n + 1]) ELSE u[n]
  BY <1>3, <1>4, <1>5 DEF Keeping, Those
<1>9. /\ Those(a, T) = v[l] /\ v[0] = <<>>
      /\ \A n \in 0 .. l : v[n] \in Seq(S)
      /\ \A n \in 0 .. l - 1 :
           v[n + 1] = IF n + 1 \in A THEN Append(v[n], a[n + 1]) ELSE v[n]
  BY <1>1, <1>4, <1>6 DEF Keeping, Those
<1>10. /\ Those(b, T) = w[m] /\ w[0] = <<>>
       /\ \A n \in 0 .. m : w[n] \in Seq(S)
       /\ \A n \in 0 .. m - 1 :
            w[n + 1] = IF n + 1 \in B THEN Append(w[n], b[n + 1]) ELSE w[n]
  BY <1>1, <1>4, <1>7 DEF Keeping, Those
<1>10a. PICK r : r = [n \in Nat |-> v[l] \o w[n]]
  OBVIOUS
<1>10b. \A n \in Nat : r[n] = v[l] \o w[n]
  BY <1>10a
<1> DEFINE N == {n \in Nat : n <= l => u[n] = v[n]}
           M == {n \in Nat : n <= m => \A k \in Nat : k = l + n => u[k] = r[n]}
<1>11. 0 \in N
  BY <1>8, <1>9
<1>12. ASSUME NEW n \in Nat, n \in N PROVE n + 1 \in N
  <2> SUFFICES ASSUME n + 1 <= l PROVE u[n + 1] = v[n + 1]
    OBVIOUS
  <2>1. n \in 0 .. l - 1 /\ n \in 0 .. h - 1 /\ n + 1 \in 1 .. l /\ n + 1 \in 1 .. h /\ n <= l
    BY <1>1, <1>2
  <2>2. u[n] = v[n] /\ c[n + 1] = a[n + 1]
    BY <1>3, <1>12, <2>1
  <2>3. n + 1 \in C <=> n + 1 \in A
    BY <1>2, <1>3, <1>4, <2>1, <2>2
  <2>4. u[n + 1] = IF n + 1 \in C THEN Append(u[n], c[n + 1]) ELSE u[n]
    BY <1>8, <2>1
  <2>5. v[n + 1] = IF n + 1 \in A THEN Append(v[n], a[n + 1]) ELSE v[n]
    BY <1>9, <2>1
  <2> QED
    BY <2>2, <2>3, <2>4, <2>5
<1> HIDE DEF N
<1>13. Nat \subseteq N
  BY <1>11, <1>12, Induction
<1>14. u[l] = v[l] /\ v[l] \in Seq(S)
  BY <1>2, <1>9, <1>13 DEF N
<1>15. 0 \in M
  <2>1. \A k \in Nat : k = l + 0 => k = l
    BY <1>2
  <2>2. v[l] \o <<>> = v[l]
    BY <1>14, ConcatEmptySeq
  <2> QED
    BY <1>10, <1>10b, <1>14, <2>1, <2>2
<1>16. ASSUME NEW n \in Nat, n \in M PROVE n + 1 \in M
  <2> SUFFICES ASSUME n + 1 <= m, NEW j \in Nat, j = l + (n + 1) PROVE u[j] = r[n + 1]
    OBVIOUS
  <2>1. PICK k \in Nat : k = l + n /\ k + 1 = j
    BY <1>2
  <2>2. /\ n \in 0 .. m - 1 /\ n \in 0 .. m /\ n + 1 \in 1 .. m
        /\ k \in 0 .. h - 1 /\ k + 1 \in 1 .. h /\ n <= m
    BY <1>1, <1>2, <2>1
  <2>3. u[k] = v[l] \o w[n] /\ c[k + 1] = b[n + 1]
    BY <1>3, <1>10b, <1>16, <2>1, <2>2
  <2>4. k + 1 \in C <=> n + 1 \in B
    BY <1>2, <1>3, <1>4, <2>2, <2>3
  <2>5. u[k + 1] = IF k + 1 \in C THEN Append(u[k], c[k + 1]) ELSE u[k]
    BY <1>8, <2>2
  <2>6. w[n + 1] = IF n + 1 \in B THEN Append(w[n], b[n + 1]) ELSE w[n]
    BY <1>10, <2>2
  <2>7. PICK x, y, z : x = v[l] /\ y = w[n] /\ z = b[n + 1]
    OBVIOUS
  <2>8. x \in Seq(S) /\ y \in Seq(S) /\ z \in S
    BY <1>2, <1>10, <1>14, <2>2, <2>7
  <2>9. Append(x \o y, z) = x \o Append(y, z)
    <3>1. x \o y \in Seq(S) /\ <<z>> \in Seq(S)
      BY <2>8
    <3>2. Append(x \o y, z) = (x \o y) \o <<z>> /\ Append(y, z) = y \o <<z>>
      BY <2>8, <3>1, AppendIsConcat
    <3>3. (x \o y) \o <<z>> = x \o (y \o <<z>>)
      BY <2>8, <3>1, ConcatAssociative
    <3> QED
      BY <3>2, <3>3
  <2> QED
    <3>0. n + 1 \in Nat
      OBVIOUS
    <3>1a. r[n + 1] = v[l] \o w[n + 1]
      BY ONLY <1>10b, <3>0, Zenon
    <3>1. r[n + 1] = x \o w[n + 1]
      BY ONLY <3>1a, <2>7, Zenon
    <3>2. CASE n + 1 \in B
      <4>1. u[j] = Append(u[k], z) /\ w[n + 1] = Append(y, z)
        BY <2>1, <2>3, <2>4, <2>5, <2>6, <2>7, <3>2
      <4>2. u[k] = x \o y
        BY <2>3, <2>7
      <4> QED
        BY <2>9, <3>1, <4>1, <4>2
    <3>3. CASE n + 1 \notin B
      <4>1. u[j] = u[k] /\ w[n + 1] = y
        BY <2>1, <2>4, <2>5, <2>6, <2>7, <3>3
      <4>2. u[k] = x \o y
        BY <2>3, <2>7
      <4> QED
        BY <3>1, <4>1, <4>2
    <3> QED
      BY <3>2, <3>3
<1> HIDE DEF M
<1>17. Nat \subseteq M
  BY <1>15, <1>16, Induction
<1>18. u[h] = v[l] \o w[m]
  <2>1. u[h] = r[m]
    BY <1>1, <1>2, <1>17 DEF M
  <2>2. r[m] = v[l] \o w[m]
    BY <1>10b
  <2> QED
    BY <2>1, <2>2
<1> QED
  BY <1>1, <1>8, <1>9, <1>10, <1>18 DEF Joint

\* When one of the sequences joined has all elements of a kind, those are it.
LEMMA ConcatGroup ==
  ASSUME NEW S, NEW ss \in Seq(Seq(S)), NEW T, NEW k \in DOMAIN ss,
         ToSet(ss[k]) \subseteq T,
         \A j \in DOMAIN ss : j # k => ToSet(ss[j]) \cap T = {}
  PROVE  Those(Concat(ss), T) = ss[k]
<1>1. PICK l \in Nat : l = Len(ss) /\ DOMAIN ss = 1 .. l
  OBVIOUS
<1>2. PICK u : Joining(u, S, ss)
  BY ConcatSteps
<1>3. /\ Concat(ss) = u[l] /\ u[0] = <<>>
      /\ \A n \in 0 .. l : u[n] \in Seq(S)
      /\ \A n \in 0 .. l - 1 : u[n + 1] = u[n] \o ss[n + 1]
  BY <1>1, <1>2 DEF Joining
<1>4. ASSUME NEW j \in 1 .. l, j # k PROVE Those(ss[j], T) = <<>>
  <2>1. PICK t : t = ss[j] /\ t \in Seq(S)
    BY <1>1
  <2>2. Sequence(t)
    BY <2>1, SequenceOf
  <2>3. DOMAIN t \cap {i \in DOMAIN t : t[i] \in T} = {}
    BY <1>1, <1>4, <2>1 DEF ToSet
  <2> QED
    BY <2>1, <2>2, <2>3, NoneKept DEF Those
<1>5. Those(ss[k], T) = ss[k]
  <2>1. PICK t : t = ss[k] /\ t \in Seq(S)
    BY <1>1
  <2>2. Sequence(t)
    BY <2>1, SequenceOf
  <2>3. DOMAIN t \subseteq {i \in DOMAIN t : t[i] \in T}
    BY <2>1 DEF ToSet
  <2> QED
    BY <2>1, <2>2, <2>3, KeptAll DEF Those
<1> DEFINE N == {n \in Nat : n <= l => ((n < k => Those(u[n], T) = <<>>)
                                      /\ (~(n < k) => Those(u[n], T) = ss[k]))}
<1>6. 0 \in N
  <2>1. PICK e : e = <<>>
    OBVIOUS
  <2>2. Sequence(e) /\ DOMAIN e = {}
    <3>1. e \in Seq(S)
      BY <2>1
    <3>2. Sequence(e)
      BY <3>1, SequenceOf
    <3> QED
      BY <2>1, <3>2
  <2>2a. Those(<<>>, T) = <<>>
    BY <2>1, <2>2, NoneKept DEF Those
  <2>3. 0 < k
    BY <1>1
  <2> QED
    BY <1>3, <2>2a, <2>3
<1>7. ASSUME NEW n \in Nat, n \in N PROVE n + 1 \in N
  <2> SUFFICES ASSUME n + 1 <= l 
               PROVE  (n + 1 < k => Those(u[n + 1], T) = <<>>)
                      /\ (~(n + 1 < k) => Those(u[n + 1], T) = ss[k])
    OBVIOUS
  <2>1. n \in 0 .. l - 1 /\ n \in 0 .. l /\ n + 1 \in 1 .. l
    OBVIOUS
  <2>2a. PICK a : a = u[n]
    OBVIOUS
  <2>2b. PICK b : b = ss[n + 1]
    OBVIOUS
  <2>2. a = u[n] /\ b = ss[n + 1] /\ a \in Seq(S) /\ b \in Seq(S) /\ u[n + 1] = a \o b
    <3>1. a \in Seq(S) /\ u[n + 1] = u[n] \o ss[n + 1]
      BY <1>3, <2>1, <2>2a
    <3>2. b \in Seq(S)
      BY <1>1, <2>1, <2>2b
    <3> QED
      BY <2>2a, <2>2b, <3>1, <3>2
  <2>3. Those(u[n + 1], T) = Those(a, T) \o Those(b, T)
    <3>1a. a \in Seq(S)
      BY <2>2
    <3>1b. b \in Seq(S)
      BY <2>2
    <3>2a. Joint(a, b, T)
      BY ONLY <3>1a, <3>1b, ThoseJoined
    <3>2. Those(a \o b, T) = Those(a, T) \o Those(b, T)
      BY ONLY <3>2a DEF Joint
    <3>3. u[n + 1] = a \o b
      BY <2>2
    <3> QED
      BY ONLY <3>2, <3>3, Zenon
  <2>4. (n < k => Those(a, T) = <<>>) /\ (~(n < k) => Those(a, T) = ss[k])
    BY <1>7, <2>1, <2>2
  <2>5. k \in Nat /\ ss[k] \in Seq(S) /\ ss[k] \o <<>> = ss[k] /\ <<>> \o ss[k] = ss[k]
        /\ <<>> \o <<>> = <<>>
    BY <1>1, ConcatEmptySeq
  <2>6. CASE n + 1 = k
    <3>1. n < k /\ ~(n + 1 < k) /\ Those(b, T) = ss[k]
      BY <1>5, <2>2, <2>6
    <3> QED
      BY <2>3, <2>4, <2>5, <3>1
  <2>7. CASE n + 1 # k
    <3>1. Those(b, T) = <<>> /\ (n + 1 < k <=> n < k)
      BY <1>4, <2>1, <2>2, <2>5, <2>7
    <3> QED
      BY <2>3, <2>4, <2>5, <3>1
  <2> QED
    BY <2>6, <2>7
<1> HIDE DEF N
<1>8. Nat \subseteq N
  BY <1>6, <1>7, Induction
<1>9. l <= l /\ ~(l < k)
  BY <1>1
<1> QED
  BY <1>3, <1>8, <1>9 DEF N
=============================================================================
