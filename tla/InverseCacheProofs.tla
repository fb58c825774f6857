------------------------- MODULE InverseCacheProofs -------------------------
(***************************************************************************)
(* Proof, for any set of addresses and any number of entries, that the     *)
(* links of multicast.c's address cache stay sound and that the cache      *)
(* implements RecencyList.                                                 *)
(*                                                                         *)
(* The list is found by walking the heap, which says nothing of what a     *)
(* change to three entries does to the walk.  The invariant names the      *)
(* order of the entries instead (Listed), and the walk is shown to follow  *)
(* it, however many entries there are (ChainIsOrder).                      *)
(***************************************************************************)
EXTENDS InverseCache, Iteration, SequenceTheorems, FiniteSetTheorems

Record == [next : Nat \cup {NULL}, prev : Nat \cup {NULL}, sock : Socks]

\* The entries of the heap h are linked in the order p, from hd on.
Ordered(p, h) ==
    /\ h \in Seq(Record) /\ p \in Seq(Nat) /\ Len(p) = Len(h)
    /\ \A i \in 1 .. Len(p) : p[i] \in DOMAIN h
    /\ \A i, j \in 1 .. Len(p) : p[i] = p[j] => i = j
    /\ \A e \in DOMAIN h : \E i \in 1 .. Len(p) : p[i] = e
    /\ \A i, j \in 1 .. Len(p) : h[p[i]].sock = h[p[j]].sock => i = j

Linked(p, hd, h) ==
    /\ hd = IF p = <<>> THEN NULL ELSE p[1]
    /\ \A i \in 1 .. Len(p) :
         /\ h[p[i]].next = IF i = Len(p) THEN NULL ELSE p[i + 1]
         /\ h[p[i]].prev = IF i = 1 THEN NULL ELSE p[i - 1]

Listed(p, hd, h) == Ordered(p, h) /\ Linked(p, hd, h)

IInv == Listed(Chain, head, heap)

-----------------------------------------------------------------------------
(* The walk.  *)

Prefix(p, n) == [i \in 1 .. (IF n <= Len(p) THEN n ELSE Len(p)) |-> p[i]]

\* What the walk makes of what it has visited.
Visited(w, hd, h) ==
    LET ic == IF w = <<>> THEN hd ELSE h[w[Len(w)]].next
    IN  IF ic = NULL THEN w ELSE Append(w, ic)

\* A step of the walk visits the next entry in order, or none at the end.
LEMMA VisitsNext ==
  ASSUME NEW p, NEW hd, NEW h, Listed(p, hd, h), NEW n \in Nat
  PROVE  Visited(Prefix(p, n), hd, h) = Prefix(p, n + 1)
<1>1. p \in Seq(Nat) /\ Len(p) \in Nat /\ \A i \in 1 .. Len(p) : p[i] \in Nat
  BY LenProperties, ElementOfSeq DEF Listed, Ordered
<1>2. PICK w : w = Prefix(p, n)
  OBVIOUS
<1>3. CASE n < Len(p)
  <2>1. w = [i \in 1 .. n |-> p[i]]
    BY <1>2, <1>3 DEF Prefix
  <2>2. w \in Seq(Nat) /\ Len(w) = n /\ \A i \in 1 .. n : w[i] = p[i]
    BY <1>1, <1>3, <2>1
  <2>3. p[n + 1] \in Nat /\ p[n + 1] # NULL
    BY <1>1, <1>3, NullAssumption
  <2>4. (IF w = <<>> THEN hd ELSE h[w[Len(w)]].next) = p[n + 1]
    <3>1. CASE n = 0
      <4>1. w = <<>> /\ p # <<>>
        BY <1>3, <2>1, <3>1
      <4> QED
        BY <3>1, <4>1 DEF Listed, Linked
    <3>2. CASE n # 0
      <4>1. w # <<>> /\ w[Len(w)] = p[n] /\ n \in 1 .. Len(p) /\ n # Len(p)
        BY <1>3, <2>2, <3>2
      <4> QED
        BY <4>1 DEF Listed, Linked
    <3> QED
      BY <3>1, <3>2
  <2>5. Visited(w, hd, h) = Append(w, p[n + 1])
    BY <2>3, <2>4 DEF Visited
  <2>6. Prefix(p, n + 1) = [i \in 1 .. n + 1 |-> p[i]]
    BY <1>1, <1>3 DEF Prefix
  <2>7. Append(w, p[n + 1]) = [i \in 1 .. n + 1 |-> p[i]]
    <3>1. PICK v : v = Append(w, p[n + 1])
      OBVIOUS
    <3>2. /\ v \in Seq(Nat) /\ Len(v) = n + 1 /\ v[n + 1] = p[n + 1]
          /\ \A i \in 1 .. n : v[i] = w[i]
      BY <2>2, <2>3, <3>1, AppendProperties
    <3>3. \A i \in 1 .. n + 1 : v[i] = p[i]
      BY <2>2, <3>2
    <3> QED
      BY <3>1, <3>2, <3>3
  <2> QED
    BY <1>2, <2>5, <2>6, <2>7
<1>4. CASE ~(n < Len(p))
  <2>1. Prefix(p, n) = p /\ Prefix(p, n + 1) = p
    <3>1. /\ Prefix(p, n) = [i \in 1 .. Len(p) |-> p[i]]
          /\ Prefix(p, n + 1) = [i \in 1 .. Len(p) |-> p[i]]
      BY <1>1, <1>4 DEF Prefix
    <3>2. p = [i \in 1 .. Len(p) |-> p[i]]
      BY <1>1
    <3> QED
      BY <3>1, <3>2
  <2>2. CASE p = <<>>
    BY <2>1, <2>2 DEF Visited, Listed, Linked
  <2>3. CASE p # <<>>
    <3>1. Len(p) \in 1 .. Len(p)
      BY <1>1, <2>3
    <3>2. h[p[Len(p)]].next = NULL
      BY <3>1 DEF Listed, Linked
    <3> QED
      BY <2>1, <2>3, <3>2 DEF Visited
  <2> QED
    BY <2>2, <2>3
<1> QED
  BY <1>1, <1>3, <1>4

\* The search visits the entries in their order.
LEMMA ChainIsOrder ==
  ASSUME NEW p, Listed(p, head, heap)
  PROVE  Chain = p
<1> DEFINE Walks(walk) ==
      walk = [n \in Nat |->
                IF n = 0 THEN <<>>
                ELSE LET w == walk[n - 1]
                         ic == IF w = <<>> THEN head ELSE heap[w[Len(w)]].next
                     IN  IF ic = NULL THEN w ELSE Append(w, ic)]
<1>1. PICK f : f = [n \in Nat |-> Prefix(p, n)]
  OBVIOUS
<1>2. Prefix(p, 0) = <<>>
  BY LenProperties DEF Prefix, Listed, Ordered
<1>3. Walks(f)
  <2>1. ASSUME NEW n \in Nat
        PROVE  f[n] = IF n = 0 THEN <<>> ELSE Visited(f[n - 1], head, heap)
    <3>1. CASE n = 0
      BY <1>1, <1>2, <3>1
    <3>2. CASE n # 0
      <4>1. n - 1 \in Nat /\ n = (n - 1) + 1
        BY <3>2
      <4> QED
        BY <1>1, <3>2, <4>1, VisitsNext
    <3> QED
      BY <3>1, <3>2
  <2>2. f = [n \in Nat |-> IF n = 0 THEN <<>> ELSE Visited(f[n - 1], head, heap)]
    BY <1>1, <2>1
  <2> QED
    BY <2>2 DEF Visited
<1>4. PICK walk : walk = CHOOSE w : Walks(w)
  OBVIOUS
<1>5. Walks(walk)
  BY <1>3, <1>4
<1>6. \A n \in Nat : walk[n] = IF n = 0 THEN <<>> ELSE Visited(walk[n - 1], head, heap)
  BY <1>5 DEF Visited
<1>7. Chain = walk[Cardinality(Entries) + 1]
  BY <1>4 DEF Chain
<1> HIDE DEF Walks
<1> DEFINE T == {n \in Nat : walk[n] = Prefix(p, n)}
<1>8. 0 \in T
  BY <1>2, <1>6
<1>9. ASSUME NEW n \in Nat, n \in T PROVE n + 1 \in T
  <2>1. n + 1 \in Nat /\ n + 1 # 0 /\ (n + 1) - 1 = n
    OBVIOUS
  <2>2. walk[n + 1] = Visited(walk[n], head, heap)
    BY <1>6, <2>1
  <2> QED
    BY <1>9, <2>1, <2>2, VisitsNext
<1> HIDE DEF T
<1>10. Nat \subseteq T
  BY <1>8, <1>9, Induction
<1>11. Cardinality(Entries) = Len(p)
  <2>1. Entries = 1 .. Len(p) /\ Len(p) \in Nat
    BY LenProperties DEF Listed, Ordered, Entries
  <2>2. PICK n \in Nat : n = Len(p)
    BY <2>1
  <2>3. 1 \in Int /\ n \in Int /\ (IF 1 > n THEN 0 ELSE n - 1 + 1) = n
    OBVIOUS
  <2>4. Cardinality(1 .. n) = IF 1 > n THEN 0 ELSE n - 1 + 1
    BY <2>3, FS_Interval
  <2> QED
    BY <2>1, <2>2, <2>3, <2>4
<1>12. Len(p) \in Nat /\ Prefix(p, Len(p) + 1) = p
  <2>1. p \in Seq(Nat) /\ Len(p) \in Nat
    BY LenProperties DEF Listed, Ordered
  <2> QED
    BY <2>1 DEF Prefix
<1>13. walk[Len(p) + 1] = Prefix(p, Len(p) + 1)
  BY <1>10, <1>12 DEF T
<1> QED
  BY <1>7, <1>11, <1>12, <1>13

-----------------------------------------------------------------------------
(* Bringing to the front.  *)

From(i, j) == IF j = 1 THEN i ELSE IF j <= i THEN j - 1 ELSE j
ToFront(l, i) == [j \in 1 .. Len(l) |-> l[From(i, j)]]

\* The places of a list, each once, the i-th first.
LEMMA FromPermutes ==
  ASSUME NEW n \in Nat, NEW i \in 1 .. n
  PROVE  /\ \A j \in 1 .. n : From(i, j) \in 1 .. n
         /\ \A j, k \in 1 .. n : From(i, j) = From(i, k) => j = k
         /\ \A k \in 1 .. n : \E j \in 1 .. n : From(i, j) = k
<1>1. ASSUME NEW k \in 1 .. n PROVE \E j \in 1 .. n : From(i, j) = k
  <2>1. CASE k = i
    <3>1. 1 \in 1 .. n /\ From(i, 1) = k
      BY <2>1 DEF From
    <3> QED
      BY <3>1
  <2>2. CASE k < i
    <3>1. k + 1 \in 1 .. n /\ From(i, k + 1) = k
      BY <2>2 DEF From
    <3> QED
      BY <3>1
  <2>3. CASE k > i
    <3>1. From(i, k) = k
      BY <2>3 DEF From
    <3> QED
      BY <3>1
  <2> QED
    BY <2>1, <2>2, <2>3
<1>2. ASSUME NEW j \in 1 .. n PROVE From(i, j) \in 1 .. n
  BY DEF From
<1>3. ASSUME NEW j \in 1 .. n, NEW k \in 1 .. n, From(i, j) = From(i, k) PROVE j = k
  BY <1>3 DEF From
<1> QED
  BY <1>1, <1>2, <1>3

\* AtFront of a list whose head is hd.
Fronted(u, hd, ic) ==
    [e \in DOMAIN u |->
       IF e = ic THEN [u[e] EXCEPT !.next = hd, !.prev = NULL]
       ELSE IF e = hd THEN [u[e] EXCEPT !.prev = ic]
       ELSE u[e]]

\* The entries of a hit, once it is out of its place and at the front.
Moved(h, hd, ic) == Fronted(Unlinked(h, ic), hd, ic)

\* Every field after the move, by the place of its entry.
LEMMA MovedFields ==
  ASSUME NEW p, NEW hd, NEW h, Listed(p, hd, h), NEW i \in 1 .. Len(p), i # 1,
         NEW g, g = Moved(h, hd, p[i])
  PROVE  /\ DOMAIN g = DOMAIN h
         /\ \A k \in 1 .. Len(p) :
              g[p[k]] = [next |-> IF k = i THEN p[1]
                                  ELSE IF k = i - 1 THEN h[p[i]].next
                                  ELSE h[p[k]].next,
                         prev |-> IF k = i THEN NULL
                                  ELSE IF k = 1 THEN p[i]
                                  ELSE IF k = i + 1 THEN p[i - 1]
                                  ELSE h[p[k]].prev,
                         sock |-> h[p[k]].sock]
<1>1. PICK u : u = Unlinked(h, p[i])
  OBVIOUS
<1>2. /\ Len(p) \in Nat /\ p # <<>> /\ hd = p[1] /\ i - 1 \in 1 .. Len(p)
      /\ \A k \in 1 .. Len(p) : p[k] \in DOMAIN h /\ p[k] \in Nat /\ p[k] # NULL
      /\ \A j, k \in 1 .. Len(p) : p[j] = p[k] => j = k
  <2>1. Len(p) \in Nat /\ \A k \in 1 .. Len(p) : p[k] \in Nat
    BY LenProperties, ElementOfSeq DEF Listed, Ordered
  <2>2. p # <<>>
    BY EmptySeq
  <2> QED
    BY <2>1, <2>2, NullAssumption DEF Listed, Ordered, Linked
<1>3. h[p[i]].prev = p[i - 1] /\ h[p[i]].next = IF i = Len(p) THEN NULL ELSE p[i + 1]
  BY DEF Listed, Linked
<1>4. ASSUME NEW k \in 1 .. Len(p)
      PROVE  \E r \in Record : r = h[p[k]]
                 /\ r = [next |-> r.next, prev |-> r.prev, sock |-> r.sock]
  <2>1. p[k] \in 1 .. Len(h)
    BY <1>2, LenProperties DEF Listed, Ordered
  <2>2. h[p[k]] \in Record
    BY <2>1, ElementOfSeq DEF Listed, Ordered
  <2> QED
    BY <2>2 DEF Record
<1>5. /\ DOMAIN u = DOMAIN h
      /\ \A e \in DOMAIN h :
           u[e] = IF e = p[i - 1] THEN [h[e] EXCEPT !.next = h[p[i]].next]
                  ELSE IF e = h[p[i]].next THEN [h[e] EXCEPT !.prev = p[i - 1]]
                  ELSE h[e]
  BY <1>1, <1>3 DEF Unlinked
<1>6. ASSUME NEW k \in 1 .. Len(p)
      PROVE  u[p[k]] = [next |-> IF k = i - 1 THEN h[p[i]].next ELSE h[p[k]].next,
                        prev |-> IF k = i + 1 THEN p[i - 1] ELSE h[p[k]].prev,
                        sock |-> h[p[k]].sock]
  <2>1. PICK r \in Record : r = h[p[k]]
                 /\ r = [next |-> r.next, prev |-> r.prev, sock |-> r.sock]
    BY <1>4
  <2>2. CASE k = i - 1
    <3>1. u[p[k]] = [r EXCEPT !.next = h[p[i]].next]
      BY <1>2, <1>5, <2>1, <2>2
    <3> QED
      BY <2>1, <2>2, <3>1
  <2>3. CASE k = i + 1
    <3>1. i # Len(p) /\ h[p[i]].next = p[k] /\ p[k] # p[i - 1]
      BY <1>2, <1>3, <2>3
    <3>2. u[p[k]] = [r EXCEPT !.prev = p[i - 1]]
      BY <1>2, <1>5, <2>1, <3>1
    <3> QED
      BY <2>1, <2>3, <3>2
  <2>4. CASE k # i - 1 /\ k # i + 1
    <3>1. p[k] # p[i - 1]
      BY <1>2, <2>4
    <3>2. p[k] # h[p[i]].next
      <4>1. CASE i = Len(p)
        BY <4>1, <1>2, <1>3
      <4>2. CASE i # Len(p)
        <5>1. i + 1 \in 1 .. Len(p)
          BY <4>2, <1>2
        <5> QED
          BY <4>2, <5>1, <1>2, <1>3, <2>4
      <4> QED
        BY <4>1, <4>2
    <3>3. u[p[k]] = r
      BY <1>2, <1>5, <2>1, <3>1, <3>2
    <3> QED
      BY <2>1, <2>4, <3>3
  <2> QED
    BY <2>2, <2>3, <2>4
<1>7. /\ DOMAIN g = DOMAIN h
      /\ \A e \in DOMAIN h :
           g[e] = IF e = p[i] THEN [u[e] EXCEPT !.next = p[1], !.prev = NULL]
                  ELSE IF e = p[1] THEN [u[e] EXCEPT !.prev = p[i]]
                  ELSE u[e]
  BY <1>1, <1>2, <1>5 DEF Moved, Fronted
<1>8. ASSUME NEW k \in 1 .. Len(p)
      PROVE  g[p[k]] = [next |-> IF k = i THEN p[1]
                                 ELSE IF k = i - 1 THEN h[p[i]].next
                                 ELSE h[p[k]].next,
                        prev |-> IF k = i THEN NULL
                                 ELSE IF k = 1 THEN p[i]
                                 ELSE IF k = i + 1 THEN p[i - 1]
                                 ELSE h[p[k]].prev,
                        sock |-> h[p[k]].sock]
  <2>1. PICK x, y, z : u[p[k]] = [next |-> x, prev |-> y, sock |-> z]
                       /\ x = (IF k = i - 1 THEN h[p[i]].next ELSE h[p[k]].next)
                       /\ y = (IF k = i + 1 THEN p[i - 1] ELSE h[p[k]].prev)
                       /\ z = h[p[k]].sock
    <3>1. u[p[k]] = [next |-> IF k = i - 1 THEN h[p[i]].next ELSE h[p[k]].next,
                     prev |-> IF k = i + 1 THEN p[i - 1] ELSE h[p[k]].prev,
                     sock |-> h[p[k]].sock]
      BY <1>6
    <3> QED
      BY <3>1
  <2>2. CASE k = i
    <3>1. g[p[k]] = [u[p[k]] EXCEPT !.next = p[1], !.prev = NULL]
      BY <1>2, <1>7, <2>2
    <3>2. PICK q : q = [u[p[k]] EXCEPT !.next = p[1]]
      OBVIOUS
    <3>3. q = [next |-> p[1], prev |-> y, sock |-> z] /\ g[p[k]] = [q EXCEPT !.prev = NULL]
      BY <2>1, <3>1, <3>2
    <3>4. g[p[k]] = [next |-> p[1], prev |-> NULL, sock |-> z]
      BY <3>3
    <3> QED
      BY <2>1, <2>2, <3>4
  <2>3. CASE k = 1
    <3>1. p[k] # p[i] /\ p[k] = p[1]
      BY <1>2, <2>3
    <3>2. g[p[k]] = [u[p[k]] EXCEPT !.prev = p[i]]
      BY <1>2, <1>7, <3>1
    <3>3. g[p[k]] = [next |-> x, prev |-> p[i], sock |-> z]
      BY <2>1, <3>2
    <3> QED
      BY <2>1, <2>3, <3>3
  <2>4. CASE k # i /\ k # 1
    <3>1. p[k] # p[i] /\ p[k] # p[1]
      <4>1. 1 \in 1 .. Len(p)
        BY <1>2
      <4> QED
        BY <1>2, <2>4, <4>1
    <3>2. g[p[k]] = u[p[k]]
      BY <1>2, <1>7, <3>1
    <3> QED
      BY <2>1, <2>4, <3>2
  <2> QED
    BY <2>2, <2>3, <2>4
<1> QED
  BY <1>7, <1>8

\* A hit further down leaves the list in order, its entry first.
LEMMA HitReorders ==
  ASSUME NEW p, NEW hd, NEW h, Listed(p, hd, h), NEW i \in 1 .. Len(p), i # 1,
         NEW g, g = Moved(h, hd, p[i]), NEW q, q = ToFront(p, i)
  PROVE  /\ Listed(q, p[i], g)
         /\ Len(q) = Len(p) /\ \A k \in 1 .. Len(p) : g[p[k]].sock = h[p[k]].sock
<1>1. PICK n \in Nat : n = Len(p) /\ n = Len(h) /\ i \in 1 .. n /\ n # 0
  BY LenProperties DEF Listed, Ordered
<1>2. /\ DOMAIN h = 1 .. n
      /\ \A k \in 1 .. n : p[k] \in 1 .. n /\ p[k] \in Nat /\ h[p[k]] \in Record
      /\ \A j, k \in 1 .. n : p[j] = p[k] => j = k
      /\ \A e \in 1 .. n : \E k \in 1 .. n : p[k] = e
      /\ \A j, k \in 1 .. n : h[p[j]].sock = h[p[k]].sock => j = k
  <2>1. h \in Seq(Record) /\ p \in Seq(Nat) /\ DOMAIN h = 1 .. n
    BY <1>1, LenProperties DEF Listed, Ordered
  <2>2. ASSUME NEW k \in 1 .. n PROVE p[k] \in 1 .. n /\ p[k] \in Nat /\ h[p[k]] \in Record
    <3>1. p[k] \in 1 .. n
      BY <1>1, <2>1 DEF Listed, Ordered
    <3> QED
      BY <1>1, <2>1, <3>1, ElementOfSeq
  <2> QED
    BY <1>1, <2>1, <2>2 DEF Listed, Ordered
<1>3. \A k \in 1 .. n :
        /\ h[p[k]].next = IF k = n THEN NULL ELSE p[k + 1]
        /\ h[p[k]].prev = IF k = 1 THEN NULL ELSE p[k - 1]
  BY <1>1 DEF Listed, Linked
<1>4. DOMAIN g = 1 .. n
  <2>1. DOMAIN g = DOMAIN h
    BY MovedFields
  <2> QED
    BY <1>2, <2>1
<1>5. ASSUME NEW k \in 1 .. n
      PROVE  /\ g[p[k]].next = IF k = i THEN p[1]
                               ELSE IF k = i - 1 THEN (IF i = n THEN NULL ELSE p[i + 1])
                               ELSE IF k = n THEN NULL ELSE p[k + 1]
             /\ g[p[k]].prev = IF k = i THEN NULL
                               ELSE IF k = 1 THEN p[i]
                               ELSE IF k = i + 1 THEN p[i - 1]
                               ELSE p[k - 1]
             /\ g[p[k]].sock = h[p[k]].sock
             /\ g[p[k]] \in Record
  <2>1. PICK x, y, z : g[p[k]] = [next |-> x, prev |-> y, sock |-> z]
                       /\ x = (IF k = i THEN p[1]
                               ELSE IF k = i - 1 THEN h[p[i]].next
                               ELSE h[p[k]].next)
                       /\ y = (IF k = i THEN NULL
                               ELSE IF k = 1 THEN p[i]
                               ELSE IF k = i + 1 THEN p[i - 1]
                               ELSE h[p[k]].prev)
                       /\ z = h[p[k]].sock
    <3>1. g[p[k]] = [next |-> IF k = i THEN p[1]
                              ELSE IF k = i - 1 THEN h[p[i]].next
                              ELSE h[p[k]].next,
                     prev |-> IF k = i THEN NULL
                              ELSE IF k = 1 THEN p[i]
                              ELSE IF k = i + 1 THEN p[i - 1]
                              ELSE h[p[k]].prev,
                     sock |-> h[p[k]].sock]
      <4>1. k \in 1 .. Len(p)
        BY <1>1
      <4> QED
        BY <4>1, MovedFields
    <3> QED
      BY <3>1
  <2>2. x = (IF k = i THEN p[1]
             ELSE IF k = i - 1 THEN (IF i = n THEN NULL ELSE p[i + 1])
             ELSE IF k = n THEN NULL ELSE p[k + 1])
    BY <1>1, <1>3, <2>1
  <2>3. y = (IF k = i THEN NULL
             ELSE IF k = 1 THEN p[i]
             ELSE IF k = i + 1 THEN p[i - 1]
             ELSE p[k - 1])
    BY <1>1, <1>3, <2>1
  <2>4. x \in Nat \cup {NULL}
    <3>1. CASE k = i
      <4>1. p[1] \in Nat
        BY <1>1, <1>2
      <4> QED
        BY <3>1, <4>1, <2>2
    <3>2. CASE k # i
      <4>1. h[p[i]].next \in Nat \cup {NULL} /\ h[p[k]].next \in Nat \cup {NULL}
        BY <1>1, <1>2 DEF Record
      <4> QED
        BY <3>2, <4>1, <2>1
    <3> QED
      BY <3>1, <3>2
  <2>5. y \in Nat \cup {NULL}
    <3>1. p[i] \in Nat /\ p[i - 1] \in Nat /\ h[p[k]].prev \in Nat \cup {NULL}
      <4>1. i - 1 \in 1 .. n
        BY <1>1
      <4> QED
        BY <4>1, <1>1, <1>2 DEF Record
    <3> QED
      BY <3>1, <2>1
  <2>6. z \in Socks
    BY <1>2, <2>1 DEF Record
  <2>7. g[p[k]] \in Record
    BY <2>1, <2>4, <2>5, <2>6 DEF Record
  <2> QED
    BY <2>1, <2>2, <2>3, <2>7
<1>6. g \in Seq(Record) /\ Len(g) = n
  <2>1. ASSUME NEW e \in 1 .. n PROVE g[e] \in Record
    <3>1. PICK k \in 1 .. n : p[k] = e
      BY <1>2
    <3>2. g[p[k]] \in Record
      BY <1>5
    <3> QED
      BY <3>1, <3>2
  <2>2. g = [e \in 1 .. n |-> g[e]]
    BY <1>4 DEF Moved, Fronted
  <2> QED
    BY <1>1, <2>1, <2>2
<1>7. /\ q \in Seq(Nat) /\ Len(q) = n
      /\ \A j \in 1 .. n : From(i, j) \in 1 .. n /\ q[j] = p[From(i, j)]
  <2>1. \A j \in 1 .. n : From(i, j) \in 1 .. n
    BY <1>1, FromPermutes
  <2>2. q = [j \in 1 .. n |-> p[From(i, j)]]
    BY <1>1 DEF ToFront
  <2>3. \A j \in 1 .. n : p[From(i, j)] \in Nat
    BY <1>2, <2>1
  <2> QED
    BY <1>1, <2>1, <2>2, <2>3
<1>8. Ordered(q, g)
  <2>0. /\ \A j, k \in 1 .. n : From(i, j) = From(i, k) => j = k
        /\ \A k \in 1 .. n : \E j \in 1 .. n : From(i, j) = k
    BY <1>1, FromPermutes
  <2>1. ASSUME NEW j \in 1 .. n PROVE q[j] \in 1 .. n
    <3>1. PICK x \in 1 .. n : x = From(i, j) /\ q[j] = p[x]
      BY <1>7
    <3> QED
      BY <1>2, <3>1
  <2>2. ASSUME NEW j \in 1 .. n, NEW k \in 1 .. n, q[j] = q[k] PROVE j = k
    <3>1. PICK x \in 1 .. n : x = From(i, j) /\ q[j] = p[x]
      BY <1>7
    <3>2. PICK y \in 1 .. n : y = From(i, k) /\ q[k] = p[y]
      BY <1>7
    <3>3. x = y
      BY <1>2, <2>2, <3>1, <3>2
    <3> QED
      BY <2>0, <3>1, <3>2, <3>3
  <2>3. ASSUME NEW e \in 1 .. n PROVE \E j \in 1 .. n : q[j] = e
    <3>1. PICK k \in 1 .. n : p[k] = e
      BY <1>2
    <3>2. PICK j \in 1 .. n : From(i, j) = k
      BY <2>0
    <3> QED
      BY <1>7, <3>1, <3>2
  <2>4. ASSUME NEW j \in 1 .. n, NEW k \in 1 .. n, g[q[j]].sock = g[q[k]].sock PROVE j = k
    <3>1. PICK x \in 1 .. n : x = From(i, j) /\ q[j] = p[x]
      BY <1>7
    <3>2. PICK y \in 1 .. n : y = From(i, k) /\ q[k] = p[y]
      BY <1>7
    <3>3. g[p[x]].sock = h[p[x]].sock /\ g[p[y]].sock = h[p[y]].sock
      BY <1>5
    <3>4. h[p[x]].sock = h[p[y]].sock
      BY <2>4, <3>1, <3>2, <3>3
    <3>5. x = y
      BY <1>2, <3>4
    <3> QED
      BY <2>0, <3>1, <3>2, <3>5
  <2> QED
    BY <1>4, <1>6, <1>7, <2>1, <2>2, <2>3, <2>4 DEF Ordered
<1>9. Linked(q, p[i], g)
  <2>1. q # <<>> /\ q[1] = p[i]
    BY <1>1, <1>7, EmptySeq DEF From
  <2>2. ASSUME NEW j \in 1 .. n
        PROVE  /\ g[q[j]].next = IF j = n THEN NULL ELSE q[j + 1]
               /\ g[q[j]].prev = IF j = 1 THEN NULL ELSE q[j - 1]
    <3>1. PICK k \in 1 .. n : k = From(i, j) /\ q[j] = p[k]
      BY <1>7
    <3>2. g[q[j]].next = IF j = n THEN NULL ELSE q[j + 1]
      <4>1. CASE j = n
        <5>1. k = IF i = n THEN n - 1 ELSE n
          BY <1>1, <3>1, <4>1 DEF From
        <5> QED
          BY <1>1, <1>5, <3>1, <4>1, <5>1
      <4>2. CASE j # n
        <5>1. j + 1 \in 1 .. n /\ q[j + 1] = p[From(i, j + 1)]
          BY <1>1, <1>7, <4>2
        <5>2. CASE j = 1
          <6>1. k = i /\ From(i, j + 1) = 1
            BY <1>1, <3>1, <5>2 DEF From
          <6> QED
            BY <1>5, <3>1, <4>2, <5>1, <6>1
        <5>3. CASE j # 1 /\ j < i
          <6>1. k = j - 1 /\ k # i /\ k # i - 1 /\ k # n /\ From(i, j + 1) = k + 1
            BY <1>1, <3>1, <5>3 DEF From
          <6> QED
            BY <1>5, <3>1, <4>2, <5>1, <6>1
        <5>4. CASE j # 1 /\ j = i
          <6>1. k = i - 1 /\ k # i /\ i # n /\ From(i, j + 1) = i + 1
            BY <1>1, <3>1, <4>2, <5>4 DEF From
          <6> QED
            BY <1>5, <3>1, <4>2, <5>1, <6>1
        <5>5. CASE j # 1 /\ j > i
          <6>1. k = j /\ k # i /\ k # i - 1 /\ k # n /\ From(i, j + 1) = k + 1
            BY <1>1, <3>1, <4>2, <5>5 DEF From
          <6> QED
            BY <1>5, <3>1, <4>2, <5>1, <6>1
        <5> QED
          BY <1>1, <5>2, <5>3, <5>4, <5>5
      <4> QED
        BY <4>1, <4>2
    <3>3. g[q[j]].prev = IF j = 1 THEN NULL ELSE q[j - 1]
      <4>1. CASE j = 1
        <5>1. k = i
          BY <3>1, <4>1 DEF From
        <5> QED
          BY <1>5, <3>1, <4>1, <5>1
      <4>2. CASE j # 1
        <5>1. j - 1 \in 1 .. n /\ q[j - 1] = p[From(i, j - 1)]
          BY <1>7, <4>2
        <5>2. CASE j = 2
          <6>1. k = 1 /\ k # i /\ From(i, j - 1) = i
            BY <1>1, <3>1, <5>2 DEF From
          <6> QED
            BY <1>5, <3>1, <4>2, <5>1, <6>1
        <5>3. CASE j # 2 /\ j <= i
          <6>1. k = j - 1 /\ k # i /\ k # 1 /\ k # i + 1 /\ From(i, j - 1) = k - 1
            BY <1>1, <3>1, <4>2, <5>3 DEF From
          <6> QED
            BY <1>5, <3>1, <4>2, <5>1, <6>1
        <5>4. CASE j # 2 /\ j = i + 1
          <6>1. k = i + 1 /\ k # i /\ k # 1 /\ From(i, j - 1) = i - 1
            BY <1>1, <3>1, <4>2, <5>4 DEF From
          <6> QED
            BY <1>5, <3>1, <4>2, <5>1, <6>1
        <5>5. CASE j # 2 /\ j > i + 1
          <6>1. k = j /\ k # i /\ k # 1 /\ k # i + 1 /\ From(i, j - 1) = k - 1
            BY <1>1, <3>1, <4>2, <5>5 DEF From
          <6> QED
            BY <1>5, <3>1, <4>2, <5>1, <6>1
        <5> QED
          BY <1>1, <5>2, <5>3, <5>4, <5>5
      <4> QED
        BY <4>1, <4>2
    <3> QED
      BY <3>2, <3>3
  <2> QED
    BY <1>7, <2>1, <2>2 DEF Linked
<1> QED
  BY <1>1, <1>5, <1>7, <1>8, <1>9 DEF Listed

\* Putting an element before a sequence.
LEMMA ConsFields ==
  ASSUME NEW S, NEW x \in S, NEW p \in Seq(S)
  PROVE  /\ <<x>> \o p \in Seq(S) /\ Len(<<x>> \o p) = Len(p) + 1
         /\ (<<x>> \o p)[1] = x
         /\ \A k \in 1 .. Len(p) : (<<x>> \o p)[k + 1] = p[k]
<1>1. PICK f : f = <<x>>
  OBVIOUS
<1>2. f \in Seq(S) /\ Len(f) = 1 /\ f[1] = x
  BY <1>1
<1>3. PICK n \in Nat : n = Len(p)
  BY LenProperties
<1>4. PICK q : q = f \o p
  OBVIOUS
<1>5. q \in Seq(S) /\ Len(q) = Len(f) + Len(p)
  BY <1>2, <1>4, ConcatProperties
<1>6. \A k \in 1 .. Len(f) + Len(p) : q[k] = IF k <= Len(f) THEN f[k] ELSE p[k - Len(f)]
  BY <1>2, <1>4, ConcatProperties
<1>7. \A k \in 1 .. 1 + n : q[k] = IF k <= 1 THEN f[k] ELSE p[k - 1]
  BY <1>2, <1>3, <1>6
<1>8. q[1] = x
  <2>1. 1 \in 1 .. 1 + n
    OBVIOUS
  <2> QED
    BY <1>2, <1>7, <2>1
<1>9. ASSUME NEW k \in 1 .. n PROVE q[k + 1] = p[k]
  <2>1. k + 1 \in 1 .. 1 + n /\ ~(k + 1 <= 1) /\ (k + 1) - 1 = k
    OBVIOUS
  <2> QED
    BY <1>7, <2>1
<1> QED
  BY <1>1, <1>2, <1>3, <1>4, <1>5, <1>8, <1>9

\* A fresh entry, at the front.
Added(h, new, hd) == Fronted(Append(h, new), hd, Len(h) + 1)

\* It is linked to the old head, which is linked back to it.
LEMMA AddedFields ==
  ASSUME NEW hd, NEW h \in Seq(Record), NEW new \in Record
  PROVE  /\ DOMAIN Added(h, new, hd) = 1 .. Len(h) + 1
         /\ Added(h, new, hd)[Len(h) + 1] = [next |-> hd, prev |-> NULL, sock |-> new.sock]
         /\ \A e \in 1 .. Len(h) :
              Added(h, new, hd)[e] = IF e = hd THEN [h[e] EXCEPT !.prev = Len(h) + 1] ELSE h[e]
<1>0. PICK n \in Nat, m \in Nat : n = Len(h) /\ m = n + 1 /\ m = Len(h) + 1
  BY LenProperties
<1>9. PICK g : g = Added(h, new, hd)
  OBVIOUS
<1>1. PICK a : a = Append(h, new)
  OBVIOUS
<1>2. /\ a \in Seq(Record) /\ Len(a) = m /\ a[m] = new
      /\ \A e \in 1 .. n : a[e] = h[e]
  BY <1>0, <1>1, AppendProperties
<1>3. DOMAIN a = 1 .. m
  BY <1>2, LenProperties
<1>4. g = [e \in 1 .. m |->
             IF e = m THEN [a[e] EXCEPT !.next = hd, !.prev = NULL]
             ELSE IF e = hd THEN [a[e] EXCEPT !.prev = m]
             ELSE a[e]]
  BY <1>0, <1>1, <1>3, <1>9 DEF Fronted, Added
<1>5. g[m] = [next |-> hd, prev |-> NULL, sock |-> new.sock]
  <2>1. PICK r : r = [new EXCEPT !.next = hd]
    OBVIOUS
  <2>2. new = [next |-> new.next, prev |-> new.prev, sock |-> new.sock]
    BY DEF Record
  <2>3. r = [next |-> hd, prev |-> new.prev, sock |-> new.sock]
    BY <2>1, <2>2
  <2>4. m \in 1 .. m
    BY <1>0
  <2>5. g[m] = [r EXCEPT !.prev = NULL]
    BY <1>2, <1>4, <2>1, <2>4
  <2> QED
    BY <2>3, <2>5
<1>6. ASSUME NEW e \in 1 .. n
      PROVE  g[e] = IF e = hd THEN [h[e] EXCEPT !.prev = m] ELSE h[e]
  <2>1. e \in 1 .. m /\ e # m /\ a[e] = h[e]
    BY <1>0, <1>2
  <2> QED
    BY <1>4, <2>1
<1> QED
  BY <1>0, <1>4, <1>5, <1>6, <1>9

\* g has one entry more than h, which the entries of h only know as the one
\* before the first of them.
Extends(p, hd, h, q, g, n, m, s) ==
    /\ n \in Nat /\ n = Len(p) /\ m \in Nat /\ m = n + 1
    /\ \A k \in 1 .. n : h[p[k]].sock # s
    /\ g \in Seq(Record) /\ Len(g) = m
    /\ g[m].next = hd /\ g[m].prev = NULL /\ g[m].sock = s
    /\ \A k \in 1 .. n : /\ g[p[k]].next = h[p[k]].next
                         /\ g[p[k]].prev = IF k = 1 THEN m ELSE h[p[k]].prev
                         /\ g[p[k]].sock = h[p[k]].sock
    /\ q \in Seq(Nat) /\ Len(q) = m /\ q[1] = m
    /\ \A k \in 1 .. n : q[k + 1] = p[k]

\* The entry is then the first of an ordered list.
LEMMA FirstOrders ==
  ASSUME NEW p, NEW hd, NEW h, Listed(p, hd, h),
         NEW q, NEW g, NEW n, NEW m, NEW s, Extends(p, hd, h, q, g, n, m, s)
  PROVE  Listed(q, m, g)
<1> USE DEF Extends
<1>1. n = Len(h)
  BY DEF Listed, Ordered
<1>2. /\ DOMAIN h = 1 .. n
      /\ \A k \in 1 .. n : p[k] \in 1 .. n /\ p[k] \in Nat /\ h[p[k]] \in Record
      /\ \A j, k \in 1 .. n : p[j] = p[k] => j = k
      /\ \A e \in 1 .. n : \E k \in 1 .. n : p[k] = e
      /\ \A j, k \in 1 .. n : h[p[j]].sock = h[p[k]].sock => j = k
  <2>1. h \in Seq(Record) /\ p \in Seq(Nat) /\ DOMAIN h = 1 .. n
    BY <1>1, LenProperties DEF Listed, Ordered
  <2>2. ASSUME NEW k \in 1 .. n PROVE p[k] \in 1 .. n /\ p[k] \in Nat /\ h[p[k]] \in Record
    <3>1. p[k] \in 1 .. n
      BY <1>1, <2>1 DEF Listed, Ordered
    <3> QED
      BY <1>1, <2>1, <3>1, ElementOfSeq
  <2> QED
    BY <1>1, <2>1, <2>2 DEF Listed, Ordered
<1>3. \A k \in 1 .. n :
        /\ h[p[k]].next = IF k = n THEN NULL ELSE p[k + 1]
        /\ h[p[k]].prev = IF k = 1 THEN NULL ELSE p[k - 1]
  BY <1>1 DEF Listed, Linked
<1>4. hd = IF n = 0 THEN NULL ELSE p[1]
  BY EmptySeq DEF Listed, Ordered, Linked
<1>5. ASSUME NEW j \in 1 .. m, j # 1
      PROVE  \E k \in 1 .. n : j = k + 1 /\ q[j] = p[k]
  <2>1. j - 1 \in 1 .. n /\ j = (j - 1) + 1
    BY <1>5
  <2> QED
    BY <2>1
<1>6. Ordered(q, g)
  <2>1. ASSUME NEW j \in 1 .. m PROVE q[j] \in 1 .. m
    <3>1. CASE j = 1
      BY <1>1, <3>1
    <3>2. CASE j # 1
      <4>1. PICK k \in 1 .. n : j = k + 1 /\ q[j] = p[k]
        BY <1>5, <3>2
      <4>2. p[k] \in 1 .. n
        BY <1>2
      <4> QED
        BY <4>1, <4>2
    <3> QED
      BY <3>1, <3>2
  <2>2. ASSUME NEW j \in 1 .. m, NEW k \in 1 .. m,
               q[j] = q[k] \/ g[q[j]].sock = g[q[k]].sock
        PROVE  j = k
    <3>1. ASSUME NEW i \in 1 .. m, i # 1 PROVE q[i] # m /\ g[q[i]].sock # s
      <4>1. PICK x \in 1 .. n : i = x + 1 /\ q[i] = p[x]
        BY <1>5, <3>1
      <4>2. p[x] \in 1 .. n /\ g[p[x]].sock = h[p[x]].sock
        BY <1>2
      <4> QED
        BY <1>1, <4>1, <4>2
    <3>2. q[1] = m /\ g[q[1]].sock = s
      OBVIOUS
    <3>3. CASE j = 1 \/ k = 1
      BY <2>2, <3>1, <3>2, <3>3
    <3>4. CASE j # 1 /\ k # 1
      <4>1. PICK x \in 1 .. n : j = x + 1 /\ q[j] = p[x]
        BY <1>5, <3>4
      <4>2. PICK y \in 1 .. n : k = y + 1 /\ q[k] = p[y]
        BY <1>5, <3>4
      <4>3. g[p[x]].sock = h[p[x]].sock /\ g[p[y]].sock = h[p[y]].sock
        OBVIOUS
      <4>4. x = y
        BY <1>2, <2>2, <4>1, <4>2, <4>3
      <4> QED
        BY <4>1, <4>2, <4>4
    <3> QED
      BY <3>3, <3>4
  <2>3. ASSUME NEW e \in 1 .. m PROVE \E j \in 1 .. m : q[j] = e
    <3>1. CASE e = m
      <4>1. 1 \in 1 .. m
        OBVIOUS
      <4> QED
        BY <3>1, <4>1
    <3>2. CASE e \in 1 .. n
      <4>1. PICK k \in 1 .. n : p[k] = e
        BY <1>2, <3>2
      <4>2. k + 1 \in 1 .. m /\ q[k + 1] = e
        BY <4>1
      <4> QED
        BY <4>2
    <3>3. e = m \/ e \in 1 .. n
      OBVIOUS
    <3> QED
      BY <3>1, <3>2, <3>3
  <2> QED
    BY <2>1, <2>2, <2>3 DEF Ordered
<1>7. Linked(q, m, g)
  <2>1. q # <<>> /\ q[1] = m
    BY EmptySeq
  <2>2. ASSUME NEW j \in 1 .. m
        PROVE  /\ g[q[j]].next = IF j = m THEN NULL ELSE q[j + 1]
               /\ g[q[j]].prev = IF j = 1 THEN NULL ELSE q[j - 1]
    <3>1. CASE j = 1
      <4>1. g[q[j]].next = hd /\ g[q[j]].prev = NULL
        BY <3>1
      <4>2. n # 0 => q[2] = p[1]
        <5>1. n # 0 => 1 \in 1 .. n /\ 1 + 1 = 2
          OBVIOUS
        <5> QED
          BY <5>1
      <4> QED
        BY <1>4, <3>1, <4>1, <4>2
    <3>2. CASE j # 1
      <4>1. PICK k \in 1 .. n : j = k + 1 /\ q[j] = p[k]
        BY <1>5, <3>2
      <4>2. /\ g[p[k]].next = IF k = n THEN NULL ELSE p[k + 1]
            /\ g[p[k]].prev = IF k = 1 THEN m ELSE p[k - 1]
        <5>1. /\ h[p[k]].next = IF k = n THEN NULL ELSE p[k + 1]
              /\ h[p[k]].prev = IF k = 1 THEN NULL ELSE p[k - 1]
          BY <1>3
        <5>2. /\ g[p[k]].next = h[p[k]].next
              /\ g[p[k]].prev = IF k = 1 THEN m ELSE h[p[k]].prev
          OBVIOUS
        <5> QED
          BY <5>1, <5>2
      <4>3. k # n => q[j + 1] = p[k + 1]
        <5>1. k # n => k + 1 \in 1 .. n /\ (k + 1) + 1 = j + 1
          BY <4>1
        <5> QED
          BY <5>1
      <4>4. q[j - 1] = IF k = 1 THEN m ELSE p[k - 1]
        <5>1. CASE k = 1
          BY <4>1, <5>1
        <5>2. CASE k # 1
          <6>1. k - 1 \in 1 .. n /\ (k - 1) + 1 = j - 1
            BY <4>1, <5>2
          <6> QED
            BY <5>2, <6>1
        <5> QED
          BY <5>1, <5>2
      <4> QED
        BY <3>2, <4>1, <4>2, <4>3, <4>4
    <3> QED
      BY <3>1, <3>2
  <2> QED
    BY <2>1, <2>2 DEF Linked
<1> QED
  BY <1>6, <1>7 DEF Listed

\* A fresh entry leaves the list in order, the entry first.
LEMMA MissAdds ==
  ASSUME NEW p, NEW hd, NEW h, Listed(p, hd, h), NEW s \in Socks,
         \A k \in 1 .. Len(p) : h[p[k]].sock # s,
         NEW m, m = Len(h) + 1,
         NEW new, new = [next |-> NULL, prev |-> NULL, sock |-> s],
         NEW g, g = Added(h, new, hd)
  PROVE  /\ Listed(<<m>> \o p, m, g)
         /\ g[m].sock = s
         /\ \A k \in 1 .. Len(p) : g[p[k]].sock = h[p[k]].sock
<1>1. h \in Seq(Record) /\ p \in Seq(Nat) /\ Len(p) = Len(h)
  BY DEF Listed, Ordered
<1>2. PICK n \in Nat : n = Len(p) /\ n = Len(h) /\ m = n + 1
  BY <1>1, LenProperties
<1>3. new \in Record /\ new.sock = s
  BY DEF Record
<1>4. /\ DOMAIN g = 1 .. m
      /\ g[m] = [next |-> hd, prev |-> NULL, sock |-> s]
      /\ \A e \in 1 .. n : g[e] = IF e = hd THEN [h[e] EXCEPT !.prev = m] ELSE h[e]
  <2>1. PICK r, a, N : /\ r = h /\ a = Added(r, new, hd) /\ N = Len(r)
                       /\ r \in Seq(Record) /\ new \in Record
    BY <1>1, <1>3
  <2>2. /\ DOMAIN a = 1 .. N + 1
        /\ a[N + 1] = [next |-> hd, prev |-> NULL, sock |-> new.sock]
        /\ \A e \in 1 .. N : a[e] = IF e = hd THEN [r[e] EXCEPT !.prev = N + 1] ELSE r[e]
    BY <2>1, AddedFields
  <2> QED
    BY <1>2, <1>3, <2>1, <2>2
<1>5. ASSUME NEW k \in 1 .. n PROVE p[k] \in 1 .. n /\ h[p[k]] \in Record
  <2>1. p[k] \in DOMAIN h /\ DOMAIN h = 1 .. n
    BY <1>1, <1>2, LenProperties DEF Listed, Ordered
  <2> QED
    BY <1>1, <1>2, <2>1, ElementOfSeq
<1>6. hd = (IF n = 0 THEN NULL ELSE p[1]) /\ hd \in Nat \cup {NULL}
  <2>1. hd = IF n = 0 THEN NULL ELSE p[1]
    BY <1>1, <1>2, EmptySeq DEF Listed, Linked
  <2>2. n # 0 => p[1] \in 1 .. n
    BY <1>5
  <2> QED
    BY <2>1, <2>2
<1>7. ASSUME NEW k \in 1 .. n
      PROVE  /\ g[p[k]].next = h[p[k]].next
             /\ g[p[k]].prev = IF k = 1 THEN m ELSE h[p[k]].prev
             /\ g[p[k]].sock = h[p[k]].sock
             /\ g[p[k]] \in Record
  <2>1. PICK r \in Record : r = h[p[k]] /\ r = [next |-> r.next, prev |-> r.prev, sock |-> r.sock]
    BY <1>5 DEF Record
  <2>2. g[p[k]] = IF p[k] = hd THEN [r EXCEPT !.prev = m] ELSE r
    BY <1>4, <1>5, <2>1
  <2>3. p[k] = hd <=> k = 1
    <3>1. 1 \in 1 .. n /\ hd = p[1]
      BY <1>6
    <3>2. p[k] = p[1] => k = 1
      BY <1>2, <3>1 DEF Listed, Ordered
    <3> QED
      BY <3>1, <3>2
  <2>4. CASE k = 1
    <3>1. g[p[k]] = [next |-> r.next, prev |-> m, sock |-> r.sock]
      BY <2>1, <2>2, <2>3, <2>4
    <3>2. m \in Nat /\ r.next \in Nat \cup {NULL} /\ r.sock \in Socks
      BY <1>2 DEF Record
    <3>3. g[p[k]] \in Record
      BY <3>1, <3>2 DEF Record
    <3> QED
      BY <2>1, <2>4, <3>1, <3>3
  <2>5. CASE k # 1
    BY <2>1, <2>2, <2>3, <2>5
  <2> QED
    BY <2>4, <2>5
<1>8. g \in Seq(Record) /\ Len(g) = m
  <2>1. ASSUME NEW e \in 1 .. m PROVE g[e] \in Record
    <3>1. CASE e = m
      <4>1. g[e] = [next |-> hd, prev |-> NULL, sock |-> s]
        BY <1>4, <3>1
      <4> QED
        BY <1>6, <4>1 DEF Record
    <3>2. CASE e # m
      <4>1. e \in DOMAIN h
        BY <1>1, <1>2, <3>2, LenProperties
      <4>2. PICK k \in 1 .. n : p[k] = e
        BY <1>2, <4>1 DEF Listed, Ordered
      <4>3. g[p[k]] \in Record
        BY <1>7
      <4> QED
        BY <4>2, <4>3
    <3> QED
      BY <3>1, <3>2
  <2>2. g = [e \in DOMAIN g |-> g[e]]
    BY DEF Fronted, Added
  <2>3. g = [e \in 1 .. m |-> g[e]]
    BY <1>4, <2>2
  <2>4. m \in Nat
    BY <1>2
  <2> QED
    BY <2>1, <2>3, <2>4
<1>9. PICK q : q = <<m>> \o p
  OBVIOUS
<1>10. /\ q \in Seq(Nat) /\ Len(q) = m /\ q[1] = m
       /\ \A k \in 1 .. n : q[k + 1] = p[k]
  <2>1. m \in Nat
    BY <1>2
  <2> QED
    BY <1>1, <1>2, <1>9, <2>1, ConsFields
<1>11. g[m].next = hd /\ g[m].prev = NULL /\ g[m].sock = s
  BY <1>4
<1>12. Listed(q, m, g)
  <2>1. \A k \in 1 .. n : h[p[k]].sock # s
    BY <1>2
  <2>2. m \in Nat /\ m = n + 1 /\ n = Len(p)
    BY <1>2
  <2>3. \A k \in 1 .. n : /\ g[p[k]].next = h[p[k]].next
                          /\ g[p[k]].prev = IF k = 1 THEN m ELSE h[p[k]].prev
                          /\ g[p[k]].sock = h[p[k]].sock
    BY <1>7
  <2>4. Extends(p, hd, h, q, g, n, m, s)
    BY <1>8, <1>10, <1>11, <2>1, <2>2, <2>3 DEF Extends
  <2> QED
    BY <2>4, FirstOrders
<1> QED
  BY <1>2, <1>7, <1>9, <1>11, <1>12

-----------------------------------------------------------------------------
(* What RecencyList makes of a lookup.  *)

\* An address that is listed once is brought to the front.
LEMMA LookupMoves ==
  ASSUME NEW S, NEW l \in Seq(S), NEW s \in S, NEW i \in 1 .. Len(l), l[i] = s,
         \A j \in 1 .. Len(l) : l[j] = s => j = i
  PROVE  <<s>> \o Recency!RemoveFirst(l, s) = ToFront(l, i)
<1>1. PICK n \in Nat : n = Len(l)
  BY LenProperties
<1>2. Recency!RemoveFirst(l, s) = SubSeq(l, 1, i - 1) \o SubSeq(l, i + 1, n)
  <2>1. {j \in 1 .. Len(l) : l[j] = s} = {i}
    OBVIOUS
  <2>2. (CHOOSE x \in {i} : \A y \in {i} : x =< y) = i
    OBVIOUS
  <2>3. Recency!SelectInSeq(l, LAMBDA v : v = s) = i
    BY <2>1, <2>2 DEF Recency!SelectInSeq, Recency!Min
  <2> QED
    BY <1>1, <2>3 DEF Recency!RemoveFirst, Recency!RemoveAt
<1>3. PICK a : a = SubSeq(l, 1, i - 1)
  OBVIOUS
<1>4. a \in Seq(S) /\ Len(a) = i - 1 /\ \A k \in 1 .. i - 1 : a[k] = l[k]
  <2>1. \A k \in 1 .. i - 1 : l[k] \in S
    OBVIOUS
  <2>2. i - 1 \in Int /\ 1 \in Int
    OBVIOUS
  <2>3. /\ a \in Seq(S) /\ Len(a) = IF 1 <= i - 1 THEN (i - 1) - 1 + 1 ELSE 0
        /\ \A k \in 1 .. (i - 1) - 1 + 1 : a[k] = l[1 + k - 1]
    BY <1>3, <2>1, <2>2, SubSeqProperties
  <2> QED
    BY <2>3
<1>5. PICK b : b = SubSeq(l, i + 1, n)
  OBVIOUS
<1>6. b \in Seq(S) /\ Len(b) = n - i /\ \A k \in 1 .. n - i : b[k] = l[k + i]
  <2>1. \A k \in i + 1 .. n : l[k] \in S
    BY <1>1
  <2>2. i + 1 \in Int /\ n \in Int
    OBVIOUS
  <2>3. /\ b \in Seq(S) /\ Len(b) = IF i + 1 <= n THEN n - (i + 1) + 1 ELSE 0
        /\ \A k \in 1 .. n - (i + 1) + 1 : b[k] = l[(i + 1) + k - 1]
    BY <1>5, <2>1, <2>2, SubSeqProperties
  <2> QED
    BY <1>1, <2>3
<1>7. PICK r : r = a \o b
  OBVIOUS
<1>8. /\ r \in Seq(S) /\ Len(r) = n - 1
      /\ \A k \in 1 .. n - 1 : r[k] = IF k < i THEN l[k] ELSE l[k + 1]
  <2>1. /\ r \in Seq(S) /\ Len(r) = Len(a) + Len(b)
        /\ \A k \in 1 .. Len(a) + Len(b) : r[k] = IF k <= Len(a) THEN a[k] ELSE b[k - Len(a)]
    BY <1>4, <1>6, <1>7, ConcatProperties
  <2>2. ASSUME NEW k \in 1 .. n - 1 PROVE r[k] = IF k < i THEN l[k] ELSE l[k + 1]
    <3>1. k \in 1 .. Len(a) + Len(b)
      BY <1>4, <1>6
    <3>2. r[k] = IF k <= i - 1 THEN a[k] ELSE b[k - (i - 1)]
      BY <1>4, <2>1, <3>1
    <3>3. CASE k < i
      BY <1>4, <3>2, <3>3
    <3>4. CASE ~(k < i)
      <4>1. k - (i - 1) \in 1 .. n - i /\ (k - (i - 1)) + i = k + 1
        BY <1>1, <3>4
      <4> QED
        BY <1>6, <3>2, <3>4, <4>1
    <3> QED
      BY <3>3, <3>4
  <2> QED
    BY <1>4, <1>6, <2>1, <2>2
<1>9. PICK q : q = <<s>> \o r
  OBVIOUS
<1>10. /\ q \in Seq(S) /\ Len(q) = n /\ q[1] = s
       /\ \A k \in 1 .. n - 1 : q[k + 1] = r[k]
  BY <1>1, <1>8, <1>9, ConsFields
<1>11. ASSUME NEW j \in 1 .. n PROVE q[j] = l[From(i, j)]
  <2>1. CASE j = 1
    BY <1>10, <2>1 DEF From
  <2>2. CASE j # 1
    <3>1. j - 1 \in 1 .. n - 1 /\ (j - 1) + 1 = j
      BY <2>2
    <3>2. q[j] = r[j - 1] /\ r[j - 1] = IF j - 1 < i THEN l[j - 1] ELSE l[j]
      BY <1>8, <1>10, <3>1
    <3> QED
      BY <1>1, <2>2, <3>2 DEF From
  <2> QED
    BY <2>1, <2>2
<1>12. q = [j \in 1 .. n |-> q[j]]
  BY <1>10
<1>13. q = ToFront(l, i)
  BY <1>1, <1>11, <1>12 DEF ToFront
<1> QED
  BY <1>2, <1>3, <1>5, <1>7, <1>9, <1>13

-----------------------------------------------------------------------------
(* A call.  *)

\* The order of the list is what the search visits ...
LEMMA OrderIsChain == \A p : Listed(p, head, heap) => Chain = p
  BY ChainIsOrder

\* ... after a step too.
LEMMA OrderIsChainNext == \A p : Listed(p, head', heap') => Chain' = p
<1>1. (\A p : Listed(p, head, heap) => Chain = p)'
  BY OrderIsChain, PTL
<1> QED
  BY <1>1

\* The addresses on the list, in the order p.
Addresses(p, h) == [i \in 1 .. Len(p) |-> h[p[i]].sock]

\* There are as many addresses as entries, and no two are equal.
LEMMA AddressesFields ==
  ASSUME NEW p, NEW hd, NEW h, Listed(p, hd, h)
  PROVE  /\ Addresses(p, h) \in Seq(Socks) /\ Len(Addresses(p, h)) = Len(p) /\ Len(p) \in Nat
         /\ \A i \in 1 .. Len(p) : Addresses(p, h)[i] = h[p[i]].sock
         /\ \A i, j \in 1 .. Len(p) : Addresses(p, h)[i] = Addresses(p, h)[j] => i = j
<1>1. /\ h \in Seq(Record) /\ p \in Seq(Nat) /\ Len(p) = Len(h)
      /\ \A i \in 1 .. Len(p) : p[i] \in DOMAIN h
      /\ \A i, j \in 1 .. Len(p) : h[p[i]].sock = h[p[j]].sock => i = j
  BY DEF Listed, Ordered
<1>2. PICK n : n = Len(p) /\ n \in Nat
  BY <1>1, LenProperties
<1>3. ASSUME NEW i \in 1 .. n PROVE h[p[i]].sock \in Socks
  <2>1. p[i] \in 1 .. Len(h)
    BY <1>1, <1>2, LenProperties
  <2>2. h[p[i]] \in Record
    BY <1>1, <2>1, ElementOfSeq
  <2> QED
    BY <2>2 DEF Record
<1>4. PICK l : l = Addresses(p, h)
  OBVIOUS
<1>5. l = [i \in 1 .. n |-> h[p[i]].sock]
  BY <1>2, <1>4 DEF Addresses
<1>6. l \in Seq(Socks) /\ Len(l) = n /\ \A i \in 1 .. n : l[i] = h[p[i]].sock
  BY <1>2, <1>3, <1>5
<1>7. ASSUME NEW i \in 1 .. n, NEW j \in 1 .. n, l[i] = l[j] PROVE i = j
  BY <1>1, <1>2, <1>6, <1>7
<1> QED
  BY <1>2, <1>4, <1>6, <1>7

\* A call finds the address on the list or not, and leaves the list in an
\* order that is what RecencyList makes of the lookup.
LEMMA CallLists ==
  ASSUME NEW p, Listed(p, head, heap), NEW s \in Socks, formatsock(s)
  PROVE  \E q : /\ Listed(q, head', heap')
                /\ Addresses(q, heap') = <<s>> \o Recency!RemoveFirst(Addresses(p, heap), s)
<1>1. PICK n, l : /\ n \in Nat /\ n = Len(p) /\ l = Addresses(p, heap)
                  /\ l \in Seq(Socks) /\ Len(l) = n
                  /\ \A i \in 1 .. n : l[i] = heap[p[i]].sock
                  /\ \A i, j \in 1 .. n : l[i] = l[j] => i = j
  BY AddressesFields
<1>2. Chain = p
  BY ChainIsOrder
<1>3. Hits(s) = {i \in 1 .. n : l[i] = s}
  BY <1>1, <1>2 DEF Hits
<1>4. HitFirst(s) \/ HitLater(s) \/ Miss(s)
  BY DEF formatsock
<1>5. CASE Hits(s) # {}
  <2>1. PICK i \in 1 .. n : l[i] = s
    BY <1>3, <1>5
  <2>2. Hits(s) = {i}
    BY <1>1, <1>3, <2>1
  <2>3. Found(s) = p[i]
    <3>1. (CHOOSE x \in {i} : \A y \in {i} : x <= y) = i
      OBVIOUS
    <3> QED
      BY <1>2, <2>2, <3>1 DEF Found
  <2>4. <<s>> \o Recency!RemoveFirst(l, s) = ToFront(l, i)
    <3>1. \A j \in 1 .. Len(l) : l[j] = s => j = i
      BY <1>1, <2>1
    <3>2. i \in 1 .. Len(l)
      BY <1>1
    <3> QED
      BY <1>1, <2>1, <3>1, <3>2, LookupMoves
  <2>5. CASE HitFirst(s)
    <3>1. heap[p[i]].prev = NULL /\ heap' = heap /\ head' = head
      BY <2>3, <2>5 DEF HitFirst
    <3>2. i = 1
      <4>1. SUFFICES ASSUME i # 1 PROVE FALSE
        OBVIOUS
      <4>2. heap[p[i]].prev = p[i - 1] /\ i - 1 \in 1 .. n
        BY <1>1, <4>1 DEF Listed, Linked
      <4>3. p[i - 1] \in Nat
        BY <1>1, <4>2 DEF Listed, Ordered
      <4> QED
        BY <3>1, <4>2, <4>3, NullAssumption
    <3>3. ToFront(l, i) = l
      <4>1. \A j \in 1 .. n : From(1, j) = j
        BY DEF From
      <4>2. l = [j \in 1 .. n |-> l[j]]
        BY <1>1
      <4> QED
        BY <1>1, <3>2, <4>1, <4>2 DEF ToFront
    <3> QED
      BY <1>1, <2>4, <3>1, <3>3
  <2>6. CASE HitLater(s)
    <3>1. heap[p[i]].prev # NULL /\ heap' = Moved(heap, head, p[i]) /\ head' = p[i]
      BY <2>3, <2>6 DEF HitLater, Moved, Fronted, AtFront
    <3>2. i # 1
      BY <1>1, <3>1 DEF Listed, Linked
    <3>3. PICK q : q = ToFront(p, i)
      OBVIOUS
    <3>4. /\ Listed(q, p[i], heap') /\ Len(q) = Len(p)
          /\ \A k \in 1 .. Len(p) : heap'[p[k]].sock = heap[p[k]].sock
      <4>1. i \in 1 .. Len(p)
        BY <1>1
      <4> QED
        BY <3>1, <3>2, <3>3, <4>1, HitReorders
    <3>5. Addresses(q, heap') = ToFront(l, i)
      <4>1. ASSUME NEW k \in 1 .. n PROVE heap'[q[k]].sock = l[From(i, k)]
        <5>1. From(i, k) \in 1 .. n
          BY <1>1, FromPermutes
        <5>2. q[k] = p[From(i, k)]
          BY <1>1, <3>3 DEF ToFront
        <5> QED
          BY <1>1, <3>4, <5>1, <5>2
      <4> QED
        BY <1>1, <3>4, <4>1 DEF Addresses, ToFront
    <3> QED
      BY <1>1, <2>4, <3>1, <3>4, <3>5
  <2>7. CASE Miss(s)
    BY <1>5, <2>7 DEF Miss
  <2> QED
    BY <1>4, <2>5, <2>6, <2>7
<1>6. CASE Hits(s) = {}
  <2>1. \A k \in 1 .. Len(p) : heap[p[k]].sock # s
    BY <1>1, <1>3, <1>6
  <2>2. Recency!RemoveFirst(l, s) = l
    BY <1>1, <1>3, <1>6 DEF Recency!RemoveFirst
  <2>3. Miss(s)
    BY <1>4, <1>6 DEF HitFirst, HitLater
  <2>4. PICK m, new : /\ m = Len(heap) + 1 /\ new = [next |-> NULL, prev |-> NULL, sock |-> s]
                      /\ heap' = Added(heap, new, head) /\ head' = m
    BY <2>3 DEF Miss, Added, Fronted, AtFront
  <2>5. PICK q : q = <<m>> \o p
    OBVIOUS
  <2>6. /\ Listed(q, head', heap') /\ heap'[m].sock = s
        /\ \A k \in 1 .. n : heap'[p[k]].sock = heap[p[k]].sock
    <3>1. PICK g : g = heap' /\ g = Added(heap, new, head)
      BY <2>4
    <3>2. /\ Listed(q, m, g) /\ g[m].sock = s
          /\ \A k \in 1 .. Len(p) : g[p[k]].sock = heap[p[k]].sock
      BY <2>1, <2>4, <2>5, <3>1, MissAdds
    <3> QED
      BY <1>1, <2>4, <3>1, <3>2
  <2>7. /\ Len(q) = n + 1 /\ q[1] = m
        /\ \A k \in 1 .. n : q[k + 1] = p[k]
    <3>1. p \in Seq(Nat) /\ m \in Nat
      BY <1>1, <2>4 DEF Listed, Ordered
    <3> QED
      BY <1>1, <2>5, <3>1, ConsFields
  <2>8. PICK c : c = <<s>> \o l
    OBVIOUS
  <2>9. /\ c \in Seq(Socks) /\ Len(c) = n + 1 /\ c[1] = s
        /\ \A k \in 1 .. n : c[k + 1] = l[k]
    BY <1>1, <2>8, ConsFields
  <2>10. ASSUME NEW j \in 1 .. n + 1 PROVE heap'[q[j]].sock = c[j]
    <3>1. CASE j = 1
      BY <2>6, <2>7, <2>9, <3>1
    <3>2. CASE j # 1
      <4>1. PICK k \in 1 .. n : j = k + 1
        <5>1. j - 1 \in 1 .. n /\ j = (j - 1) + 1
          BY <1>1, <3>2
        <5> QED
          BY <5>1
      <4>2. q[j] = p[k] /\ c[j] = l[k]
        BY <2>7, <2>9, <4>1
      <4> QED
        BY <1>1, <2>6, <4>2
    <3> QED
      BY <3>1, <3>2
  <2>11. Addresses(q, heap') = c
    <3>1. c = [j \in 1 .. n + 1 |-> c[j]]
      BY <1>1, <2>9
    <3>2. Addresses(q, heap') = [j \in 1 .. n + 1 |-> heap'[q[j]].sock]
      BY <2>7 DEF Addresses
    <3> QED
      BY <2>10, <3>1, <3>2
  <2> QED
    BY <1>1, <2>2, <2>6, <2>8, <2>11
<1> QED
  BY <1>5, <1>6

-----------------------------------------------------------------------------
(* The theorems.  *)

\* The empty list is in order.
LEMMA Start == Init => Listed(<<>>, head, heap) /\ IInv /\ Addresses(Chain, heap) = <<>>
<1>1. SUFFICES ASSUME Init PROVE Listed(<<>>, head, heap) /\ IInv /\ Addresses(Chain, heap) = <<>>
  OBVIOUS
<1>2. Listed(<<>>, head, heap)
  BY <1>1 DEF Init, Listed, Ordered, Linked
<1>3. Chain = <<>>
  BY <1>2, ChainIsOrder
<1> QED
  BY <1>2, <1>3 DEF IInv, Addresses

\* Every call looks an address up in the list as RecencyList does, and every
\* step that is not a call leaves it alone.
LEMMA StepLists ==
  ASSUME IInv, [Next]_vars
  PROVE  /\ IInv'
         /\ \/ Recency!Next
            \/ UNCHANGED <<Addresses(Chain, heap), answer>>
<1>1. Listed(Chain, head, heap)
  BY DEF IInv
<1>2. CASE Next
  <2>1. PICK s \in Socks : formatsock(s)
    BY <1>2 DEF Next
  <2>2. PICK q : /\ Listed(q, head', heap')
                 /\ Addresses(q, heap') = <<s>> \o Recency!RemoveFirst(Addresses(Chain, heap), s)
    BY <1>1, <2>1, CallLists
  <2>3. Chain' = q
    BY <2>2, OrderIsChainNext
  <2>4. IInv'
    BY <2>2, <2>3 DEF IInv
  <2>5. Recency!Lookup(s)
    BY <2>1, <2>2, <2>3 DEF Recency!Lookup, Addresses, formatsock
  <2> QED
    BY <2>4, <2>5 DEF Recency!Next
<1>3. CASE UNCHANGED vars
  <2>1. head' = head /\ heap' = heap /\ answer' = answer
    BY <1>3 DEF vars
  <2>2. Listed(Chain, head', heap')
    BY <1>1, <2>1
  <2>3. Chain' = Chain
    BY <2>2, OrderIsChainNext
  <2> QED
    BY <2>1, <2>2, <2>3 DEF IInv
<1> QED
  BY <1>2, <1>3

\* The list formatsock walks holds every entry, once each, linked both ways,
\* and no two of them have the same address.
THEOREM Invariance == Spec => []IInv
<1>1. Init => IInv
  BY Start
<1>2. IInv /\ [Next]_vars => IInv'
  BY StepLists
<1> QED
  BY <1>1, <1>2, PTL DEF Spec

\* The list of multicast.c's formatsock can be walked both ways and holds
\* every entry ever allocated, whatever addresses are asked for and however
\* many.
THEOREM LinksStaySound == Spec => []LinksSound
<1>1. IInv => LinksSound
  <2>1. SUFFICES ASSUME IInv PROVE LinksSound
    OBVIOUS
  <2>2. Listed(Chain, head, heap) /\ heap \in Seq(Record) /\ Len(Chain) = Len(heap)
    BY <2>1 DEF IInv, Listed, Ordered
  <2>3. Len(heap) \in Nat /\ Entries = 1 .. Len(heap)
    BY <2>2, LenProperties DEF Entries
  <2>4. Cardinality(Entries) = Len(heap)
    <3>1. PICK n : n = Len(heap) /\ n \in Int /\ n >= 0 /\ Entries = 1 .. n
      BY <2>3
    <3>2. 1 \in Int /\ n \in Int
      BY <3>1
    <3>3. Cardinality(1 .. n) = IF 1 > n THEN 0 ELSE n - 1 + 1
      BY <3>2, FS_Interval
    <3> QED
      BY <3>1, <3>3
  <2> QED
    BY <2>2, <2>4 DEF LinksSound, Listed, Linked
<1> QED
  BY <1>1, Invariance, PTL

\* formatsock's cache implements RecencyList: the addresses asked for, each
\* once, the latest first.
THEOREM CacheIsRecencyList == Spec => MostRecentFirst
<1>1. Init => Recency!Init
  BY Start DEF Init, Recency!Init, Addresses, NoAnswer, Recency!NoAnswer
<1>2. IInv /\ [Next]_vars => [Recency!Next]_<<Addresses(Chain, heap), answer>>
  BY StepLists
<1> QED
  BY <1>1, <1>2, Invariance, PTL DEF Spec, MostRecentFirst, Recency!Spec, Addresses
=============================================================================
