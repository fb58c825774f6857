------------------------- MODULE UpdatePydocProofs -------------------------
(***************************************************************************)
(* update_pydoc, for every XML, every set of templates and every filter.   *)
(*                                                                         *)
(* Every header sub writes holds in its slots what the dictionary has for  *)
(* them: the invariant follows the substitution key by key.  A slot has    *)
(* the value of the keys gone through that are spelt like it, of the last  *)
(* of them, or of the first that hid the slot from the rest; and no more   *)
(* slots have not than keys with a bar were gone through.                  *)
(*                                                                         *)
(* What a slot says was written about something spelt like it, or about    *)
(* its block: every entry tells of its own key, whatever is described.     *)
(*                                                                         *)
(* Scraping fails for what the XML makes it fail for: every member of the  *)
(* index is traced to the compound it is from, and what is looked up in    *)
(* the index is counted there.                                             *)
(*                                                                         *)
(* A function that is no block's has the description of the last place     *)
(* that documents it: the dictionary tells of the first functions of the   *)
(* list, by induction along it.                                            *)
(***************************************************************************)
EXTENDS UpdatePydoc, Iteration, SequenceTheorems, FiniteSetTheorems

-----------------------------------------------------------------------------
(* The slots of one header.  *)

\* The least of some numbers.
LEMMA MinFields ==
  ASSUME NEW n \in Nat, NEW S \in SUBSET (1 .. n), S # {}
  PROVE  Min(S) \in S /\ \A i \in S : Min(S) <= i
<1>1. PICK m \in S : \A i \in S : m <= i
  <2>1. S \in SUBSET Nat
    OBVIOUS
  <2> QED
    BY <2>1, LeastNatural
<1> QED
  BY <1>1 DEF Min

\* The greatest of some numbers.
LEMMA MaxFields ==
  ASSUME NEW n \in Nat, NEW S \in SUBSET (1 .. n), S # {}
  PROVE  Max(S) \in S /\ \A i \in S : i <= Max(S)
<1>1. PICK T : T = {k \in 0 .. n : n - k \in S}
  OBVIOUS
<1>2. T \in SUBSET Nat /\ T # {}
  <2>1. PICK i \in S : i \in 1 .. n
    OBVIOUS
  <2>2. n - i \in 0 .. n /\ n - (n - i) = i
    BY <2>1
  <2>3. n - i \in T
    BY <1>1, <2>2
  <2>4. \A j \in T : j \in Nat
    BY <1>1
  <2> QED
    BY <2>3, <2>4
<1>3. PICK k \in T : \A j \in T : k <= j
  BY <1>2, LeastNatural
<1>4. k \in 0 .. n /\ n - k \in S
  BY <1>1, <1>3
<1>5. ASSUME NEW i \in S PROVE i <= n - k
  <2>1. i \in 1 .. n /\ n - i \in 0 .. n /\ n - (n - i) = i
    OBVIOUS
  <2>2. n - i \in T
    BY <1>1, <2>1
  <2>3. k <= n - i
    BY <1>3, <2>2
  <2> QED
    BY <1>4, <2>1, <2>3
<1>6. \A i \in S : n - k >= i
  BY <1>4, <1>5
<1>7. Max(S) \in S /\ \A i \in S : Max(S) >= i
  BY <1>4, <1>6 DEF Max
<1> QED
  BY <1>7

\* Of the first n keys of dict, those whose value may go to the slot of this
\* key, and those of them that would let no other follow.
Mine(dict, key, n) ==
    {m \in 1 .. n : DocKey(dict[m][1]) = key /\ Start(dict[m][2]) # "digit"}
Hiding(dict, mine) ==
    {m \in mine : Closes(dict[m][2]) \/ Start(dict[m][2]) = "octal"}
Winner(dict, mine) ==
    IF Hiding(dict, mine) = {} THEN Max(mine) ELSE Min(Hiding(dict, mine))

Shows(slot, value) == slot.text = value /\ slot.header = (Start(value) # "octal")
HasValue(slot, dict, mine) ==
    IF mine = {} THEN slot.text = <<>> /\ slot.header
    ELSE Shows(slot, dict[Winner(dict, mine)][2])

\* A key that is not for the slot.
LEMMA MineStays ==
  ASSUME NEW dict, NEW key, NEW n \in Nat,
         DocKey(dict[n + 1][1]) # key \/ Start(dict[n + 1][2]) = "digit"
  PROVE  Mine(dict, key, n + 1) = Mine(dict, key, n)
<1>1. PICK c \in Nat : c = n + 1
  OBVIOUS
<1>2. \A m \in 1 .. c : m = c \/ m \in 1 .. n
  BY <1>1
<1>3. \A m \in 1 .. n : m \in 1 .. c
  BY <1>1
<1> QED
  BY <1>1, <1>2, <1>3 DEF Mine

\* A key that is.
LEMMA MineGrows ==
  ASSUME NEW dict, NEW key, NEW n \in Nat,
         DocKey(dict[n + 1][1]) = key, Start(dict[n + 1][2]) # "digit"
  PROVE  Mine(dict, key, n + 1) = Mine(dict, key, n) \cup {n + 1}
<1>1. PICK c \in Nat : c = n + 1
  OBVIOUS
<1>2. \A m \in 1 .. c : m = c \/ m \in 1 .. n
  BY <1>1
<1>3. (\A m \in 1 .. n : m \in 1 .. c) /\ c \in 1 .. c
  BY <1>1
<1> QED
  BY <1>1, <1>2, <1>3 DEF Mine

\* An empty text has no bracket.
LEMMA EmptyCloses == ~Closes(<<>>)
  BY DEF Closes, ToSet

\* A slot its pattern does not find any more keeps its value, and rightly so.
LEMMA HiddenStays ==
  ASSUME NEW dict, NEW n \in Nat, NEW slot,
         HasValue(slot, dict, Mine(dict, slot.key, n)),
         DocKey(dict[n + 1][1]) = slot.key, Start(dict[n + 1][2]) # "digit",
         ~(slot.header /\ ~Closes(slot.text))
  PROVE  HasValue(slot, dict, Mine(dict, slot.key, n + 1))
<1>1. PICK c \in Nat : c = n + 1
  OBVIOUS
<1>2. PICK M : M = Mine(dict, slot.key, n)
  OBVIOUS
<1>3. PICK N : N = Mine(dict, slot.key, c)
  OBVIOUS
<1>4. N = M \cup {c} /\ M \in SUBSET (1 .. n)
  <2>1. N = M \cup {c}
    BY <1>1, <1>2, <1>3, MineGrows
  <2> QED
    BY <1>2, <2>1 DEF Mine
<1>5. M # {} /\ slot.text = dict[Winner(dict, M)][2]
      /\ slot.header = (Start(dict[Winner(dict, M)][2]) # "octal")
  BY <1>2, EmptyCloses DEF HasValue, Shows
<1>6. Closes(dict[Winner(dict, M)][2]) \/ Start(dict[Winner(dict, M)][2]) = "octal"
  BY <1>5
<1>7. Hiding(dict, M) # {}
  <2>1. Hiding(dict, M) = {} => Winner(dict, M) \in M
    BY <1>4, <1>5, MaxFields DEF Winner
  <2> QED
    BY <1>6, <2>1 DEF Hiding
<1>8. PICK h : h = Min(Hiding(dict, M))
  OBVIOUS
<1>9. Hiding(dict, M) \in SUBSET (1 .. n) /\ h \in Hiding(dict, M) /\ \A i \in Hiding(dict, M) : h <= i
  <2>1. Hiding(dict, M) \in SUBSET (1 .. n)
    BY <1>4 DEF Hiding
  <2> QED
    BY <1>7, <1>8, <2>1, MinFields
<1>10. Min(Hiding(dict, N)) = h
  <2>1. Hiding(dict, N) \in SUBSET (1 .. c) /\ h \in Hiding(dict, N)
    BY <1>1, <1>4, <1>9 DEF Hiding
  <2>2. PICK g : g = Min(Hiding(dict, N))
    OBVIOUS
  <2>3. g \in Hiding(dict, N) /\ g <= h
    BY <2>1, <2>2, MinFields
  <2>4. g # c
    BY <1>1, <1>9, <2>3
  <2>5. g \in Hiding(dict, M)
    BY <1>4, <2>3, <2>4 DEF Hiding
  <2> QED
    BY <1>9, <2>2, <2>3, <2>5
<1>11. Winner(dict, N) = Winner(dict, M) /\ N # {}
  BY <1>4, <1>7, <1>8, <1>9, <1>10 DEF Winner, Hiding
<1> QED
  BY <1>1, <1>3, <1>5, <1>11 DEF HasValue, Shows

\* A slot its pattern finds gets the value.
LEMMA FoundShows ==
  ASSUME NEW dict, NEW n \in Nat, NEW slot,
         HasValue(slot, dict, Mine(dict, slot.key, n)),
         DocKey(dict[n + 1][1]) = slot.key, Start(dict[n + 1][2]) # "digit",
         slot.header, ~Closes(slot.text),
         NEW new, new.key = slot.key, Shows(new, dict[n + 1][2])
  PROVE  HasValue(new, dict, Mine(dict, new.key, n + 1))
<1>1. PICK c \in Nat : c = n + 1
  OBVIOUS
<1>2. PICK M : M = Mine(dict, slot.key, n)
  OBVIOUS
<1>3. PICK N : N = Mine(dict, slot.key, c)
  OBVIOUS
<1>4. N = M \cup {c} /\ M \in SUBSET (1 .. n)
  <2>1. N = M \cup {c}
    BY <1>1, <1>2, <1>3, MineGrows
  <2> QED
    BY <1>2, <2>1 DEF Mine
<1>5. Hiding(dict, M) = {}
  <2> SUFFICES ASSUME Hiding(dict, M) # {} PROVE FALSE
    OBVIOUS
  <2>1. Hiding(dict, M) \in SUBSET (1 .. n) /\ M # {}
    BY <1>4 DEF Hiding
  <2>2. Winner(dict, M) \in Hiding(dict, M)
    BY <2>1, MinFields DEF Winner
  <2>3. Closes(dict[Winner(dict, M)][2]) \/ Start(dict[Winner(dict, M)][2]) = "octal"
    BY <2>2 DEF Hiding
  <2>4. /\ slot.text = dict[Winner(dict, M)][2]
        /\ slot.header = (Start(dict[Winner(dict, M)][2]) # "octal")
    BY <1>2, <2>1 DEF HasValue, Shows
  <2> QED
    BY <2>3, <2>4
<1>6. Winner(dict, N) = c /\ N # {}
  <2>1. N \in SUBSET (1 .. c) /\ N # {}
    BY <1>1, <1>4
  <2>2. Max(N) = c
    <3>1. Max(N) \in N /\ c <= Max(N)
      BY <1>4, <2>1, MaxFields
    <3>2. PICK m : m = Max(N)
      OBVIOUS
    <3>3. m \in 1 .. c /\ c <= m
      BY <2>1, <3>1, <3>2
    <3> QED
      BY <1>1, <3>2, <3>3
  <2>3. CASE Hiding(dict, N) = {}
    BY <2>1, <2>2, <2>3 DEF Winner
  <2>4. CASE Hiding(dict, N) # {}
    <3>1. Hiding(dict, N) \subseteq {c}
      BY <1>4, <1>5 DEF Hiding
    <3>2. Hiding(dict, N) \in SUBSET (1 .. c)
      BY <1>1, <3>1
    <3>3. Min(Hiding(dict, N)) \in Hiding(dict, N)
      BY <2>4, <3>2, MinFields
    <3> QED
      BY <2>1, <2>4, <3>1, <3>3 DEF Winner
  <2> QED
    BY <2>3, <2>4
<1> QED
  BY <1>1, <1>3, <1>6 DEF HasValue

\* Places in order have the ends of what they are the places of.
LEMMA ImageEnds ==
  ASSUME NEW k \in Nat, NEW l \in Nat, NEW place \in [1 .. k -> 1 .. l],
         \A m, n \in 1 .. k : m < n => place[m] < place[n],
         NEW M \in SUBSET (1 .. k), M # {}
  PROVE  /\ Min({place[m] : m \in M}) = place[Min(M)]
         /\ Max({place[m] : m \in M}) = place[Max(M)]
<1>1. PICK N : N = {place[m] : m \in M}
  OBVIOUS
<1>2. N \in SUBSET (1 .. l) /\ N # {}
  BY <1>1
<1>3. ASSUME NEW m \in M, NEW n \in M, m <= n PROVE place[m] <= place[n]
  <2>1. m \in 1 .. k /\ n \in 1 .. k /\ place[m] \in 1 .. l /\ place[n] \in 1 .. l
    OBVIOUS
  <2>2. CASE m = n
    BY <2>1, <2>2
  <2>3. CASE m < n
    BY <2>1, <2>3
  <2> QED
    BY <1>3, <2>1, <2>2, <2>3
<1>4. Min(N) = place[Min(M)]
  <2>1. PICK a : a = Min(M) /\ a \in M /\ \A m \in M : a <= m
    BY MinFields
  <2>2. PICK b : b = Min(N) /\ b \in N /\ \A n \in N : b <= n
    BY <1>2, MinFields
  <2>3. PICK m \in M : b = place[m]
    BY <1>1, <2>2
  <2>4. place[a] \in N /\ place[a] <= b /\ b <= place[a]
    BY <1>1, <1>3, <2>1, <2>2, <2>3
  <2>5. place[a] \in Nat /\ b \in Nat
    <3>1. \A n \in N : n \in Nat
      BY <1>2
    <3> QED
      BY <2>2, <2>4, <3>1
  <2> QED
    BY <2>1, <2>2, <2>4, <2>5
<1>5. Max(N) = place[Max(M)]
  <2>1. PICK a : a = Max(M) /\ a \in M /\ \A m \in M : m <= a
    BY MaxFields
  <2>2. PICK b : b = Max(N) /\ b \in N /\ \A n \in N : n <= b
    BY <1>2, MaxFields
  <2>3. PICK m \in M : b = place[m]
    BY <1>1, <2>2
  <2>4. place[a] \in N /\ place[a] <= b /\ b <= place[a]
    BY <1>1, <1>3, <2>1, <2>2, <2>3
  <2>5. place[a] \in Nat /\ b \in Nat
    <3>1. \A n \in N : n \in Nat
      BY <1>2
    <3> QED
      BY <2>2, <2>4, <3>1
  <2> QED
    BY <2>1, <2>2, <2>4, <2>5
<1> QED
  BY <1>1, <1>4, <1>5

\* A selection that keeps the order has the same winner.
LEMMA WinnerMoves ==
  ASSUME NEW S, NEW s \in Seq(S), NEW t \in Seq(S), NEW places, NEW place,
         Placed(t, s, Len(s), places, place),
         NEW M \in SUBSET (1 .. Len(t)), M # {}
  PROVE  s[Winner(s, {place[m] : m \in M})] = t[Winner(t, M)]
<1>1. PICK k \in Nat, l \in Nat : k = Len(t) /\ l = Len(s)
  OBVIOUS
<1>2. PICK N : N = {place[m] : m \in M}
  OBVIOUS
<1>3. place \in [1 .. k -> 1 .. l] /\ \A m, n \in 1 .. k : m < n => place[m] < place[n]
  BY <1>1 DEF Placed
<1>4. \A m \in M : t[m] = s[place[m]]
  BY DEF Placed
<1>5. Hiding(s, N) = {place[m] : m \in Hiding(t, M)}
  BY <1>2, <1>4 DEF Hiding
<1>6. Hiding(t, M) \in SUBSET (1 .. k)
  BY <1>1 DEF Hiding
<1>7. CASE Hiding(t, M) = {}
  <2>1. Hiding(s, N) = {}
    BY <1>5, <1>7
  <2>2. Winner(s, N) = Max(N) /\ Winner(t, M) = Max(M)
    BY <1>7, <2>1 DEF Winner
  <2>3. Max(N) = place[Max(M)] /\ Max(M) \in M
    BY <1>1, <1>2, <1>3, ImageEnds, MaxFields
  <2> QED
    BY <1>2, <1>4, <2>2, <2>3
<1>8. CASE Hiding(t, M) # {}
  <2>1. Hiding(s, N) # {}
    BY <1>5, <1>8
  <2>2. Winner(s, N) = Min(Hiding(s, N)) /\ Winner(t, M) = Min(Hiding(t, M))
    BY <1>8, <2>1 DEF Winner
  <2>3. PICK H : H = Hiding(t, M)
    OBVIOUS
  <2>4. Min({place[m] : m \in H}) = place[Min(H)] /\ Min(H) \in H
    <3>1. H \in SUBSET (1 .. k) /\ H # {}
      BY <1>6, <1>8, <2>3
    <3>2. Min(H) \in H
      BY <3>1, MinFields
    <3> QED
      BY <1>3, <3>1, <3>2, ImageEnds
  <2>5. Min(H) \in M
    BY <2>3, <2>4 DEF Hiding
  <2> QED
    BY <1>2, <1>4, <1>5, <2>2, <2>3, <2>4, <2>5
<1> QED
  BY <1>7, <1>8

-----------------------------------------------------------------------------
(* The invariant of the substitution.  *)

\* The keys SlotHoldsItsOwn says a template is given, and those of them it
\* asks of a slot.
Given(template) ==
    {n \in DOMAIN output :
       filter_str # <<>> =>
         IsPrefix(filter_str \o <<"::">> \o template.name, output[n][1])}
Asked(template, key) ==
    {n \in Given(template) : /\ DocKey(output[n][1]) = key
                             /\ Start(output[n][2]) # "digit"}

\* The first n keys of dict, a bar in them.
Barred(dict, n) == {m \in 1 .. n : "|" \in ToSet(dict[m][1])}

\* The keys a template is given that may spoil a slot.
Charged(template) == {n \in Given(template) : "|" \in ToSet(output[n][1])}

\* The keys a template is given keep the order they have in the dictionary.
LEMMA SelectedPlaces ==
  ASSUME Sequence(output), NEW template, NEW dict, dict = Selected(output, template)
  PROVE  \E S, places, place :
           /\ output \in Seq(S) /\ dict \in Seq(S)
           /\ Placed(dict, output, Len(output), places, place)
           /\ places = {i \in DOMAIN output :
                          \/ filter_str = <<>>
                          \/ IsPrefix(filter_str \o <<"::">> \o template.name, output[i][1])}
<1>1. PICK S : output \in Seq(S)
  BY DEF Sequence
<1>2. PICK places : places = {i \in DOMAIN output :
                                \/ filter_str = <<>>
                                \/ IsPrefix(filter_str \o <<"::">> \o template.name, output[i][1])}
  OBVIOUS
<1>3. dict = Kept(output, places)
  BY <1>2 DEF Selected
<1>4. dict \in Seq(S) /\ \E place : Placed(dict, output, Len(output), places, place)
  BY <1>1, <1>3, KeptFields
<1>5. PICK place : Placed(dict, output, Len(output), places, place)
  BY <1>4
<1> QED
  BY <1>1, <1>2, <1>4, <1>5

\* A slot that went through all the keys its template is given.
LEMMA SelectedValue ==
  ASSUME Sequence(output), NEW template, NEW slot, NEW dict, dict = Selected(output, template),
         HasValue(slot, dict, Mine(dict, slot.key, Len(dict)))
  PROVE  HasValue(slot, output, Asked(template, slot.key))
<1>1. PICK S, places, place :
        /\ output \in Seq(S) /\ dict \in Seq(S)
        /\ Placed(dict, output, Len(output), places, place)
        /\ places = {i \in DOMAIN output :
                       \/ filter_str = <<>>
                       \/ IsPrefix(filter_str \o <<"::">> \o template.name, output[i][1])}
  BY SelectedPlaces
<1>6. PICK M : M = Mine(dict, slot.key, Len(dict))
  OBVIOUS
<1>7. PICK k \in Nat, l \in Nat : k = Len(dict) /\ l = Len(output) /\ DOMAIN output = 1 .. l
  BY <1>1
<1>8. Asked(template, slot.key) = {place[m] : m \in M}
  <2>1. ASSUME NEW n \in Asked(template, slot.key) PROVE n \in {place[m] : m \in M}
    <3>1. n \in 1 .. l /\ n \in places
      BY <1>1, <1>7 DEF Asked, Given
    <3>2. PICK m \in 1 .. k : place[m] = n
      BY <1>1, <1>7, <3>1 DEF Placed
    <3>3. dict[m] = output[n]
      BY <1>1, <1>7, <3>2 DEF Placed
    <3>4. m \in M
      BY <1>6, <1>7, <3>2, <3>3 DEF Asked, Mine, Given
    <3> QED
      BY <3>2, <3>4
  <2>2. ASSUME NEW m \in M PROVE place[m] \in Asked(template, slot.key)
    <3>1. /\ m \in 1 .. k /\ DocKey(dict[m][1]) = slot.key /\ Start(dict[m][2]) # "digit"
      BY <1>6, <1>7 DEF Mine
    <3>2. place[m] \in places /\ dict[m] = output[place[m]]
      BY <1>1, <1>7, <3>1 DEF Placed
    <3> QED
      BY <1>1, <3>1, <3>2 DEF Asked, Given
  <2> QED
    BY <2>1, <2>2
<1>9. CASE M = {}
  <2>1. Asked(template, slot.key) = {}
    BY <1>8, <1>9
  <2> QED
    BY <1>6, <1>9, <2>1 DEF HasValue
<1>10. CASE M # {}
  <2>1. M \in SUBSET (1 .. Len(dict))
    BY <1>6 DEF Mine
  <2>2. output[Winner(output, {place[m] : m \in M})] = dict[Winner(dict, M)]
    BY <1>1, <1>10, <2>1, WinnerMoves
  <2>3. Asked(template, slot.key) # {}
    BY <1>8, <1>10
  <2>4. Shows(slot, dict[Winner(dict, M)][2])
    BY <1>6, <1>10 DEF HasValue
  <2> QED
    BY <1>8, <2>2, <2>3, <2>4 DEF HasValue
<1> QED
  BY <1>9, <1>10

\* No fewer keys with a bar are charged to a template than it went through.
LEMMA SelectedBarred ==
  ASSUME Sequence(output), NEW template, NEW dict, dict = Selected(output, template)
  PROVE  /\ IsFiniteSet(Charged(template))
         /\ Cardinality(Barred(dict, Len(dict))) <= Cardinality(Charged(template))
<1>1. PICK S, places, place :
        /\ output \in Seq(S) /\ dict \in Seq(S)
        /\ Placed(dict, output, Len(output), places, place)
        /\ places = {i \in DOMAIN output :
                       \/ filter_str = <<>>
                       \/ IsPrefix(filter_str \o <<"::">> \o template.name, output[i][1])}
  BY SelectedPlaces
<1>2. PICK k \in Nat, l \in Nat : k = Len(dict) /\ l = Len(output) /\ DOMAIN output = 1 .. l
  BY <1>1
<1>3. PICK B, C : B = Barred(dict, k) /\ C = Charged(template)
  OBVIOUS
<1>4. IsFiniteSet(C)
  <2>1. IsFiniteSet(1 .. l)
    BY FS_Interval
  <2>2. C \in SUBSET (1 .. l)
    BY <1>2, <1>3 DEF Charged, Given
  <2> QED
    BY <2>1, <2>2, FS_Subset
<1>5. ASSUME NEW m \in B PROVE m \in 1 .. k /\ place[m] \in C
  <2>1. m \in 1 .. k /\ "|" \in ToSet(dict[m][1])
    BY <1>3 DEF Barred
  <2>2. place[m] \in places /\ dict[m] = output[place[m]]
    BY <1>1, <1>2, <2>1 DEF Placed
  <2> QED
    BY <1>1, <1>3, <2>1, <2>2 DEF Charged, Given
<1>6. ASSUME NEW m \in B, NEW n \in B, place[m] = place[n] PROVE m = n
  <2>1. m \in 1 .. k /\ n \in 1 .. k /\ place[m] \in 1 .. l /\ place[n] \in 1 .. l
    BY <1>1, <1>2, <1>5 DEF Placed
  <2>2. \A i, j \in 1 .. k : i < j => place[i] < place[j]
    BY <1>1, <1>2 DEF Placed
  <2>3. ~(m < n) /\ ~(n < m)
    BY <1>6, <2>1, <2>2
  <2> QED
    BY <2>1, <2>3
<1>7. PICK f : f = [m \in B |-> place[m]]
  OBVIOUS
<1>8. f \in Injection(B, C)
  BY <1>5, <1>6, <1>7 DEF Injection, IsInjective
<1>9. Cardinality(B) <= Cardinality(C)
  BY <1>4, <1>8, FS_Injection
<1> QED
  BY <1>2, <1>3, <1>4, <1>9

-----------------------------------------------------------------------------
(* What scraping keeps are sequences.  *)

\* The dictionary stays a sequence of entries.
LEMMA UpdateSequence ==
  ASSUME NEW dict, NEW entries, Sequence(dict), Sequence(entries)
  PROVE  Sequence(Update(dict, entries))
<1> DEFINE all == dict \o entries
           at(key) == {i \in DOMAIN all : all[i][1] = key}
<1>1. PICK f : f = [i \in DOMAIN all |-> <<all[i][1], all[Max(at(all[i][1]))][2]>>]
  OBVIOUS
<1>2. Sequence(all)
  BY JoinedSequence
<1> HIDE DEF all
<1>3. DOMAIN f = DOMAIN all /\ f = [i \in DOMAIN all |-> f[i]]
  BY <1>1
<1>4. Sequence(f)
  BY <1>2, <1>3, FunctionSequence
<1>5. PICK places : places = {i \in DOMAIN all : i = Min(at(all[i][1]))}
  OBVIOUS
<1>6. Update(dict, entries) = Kept(f, places)
  BY <1>1, <1>5 DEF Update, all
<1> QED
  BY <1>4, <1>6, KeptSequence

\* The entry of one object.
LEMMA EntryIs ==
  ASSUME NEW name, NEW description, NEW params
  PROVE  /\ Sequence(make_entry(name, description, params))
         /\ ToSet(make_entry(name, description, params)) =
              IF "operator " \in ToSet(name) THEN {} ELSE {<<name, description \o Args(params)>>}
<1>1. PICK e, s : e = <<name, description \o Args(params)>> /\ s = <<e>>
  OBVIOUS
<1>2. Sequence(s) /\ DOMAIN s = {1} /\ s[1] = e /\ e[1] = name
  BY <1>1, OneSequence
<1>3. PICK places : places = {i \in DOMAIN s : "operator " \notin ToSet(s[i][1])}
  OBVIOUS
<1>4. make_entry(name, description, params) = Kept(s, places)
  BY <1>1, <1>3 DEF make_entry, Entries
<1>5. Sequence(Kept(s, places)) /\ ToSet(Kept(s, places)) = {s[i] : i \in DOMAIN s \cap places}
  BY <1>2, KeptSequence
<1>6. CASE "operator " \in ToSet(name)
  <2>1. ToSet(Kept(s, places)) = {}
    BY <1>2, <1>3, <1>5, <1>6
  <2> QED
    BY <1>4, <1>5, <1>6, <2>1
<1>7. CASE "operator " \notin ToSet(name)
  <2>1. DOMAIN s \cap places = {1}
    BY <1>2, <1>3, <1>7
  <2>2. ToSet(Kept(s, places)) = {e}
    BY <1>2, <1>5, <2>1
  <2> QED
    BY <1>1, <1>4, <1>5, <1>7, <2>2
<1> QED
  BY <1>6, <1>7

\* The entry of a class, with the given text, or of one of its methods.
ClassEntry(e, k, text) ==
    \/ e = <<k.name, text>>
    \/ \E m \in ToSet(k.contents) : DoxyFunction(m) /\ e = <<k.name \o <<"::">> \o m.name, m.doc>>

\* The entries of a class: its own, and one for each of its methods.
LEMMA ClassEntryIs ==
  ASSUME NEW k, NEW description, NEW ignored, NEW params, Sequence(k.contents)
  PROVE  /\ Sequence(make_class_entry(k, description, ignored, params))
         /\ \A e \in ToSet(make_class_entry(k, description, ignored, params)) :
              ClassEntry(e, k, description \o Args(params))
<1>1. PICK all : all = MembersOf(k)
  OBVIOUS
<1>2. Sequence(all) /\ ToSet(all) \subseteq ToSet(k.contents)
  BY <1>1, KeptSequence DEF MembersOf, process_memberdefs, ToSet
<1>3. PICK functions : functions = in_category(all, {"function"})
  OBVIOUS
<1>4. Sequence(functions) /\ \A f \in ToSet(functions) : f \in ToSet(all) /\ DoxyFunction(f)
  <2>1. PICK places : places = {i \in DOMAIN all : all[i].kind \in {"function"}}
    OBVIOUS
  <2>2. functions = Kept(all, places)
    BY <1>3, <2>1 DEF in_category
  <2>3. Sequence(functions) /\ ToSet(functions) = {all[i] : i \in DOMAIN all \cap places}
    BY <1>2, <2>2, KeptSequence
  <2> QED
    BY <2>1, <2>3 DEF ToSet, DoxyFunction
<1>5. PICK m : m = Methods(k, ignored)
  OBVIOUS
<1>6. Sequence(m) /\ ToSet(m) \subseteq ToSet(functions)
  <2>1. PICK places : m = Kept(functions, places)
    BY <1>1, <1>3, <1>5 DEF Methods
  <2> QED
    BY <1>4, <2>1, KeptSequence DEF ToSet
<1>7. PICK named : named = [i \in DOMAIN m |-> <<k.name \o <<"::">> \o m[i].name, m[i].doc>>]
  OBVIOUS
<1>8. Sequence(named)
  BY <1>6, <1>7, FunctionSequence
<1>9. \A i \in DOMAIN m : m[i] \in ToSet(k.contents) /\ DoxyFunction(m[i])
  BY <1>2, <1>4, <1>6 DEF ToSet
<1>10. Sequence(Entries(named)) /\ ToSet(Entries(named)) \subseteq ToSet(named)
  <2>1. PICK places : Entries(named) = Kept(named, places)
    BY DEF Entries
  <2>2. /\ Sequence(Kept(named, places))
        /\ ToSet(Kept(named, places)) = {named[i] : i \in DOMAIN named \cap places}
    BY <1>8, KeptSequence
  <2> QED
    BY <2>1, <2>2 DEF ToSet
<1>11. PICK own : own = make_entry(k.name, description, params)
  OBVIOUS
<1>12. Sequence(own) /\ ToSet(own) \subseteq {<<k.name, description \o Args(params)>>}
  BY <1>11, EntryIs
<1>13. make_class_entry(k, description, ignored, params) = own \o Entries(named)
  BY <1>5, <1>7, <1>11 DEF make_class_entry
<1>14. /\ Sequence(own \o Entries(named))
       /\ ToSet(own \o Entries(named)) = ToSet(own) \cup ToSet(Entries(named))
  BY <1>10, <1>12, JoinedSequence
<1>15. \A e \in ToSet(named) : \E f \in ToSet(k.contents) :
         DoxyFunction(f) /\ e = <<k.name \o <<"::">> \o f.name, f.doc>>
  BY <1>7, <1>9 DEF ToSet
<1> QED
  BY <1>10, <1>12, <1>13, <1>14, <1>15 DEF ClassEntry

\* The entries of a block, of either kind.
LEMMA BlockEntrySequence ==
  ASSUME NEW k, NEW make, Sequence(k.contents)
  PROVE  /\ Sequence(make_block_entry(k, make))
         /\ Sequence(make_block2_entry(k, make))
  BY ClassEntryIs, EntryIs, JoinedSequence DEF make_block_entry, make_block2_entry

-----------------------------------------------------------------------------
(* The invariant.  *)

\* The contents of a compound, and of its members, can be gone through.
Readable(item) ==
    Sequence(item.contents) /\ \A m \in ToSet(item.contents) : m.contents = <<>>

Scraping == phase \in {"blocks", "blocks2", "functions", "classes"}

Sequences ==
    /\ Sequence(xml) /\ Sequence(members) /\ Sequence(todo) /\ Sequence(output)
    /\ \A item \in ToSet(xml) : Readable(item)
    /\ \A item \in ToSet(members) : Readable(item)
    /\ Scraping => \A item \in ToSet(todo) : Readable(item)

\* The slots that have not the value the first n keys of dict give them.
Wrong(slots, dict, n) ==
    {i \in DOMAIN slots : ~HasValue(slots[i], dict, Mine(dict, slots[i].key, n))}

\* The template being read, n of its keys gone through.
Filled(n) ==
    LET dict == Selected(output, Head(files))
        slots == Head(files).slots
    IN  /\ n + Len(todo) = Len(dict)
        /\ \A m \in 1 .. Len(todo) : todo[m] = dict[n + m]
        /\ DOMAIN file_in = DOMAIN slots
        /\ \A i \in DOMAIN slots :
             /\ file_in[i].key = slots[i]
             /\ file_in[i].header => file_in[i].name = slots[i]
        /\ Cardinality(Wrong(file_in, dict, n)) <= Cardinality(Barred(dict, n))

Substituting ==
    /\ Sequence(files) /\ ToSet(files) \subseteq ToSet(Templates)
    /\ file_in # <<>> => phase = "sub" /\ files # <<>> /\ \E n \in Nat : Filled(n)

\* The slots of a written header that have not what they should.
Spoilt(w) ==
    {i \in DOMAIN w.slots : ~HasValue(w.slots[i], output, Asked(w.template, w.slots[i].key))}

HeadersHold ==
    /\ written # {} => phase \in {"sub", "copy"}
    /\ phase = "copy" => output = <<>>
    /\ \A w \in written : Cardinality(Spoilt(w)) <= Cardinality(Charged(w.template))

IInv == Sequences /\ Substituting /\ HeadersHold

\* It holds before anything is read.
LEMMA Initially ==
  ASSUME Init
  PROVE  IInv
<1>1. Sequence(<<>>) /\ ToSet(<<>>) = {}
  BY OneSequence
<1>2. Sequence(xml) /\ \A item \in ToSet(xml) : Readable(item)
  <2>1. CASE xml \in Directories
    BY <2>1, DirectoriesAssumption DEF Readable
  <2>2. CASE xml = <<>>
    BY <1>1, <2>2
  <2> QED
    BY <2>1, <2>2 DEF Init
<1>3. Sequences
  BY <1>1, <1>2 DEF Init, Sequences
<1>4. Substituting
  BY TemplatesAssumption DEF Init, Substituting
<1>5. HeadersHold
  BY DEF Init, HeadersHold
<1> QED
  BY <1>3, <1>4, <1>5 DEF IInv

\* One more compound is read.
LEMMA ReadCompoundSequences ==
  ASSUME Sequences, ReadCompound
  PROVE  /\ Sequence(xml') /\ Sequence(members')
         /\ \A item \in ToSet(xml') : Readable(item)
         /\ \A item \in ToSet(members') : Readable(item)
<1>1. PICK c : c = Head(xml)
  OBVIOUS
<1>2. /\ Readable(c) /\ Sequence(xml') /\ ToSet(xml') \subseteq ToSet(xml)
  BY <1>1, TailSequence DEF Sequences, ReadCompound
<1>3. PICK more : more = IF Spread(c) THEN Append(process_memberdefs(c.contents), c)
                         ELSE IF DoxyFile(c) THEN <<>> ELSE <<c>>
  OBVIOUS
<1>4. Sequence(more) /\ \A item \in ToSet(more) : Readable(item)
  <2>1. PICK m : m = process_memberdefs(c.contents)
    OBVIOUS
  <2>2. Sequence(m) /\ ToSet(m) \subseteq ToSet(c.contents)
    BY <1>2, <2>1, KeptSequence DEF process_memberdefs, Readable, ToSet
  <2>3. \A item \in ToSet(m) : Readable(item)
    BY <1>2, <2>2, OneSequence DEF Readable
  <2>4. Append(m, c) = m \o <<c>>
    BY <2>2 DEF Sequence
  <2>5. Sequence(m \o <<c>>) /\ ToSet(m \o <<c>>) \subseteq ToSet(m) \cup {c}
    BY <2>2, OneSequence, JoinedSequence
  <2> QED
    BY <1>2, <1>3, <2>1, <2>3, <2>4, <2>5, OneSequence
<1>5. members' = members \o more
  BY <1>1, <1>3 DEF ReadCompound
<1>6. Sequence(members') /\ ToSet(members') \subseteq ToSet(members) \cup ToSet(more)
  BY <1>4, <1>5, JoinedSequence DEF Sequences
<1> QED
  BY <1>2, <1>4, <1>6 DEF Sequences

\* What a stage goes through are members.
LEMMA StageSequence ==
  ASSUME NEW s, Sequence(s), \A item \in ToSet(s) : Readable(item), NEW places
  PROVE  Sequence(Kept(s, places)) /\ \A item \in ToSet(Kept(s, places)) : Readable(item)
<1>1. ToSet(Kept(s, places)) \subseteq ToSet(s)
  BY KeptSequence DEF ToSet
<1> QED
  BY <1>1, KeptSequence

\* What the next stage goes through are members, too.
LEMMA NextStageSequences ==
  ASSUME Sequences, FindBlocks \/ NextStage
  PROVE  Sequence(todo') /\ \A item \in ToSet(todo') : Readable(item)
<1>1. PICK functions, classes : /\ functions = in_category(members, {"function"})
                               /\ classes = in_category(members, {"class"})
  OBVIOUS
<1>2. /\ Sequence(functions) /\ \A item \in ToSet(functions) : Readable(item)
      /\ Sequence(classes) /\ \A item \in ToSet(classes) : Readable(item)
  BY <1>1, StageSequence DEF in_category, Sequences
<1>3. \E s, places : /\ todo' = Kept(s, places)
                     /\ s \in {members, functions, classes}
  BY <1>1 DEF FindBlocks, NextStage
<1>4. PICK s, places : todo' = Kept(s, places) /\ s \in {members, functions, classes}
  BY <1>3
<1>5. Sequence(s) /\ \A item \in ToSet(s) : Readable(item)
  BY <1>2, <1>4 DEF Sequences
<1> QED
  BY <1>4, <1>5, StageSequence

\* One more object is described.
LEMMA DescribeSequences ==
  ASSUME Sequences, DescribeBlock \/ DescribeBlock2 \/ DescribeFunction \/ DescribeClass
  PROVE  /\ Sequence(output') /\ Sequence(todo')
         /\ \A item \in ToSet(todo') : Readable(item)
         /\ UNCHANGED <<xml, members, phase>>
<1>1. Scraping /\ todo # <<>> /\ todo' = Tail(todo) /\ UNCHANGED <<xml, members, phase>>
  BY DEF DescribeBlock, DescribeBlock2, DescribeFunction, DescribeClass, Scraping
<1>2. PICK k : k = Head(todo)
  OBVIOUS
<1>3. Readable(k) /\ Sequence(todo') /\ \A item \in ToSet(todo') : Readable(item)
  BY <1>1, <1>2, TailSequence DEF Sequences
<1>4. output' = output \/ \E entries : Sequence(entries) /\ output' = Update(output, entries)
  BY <1>2, <1>3, BlockEntrySequence, EntryIs, ClassEntryIs
     DEF DescribeBlock, DescribeBlock2, DescribeFunction, DescribeClass, Readable
<1> QED
  BY <1>1, <1>3, <1>4, UpdateSequence DEF Sequences

\* Whatever the step, what is gone through stays a sequence.
LEMMA StepSequences ==
  ASSUME Sequences, Next
  PROVE  Sequences'
<1>1. CASE ReadCompound /\ UNCHANGED <<todo, make_funcs, output, subVars, source>>
  <2>1. ~Scraping'
    BY <1>1 DEF ReadCompound, Scraping
  <2> QED
    BY <1>1, <2>1, ReadCompoundSequences DEF Sequences
<1>2. CASE FindBlocks \/ NextStage
  BY <1>2, NextStageSequences DEF Sequences, FindBlocks, NextStage
<1>3. CASE DescribeBlock \/ DescribeBlock2 \/ DescribeFunction \/ DescribeClass
  BY <1>3, DescribeSequences DEF Sequences
<1>4. CASE \/ ReadCompoundRaises /\ UNCHANGED <<todo, make_funcs, output, subVars, source>>
           \/ FindBlocksRaises \/ DescribeBlockRaises \/ WriteJson
           \/ WriteHeader \/ CopyTemplate \/ CopyDone
  <2>1. UNCHANGED <<xml, members, todo, output>> /\ (Scraping' => Scraping)
    BY <1>4 DEF ReadCompoundRaises, FindBlocksRaises, DescribeBlockRaises, WriteJson, WriteHeader,
                CopyTemplate, CopyDone, scrapeVars, Scraping
  <2> QED
    BY <2>1 DEF Sequences
<1>5. CASE ReadTemplate
  <2>1. UNCHANGED <<xml, members, output>> /\ ~Scraping' /\ todo' = Selected(output, Head(files))
    BY <1>5 DEF ReadTemplate, Scraping
  <2>2. Sequence(todo')
    BY <2>1, KeptSequence DEF Selected, Sequences
  <2> QED
    BY <2>1, <2>2 DEF Sequences
<1>6. CASE Sub
  <2>1. UNCHANGED <<xml, members, output>> /\ ~Scraping' /\ todo' = Tail(todo) /\ todo # <<>>
    BY <1>6 DEF Sub, Scraping
  <2> QED
    BY <2>1, TailSequence DEF Sequences
<1> QED
  BY <1>1, <1>2, <1>3, <1>4, <1>5, <1>6 DEF Next

\* A fresh copy of a template.
LEMMA BlankFilled ==
  ASSUME Sequences, Substituting, ReadTemplate
  PROVE  Filled(0)'
<1>1. UNCHANGED <<files, output, filter_str>> /\ file_in' = Blank(Head(files))
      /\ todo' = Selected(output, Head(files))
  BY DEF ReadTemplate
<1>2. Selected(output, Head(files))' = Selected(output, Head(files))
  BY <1>1 DEF Selected
<1>3. PICK l \in Nat : l = Len(todo')
  <2>1. Sequence(todo')
    BY <1>1, KeptSequence DEF Selected, Sequences
  <2> QED
    BY <2>1 DEF Sequence
<1>4. 0 + l = l /\ \A m \in 1 .. l : 0 + m = m
  OBVIOUS
<1>5. \A key : Mine(todo', key, 0) = {}
  BY DEF Mine
<1>6. Wrong(file_in', todo', 0) = {}
  BY <1>1, <1>5 DEF Wrong, Blank, HasValue
<1>7. Barred(todo', 0) = {}
  BY DEF Barred
<1>8. Cardinality(Wrong(file_in', todo', 0)) <= Cardinality(Barred(todo', 0))
  BY <1>6, <1>7, FS_EmptySet
<1> QED
  BY <1>1, <1>2, <1>3, <1>4, <1>8 DEF Filled, Blank

\* A slot keeps its key, and its name as long as its header.
KeepsName(slot, key) == slot.key = key /\ (slot.header => slot.name = key)

\* The slots of a template, none with a sign in its name.
PlainSlots(slots) ==
    /\ Sequence(slots) /\ slots # <<>>
    /\ \A i, j \in DOMAIN slots : slots[i] = slots[j] => i = j
    /\ \A i \in DOMAIN slots : ToSet(slots[i]) \cap Marks = {}

\* What a key makes of the slots.
Subbed(slots, key, value, lines) ==
    \/ (SubRaises(key, value) \/ MayRaise(key)) /\ lines = slots
    \/ Found(slots, key) = {} /\ lines = slots
    \/ /\ ~SubRaises(key, value) /\ Found(slots, key) # {}
       /\ lines = Substitute(slots, Min(Found(slots, key)), key, value)

\* A bar in a key.
LEMMA BarsOf ==
  ASSUME NEW key
  PROVE  /\ Bars(key) # {} <=> "|" \in ToSet(key)
         /\ Bare(key) => Bars(key) # {}
  BY DEF Bars, Bare, ToSet

\* The first of the slots a pattern finds is one of them.
LEMMA FirstFound ==
  ASSUME NEW names, PlainSlots(names), NEW slots, DOMAIN slots = DOMAIN names,
         NEW key, Found(slots, key) # {}
  PROVE  /\ Min(Found(slots, key)) \in Found(slots, key)
         /\ Min(Found(slots, key)) \in DOMAIN names
<1>1. PICK k \in Nat : DOMAIN names = 1 .. k /\ k # 0
  BY DEF PlainSlots, Sequence
<1>2. Found(slots, key) \in SUBSET (1 .. k)
  BY <1>1 DEF Found
<1> QED
  BY <1>1, <1>2, MinFields

\* A slot that is filled keeps its key, and its name if its header.
LEMMA SlotsKeepNames ==
  ASSUME NEW names, PlainSlots(names), NEW slots, DOMAIN slots = DOMAIN names,
         \A i \in DOMAIN names : KeepsName(slots[i], names[i]),
         NEW key, NEW value, NEW lines, Subbed(slots, key, value, lines)
  PROVE  DOMAIN lines = DOMAIN names /\ \A i \in DOMAIN names : KeepsName(lines[i], names[i])
<1>1. CASE lines = slots
  BY <1>1
<1>2. CASE Found(slots, key) # {} /\ lines = Substitute(slots, Min(Found(slots, key)), key, value)
  <2>1. PICK f : f = Min(Found(slots, key))
    OBVIOUS
  <2>2. f \in Found(slots, key) /\ f \in DOMAIN names
    BY <1>2, <2>1, FirstFound
  <2>3. /\ DOMAIN lines = DOMAIN names /\ lines[f] = Refill(slots[f], key, value)
        /\ \A i \in DOMAIN names : i # f => lines[i] = slots[i]
    BY <1>2, <2>1, <2>2 DEF Substitute
  <2>4. CASE Bare(key)
    <3>1. PICK left \in BOOLEAN : left <=> Closes(slots[f].text)
      OBVIOUS
    <3>2. CASE left
      <4>1. lines[f].key = slots[f].key /\ lines[f].name = slots[f].name
            /\ (lines[f].header => slots[f].header)
        <5>1. PICK header : header = (Closes(slots[f].text) /\ slots[f].header)
          OBVIOUS
        <5>2. PICK text : text = UpToBracket(slots[f].text) \o value
          OBVIOUS
        <5>3. lines[f] = [key |-> slots[f].key, name |-> slots[f].name,
                          header |-> header, text |-> text]
          BY <2>3, <2>4, <3>1, <3>2, <5>1, <5>2 DEF Refill
        <5>4. header => slots[f].header
          BY <5>1
        <5>5. lines[f].key = slots[f].key /\ lines[f].name = slots[f].name
              /\ lines[f].header = header
          BY <5>3
        <5> QED
          BY <5>4, <5>5
      <4> QED
        BY <2>2, <2>3, <4>1 DEF KeepsName
    <3>3. CASE ~left
      <4>1. lines[f].key = slots[f].key /\ ~lines[f].header
        BY <2>3, <2>4, <3>1, <3>3 DEF Refill
      <4> QED
        BY <2>2, <2>3, <4>1 DEF KeepsName
    <3> QED
      BY <3>2, <3>3
  <2>5. CASE ~Bare(key) /\ Begins(slots[f], key)
    BY <2>2, <2>3, <2>5 DEF Refill, KeepsName
  <2>6. CASE ~Bare(key) /\ ~Begins(slots[f], key)
    <3>1. slots[f].header
      BY <2>2, <2>6 DEF Found, Whole, Tails
    <3>2. /\ lines[f].key = slots[f].key
          /\ lines[f].header => lines[f].name = slots[f].name
      <4>1. PICK back : back = (Start(value) # "octal")
        OBVIOUS
      <4>2. PICK name : name = IF back \/ Tails(slots[f], key) THEN slots[f].name ELSE <<>>
        OBVIOUS
      <4>3. lines[f] = [key |-> slots[f].key, name |-> name, header |-> back, text |-> value]
        BY <2>3, <2>6, <4>1, <4>2 DEF Refill
      <4>4. lines[f].key = slots[f].key /\ lines[f].name = name /\ lines[f].header = back
        BY <4>3
      <4> QED
        BY <4>2, <4>4
    <3> QED
      BY <2>2, <2>3, <3>1, <3>2 DEF KeepsName
  <2> QED
    BY <2>4, <2>5, <2>6
<1> QED
  BY <1>1, <1>2 DEF Subbed

\* Only so many slots can be wrong.
LEMMA WrongFinite ==
  ASSUME NEW names, PlainSlots(names), NEW slots, DOMAIN slots = DOMAIN names, NEW dict, NEW n
  PROVE  IsFiniteSet(Wrong(slots, dict, n))
<1>1. PICK k \in Nat : DOMAIN names = 1 .. k
  BY DEF PlainSlots, Sequence
<1>2. IsFiniteSet(1 .. k) /\ Wrong(slots, dict, n) \in SUBSET (1 .. k)
  BY <1>1, FS_Interval DEF Wrong
<1> QED
  BY <1>2, FS_Subset

\* The keys with a bar, and one more key.
LEMMA BarredNext ==
  ASSUME NEW dict, NEW n \in Nat
  PROVE  /\ IsFiniteSet(Barred(dict, n)) /\ Cardinality(Barred(dict, n)) \in Nat
         /\ "|" \notin ToSet(dict[n + 1][1]) => Barred(dict, n + 1) = Barred(dict, n)
         /\ "|" \in ToSet(dict[n + 1][1]) =>
              Cardinality(Barred(dict, n + 1)) = Cardinality(Barred(dict, n)) + 1
<1>1. PICK B : B = Barred(dict, n)
  OBVIOUS
<1> DEFINE c == n + 1
<1>2. IsFiniteSet(1 .. n) /\ B \in SUBSET (1 .. n)
  BY <1>1, FS_Interval DEF Barred
<1>3. IsFiniteSet(B)
  BY <1>2, FS_Subset
<1>4. 1 .. c = (1 .. n) \cup {c} /\ c \notin 1 .. n
  OBVIOUS
<1>5. CASE "|" \notin ToSet(dict[c][1])
  <2>1. Barred(dict, c) = B
    BY <1>1, <1>4, <1>5 DEF Barred
  <2> QED
    BY <1>1, <1>3, <1>5, <2>1, FS_CardinalityType
<1>6. CASE "|" \in ToSet(dict[c][1])
  <2>1. Barred(dict, c) = B \cup {c} /\ c \notin B
    BY <1>1, <1>2, <1>4, <1>6 DEF Barred
  <2>2. Cardinality(B \cup {c}) = Cardinality(B) + 1
    BY <1>3, <2>1, FS_AddElement
  <2> QED
    BY <1>1, <1>3, <1>6, <2>1, <2>2, FS_CardinalityType
<1> QED
  BY <1>5, <1>6

\* What is spelt like a slot has no sign in it.
LEMMA SpeltPlain ==
  ASSUME NEW key, NEW name, ToSet(name) \cap Marks = {}, DocKey(key) = name
  PROVE  "|" \notin ToSet(key) /\ "[" \notin ToSet(key) /\ ~MayRaise(key)
<1>1. ASSUME NEW mark \in Marks, mark # "::", NEW m \in DOMAIN key PROVE key[m] # mark
  <2> SUFFICES ASSUME key[m] = mark PROVE FALSE
    OBVIOUS
  <2>1. m \in DOMAIN DocKey(key) /\ DocKey(key)[m] = mark
    BY <1>1 DEF DocKey
  <2>2. mark \in ToSet(name)
    BY <2>1 DEF ToSet
  <2> QED
    BY <2>2
<1>2. \A mark \in {"|", "[", "+"} : mark \in Marks /\ mark # "::"
  BY DEF Marks
<1>3. \A m \in DOMAIN key : key[m] \notin {"|", "[", "+"}
  BY <1>1, <1>2
<1> QED
  BY <1>3 DEF ToSet, MayRaise

\* A key with a bar spoils one slot.
LEMMA BarKey ==
  ASSUME NEW names, PlainSlots(names), NEW slots, DOMAIN slots = DOMAIN names,
         \A i \in DOMAIN names : KeepsName(slots[i], names[i]),
         NEW key, NEW value, NEW lines, Subbed(slots, key, value, lines), "|" \in ToSet(key),
         NEW dict, NEW n \in Nat, dict[n + 1][1] = key
  PROVE  \E x : Wrong(lines, dict, n + 1) \subseteq Wrong(slots, dict, n) \cup {x}
<1>1. PICK x : x = Min(Found(slots, key))
  OBVIOUS
<1>2. DOMAIN lines = DOMAIN names /\ \A i \in DOMAIN names : KeepsName(lines[i], names[i])
  BY SlotsKeepNames
<1>3. ASSUME NEW i \in DOMAIN names, i # x PROVE lines[i] = slots[i]
  BY <1>1, <1>3 DEF Subbed, Substitute
<1>4. ASSUME NEW i \in DOMAIN names PROVE Mine(dict, names[i], n + 1) = Mine(dict, names[i], n)
  <2>1. ToSet(names[i]) \cap Marks = {}
    BY DEF PlainSlots
  <2>2. DocKey(key) # names[i]
    BY <2>1, SpeltPlain
  <2> QED
    BY <2>2, MineStays
<1>5. ASSUME NEW i \in Wrong(lines, dict, n + 1), i # x PROVE i \in Wrong(slots, dict, n)
  <2>1. i \in DOMAIN names /\ ~HasValue(lines[i], dict, Mine(dict, names[i], n + 1))
    BY <1>2 DEF Wrong, KeepsName
  <2>2. ~HasValue(slots[i], dict, Mine(dict, names[i], n)) /\ slots[i].key = names[i]
    BY <1>3, <1>4, <1>5, <2>1 DEF KeepsName
  <2> QED
    BY <2>1, <2>2 DEF Wrong
<1> QED
  BY <1>5

\* A key without a bar spoils none.
LEMMA PlainKey ==
  ASSUME NEW names, PlainSlots(names), NEW slots, DOMAIN slots = DOMAIN names,
         \A i \in DOMAIN names : KeepsName(slots[i], names[i]),
         NEW key, NEW value, NEW lines, Subbed(slots, key, value, lines), "|" \notin ToSet(key),
         NEW dict, NEW n \in Nat, dict[n + 1][1] = key, dict[n + 1][2] = value
  PROVE  Wrong(lines, dict, n + 1) \subseteq Wrong(slots, dict, n)
<1>1. PICK found : found = Found(slots, key)
  OBVIOUS
<1>2. Bars(key) = {} /\ ~Bare(key)
  BY BarsOf
<1>3. ASSUME NEW i \in DOMAIN names
      PROVE  i \in found <=> slots[i].header /\ DocKey(key) = names[i] /\ ~Closes(slots[i].text)
  <2>1. i \in found <=> ~Closes(slots[i].text) /\ slots[i].header /\ slots[i].name = DocKey(key)
    BY <1>1, <1>2 DEF Found, Whole, Begins, Tails
  <2> QED
    BY <2>1 DEF KeepsName
<1>4. ASSUME found # {} PROVE Min(found) \in found /\ \A i \in found : i = Min(found)
  <2>1. Min(found) \in found /\ Min(found) \in DOMAIN names
    BY <1>1, <1>4, FirstFound
  <2>2. found \subseteq DOMAIN names
    BY <1>1, <1>2 DEF Found
  <2>3. \A i \in found : names[i] = names[Min(found)]
    BY <1>3, <2>1, <2>2
  <2> QED
    BY <2>1, <2>2, <2>3 DEF PlainSlots
<1>5. ASSUME NEW i \in DOMAIN names
      PROVE  \/ lines[i] = slots[i] /\ (SubRaises(key, value) \/ MayRaise(key) \/ i \notin found)
             \/ /\ ~SubRaises(key, value) /\ i \in found
                /\ lines[i].key = names[i] /\ Shows(lines[i], value)
  <2>1. CASE (SubRaises(key, value) \/ MayRaise(key)) /\ lines = slots
    BY <2>1
  <2>2. CASE found = {} /\ lines = slots
    BY <2>2
  <2>3. CASE /\ ~SubRaises(key, value) /\ found # {}
             /\ lines = Substitute(slots, Min(found), key, value)
    <3>1. PICK f : f = Min(found)
      OBVIOUS
    <3>2. CASE i = f
      <4>1. i \in found /\ ~Begins(slots[i], key)
        BY <1>2, <1>4, <2>3, <3>1, <3>2 DEF Begins
      <4>2. lines[i] = Refill(slots[i], key, value)
        BY <2>3, <3>1, <3>2 DEF Substitute
      <4>3. ~Tails(slots[i], key) /\ slots[i].key = names[i]
        BY <1>2 DEF Tails, KeepsName
      <4> QED
        BY <1>2, <2>3, <4>1, <4>2, <4>3 DEF Refill, Shows
    <3>3. CASE i # f
      <4>1. i \notin found
        BY <1>4, <2>3, <3>1, <3>3
      <4>2. lines[i] = slots[i]
        BY <2>3, <3>1, <3>3 DEF Substitute
      <4> QED
        BY <4>1, <4>2
    <3> QED
      BY <3>2, <3>3
  <2> QED
    BY <1>1, <2>1, <2>2, <2>3 DEF Subbed
<1>6. ASSUME NEW i \in DOMAIN names, HasValue(slots[i], dict, Mine(dict, names[i], n))
      PROVE  HasValue(lines[i], dict, Mine(dict, names[i], n + 1))
  <2>1. slots[i].key = names[i]
    BY DEF KeepsName
  <2>2. CASE DocKey(key) # names[i] \/ Start(value) = "digit"
    <3>1. Mine(dict, names[i], n + 1) = Mine(dict, names[i], n)
      BY <2>2, MineStays
    <3>2. lines[i] = slots[i]
      BY <1>3, <1>5, <2>2 DEF SubRaises
    <3> QED
      BY <1>6, <3>1, <3>2
  <2>3. CASE DocKey(key) = names[i] /\ Start(value) # "digit"
    <3>1. ~SubRaises(key, value) /\ ~MayRaise(key)
      <4>1. ToSet(names[i]) \cap Marks = {}
        BY DEF PlainSlots
      <4> QED
        BY <2>3, <4>1, SpeltPlain DEF SubRaises
    <3>2. CASE i \in found
      <4>1. lines[i].key = names[i] /\ Shows(lines[i], value)
        BY <1>5, <3>1, <3>2
      <4>2. slots[i].header /\ ~Closes(slots[i].text)
        BY <1>3, <3>2
      <4>3. HasValue(lines[i], dict, Mine(dict, lines[i].key, n + 1))
        BY <1>6, <2>1, <2>3, <4>1, <4>2, FoundShows
      <4> QED
        BY <4>1, <4>3
    <3>3. CASE i \notin found
      <4>1. lines[i] = slots[i] /\ ~(slots[i].header /\ ~Closes(slots[i].text))
        BY <1>3, <1>5, <2>3, <3>3
      <4>2. HasValue(slots[i], dict, Mine(dict, slots[i].key, n + 1))
        BY <1>6, <2>1, <2>3, <4>1, HiddenStays
      <4> QED
        BY <2>1, <4>1, <4>2
    <3> QED
      BY <3>2, <3>3
  <2> QED
    BY <2>2, <2>3
<1>7. DOMAIN lines = DOMAIN names /\ \A i \in DOMAIN names : lines[i].key = names[i] /\ slots[i].key = names[i]
  <2>1. DOMAIN lines = DOMAIN names /\ \A i \in DOMAIN names : KeepsName(lines[i], names[i])
    BY SlotsKeepNames
  <2> QED
    BY <2>1 DEF KeepsName
<1>8. ASSUME NEW i \in Wrong(lines, dict, n + 1) PROVE i \in Wrong(slots, dict, n)
  BY <1>6, <1>7 DEF Wrong
<1> QED
  BY <1>8

\* The slots after one key, given in dict behind the n first.
LEMMA SubFilled ==
  ASSUME NEW n \in Nat, Sequences, Substituting, Filled(n), Sub
  PROVE  Filled(n + 1)'
<1>1. PICK dict, slots : dict = Selected(output, Head(files)) /\ slots = Head(files).slots
  OBVIOUS
<1>2. PICK l \in Nat, c \in Nat : l = Len(todo) /\ c = n + 1 /\ DOMAIN todo = 1 .. l
  BY DEF Sequences, Sequence
<1>3. PICK e : e = todo[1]
  OBVIOUS
<1>4. /\ UNCHANGED <<files, output, filter_str>> /\ todo # <<>> /\ todo' = Tail(todo)
      /\ Head(todo) = e /\ file_in # <<>> /\ phase = "sub"
      /\ l # 0
  BY <1>2, <1>3 DEF Sub, Sequences, Sequence
<1>5. Selected(output, Head(files))' = dict
  BY <1>1, <1>4 DEF Selected
<1>6. e = dict[c] /\ c + Len(todo') = Len(dict)
      /\ \A m \in 1 .. Len(todo') : todo'[m] = dict[c + m]
  <2>1. n + l = Len(dict) /\ \A m \in 1 .. l : todo[m] = dict[n + m]
    BY <1>1, <1>2 DEF Filled
  <2>2. Len(todo') = l - 1 /\ \A m \in 1 .. l - 1 : todo'[m] = todo[m + 1]
    BY <1>2, <1>4 DEF Sequences, Sequence
  <2>3. 1 \in 1 .. l /\ e = dict[c]
    BY <1>2, <1>3, <1>4, <2>1
  <2>4. ASSUME NEW m \in 1 .. l - 1 PROVE todo'[m] = dict[c + m]
    <3>1. m + 1 \in 1 .. l /\ n + (m + 1) = c + m
      BY <1>2
    <3> QED
      BY <2>1, <2>2, <3>1
  <2>5. c + (l - 1) = n + l
    BY <1>2
  <2> QED
    BY <2>1, <2>2, <2>3, <2>4, <2>5
<1>7. PlainSlots(slots)
  <2>1. Head(files) \in ToSet(Templates)
    BY <1>4, TailSequence DEF Substituting
  <2> QED
    BY <1>1, <2>1, TemplatesAssumption DEF PlainSlots, ToSet
<1>8. PICK key, value :
        key = e[1] /\ value = e[2]
  OBVIOUS
<1>9. PICK lines : lines = file_in'
  OBVIOUS
<1>10. Subbed(file_in, key, value, lines)
  BY <1>4, <1>8, <1>9 DEF Sub, Subbed
<1>11. /\ DOMAIN file_in = DOMAIN slots
       /\ \A i \in DOMAIN slots : KeepsName(file_in[i], slots[i])
       /\ Cardinality(Wrong(file_in, dict, n)) <= Cardinality(Barred(dict, n))
  BY <1>1 DEF Filled, KeepsName
<1>12. dict[c][1] = key /\ dict[c][2] = value /\ dict[n + 1] = dict[c]
  BY <1>2, <1>6, <1>8
<1>13. /\ DOMAIN lines = DOMAIN slots
       /\ \A i \in DOMAIN slots : KeepsName(lines[i], slots[i])
  BY <1>7, <1>8, <1>9, <1>10, <1>11, SlotsKeepNames
<1>14. Cardinality(Wrong(lines, dict, c)) <= Cardinality(Barred(dict, c))
  <2>1. CASE "|" \notin ToSet(key)
    <3>1. Wrong(lines, dict, c) \subseteq Wrong(file_in, dict, n)
      BY <1>2, <1>7, <1>8, <1>9, <1>10, <1>11, <1>12, <2>1, PlainKey
    <3>2. Barred(dict, c) = Barred(dict, n)
      BY <1>2, <1>12, <2>1, BarredNext
    <3>3. IsFiniteSet(Wrong(file_in, dict, n))
      BY <1>7, <1>11, WrongFinite
    <3>4. Cardinality(Wrong(lines, dict, c)) <= Cardinality(Wrong(file_in, dict, n))
      BY <3>1, <3>3, FS_Subset
    <3>5. /\ Cardinality(Wrong(lines, dict, c)) \in Nat /\ Cardinality(Wrong(file_in, dict, n)) \in Nat
          /\ Cardinality(Barred(dict, n)) \in Nat
      <4>1. IsFiniteSet(Wrong(lines, dict, c))
        BY <3>1, <3>3, FS_Subset
      <4> QED
        BY <3>3, <4>1, BarredNext, FS_CardinalityType
    <3> QED
      BY <1>11, <3>2, <3>4, <3>5
  <2>2. CASE "|" \in ToSet(key)
    <3>1. PICK x : Wrong(lines, dict, c) \subseteq Wrong(file_in, dict, n) \cup {x}
      BY <1>2, <1>7, <1>8, <1>9, <1>10, <1>11, <1>12, <2>2, BarKey
    <3>2. /\ IsFiniteSet(Barred(dict, n))
          /\ Cardinality(Barred(dict, c)) = Cardinality(Barred(dict, n)) + 1
      BY <1>2, <1>12, <2>2, BarredNext
    <3>3. IsFiniteSet(Wrong(file_in, dict, n))
      BY <1>7, <1>11, WrongFinite
    <3>4. PICK w : w = Wrong(file_in, dict, n) \cup {x}
      OBVIOUS
    <3>5. IsFiniteSet(w) /\ Cardinality(w) <= Cardinality(Wrong(file_in, dict, n)) + 1
          /\ Cardinality(Wrong(file_in, dict, n)) \in Nat
      <4>1. Cardinality(Wrong(file_in, dict, n)) \in Nat
        BY <3>3, FS_CardinalityType
      <4> QED
        BY <3>3, <3>4, <4>1, FS_AddElement
    <3>6. IsFiniteSet(Wrong(lines, dict, c)) /\ Cardinality(Wrong(lines, dict, c)) <= Cardinality(w)
      BY <3>1, <3>4, <3>5, FS_Subset
    <3>7. /\ Cardinality(Wrong(lines, dict, c)) \in Nat /\ Cardinality(w) \in Nat
          /\ Cardinality(Barred(dict, n)) \in Nat
      BY <3>2, <3>5, <3>6, FS_CardinalityType
    <3> QED
      BY <1>11, <3>2, <3>5, <3>6, <3>7
  <2> QED
    BY <2>1, <2>2
<1>15. n + 1 = c /\ Head(files)' = Head(files) /\ lines = file_in'
  BY <1>2, <1>4, <1>9
<1> QED
  BY <1>1, <1>5, <1>6, <1>13, <1>14, <1>15 DEF Filled, KeepsName

\* No step spoils the slots of the template being read.
LEMMA StepSubstituting ==
  ASSUME IInv, Next
  PROVE  Substituting'
<1>1. Sequences /\ Substituting
  BY DEF IInv
<1>2. CASE ReadTemplate
  <2>1. files' = files /\ phase' = "sub" /\ files # <<>>
    BY <1>2 DEF ReadTemplate
  <2>2. 0 \in Nat /\ Filled(0)'
    BY <1>1, <1>2, BlankFilled
  <2> QED
    BY <1>1, <2>1, <2>2 DEF Substituting
<1>3. CASE Sub
  <2>1. files' = files /\ phase' = "sub" /\ files # <<>> /\ file_in # <<>>
    BY <1>1, <1>3 DEF Sub, Substituting
  <2>2. PICK n \in Nat : Filled(n)
    BY <1>1, <2>1 DEF Substituting
  <2>3. n + 1 \in Nat /\ Filled(n + 1)'
    BY <1>1, <1>3, <2>2, SubFilled
  <2> QED
    BY <1>1, <2>1, <2>3 DEF Substituting
<1>4. CASE WriteHeader \/ CopyTemplate
  <2>1. files' = Tail(files) /\ files # <<>> /\ file_in' = <<>>
    BY <1>1, <1>4 DEF WriteHeader, CopyTemplate, Substituting
  <2>2. Sequence(files') /\ ToSet(files') \subseteq ToSet(Templates)
    BY <1>1, <2>1, TailSequence DEF Substituting
  <2> QED
    BY <2>1, <2>2 DEF Substituting
<1>5. ASSUME file_in' = file_in, files' = files, phase # "sub"
      PROVE  Substituting'
  BY <1>1, <1>5 DEF Substituting
<1> QED
  BY <1>2, <1>3, <1>4, <1>5
     DEF Next, ReadCompound, ReadCompoundRaises, FindBlocks, FindBlocksRaises, NextStage,
         DescribeBlock, DescribeBlockRaises, DescribeBlock2, DescribeFunction, DescribeClass,
         WriteJson, CopyDone, subVars

\* No step spoils what the written headers hold.
LEMMA StepHeaders ==
  ASSUME IInv, Next
  PROVE  HeadersHold'
<1>1. Sequences /\ Substituting /\ HeadersHold
  BY DEF IInv
<1>2. CASE WriteHeader
  <2>1. PICK t, dict : t = Head(files) /\ dict = Selected(output, t)
    OBVIOUS
  <2>2. /\ UNCHANGED <<output, filter_str, phase>> /\ phase = "sub" /\ todo = <<>>
        /\ file_in # <<>> /\ written' = written \cup {[template |-> t, slots |-> file_in]}
    BY <1>2, <2>1 DEF WriteHeader, scrapeVars
  <2>3. PICK n \in Nat : Filled(n)
    BY <1>1, <2>2 DEF Substituting
  <2>4. n = Len(dict)
    BY <2>1, <2>2, <2>3 DEF Filled
  <2>5. PICK header : header = [template |-> t, slots |-> file_in]
    OBVIOUS
  <2>6. Spoilt(header) \subseteq Wrong(file_in, dict, Len(dict))
    <3>1. ASSUME NEW i \in DOMAIN file_in,
                 HasValue(file_in[i], dict, Mine(dict, file_in[i].key, Len(dict)))
          PROVE  HasValue(file_in[i], output, Asked(t, file_in[i].key))
      BY <1>1, <2>1, <3>1, SelectedValue DEF Sequences
    <3> QED
      BY <2>5, <3>1 DEF Spoilt, Wrong
  <2>7. IsFiniteSet(Wrong(file_in, dict, Len(dict)))
    <3>1. DOMAIN file_in = DOMAIN t.slots
      BY <2>1, <2>3 DEF Filled
    <3>2. PlainSlots(t.slots)
      <4>1. t \in ToSet(Templates)
        BY <1>1, <2>1, <2>2, TailSequence DEF Substituting
      <4> QED
        BY <4>1, TemplatesAssumption DEF PlainSlots, ToSet
    <3> QED
      BY <3>1, <3>2, WrongFinite
  <2>8. Cardinality(Wrong(file_in, dict, Len(dict))) <= Cardinality(Barred(dict, Len(dict)))
    BY <2>1, <2>3, <2>4 DEF Filled
  <2>9. IsFiniteSet(Charged(t)) /\ Cardinality(Barred(dict, Len(dict))) <= Cardinality(Charged(t))
    BY <1>1, <2>1, SelectedBarred DEF Sequences
  <2>10. Cardinality(Spoilt(header)) <= Cardinality(Charged(t))
    <3>1. PICK W, B : W = Wrong(file_in, dict, Len(dict)) /\ B = Barred(dict, Len(dict))
      OBVIOUS
    <3>2. IsFiniteSet(Spoilt(header)) /\ Cardinality(Spoilt(header)) <= Cardinality(W)
      BY <2>6, <2>7, <3>1, FS_Subset
    <3>3. Cardinality(B) \in Nat
      <4>1. Len(dict) \in Nat
        BY <2>3, <2>4
      <4> QED
        BY <3>1, <4>1, BarredNext
    <3>4. /\ Cardinality(W) \in Nat /\ Cardinality(Spoilt(header)) \in Nat
          /\ Cardinality(Charged(t)) \in Nat
      BY <2>7, <2>9, <3>1, <3>2, FS_CardinalityType
    <3> QED
      BY <2>8, <2>9, <3>1, <3>2, <3>3, <3>4
  <2>11. /\ \A w : Spoilt(w)' = Spoilt(w)
         /\ \A template : Charged(template)' = Charged(template)
    BY <2>2 DEF Asked, Spoilt, Charged, Given
  <2>12. header.template = t /\ written' = written \cup {header}
    BY <2>2, <2>5
  <2> QED
    BY <1>1, <2>2, <2>10, <2>11, <2>12 DEF HeadersHold
<1>3. CASE CopyTemplate
  <2>1. PICK t : t = Head(files)
    OBVIOUS
  <2>2. /\ UNCHANGED <<output, filter_str, phase>> /\ phase = "copy" /\ output = <<>>
        /\ written' = written \cup {[template |-> t, slots |-> Blank(t)]}
    BY <1>1, <1>3, <2>1 DEF CopyTemplate, scrapeVars, HeadersHold
  <2>3. \A template, key : Asked(template, key) = {}
    BY <2>2 DEF Asked, Given
  <2>4. PICK header : header = [template |-> t, slots |-> Blank(t)]
    OBVIOUS
  <2>5. Spoilt(header) = {} /\ Charged(t) = {}
    BY <2>2, <2>3, <2>4 DEF Spoilt, Blank, HasValue, Charged, Given
  <2>6. Cardinality(Spoilt(header)) <= Cardinality(Charged(t))
    BY <2>5, FS_EmptySet
  <2>7. /\ \A w : Spoilt(w)' = Spoilt(w)
        /\ \A template : Charged(template)' = Charged(template)
    BY <2>2 DEF Asked, Spoilt, Charged, Given
  <2>8. header.template = t /\ written' = written \cup {header}
    BY <2>2, <2>4
  <2> QED
    BY <1>1, <2>2, <2>6, <2>7, <2>8 DEF HeadersHold
<1>4. CASE ReadTemplate \/ Sub \/ CopyDone
  <2>1. UNCHANGED <<written, output, filter_str, phase>>
    BY <1>4 DEF ReadTemplate, Sub, CopyDone, scrapeVars
  <2>2. /\ \A w : Spoilt(w)' = Spoilt(w)
        /\ \A template : Charged(template)' = Charged(template)
    BY <2>1 DEF Asked, Spoilt, Charged, Given
  <2> QED
    BY <1>1, <2>1, <2>2 DEF HeadersHold
<1>5. ASSUME written' = written, phase \notin {"sub", "copy"}, phase' # "copy"
      PROVE  HeadersHold'
  BY <1>1, <1>5 DEF HeadersHold
<1> QED
  BY <1>2, <1>3, <1>4, <1>5
     DEF Next, ReadCompound, ReadCompoundRaises, FindBlocks, FindBlocksRaises, NextStage,
         DescribeBlock, DescribeBlockRaises, DescribeBlock2, DescribeFunction, DescribeClass,
         WriteJson, subVars

\* The invariant holds throughout scrape, sub and copy.
LEMMA Invariance == Spec => []IInv
<1>1. IInv /\ UNCHANGED vars => IInv'
  <2> SUFFICES ASSUME IInv, UNCHANGED vars PROVE IInv'
    OBVIOUS
  <2>1. UNCHANGED <<xml, members, todo, make_funcs, output, filter_str, files, file_in,
                    status_file, written, phase, source>>
    BY DEF vars, scrapeVars, subVars
  <2>2. Sequences'
    BY <2>1 DEF IInv, Sequences, Scraping
  <2>3. Substituting'
    BY <2>1 DEF IInv, Substituting, Filled, Selected
  <2>4. HeadersHold'
    BY <2>1 DEF IInv, HeadersHold, Spoilt, Asked, Charged, Given
  <2> QED
    BY <2>2, <2>3, <2>4 DEF IInv
<1>2. IInv /\ [Next]_vars => IInv'
  BY <1>1, StepSequences, StepSubstituting, StepHeaders DEF IInv
<1> QED
  BY <1>2, Initially, PTL DEF Spec

\* What a slot should have, in the property's words.
OwnValue(template, key) ==
    LET mine == Asked(template, key)
    IN  IF mine = {} THEN <<>> ELSE output[Winner(output, mine)][2]

\* Every header sub writes has in each slot the value its dictionary has for
\* it, but for a slot for each of its keys with a bar in it.
THEOREM SlotsHoldTheirOwn == Spec => []SlotHoldsItsOwn
<1>1. IInv => SlotHoldsItsOwn
  <2> SUFFICES ASSUME IInv, NEW w \in written
               PROVE  Cardinality({i \in DOMAIN w.slots :
                                     LET value == OwnValue(w.template, w.slots[i].key)
                                     IN  \/ w.slots[i].text # value
                                         \/ w.slots[i].header # (Start(value) # "octal")})
                        <= Cardinality(Charged(w.template))
    BY DEF SlotHoldsItsOwn, OwnValue, Asked, Winner, Hiding, Charged, Given
  <2>1. ASSUME NEW i \in DOMAIN w.slots,
               NEW value, value = OwnValue(w.template, w.slots[i].key)
        PROVE  HasValue(w.slots[i], output, Asked(w.template, w.slots[i].key))
                 <=> w.slots[i].text = value /\ w.slots[i].header = (Start(value) # "octal")
    BY <2>1 DEF OwnValue, HasValue, Shows, Start
  <2>2. Cardinality(Spoilt(w)) <= Cardinality(Charged(w.template))
    BY DEF IInv, HeadersHold
  <2> QED
    BY <2>1, <2>2 DEF Spoilt
<1> QED
  BY <1>1, Invariance, PTL

-----------------------------------------------------------------------------
(* Whose text is whose.  *)

Kin(k) == {DocKey(n) : n \in {k.name, Append(k.name, ".h"), make_name(k.name),
                              k.name \o <<"::", "make">>}}
Made(k) == {DocKey(f.definition) :
              f \in {g \in UNION {Firsts(i) : i \in Described} : g.name = make_name(k.name)}}
SourceClasses == {c \in ToSet(source) : c.kind = "class"}

\* A text that may stand at this key, and an entry all of whose texts may.
Fits(t, key) ==
    \/ t \in {ConstructorHeading, ArgsHeading}
    \/ DocKey(t.of) = DocKey(key)
    \/ \E k \in SourceClasses : {DocKey(t.of), DocKey(key)} \subseteq Kin(k) \cup Made(k)

Tells(e) == Sequence(e[2]) /\ \A t \in ToSet(e[2]) : Fits(t, e[1])
AllTell(entries) == Sequence(entries) /\ \A e \in ToSet(entries) : Tells(e)

\* A member of the index is a compound, or the first of its name in one.
Indexed(m) ==
    \/ m \in ToSet(source)
    \/ \E i \in Described : m \in FirstOnes(source[i].contents)

\* What a stage goes through are members of the kind it is for.
Staged ==
    /\ Scraping => ToSet(todo) \subseteq ToSet(members)
    /\ phase \in {"blocks", "blocks2", "classes"} => \A k \in ToSet(todo) : DoxyClass(k)
    /\ phase = "blocks2" => \A k \in ToSet(todo) : Block2(k)
    /\ phase = "functions" => \A k \in ToSet(todo) : DoxyFunction(k)

Sourced ==
    /\ source \in Directories \cup {<<>>}
    /\ ToSet(xml) \subseteq ToSet(source)
    /\ \A m \in ToSet(members) : Indexed(m)

OInv == Sourced /\ Staged /\ AllTell(output)

\* The classes, files and functions of the index are what their names say.
LEMMA IndexedAre ==
  ASSUME Sourced, NEW m, Indexed(m)
  PROVE  /\ DoxyClass(m) => m \in SourceClasses /\ Sequence(m.contents)
         /\ DoxyClass(m) => \A f \in ToSet(m.contents) :
                              DoxyFunction(f) => About(f, m.name \o <<"::">> \o f.name)
         /\ DoxyClass(m) => Sequence(m.name)
         /\ DoxyClass(m) \/ DoxyFile(m) => About(m, m.name)
         /\ DoxyFunction(m) => /\ \E i \in Described : m \in Firsts(i)
                               /\ About(m, m.definition)
<1>1. CASE m \in ToSet(source)
  <2>1. source \in Directories
    BY <1>1, OneSequence DEF Sourced
  <2>2. m.kind # "function" /\ About(m, m.name) /\ Sequence(m.name) /\ Sequence(m.contents)
        /\ \A f \in ToSet(m.contents) :
             DoxyFunction(f) => About(f, IF DoxyClass(m) THEN m.name \o <<"::">> \o f.name
                                         ELSE f.definition)
    BY <1>1, <2>1, DirectoriesAssumption
  <2> QED
    BY <1>1, <2>2 DEF DoxyClass, DoxyFunction, SourceClasses
<1>2. ASSUME NEW i \in Described, m \in FirstOnes(source[i].contents)
      PROVE  /\ ~DoxyClass(m) /\ ~DoxyFile(m)
             /\ DoxyFunction(m) => m \in Firsts(i) /\ About(m, m.definition)
  <2>1. PICK c : c = source[i]
    OBVIOUS
  <2>2. c \in ToSet(source) /\ Spread(c)
    BY <2>1 DEF Described, ToSet
  <2>3. source \in Directories
    BY <2>2, OneSequence DEF Sourced
  <2>4. m \in ToSet(c.contents)
    BY <1>2, <2>1 DEF FirstOnes, FirstPlaces, ToSet
  <2>5. m.kind \notin {"class", "file"}
        /\ (DoxyFunction(m) => About(m, IF DoxyClass(c) THEN c.name \o <<"::">> \o m.name
                                        ELSE m.definition))
    BY <2>2, <2>3, <2>4, DirectoriesAssumption
  <2>6. ~DoxyClass(c)
    BY <2>2 DEF Spread, Header, DoxyFile, DoxyClass
  <2> QED
    BY <1>2, <2>1, <2>5, <2>6 DEF DoxyClass, DoxyFile, Firsts
<1> QED
  BY <1>1, <1>2 DEF Indexed, DoxyClass, DoxyFile, DoxyFunction

\* What is looked up by a name that is not in a namespace has that name.
LEMMA LookedUp ==
  ASSUME NEW items, Sequence(items), NEW name, NEW kinds, has_member(items, name, kinds)
  PROVE  /\ get_member(items, name, kinds) \in ToSet(items)
         /\ get_member(items, name, kinds).kind \in kinds
         /\ get_member(items, name, kinds).name = name
<1>1. PICK places : places = Lookup(items, name, kinds)
  OBVIOUS
<1>2. Cardinality(places) = 1 /\ ~Nested(name)
  BY <1>1 DEF has_member
<1>3. places # {}
  BY <1>2, FS_EmptySet
<1>4. PICK i : i = CHOOSE n \in places : TRUE
  OBVIOUS
<1>5. i \in places /\ get_member(items, name, kinds) = items[i]
  BY <1>1, <1>3, <1>4 DEF get_member
<1>6. FirstBit(name) = name
  BY <1>2 DEF Nested, FirstBit, ToSet
<1> QED
  BY <1>1, <1>5, <1>6 DEF Lookup, ToSet

\* What the dictionary has for a key is what one of the entries had for it.
LEMMA UpdateTells ==
  ASSUME NEW dict, NEW entries, AllTell(dict), AllTell(entries)
  PROVE  AllTell(Update(dict, entries))
<1> DEFINE all == dict \o entries
           at(key) == {i \in DOMAIN all : all[i][1] = key}
<1>1. PICK f : f = [i \in DOMAIN all |-> <<all[i][1], all[Max(at(all[i][1]))][2]>>]
  OBVIOUS
<1>2. Sequence(all) /\ ToSet(all) \subseteq ToSet(dict) \cup ToSet(entries)
  BY JoinedSequence DEF AllTell
<1>3. \A e \in ToSet(all) : Tells(e)
  BY <1>2 DEF AllTell
<1>4. PICK l \in Nat : DOMAIN all = 1 .. l
  BY <1>2 DEF Sequence
<1> HIDE DEF all
<1>5. ASSUME NEW i \in DOMAIN all PROVE Tells(f[i])
  <2>1. PICK S : S = at(all[i][1])
    OBVIOUS
  <2>2. S \in SUBSET (1 .. l) /\ S # {}
    BY <1>4, <2>1
  <2>3. PICK j : j = Max(S) /\ j \in S
    BY <1>4, <2>2, MaxFields
  <2>4. j \in DOMAIN all /\ all[j][1] = all[i][1]
    BY <2>1, <2>3
  <2>5. Tells(all[j])
    BY <1>3, <2>4 DEF ToSet
  <2>6. f[i] = <<all[j][1], all[j][2]>>
    BY <1>1, <2>1, <2>3, <2>4
  <2> QED
    BY <2>5, <2>6 DEF Tells
<1>6. PICK places : places = {i \in DOMAIN all : i = Min(at(all[i][1]))}
  OBVIOUS
<1>7. Update(dict, entries) = Kept(f, places)
  BY <1>1, <1>6 DEF Update, all
<1>8. DOMAIN f = DOMAIN all /\ f = [i \in DOMAIN all |-> f[i]]
  BY <1>1
<1>9. Sequence(f)
  BY <1>2, <1>8, FunctionSequence
<1>10. ToSet(Kept(f, places)) = {f[i] : i \in DOMAIN f \cap places} /\ Sequence(Kept(f, places))
  BY <1>9, KeptSequence
<1> QED
  BY <1>5, <1>7, <1>8, <1>10 DEF AllTell

\* Entries behind entries.
LEMMA JoinedTell ==
  ASSUME NEW a, NEW b, AllTell(a), AllTell(b)
  PROVE  AllTell(a \o b)
<1>1. PICK s : s = a \o b
  OBVIOUS
<1>2. Sequence(s) /\ ToSet(s) \subseteq ToSet(a) \cup ToSet(b)
  BY <1>1, JoinedSequence DEF AllTell
<1> QED
  BY <1>1, <1>2 DEF AllTell

\* Two descriptions in a row.
LEMMA BothTell ==
  ASSUME NEW name, NEW a, NEW b, Tells(<<name, a>>), Tells(<<name, b>>)
  PROVE  Tells(<<name, a \o b>>)
<1>1. PICK value : value = a \o b
  OBVIOUS
<1>2. Sequence(value) /\ ToSet(value) \subseteq ToSet(a) \cup ToSet(b)
  BY <1>1, JoinedSequence DEF Tells
<1> QED
  BY <1>1, <1>2 DEF Tells

\* Parameters under their heading.
LEMMA ArgsTell ==
  ASSUME NEW name, NEW params, Tells(<<name, params>>)
  PROVE  Tells(<<name, Args(params)>>)
<1>1. Tells(<<name, <<ArgsHeading>> >>)
  BY OneSequence DEF Tells, Fits
<1>2. Tells(<<name, <<ArgsHeading>> \o params>>)
  BY <1>1, BothTell
<1> QED
  BY <1>2 DEF Args

\* The entry of one object.
LEMMA EntryTells ==
  ASSUME NEW name, NEW description, NEW params,
         Tells(<<name, description>>), Tells(<<name, params>>)
  PROVE  AllTell(make_entry(name, description, params))
<1>1. Tells(<<name, description \o Args(params)>>)
  BY ArgsTell, BothTell
<1>2. PICK entries : entries = make_entry(name, description, params)
  OBVIOUS
<1>3. Sequence(entries) /\ ToSet(entries) \subseteq {<<name, description \o Args(params)>>}
  BY <1>2, EntryIs
<1> QED
  BY <1>1, <1>2, <1>3 DEF AllTell

\* The entries of a class and its methods.
LEMMA ClassEntryTells ==
  ASSUME Sourced, NEW k, Indexed(k), DoxyClass(k), NEW description, NEW ignored, NEW params,
         Tells(<<k.name, description>>), Tells(<<k.name, params>>)
  PROVE  AllTell(make_class_entry(k, description, ignored, params))
<1>1. /\ Sequence(k.contents)
      /\ \A f \in ToSet(k.contents) : DoxyFunction(f) => About(f, k.name \o <<"::">> \o f.name)
  BY IndexedAre
<1>2. Tells(<<k.name, description \o Args(params)>>)
  BY ArgsTell, BothTell
<1>3. ASSUME NEW f \in ToSet(k.contents), DoxyFunction(f)
      PROVE  Tells(<<k.name \o <<"::">> \o f.name, f.doc>>)
  <2>1. PICK key : key = k.name \o <<"::">> \o f.name
    OBVIOUS
  <2>2. About(f, key)
    BY <1>1, <1>3, <2>1
  <2>3. Tells(<<key, f.doc>>)
    BY <2>2 DEF Tells, Fits, About
  <2> QED
    BY <2>1, <2>3
<1>4. PICK entries : entries = make_class_entry(k, description, ignored, params)
  OBVIOUS
<1>5. Sequence(entries) /\ \A e \in ToSet(entries) : ClassEntry(e, k, description \o Args(params))
  BY <1>1, <1>4, ClassEntryIs
<1>6. \A e \in ToSet(entries) : Tells(e)
  BY <1>2, <1>3, <1>5 DEF ClassEntry
<1> QED
  BY <1>4, <1>5, <1>6 DEF AllTell

\* A class's own documentation.
LEMMA ClassTells ==
  ASSUME Sourced, NEW k, Indexed(k), DoxyClass(k)
  PROVE  Tells(<<k.name, k.doc>>) /\ Tells(<<k.name, k.params>>)
<1>1. About(k, k.name)
  BY IndexedAre
<1> QED
  BY <1>1 DEF About, Tells, Fits

\* What is written about one object may stand in the slots of its kin.
LEMMA KinTells ==
  ASSUME NEW k \in SourceClasses, NEW name, NEW of, NEW text, Sequence(text),
         \A t \in ToSet(text) : t.of = of,
         DocKey(name) \in Kin(k) \cup Made(k), DocKey(of) \in Kin(k) \cup Made(k)
  PROVE  Tells(<<name, text>>)
  BY DEF Tells, Fits

\* The entries of an old style block.
LEMMA BlockTells ==
  ASSUME Sourced, Sequence(members), NEW k, Indexed(k), DoxyClass(k),
         has_member(members, make_name(k.name), {"function"}),
         NEW make, make = get_member(members, make_name(k.name), {"function"})
  PROVE  AllTell(make_block_entry(k, make))
<1>1. k \in SourceClasses /\ About(k, k.name)
  BY IndexedAre
<1>2. make \in ToSet(members) /\ DoxyFunction(make) /\ make.name = make_name(k.name)
  <2>1. PICK name : name = make_name(k.name)
    OBVIOUS
  <2>2. has_member(members, name, {"function"}) /\ make = get_member(members, name, {"function"})
    BY <2>1
  <2>3. make \in ToSet(members) /\ make.kind = "function" /\ make.name = name
    BY <2>2, LookedUp
  <2> QED
    BY <2>1, <2>3 DEF DoxyFunction
<1>3. About(make, make.definition) /\ \E i \in Described : make \in Firsts(i)
  BY <1>2, IndexedAre DEF Sourced
<1>4. DocKey(make.definition) \in Made(k)
  BY <1>2, <1>3 DEF Made
<1>5. DocKey(k.name) \in Kin(k) /\ DocKey(Append(k.name, ".h")) \in Kin(k)
  BY DEF Kin
<1>6. PICK header : header = Append(k.name, ".h")
  OBVIOUS
<1>7. PICK file_desc : file_desc = IF has_member(members, header, {"file"})
                                   THEN get_member(members, header, {"file"}).doc ELSE <<>>
  OBVIOUS
<1>8. Sequence(file_desc) /\ \A t \in ToSet(file_desc) : t.of = header
  <2>1. CASE has_member(members, header, {"file"})
    <3>1. PICK file : file = get_member(members, header, {"file"})
      OBVIOUS
    <3>2. file \in ToSet(members) /\ DoxyFile(file) /\ file.name = header
      BY <2>1, <3>1, LookedUp DEF DoxyFile
    <3>3. About(file, header)
      BY <3>2, IndexedAre DEF Sourced
    <3> QED
      BY <1>7, <2>1, <3>1, <3>3 DEF About
  <2>2. CASE ~has_member(members, header, {"file"})
    BY <1>7, <2>2, OneSequence
  <2> QED
    BY <2>1, <2>2
<1>9. ASSUME NEW name, DocKey(name) \in Kin(k) \cup Made(k)
      PROVE  /\ Tells(<<name, k.doc>>) /\ Tells(<<name, make.doc>>) /\ Tells(<<name, file_desc>>)
             /\ Tells(<<name, k.params>>)
  <2>1. Tells(<<name, k.doc>>) /\ Tells(<<name, k.params>>)
    BY <1>1, <1>5, <1>9, KinTells DEF About
  <2>2. Tells(<<name, make.doc>>)
    BY <1>1, <1>3, <1>4, <1>9, KinTells DEF About
  <2>3. Tells(<<name, file_desc>>)
    BY <1>1, <1>5, <1>6, <1>8, <1>9, KinTells
  <2> QED
    BY <2>1, <2>2, <2>3
<1>10. PICK description : description = k.doc \o make.doc \o file_desc
  OBVIOUS
<1>11. ASSUME NEW name, DocKey(name) \in Kin(k) \cup Made(k)
       PROVE  Tells(<<name, description>>) /\ Tells(<<name, k.params>>)
  BY <1>9, <1>10, <1>11, BothTell
<1>12. Tells(<<k.name, description>>) /\ Tells(<<k.name, k.params>>)
  BY <1>5, <1>11
<1>13. Tells(<<make.definition, description>>) /\ Tells(<<make.definition, k.params>>)
  BY <1>4, <1>11
<1>14. make_block_entry(k, make) = make_class_entry(k, description, {}, k.params)
                                   \o make_entry(make.definition, description, k.params)
  BY <1>6, <1>7, <1>10 DEF make_block_entry
<1> QED
  BY <1>12, <1>13, <1>14, ClassEntryTells, EntryTells, JoinedTell

\* A pair, element by element.
LEMMA PairConcat ==
  ASSUME NEW u, NEW v
  PROVE  <<u>> \o <<v>> = <<u, v>>
<1>1. PICK a, b, c : a = <<u>> /\ b = <<v>> /\ c = <<u, v>>
  OBVIOUS
<1>2. a \in Seq({u, v}) /\ b \in Seq({u, v}) /\ c \in Seq({u, v})
  BY <1>1
<1>3. Len(a) = 1 /\ Len(b) = 1 /\ Len(c) = 2 /\ a[1] = u /\ b[1] = v /\ c[1] = u /\ c[2] = v
  BY <1>1
<1>4. PICK d : d = a \o b
  OBVIOUS
<1>5. d \in Seq({u, v}) /\ Len(d) = 2 /\ d[1] = u /\ d[2] = v
  BY <1>2, <1>3, <1>4, ConcatProperties
<1>6. d = c
  BY <1>2, <1>3, <1>5, SeqEqual
<1> QED
  BY <1>1, <1>4, <1>6

\* A name that two parts are put behind.
LEMMA NameAssociates ==
  ASSUME NEW name, Sequence(name), NEW a, Sequence(a), NEW b, Sequence(b)
  PROVE  name \o a \o b = name \o (a \o b)
<1>1. PICK S : S = ToSet(name) \cup ToSet(a) \cup ToSet(b)
  OBVIOUS
<1>2. name \in Seq(S) /\ a \in Seq(S) /\ b \in Seq(S)
  BY <1>1, SuperSequence DEF Sequence
<1> QED
  BY <1>2, ConcatAssociative

\* The entries of a new style block.
LEMMA Block2Tells ==
  ASSUME Sourced, NEW k, Indexed(k), Block2(k),
         NEW make, make = get_member(MembersOf(k), <<"make">>, {"function"})
  PROVE  AllTell(make_block2_entry(k, make))
<1>1. DoxyClass(k) /\ has_member(MembersOf(k), <<"make">>, {"function"})
  BY DEF Block2
<1>2. k \in SourceClasses /\ About(k, k.name) /\ Sequence(k.name) /\ Sequence(k.contents)
      /\ \A f \in ToSet(k.contents) : DoxyFunction(f) => About(f, k.name \o <<"::">> \o f.name)
  BY <1>1, IndexedAre
<1>3. Sequence(MembersOf(k)) /\ ToSet(MembersOf(k)) \subseteq ToSet(k.contents)
  BY <1>2, KeptSequence DEF MembersOf, process_memberdefs, ToSet
<1>4. make \in ToSet(k.contents) /\ DoxyFunction(make) /\ make.name = <<"make">>
  <2>1. PICK items, name : items = MembersOf(k) /\ name = <<"make">>
    OBVIOUS
  <2>2. has_member(items, name, {"function"}) /\ make = get_member(items, name, {"function"})
    BY <1>1, <2>1
  <2>3. make \in ToSet(items) /\ make.kind = "function" /\ make.name = name
    <3>1. Sequence(items)
      BY <1>3, <2>1
    <3> QED
      BY <2>2, <3>1, LookedUp
  <2> QED
    BY <1>3, <2>1, <2>3 DEF DoxyFunction
<1>5. PICK name : name = k.name \o <<"::", "make">>
  OBVIOUS
<1>6. k.name \o <<"::">> \o make.name = name
  <2>1. PICK base, a, b : base = k.name /\ a = <<"::">> /\ b = <<"make">>
    OBVIOUS
  <2>2. Sequence(base) /\ Sequence(a) /\ Sequence(b)
    BY <1>2, <2>1, OneSequence
  <2>3. base \o a \o b = base \o (a \o b)
    BY <2>2, NameAssociates
  <2>4. a \o b = <<"::", "make">>
    BY <2>1, PairConcat
  <2> QED
    BY <1>4, <1>5, <2>1, <2>3, <2>4
<1>7. About(make, name)
  BY <1>2, <1>4, <1>6
<1>8. DocKey(name) \in Kin(k) /\ DocKey(k.name) \in Kin(k)
  BY <1>5 DEF Kin
<1>9. ASSUME NEW key, DocKey(key) \in Kin(k)
      PROVE  /\ Tells(<<key, k.doc>>) /\ Tells(<<key, make.doc>>) /\ Tells(<<key, make.params>>)
             /\ Tells(<<key, <<ConstructorHeading>> >>)
  <2>1. Tells(<<key, k.doc>>) /\ Tells(<<key, make.doc>>) /\ Tells(<<key, make.params>>)
    BY <1>2, <1>7, <1>8, <1>9, KinTells DEF About
  <2>2. Tells(<<key, <<ConstructorHeading>> >>)
    BY OneSequence DEF Tells, Fits
  <2> QED
    BY <2>1, <2>2
<1>10. PICK description : description = k.doc \o <<ConstructorHeading>> \o make.doc
  OBVIOUS
<1>11. ASSUME NEW key, DocKey(key) \in Kin(k)
       PROVE  Tells(<<key, description>>) /\ Tells(<<key, make.params>>)
  BY <1>9, <1>10, <1>11, BothTell
<1>12. /\ Tells(<<k.name, description>>) /\ Tells(<<k.name, make.params>>)
       /\ Tells(<<name, description>>) /\ Tells(<<name, make.params>>)
  BY <1>8, <1>11
<1>13. make_block2_entry(k, make) = make_class_entry(k, description, {<<"make">>}, make.params)
                                    \o make_entry(name, description, make.params)
  BY <1>5, <1>10 DEF make_block2_entry
<1> QED
  BY <1>1, <1>12, <1>13, ClassEntryTells, EntryTells, JoinedTell

\* One of a compound's first members comes before another.
Before(x, y, contents) ==
    \A a, b \in FirstPlaces(contents) : contents[a] = x /\ contents[b] = y => a < b

\* A compound's members are the first of each name, in their order, so no two
\* have one name.
LEMMA MembersOnce ==
  ASSUME NEW s, Sequence(s), NEW m, m = process_memberdefs(s)
  PROVE  /\ Sequence(m) /\ ToSet(m) = FirstOnes(s)
         /\ \A q, r \in DOMAIN m : m[q].name = m[r].name => q = r
         /\ \A q, r \in DOMAIN m : q < r => Before(m[q], m[r], s)
<1>1. PICK places : places = {i \in DOMAIN s : \A j \in 1 .. i - 1 : s[j].name # s[i].name}
  OBVIOUS
<1>2. m = Kept(s, places)
  BY <1>1 DEF process_memberdefs
<1>3. PICK S : s \in Seq(S)
  BY DEF Sequence
<1>4. m \in Seq(S) /\ \E place : Placed(m, s, Len(s), places, place)
  BY <1>2, <1>3, KeptFields
<1>5. PICK place : Placed(m, s, Len(s), places, place)
  BY <1>4
<1>6. PICK v \in Nat, l \in Nat : v = Len(m) /\ l = Len(s) /\ DOMAIN m = 1 .. v /\ DOMAIN s = 1 .. l
  BY <1>3, <1>4
<1>7. \A q \in 1 .. v : place[q] \in places /\ place[q] \in 1 .. l /\ m[q] = s[place[q]]
  BY <1>5, <1>6 DEF Placed
<1>8. ASSUME NEW q \in 1 .. v, NEW r \in 1 .. v, q < r PROVE m[q].name # m[r].name
  <2>1. place[q] < place[r] /\ place[q] \in 1 .. l /\ place[r] \in 1 .. l
    BY <1>5, <1>6, <1>7, <1>8 DEF Placed
  <2>2. place[q] \in 1 .. place[r] - 1
    BY <2>1
  <2> QED
    BY <1>1, <1>7, <2>2
<1>9. ASSUME NEW q \in 1 .. v, NEW r \in 1 .. v, m[q].name = m[r].name PROVE q = r
  <2>1. ~(q < r) /\ ~(r < q)
    BY <1>8, <1>9
  <2> QED
    BY <2>1
<1>10. Sequence(m) /\ ToSet(m) = {s[i] : i \in DOMAIN s \cap places}
  BY <1>2, KeptSequence
<1>11. ToSet(m) = {s[i] : i \in places}
  BY <1>1, <1>10
<1>12. places = FirstPlaces(s)
  BY <1>1 DEF FirstPlaces
<1>13. ASSUME NEW q \in 1 .. v, NEW a \in places, s[a] = m[q] PROVE a = place[q]
  <2>1. a \in 1 .. l /\ place[q] \in 1 .. l /\ s[a].name = s[place[q]].name
    BY <1>1, <1>6, <1>7, <1>13
  <2>2. a \notin 1 .. place[q] - 1 /\ place[q] \notin 1 .. a - 1
    BY <1>1, <1>7, <1>13, <2>1
  <2> QED
    BY <2>1, <2>2
<1>14. ASSUME NEW q \in 1 .. v, NEW r \in 1 .. v, q < r PROVE Before(m[q], m[r], s)
  <2>1. place[q] < place[r]
    BY <1>5, <1>6, <1>14 DEF Placed
  <2> QED
    BY <1>12, <1>13, <2>1 DEF Before
<1> QED
  BY <1>1, <1>6, <1>9, <1>10, <1>11, <1>14 DEF FirstOnes, FirstPlaces

\* It holds before anything is read.
LEMMA SourcedInitially ==
  ASSUME Init
  PROVE  OInv
<1>1. ToSet(<<>>) = {} /\ Sequence(<<>>)
  BY OneSequence
<1>2. Sourced
  BY <1>1 DEF Init, Sourced
<1>3. Staged
  BY <1>1 DEF Init, Staged, Scraping
<1>4. AllTell(output)
  BY <1>1 DEF Init, AllTell
<1> QED
  BY <1>2, <1>3, <1>4 DEF OInv

\* What is said of the source stays true of it.
LEMMA SourceStays ==
  ASSUME UNCHANGED source
  PROVE  /\ \A m : Indexed(m)' <=> Indexed(m)
         /\ \A entries : AllTell(entries)' <=> AllTell(entries)
<1>1. Described' = Described
  BY DEF Described
<1>2. \A i : Firsts(i)' = Firsts(i)
  BY DEF Firsts
<1>3. SourceClasses' = SourceClasses
  BY DEF SourceClasses
<1>4. \A k : Made(k)' = Made(k)
  BY <1>1, <1>2 DEF Made
<1>5. \A t, key : Fits(t, key)' <=> Fits(t, key)
  BY <1>3, <1>4 DEF Fits
<1> QED
  BY <1>1, <1>5 DEF Indexed, AllTell, Tells

\* No step brings a member into the index that the XML does not have.
LEMMA StepSourced ==
  ASSUME Sequences, Sourced, Next
  PROVE  Sourced'
<1>1. CASE ReadCompound /\ UNCHANGED <<todo, make_funcs, output, subVars, source>>
  <2>1. PICK c : c = Head(xml)
    OBVIOUS
  <2>2. UNCHANGED source /\ xml # <<>> /\ xml' = Tail(xml)
    BY <1>1 DEF ReadCompound
  <2>3. c \in ToSet(source) /\ ToSet(xml') \subseteq ToSet(source) /\ Readable(c)
    BY <2>1, <2>2, TailSequence DEF Sequences, Sourced
  <2>4. PICK m : m = process_memberdefs(c.contents)
    OBVIOUS
  <2>5. Sequence(m) /\ ToSet(m) = FirstOnes(c.contents)
    BY <2>3, <2>4, MembersOnce DEF Readable
  <2>6. Indexed(c) /\ (Spread(c) => \A f \in ToSet(m) : Indexed(f))
    <3>1. PICK i \in DOMAIN source : c = source[i]
      BY <2>3 DEF ToSet
    <3>2. Spread(c) => i \in Described
      BY <3>1 DEF Described
    <3> QED
      BY <2>3, <2>5, <3>1, <3>2 DEF Indexed
  <2>7. PICK more : more = IF Spread(c) THEN Append(m, c)
                           ELSE IF DoxyFile(c) THEN <<>> ELSE <<c>>
    OBVIOUS
  <2>8. members' = members \o more
    BY <1>1, <2>1, <2>4, <2>7 DEF ReadCompound
  <2>9. Sequence(more) /\ \A f \in ToSet(more) : Indexed(f)
    <3>1. Append(m, c) = m \o <<c>>
      BY <2>5 DEF Sequence
    <3>2. Sequence(m \o <<c>>) /\ ToSet(m \o <<c>>) \subseteq ToSet(m) \cup {c}
      BY <2>5, OneSequence, JoinedSequence
    <3> QED
      BY <2>6, <2>7, <3>1, <3>2, OneSequence
  <2>10. ToSet(members') \subseteq ToSet(members) \cup ToSet(more)
    BY <2>8, <2>9, JoinedSequence DEF Sequences
  <2>11. \A f \in ToSet(members') : Indexed(f)
    BY <2>9, <2>10 DEF Sourced
  <2> QED
    BY <2>2, <2>3, <2>11, SourceStays DEF Sourced
<1>2. ASSUME UNCHANGED <<xml, members, source>> PROVE Sourced'
  BY <1>2, SourceStays DEF Sourced
<1> QED
  BY <1>1, <1>2
     DEF Next, ReadCompoundRaises, FindBlocks, FindBlocksRaises, NextStage,
         DescribeBlock, DescribeBlockRaises, DescribeBlock2, DescribeFunction, DescribeClass,
         WriteJson, ReadTemplate, Sub, WriteHeader, CopyTemplate, CopyDone, scrapeVars

\* Every stage goes through members of its kind.
LEMMA StepStaged ==
  ASSUME Sequences, Staged, Next
  PROVE  Staged'
<1>1. CASE FindBlocks \/ NextStage
  <2>1. UNCHANGED members
    BY <1>1 DEF FindBlocks, NextStage
  <2>2. ASSUME NEW s, Sequence(s), NEW places
        PROVE  \A k \in ToSet(Kept(s, places)) : k \in ToSet(s) /\ \E i \in places : k = s[i]
    BY <2>2, KeptSequence DEF ToSet
  <2>3. CASE FindBlocks
    <3>1. PICK places : places = {i \in DOMAIN members : Block(members[i])}
      OBVIOUS
    <3>2. todo' = Kept(members, places) /\ phase' = "blocks"
      BY <2>3, <3>1 DEF FindBlocks
    <3>3. \A k \in ToSet(todo') : k \in ToSet(members) /\ \E i \in places : k = members[i]
      BY <2>2, <3>2 DEF Sequences
    <3> QED
      BY <2>1, <3>1, <3>2, <3>3 DEF Staged, Block
  <2>4. CASE NextStage /\ phase = "blocks"
    <3>1. PICK places : places = {i \in DOMAIN members : Block2(members[i])}
      OBVIOUS
    <3>2. todo' = Kept(members, places) /\ phase' = "blocks2"
      BY <2>4, <3>1 DEF NextStage
    <3>3. \A k \in ToSet(todo') : k \in ToSet(members) /\ \E i \in places : k = members[i]
      BY <2>2, <3>2 DEF Sequences
    <3>4. \A k : Block2(k)' <=> Block2(k)
      BY DEF Block2, MembersOf
    <3> QED
      BY <2>1, <3>1, <3>2, <3>3, <3>4 DEF Staged, Block2
  <2>5. ASSUME NEW kind, NEW s, s = in_category(members, {kind}), NEW places
        PROVE  \A k \in ToSet(Kept(s, places)) : k \in ToSet(members) /\ k.kind = kind
    <3>1. PICK own : own = {i \in DOMAIN members : members[i].kind \in {kind}}
      OBVIOUS
    <3>2. s = Kept(members, own)
      BY <2>5, <3>1 DEF in_category
    <3>3. Sequence(s) /\ \A k \in ToSet(s) : k \in ToSet(members) /\ \E i \in own : k = members[i]
      BY <2>2, <3>2, KeptSequence DEF Sequences
    <3> QED
      BY <2>2, <3>1, <3>3
  <2>6. CASE NextStage /\ phase = "blocks2"
    <3>1. phase' = "functions" /\ \E places : todo' = Kept(in_category(members, {"function"}), places)
      BY <2>6 DEF NextStage
    <3> QED
      BY <2>1, <2>5, <3>1 DEF Staged, DoxyFunction
  <2>7. CASE NextStage /\ phase = "functions"
    <3>1. phase' = "classes" /\ \E places : todo' = Kept(in_category(members, {"class"}), places)
      BY <2>7 DEF NextStage
    <3> QED
      BY <2>1, <2>5, <3>1 DEF Staged, DoxyClass
  <2> QED
    BY <1>1, <2>3, <2>4, <2>6, <2>7 DEF NextStage
<1>2. CASE DescribeBlock \/ DescribeBlock2 \/ DescribeFunction \/ DescribeClass
  <2>1. todo # <<>> /\ todo' = Tail(todo) /\ UNCHANGED <<members, phase>>
    BY <1>2 DEF DescribeBlock, DescribeBlock2, DescribeFunction, DescribeClass
  <2>2. ToSet(todo') \subseteq ToSet(todo)
    BY <2>1, TailSequence DEF Sequences
  <2>3. \A k : Block2(k)' <=> Block2(k)
    BY DEF Block2, MembersOf
  <2> QED
    BY <2>1, <2>2, <2>3 DEF Staged, Scraping
<1>3. ASSUME phase' \notin {"blocks", "blocks2", "functions", "classes"} PROVE Staged'
  BY <1>3 DEF Staged, Scraping
<1> QED
  BY <1>1, <1>2, <1>3
     DEF Next, ReadCompound, ReadCompoundRaises, FindBlocksRaises, DescribeBlockRaises,
         WriteJson, ReadTemplate, Sub, WriteHeader, CopyTemplate, CopyDone, scrapeVars

\* Whatever is described, what the dictionary says of it is its own.
LEMMA StepTells ==
  ASSUME Sequences, OInv, Next
  PROVE  AllTell(output')
<1>1. Sourced /\ Staged /\ AllTell(output)
  BY DEF OInv
<1>2. PICK k : k = Head(todo)
  OBVIOUS
<1>3. ASSUME Scraping, todo # <<>>
      PROVE  /\ k \in ToSet(todo) /\ Indexed(k)
             /\ phase \in {"blocks", "blocks2", "classes"} => DoxyClass(k)
             /\ phase = "blocks2" => Block2(k)
             /\ phase = "functions" => DoxyFunction(k)
  <2>1. k \in ToSet(todo)
    BY <1>2, <1>3, TailSequence DEF Sequences
  <2> QED
    BY <1>1, <1>3, <2>1 DEF Sourced, Staged
<1>4. CASE DescribeBlock
  <2>1. PICK name, make : /\ name = make_name(k.name)
                          /\ make = get_member(members, name, {"function"})
    OBVIOUS
  <2>2. phase = "blocks" /\ todo # <<>> /\ ~BlockEntryRaises(k)
        /\ output' \in {output, Update(output, make_block_entry(k, make))}
    BY <1>2, <1>4, <2>1 DEF DescribeBlock
  <2>3. has_member(members, name, {"function"})
    BY <2>1, <2>2 DEF BlockEntryRaises
  <2>4. AllTell(make_block_entry(k, make))
    BY <1>1, <1>3, <2>1, <2>2, <2>3, BlockTells DEF Sequences, Scraping
  <2> QED
    BY <1>1, <2>2, <2>4, UpdateTells
<1>5. CASE DescribeBlock2
  <2>1. PICK make : make = get_member(MembersOf(k), <<"make">>, {"function"})
    OBVIOUS
  <2>2. phase = "blocks2" /\ todo # <<>>
        /\ output' \in {output, Update(output, make_block2_entry(k, make))}
    BY <1>2, <1>5, <2>1 DEF DescribeBlock2
  <2>3. AllTell(make_block2_entry(k, make))
    BY <1>1, <1>3, <2>1, <2>2, Block2Tells DEF Scraping
  <2> QED
    BY <1>1, <2>2, <2>3, UpdateTells
<1>6. CASE DescribeFunction
  <2>1. phase = "functions" /\ todo # <<>>
        /\ output' = Update(output, make_entry(k.definition, k.doc, <<>>))
    BY <1>2, <1>6 DEF DescribeFunction
  <2>2. About(k, k.definition)
    BY <1>1, <1>3, <2>1, IndexedAre DEF Scraping
  <2>3. Tells(<<k.definition, k.doc>>) /\ Tells(<<k.definition, <<>> >>)
    BY <2>2, OneSequence DEF About, Tells, Fits
  <2> QED
    BY <1>1, <2>1, <2>3, EntryTells, UpdateTells
<1>7. CASE DescribeClass
  <2>1. phase = "classes" /\ todo # <<>>
        /\ output' \in {output, Update(output, make_class_entry(k, k.doc, {}, k.params))}
    BY <1>2, <1>7 DEF DescribeClass
  <2>2. AllTell(make_class_entry(k, k.doc, {}, k.params))
    BY <1>1, <1>3, <2>1, ClassTells, ClassEntryTells DEF Scraping
  <2> QED
    BY <1>1, <2>1, <2>2, UpdateTells
<1>8. CASE UNCHANGED output
  BY <1>1, <1>8
<1> QED
  BY <1>4, <1>5, <1>6, <1>7, <1>8
     DEF Next, ReadCompoundRaises, FindBlocks, FindBlocksRaises, NextStage,
         DescribeBlockRaises, WriteJson, ReadTemplate, Sub, WriteHeader, CopyTemplate, CopyDone,
         scrapeVars

\* Every reachable state keeps its texts with what they were written about.
LEMMA OriginsKept == Spec => []OInv
<1>1. OInv /\ UNCHANGED vars => OInv'
  <2> SUFFICES ASSUME OInv, UNCHANGED vars PROVE OInv'
    OBVIOUS
  <2>1. UNCHANGED <<xml, members, todo, output, phase, source>>
    BY DEF vars, scrapeVars
  <2>2. \A k : Block2(k)' <=> Block2(k)
    BY DEF Block2, MembersOf
  <2> QED
    BY <2>1, <2>2, SourceStays DEF OInv, Sourced, Staged, Scraping
<1>2. IInv /\ OInv /\ [Next]_vars => OInv'
  <2> SUFFICES ASSUME IInv, OInv, Next PROVE OInv'
    BY <1>1
  <2>1. UNCHANGED source
    BY DEF Next, FindBlocks, FindBlocksRaises, NextStage,
           DescribeBlock, DescribeBlockRaises, DescribeBlock2, DescribeFunction, DescribeClass,
           WriteJson, ReadTemplate, Sub, WriteHeader, CopyTemplate, CopyDone
  <2>2. Sourced' /\ Staged' /\ AllTell(output')
    BY StepSourced, StepStaged, StepTells DEF IInv, OInv
  <2>3. AllTell(output)'
    BY <2>1, <2>2, SourceStays DEF AllTell, Tells
  <2> QED
    BY <2>2, <2>3 DEF OInv
<1> QED
  BY <1>2, SourcedInitially, Invariance, PTL DEF Spec

\* What a slot says comes with keys spelt like it, or with a bar in them.
Drawn(slot) ==
    /\ Sequence(slot.text)
    /\ \A t \in ToSet(slot.text) : \E e \in ToSet(output) :
         t \in ToSet(e[2]) /\ (DocKey(e[1]) = slot.key \/ "|" \in ToSet(e[1]))

DInv ==
    /\ \A i \in DOMAIN file_in : Drawn(file_in[i])
    /\ \A w \in written : \A i \in DOMAIN w.slots : Drawn(w.slots[i])

\* What stands before the bracket was in the text.
LEMMA BracketFields ==
  ASSUME NEW text, Sequence(text)
  PROVE  Sequence(UpToBracket(text)) /\ ToSet(UpToBracket(text)) \subseteq ToSet(text)
<1>1. PICK S : text \in Seq(S)
  BY DEF Sequence
<1>2. PICK l \in Nat : l = Len(text) /\ DOMAIN text = 1 .. l
  BY <1>1
<1>3. PICK C : C = {n \in DOMAIN text : text[n].closes}
  OBVIOUS
<1>4. PICK m : m = Max({0} \cup C)
  OBVIOUS
<1>5. m \in 0 .. l
  <2>1. C \in SUBSET (1 .. l)
    BY <1>2, <1>3
  <2>2. \E x \in {0} \cup C : \A y \in {0} \cup C : x >= y
    <3>1. CASE C = {}
      BY <3>1
    <3>2. CASE C # {}
      <4>1. PICK x : x = Max(C) /\ x \in C /\ \A y \in C : y <= x
        BY <2>1, <3>2, MaxFields
      <4>2. x \in 1 .. l /\ \A y \in C : y \in 1 .. l
        BY <2>1, <4>1
      <4> QED
        BY <4>1, <4>2
    <3> QED
      BY <3>1, <3>2
  <2>3. m \in {0} \cup C
    BY <1>4, <2>2 DEF Max
  <2> QED
    BY <2>1, <2>3
<1>6. PICK u : u = SubSeq(text, 1, m)
  OBVIOUS
<1>7. u \in Seq(S) /\ Len(u) = m /\ \A i \in 1 .. m : u[i] = text[i]
  BY <1>1, <1>2, <1>5, <1>6
<1>8. Sequence(u) /\ ToSet(u) \subseteq ToSet(text)
  BY <1>2, <1>5, <1>7 DEF Sequence, ToSet
<1> QED
  BY <1>3, <1>4, <1>6, <1>8 DEF UpToBracket

\* A slot that is filled says what it said or what the key comes with.
LEMMA RefillSays ==
  ASSUME NEW slot, Sequence(slot.text), NEW key, NEW value, Sequence(value)
  PROVE  /\ Refill(slot, key, value).key = slot.key
         /\ Sequence(Refill(slot, key, value).text)
         /\ ToSet(Refill(slot, key, value).text) \subseteq ToSet(slot.text) \cup ToSet(value)
         /\ ~Bare(key) => Refill(slot, key, value).text = value
<1>1. PICK new : new = Refill(slot, key, value)
  OBVIOUS
<1>2. CASE Bare(key)
  <2>1. PICK left, text : left = UpToBracket(slot.text) /\ text = left \o value
    OBVIOUS
  <2>2. new.key = slot.key /\ new.text = text
    BY <1>1, <1>2, <2>1 DEF Refill
  <2>3. Sequence(left) /\ ToSet(left) \subseteq ToSet(slot.text)
    BY <2>1, BracketFields
  <2>4. Sequence(text) /\ ToSet(text) \subseteq ToSet(slot.text) \cup ToSet(value)
    BY <2>1, <2>3, JoinedSequence
  <2> QED
    BY <1>1, <1>2, <2>2, <2>4
<1>3. CASE ~Bare(key)
  <2>1. new.key = slot.key /\ new.text = value
    BY <1>1, <1>3 DEF Refill
  <2> QED
    BY <1>1, <1>3, <2>1
<1> QED
  BY <1>2, <1>3

\* A key puts into its slot what is drawn from it.
LEMMA SubDrawn ==
  ASSUME IInv, OInv, DInv, Sub
  PROVE  \A i \in DOMAIN file_in' : Drawn(file_in'[i])
<1>1. UNCHANGED <<files, output, filter_str>> /\ todo # <<>> /\ file_in # <<>> /\ files # <<>>
  BY DEF Sub, IInv, Substituting
<1>2. PICK n \in Nat : Filled(n)
  BY <1>1 DEF IInv, Substituting
<1>3. PICK dict, names : dict = Selected(output, Head(files)) /\ names = Head(files).slots
  OBVIOUS
<1>4. PlainSlots(names) /\ DOMAIN file_in = DOMAIN names
      /\ \A i \in DOMAIN names : KeepsName(file_in[i], names[i])
  <2>1. Head(files) \in ToSet(Templates)
    BY <1>1, TailSequence DEF IInv, Substituting
  <2> QED
    BY <1>2, <1>3, <2>1, TemplatesAssumption DEF PlainSlots, ToSet, Filled, KeepsName
<1>5. PICK e : e = Head(todo)
  OBVIOUS
<1>6. PICK key, value : key = e[1] /\ value = e[2]
  OBVIOUS
<1>7. e \in ToSet(output) /\ Sequence(value)
  <2>1. PICK l \in Nat : l = Len(todo) /\ DOMAIN todo = 1 .. l /\ l # 0 /\ e = todo[1]
    BY <1>1, <1>5 DEF IInv, Sequences, Sequence
  <2>2. n + l = Len(dict) /\ e = dict[n + 1] /\ n + 1 \in 1 .. n + l
    BY <1>2, <1>3, <2>1 DEF Filled
  <2>3. Sequence(dict) /\ ToSet(dict) \subseteq ToSet(output)
    BY <1>3, KeptSequence DEF Selected, ToSet, IInv, Sequences
  <2>4. e \in ToSet(dict)
    BY <2>2, <2>3 DEF ToSet, Sequence
  <2>5. Tells(e)
    BY <2>3, <2>4 DEF OInv, AllTell
  <2> QED
    BY <1>6, <2>3, <2>4, <2>5 DEF Tells
<1>8. Subbed(file_in, key, value, file_in')
  BY <1>5, <1>6 DEF Sub, Subbed
<1>9. ASSUME Found(file_in, key) # {}, NEW f, f = Min(Found(file_in, key))
      PROVE  Drawn(Refill(file_in[f], key, value))
  <2>1. f \in Found(file_in, key) /\ f \in DOMAIN names
    BY <1>4, <1>9, FirstFound
  <2>2. PICK slot : slot = file_in[f]
    OBVIOUS
  <2>3. Drawn(slot) /\ slot.key = names[f] /\ (slot.header => slot.name = names[f])
    BY <1>4, <2>1, <2>2 DEF DInv, KeepsName
  <2>4. PICK new : new = Refill(slot, key, value)
    OBVIOUS
  <2>5. /\ new.key = slot.key /\ Sequence(new.text)
        /\ ToSet(new.text) \subseteq ToSet(slot.text) \cup ToSet(value)
        /\ ~Bare(key) => new.text = value
    BY <1>7, <2>3, <2>4, RefillSays DEF Drawn
  <2>6. "|" \in ToSet(key) \/ DocKey(key) = slot.key
    <3>1. CASE Bars(key) = {}
      <4>1. Whole(slot, key)
        BY <2>1, <2>2, <3>1, BarsOf DEF Found, Begins, Tails
      <4> QED
        BY <2>3, <4>1 DEF Whole
    <3> QED
      BY <3>1, BarsOf
  <2>7. \A t \in ToSet(value) : \E x \in ToSet(output) :
          t \in ToSet(x[2]) /\ (DocKey(x[1]) = new.key \/ "|" \in ToSet(x[1]))
    BY <1>6, <1>7, <2>5, <2>6
  <2>8. Drawn(new)
    BY <2>3, <2>5, <2>7 DEF Drawn
  <2> QED
    BY <2>2, <2>4, <2>8
<1> QED
  BY <1>4, <1>8, <1>9 DEF Subbed, Substitute, DInv

\* No step puts into a slot what no key comes with.
LEMMA StepDrawn ==
  ASSUME IInv, OInv, DInv, Next
  PROVE  DInv'
<1>1. ASSUME UNCHANGED output PROVE \A slot : Drawn(slot)' <=> Drawn(slot)
  BY <1>1 DEF Drawn
<1>2. ASSUME NEW template PROVE \A i \in DOMAIN Blank(template) : Drawn(Blank(template)[i])
  BY OneSequence DEF Blank, Drawn
<1>3. CASE ReadTemplate
  <2>1. UNCHANGED <<output, written>> /\ file_in' = Blank(Head(files))
    BY <1>3 DEF ReadTemplate
  <2> QED
    BY <1>1, <1>2, <2>1 DEF DInv
<1>4. CASE Sub
  <2>1. UNCHANGED <<output, written>>
    BY <1>4 DEF Sub
  <2> QED
    BY <1>1, <1>4, <2>1, SubDrawn DEF DInv
<1>5. CASE WriteHeader
  <2>1. PICK header : header = [template |-> Head(files), slots |-> file_in]
    OBVIOUS
  <2>2. UNCHANGED output /\ file_in' = <<>> /\ written' = written \cup {header}
        /\ header.slots = file_in
    BY <1>5, <2>1 DEF WriteHeader, scrapeVars
  <2> QED
    BY <1>1, <2>2 DEF DInv
<1>6. CASE CopyTemplate
  <2>1. PICK header : header = [template |-> Head(files), slots |-> Blank(Head(files))]
    OBVIOUS
  <2>2. UNCHANGED <<output, file_in>> /\ written' = written \cup {header}
        /\ header.slots = Blank(Head(files))
    BY <1>6, <2>1 DEF CopyTemplate, scrapeVars
  <2> QED
    BY <1>1, <1>2, <2>2 DEF DInv
<1>7. CASE CopyDone
  <2>1. UNCHANGED <<output, file_in, written>>
    BY <1>7 DEF CopyDone, scrapeVars
  <2> QED
    BY <1>1, <2>1 DEF DInv
<1>8. ASSUME phase \notin {"sub", "copy"}, UNCHANGED <<file_in, written>> PROVE DInv'
  <2>1. file_in' = <<>> /\ written' = {}
    BY <1>8 DEF IInv, Substituting, HeadersHold
  <2> QED
    BY <2>1 DEF DInv
<1> QED
  BY <1>3, <1>4, <1>5, <1>6, <1>7, <1>8
     DEF Next, ReadCompound, ReadCompoundRaises, FindBlocks, FindBlocksRaises, NextStage,
         DescribeBlock, DescribeBlockRaises, DescribeBlock2, DescribeFunction, DescribeClass,
         WriteJson, subVars

\* Every reachable state has in its slots what its keys come with.
LEMMA DrawnAlways == Spec => []DInv
<1>1. Init => DInv
  BY DEF Init, DInv
<1>2. DInv /\ UNCHANGED vars => DInv'
  BY DEF DInv, Drawn, vars, scrapeVars, subVars
<1>3. IInv /\ OInv /\ DInv /\ [Next]_vars => DInv'
  BY <1>2, StepDrawn
<1> QED
  BY <1>1, <1>3, Invariance, OriginsKept, PTL DEF Spec

\* What a slot holds is about something of the slot's name, or about the
\* class, make function or header of the block the slot belongs to, unless it
\* came with a key with a bar in it.
THEOREM SlotsDescribeTheirOwn == Spec => []SlotDescribesItsOwn
<1>1. OInv /\ DInv => SlotDescribesItsOwn
  <2> SUFFICES ASSUME OInv, DInv, NEW w \in written, NEW i \in DOMAIN w.slots,
                      NEW t \in ToSet(w.slots[i].text)
               PROVE  \/ t \in {ConstructorHeading, ArgsHeading}
                      \/ DocKey(t.of) = w.slots[i].key
                      \/ \E k \in SourceClasses :
                           {DocKey(t.of), w.slots[i].key} \subseteq Kin(k) \cup Made(k)
                      \/ \E e \in ToSet(output) : "|" \in ToSet(e[1]) /\ t \in ToSet(e[2])
    BY DEF SlotDescribesItsOwn, SourceClasses, Kin, Made
  <2>1. PICK e \in ToSet(output) :
          t \in ToSet(e[2]) /\ (DocKey(e[1]) = w.slots[i].key \/ "|" \in ToSet(e[1]))
    BY DEF DInv, Drawn
  <2>2. Fits(t, e[1])
    BY <2>1 DEF OInv, AllTell, Tells
  <2> QED
    BY <2>1, <2>2 DEF Fits
<1> QED
  BY <1>1, OriginsKept, DrawnAlways, PTL

-----------------------------------------------------------------------------
(* Which compound each member of the index is from.  *)

\* What a compound brings into the index.
Arises(x, c) ==
    \/ x = c /\ (DoxyFile(c) => Header(c))
    \/ Spread(c) /\ x \in FirstOnes(c.contents)

\* Two functions, classes or files of one name.
Alike(x, y) ==
    x.kind = y.kind /\ x.kind \in {"function", "class", "file"} /\ x.name = y.name

\* What one compound brings in, and nothing else, each once.
BroughtBy(more, c) ==
    /\ Sequence(more)
    /\ \A q, r \in DOMAIN more : Alike(more[q], more[r]) => q = r
    /\ \A q \in DOMAIN more : Arises(more[q], c)
    /\ \A x : Arises(x, c) => \E q \in DOMAIN more : more[q] = x
    /\ \A q, r \in DOMAIN more : q < r => Before(more[q], more[r], c.contents)

\* The members of the index are those of the first n compounds, in their
\* order: src says which compound each is from.
Traced(src, n, items, from) ==
    /\ src \in [DOMAIN items -> 1 .. n]
    /\ \A l, m \in DOMAIN items : l < m => src[l] <= src[m]
    /\ \A m \in DOMAIN items : Arises(items[m], from[src[m]])
    /\ \A i \in 1 .. n : \A x :
         Arises(x, from[i]) => \E m \in DOMAIN items : src[m] = i /\ items[m] = x
    /\ \A l, m \in DOMAIN items :
         src[l] = src[m] /\ Alike(items[l], items[m]) => l = m
    /\ \A l, m \in DOMAIN items :
         src[l] = src[m] /\ l < m => Before(items[l], items[m], from[src[m]].contents)

Behind(n) ==
    /\ n + Len(xml) = Len(source)
    /\ \A j \in 1 .. Len(xml) : xml[j] = source[n + j]
    /\ \A i \in 1 .. n : ~Breaks(source[i])

Read ==
    /\ Sequence(source)
    /\ \E n \in Nat : Behind(n) /\ \E src : Traced(src, n, members, source)
    /\ Scraping \/ phase = "sub" => xml = <<>>

\* What the index is given of a compound.
LEMMA MoreBrought ==
  ASSUME Sourced, NEW c \in ToSet(source),
         NEW more, more = IF Spread(c) THEN Append(process_memberdefs(c.contents), c)
                          ELSE IF DoxyFile(c) THEN <<>> ELSE <<c>>
  PROVE  BroughtBy(more, c)
<1>1. /\ Sequence(c.contents) /\ c.kind # "function"
      /\ \A x \in ToSet(c.contents) : x.kind \notin {"class", "file", "namespace"}
  BY OneSequence, DirectoriesAssumption DEF Sourced
<1>2. CASE ~Spread(c) /\ DoxyFile(c)
  <2>1. more = <<>> /\ DOMAIN more = {} /\ Sequence(more)
    <3>1. more = <<>>
      BY <1>2
    <3>2. more \in Seq({}) /\ Len(more) = 0
      BY <3>1
    <3>3. DOMAIN more = {}
      BY <3>2
    <3> QED
      BY <3>1, <3>3, OneSequence
  <2>2. \A x : ~Arises(x, c)
    BY <1>2 DEF Arises, Spread
  <2> QED
    BY <2>1, <2>2 DEF BroughtBy
<1>3. CASE ~Spread(c) /\ ~DoxyFile(c)
  <2>1. more = <<c>> /\ DOMAIN more = {1} /\ more[1] = c /\ Sequence(more)
    BY <1>3, OneSequence
  <2>2. \A x : Arises(x, c) <=> x = c
    BY <1>3 DEF Arises
  <2>3. \A q, r \in {1} : ~(q < r)
    OBVIOUS
  <2> QED
    BY <2>1, <2>2, <2>3 DEF BroughtBy
<1>4. CASE Spread(c)
  <2>1. PICK m : m = process_memberdefs(c.contents) /\ more = Append(m, c)
    BY <1>4
  <2>2. /\ Sequence(m) /\ ToSet(m) = FirstOnes(c.contents)
        /\ \A q, r \in DOMAIN m : m[q].name = m[r].name => q = r
        /\ \A q, r \in DOMAIN m : q < r => Before(m[q], m[r], c.contents)
    BY <1>1, <2>1, MembersOnce
  <2>3. PICK S : S = ToSet(m) \cup {c}
    OBVIOUS
  <2>4. m \in Seq(S) /\ c \in S
    BY <2>2, <2>3, SuperSequence DEF Sequence
  <2>5. PICK v \in Nat : v = Len(m) /\ DOMAIN m = 1 .. v
    BY <2>4
  <2>6. more \in Seq(S) /\ DOMAIN more = 1 .. v + 1 /\ more[v + 1] = c
        /\ \A q \in 1 .. v : more[q] = m[q]
    <3>1. PICK w : w = Append(m, c)
      OBVIOUS
    <3>2. w \in Seq(S) /\ Len(w) = v + 1 /\ w[v + 1] = c /\ \A q \in 1 .. v : w[q] = m[q]
      BY <2>4, <2>5, <3>1, AppendProperties
    <3>3. DOMAIN w = 1 .. v + 1
      BY <3>2
    <3> QED
      BY <2>1, <3>1, <3>2, <3>3
  <2>7. \A q \in 1 .. v + 1 : q = v + 1 \/ q \in 1 .. v
    OBVIOUS
  <2>8. \A q \in 1 .. v : m[q] \in FirstOnes(c.contents) /\ m[q].kind \notin {"class", "file"}
    <3>1. \A q \in 1 .. v : m[q] \in ToSet(m)
      BY <2>5 DEF ToSet
    <3>2. FirstOnes(c.contents) \subseteq ToSet(c.contents)
      BY DEF FirstOnes, FirstPlaces, ToSet
    <3> QED
      BY <1>1, <2>2, <3>1, <3>2
  <2>9. \A q \in 1 .. v + 1 : Arises(more[q], c)
    <3>1. DoxyFile(c) => Header(c)
      BY <1>4 DEF Spread, DoxyFile
    <3> QED
      BY <1>4, <2>6, <2>7, <2>8, <3>1 DEF Arises
  <2>10. ASSUME NEW x, Arises(x, c) PROVE \E q \in 1 .. v + 1 : more[q] = x
    <3>1. CASE x = c
      <4>1. v + 1 \in 1 .. v + 1
        OBVIOUS
      <4> QED
        BY <2>6, <3>1, <4>1
    <3>2. CASE x \in FirstOnes(c.contents)
      <4>1. PICK q \in 1 .. v : m[q] = x
        BY <2>2, <2>5, <3>2 DEF ToSet
      <4>2. q \in 1 .. v + 1
        OBVIOUS
      <4> QED
        BY <2>6, <4>1, <4>2
    <3> QED
      BY <2>10, <3>1, <3>2 DEF Arises
  <2>11. ASSUME NEW q \in 1 .. v + 1, NEW r \in 1 .. v + 1, Alike(more[q], more[r])
         PROVE  q = r
    <3>1. CASE q \in 1 .. v /\ r \in 1 .. v
      BY <2>2, <2>5, <2>6, <2>11, <3>1 DEF Alike
    <3>2. ASSUME NEW p \in 1 .. v PROVE ~Alike(more[p], c) /\ ~Alike(c, more[p])
      BY <1>1, <2>6, <2>8 DEF Alike
    <3> QED
      BY <2>6, <2>7, <2>11, <3>1, <3>2
  <2>12. Sequence(more)
    BY <2>6, SequenceOf
  <2>13. ASSUME NEW q \in 1 .. v + 1, NEW r \in 1 .. v + 1, q < r
         PROVE  Before(more[q], more[r], c.contents)
    <3>1. CASE r \in 1 .. v
      <4>1. q \in 1 .. v
        BY <2>13, <3>1
      <4> QED
        BY <2>2, <2>5, <2>6, <2>13, <3>1, <4>1
    <3>2. CASE r = v + 1
      <4>1. \A b \in FirstPlaces(c.contents) : c.contents[b] # c
        <5>1. \A b \in FirstPlaces(c.contents) : c.contents[b] \in ToSet(c.contents)
          BY DEF FirstPlaces, ToSet
        <5> QED
          BY <1>1, <1>4, <5>1 DEF Spread, Header, DoxyFile
      <4> QED
        BY <2>6, <3>2, <4>1 DEF Before
    <3> QED
      BY <2>7, <3>1, <3>2
  <2> QED
    BY <2>6, <2>9, <2>10, <2>11, <2>12, <2>13 DEF BroughtBy
<1> QED
  BY <1>2, <1>3, <1>4

\* The members of one more compound behind those of the first n.
LEMMA TracedNext ==
  ASSUME NEW n \in Nat, NEW src, NEW items, Sequence(items), NEW from,
         Traced(src, n, items, from), NEW more, BroughtBy(more, from[n + 1])
  PROVE  \E next : Traced(next, n + 1, items \o more, from)
<1>1. PICK S : S = ToSet(items) \cup ToSet(more)
  OBVIOUS
<1>2. items \in Seq(S) /\ more \in Seq(S)
  BY <1>1, SuperSequence DEF Sequence, BroughtBy
<1>3. PICK u \in Nat, v \in Nat : /\ u = Len(items) /\ v = Len(more)
                                 /\ DOMAIN items = 1 .. u /\ DOMAIN more = 1 .. v
  BY <1>2
<1>4. /\ src \in [1 .. u -> 1 .. n]
      /\ \A l, m \in 1 .. u : l < m => src[l] <= src[m]
      /\ \A m \in 1 .. u : Arises(items[m], from[src[m]])
  BY <1>3 DEF Traced
<1>5. \A i \in 1 .. n : \A x : Arises(x, from[i]) => \E m \in 1 .. u : src[m] = i /\ items[m] = x
  <2>1. \A i \in 1 .. n : \A x : Arises(x, from[i]) =>
          \E m \in DOMAIN items : src[m] = i /\ items[m] = x
    BY Zenon DEF Traced
  <2>2. ASSUME NEW i \in 1 .. n, NEW x, Arises(x, from[i])
        PROVE  \E m \in 1 .. u : src[m] = i /\ items[m] = x
    <3>1. PICK m \in DOMAIN items : src[m] = i /\ items[m] = x
      BY <2>1, <2>2, Zenon
    <3>2. m \in 1 .. u
      BY <1>3, <3>1
    <3> QED
      BY <3>1, <3>2, Zenon
  <2> QED
    BY <2>2, Zenon
<1>6. \A l, m \in 1 .. u : src[l] = src[m] =>
        /\ Alike(items[l], items[m]) => l = m
        /\ l < m => Before(items[l], items[m], from[src[m]].contents)
  BY <1>3 DEF Traced
<1>7. PICK c : c = n + 1
  OBVIOUS
<1>8. /\ \A q, r \in 1 .. v : Alike(more[q], more[r]) => q = r
      /\ \A q \in 1 .. v : Arises(more[q], from[c])
      /\ \A x : Arises(x, from[c]) => \E q \in 1 .. v : more[q] = x
      /\ \A q, r \in 1 .. v : q < r => Before(more[q], more[r], from[c].contents)
  BY <1>3, <1>7 DEF BroughtBy
<1>9. PICK all : all = items \o more
  OBVIOUS
<1>10. /\ DOMAIN all = 1 .. u + v
       /\ \A m \in 1 .. u : all[m] = items[m]
       /\ \A q \in 1 .. v : all[u + q] = more[q]
  BY <1>2, <1>3, <1>9
<1>11. \A m \in 1 .. u + v : m \in 1 .. u \/ (~(m <= u) /\ m - u \in 1 .. v /\ u + (m - u) = m)
  OBVIOUS
<1>12. (\A m \in 1 .. u : m \in 1 .. u + v /\ m <= u)
       /\ (\A q \in 1 .. v : u + q \in 1 .. u + v /\ ~(u + q <= u))
  OBVIOUS
<1>13. PICK next : next = [m \in 1 .. u + v |-> IF m <= u THEN src[m] ELSE c]
  OBVIOUS
<1>14. \A m \in 1 .. u : next[m] = src[m] /\ src[m] \in 1 .. n
  BY <1>12, <1>13, <1>4
<1>15. \A q \in 1 .. v : next[u + q] = c
  BY <1>12, <1>13
<1>16. c \in 1 .. c /\ c \in Nat /\ c \notin 1 .. n
       /\ (\A i \in 1 .. n : i \in 1 .. c /\ i <= c) /\ (\A i \in 1 .. c : i = c \/ i \in 1 .. n)
  BY <1>7
<1>17. next \in [1 .. u + v -> 1 .. c]
  <2>1. ASSUME NEW m \in 1 .. u + v PROVE next[m] \in 1 .. c
    <3>1. CASE m \in 1 .. u
      BY <1>14, <1>16, <3>1
    <3>2. CASE ~(m <= u)
      BY <1>13, <1>16, <3>2
    <3> QED
      BY <1>11, <3>1, <3>2
  <2> QED
    BY <1>13, <2>1
<1>18. ASSUME NEW l \in 1 .. u + v, NEW m \in 1 .. u + v, l < m PROVE next[l] <= next[m]
  <2>1. CASE m \in 1 .. u
    <3>1. l \in 1 .. u
      BY <1>18, <2>1
    <3> QED
      BY <1>14, <1>18, <1>4, <2>1, <3>1
  <2>2. CASE ~(m <= u)
    <3>1. next[m] = c
      BY <1>13, <2>2
    <3>2. next[l] \in 1 .. c
      BY <1>17
    <3> QED
      BY <1>16, <3>1, <3>2
  <2> QED
    BY <1>11, <2>1, <2>2
<1>19. ASSUME NEW m \in 1 .. u + v PROVE Arises(all[m], from[next[m]])
  <2>1. CASE m \in 1 .. u
    BY <1>10, <1>14, <1>4, <2>1
  <2>2. CASE m - u \in 1 .. v /\ u + (m - u) = m
    <3>1. PICK q \in 1 .. v : u + q = m
      BY <2>2
    <3> QED
      BY <1>10, <1>15, <1>8, <3>1
  <2> QED
    BY <1>11, <2>1, <2>2
<1>20. ASSUME NEW i \in 1 .. c, NEW x, Arises(x, from[i])
       PROVE  \E m \in 1 .. u + v : next[m] = i /\ all[m] = x
  <2>1. CASE i \in 1 .. n
    <3>1. PICK m \in 1 .. u : src[m] = i /\ items[m] = x
      BY <1>20, <1>5, <2>1
    <3> QED
      BY <1>10, <1>12, <1>14, <3>1
  <2>2. CASE i = c
    <3>1. PICK q \in 1 .. v : more[q] = x
      BY <1>20, <1>8, <2>2
    <3> QED
      BY <1>10, <1>12, <1>15, <2>2, <3>1
  <2> QED
    BY <1>16, <2>1, <2>2
<1>21. ASSUME NEW l \in 1 .. u + v, NEW m \in 1 .. u + v, next[l] = next[m],
              Alike(all[l], all[m])
       PROVE  l = m
  <2>1. CASE l \in 1 .. u /\ m \in 1 .. u
    BY <1>10, <1>14, <1>21, <1>6, <2>1
  <2>2. CASE ~(l <= u) /\ ~(m <= u)
    <3>1. PICK q \in 1 .. v, r \in 1 .. v : u + q = l /\ u + r = m
      BY <1>11, <2>2
    <3>2. q = r
      BY <1>10, <1>21, <1>8, <3>1
    <3> QED
      BY <3>1, <3>2
  <2>3. ASSUME NEW a \in 1 .. u, NEW b \in 1 .. u + v, ~(b <= u) PROVE next[a] # next[b]
    <3>1. next[b] = c
      BY <1>13, <2>3
    <3> QED
      BY <1>14, <1>16, <3>1
  <2> QED
    BY <1>11, <1>12, <1>21, <2>1, <2>2, <2>3
<1>22. next \in [DOMAIN all -> 1 .. c]
  BY <1>10, <1>17
<1>23. \A l, m \in DOMAIN all : l < m => next[l] <= next[m]
  BY <1>10, <1>18
<1>24. \A m \in DOMAIN all : Arises(all[m], from[next[m]])
  BY <1>10, <1>19
<1>25. \A i \in 1 .. c : \A x :
         Arises(x, from[i]) => \E m \in DOMAIN all : next[m] = i /\ all[m] = x
  BY <1>10, <1>20
<1>26. \A l, m \in DOMAIN all : next[l] = next[m] /\ Alike(all[l], all[m]) => l = m
  BY <1>10, <1>21
<1>28. ASSUME NEW l \in 1 .. u + v, NEW m \in 1 .. u + v, next[l] = next[m], l < m
       PROVE  Before(all[l], all[m], from[next[m]].contents)
  <2>1. CASE l \in 1 .. u /\ m \in 1 .. u
    BY <1>10, <1>14, <1>28, <1>6, <2>1
  <2>2. CASE ~(l <= u) /\ ~(m <= u)
    <3>1. PICK q \in 1 .. v, r \in 1 .. v : u + q = l /\ u + r = m
      BY <1>11, <2>2
    <3>2. q < r
      BY <1>28, <3>1
    <3> QED
      BY <1>10, <1>15, <1>8, <3>1, <3>2
  <2>3. ASSUME NEW a \in 1 .. u, NEW b \in 1 .. u + v, ~(b <= u) PROVE next[a] # next[b]
    <3>1. next[b] = c
      BY <1>13, <2>3
    <3> QED
      BY <1>14, <1>16, <3>1
  <2> QED
    BY <1>11, <1>12, <1>28, <2>1, <2>2, <2>3
<1>29. \A l, m \in DOMAIN all :
         next[l] = next[m] /\ l < m => Before(all[l], all[m], from[next[m]].contents)
  BY <1>10, <1>28
<1>27. Traced(next, c, all, from)
  BY <1>22, <1>23, <1>24, <1>25, <1>26, <1>29 DEF Traced
<1> QED
  BY <1>7, <1>9, <1>27

\* The compounds not read yet are behind those read.
LEMMA BehindNext ==
  ASSUME NEW n \in Nat, Sequence(xml), Sequence(source), Behind(n), xml # <<>>,
         ~Breaks(Head(xml)), xml' = Tail(xml), source' = source
  PROVE  Behind(n + 1)' /\ Head(xml) = source[n + 1]
<1>1. PICK S : xml \in Seq(S)
  BY DEF Sequence
<1>2. PICK l \in Nat : l = Len(xml) /\ l # 0
  BY <1>1
<1>3. PICK t : t = Tail(xml)
  OBVIOUS
<1>4. t \in Seq(S) /\ Len(t) = l - 1 /\ (\A j \in 1 .. l - 1 : t[j] = xml[j + 1]) /\ Head(xml) = xml[1]
  BY <1>1, <1>2, <1>3
<1>5. Head(xml) = source[n + 1]
  <2>1. 1 \in 1 .. l
    BY <1>2
  <2> QED
    BY <1>2, <1>4, <2>1 DEF Behind
<1>6. PICK c \in Nat : c = n + 1
  OBVIOUS
<1>7. c + (l - 1) = Len(source)
  BY <1>2, <1>6 DEF Behind
<1>8. ASSUME NEW j \in 1 .. l - 1 PROVE t[j] = source[c + j]
  <2>1. j + 1 \in 1 .. l /\ n + (j + 1) = c + j
    BY <1>2, <1>6
  <2>2. xml[j + 1] = source[n + (j + 1)]
    BY <1>2, <2>1 DEF Behind
  <2> QED
    BY <1>4, <2>1, <2>2
<1>9. \A i \in 1 .. c : i = c \/ i \in 1 .. n
  BY <1>6
<1>10. \A i \in 1 .. c : ~Breaks(source[i])
  BY <1>5, <1>6, <1>9 DEF Behind
<1>11. Behind(c)'
  BY <1>3, <1>4, <1>7, <1>8, <1>10 DEF Behind
<1> QED
  BY <1>5, <1>6, <1>11

\* Nothing is read yet.
LEMMA ReadInitially ==
  ASSUME Init
  PROVE  Read
<1>1. Sequence(source)
  BY OneSequence, DirectoriesAssumption DEF Init
<1>2. PICK l \in Nat : l = Len(source)
  BY <1>1 DEF Sequence
<1>3. Behind(0)
  <2>1. 0 + l = l /\ \A j \in 1 .. l : 0 + j = j
    OBVIOUS
  <2> QED
    BY <1>2, <2>1 DEF Init, Behind
<1>4. Traced(<<>>, 0, members, source)
  <2>1. <<>> \in [DOMAIN <<>> -> 1 .. 0] /\ DOMAIN <<>> = {}
    OBVIOUS
  <2> QED
    BY <2>1 DEF Init, Traced
<1>5. ~Scraping /\ phase # "sub"
  BY DEF Init, Scraping
<1> QED
  BY <1>1, <1>3, <1>4, <1>5 DEF Read

\* Every step keeps track of where the members are from.
LEMMA StepRead ==
  ASSUME Sequences, Sourced, Read, Next
  PROVE  Read'
<1>1. CASE ReadCompound /\ UNCHANGED <<todo, make_funcs, output, subVars, source>>
  <2>1. PICK c : c = Head(xml)
    OBVIOUS
  <2>2. /\ phase' = "index" /\ xml # <<>> /\ ~Breaks(c) /\ xml' = Tail(xml) /\ source' = source
    BY <1>1, <2>1 DEF ReadCompound
  <2>3. PICK n \in Nat : Behind(n) /\ \E src : Traced(src, n, members, source)
    BY DEF Read
  <2>4. Behind(n + 1)' /\ c = source[n + 1]
    BY <2>1, <2>2, <2>3, BehindNext DEF Sequences, Read
  <2>5. c \in ToSet(source)
    BY <2>1, <2>2, TailSequence DEF Sequences, Sourced
  <2>6. PICK more : more = IF Spread(c) THEN Append(process_memberdefs(c.contents), c)
                           ELSE IF DoxyFile(c) THEN <<>> ELSE <<c>>
    OBVIOUS
  <2>7. BroughtBy(more, c)
    BY <2>5, <2>6, MoreBrought
  <2>8. members' = members \o more
    BY <1>1, <2>1, <2>6 DEF ReadCompound
  <2>9. \E next : Traced(next, n + 1, members \o more, source)
    BY <2>3, <2>4, <2>7, TracedNext DEF Sequences
  <2>10. n + 1 \in Nat /\ \E next : Traced(next, n + 1, members', source')
    BY <2>2, <2>8, <2>9
  <2>11. ~Scraping' /\ phase' # "sub"
    BY <2>2 DEF Scraping
  <2> QED
    BY <2>2, <2>4, <2>10, <2>11 DEF Read
<1>2. ASSUME UNCHANGED <<xml, members, source>>, Scraping' \/ phase' = "sub" => xml = <<>>
      PROVE  Read'
  BY <1>2 DEF Read, Behind
<1>3. CASE FindBlocks
  BY <1>2, <1>3 DEF FindBlocks
<1>4. CASE NextStage \/ DescribeBlock \/ DescribeBlock2 \/ DescribeFunction \/ DescribeClass \/ WriteJson
  <2>1. UNCHANGED <<xml, members, source>> /\ Scraping
    BY <1>4 DEF NextStage, DescribeBlock, DescribeBlock2, DescribeFunction, DescribeClass, WriteJson,
                scrapeVars, Scraping
  <2> QED
    BY <1>2, <2>1 DEF Read
<1>5. CASE \/ ReadCompoundRaises /\ UNCHANGED <<todo, make_funcs, output, subVars, source>>
           \/ FindBlocksRaises \/ DescribeBlockRaises \/ CopyTemplate \/ CopyDone
  <2>1. UNCHANGED <<xml, members, source>> /\ ~Scraping' /\ phase' # "sub"
    BY <1>5 DEF ReadCompoundRaises, FindBlocksRaises, DescribeBlockRaises, CopyTemplate, CopyDone,
                scrapeVars, Scraping
  <2> QED
    BY <1>2, <2>1
<1>6. CASE ReadTemplate \/ Sub \/ WriteHeader
  <2>1. UNCHANGED <<xml, members, source>> /\ phase = "sub"
    BY <1>6 DEF ReadTemplate, Sub, WriteHeader, scrapeVars
  <2> QED
    BY <1>2, <2>1 DEF Read
<1> QED
  BY <1>1, <1>3, <1>4, <1>5, <1>6 DEF Next

\* Every reachable state knows where its members are from.
LEMMA ReadsKept == Spec => []Read
<1>1. Sequences /\ Sourced /\ Read /\ [Next]_vars => Read'
  <2> SUFFICES ASSUME Sequences, Sourced, Read, UNCHANGED vars PROVE Read'
    BY StepRead
  <2>1. UNCHANGED <<xml, members, phase, source>>
    BY DEF vars, scrapeVars
  <2> QED
    BY <2>1 DEF Read, Behind, Scraping
<1>2. Init => Read
  BY ReadInitially
<1>3. IInv /\ OInv => Sequences /\ Sourced
  BY DEF IInv, OInv
<1> QED
  BY <1>1, <1>2, <1>3, Invariance, OriginsKept, PTL DEF Spec

-----------------------------------------------------------------------------
(* When scraping fails.  *)

\* A header's name is in no more namespaces than its block's.
LEMMA NestedHeader ==
  ASSUME NEW name, Sequence(name)
  PROVE  Nested(Append(name, ".h")) <=> Nested(name)
<1>1. PICK S : S = ToSet(name) \cup {".h"}
  OBVIOUS
<1>2. PICK l \in Nat : l = Len(name) /\ DOMAIN name = 1 .. l
  BY DEF Sequence
<1>3. name \in Seq(S) /\ ".h" \in S
  BY <1>1, SuperSequence DEF Sequence
<1>4. PICK w : w = Append(name, ".h")
  OBVIOUS
<1>5. w \in Seq(S) /\ Len(w) = l + 1 /\ w[l + 1] = ".h" /\ \A i \in 1 .. l : w[i] = name[i]
  BY <1>2, <1>3, <1>4, AppendProperties
<1>6. DOMAIN w = 1 .. l + 1
  BY <1>5
<1>7. \A i \in 1 .. l + 1 : i = l + 1 \/ i \in 1 .. l
  OBVIOUS
<1>8. \A i \in 1 .. l : i \in 1 .. l + 1
  OBVIOUS
<1>9. "::" # ".h"
  OBVIOUS
<1> QED
  BY <1>2, <1>4, <1>5, <1>6, <1>7, <1>8, <1>9 DEF Nested, ToSet

\* Three elements in a row.
LEMMA ThreeSequence ==
  ASSUME NEW a, NEW b
  PROVE  <<a, b, a>> \in Seq({a, b})
  OBVIOUS

\* What make_name puts into a name.
LEMMA MiddleOf ==
  ASSUME NEW mid, mid = <<"_", "make", "_">>
  PROVE  Sequence(mid) /\ "::" \notin ToSet(mid)
<1>1. PICK a, b : a = "_" /\ b = "make"
  OBVIOUS
<1>2. "::" # a /\ "::" # b
  BY <1>1
<1>3. <<a, b, a>> \in Seq({a, b})
  BY ThreeSequence
<1>4. mid = <<a, b, a>>
  BY <1>1
<1>5. Sequence(mid) /\ ToSet(mid) \subseteq {a, b}
  BY <1>3, <1>4, SequenceOf
<1> QED
  BY <1>2, <1>5

\* A part of a sequence has what the sequence has there.
LEMMA PartOf ==
  ASSUME NEW s, NEW a \in Int, NEW b \in Int
  PROVE  Sequence(SubSeq(s, a, b)) /\ ToSet(SubSeq(s, a, b)) = {s[i] : i \in a .. b}
<1>1. PICK S : S = {s[i] : i \in a .. b}
  OBVIOUS
<1>2. PICK w : w = SubSeq(s, a, b)
  OBVIOUS
<1>3. \A i \in a .. b : s[i] \in S
  BY <1>1
<1>4. /\ w \in Seq(S) /\ Len(w) = (IF a <= b THEN b - a + 1 ELSE 0)
      /\ \A i \in 1 .. b - a + 1 : w[i] = s[a + i - 1]
  BY <1>2, <1>3, SubSeqProperties
<1>5. Sequence(w) /\ ToSet(w) \subseteq S
  BY <1>4, SequenceOf
<1>6. ASSUME NEW i \in a .. b PROVE s[i] \in ToSet(w)
  <2>1. PICK j : j = i - a + 1
    OBVIOUS
  <2>2. j \in 1 .. b - a + 1 /\ a + j - 1 = i /\ a <= b
    BY <2>1
  <2>3. j \in DOMAIN w
    BY <1>4, <2>2
  <2>4. w[j] = s[i]
    BY <1>4, <2>2
  <2> QED
    BY <2>3, <2>4 DEF ToSet
<1>7. S \subseteq ToSet(w)
  BY <1>1, <1>6
<1> QED
  BY <1>1, <1>2, <1>5, <1>7

\* A make function's name is in no more namespaces than its block's.
LEMMA NestedMake ==
  ASSUME NEW name, Sequence(name)
  PROVE  Nested(make_name(name)) <=> Nested(name)
<1>1. PICK l \in Nat : l = Len(name) /\ DOMAIN name = 1 .. l
  BY DEF Sequence
<1>2. PICK cuts : cuts = {i \in DOMAIN name : name[i] = "_"}
  OBVIOUS
<1>3. PICK cut : cut = IF cuts = {} THEN Len(name) + 1 ELSE Min(cuts)
  OBVIOUS
<1>4. cut = l + 1 \/ (cut \in 1 .. l /\ name[cut] = "_")
  <2>1. CASE cuts = {}
    BY <1>1, <1>3, <2>1
  <2>2. CASE cuts # {}
    <3>1. cuts \in SUBSET (1 .. l)
      BY <1>1, <1>2
    <3>2. cut \in cuts
      BY <1>3, <2>2, <3>1, MinFields
    <3> QED
      BY <1>2, <3>1, <3>2
  <2> QED
    BY <2>1, <2>2
<1>5. cut \in 1 .. l + 1
  <2>1. l + 1 \in 1 .. l + 1 /\ \A i \in 1 .. l : i \in 1 .. l + 1
    OBVIOUS
  <2> QED
    BY <1>4, <2>1
<1>6. PICK a, mid, z : a = SubSeq(name, 1, cut - 1) /\ mid = <<"_", "make", "_">>
                      /\ z = SubSeq(name, cut + 1, Len(name))
  OBVIOUS
<1>7. make_name(name) = a \o mid \o z
  BY <1>2, <1>3, <1>6 DEF make_name
<1>8. Sequence(a) /\ ToSet(a) = {name[i] : i \in 1 .. cut - 1}
  <2>1. PICK e : e = cut - 1
    OBVIOUS
  <2>2. 1 \in Int /\ e \in Int
    BY <1>5, <2>1
  <2>3. Sequence(SubSeq(name, 1, e)) /\ ToSet(SubSeq(name, 1, e)) = {name[i] : i \in 1 .. e}
    BY <2>2, PartOf
  <2> QED
    BY <1>6, <2>1, <2>3
<1>9. Sequence(z) /\ ToSet(z) = {name[i] : i \in cut + 1 .. l}
  <2>1. PICK e : e = cut + 1
    OBVIOUS
  <2>2. e \in Int /\ l \in Int
    BY <1>5, <2>1
  <2>3. Sequence(SubSeq(name, e, l)) /\ ToSet(SubSeq(name, e, l)) = {name[i] : i \in e .. l}
    BY <2>2, PartOf
  <2> QED
    BY <1>1, <1>6, <2>1, <2>3
<1>10. Sequence(mid) /\ "::" \notin ToSet(mid)
  BY <1>6, MiddleOf
<1>11. ToSet(a \o mid \o z) = ToSet(a) \cup ToSet(mid) \cup ToSet(z)
  BY <1>8, <1>9, <1>10, JoinedSequence
<1>12. /\ \A i \in 1 .. l : i \in 1 .. cut - 1 \/ i = cut \/ i \in cut + 1 .. l
       /\ \A i \in 1 .. cut - 1 : i \in 1 .. l
       /\ \A i \in cut + 1 .. l : i \in 1 .. l
  BY <1>5
<1>13. cut \in 1 .. l => name[cut] # "::"
  <2>1. l + 1 \notin 1 .. l /\ "_" # "::"
    OBVIOUS
  <2> QED
    BY <1>4, <2>1
<1>14. "::" \in ToSet(name) <=> "::" \in ToSet(a) \cup ToSet(z)
  <2>1. ToSet(name) = {name[i] : i \in 1 .. l}
    BY <1>1 DEF ToSet
  <2> QED
    BY <1>8, <1>9, <1>12, <1>13, <2>1
<1> QED
  BY <1>7, <1>10, <1>11, <1>14 DEF Nested

\* What is found in the index by a name of one kind: as many members as there
\* are compounds that have one.
LEMMA LookupCounts ==
  ASSUME NEW n \in Nat, NEW src, Sequence(members), Traced(src, n, members, source),
         NEW name, NEW kind \in {"function", "file"},
         NEW T, T = {src[m] : m \in Lookup(members, name, {kind})}
  PROVE  /\ IsFiniteSet(T) /\ Cardinality(Lookup(members, name, {kind})) = Cardinality(T)
         /\ Cardinality(T) \in Nat
<1>1. PICK l \in Nat : DOMAIN members = 1 .. l
  BY DEF Sequence
<1>2. PICK L : L = Lookup(members, name, {kind})
  OBVIOUS
<1>3. L \in SUBSET (1 .. l)
  BY <1>1, <1>2 DEF Lookup
<1>4. IsFiniteSet(L)
  <2>1. IsFiniteSet(1 .. l)
    BY FS_Interval
  <2> QED
    BY <1>3, <2>1, FS_Subset
<1>5. PICK f : f = [m \in L |-> src[m]]
  OBVIOUS
<1>6. f \in [L -> T] /\ \A i \in T : \E m \in L : f[m] = i
  BY <1>2, <1>5
<1>7. \A m \in L : members[m].kind = kind /\ members[m].name = FirstBit(name)
  BY <1>2 DEF Lookup
<1>8. \A a, b \in L : f[a] = f[b] => a = b
  <2>1. SUFFICES ASSUME NEW a \in L, NEW b \in L, f[a] = f[b] PROVE a = b
    OBVIOUS
  <2>2. a \in DOMAIN members /\ b \in DOMAIN members /\ src[a] = src[b]
    BY <1>1, <1>3, <1>5, <2>1
  <2>3. Alike(members[a], members[b])
    BY <1>7 DEF Alike
  <2> QED
    BY <2>2, <2>3 DEF Traced
<1>9. f \in Bijection(L, T)
  <2>1. f \in Injection(L, T)
    BY <1>6, <1>8 DEF Injection, IsInjective
  <2>2. f \in Surjection(L, T)
    BY <1>6 DEF Surjection
  <2> QED
    BY <2>1, <2>2 DEF Bijection
<1>10. IsFiniteSet(T) /\ Cardinality(T) = Cardinality(L)
  BY <1>4, <1>9, FS_Bijection DEF ExistsBijection
<1> QED
  BY <1>2, <1>10, FS_CardinalityType

\* A function's name is found once for each compound that is described and
\* has a first one of it.
LEMMA FunctionsCounted ==
  ASSUME Sourced, Sequence(members), Read, xml = <<>>, NEW name
  PROVE  /\ Cardinality(Lookup(members, name, {"function"})) = Cardinality(Named(FirstBit(name)))
         /\ Cardinality(Named(FirstBit(name))) \in Nat /\ IsFiniteSet(Named(FirstBit(name)))
<1>1. PICK n \in Nat : Behind(n) /\ \E src : Traced(src, n, members, source)
  BY DEF Read
<1>2. PICK src : Traced(src, n, members, source)
  BY <1>1
<1>3. n = Len(source) /\ DOMAIN source = 1 .. n
  BY <1>1 DEF Behind, Read, Sequence
<1>4. PICK L, T : L = Lookup(members, name, {"function"}) /\ T = {src[m] : m \in L}
  OBVIOUS
<1>5. ASSUME NEW m \in L PROVE src[m] \in Named(FirstBit(name))
  <2>1. m \in DOMAIN members /\ DoxyFunction(members[m]) /\ members[m].name = FirstBit(name)
    BY <1>4 DEF Lookup, DoxyFunction
  <2>2. src[m] \in DOMAIN source /\ Arises(members[m], source[src[m]])
    BY <1>2, <1>3, <2>1 DEF Traced
  <2>3. ~DoxyFunction(source[src[m]])
    <3>1. source \in Directories
      BY <2>2 DEF Sourced
    <3>2. source[src[m]] \in ToSet(source)
      BY <2>2 DEF ToSet
    <3> QED
      BY <3>1, <3>2, DirectoriesAssumption DEF DoxyFunction
  <2> QED
    BY <2>1, <2>2, <2>3 DEF Arises, Named, Described, Firsts
<1>6. ASSUME NEW i \in Named(FirstBit(name)) PROVE i \in T
  <2>1. PICK f \in Firsts(i) : f.name = FirstBit(name)
    BY DEF Named
  <2>2. i \in 1 .. n /\ Arises(f, source[i]) /\ f.kind = "function"
    BY <1>3, <2>1 DEF Named, Described, Firsts, Arises, DoxyFunction
  <2>3. PICK m \in DOMAIN members : src[m] = i /\ members[m] = f
    BY <1>2, <2>2 DEF Traced
  <2> QED
    BY <1>4, <2>1, <2>2, <2>3 DEF Lookup
<1>7. T = Named(FirstBit(name))
  BY <1>4, <1>5, <1>6
<1> QED
  BY <1>2, <1>4, <1>7, LookupCounts

\* A file's name is found once for each header of it.
LEMMA FilesCounted ==
  ASSUME Sourced, Sequence(members), Read, xml = <<>>, NEW k, Sequence(k.name), ~Nested(k.name)
  PROVE  /\ Cardinality(Lookup(members, Append(k.name, ".h"), {"file"})) = Cardinality(HeadersOf(k))
         /\ Cardinality(HeadersOf(k)) \in Nat
<1>1. PICK n \in Nat : Behind(n) /\ \E src : Traced(src, n, members, source)
  BY DEF Read
<1>2. PICK src : Traced(src, n, members, source)
  BY <1>1
<1>3. n = Len(source) /\ DOMAIN source = 1 .. n
  BY <1>1 DEF Behind, Read, Sequence
<1>4. PICK name, L, T : /\ name = Append(k.name, ".h")
                       /\ L = Lookup(members, name, {"file"}) /\ T = {src[m] : m \in L}
  OBVIOUS
<1>5. FirstBit(name) = name
  BY <1>4, NestedHeader DEF FirstBit, Nested, ToSet
<1>6. ASSUME NEW i \in DOMAIN source, NEW x, Arises(x, source[i]), x.kind = "file"
      PROVE  x = source[i] /\ Spread(source[i])
  <2>1. source \in Directories /\ source[i] \in ToSet(source)
    BY OneSequence DEF Sourced, ToSet
  <2>2. \A f \in ToSet(source[i].contents) : f.kind # "file"
    BY <2>1, DirectoriesAssumption
  <2>3. x \notin FirstOnes(source[i].contents)
    BY <1>6, <2>2 DEF FirstOnes, FirstPlaces, ToSet
  <2> QED
    BY <1>6, <2>3 DEF Arises, Spread, DoxyFile
<1>7. ASSUME NEW m \in L PROVE src[m] \in HeadersOf(k)
  <2>1. m \in DOMAIN members /\ members[m].kind = "file" /\ members[m].name = name
    BY <1>4, <1>5 DEF Lookup
  <2>2. src[m] \in DOMAIN source /\ Arises(members[m], source[src[m]])
    BY <1>2, <1>3, <2>1 DEF Traced
  <2>3. members[m] = source[src[m]] /\ Spread(source[src[m]])
    BY <1>6, <2>1, <2>2
  <2> QED
    BY <1>4, <2>1, <2>2, <2>3 DEF HeadersOf, Described, DoxyFile
<1>8. ASSUME NEW i \in HeadersOf(k) PROVE i \in T
  <2>1. i \in 1 .. n /\ Spread(source[i]) /\ source[i].kind = "file" /\ source[i].name = name
    BY <1>3, <1>4 DEF HeadersOf, Described, DoxyFile
  <2>2. Arises(source[i], source[i])
    BY <2>1 DEF Arises, Spread
  <2>3. PICK m \in DOMAIN members : src[m] = i /\ members[m] = source[i]
    BY <1>2, <2>1, <2>2 DEF Traced
  <2> QED
    BY <1>4, <1>5, <2>1, <2>3 DEF Lookup
<1>9. T = HeadersOf(k)
  BY <1>4, <1>7, <1>8
<1> QED
  BY <1>2, <1>4, <1>9, LookupCounts

\* A class befriends a make function at most once: of the members of one name
\* the first stands for all.
LEMMA BefriendsCounted ==
  ASSUME NEW k, Sequence(k.name), Sequence(k.contents)
  PROVE  BefriendsMake(k) <=> ~Nested(k.name) /\ Befriends(k)
<1>1. PICK name, m : name = make_name(k.name) /\ m = process_memberdefs(k.contents)
  OBVIOUS
<1>2. PICK L : L = Lookup(m, name, {"friend"})
  OBVIOUS
<1>3. BefriendsMake(k) <=> Cardinality(L) = 1 /\ ~Nested(name)
  BY <1>1, <1>2 DEF BefriendsMake, MembersOf, has_member
<1>4. Nested(name) <=> Nested(k.name)
  BY <1>1, NestedMake
<1>5. /\ Sequence(m) /\ ToSet(m) = FirstOnes(k.contents)
      /\ \A q, r \in DOMAIN m : m[q].name = m[r].name => q = r
  BY <1>1, MembersOnce
<1>6. ASSUME ~Nested(name) PROVE Cardinality(L) = 1 <=> Befriends(k)
  <2>1. FirstBit(name) = name
    BY <1>6 DEF Nested, FirstBit, ToSet
  <2>2. L = {q \in DOMAIN m : m[q].kind = "friend" /\ m[q].name = name}
    BY <1>2, <2>1 DEF Lookup
  <2>3. Befriends(k) <=> L # {}
    <3>1. Befriends(k) <=> \E f \in ToSet(m) : f.kind = "friend" /\ f.name = name
      BY <1>1, <1>5 DEF Befriends, DoxyFriend
    <3> QED
      BY <2>2, <3>1 DEF ToSet
  <2>4. \A q, r \in L : q = r
    BY <1>5, <2>2
  <2>5. CASE L = {}
    BY <2>3, <2>5, FS_EmptySet
  <2>6. CASE L # {}
    <3>1. PICK q : L = {q}
      BY <2>4, <2>6
    <3>2. Cardinality(L) = 1
      BY <3>1, FS_Singleton
    <3> QED
      BY <2>3, <2>6, <3>2
  <2> QED
    BY <2>5, <2>6
<1> QED
  BY <1>3, <1>4, <1>6

\* The classes of the index are those of the XML.
LEMMA ClassesFrom ==
  ASSUME Sourced, NEW n, n = Len(source), Sequence(source), NEW src, Traced(src, n, members, source)
  PROVE  /\ \A m \in DOMAIN members : DoxyClass(members[m]) =>
              src[m] \in DOMAIN source /\ members[m] = source[src[m]]
         /\ \A i \in DOMAIN source : DoxyClass(source[i]) =>
              \E m \in DOMAIN members : src[m] = i /\ members[m] = source[i]
<1>1. DOMAIN source = 1 .. n
  BY DEF Sequence
<1>2. ASSUME NEW m \in DOMAIN members, DoxyClass(members[m])
      PROVE  src[m] \in DOMAIN source /\ members[m] = source[src[m]]
  <2>1. PICK i \in DOMAIN source : src[m] = i /\ Arises(members[m], source[i])
    BY <1>1 DEF Traced
  <2>2. source \in Directories /\ source[i] \in ToSet(source)
    BY OneSequence DEF Sourced, ToSet
  <2>3. \A f \in ToSet(source[i].contents) : f.kind # "class"
    BY <2>2, DirectoriesAssumption
  <2>4. members[m] \notin FirstOnes(source[i].contents)
    BY <1>2, <2>3 DEF FirstOnes, FirstPlaces, ToSet, DoxyClass
  <2> QED
    BY <2>1, <2>4 DEF Arises
<1>3. ASSUME NEW i \in DOMAIN source, DoxyClass(source[i])
      PROVE  \E m \in DOMAIN members : src[m] = i /\ members[m] = source[i]
  <2>1. Arises(source[i], source[i])
    BY <1>3 DEF Arises, DoxyFile, DoxyClass
  <2> QED
    BY <1>1, <2>1 DEF Traced
<1> QED
  BY <1>2, <1>3

\* What get_docstrings_dict finds out about a class, said of the XML.
LEMMA ClassFinds ==
  ASSUME Sourced, Sequence(members), Read, xml = <<>>, NEW k \in ToSet(source), DoxyClass(k),
         NEW name, name = make_name(k.name), NEW makes, makes = Named(FirstBit(name))
  PROVE  /\ has_member(members, name, {"function"}) <=> Cardinality(makes) = 1 /\ ~Nested(k.name)
         /\ Duplicate(members, name, {"function"}) <=> Cardinality(makes) > 1
         /\ BefriendsMake(k) <=> ~Nested(k.name) /\ Befriends(k)
         /\ Cardinality(makes) \in Nat /\ (Cardinality(makes) = 0 <=> makes = {})
         /\ ~Nested(k.name) => (Duplicate(members, Append(k.name, ".h"), {"file"})
                                  <=> Cardinality(HeadersOf(k)) > 1)
<1>1. Sequence(k.name) /\ Sequence(k.contents)
  BY OneSequence, DirectoriesAssumption DEF Sourced
<1>2. Cardinality(Lookup(members, name, {"function"})) = Cardinality(makes)
      /\ Cardinality(makes) \in Nat /\ IsFiniteSet(makes)
  BY FunctionsCounted
<1>3. Nested(name) <=> Nested(k.name)
  BY <1>1, NestedMake
<1>4. Cardinality(makes) = 0 <=> makes = {}
  BY <1>2, FS_EmptySet
<1>5. ASSUME ~Nested(k.name)
      PROVE  Cardinality(Lookup(members, Append(k.name, ".h"), {"file"})) = Cardinality(HeadersOf(k))
  BY <1>1, <1>5, FilesCounted
<1> QED
  BY <1>1, <1>2, <1>3, <1>4, <1>5, BefriendsCounted DEF has_member, Duplicate

\* A compound that cannot be read, and what scraping ends for.
Unread(c) == Breaks(c) \/ (DoxyClass(c) /\ c.file = "missing")
Fatal == \E i \in DOMAIN source : Unread(source[i]) \/ Troubled(i)

\* What the property speaks of.
LEMMA FatalIs ==
  ScrapeRaisesOnlyFor <=> /\ phase = "raised" => Fatal
                          /\ phase \in {"blocks2", "functions", "classes", "sub"} => ~Fatal
<1>1. \A c : Unread(c) <=> \/ ~Known(c)
                           \/ c.kind = "namespace" /\ c.file # "ok"
                           \/ c.kind = "file" /\ Last(c.name) = ".h" /\ c.file # "ok"
                           \/ c.kind = "class" /\ c.file = "missing"
  BY DEF Unread, Breaks, Spread, Header, DoxyFile, DoxyClass
<1>2. Fatal <=> \E i \in DOMAIN source :
                   \/ ~Known(source[i]) \/ Troubled(i)
                   \/ source[i].kind = "namespace" /\ source[i].file # "ok"
                   \/ source[i].kind = "file" /\ Last(source[i].name) = ".h" /\ source[i].file # "ok"
                   \/ source[i].kind = "class" /\ source[i].file = "missing"
  BY <1>1 DEF Fatal
<1> QED
  BY <1>2 DEF ScrapeRaisesOnlyFor

\* What the first stage of get_docstrings_dict goes through.
Blocks == Kept(members, {m \in DOMAIN members : Block(members[m])})

\* The blocks still to be described are those behind the first p of the list.
\* Those were described with their make functions, and the first of each make
\* function looked its header up.
BlocksBehind(list, p, items, left, made) ==
    /\ p + Len(left) = Len(list)
    /\ \A j \in 1 .. Len(left) : left[j] = list[p + j]
    /\ made = {make_name(list[r].name) : r \in 1 .. p}
    /\ \A r \in 1 .. p : has_member(items, make_name(list[r].name), {"function"})
    /\ \A r \in 1 .. p :
         (\A q \in 1 .. r - 1 : make_name(list[q].name) # make_name(list[r].name))
           => ~Duplicate(items, Append(list[r].name, ".h"), {"file"})

\* Scraping has ended for such a compound, or cannot any more.
Judged ==
    /\ phase = "raised" => Fatal
    /\ phase \in {"blocks2", "functions", "classes", "sub"} => ~Fatal
    /\ phase = "index" => make_funcs = {}
    /\ phase = "blocks" =>
         /\ \A k \in ToSet(members) : ~BlockRaises(k)
         /\ \E p \in Nat : BlocksBehind(Blocks, p, members, todo, make_funcs)

\* Nothing has been judged.
LEMMA JudgedInitially ==
  ASSUME Init
  PROVE  Judged
  BY DEF Init, Judged

\* What is said of the source stays true of it.
LEMMA FatalStays ==
  ASSUME UNCHANGED source
  PROVE  Fatal' <=> Fatal
<1>1. Described' = Described
  BY DEF Described
<1>2. \A i : Firsts(i)' = Firsts(i)
  BY DEF Firsts
<1>3. \A name : Named(name)' = Named(name)
  BY <1>1, <1>2 DEF Named
<1>4. \A k : HeadersOf(k)' = HeadersOf(k)
  BY <1>1 DEF HeadersOf
<1>5. \A i : Troubled(i)' <=> Troubled(i)
  BY <1>3, <1>4 DEF Troubled
<1> QED
  BY <1>5 DEF Fatal

\* So does what is said of the blocks.
LEMMA BlocksStay ==
  ASSUME UNCHANGED members
  PROVE  Blocks' = Blocks /\ \A k : BlockRaises(k)' <=> BlockRaises(k)
<1>1. \A k : Block(k)' <=> Block(k)
  BY DEF Block, BefriendsMake, MembersOf
<1> QED
  BY <1>1 DEF Blocks, BlockRaises, BefriendsMake, MembersOf

\* What the list of blocks is, with the places its elements are from.
LEMMA BlocksPlaced ==
  ASSUME Sequence(members), NEW list, list = Blocks
  PROVE  /\ Sequence(list)
         /\ \E place : /\ place \in [DOMAIN list -> DOMAIN members]
                       /\ \A r \in DOMAIN list : list[r] = members[place[r]] /\ Block(list[r])
                       /\ \A q, r \in DOMAIN list : q < r => place[q] < place[r]
                       /\ \A m \in DOMAIN members :
                            Block(members[m]) => \E r \in DOMAIN list : place[r] = m
<1>1. PICK places : places = {m \in DOMAIN members : Block(members[m])}
  OBVIOUS
<1>2. list = Kept(members, places)
  BY <1>1 DEF Blocks
<1>3. Sequence(list) /\ \E place : PickedOut(list, members, places, place)
  BY <1>2, KeptPlaces
<1>4. PICK place : PickedOut(list, members, places, place)
  BY <1>3
<1>5. \A r \in DOMAIN list : list[r] = members[place[r]] /\ Block(list[r])
  BY <1>1, <1>4 DEF PickedOut
<1>6. \A m \in DOMAIN members : Block(members[m]) => \E r \in DOMAIN list : place[r] = m
  BY <1>1, <1>4 DEF PickedOut
<1> QED
  BY <1>3, <1>4, <1>5, <1>6 DEF PickedOut

\* A class that cannot be read, or whose make function is there twice, is one
\* of those the property names.
LEMMA RaisingIsFatal ==
  ASSUME Sourced, Sequence(members), Read, xml = <<>>, NEW k \in ToSet(members), BlockRaises(k)
  PROVE  Fatal
<1>1. DoxyClass(k)
  BY DEF BlockRaises
<1>2. k \in ToSet(source)
  BY <1>1, IndexedAre DEF Sourced, SourceClasses
<1>3. PICK i \in DOMAIN source : k = source[i]
  BY <1>2 DEF ToSet
<1>4. PICK name, makes : name = make_name(k.name) /\ makes = Named(FirstBit(name))
  OBVIOUS
<1>5. CASE k.file = "missing"
  BY <1>1, <1>3, <1>5 DEF Fatal, Unread
<1>6. CASE k.file = "ok" /\ Duplicate(members, name, {"function"})
  <2>1. Cardinality(makes) > 1
    BY <1>1, <1>2, <1>4, <1>6, ClassFinds
  <2>2. Troubled(i)
    BY <1>1, <1>3, <1>4, <1>6, <2>1 DEF Troubled
  <2> QED
    BY <2>2 DEF Fatal
<1> QED
  BY <1>4, <1>5, <1>6 DEF BlockRaises

\* A block without its make function, or the first of one whose header is
\* there twice, is one of those the property names.
LEMMA EntryRaisingIsFatal ==
  ASSUME Sourced, Sequence(members), Sequence(todo), Read, xml = <<>>, todo # <<>>,
         NEW p \in Nat, BlocksBehind(Blocks, p, members, todo, make_funcs),
         BlockEntryRaises(Head(todo))
  PROVE  Fatal
<1>1. PICK list : list = Blocks
  OBVIOUS
<1>2. Sequence(list)
  BY <1>1, BlocksPlaced
<1>3. PICK place : /\ place \in [DOMAIN list -> DOMAIN members]
                   /\ \A r \in DOMAIN list : list[r] = members[place[r]] /\ Block(list[r])
                   /\ \A q, r \in DOMAIN list : q < r => place[q] < place[r]
                   /\ \A m \in DOMAIN members :
                        Block(members[m]) => \E r \in DOMAIN list : place[r] = m
  BY <1>1, BlocksPlaced
<1>4. PICK u \in Nat, l \in Nat : u = Len(todo) /\ l = Len(list) /\ DOMAIN list = 1 .. l
  BY <1>2 DEF Sequence
<1>5. PICK c : c = p + 1
  OBVIOUS
<1>6. PICK k : k = Head(todo)
  OBVIOUS
<1>7. c \in 1 .. l /\ k = list[c]
  <2>1. p + u = l /\ \A j \in 1 .. u : todo[j] = list[p + j]
    BY <1>1, <1>4 DEF BlocksBehind
  <2>2. u # 0 /\ k = todo[1]
    BY <1>4, <1>6 DEF Sequence
  <2>3. 1 \in 1 .. u
    BY <2>2
  <2> QED
    BY <1>5, <2>1, <2>2, <2>3
<1>8. PICK n \in Nat : Behind(n) /\ \E src : Traced(src, n, members, source)
  BY DEF Read
<1>9. PICK src : Traced(src, n, members, source)
  BY <1>8
<1>10. n = Len(source) /\ Sequence(source)
  BY <1>8 DEF Behind, Read
<1>11. PICK m : m = place[c] /\ m \in DOMAIN members /\ k = members[m] /\ Block(k)
  BY <1>3, <1>4, <1>7
<1>12. PICK i : i = src[m] /\ i \in DOMAIN source /\ k = source[i]
  BY <1>9, <1>10, <1>11, ClassesFrom DEF Block
<1>13. k \in ToSet(source) /\ DoxyClass(k) /\ k.file = "ok"
  BY <1>11, <1>12 DEF Block, ToSet
<1>14. PICK name, makes : name = make_name(k.name) /\ makes = Named(FirstBit(name))
  OBVIOUS
<1>15. /\ has_member(members, name, {"function"}) <=> Cardinality(makes) = 1 /\ ~Nested(k.name)
       /\ BefriendsMake(k) <=> ~Nested(k.name) /\ Befriends(k)
       /\ Cardinality(makes) \in Nat /\ (Cardinality(makes) = 0 <=> makes = {})
       /\ ~Nested(k.name) => (Duplicate(members, Append(k.name, ".h"), {"file"})
                                <=> Cardinality(HeadersOf(k)) > 1)
  BY <1>13, <1>14, ClassFinds
<1>16. CASE ~has_member(members, name, {"function"})
  <2>1. ~Nested(k.name) /\ Befriends(k)
    BY <1>11, <1>14, <1>15, <1>16 DEF Block
  <2>2. Cardinality(makes) > 1 \/ Cardinality(makes) = 0
    BY <1>15, <1>16, <2>1
  <2>3. Troubled(i)
    BY <1>12, <1>13, <1>14, <1>15, <2>1, <2>2 DEF Troubled
  <2> QED
    BY <1>12, <2>3 DEF Fatal
<1>17. CASE has_member(members, name, {"function"})
  <2>1. get_member(members, name, {"function"}).name = name
    BY <1>17, LookedUp
  <2>2. name \notin make_funcs /\ Duplicate(members, Append(k.name, ".h"), {"file"})
    BY <1>6, <1>14, <1>17, <2>1 DEF BlockEntryRaises
  <2>3. ASSUME NEW j \in DOMAIN source, j < i, DoxyClass(source[j]), source[j].file = "ok"
        PROVE  make_name(source[j].name) # name
    <3>1. SUFFICES ASSUME make_name(source[j].name) = name PROVE FALSE
      OBVIOUS
    <3>2. PICK a \in DOMAIN members : src[a] = j /\ members[a] = source[j]
      BY <1>9, <1>10, <2>3, ClassesFrom
    <3>3. Block(members[a])
      BY <1>17, <2>3, <3>1, <3>2 DEF Block
    <3>4. PICK q \in DOMAIN list : place[q] = a
      BY <1>3, <3>3
    <3>5. a < m
      <4>1. PICK v \in Nat : DOMAIN members = 1 .. v
        BY DEF Sequence
      <4>2. m < a => i <= j
        BY <1>9, <1>11, <1>12, <3>2 DEF Traced
      <4>3. m # a
        BY <1>12, <2>3, <3>2, <1>10 DEF Sequence
      <4>4. i \in Nat /\ j \in Nat
        BY <1>10, <1>12 DEF Sequence
      <4> QED
        BY <1>11, <2>3, <4>1, <4>2, <4>3, <4>4
    <3>6. q < c
      <4>1. q \in Nat /\ c \in Nat
        BY <1>4, <1>5
      <4>2. c < q => m < a
        BY <1>3, <1>4, <1>7, <1>11, <3>4
      <4>3. c # q
        <5>1. a \in Nat /\ m \in Nat
          BY <1>11 DEF Sequence
        <5> QED
          BY <1>11, <3>4, <3>5, <5>1
      <4>4. a \in Nat /\ m \in Nat
        BY <1>11 DEF Sequence
      <4> QED
        BY <3>5, <4>1, <4>2, <4>3, <4>4
    <3>7. q \in 1 .. p
      BY <1>4, <1>5, <3>6
    <3>8. list[q].name = source[j].name
      BY <1>3, <3>2, <3>4
    <3>9. name \in make_funcs
      BY <1>1, <3>1, <3>7, <3>8 DEF BlocksBehind
    <3> QED
      BY <2>2, <3>9
  <2>4. \A j \in 1 .. i - 1 : j \in DOMAIN source /\ j < i
    BY <1>10, <1>12 DEF Sequence
  <2>5. makes # {} /\ ~Nested(k.name) /\ Cardinality(HeadersOf(k)) > 1
    BY <1>15, <1>17, <2>2
  <2>6. Troubled(i)
    BY <1>12, <1>13, <1>14, <2>3, <2>4, <2>5 DEF Troubled
  <2> QED
    BY <1>12, <2>6 DEF Fatal
<1> QED
  BY <1>16, <1>17

\* Described whole, the blocks leave nothing that the property names.
LEMMA DoneIsNotFatal ==
  ASSUME Sourced, Sequence(members), Read, xml = <<>>, todo = <<>>,
         \A k \in ToSet(members) : ~BlockRaises(k),
         NEW p \in Nat, BlocksBehind(Blocks, p, members, todo, make_funcs)
  PROVE  ~Fatal
<1>1. PICK list : list = Blocks
  OBVIOUS
<1>2. Sequence(list)
  BY <1>1, BlocksPlaced
<1>3. PICK place : /\ place \in [DOMAIN list -> DOMAIN members]
                   /\ \A r \in DOMAIN list : list[r] = members[place[r]] /\ Block(list[r])
                   /\ \A q, r \in DOMAIN list : q < r => place[q] < place[r]
                   /\ \A m \in DOMAIN members :
                        Block(members[m]) => \E r \in DOMAIN list : place[r] = m
  BY <1>1, BlocksPlaced
<1>4. DOMAIN list = 1 .. p
  <2>1. p + 0 = Len(list)
    BY <1>1 DEF BlocksBehind
  <2> QED
    BY <1>2, <2>1 DEF Sequence
<1>5. /\ \A r \in 1 .. p : has_member(members, make_name(list[r].name), {"function"})
      /\ \A r \in 1 .. p :
           (\A q \in 1 .. r - 1 : make_name(list[q].name) # make_name(list[r].name))
             => ~Duplicate(members, Append(list[r].name, ".h"), {"file"})
  BY <1>1 DEF BlocksBehind
<1>6. PICK n \in Nat : Behind(n) /\ \E src : Traced(src, n, members, source)
  BY DEF Read
<1>7. PICK src : Traced(src, n, members, source)
  BY <1>6
<1>8. n = Len(source) /\ Sequence(source) /\ DOMAIN source = 1 .. n
  BY <1>6 DEF Behind, Read, Sequence
<1>9. ASSUME NEW i \in DOMAIN source PROVE ~Unread(source[i])
  <2>1. ~Breaks(source[i])
    BY <1>6, <1>8 DEF Behind
  <2>2. ~(DoxyClass(source[i]) /\ source[i].file = "missing")
    <3>1. SUFFICES ASSUME DoxyClass(source[i]), source[i].file = "missing" PROVE FALSE
      OBVIOUS
    <3>2. PICK m \in DOMAIN members : members[m] = source[i]
      BY <1>7, <1>8, <3>1, ClassesFrom
    <3>3. members[m] \in ToSet(members)
      BY DEF ToSet
    <3> QED
      BY <3>1, <3>2, <3>3 DEF BlockRaises
  <2> QED
    BY <2>1, <2>2 DEF Unread
<1>10. ASSUME NEW i \in DOMAIN source PROVE ~Troubled(i)
  <2>1. SUFFICES ASSUME Troubled(i) PROVE FALSE
    OBVIOUS
  <2>2. PICK k : k = source[i]
    OBVIOUS
  <2>3. PICK name, makes : name = make_name(k.name) /\ makes = Named(FirstBit(name))
    OBVIOUS
  <2>4. /\ DoxyClass(k) /\ k.file = "ok"
        /\ \/ Cardinality(makes) > 1
           \/ ~Nested(k.name) /\ makes = {} /\ Befriends(k)
           \/ /\ ~Nested(k.name) /\ makes # {} /\ Cardinality(HeadersOf(k)) > 1
              /\ \A j \in 1 .. i - 1 : DoxyClass(source[j]) /\ source[j].file = "ok" =>
                   make_name(source[j].name) # name
    BY <2>1, <2>2, <2>3 DEF Troubled
  <2>5. k \in ToSet(source)
    BY <2>2 DEF ToSet
  <2>6. /\ has_member(members, name, {"function"}) <=> Cardinality(makes) = 1 /\ ~Nested(k.name)
        /\ Duplicate(members, name, {"function"}) <=> Cardinality(makes) > 1
        /\ BefriendsMake(k) <=> ~Nested(k.name) /\ Befriends(k)
        /\ Cardinality(makes) \in Nat /\ (Cardinality(makes) = 0 <=> makes = {})
        /\ ~Nested(k.name) => (Duplicate(members, Append(k.name, ".h"), {"file"})
                                 <=> Cardinality(HeadersOf(k)) > 1)
    BY <2>3, <2>4, <2>5, ClassFinds
  <2>7. PICK m \in DOMAIN members : src[m] = i /\ members[m] = k
    BY <1>7, <1>8, <2>2, <2>4, ClassesFrom
  <2>8. ~BlockRaises(k)
    BY <2>7 DEF ToSet
  <2>9. Block(k) => \E r \in 1 .. p : place[r] = m /\ list[r] = k
    BY <1>3, <1>4, <2>7
  <2>10. Block(k) => Cardinality(makes) = 1
    BY <1>5, <2>3, <2>6, <2>9
  <2>11. ~(Cardinality(makes) > 1)
    <3>1. SUFFICES ASSUME Cardinality(makes) > 1 PROVE FALSE
      OBVIOUS
    <3>2. BefriendsMake(k)
      BY <2>3, <2>4, <2>6, <2>8, <3>1 DEF BlockRaises
    <3>3. Block(k)
      BY <2>4, <3>2 DEF Block
    <3> QED
      BY <2>10, <3>1, <3>3
  <2>12. ~(~Nested(k.name) /\ makes = {} /\ Befriends(k))
    BY <2>4, <2>6, <2>10 DEF Block
  <2>13. /\ ~Nested(k.name) /\ makes # {} /\ Cardinality(HeadersOf(k)) > 1
         /\ \A j \in 1 .. i - 1 : DoxyClass(source[j]) /\ source[j].file = "ok" =>
              make_name(source[j].name) # name
    BY <2>4, <2>11, <2>12
  <2>14. has_member(members, name, {"function"})
    BY <2>6, <2>11, <2>13
  <2>15. PICK r \in 1 .. p : place[r] = m /\ list[r] = k
    BY <2>3, <2>4, <2>9, <2>14 DEF Block
  <2>16. PICK q \in 1 .. r - 1 : make_name(list[q].name) = name
    BY <1>5, <2>3, <2>6, <2>13, <2>15
  <2>17. PICK a : a = place[q] /\ a \in DOMAIN members /\ list[q] = members[a]
                  /\ Block(list[q]) /\ a < m
    <3>1. q \in DOMAIN list /\ r \in DOMAIN list /\ q < r
      BY <1>4
    <3> QED
      BY <1>3, <2>15, <3>1
  <2>18. PICK j : j = src[a] /\ j \in DOMAIN source /\ members[a] = source[j] /\ j <= i
    <3>1. DoxyClass(members[a])
      BY <2>17 DEF Block
    <3>2. src[a] <= src[m]
      BY <1>7, <2>7, <2>17 DEF Traced
    <3> QED
      BY <1>7, <1>8, <2>7, <2>17, <3>1, <3>2, ClassesFrom
  <2>19. j # i
    <3>1. SUFFICES ASSUME j = i PROVE FALSE
      OBVIOUS
    <3>2. Alike(members[a], members[m])
      BY <2>2, <2>4, <2>7, <2>18, <3>1 DEF Alike, DoxyClass
    <3>3. a = m
      BY <1>7, <2>7, <2>17, <2>18, <3>1, <3>2 DEF Traced
    <3>4. m \in Nat
      BY DEF Sequence
    <3> QED
      BY <2>17, <3>3, <3>4
  <2>20. j \in 1 .. i - 1
    BY <1>8, <2>18, <2>19
  <2> QED
    BY <2>13, <2>16, <2>17, <2>18, <2>20 DEF Block
<1> QED
  BY <1>9, <1>10 DEF Fatal

\* One more block is described.
LEMMA BehindOneMore ==
  ASSUME Sequence(members), Sequence(todo), todo # <<>>,
         NEW p \in Nat, NEW list, BlocksBehind(list, p, members, todo, make_funcs),
         DescribeBlock
  PROVE  BlocksBehind(list, p + 1, members, todo', make_funcs')
<1>1. PICK k : k = Head(todo)
  OBVIOUS
<1>2. PICK name : name = make_name(k.name)
  OBVIOUS
<1>3. PICK c : c = p + 1
  OBVIOUS
<1>4. PICK made : made = make_funcs
  OBVIOUS
<1>5. /\ ~BlockEntryRaises(k) /\ todo' = Tail(todo)
      /\ make_funcs' = made \cup {get_member(members, name, {"function"}).name}
  BY <1>1, <1>2, <1>4 DEF DescribeBlock
<1>6. has_member(members, name, {"function"})
  BY <1>2, <1>5 DEF BlockEntryRaises
<1>7. get_member(members, name, {"function"}).name = name
  BY <1>6, LookedUp
<1>8. name \in made \/ ~Duplicate(members, Append(k.name, ".h"), {"file"})
  BY <1>2, <1>4, <1>5, <1>6, <1>7 DEF BlockEntryRaises
<1>9. /\ p + Len(todo) = Len(list)
      /\ \A j \in 1 .. Len(todo) : todo[j] = list[p + j]
      /\ made = {make_name(list[r].name) : r \in 1 .. p}
      /\ \A r \in 1 .. p : has_member(members, make_name(list[r].name), {"function"})
      /\ \A r \in 1 .. p :
           (\A q \in 1 .. r - 1 : make_name(list[q].name) # make_name(list[r].name))
             => ~Duplicate(members, Append(list[r].name, ".h"), {"file"})
  BY <1>4 DEF BlocksBehind
<1>10. PICK l \in Nat : l = Len(todo) /\ l # 0
  BY DEF Sequence
<1>11. PICK t : t = Tail(todo)
  OBVIOUS
<1>12. Len(t) = l - 1 /\ (\A j \in 1 .. l - 1 : t[j] = todo[j + 1]) /\ k = todo[1]
  BY <1>1, <1>10, <1>11 DEF Sequence
<1>13. k = list[c]
  <2>1. 1 \in 1 .. l
    BY <1>10
  <2> QED
    BY <1>3, <1>9, <1>10, <1>12, <2>1
<1>14. c + Len(t) = Len(list)
  <2>1. PICK v : v = Len(list)
    OBVIOUS
  <2>2. p + l = v
    BY <1>9, <1>10, <2>1
  <2>3. c + (l - 1) = v
    BY <1>3, <1>10, <2>2
  <2> QED
    BY <1>12, <2>1, <2>3
<1>15. ASSUME NEW j \in 1 .. l - 1 PROVE t[j] = list[c + j]
  <2>1. j + 1 \in 1 .. l /\ p + (j + 1) = c + j
    BY <1>3, <1>10
  <2>2. todo[j + 1] = list[p + (j + 1)]
    BY <1>9, <1>10, <2>1
  <2> QED
    BY <1>12, <2>1, <2>2
<1>16. (\A r \in 1 .. c : r = c \/ r \in 1 .. p) /\ c \in 1 .. c /\ (\A r \in 1 .. p : r \in 1 .. c)
       /\ c - 1 = p
  BY <1>3
<1>17. make_funcs' = {make_name(list[r].name) : r \in 1 .. c}
  BY <1>2, <1>5, <1>7, <1>9, <1>13, <1>16
<1>18. \A r \in 1 .. c : has_member(members, make_name(list[r].name), {"function"})
  BY <1>2, <1>6, <1>9, <1>13, <1>16
<1>19. ASSUME NEW r \in 1 .. c,
              \A q \in 1 .. r - 1 : make_name(list[q].name) # make_name(list[r].name)
       PROVE  ~Duplicate(members, Append(list[r].name, ".h"), {"file"})
  <2>1. CASE r \in 1 .. p
    BY <1>9, <1>19, <2>1
  <2>2. CASE r = c
    <3>1. name \notin made
      BY <1>2, <1>9, <1>13, <1>16, <1>19, <2>2
    <3> QED
      BY <1>8, <1>13, <2>2, <3>1
  <2> QED
    BY <1>16, <2>1, <2>2
<1>20. BlocksBehind(list, c, members, t, make_funcs')
  BY <1>12, <1>14, <1>15, <1>17, <1>18, <1>19 DEF BlocksBehind
<1> QED
  BY <1>3, <1>5, <1>11, <1>20

\* Every step keeps to the verdict.
LEMMA StepJudged ==
  ASSUME Sequences, Sourced, Read, Judged, Next
  PROVE  Judged'
<1>1. UNCHANGED source /\ (Fatal' <=> Fatal)
  <2>1. UNCHANGED source
    BY DEF Next, FindBlocks, FindBlocksRaises, NextStage, DescribeBlock, DescribeBlockRaises,
           DescribeBlock2, DescribeFunction, DescribeClass, WriteJson, ReadTemplate, Sub,
           WriteHeader, CopyTemplate, CopyDone
  <2> QED
    BY <2>1, FatalStays
<1>2. Sequence(members) /\ Sequence(todo) /\ Sequence(xml)
  BY DEF Sequences
<1>3. CASE ReadCompound /\ UNCHANGED <<todo, make_funcs, output, subVars, source>>
  BY <1>3 DEF ReadCompound, Judged
<1>4. CASE ReadCompoundRaises /\ UNCHANGED <<todo, make_funcs, output, subVars, source>>
  <2>1. xml # <<>> /\ Breaks(Head(xml)) /\ phase' = "raised"
    BY <1>4 DEF ReadCompoundRaises
  <2>2. Head(xml) \in ToSet(source)
    BY <1>2, <2>1, TailSequence DEF Sourced
  <2>3. Fatal
    BY <2>1, <2>2 DEF Fatal, Unread, ToSet
  <2> QED
    BY <1>1, <2>1, <2>3 DEF Judged
<1>5. CASE FindBlocks
  <2>1. /\ phase = "index" /\ phase' = "blocks" /\ UNCHANGED <<members, make_funcs>>
        /\ \A k \in ToSet(members) : ~BlockRaises(k)
    BY <1>5 DEF FindBlocks
  <2>2. todo' = Blocks
    BY <1>5 DEF FindBlocks, Blocks
  <2>3. Blocks' = Blocks /\ \A k : BlockRaises(k)' <=> BlockRaises(k)
    BY <2>1, BlocksStay
  <2>4. BlocksBehind(Blocks, 0, members, todo', {})
    <3>1. PICK list : list = Blocks
      OBVIOUS
    <3>2. PICK l \in Nat : l = Len(list)
      BY <1>2, <3>1, BlocksPlaced DEF Sequence
    <3>3. 0 + l = l /\ (\A j \in 1 .. l : 0 + j = j) /\ 1 .. 0 = {}
      OBVIOUS
    <3>4. BlocksBehind(list, 0, members, list, {})
      BY <3>2, <3>3 DEF BlocksBehind
    <3> QED
      BY <2>2, <3>1, <3>4
  <2>5. make_funcs' = {}
    BY <2>1 DEF Judged
  <2>6. \E p \in Nat : BlocksBehind(Blocks', p, members', todo', make_funcs')
    BY <2>1, <2>3, <2>4, <2>5
  <2> QED
    BY <2>1, <2>3, <2>6 DEF Judged
<1>6. CASE FindBlocksRaises
  <2>1. xml = <<>> /\ phase' = "raised" /\ \E k \in ToSet(members) : BlockRaises(k)
    BY <1>6 DEF FindBlocksRaises
  <2>2. Fatal
    BY <1>2, <2>1, RaisingIsFatal
  <2> QED
    BY <1>1, <2>1, <2>2 DEF Judged
<1>7. CASE NextStage
  <2>1. CASE phase = "blocks"
    <3>1. phase' = "blocks2" /\ todo = <<>> /\ xml = <<>>
      BY <1>7, <2>1 DEF NextStage, Read, Scraping
    <3>2. ~Fatal
      BY <1>2, <2>1, <3>1, DoneIsNotFatal DEF Judged
    <3> QED
      BY <1>1, <3>1, <3>2 DEF Judged
  <2>2. CASE phase \in {"blocks2", "functions"}
    BY <1>1, <1>7, <2>2 DEF NextStage, Judged
  <2> QED
    BY <1>7, <2>1, <2>2 DEF NextStage
<1>8. CASE DescribeBlock
  <2>1. /\ phase = "blocks" /\ phase' = phase /\ todo # <<>> /\ UNCHANGED members
    BY <1>8 DEF DescribeBlock
  <2>2. Blocks' = Blocks /\ \A k : BlockRaises(k)' <=> BlockRaises(k)
    BY <2>1, BlocksStay
  <2>3. PICK p \in Nat : BlocksBehind(Blocks, p, members, todo, make_funcs)
    BY <2>1 DEF Judged
  <2>4. PICK list : list = Blocks
    OBVIOUS
  <2>5. BlocksBehind(list, p + 1, members, todo', make_funcs')
    BY <1>2, <1>8, <2>1, <2>3, <2>4, BehindOneMore
  <2>6. p + 1 \in Nat /\ BlocksBehind(Blocks', p + 1, members', todo', make_funcs')
    BY <2>1, <2>2, <2>4, <2>5
  <2>7. \A k \in ToSet(members)' : ~BlockRaises(k)'
    BY <2>1, <2>2 DEF Judged
  <2> QED
    BY <2>1, <2>6, <2>7 DEF Judged
<1>9. CASE DescribeBlockRaises
  <2>1. phase = "blocks" /\ phase' = "raised" /\ todo # <<>> /\ BlockEntryRaises(Head(todo))
    BY <1>9 DEF DescribeBlockRaises
  <2>2. xml = <<>>
    BY <2>1 DEF Read, Scraping
  <2>3. PICK p \in Nat : BlocksBehind(Blocks, p, members, todo, make_funcs)
    BY <2>1 DEF Judged
  <2>4. Fatal
    BY <1>2, <2>1, <2>2, <2>3, EntryRaisingIsFatal
  <2> QED
    BY <1>1, <2>1, <2>4 DEF Judged
<1>10. ASSUME phase \in {"blocks2", "functions", "classes", "sub"},
              phase' \in {"blocks2", "functions", "classes", "sub"}
       PROVE  Judged'
  BY <1>1, <1>10 DEF Judged
<1>11. ASSUME phase' \notin {"raised", "blocks2", "functions", "classes", "sub", "index", "blocks"}
       PROVE  Judged'
  BY <1>11 DEF Judged
<1>12. CASE DescribeBlock2 \/ DescribeFunction \/ DescribeClass \/ WriteJson \/ ReadTemplate \/ Sub
            \/ WriteHeader
  BY <1>10, <1>12 DEF DescribeBlock2, DescribeFunction, DescribeClass, WriteJson, ReadTemplate, Sub,
                      WriteHeader
<1>13. CASE CopyTemplate \/ CopyDone
  BY <1>11, <1>13 DEF CopyTemplate, CopyDone
<1> QED
  BY <1>3, <1>4, <1>5, <1>6, <1>7, <1>8, <1>9, <1>12, <1>13 DEF Next

\* Scraping fails for what the property names, and for nothing else.
THEOREM FailsExactlyFor == Spec => []ScrapeRaisesOnlyFor
<1>1. Sequences /\ Sourced /\ Read /\ Judged /\ [Next]_vars => Judged'
  <2> SUFFICES ASSUME Judged, UNCHANGED vars PROVE Judged'
    BY StepJudged
  <2>1. UNCHANGED <<members, phase, source, todo, make_funcs>>
    BY DEF vars, scrapeVars
  <2>2. Fatal' <=> Fatal
    BY <2>1, FatalStays
  <2>3. Blocks' = Blocks /\ \A k : BlockRaises(k)' <=> BlockRaises(k)
    BY <2>1, BlocksStay
  <2> QED
    BY <2>1, <2>2, <2>3 DEF Judged
<1>2. Init => Judged
  BY JudgedInitially
<1>3. Judged => ScrapeRaisesOnlyFor
  BY FatalIs DEF Judged
<1>4. IInv /\ OInv => Sequences /\ Sourced
  BY DEF IInv, OInv
<1> QED
  BY <1>1, <1>2, <1>3, <1>4, Invariance, OriginsKept, ReadsKept, PTL DEF Spec

-----------------------------------------------------------------------------
(* What the dictionary says of a function.  *)

\* The values a dictionary has for a key, and that it has no two for any.
Values(dict, key) == {e[2] : e \in {x \in ToSet(dict) : x[1] = key}}
Single(dict) == \A e, x \in ToSet(dict) : e[1] = x[1] => e[2] = x[2]

KeyPlaces(entries, key) == {i \in DOMAIN entries : entries[i][1] = key}
LastValue(entries, key) ==
    IF KeyPlaces(entries, key) = {} THEN {} ELSE {entries[Max(KeyPlaces(entries, key))][2]}

\* After an update a key has its last value of all.
LEMMA UpdateValue ==
  ASSUME NEW dict, NEW entries, Sequence(dict), Sequence(entries), NEW d
  PROVE  Values(Update(dict, entries), d) = LastValue(dict \o entries, d)
<1>1. PICK all : all = dict \o entries
  OBVIOUS
<1>2. PICK at : at = {i \in DOMAIN all : all[i][1] = d}
  OBVIOUS
<1> DEFINE same(key) == {i \in DOMAIN all : all[i][1] = key}
<1>3. PICK f : f = [i \in DOMAIN all |-> <<all[i][1], all[Max(same(all[i][1]))][2]>>]
  OBVIOUS
<1>4. PICK places : places = {i \in DOMAIN all : i = Min(same(all[i][1]))}
  OBVIOUS
<1>5. Sequence(all)
  BY JoinedSequence, <1>1
<1>6. PICK l \in Nat : DOMAIN all = 1 .. l
  BY <1>5 DEF Sequence
<1>7. PICK u : u = Update(dict, entries)
  OBVIOUS
<1>8. u = Kept(f, places)
  BY <1>3, <1>4, <1>7, <1>1 DEF Update
<1>9. DOMAIN f = DOMAIN all /\ f = [i \in DOMAIN all |-> f[i]]
  BY <1>3
<1>10. Sequence(f)
  BY <1>5, <1>9, FunctionSequence
<1>11. ToSet(u) = {f[i] : i \in DOMAIN all \cap places}
  BY <1>8, <1>9, <1>10, KeptSequence
<1>12. ASSUME NEW i \in at PROVE f[i] = <<d, all[Max(at)][2]>>
  <2>1. same(all[i][1]) = at /\ i \in DOMAIN all /\ all[i][1] = d
    BY <1>2
  <2> QED
    BY <1>3, <2>1
<1>13. ASSUME NEW v \in Values(u, d) PROVE at # {} /\ v = all[Max(at)][2]
  <2>1. PICK e \in ToSet(u) : e[1] = d /\ e[2] = v
    BY DEF Values
  <2>2. PICK i \in DOMAIN all : e = f[i]
    BY <1>11, <2>1
  <2>3. i \in at
    <3>1. f[i] = <<all[i][1], all[Max(same(all[i][1]))][2]>>
      BY <1>3
    <3> QED
      BY <1>2, <2>1, <2>2, <3>1
  <2>4. e = <<d, all[Max(at)][2]>>
    BY <1>12, <2>2, <2>3
  <2> QED
    BY <2>1, <2>3, <2>4
<1>14. ASSUME at # {} PROVE all[Max(at)][2] \in Values(u, d)
  <2>1. at \in SUBSET (1 .. l)
    BY <1>6, <1>2
  <2>2. PICK i : i = Min(at) /\ i \in at
    BY <1>14, <2>1, MinFields
  <2>3. same(all[i][1]) = at
    BY <1>2, <2>2
  <2>4. i \in DOMAIN all \cap places
    BY <1>4, <1>2, <2>2, <2>3
  <2>5. f[i] \in ToSet(u)
    BY <1>11, <2>4
  <2>6. f[i] = <<d, all[Max(at)][2]>>
    BY <1>12, <2>2
  <2> QED
    BY <2>5, <2>6 DEF Values
<1>15. CASE at = {}
  <2>1. Values(u, d) = {}
    BY <1>13, <1>15
  <2> QED
    BY <1>7, <1>15, <1>1, <1>2, <2>1 DEF LastValue, KeyPlaces
<1>16. CASE at # {}
  <2>1. Values(u, d) = {all[Max(at)][2]}
    BY <1>13, <1>14, <1>16
  <2> QED
    BY <1>7, <1>16, <1>1, <1>2, <2>1 DEF LastValue, KeyPlaces
<1> QED
  BY <1>15, <1>16

\* After an update no key has two values.
LEMMA UpdateSingle ==
  ASSUME NEW dict, NEW entries, Sequence(dict), Sequence(entries)
  PROVE  Single(Update(dict, entries))
<1>1. PICK u, all : u = Update(dict, entries) /\ all = dict \o entries
  OBVIOUS
<1>2. SUFFICES ASSUME NEW e \in ToSet(u), NEW x \in ToSet(u), e[1] = x[1] PROVE e[2] = x[2]
  BY <1>1 DEF Single
<1>3. PICK d : d = e[1]
  OBVIOUS
<1>4. Values(u, d) = LastValue(all, d)
  BY <1>1, UpdateValue
<1>5. e[2] \in Values(u, d) /\ x[2] \in Values(u, d)
  BY <1>2, <1>3 DEF Values
<1> QED
  BY <1>4, <1>5 DEF LastValue

\* A key no entry has keeps its value.
LEMMA UpdateElsewhere ==
  ASSUME NEW dict, NEW entries, Sequence(dict), Sequence(entries), Single(dict),
         NEW d, \A e \in ToSet(entries) : e[1] # d
  PROVE  Values(Update(dict, entries), d) = Values(dict, d)
<1>1. PICK all : all = dict \o entries
  OBVIOUS
<1>2. PICK at : at = {i \in DOMAIN all : all[i][1] = d}
  OBVIOUS
<1>3. PICK S : S = ToSet(dict) \cup ToSet(entries)
  OBVIOUS
<1>4. dict \in Seq(S) /\ entries \in Seq(S)
  BY <1>3, SuperSequence DEF Sequence
<1>5. PICK u \in Nat, v \in Nat : /\ u = Len(dict) /\ v = Len(entries)
                                 /\ DOMAIN dict = 1 .. u /\ DOMAIN entries = 1 .. v
  BY <1>4
<1>6. /\ DOMAIN all = 1 .. u + v
      /\ \A i \in 1 .. u : all[i] = dict[i]
      /\ \A j \in 1 .. v : all[u + j] = entries[j]
  BY <1>1, <1>4, <1>5
<1>7. \A i \in 1 .. u + v : i \in 1 .. u \/ (i - u \in 1 .. v /\ u + (i - u) = i)
  OBVIOUS
<1>8. \A j \in 1 .. v : all[u + j][1] # d
  BY <1>5, <1>6 DEF ToSet
<1>9. \A i \in 1 .. u : i \in 1 .. u + v
  OBVIOUS
<1>10. (\A i \in at : i \in 1 .. u /\ dict[i][1] = d) /\ (\A i \in 1 .. u : dict[i][1] = d => i \in at)
  <2>1. ASSUME NEW i \in at PROVE i \in 1 .. u
    <3>1. i \in 1 .. u + v /\ all[i][1] = d
      BY <1>2, <1>6
    <3> QED
      BY <1>7, <1>8, <3>1
  <2> QED
    BY <1>2, <1>6, <1>9, <2>1
<1>11. Values(Update(dict, entries), d) = IF at = {} THEN {} ELSE {all[Max(at)][2]}
  <2>1. Values(Update(dict, entries), d) = LastValue(all, d)
    BY <1>1, UpdateValue
  <2> QED
    BY <1>2, <2>1 DEF LastValue, KeyPlaces
<1>12. CASE at = {}
  <2>1. Values(dict, d) = {}
    BY <1>5, <1>10, <1>12 DEF Values, ToSet
  <2> QED
    BY <1>11, <1>12, <2>1
<1>13. CASE at # {}
  <2>1. at \in SUBSET (1 .. u)
    BY <1>10
  <2>2. PICK i : i = Max(at) /\ i \in at
    BY <1>13, <2>1, MaxFields
  <2>3. all[i] = dict[i] /\ dict[i] \in ToSet(dict) /\ dict[i][1] = d
    BY <1>5, <1>6, <1>10, <2>2 DEF ToSet
  <2>4. Values(dict, d) = {dict[i][2]}
    BY <2>3 DEF Values, Single
  <2> QED
    BY <1>11, <1>13, <2>2, <2>3, <2>4
<1> QED
  BY <1>12, <1>13

\* The key of the one entry there is has its value.
LEMMA UpdateThere ==
  ASSUME NEW dict, NEW entries, Sequence(dict), Sequence(entries),
         NEW only \in ToSet(entries), \A x \in ToSet(entries) : x = only
  PROVE  Values(Update(dict, entries), only[1]) = {only[2]}
<1>1. PICK all, d : all = dict \o entries /\ d = only[1]
  OBVIOUS
<1>2. PICK at : at = {i \in DOMAIN all : all[i][1] = d}
  OBVIOUS
<1>3. PICK S : S = ToSet(dict) \cup ToSet(entries)
  OBVIOUS
<1>4. dict \in Seq(S) /\ entries \in Seq(S)
  BY <1>3, SuperSequence DEF Sequence
<1>5. PICK a \in Nat, b \in Nat : /\ a = Len(dict) /\ b = Len(entries)
                                 /\ DOMAIN dict = 1 .. a /\ DOMAIN entries = 1 .. b
  BY <1>4
<1>6. /\ DOMAIN all = 1 .. a + b
      /\ \A j \in 1 .. b : all[a + j] = entries[j]
  BY <1>1, <1>4, <1>5
<1>7. \A j \in 1 .. b : entries[j] = only
  BY <1>5 DEF ToSet
<1>8. b # 0
  <2>1. \E j : j \in 1 .. b
    BY <1>5 DEF ToSet
  <2> QED
    BY <2>1
<1>9. PICK c : c = a + b /\ c \in 1 .. c /\ ~(c <= a)
  BY <1>8
<1>10. b \in 1 .. b
  BY <1>8
<1>11. c \in at
  BY <1>1, <1>2, <1>6, <1>7, <1>9, <1>10
<1>12. at \in SUBSET (1 .. c)
  BY <1>2, <1>6, <1>9
<1>13. PICK i : i = Max(at) /\ i \in at /\ c <= i
  <2>1. c \in Nat
    BY <1>9
  <2> QED
    BY <1>11, <1>12, <2>1, MaxFields
<1>14. i = c
  BY <1>9, <1>12, <1>13
<1>15. Values(Update(dict, entries), d) = {all[i][2]}
  <2>1. Values(Update(dict, entries), d) = LastValue(all, d)
    BY <1>1, UpdateValue
  <2> QED
    BY <1>2, <1>11, <1>13, <2>1 DEF LastValue, KeyPlaces
<1>16. all[c] = only
  BY <1>6, <1>7, <1>9, <1>10
<1> QED
  BY <1>1, <1>14, <1>15, <1>16

\* The definitions that no class or conversion shares its key with, and the
\* names of the first functions of each.
NamesOf(d) == {g.name : g \in {h \in UNION {Firsts(i) : i \in Described} : h.definition = d}}
OwnDefinitions ==
    {d \in {f.definition : f \in UNION {{m \in ToSet(source[i].contents) : DoxyFunction(m)} :
                                        i \in Described}} :
        "operator " \notin ToSet(d) /\ d \notin ClassKeys}
OwnFunctions == {[definition |-> d, names |-> NamesOf(d)] : d \in OwnDefinitions}

\* The key of an entry.
LEMMA EntryKey ==
  ASSUME NEW name, NEW description, NEW params, NEW e \in ToSet(make_entry(name, description, params))
  PROVE  e[1] = name
<1>1. PICK entries, text : /\ entries = make_entry(name, description, params)
                           /\ text = description \o Args(params)
  OBVIOUS
<1>2. ToSet(entries) \subseteq {<<name, text>>}
  BY <1>1, EntryIs
<1>3. e = <<name, text>>
  BY <1>1, <1>2
<1> QED
  BY <1>3

\* The keys of a class and of its methods.
KeysOf(k) == {k.name} \cup {k.name \o <<"::">> \o m.name : m \in ToSet(k.contents)}

\* Those of a class of the XML are keys of classes.
LEMMA KeysOfClasses ==
  ASSUME NEW k \in ToSet(source), DoxyClass(k)
  PROVE  KeysOf(k) \subseteq ClassKeys
<1>1. ClassKeys = UNION {KeysOf(c) : c \in {x \in ToSet(source) : DoxyClass(x)}}
  BY DEF ClassKeys, KeysOf
<1> QED
  BY <1>1

\* A method's is among its class's.
LEMMA MethodKey ==
  ASSUME NEW k, NEW m \in ToSet(k.contents)
  PROVE  k.name \o <<"::">> \o m.name \in KeysOf(k)
<1>1. PICK base, mark : base = k.name /\ mark = <<"::">>
  OBVIOUS
<1>2. KeysOf(k) = {base} \cup {base \o mark \o f.name : f \in ToSet(k.contents)}
  BY <1>1 DEF KeysOf
<1>3. base \o mark \o m.name \in KeysOf(k)
  BY <1>2
<1> QED
  BY <1>1, <1>3

\* A class and its methods are described at the keys of classes.
LEMMA ClassEntryKeys ==
  ASSUME Sourced, NEW k, Indexed(k), DoxyClass(k), NEW description, NEW ignored, NEW params,
         NEW e \in ToSet(make_class_entry(k, description, ignored, params))
  PROVE  e[1] \in ClassKeys
<1>1. k \in ToSet(source) /\ Sequence(k.contents)
  BY IndexedAre DEF SourceClasses
<1>2. ClassEntry(e, k, description \o Args(params))
  BY <1>1, ClassEntryIs
<1>3. PICK base, mark, text : base = k.name /\ mark = <<"::">> /\ text = description \o Args(params)
  OBVIOUS
<1>4. \/ e = <<base, text>>
      \/ \E m \in ToSet(k.contents) : e = <<base \o mark \o m.name, m.doc>>
  BY <1>2, <1>3 DEF ClassEntry
<1>5. \/ e[1] = base
      \/ \E m \in ToSet(k.contents) : e[1] = base \o mark \o m.name
  <2>1. ASSUME NEW m \in ToSet(k.contents), e = <<base \o mark \o m.name, m.doc>>
        PROVE  e[1] = base \o mark \o m.name
    <3>1. PICK key, doc : key = base \o mark \o m.name /\ doc = m.doc
      OBVIOUS
    <3>2. e = <<key, doc>>
      BY <2>1, <3>1
    <3> QED
      BY <3>1, <3>2
  <2>2. e = <<base, text>> => e[1] = base
    OBVIOUS
  <2> QED
    BY <1>4, <2>1, <2>2
<1>6. base \in KeysOf(k)
  BY <1>3 DEF KeysOf
<1>7. \A m \in ToSet(k.contents) : base \o mark \o m.name \in KeysOf(k)
  BY <1>3, MethodKey
<1> QED
  BY <1>1, <1>5, <1>6, <1>7, KeysOfClasses

\* An old style block is described at those, and at its make function's.
LEMMA BlockEntryKeys ==
  ASSUME Sourced, NEW k, Indexed(k), DoxyClass(k), NEW make,
         NEW e \in ToSet(make_block_entry(k, make))
  PROVE  e[1] \in ClassKeys \/ e[1] = make.definition
<1>1. PICK description, own, made :
        /\ make_block_entry(k, make) = own \o made
        /\ own = make_class_entry(k, description, {}, k.params)
        /\ made = make_entry(make.definition, description, k.params)
  BY DEF make_block_entry
<1>2. Sequence(k.contents)
  BY IndexedAre
<1>3. Sequence(own) /\ Sequence(made) /\ \A x \in ToSet(made) : x[1] = make.definition
  <2>1. PICK key, params : key = make.definition /\ params = k.params
    OBVIOUS
  <2>2. made = make_entry(key, description, params)
    BY <1>1, <2>1
  <2>3. Sequence(made) /\ \A x \in ToSet(made) : x[1] = key
    BY <2>2, EntryIs, EntryKey
  <2> QED
    BY <1>1, <1>2, <2>1, <2>3, ClassEntryIs
<1>4. e \in ToSet(own) \/ e \in ToSet(made)
  BY <1>1, <1>3, JoinedSequence
<1>5. e \in ToSet(own) => e[1] \in ClassKeys
  BY <1>1, ClassEntryKeys
<1> QED
  BY <1>3, <1>4, <1>5

\* A new style block's make function is a method of it.
LEMMA Block2EntryKeys ==
  ASSUME Sourced, NEW k, Indexed(k), Block2(k), NEW make,
         NEW e \in ToSet(make_block2_entry(k, make))
  PROVE  e[1] \in ClassKeys
<1>1. DoxyClass(k) /\ has_member(MembersOf(k), <<"make">>, {"function"})
  BY DEF Block2
<1>2. k \in ToSet(source) /\ Sequence(k.name) /\ Sequence(k.contents)
  BY <1>1, IndexedAre DEF SourceClasses
<1>3. Sequence(MembersOf(k)) /\ ToSet(MembersOf(k)) \subseteq ToSet(k.contents)
  <2>1. Sequence(MembersOf(k)) /\ ToSet(MembersOf(k)) = FirstOnes(k.contents)
    BY <1>2, MembersOnce DEF MembersOf
  <2> QED
    BY <2>1 DEF FirstOnes, FirstPlaces, ToSet
<1>4. PICK m \in ToSet(k.contents) : m.name = <<"make">>
  <2>1. PICK items, name : items = MembersOf(k) /\ name = <<"make">>
    OBVIOUS
  <2>2. has_member(items, name, {"function"}) /\ Sequence(items)
    BY <1>1, <1>3, <2>1
  <2>3. get_member(items, name, {"function"}) \in ToSet(items)
        /\ get_member(items, name, {"function"}).name = name
    BY <2>2, LookedUp
  <2> QED
    BY <1>3, <2>1, <2>3
<1>5. PICK name : name = k.name \o <<"::", "make">>
  OBVIOUS
<1>6. name \in ClassKeys
  <2>1. PICK base, a, b : base = k.name /\ a = <<"::">> /\ b = <<"make">>
    OBVIOUS
  <2>2. Sequence(base) /\ Sequence(a) /\ Sequence(b)
    BY <1>2, <2>1, OneSequence
  <2>3. base \o a \o b = base \o (a \o b)
    BY <2>2, NameAssociates
  <2>4. a \o b = <<"::", "make">>
    BY <2>1, PairConcat
  <2>5. name = k.name \o <<"::">> \o m.name
    BY <1>4, <1>5, <2>1, <2>3, <2>4
  <2> QED
    BY <1>1, <1>2, <1>4, <2>5, MethodKey, KeysOfClasses
<1>7. PICK description, own, made :
        /\ make_block2_entry(k, make) = own \o made
        /\ own = make_class_entry(k, description, {<<"make">>}, make.params)
        /\ made = make_entry(name, description, make.params)
  BY <1>5 DEF make_block2_entry
<1>8. Sequence(own) /\ Sequence(made) /\ \A x \in ToSet(made) : x[1] = name
  <2>1. PICK params : params = make.params
    OBVIOUS
  <2>2. made = make_entry(name, description, params)
    BY <1>7, <2>1
  <2>3. Sequence(made) /\ \A x \in ToSet(made) : x[1] = name
    BY <2>2, EntryIs, EntryKey
  <2> QED
    BY <1>2, <1>7, <2>3, ClassEntryIs
<1>9. e \in ToSet(own) \/ e \in ToSet(made)
  BY <1>7, <1>8, JoinedSequence
<1>10. e \in ToSet(own) => e[1] \in ClassKeys
  BY <1>1, <1>7, ClassEntryKeys
<1> QED
  BY <1>6, <1>8, <1>9, <1>10

\* The document of the last of the first n of a list that has the definition.
LastDoc(list, n, d) ==
    {list[r].doc : r \in {q \in 1 .. n : /\ list[q].definition = d
                                         /\ \A later \in q + 1 .. n : list[later].definition # d}}

\* What the dictionary says of the functions when the first n of the list are
\* described: their own, if none of a definition is a block's make function so
\* far.
Told(own, list, n, dict, made) ==
    \A f \in own :
      f.names \cap made = {} => Values(dict, f.definition) = LastDoc(list, n, f.definition)

\* Nothing is said of a function at another key than its own.
LEMMA ToldElsewhere ==
  ASSUME NEW own, NEW list, NEW n, NEW dict, NEW made, Told(own, list, n, dict, made),
         Sequence(dict), Single(dict), NEW entries, Sequence(entries), NEW more, made \subseteq more,
         \A f \in own : f.names \cap more = {} => \A e \in ToSet(entries) : e[1] # f.definition
  PROVE  Told(own, list, n, Update(dict, entries), more)
<1> SUFFICES ASSUME NEW f \in own, f.names \cap more = {}
             PROVE  Values(Update(dict, entries), f.definition) = LastDoc(list, n, f.definition)
  BY DEF Told
<1>1. PICK d : d = f.definition
  OBVIOUS
<1>2. \A e \in ToSet(entries) : e[1] # d
  BY <1>1
<1>3. Values(Update(dict, entries), d) = Values(dict, d)
  BY <1>2, UpdateElsewhere
<1> QED
  BY <1>1, <1>3 DEF Told

\* A function further down the list.
LEMMA LastDocNext ==
  ASSUME NEW list, NEW n \in Nat, NEW d
  PROVE  LastDoc(list, n + 1, d) = IF list[n + 1].definition = d THEN {list[n + 1].doc}
                                   ELSE LastDoc(list, n, d)
<1>1. PICK c : c = n + 1
  OBVIOUS
<1>2. PICK old, new :
        /\ old = {q \in 1 .. n : list[q].definition = d /\ \A r \in q + 1 .. n : list[r].definition # d}
        /\ new = {q \in 1 .. c : list[q].definition = d /\ \A r \in q + 1 .. c : list[r].definition # d}
  OBVIOUS
<1>3. LastDoc(list, n, d) = {list[r].doc : r \in old} /\ LastDoc(list, c, d) = {list[r].doc : r \in new}
  BY <1>2 DEF LastDoc
<1>4. c \in 1 .. c /\ (\A q \in 1 .. c : q = c \/ (q \in 1 .. n /\ c \in q + 1 .. c)) /\ c + 1 .. c = {}
  BY <1>1
<1>5. \A q \in 1 .. n : /\ q \in 1 .. c /\ q # c
                        /\ \A r \in q + 1 .. c : r = c \/ r \in q + 1 .. n
                        /\ \A r \in q + 1 .. n : r \in q + 1 .. c
  BY <1>1
<1>6. CASE list[c].definition = d
  <2>1. new = {c}
    BY <1>2, <1>4, <1>6
  <2> QED
    BY <1>1, <1>3, <1>6, <2>1
<1>7. CASE list[c].definition # d
  <2>1. \A q \in new : q \in old
    BY <1>2, <1>4, <1>5, <1>7
  <2>2. \A q \in old : q \in new
    BY <1>2, <1>4, <1>5, <1>7
  <2>3. new = old
    BY <2>1, <2>2
  <2> QED
    BY <1>1, <1>3, <1>7, <2>3
<1> QED
  BY <1>6, <1>7

\* What the stage of the functions goes through.
FunctionList(items, made) ==
    LET functions == in_category(items, {"function"})
    IN  Kept(functions, {i \in DOMAIN functions :
                           functions[i].name \notin made /\ ~Std(functions[i])})

FunctionPlaces(items, made) ==
    {m \in DOMAIN items : /\ DoxyFunction(items[m])
                          /\ items[m].name \notin made /\ ~Std(items[m])}

\* Those are the functions of the index that are to be described by themselves.
LEMMA FunctionsPlaced ==
  ASSUME NEW items, Sequence(items), NEW made, NEW list, list = FunctionList(items, made)
  PROVE  Sequence(list) /\ \E place : PickedOut(list, items, FunctionPlaces(items, made), place)
<1>1. PICK own, functions : /\ own = {i \in DOMAIN items : items[i].kind \in {"function"}}
                            /\ functions = Kept(items, own)
  OBVIOUS
<1>2. PICK free : free = {i \in DOMAIN functions :
                            functions[i].name \notin made /\ ~Std(functions[i])}
  OBVIOUS
<1>3. list = Kept(functions, free)
  BY <1>1, <1>2 DEF FunctionList, in_category
<1>4. Sequence(functions) /\ \E a : PickedOut(functions, items, own, a)
  BY <1>1, KeptPlaces
<1>5. Sequence(list) /\ \E b : PickedOut(list, functions, free, b)
  BY <1>3, <1>4, KeptPlaces
<1>6. PICK a, b : PickedOut(functions, items, own, a) /\ PickedOut(list, functions, free, b)
  BY <1>4, <1>5
<1>7. PICK place : place = [r \in DOMAIN list |-> a[b[r]]]
  OBVIOUS
<1>8. \A r \in DOMAIN list : /\ b[r] \in DOMAIN functions /\ b[r] \in free
                             /\ list[r] = functions[b[r]]
  BY <1>6 DEF PickedOut
<1>9. \A n \in DOMAIN functions : /\ a[n] \in DOMAIN items /\ a[n] \in own
                                  /\ functions[n] = items[a[n]]
  BY <1>6 DEF PickedOut
<1>10. \A r \in DOMAIN list : /\ place[r] \in DOMAIN items /\ list[r] = items[place[r]]
                              /\ place[r] \in FunctionPlaces(items, made)
  BY <1>1, <1>2, <1>7, <1>8, <1>9 DEF FunctionPlaces, DoxyFunction
<1>11. place \in [DOMAIN list -> DOMAIN items]
  BY <1>7, <1>10
<1>12. ASSUME NEW q \in DOMAIN list, NEW r \in DOMAIN list, q < r PROVE place[q] < place[r]
  <2>1. b[q] < b[r]
    BY <1>6, <1>12 DEF PickedOut
  <2>2. a[b[q]] < a[b[r]]
    BY <1>6, <1>8, <2>1 DEF PickedOut
  <2> QED
    BY <1>7, <2>2
<1>13. ASSUME NEW m \in DOMAIN items, m \in FunctionPlaces(items, made)
       PROVE  \E r \in DOMAIN list : place[r] = m
  <2>1. m \in own /\ items[m].name \notin made /\ ~Std(items[m])
    BY <1>1, <1>13 DEF FunctionPlaces, DoxyFunction
  <2>2. PICK n \in DOMAIN functions : a[n] = m
    BY <1>6, <2>1 DEF PickedOut
  <2>3. n \in free
    BY <1>2, <1>9, <2>1, <2>2
  <2>4. PICK r \in DOMAIN list : b[r] = n
    BY <1>6, <2>3 DEF PickedOut
  <2> QED
    BY <1>7, <2>2, <2>4
<1>14. PickedOut(list, items, FunctionPlaces(items, made), place)
  BY <1>10, <1>11, <1>12, <1>13 DEF PickedOut
<1> QED
  BY <1>5, <1>14

\* The functions of the list are from the headers and namespaces of the XML,
\* in their order: all that are first of their name, but blocks' and std's.
FromXml(src, list, made) ==
    /\ \A r \in DOMAIN list : src[r] \in Described /\ list[r] \in Firsts(src[r])
    /\ \A q, r \in DOMAIN list : q < r => src[q] <= src[r]
    /\ \A i \in Described : \A g \in Firsts(i) :
         g.name \notin made /\ ~Std(g) => \E r \in DOMAIN list : src[r] = i /\ list[r] = g
    /\ \A q, r \in DOMAIN list :
         src[q] = src[r] /\ q < r => Before(list[q], list[r], source[src[r]].contents)

\* The list is what its place in the index says.
LEMMA FunctionsFromXml ==
  ASSUME Sourced, Read, xml = <<>>, Sequence(members), NEW made,
         NEW list, list = FunctionList(members, made)
  PROVE  Sequence(list) /\ \E src : FromXml(src, list, made)
<1>1. PICK places : places = FunctionPlaces(members, made)
  OBVIOUS
<1>2. Sequence(list) /\ \E place : PickedOut(list, members, places, place)
  BY <1>1, FunctionsPlaced
<1>3. PICK place : PickedOut(list, members, places, place)
  BY <1>2
<1>4. PICK n \in Nat : Behind(n) /\ \E src : Traced(src, n, members, source)
  BY DEF Read
<1>5. PICK src : Traced(src, n, members, source)
  BY <1>4
<1>6. n = Len(source) /\ DOMAIN source = 1 .. n
  BY <1>4 DEF Behind, Read, Sequence
<1>7. PICK from : from = [r \in DOMAIN list |-> src[place[r]]]
  OBVIOUS
<1>8. \A r \in DOMAIN list : /\ place[r] \in DOMAIN members /\ place[r] \in places
                             /\ list[r] = members[place[r]] /\ from[r] = src[place[r]]
  BY <1>3, <1>7 DEF PickedOut
<1>9. \A r \in DOMAIN list : list[r].kind = "function"
  BY <1>1, <1>8 DEF FunctionPlaces, DoxyFunction
<1>10. ASSUME NEW r \in DOMAIN list PROVE from[r] \in Described /\ list[r] \in Firsts(from[r])
  <2>1. from[r] \in DOMAIN source /\ Arises(list[r], source[from[r]])
    BY <1>5, <1>6, <1>8 DEF Traced
  <2>2. source[from[r]].kind # "function"
    <3>1. source \in Directories
      BY <2>1 DEF Sourced
    <3>2. source[from[r]] \in ToSet(source)
      BY <2>1 DEF ToSet
    <3> QED
      BY <3>1, <3>2, DirectoriesAssumption
  <2> QED
    BY <1>9, <2>1, <2>2 DEF Arises, Described, Firsts, DoxyFunction
<1>11. ASSUME NEW q \in DOMAIN list, NEW r \in DOMAIN list, q < r PROVE from[q] <= from[r]
  <2>1. place[q] < place[r]
    BY <1>3, <1>11 DEF PickedOut
  <2> QED
    BY <1>5, <1>8, <2>1 DEF Traced
<1>12. ASSUME NEW i \in Described, NEW g \in Firsts(i), g.name \notin made, ~Std(g)
       PROVE  \E r \in DOMAIN list : from[r] = i /\ list[r] = g
  <2>1. i \in 1 .. n /\ Arises(g, source[i]) /\ DoxyFunction(g)
    BY <1>6, <1>12 DEF Described, Firsts, Arises
  <2>2. PICK m \in DOMAIN members : src[m] = i /\ members[m] = g
    BY <1>5, <2>1 DEF Traced
  <2>3. m \in places
    BY <1>1, <1>12, <2>1, <2>2 DEF FunctionPlaces
  <2>4. PICK r \in DOMAIN list : place[r] = m
    BY <1>3, <2>3 DEF PickedOut
  <2> QED
    BY <1>8, <2>2, <2>4
<1>13. ASSUME NEW q \in DOMAIN list, NEW r \in DOMAIN list, from[q] = from[r], q < r
       PROVE  Before(list[q], list[r], source[from[r]].contents)
  <2>1. place[q] < place[r]
    BY <1>3, <1>13 DEF PickedOut
  <2> QED
    BY <1>5, <1>8, <1>13, <2>1 DEF Traced
<1>14. FromXml(from, list, made)
  BY <1>10, <1>11, <1>12, <1>13 DEF FromXml
<1> QED
  BY <1>2, <1>14

\* The places that document a definition.
PlacesOf(d) == {j \in Described : Defining(j, d) # {}}
ToldAt(j, d) == source[j].contents[Max(Defining(j, d))].doc

\* Where there is a first function of a definition.
LEMMA DefiningIs ==
  ASSUME NEW i, NEW d
  PROVE  /\ \A n \in Defining(i, d) : /\ n \in FirstPlaces(source[i].contents)
                                       /\ source[i].contents[n] \in Firsts(i)
                                       /\ source[i].contents[n].definition = d
         /\ \A g \in Firsts(i) :
              g.definition = d => \E n \in Defining(i, d) : source[i].contents[n] = g
BY DEF Defining, Firsts, FirstOnes

\* The names of a definition are those of its first functions.
LEMMA NamesAre ==
  ASSUME NEW d, NEW i \in Described, NEW g \in Firsts(i), g.definition = d
  PROVE  g.name \in NamesOf(d)
BY DEF NamesOf

\* The last of the list is the last overload of the last place.
LEMMA LastIsOwn ==
  ASSUME Sourced, Read, NEW made, NEW list, Sequence(list), NEW src, FromXml(src, list, made),
         NEW d,
         \A i \in Described : \A g \in Firsts(i) :
            g.definition = d => g.name \notin made /\ ~Std(g)
  PROVE  LastDoc(list, Len(list), d) =
           IF PlacesOf(d) = {} THEN {} ELSE {ToldAt(Max(PlacesOf(d)), d)}
<1>1. PICK l \in Nat : l = Len(list) /\ DOMAIN list = 1 .. l
  BY DEF Sequence
<1>2. PICK k \in Nat : DOMAIN source = 1 .. k
  BY DEF Read, Sequence
<1>3. PICK found : found = {q \in 1 .. l : list[q].definition = d}
  OBVIOUS
<1>4. PICK last : last = {q \in 1 .. l : /\ list[q].definition = d
                                         /\ \A later \in q + 1 .. l : list[later].definition # d}
  OBVIOUS
<1>5. LastDoc(list, l, d) = {list[r].doc : r \in last}
  BY <1>4 DEF LastDoc
<1>6. \A r \in DOMAIN list : src[r] \in Described /\ list[r] \in Firsts(src[r])
  BY DEF FromXml
<1>7. ASSUME NEW r \in found
      PROVE  /\ src[r] \in PlacesOf(d)
             /\ \E n \in Defining(src[r], d) : source[src[r]].contents[n] = list[r]
  <2>1. src[r] \in Described /\ list[r] \in Firsts(src[r]) /\ list[r].definition = d
    BY <1>1, <1>3, <1>6
  <2>2. PICK i, g : i = src[r] /\ g = list[r] /\ i \in Described /\ g \in Firsts(i)
                    /\ g.definition = d
    BY <2>1
  <2>3. PICK n \in Defining(i, d) : source[i].contents[n] = g
    BY <2>2, DefiningIs
  <2>4. i \in PlacesOf(d)
    BY <2>2, <2>3 DEF PlacesOf
  <2> QED
    BY <2>2, <2>3, <2>4
<1>8. ASSUME NEW i \in Described, NEW n \in Defining(i, d)
      PROVE  \E r \in found : src[r] = i /\ list[r] = source[i].contents[n]
  <2>1. PICK g : g = source[i].contents[n] /\ g \in Firsts(i) /\ g.definition = d
    BY DefiningIs
  <2>2. PICK r \in DOMAIN list : src[r] = i /\ list[r] = g
    BY <2>1 DEF FromXml
  <2> QED
    BY <1>1, <1>3, <2>1, <2>2
<1>9. CASE PlacesOf(d) = {}
  <2>1. last = {}
    BY <1>3, <1>4, <1>7, <1>9
  <2> QED
    BY <1>1, <1>5, <1>9, <2>1
<1>10. CASE PlacesOf(d) # {}
  <2>1. PlacesOf(d) \in SUBSET (1 .. k)
    BY <1>2 DEF PlacesOf, Described
  <2>2. PICK top : /\ top = Max(PlacesOf(d)) /\ top \in PlacesOf(d)
                   /\ \A j \in PlacesOf(d) : j <= top
    BY <1>10, <2>1, MaxFields
  <2>3. top \in Described /\ Defining(top, d) # {}
    BY <2>2 DEF PlacesOf
  <2>4. PICK e \in Nat : DOMAIN source[top].contents = 1 .. e
    <3>1. source \in Directories /\ source[top] \in ToSet(source)
      BY <2>3, OneSequence DEF Sourced, Described, ToSet
    <3>2. Sequence(source[top].contents)
      BY <3>1, DirectoriesAssumption
    <3> QED
      BY <3>2 DEF Sequence
  <2>5. Defining(top, d) \in SUBSET (1 .. e)
    BY <2>4 DEF Defining, FirstPlaces
  <2>6. PICK b : /\ b = Max(Defining(top, d)) /\ b \in Defining(top, d)
                 /\ \A n \in Defining(top, d) : n <= b
    BY <2>3, <2>5, MaxFields
  <2>7. PICK s \in found : src[s] = top /\ list[s] = source[top].contents[b]
    BY <1>8, <2>3, <2>6
  <2>8. found \in SUBSET (1 .. l) /\ found # {}
    BY <1>3, <2>7
  <2>9. PICK r : r \in found /\ \A q \in found : q <= r
    BY <2>8, MaxFields
  <2>10. last = {r}
    <3>1. r \in 1 .. l /\ list[r].definition = d
      BY <1>3, <2>9
    <3>2. \A later \in r + 1 .. l : later \in 1 .. l /\ ~(later <= r)
      BY <3>1
    <3>3. \A later \in r + 1 .. l : list[later].definition # d
      BY <1>3, <2>9, <3>2
    <3>4. ASSUME NEW q \in last PROVE q = r
      <4>1. q \in found /\ q \in 1 .. l /\ q <= r
        BY <1>3, <1>4, <2>9
      <4>2. r \notin q + 1 .. l
        BY <1>4, <3>1
      <4> QED
        BY <3>1, <4>1, <4>2
    <3> QED
      BY <1>4, <3>1, <3>3, <3>4
  <2>11. src[r] = top
    <3>1. src[r] <= top /\ src[r] \in Nat /\ top \in Nat /\ s \in Nat /\ r \in Nat /\ s <= r
      BY <1>7, <2>1, <2>2, <2>7, <2>8, <2>9
    <3>2. s < r => src[s] <= src[r]
      BY <1>1, <2>7, <2>8, <2>9 DEF FromXml
    <3> QED
      BY <2>7, <3>1, <3>2
  <2>12. PICK a \in Defining(top, d) : source[top].contents[a] = list[r]
    BY <1>7, <2>9, <2>11
  <2>13. a \in Nat /\ b \in Nat /\ a <= b /\ s \in Nat /\ r \in Nat /\ s <= r
    <3>1. a \in 1 .. e /\ b \in 1 .. e /\ a <= b
      BY <2>5, <2>6, <2>12
    <3>2. s \in 1 .. l /\ r \in 1 .. l /\ s <= r
      BY <2>7, <2>8, <2>9
    <3> QED
      BY <3>1, <3>2
  <2>14. ~(s < r)
    <3>1. a \in FirstPlaces(source[top].contents) /\ b \in FirstPlaces(source[top].contents)
      BY <2>6, <2>12, DefiningIs
    <3>2. s < r => Before(list[s], list[r], source[top].contents)
      BY <1>1, <2>7, <2>8, <2>9, <2>11 DEF FromXml
    <3>3. s < r => b < a
      BY <2>7, <2>12, <3>1, <3>2 DEF Before
    <3> QED
      BY <2>13, <3>3
  <2>15. list[r] = source[top].contents[b]
    BY <2>7, <2>13, <2>14
  <2>16. ToldAt(top, d) = list[r].doc
    BY <2>6, <2>15 DEF ToldAt
  <2> QED
    BY <1>1, <1>5, <1>10, <2>2, <2>10, <2>16
<1> QED
  BY <1>9, <1>10

\* Described functions are those of the list before the ones still to come.
Listed == FunctionList(members, make_funcs)

Through(list, p, left) ==
    /\ p + Len(left) = Len(list)
    /\ \A j \in 1 .. Len(left) : left[j] = list[p + j]

FunctionsTold ==
    /\ Single(output)
    /\ phase \in {"index", "blocks", "blocks2"} =>
         Told(OwnFunctions, <<>>, 0, output, make_funcs)
    /\ phase = "functions" =>
         \E p \in Nat : Through(Listed, p, todo) /\ Told(OwnFunctions, Listed, p, output, make_funcs)
    /\ phase \in {"classes", "sub"} =>
         Told(OwnFunctions, Listed, Len(Listed), output, make_funcs)

\* Nothing is said of any function.
LEMMA ToldInitially ==
  ASSUME Init
  PROVE  FunctionsTold
<1>1. output = <<>> /\ ToSet(output) = {} /\ phase \in {"index", "copy"}
  BY OneSequence DEF Init
<1>2. \A d : Values(output, d) = {} /\ LastDoc(<<>>, 0, d) = {}
  BY <1>1 DEF Values, LastDoc
<1> QED
  BY <1>1, <1>2 DEF FunctionsTold, Single, Told

\* The functions of the XML stay what they are.
LEMMA OwnStays ==
  ASSUME UNCHANGED source
  PROVE  OwnFunctions' = OwnFunctions
<1>1. Described' = Described /\ ClassKeys' = ClassKeys
  BY DEF Described, ClassKeys
<1>2. \A d : NamesOf(d)' = NamesOf(d)
  BY <1>1 DEF NamesOf, Firsts
<1>3. OwnDefinitions' = OwnDefinitions
  BY <1>1 DEF OwnDefinitions
<1> QED
  BY <1>2, <1>3 DEF OwnFunctions

\* Their keys are no class's and no conversion's.
LEMMA OwnAre ==
  ASSUME NEW f \in OwnFunctions
  PROVE  /\ f.names = NamesOf(f.definition)
         /\ "operator " \notin ToSet(f.definition) /\ f.definition \notin ClassKeys
<1>1. PICK d \in OwnDefinitions : f = [definition |-> d, names |-> NamesOf(d)]
  BY DEF OwnFunctions
<1>2. f.definition = d /\ f.names = NamesOf(d)
  BY <1>1
<1>3. "operator " \notin ToSet(d) /\ d \notin ClassKeys
  BY DEF OwnDefinitions
<1> QED
  BY <1>2, <1>3

\* One more block is described: nothing of a function but the make function.
LEMMA BlockTold ==
  ASSUME Sequences, Sourced, Staged, FunctionsTold, DescribeBlock
  PROVE  Single(output') /\ Told(OwnFunctions, <<>>, 0, output', make_funcs')
<1>1. PICK k, name : k = Head(todo) /\ name = make_name(k.name)
  OBVIOUS
<1>2. PICK make : make = get_member(members, name, {"function"})
  OBVIOUS
<1>3. phase = "blocks" /\ todo # <<>> /\ ~BlockEntryRaises(k)
      /\ make_funcs' = make_funcs \cup {make.name}
      /\ output' = IF make.name \in make_funcs THEN output
                   ELSE Update(output, make_block_entry(k, make))
  BY <1>1, <1>2 DEF DescribeBlock
<1>4. Sequence(members) /\ Sequence(output) /\ k \in ToSet(todo)
  BY <1>1, <1>3, TailSequence DEF Sequences
<1>5. k \in ToSet(members) /\ DoxyClass(k) /\ Indexed(k)
  BY <1>3, <1>4 DEF Staged, Scraping, Sourced
<1>6. \E i \in Described : make \in Firsts(i)
  <2>1. has_member(members, name, {"function"})
    BY <1>1, <1>3 DEF BlockEntryRaises
  <2>2. make \in ToSet(members) /\ make.kind \in {"function"}
    BY <1>2, <1>4, <2>1, LookedUp
  <2> QED
    BY <2>2, IndexedAre DEF Sourced, DoxyFunction
<1>7. Told(OwnFunctions, <<>>, 0, output, make_funcs) /\ Single(output)
  BY <1>3 DEF FunctionsTold
<1>8. CASE make.name \in make_funcs
  <2>1. make_funcs' = make_funcs
    BY <1>3, <1>8
  <2> QED
    BY <1>3, <1>7, <1>8, <2>1
<1>9. CASE make.name \notin make_funcs
  <2>1. PICK entries, more : entries = make_block_entry(k, make) /\ more = make_funcs \cup {make.name}
    OBVIOUS
  <2>2. Sequence(entries)
    BY <1>5, <2>1, IndexedAre, BlockEntrySequence
  <2>3. ASSUME NEW f \in OwnFunctions, f.names \cap more = {}, NEW e \in ToSet(entries)
        PROVE  e[1] # f.definition
    <3>1. f.names = NamesOf(f.definition) /\ f.definition \notin ClassKeys
      BY OwnAre
    <3>2. e[1] \in ClassKeys \/ e[1] = make.definition
      BY <1>5, <2>1, <2>3, BlockEntryKeys
    <3>3. f.definition # make.definition
      BY <1>6, <2>1, <2>3, <3>1, NamesAre
    <3> QED
      BY <3>1, <3>2, <3>3
  <2>4. Told(OwnFunctions, <<>>, 0, Update(output, entries), more)
    BY <1>4, <1>7, <2>1, <2>2, <2>3, ToldElsewhere
  <2> QED
    BY <1>3, <1>4, <1>9, <2>1, <2>2, <2>4, UpdateSingle
<1> QED
  BY <1>8, <1>9

\* Nor is anything said of one with a block of the new style.
LEMMA Block2Told ==
  ASSUME Sequences, Sourced, Staged, FunctionsTold, DescribeBlock2
  PROVE  Single(output') /\ Told(OwnFunctions, <<>>, 0, output', make_funcs')
<1>1. PICK k, make : k = Head(todo) /\ make = get_member(MembersOf(k), <<"make">>, {"function"})
  OBVIOUS
<1>2. PICK name : name = k.name \o <<"::", "make">>
  OBVIOUS
<1>3. phase = "blocks2" /\ todo # <<>>
      /\ make_funcs' = make_funcs \cup {name}
      /\ output' = IF name \in make_funcs THEN output
                   ELSE Update(output, make_block2_entry(k, make))
  BY <1>1, <1>2 DEF DescribeBlock2
<1>4. Sequence(output) /\ k \in ToSet(todo)
  BY <1>1, <1>3, TailSequence DEF Sequences
<1>5. k \in ToSet(members) /\ Block2(k) /\ Indexed(k) /\ DoxyClass(k)
  BY <1>3, <1>4 DEF Staged, Scraping, Sourced
<1>6. Told(OwnFunctions, <<>>, 0, output, make_funcs) /\ Single(output)
  BY <1>3 DEF FunctionsTold
<1>7. CASE name \in make_funcs
  <2>1. make_funcs' = make_funcs
    BY <1>3, <1>7
  <2> QED
    BY <1>3, <1>6, <1>7, <2>1
<1>8. CASE name \notin make_funcs
  <2>1. PICK entries, more : entries = make_block2_entry(k, make) /\ more = make_funcs \cup {name}
    OBVIOUS
  <2>2. Sequence(entries)
    BY <1>5, <2>1, IndexedAre, BlockEntrySequence
  <2>3. ASSUME NEW f \in OwnFunctions, NEW e \in ToSet(entries) PROVE e[1] # f.definition
    <3>1. f.definition \notin ClassKeys
      BY OwnAre
    <3>2. e[1] \in ClassKeys
      BY <1>5, <2>1, <2>3, Block2EntryKeys
    <3> QED
      BY <3>1, <3>2
  <2>4. Told(OwnFunctions, <<>>, 0, Update(output, entries), more)
    BY <1>4, <1>6, <2>1, <2>2, <2>3, ToldElsewhere
  <2> QED
    BY <1>3, <1>4, <1>8, <2>1, <2>2, <2>4, UpdateSingle
<1> QED
  BY <1>7, <1>8

\* One function further in the list.
LEMMA OneThrough ==
  ASSUME NEW list, NEW p \in Nat, NEW left, Sequence(left), left # <<>>, Through(list, p, left)
  PROVE  Head(left) = list[p + 1] /\ Through(list, p + 1, Tail(left))
<1>1. PICK l \in Nat : l = Len(left) /\ l # 0
  BY DEF Sequence
<1>2. PICK t : t = Tail(left)
  OBVIOUS
<1>3. Head(left) = left[1] /\ Len(t) = l - 1 /\ \A j \in 1 .. l - 1 : t[j] = left[j + 1]
  BY <1>1, <1>2 DEF Sequence
<1>4. PICK c \in Nat : c = p + 1
  OBVIOUS
<1>5. c + (l - 1) = p + l /\ 1 \in 1 .. l /\ \A j \in 1 .. l - 1 : j + 1 \in 1 .. l /\ c + j = p + (j + 1)
  BY <1>1, <1>4
<1>6. c + Len(t) = Len(list)
  BY <1>1, <1>3, <1>5 DEF Through
<1>7. \A j \in 1 .. Len(t) : t[j] = list[c + j]
  BY <1>1, <1>3, <1>5 DEF Through
<1>8. left[1] = list[c]
  BY <1>1, <1>4, <1>5 DEF Through
<1> QED
  BY <1>2, <1>3, <1>4, <1>6, <1>7, <1>8 DEF Through

\* A function described: its own document is the last of its definition.
LEMMA FunctionTold ==
  ASSUME NEW own, \A f \in own : "operator " \notin ToSet(f.definition),
         NEW list, NEW p \in Nat, NEW dict, Sequence(dict), Single(dict), NEW made,
         Told(own, list, p, dict, made), NEW k, k = list[p + 1], Sequence(k.doc),
         NEW next, next = Update(dict, make_entry(k.definition, k.doc, <<>>))
  PROVE  Single(next) /\ Told(own, list, p + 1, next, made)
<1>1. PICK d, doc : d = k.definition /\ doc = k.doc
  OBVIOUS
<1>2. PICK entries : entries = make_entry(d, doc, <<>>)
  OBVIOUS
<1>3. doc \o <<>> = doc
  BY <1>1, ConcatEmptySeq DEF Sequence
<1>4. /\ Sequence(entries)
      /\ ToSet(entries) = IF "operator " \in ToSet(d) THEN {} ELSE {<<d, doc>>}
  <2>1. PICK none : none = <<>> /\ doc \o Args(none) = doc
    BY <1>3 DEF Args
  <2>2. /\ Sequence(make_entry(d, doc, none))
        /\ ToSet(make_entry(d, doc, none)) =
             IF "operator " \in ToSet(d) THEN {} ELSE {<<d, doc \o Args(none)>>}
    BY EntryIs
  <2> QED
    BY <1>2, <2>1, <2>2
<1>5. next = Update(dict, entries) /\ Single(next)
  BY <1>1, <1>2, <1>4, UpdateSingle
<1>6. ASSUME NEW f \in own, f.names \cap made = {}
      PROVE  Values(next, f.definition) = LastDoc(list, p + 1, f.definition)
  <2>1. CASE f.definition = d
    <3>1. ToSet(entries) = {<<d, doc>>}
      BY <1>4, <2>1
    <3>2. Values(Update(dict, entries), d) = {doc}
      <4>1. PICK e : e = <<d, doc>>
        OBVIOUS
      <4>2. Sequence(entries)
        BY <1>4
      <4>3. e \in ToSet(entries) /\ \A x \in ToSet(entries) : x = e
        BY <3>1, <4>1
      <4>4. Values(Update(dict, entries), e[1]) = {e[2]}
        BY <4>2, <4>3, UpdateThere
      <4> QED
        BY <4>1, <4>4
    <3>3. LastDoc(list, p + 1, d) = {doc}
      BY <1>1, LastDocNext
    <3> QED
      BY <1>5, <2>1, <3>2, <3>3
  <2>2. CASE f.definition # d
    <3>1. PICK key : key = f.definition
      OBVIOUS
    <3>2. \A e \in ToSet(entries) : e[1] # key
      BY <1>2, <2>2, <3>1, EntryKey
    <3>3. Values(Update(dict, entries), key) = Values(dict, key)
      <4>1. Sequence(entries)
        BY <1>4
      <4> QED
        BY <3>2, <4>1, UpdateElsewhere
    <3>4. LastDoc(list, p + 1, key) = LastDoc(list, p, key)
      BY <1>1, <2>2, <3>1, LastDocNext
    <3>5. Values(dict, key) = LastDoc(list, p, key)
      BY <1>6, <3>1 DEF Told
    <3> QED
      BY <1>5, <3>1, <3>3, <3>4, <3>5
  <2> QED
    BY <2>1, <2>2
<1> QED
  BY <1>5, <1>6 DEF Told

\* A class described says nothing of a function.
LEMMA ClassTold ==
  ASSUME Sequences, Sourced, Staged, FunctionsTold, DescribeClass
  PROVE  Single(output') /\ Told(OwnFunctions, Listed, Len(Listed), output', make_funcs)
<1>1. PICK k : k = Head(todo)
  OBVIOUS
<1>2. PICK entries : entries = make_class_entry(k, k.doc, {}, k.params)
  OBVIOUS
<1>3. phase = "classes" /\ todo # <<>>
      /\ output' = IF k.file # "ok" THEN output ELSE Update(output, entries)
  BY <1>1, <1>2 DEF DescribeClass
<1>4. Sequence(output) /\ k \in ToSet(todo)
  BY <1>1, <1>3, TailSequence DEF Sequences
<1>5. k \in ToSet(members) /\ DoxyClass(k) /\ Indexed(k)
  BY <1>3, <1>4 DEF Staged, Scraping, Sourced
<1>6. PICK list, l : list = Listed /\ l = Len(Listed)
  OBVIOUS
<1>7. Told(OwnFunctions, list, l, output, make_funcs) /\ Single(output)
  BY <1>3, <1>6 DEF FunctionsTold
<1>8. Sequence(entries)
  BY <1>2, <1>5, IndexedAre, ClassEntryIs
<1>9. ASSUME NEW f \in OwnFunctions, NEW e \in ToSet(entries) PROVE e[1] # f.definition
  <2>1. f.definition \notin ClassKeys
    BY OwnAre
  <2>2. e[1] \in ClassKeys
    BY <1>2, <1>5, <1>9, ClassEntryKeys
  <2> QED
    BY <2>1, <2>2
<1>10. Told(OwnFunctions, list, l, Update(output, entries), make_funcs)
  BY <1>4, <1>7, <1>8, <1>9, ToldElsewhere
<1>11. Single(Update(output, entries))
  BY <1>4, <1>8, UpdateSingle
<1> QED
  BY <1>3, <1>6, <1>7, <1>10, <1>11

\* Whatever the step, the dictionary says of the functions what they say.
LEMMA StepTold ==
  ASSUME Sequences, Sourced, Staged, FunctionsTold, Next
  PROVE  FunctionsTold'
<1>1. OwnFunctions' = OwnFunctions
  <2>1. UNCHANGED source
    BY DEF Next, FindBlocks, FindBlocksRaises, NextStage, DescribeBlock, DescribeBlockRaises,
           DescribeBlock2, DescribeFunction, DescribeClass, WriteJson, ReadTemplate, Sub,
           WriteHeader, CopyTemplate, CopyDone
  <2> QED
    BY <2>1, OwnStays
<1>2. UNCHANGED <<members, make_funcs>> => Listed' = Listed
  BY DEF Listed
<1>3. CASE DescribeBlock \/ DescribeBlock2
  <2>1. phase' \in {"blocks", "blocks2"}
    BY <1>3 DEF DescribeBlock, DescribeBlock2
  <2> QED
    BY <1>1, <1>3, <2>1, BlockTold, Block2Told DEF FunctionsTold
<1>4. CASE DescribeFunction
  <2>1. PICK k, list : k = Head(todo) /\ list = Listed
    OBVIOUS
  <2>2. /\ phase = "functions" /\ phase' = "functions" /\ todo # <<>> /\ todo' = Tail(todo)
        /\ output' = Update(output, make_entry(k.definition, k.doc, <<>>))
        /\ UNCHANGED <<members, make_funcs>>
    BY <1>4, <2>1 DEF DescribeFunction
  <2>3. PICK p \in Nat : Through(list, p, todo) /\ Told(OwnFunctions, list, p, output, make_funcs)
    BY <2>1, <2>2 DEF FunctionsTold
  <2>4. k = list[p + 1] /\ Through(list, p + 1, todo')
    BY <2>1, <2>2, <2>3, OneThrough DEF Sequences
  <2>5. Sequence(k.doc)
    <3>1. k \in ToSet(todo)
      BY <2>1, <2>2, TailSequence DEF Sequences
    <3>2. Indexed(k) /\ DoxyFunction(k)
      BY <2>2, <3>1 DEF Staged, Scraping, Sourced
    <3> QED
      BY <3>2, IndexedAre DEF About
  <2>6. \A f \in OwnFunctions : "operator " \notin ToSet(f.definition)
    BY OwnAre
  <2>7. Single(output') /\ Told(OwnFunctions, list, p + 1, output', make_funcs)
    BY <2>2, <2>3, <2>4, <2>5, <2>6, FunctionTold DEF Sequences, FunctionsTold
  <2>8. p + 1 \in Nat /\ Through(Listed', p + 1, todo')
        /\ Told(OwnFunctions', Listed', p + 1, output', make_funcs')
    BY <1>1, <1>2, <2>1, <2>2, <2>4, <2>7
  <2> QED
    BY <2>2, <2>7, <2>8 DEF FunctionsTold
<1>5. CASE DescribeClass
  <2>1. phase' = "classes" /\ UNCHANGED <<members, make_funcs>>
    BY <1>5 DEF DescribeClass
  <2> QED
    BY <1>1, <1>2, <1>5, <2>1, ClassTold DEF FunctionsTold
<1>6. CASE NextStage
  <2>1. UNCHANGED <<members, make_funcs, output>> /\ todo = <<>>
    BY <1>6 DEF NextStage
  <2>2. CASE phase = "blocks"
    BY <1>1, <1>6, <2>1, <2>2 DEF NextStage, FunctionsTold
  <2>3. CASE phase = "blocks2"
    <3>1. PICK list : list = Listed
      OBVIOUS
    <3>2. phase' = "functions" /\ todo' = list
      BY <1>6, <2>3, <3>1 DEF NextStage, Listed, FunctionList
    <3>3. PICK l \in Nat : l = Len(list)
      BY <3>1, FunctionsPlaced DEF Sequences, Listed, Sequence
    <3>4. 0 + l = l /\ \A j \in 1 .. l : 0 + j = j
      OBVIOUS
    <3>5. Through(list, 0, list)
      BY <3>3, <3>4 DEF Through
    <3>6. Told(OwnFunctions, list, 0, output, make_funcs)
      <4>1. \A d : LastDoc(list, 0, d) = {} /\ LastDoc(<<>>, 0, d) = {}
        BY DEF LastDoc
      <4> QED
        BY <2>3, <4>1 DEF FunctionsTold, Told
    <3>7. Through(Listed', 0, todo') /\ Told(OwnFunctions', Listed', 0, output', make_funcs')
      BY <1>1, <1>2, <2>1, <3>1, <3>2, <3>5, <3>6
    <3> QED
      BY <2>1, <3>2, <3>7 DEF FunctionsTold
  <2>4. CASE phase = "functions"
    <3>1. PICK list : list = Listed
      OBVIOUS
    <3>2. PICK p \in Nat : Through(list, p, todo) /\ Told(OwnFunctions, list, p, output, make_funcs)
      BY <2>4, <3>1 DEF FunctionsTold
    <3>3. p = Len(list)
      BY <2>1, <3>2 DEF Through
    <3>4. phase' = "classes" /\ Told(OwnFunctions', Listed', Len(Listed'), output', make_funcs')
      BY <1>1, <1>2, <1>6, <2>1, <2>4, <3>1, <3>2, <3>3 DEF NextStage
    <3> QED
      BY <2>1, <3>4 DEF FunctionsTold
  <2> QED
    BY <1>6, <2>2, <2>3, <2>4 DEF NextStage
<1>7. CASE \/ ReadCompound /\ UNCHANGED <<todo, make_funcs, output, subVars, source>>
           \/ FindBlocks
  BY <1>1, <1>7 DEF ReadCompound, FindBlocks, FunctionsTold
<1>8. ASSUME phase' = "raised" \/ phase' = "copy", UNCHANGED output PROVE FunctionsTold'
  BY <1>8 DEF FunctionsTold
<1>9. ASSUME phase' = "sub", phase \in {"classes", "sub"}, UNCHANGED <<output, members, make_funcs>>
      PROVE  FunctionsTold'
  BY <1>1, <1>2, <1>9 DEF FunctionsTold
<1> QED
  BY <1>3, <1>4, <1>5, <1>6, <1>7, <1>8, <1>9
     DEF Next, ReadCompoundRaises, FindBlocksRaises, DescribeBlockRaises, WriteJson, ReadTemplate,
         Sub, WriteHeader, CopyTemplate, CopyDone, scrapeVars

\* A function that is no block's, and nobody's namesake, is described as where
\* it is documented last.
THEOREM FunctionsDescribed == Spec => []FunctionsHaveTheirOwn
<1>1. Sequences /\ Sourced /\ Staged /\ FunctionsTold /\ [Next]_vars => FunctionsTold'
  <2> SUFFICES ASSUME Sequences, Sourced, Staged, FunctionsTold, UNCHANGED vars PROVE FunctionsTold'
    BY StepTold
  <2>1. UNCHANGED <<members, phase, source, todo, make_funcs, output>>
    BY DEF vars, scrapeVars
  <2>2. OwnFunctions' = OwnFunctions /\ Listed' = Listed
    BY <2>1, OwnStays DEF Listed
  <2> QED
    BY <2>1, <2>2 DEF FunctionsTold
<1>2. Init => FunctionsTold
  BY ToldInitially
<1>3. Sequences /\ Sourced /\ Read /\ FunctionsTold => FunctionsHaveTheirOwn
  <2> SUFFICES ASSUME Sequences, Sourced, Read, FunctionsTold, phase = "sub",
                      NEW i \in Described, NEW f \in ToSet(source[i].contents), DoxyFunction(f),
                      \A g \in {h \in UNION {Firsts(j) : j \in PlacesOf(f.definition)} :
                                h.definition = f.definition} : g.name \notin make_funcs /\ ~Std(g),
                      "operator " \notin ToSet(f.definition), f.definition \notin ClassKeys
               PROVE  LET d == f.definition
                      IN  Values(output, d) = IF PlacesOf(d) = {} THEN {}
                                              ELSE {ToldAt(Max(PlacesOf(d)), d)}
    BY DEF FunctionsHaveTheirOwn, Values, PlacesOf, ToldAt
  <2>1. PICK list, d : list = Listed /\ d = f.definition
    OBVIOUS
  <2>2. d \in OwnDefinitions
    <3>1. PICK own : own = {m \in ToSet(source[i].contents) : DoxyFunction(m)}
      OBVIOUS
    <3>2. PICK all : all = UNION {{m \in ToSet(source[j].contents) : DoxyFunction(m)} :
                                   j \in Described}
      OBVIOUS
    <3>3. f \in own /\ own \subseteq all
      BY <3>1, <3>2
    <3>4. d \in {g.definition : g \in all}
      BY <2>1, <3>3
    <3> QED
      BY <2>1, <3>2, <3>4 DEF OwnDefinitions
  <2>3. ASSUME NEW j \in Described, NEW g \in Firsts(j), g.definition = d
        PROVE  g.name \notin make_funcs /\ ~Std(g)
    <3>1. j \in PlacesOf(d)
      BY <2>3, DefiningIs DEF PlacesOf
    <3> QED
      BY <2>1, <2>3, <3>1
  <2>4. NamesOf(d) \cap make_funcs = {}
    BY <2>3 DEF NamesOf
  <2>5. PICK own : own = [definition |-> d, names |-> NamesOf(d)]
    OBVIOUS
  <2>6. own \in OwnFunctions /\ own.definition = d /\ own.names = NamesOf(d)
    BY <2>2, <2>5 DEF OwnFunctions
  <2>7. xml = <<>>
    BY DEF Read
  <2>8. Sequence(list) /\ \E src : FromXml(src, list, make_funcs)
    BY <2>1, <2>7, FunctionsFromXml DEF Sequences, Listed
  <2>9. LastDoc(list, Len(list), d) = IF PlacesOf(d) = {} THEN {} ELSE {ToldAt(Max(PlacesOf(d)), d)}
    BY <2>3, <2>8, LastIsOwn
  <2>10. Values(output, d) = LastDoc(list, Len(list), d)
    BY <2>1, <2>4, <2>6 DEF FunctionsTold, Told
  <2> QED
    BY <2>1, <2>9, <2>10
<1>4. IInv /\ OInv => Sequences /\ Sourced /\ Staged
  BY DEF IInv, OInv
<1> QED
  BY <1>1, <1>2, <1>3, <1>4, Invariance, OriginsKept, ReadsKept, PTL DEF Spec
=============================================================================
