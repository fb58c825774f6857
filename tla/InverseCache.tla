---------------------------- MODULE InverseCache ----------------------------
(***************************************************************************)
(* formatsock (lib/multicast.c): the printable name of a socket address,   *)
(* kept in a doubly linked list whose entries move to the front when they  *)
(* are found and are never freed.                                          *)
(*                                                                         *)
(* The heap is a function from entries to their fields; an entry is        *)
(* allocated by number.  A call is one step, as the code requires of its   *)
(* callers ("Needs locks to be made thread safe").  The name, got from     *)
(* getnameinfo, is represented by the address it was made for.             *)
(***************************************************************************)
EXTENDS Integers, Sequences, FiniteSets

CONSTANTS
  Socks,        \* IPv4 and IPv6 addresses with their ports
  NULL

ASSUME NullAssumption == NULL \notin Nat        \* entries are numbered

VARIABLES
  head,         \* Inverse_cache_table
  heap,         \* the entries allocated: next, prev, sock
  answer        \* the address whose name the latest call returned

vars == <<head, heap, answer>>

Entries == DOMAIN heap

NoAnswer == [sock |-> "none"]

Init ==
  /\ head = NULL
  /\ heap = <<>>
  /\ answer = NoAnswer

-----------------------------------------------------------------------------
\* The entries the search visits, in its order.  It would go round for ever in
\* a list with a cycle; one entry more than there are tells such a list.
Chain ==
  LET walk[n \in Nat] ==
        IF n = 0 THEN <<>>
        ELSE LET w == walk[n - 1]
                 ic == IF w = <<>> THEN head ELSE heap[w[Len(w)]].next
             IN  IF ic = NULL THEN w ELSE Append(w, ic)
  IN  walk[Cardinality(Entries) + 1]

\* The first entry on the list for the address s, if any.
Hits(s) == {i \in 1 .. Len(Chain) : heap[Chain[i]].sock = s}

Found(s) == Chain[CHOOSE i \in Hits(s) : \A j \in Hits(s) : i <= j]

\* Already at the top of the list.
HitFirst(s) ==
  /\ Hits(s) # {}
  /\ heap[Found(s)].prev = NULL
  /\ UNCHANGED <<head, heap>>

\* Taken out of its place: its neighbours now point at each other.
Unlinked_OneWay(h, ic) ==               \* faulty: the next keeps its prev
  [h EXCEPT ![h[ic].prev].next = h[ic].next]

Unlinked(h, ic) ==
  [e \in DOMAIN h |->
     IF e = h[ic].prev THEN [h[e] EXCEPT !.next = h[ic].next]
     ELSE IF e = h[ic].next THEN [h[e] EXCEPT !.prev = h[ic].prev]
     ELSE h[e]]

\* Put at the front of the list.
AtFront_KeepsPrev(h, ic) ==             \* faulty: prev is not reset
  [e \in DOMAIN h |->
     IF e = ic THEN [h[e] EXCEPT !.next = head]
     ELSE IF e = head THEN [h[e] EXCEPT !.prev = ic]
     ELSE h[e]]

AtFront(h, ic) ==
  [e \in DOMAIN h |->
     IF e = ic THEN [h[e] EXCEPT !.next = head, !.prev = NULL]
     ELSE IF e = head THEN [h[e] EXCEPT !.prev = ic]
     ELSE h[e]]

HitLater(s) ==
  /\ Hits(s) # {}
  /\ heap[Found(s)].prev # NULL
  /\ heap' = AtFront(Unlinked(heap, Found(s)), Found(s))
  /\ head' = Found(s)

\* Not in the list yet: a fresh entry.
Miss(s) ==
  /\ Hits(s) = {}
  /\ LET ic == Len(heap) + 1
     IN  /\ heap' = AtFront(Append(heap, [next |-> NULL, prev |-> NULL, sock |-> s]), ic)
         /\ head' = ic

formatsock(s) ==
  /\ HitFirst(s) \/ HitLater(s) \/ Miss(s)
  /\ answer' = [sock |-> s]

Next == \E s \in Socks : formatsock(s)

Spec == Init /\ [][Next]_vars

-----------------------------------------------------------------------------
\* The list can be walked both ways: it starts at the head, every link back
\* undoes a link forward, and no entry allocated is lost from it.
LinksSound ==
  /\ Len(Chain) = Cardinality(Entries)
  /\ \A i \in 1 .. Len(Chain) :
       heap[Chain[i]].prev = IF i = 1 THEN NULL ELSE Chain[i - 1]

\* The list behaves as the addresses asked for, each once, the latest first.
Recency == INSTANCE RecencyList WITH list <- [i \in 1 .. Len(Chain) |-> heap[Chain[i]].sock]
MostRecentFirst == Recency!Spec
=============================================================================
