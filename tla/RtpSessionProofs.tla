-------------------------- MODULE RtpSessionProofs --------------------------
(***************************************************************************)
(* For every range of sequence numbers and timestamps, window of the       *)
(* network and length of silence within half those ranges: rtp_process     *)
(* counts what was lost and measures the time that passed exactly, and     *)
(* refuses late packets alone.                                             *)
(*                                                                         *)
(* The sender's history and the receiver's are unbounded; the code sees    *)
(* their remainders.  The proof is that the differences it forms of the    *)
(* remainders are the differences of the histories.                        *)
(***************************************************************************)
EXTENDS RtpSession, TLAPS

-----------------------------------------------------------------------------
(* Remainders.  *)

LEMMA ModRange ==
  ASSUME NEW m \in Nat \ {0}, NEW a \in Int
  PROVE  a % m \in 0 .. m - 1 /\ \E q \in Int : a = m * q + (a % m)
<1>1. a % m \in 0 .. m - 1
  OBVIOUS
<1>2. a = m * (a \div m) + (a % m) /\ (a \div m) \in Int
  OBVIOUS
<1> QED
  BY <1>1, <1>2

LEMMA Multiples ==
  ASSUME NEW m \in Nat \ {0}, NEW k \in Int
  PROVE  /\ m * k \in Int /\ m * 0 = 0 /\ m * 1 = m /\ m * (-1) = -m
         /\ k > 0 => m * k >= m
         /\ k < 0 => m * k <= -m
         /\ k > 1 => m * k >= 2 * m
         /\ k < -1 => m * k <= -(2 * m)
  OBVIOUS

LEMMA Distribute ==
  ASSUME NEW m \in Int, NEW a \in Int, NEW b \in Int
  PROVE  m * (a - b) = m * a - m * b /\ m * (a + b) = m * a + m * b
  OBVIOUS

LEMMA ModUnique ==
  ASSUME NEW m \in Nat \ {0}, NEW a \in Int, NEW q \in Int, NEW r \in 0 .. m - 1,
         a = m * q + r
  PROVE  a % m = r
<1>1. PICK p \in Int : a = m * p + (a % m)
  BY ModRange
<1>2. a % m \in 0 .. m - 1
  BY ModRange
<1>3. m * (p - q) = r - (a % m)
  BY <1>1, <1>2, Distribute
<1>4. p - q = 0
  BY <1>2, <1>3, Multiples
<1> QED
  BY <1>1, <1>4

\* Adding at most m to a remainder, one fold is enough.
LEMMA NextMod ==
  ASSUME NEW m \in Nat \ {0}, NEW a \in Int, NEW n \in 0 .. m
  PROVE  (a + n) % m = IF (a % m) + n >= m THEN (a % m) + n - m ELSE (a % m) + n
<1>1. PICK q \in Int : a = m * q + (a % m)
  BY ModRange
<1>2. a % m \in 0 .. m - 1
  BY ModRange
<1> DEFINE r == a % m
<1> HIDE DEF r
<1>3. a = m * q + r /\ r \in 0 .. m - 1
  BY <1>1, <1>2 DEF r
<1>4. CASE r + n >= m
  <2>1. a + n = m * (q + 1) + (r + n - m)
    BY <1>3, Distribute, Multiples
  <2>2. r + n - m \in 0 .. m - 1 /\ q + 1 \in Int /\ a + n \in Int
    BY <1>3, <1>4
  <2>3. (a + n) % m = r + n - m
    BY <2>1, <2>2, ModUnique
  <2> QED
    BY <1>4, <2>3 DEF r
<1>5. CASE ~(r + n >= m)
  <2>1. a + n = m * q + (r + n)
    BY <1>3, Multiples
  <2>2. r + n \in 0 .. m - 1 /\ a + n \in Int
    BY <1>3, <1>5
  <2>3. (a + n) % m = r + n
    BY <2>1, <2>2, ModUnique
  <2> QED
    BY <1>5, <2>3 DEF r
<1> QED
  BY <1>4, <1>5

\* The difference of two remainders, folded, is the difference of the numbers if
\* they are within half the range.
Fold(h, m, d) == IF d >= h THEN d - m ELSE IF d < -h THEN d + m ELSE d

TellsApart(h, m, a, b) == Fold(h, m, (a % m) - (b % m)) = a - b

LEMMA DiffMod ==
  ASSUME NEW h \in Nat \ {0}, NEW m \in Nat \ {0}, m = 2 * h,
         NEW a \in Int, NEW b \in Int, a - b \in -h .. h - 1
  PROVE  TellsApart(h, m, a, b)
<1> DEFINE d == (a % m) - (b % m)
<1>1. PICK p \in Int : a = m * p + (a % m)
  BY ModRange
<1>2. PICK q \in Int : b = m * q + (b % m)
  BY ModRange
<1>3. a % m \in 0 .. m - 1 /\ b % m \in 0 .. m - 1
  BY ModRange
<1>4. d \in -(m - 1) .. m - 1 /\ a - b = m * (p - q) + d
  <2> DEFINE r == a % m
             s == b % m
  <2> HIDE DEF r, s
  <2>1. a = m * p + r /\ b = m * q + s /\ r \in 0 .. m - 1 /\ s \in 0 .. m - 1
    BY <1>1, <1>2, <1>3 DEF r, s
  <2>2. m * p \in Int /\ m * q \in Int /\ m * (p - q) = m * p - m * q
    BY Distribute, Multiples
  <2>3. r - s \in -(m - 1) .. m - 1 /\ a - b = m * (p - q) + (r - s)
    BY <2>1, <2>2
  <2> QED
    BY <2>3 DEF r, s
<1> HIDE DEF d
<1>5. p - q \in {-1, 0, 1}
  BY <1>4, Multiples
<1>6. Fold(h, m, d) = a - b
  BY <1>4, <1>5, Multiples DEF Fold
<1> QED
  BY <1>6 DEF TellsApart, d

-----------------------------------------------------------------------------
(* The inductive invariant.  *)

\* The most frames that pass from the end of one packet to the end of the next.
Step == CHOOSE step \in 1 .. Half :
          /\ Ahead * step <= Half /\ Frames <= step
          /\ \A silence \in Silences : silence \in Nat /\ silence + Frames <= step

Span(n) == n * Step

\* What may still arrive, and the packet taken last.
Known ==
  flight \cup (IF taken > 0 THEN {[index |-> last, start |-> played - Frames]} ELSE {})

Typed ==
  /\ base \in [ssrc : {1, 2}, seq : 0 .. SeqMod - 1, timestamp : UInt]
  /\ sent \in Nat /\ clock \in Nat
  /\ \A p \in flight : p = [index |-> p.index, start |-> p.start]
  /\ taken \in Nat /\ first \in Int /\ last \in Int /\ played \in Int /\ gap \in Int
  /\ result \in Int
  /\ state \in [ssrc : Nat, init : BOOLEAN, seq : 0 .. SeqMod - 1, timestamp : UInt,
                packets : Nat, drops : Int, dupes : Nat]

\* Packets are as far apart in time as their numbers allow.
Paced ==
  /\ \A p \in Known :
       /\ p.index \in 0 .. sent - 1 /\ p.start \in Int
       /\ clock - p.start - Frames >= 0
       /\ clock - p.start - Frames <= Span(sent - 1 - p.index)
  /\ \A p, q \in Known : p.index > q.index =>
       /\ p.start - q.start - Frames >= 0
       /\ p.start - q.start <= Span(p.index - q.index)

\* What may arrive is near what was taken last.
Near ==
  /\ \A p \in flight : sent - Window <= p.index
  /\ taken > 0 => \A p \in flight : p.index - last <= Ahead

\* The code's state is the receiver's history, as far as it is of this sender.
Mirrors ==
  /\ state.init => state.ssrc \in 1 .. base.ssrc
  /\ taken = 0 => ~(state.init /\ state.ssrc = base.ssrc)
  /\ taken > 0 =>
       /\ state.init /\ state.ssrc = base.ssrc
       /\ state.seq = (base.seq + last + 1) % SeqMod
       /\ state.timestamp = (base.timestamp + played) % M
  /\ DropsAccountFor
  /\ GapIsTrue

Inv == Typed /\ Paced /\ Near /\ Mirrors

-----------------------------------------------------------------------------
(* Bounds.  *)

LEMMA StepBounds ==
  /\ Step \in 1 .. Half /\ Ahead * Step <= Half /\ Frames <= Step
  /\ \A silence \in Silences : silence \in Nat /\ silence + Frames <= Step
  BY TimesAssumption DEF Step

LEMMA ConstantBounds ==
  /\ Half \in Nat \ {0} /\ M = 2 * Half /\ M \in Nat \ {0}
  /\ SeqHalf \in Nat \ {0} /\ SeqMod = 2 * SeqHalf /\ SeqMod \in Nat \ {0}
  /\ Frames \in Nat \ {0} /\ Frames <= Half
  /\ Ahead \in 1 .. SeqHalf /\ Window \in 1 .. SeqHalf /\ Window <= Ahead
  /\ Burst \in 0 .. SeqHalf /\ Burst <= Ahead
<1>1. Frames \in Nat \ {0}
  BY TimesAssumption
<1>2. Ahead \in 1 .. SeqHalf /\ Window <= Ahead /\ Burst <= Ahead
  BY NumbersAssumption, SeqHalfAssumption DEF Ahead
<1>3. Half \in Nat \ {0} /\ M = 2 * Half /\ M \in Nat \ {0}
  BY HalfAssumption DEF M
<1>4. SeqHalf \in Nat \ {0} /\ SeqMod = 2 * SeqHalf /\ SeqMod \in Nat \ {0}
  BY SeqHalfAssumption DEF SeqMod
<1>5. Frames <= Half
  BY <1>1, <1>3, StepBounds
<1> QED
  BY <1>1, <1>2, <1>3, <1>4, <1>5, NumbersAssumption

\* What the code's subtractions of sequence numbers and of timestamps yield.
LEMMA SeqDifference ==
  ASSUME NEW a \in Int, NEW b \in Int, a - b \in -SeqHalf .. SeqHalf - 1
  PROVE  ToSeqStep((a % SeqMod) - (b % SeqMod)) = a - b
<1>1. SeqHalf \in Nat \ {0} /\ SeqMod \in Nat \ {0} /\ SeqMod = 2 * SeqHalf
  BY ConstantBounds
<1>2. TellsApart(SeqHalf, SeqMod, a, b)
  BY <1>1, DiffMod, Zenon
<1> QED
  BY <1>2 DEF TellsApart, Fold, ToSeqStep

LEMMA TimeDifference ==
  ASSUME NEW a \in Int, NEW b \in Int, a - b \in -Half .. Half - 1
  PROVE  ToInt((a % M) - (b % M)) = a - b
<1>1. Half \in Nat \ {0} /\ M \in Nat \ {0} /\ M = 2 * Half
  BY ConstantBounds
<1>2. TellsApart(Half, M, a, b)
  BY <1>1, DiffMod, Zenon
<1> QED
  BY <1>2 DEF TellsApart, Fold, ToInt

\* Spans add up, and grow.
LEMMA Spans ==
  /\ Span(0) = 0
  /\ \A n \in Int : Span(n) \in Int /\ Span(n + 1) = Span(n) + Step
  /\ \A n \in 0 .. Ahead : Span(n) <= Half
<1>1. Step \in 1 .. Half /\ Ahead * Step <= Half
  BY StepBounds
<1>2. Step \in Nat \ {0}
  BY <1>1, HalfAssumption
<1>3. \A n \in Int : n * Step \in Int /\ (n + 1) * Step = n * Step + Step
  BY <1>2
<1>4. ASSUME NEW n \in 0 .. Ahead
      PROVE  n * Step <= Half
  <2>1. Ahead \in Int
    BY ConstantBounds
  <2>2. n * Step <= Ahead * Step
    BY <1>2, <2>1
  <2> QED
    BY <1>1, <1>2, <2>1, <2>2, HalfAssumption
<1> QED
  BY <1>2, <1>3, <1>4 DEF Span

-----------------------------------------------------------------------------
(* What the code sees of a packet that arrives.  *)

LEMMA WireIs ==
  ASSUME Inv, NEW p \in flight
  PROVE  /\ Wire(p).ssrc = base.ssrc
         /\ Wire(p).seq = (base.seq + p.index) % SeqMod
         /\ Wire(p).timestamp = (base.timestamp + p.start) % M
         /\ Wire(p).seq \in 0 .. SeqMod - 1 /\ Wire(p).timestamp \in UInt
         /\ p \in Known /\ p.index \in Int /\ p.start \in Int
         /\ base.seq \in Int /\ base.timestamp \in Int
<1>1. p \in Known /\ p.index \in Int /\ p.start \in Int
  BY DEF Inv, Paced, Known
<1>2. base.seq \in Int /\ base.timestamp \in Int
  BY ConstantBounds DEF Inv, Typed, UInt
<1>3. (base.seq + p.index) % SeqMod \in 0 .. SeqMod - 1
  <2> DEFINE a == base.seq + p.index
  <2>1. a \in Int
    BY <1>1, <1>2
  <2> HIDE DEF a
  <2>2. a % SeqMod \in 0 .. SeqMod - 1
    BY <2>1, ConstantBounds, ModRange
  <2> QED
    BY <2>2 DEF a
<1>4. (base.timestamp + p.start) % M \in 0 .. M - 1
  <2> DEFINE a == base.timestamp + p.start
  <2>1. a \in Int
    BY <1>1, <1>2
  <2> HIDE DEF a
  <2>2. a % M \in 0 .. M - 1
    BY <2>1, ConstantBounds, ModRange
  <2> QED
    BY <2>2 DEF a
<1> QED
  BY <1>1, <1>2, <1>3, <1>4 DEF Wire, UInt

\* The first packet of a sender starts a session, at that packet.
LEMMA FirstSeen ==
  ASSUME Inv, NEW p \in flight, taken = 0
  PROVE  /\ Session(Wire(p)) = [ssrc |-> base.ssrc, init |-> TRUE, seq |-> Wire(p).seq,
                timestamp |-> Wire(p).timestamp, packets |-> 0, drops |-> 0, dupes |-> 0]
         /\ SeqStep(Wire(p)) = 0 /\ TimeGap(Wire(p)) = 0
<1>1. ~(state.init /\ Wire(p).ssrc = state.ssrc)
  BY WireIs DEF Inv, Mirrors
<1>2. Session(Wire(p)) = [ssrc |-> base.ssrc, init |-> TRUE, seq |-> Wire(p).seq,
                timestamp |-> Wire(p).timestamp, packets |-> 0, drops |-> 0, dupes |-> 0]
  BY <1>1, WireIs DEF Session
<1>3. Wire(p).seq \in Int /\ Wire(p).timestamp \in Int
  BY WireIs, ConstantBounds DEF UInt
<1>4. SeqStep(Wire(p)) = ToSeqStep(0) /\ TimeGap(Wire(p)) = ToInt(0)
  BY <1>2, <1>3 DEF SeqStep, TimeGap
<1> QED
  BY <1>2, <1>4, ConstantBounds DEF ToSeqStep, ToInt

\* Of any later one the code finds how far its number is from the one due.
LEMMA StepSeen ==
  ASSUME Inv, NEW p \in flight, taken > 0
  PROVE  Session(Wire(p)) = state /\ SeqStep(Wire(p)) = p.index - last - 1
<1>1. Session(Wire(p)) = state
  BY WireIs DEF Inv, Mirrors, Session
<1>2. p.index \in Int /\ last \in Int /\ base.seq \in Int /\ sent \in Nat
  BY WireIs DEF Inv, Typed
<1>3. last <= sent - 1
  <2>1. [index |-> last, start |-> played - Frames] \in Known
    BY DEF Known
  <2> QED
    BY <1>2, <2>1 DEF Inv, Paced
<1>4. p.index - last - 1 \in -SeqHalf .. SeqHalf - 1
  BY <1>2, <1>3, ConstantBounds DEF Inv, Near
<1> DEFINE a == base.seq + p.index
           b == base.seq + last + 1
<1>5. a \in Int /\ b \in Int /\ a - b = p.index - last - 1
  BY <1>2
<1>6. ToSeqStep((a % SeqMod) - (b % SeqMod)) = a - b
  <2>1. a - b \in -SeqHalf .. SeqHalf - 1
    BY <1>4, <1>5
  <2> HIDE DEF a, b
  <2> QED
    BY <1>5, <2>1, SeqDifference
<1>7. Wire(p).seq = a % SeqMod /\ state.seq = b % SeqMod
  BY WireIs DEF Inv, Mirrors
<1>8. SeqStep(Wire(p)) = ToSeqStep((a % SeqMod) - (b % SeqMod))
  BY <1>1, <1>7 DEF SeqStep
<1> QED
  BY <1>1, <1>5, <1>6, <1>8

\* And, if it is not late, how long there were no samples before it.
LEMMA GapSeen ==
  ASSUME Inv, NEW p \in flight, taken > 0, p.index > last
  PROVE  TimeGap(Wire(p)) = p.start - played /\ p.start - played >= 0
<1>1. Session(Wire(p)) = state
  BY StepSeen
<1> DEFINE l == [index |-> last, start |-> played - Frames]
<1>2. l \in Known /\ p \in Known
  BY WireIs DEF Known
<1>3. /\ p.index \in Int /\ p.start \in Int /\ last \in Int /\ played \in Int
      /\ base.timestamp \in Int
  BY WireIs DEF Inv, Typed
<1>4. p.start - played >= 0 /\ p.start - (played - Frames) <= Span(p.index - last)
  BY <1>2, <1>3, ConstantBounds DEF Inv, Paced
<1>5. p.index - last \in 0 .. Ahead
  BY <1>3, ConstantBounds DEF Inv, Near
<1>6. Span(p.index - last) <= Half /\ Span(p.index - last) \in Int
  BY <1>3, <1>5, Spans
<1>7. p.start - played \in -Half .. Half - 1
  BY <1>3, <1>4, <1>6, ConstantBounds
<1> DEFINE a == base.timestamp + p.start
           b == base.timestamp + played
<1>8. a \in Int /\ b \in Int /\ a - b = p.start - played
  BY <1>3
<1>9. ToInt((a % M) - (b % M)) = a - b
  <2>1. a - b \in -Half .. Half - 1
    BY <1>7, <1>8
  <2> HIDE DEF a, b
  <2> QED
    BY <1>8, <2>1, TimeDifference
<1>10. Wire(p).timestamp = a % M /\ state.timestamp = b % M
  BY WireIs DEF Inv, Mirrors
<1>11. TimeGap(Wire(p)) = ToInt((a % M) - (b % M))
  BY <1>1, <1>10 DEF TimeGap
<1> QED
  BY <1>4, <1>8, <1>9, <1>11

\* The number due after p, and the time.
LEMMA DueAfter ==
  ASSUME Inv, NEW p \in flight
  PROVE  /\ ToSeq(Wire(p).seq + 1) = (base.seq + p.index + 1) % SeqMod
         /\ ToUint(Wire(p).timestamp + Frames) = (base.timestamp + (p.start + Frames)) % M
         /\ (base.seq + p.index + 1) % SeqMod \in 0 .. SeqMod - 1
         /\ (base.timestamp + (p.start + Frames)) % M \in UInt
<1> DEFINE a == base.seq + p.index
           b == base.timestamp + p.start
<1>1. a \in Int /\ b \in Int /\ p.start \in Int /\ base.timestamp \in Int
  BY WireIs
<1>2. Wire(p).seq = a % SeqMod /\ Wire(p).timestamp = b % M
  BY WireIs
<1>3. base.timestamp + (p.start + Frames) = b + Frames
  BY <1>1, ConstantBounds
<1> HIDE DEF a, b
<1>4. 1 \in 0 .. SeqMod /\ Frames \in 0 .. M
  BY ConstantBounds
<1>5. (a + 1) % SeqMod = IF (a % SeqMod) + 1 >= SeqMod THEN (a % SeqMod) + 1 - SeqMod
                         ELSE (a % SeqMod) + 1
  BY <1>1, <1>4, ConstantBounds, NextMod
<1>6. (b + Frames) % M = IF (b % M) + Frames >= M THEN (b % M) + Frames - M
                         ELSE (b % M) + Frames
  BY <1>1, <1>4, ConstantBounds, NextMod
<1>7. a % SeqMod \in 0 .. SeqMod - 1 /\ b % M \in 0 .. M - 1
  BY <1>1, ConstantBounds, ModRange
<1>8. ToSeq(Wire(p).seq + 1) = (a + 1) % SeqMod
  BY <1>2, <1>5, <1>7, ConstantBounds DEF ToSeq
<1>9. ToUint(Wire(p).timestamp + Frames) = (b + Frames) % M
  BY <1>2, <1>6, <1>7, ConstantBounds DEF ToUint
<1>10. (a + 1) % SeqMod \in 0 .. SeqMod - 1 /\ (b + Frames) % M \in UInt
  BY <1>1, <1>5, <1>6, <1>7, ConstantBounds DEF UInt
<1> QED
  BY <1>3, <1>8, <1>9, <1>10 DEF a

-----------------------------------------------------------------------------
(* What it does with a packet.  *)

LEMMA TakesFirst ==
  ASSUME Inv, NEW p \in flight, taken = 0, rtp_process(Wire(p), Frames)
  PROVE  /\ state' = [ssrc |-> base.ssrc, init |-> TRUE,
                      seq |-> (base.seq + p.index + 1) % SeqMod,
                      timestamp |-> (base.timestamp + (p.start + Frames)) % M,
                      packets |-> 1, drops |-> 0, dupes |-> 0]
         /\ result' = 0
<1>1. TakeDue(Wire(p), Frames)
  BY FirstSeen DEF rtp_process, DropDupe
<1> DEFINE t == (base.timestamp + (p.start + Frames)) % M
           n == (base.seq + p.index + 1) % SeqMod
           w == Wire(p)
           yes == TRUE
<1>2. SeqStep(w) = 0 /\ TimeGap(w) = 0 /\ ToSeq(w.seq + 1) = n /\ ToUint(w.timestamp + Frames) = t
  BY FirstSeen, DueAfter
<1>3. Session(w) = [ssrc |-> base.ssrc, init |-> yes, seq |-> w.seq,
                timestamp |-> w.timestamp, packets |-> 0, drops |-> 0, dupes |-> 0]
  BY FirstSeen
<1>4. TakeDue(w, Frames)
  BY <1>1
<1> HIDE DEF t, n, w, yes
<1>5. result' = 0
  BY <1>2, <1>4 DEF TakeDue
<1>6. Session(w).packets + 1 = 1 /\ Session(w).drops + SeqStep(w) = 0 /\ ~(TimeGap(w) < 0)
  BY <1>2, <1>3
<1>7. state' = [Session(w) EXCEPT !.packets = 1, !.drops = 0, !.seq = n, !.timestamp = t]
  BY <1>2, <1>4, <1>6 DEF TakeDue
<1> DEFINE session == Session(w)
           ssrc == base.ssrc
           seq == w.seq
           ts == w.timestamp
<1>8. session = [ssrc |-> ssrc, init |-> yes, seq |-> seq, timestamp |-> ts,
                packets |-> 0, drops |-> 0, dupes |-> 0]
  BY <1>3
<1>9. state' = [session EXCEPT !.packets = 1, !.drops = 0, !.seq = n, !.timestamp = t]
  BY <1>7
<1> HIDE DEF session, ssrc, seq, ts
<1>10. state' = [ssrc |-> ssrc, init |-> yes, seq |-> n, timestamp |-> t,
                packets |-> 1, drops |-> 0, dupes |-> 0]
  BY <1>8, <1>9
<1> QED
  BY <1>5, <1>10 DEF n, t, yes, ssrc

LEMMA RefusesLate ==
  ASSUME Inv, NEW p \in flight, taken > 0, p.index <= last, rtp_process(Wire(p), Frames)
  PROVE  state' = [state EXCEPT !.packets = @ + 1, !.dupes = @ + 1] /\ result' = -1
<1>1. SeqStep(Wire(p)) < 0 /\ ~(SeqStep(Wire(p)) >= 0) /\ Session(Wire(p)) = state
  BY StepSeen, WireIs DEF Inv, Typed
<1>2. DropDupe(Wire(p))
  BY <1>1 DEF rtp_process, TakeDue
<1> QED
  BY <1>1, <1>2 DEF DropDupe

LEMMA TakesDue ==
  ASSUME Inv, NEW p \in flight, taken > 0, p.index > last, rtp_process(Wire(p), Frames)
  PROVE  /\ state' = [state EXCEPT
                        !.packets = @ + 1,
                        !.drops = @ + (p.index - last - 1),
                        !.seq = (base.seq + p.index + 1) % SeqMod,
                        !.timestamp = (base.timestamp + (p.start + Frames)) % M]
         /\ result' = p.start - played /\ result' >= 0
<1>1. /\ SeqStep(Wire(p)) = p.index - last - 1 /\ Session(Wire(p)) = state
      /\ ~(SeqStep(Wire(p)) < 0)
  BY StepSeen, WireIs DEF Inv, Typed
<1>2. TimeGap(Wire(p)) = p.start - played /\ p.start - played >= 0
  BY GapSeen
<1>3. TakeDue(Wire(p), Frames)
  BY <1>1 DEF rtp_process, DropDupe
<1>4. ~(TimeGap(Wire(p)) < 0)
  BY <1>2, WireIs DEF Inv, Typed
<1>5. state' = [state EXCEPT
                 !.packets = @ + 1, !.drops = @ + (p.index - last - 1),
                 !.seq = ToSeq(Wire(p).seq + 1),
                 !.timestamp = ToUint(Wire(p).timestamp + Frames)]
  BY <1>1, <1>3, <1>4 DEF TakeDue
<1> QED
  BY <1>2, <1>3, <1>5, DueAfter DEF TakeDue

-----------------------------------------------------------------------------
(* The invariant is inductive.  *)

LEMMA InvInit == Init => Inv
<1> SUFFICES ASSUME Init PROVE Inv
  OBVIOUS
<1>1. /\ base \in [ssrc : {1}, seq : FirstSeq, timestamp : FirstTime]
      /\ sent = 0 /\ clock = 0 /\ flight = {}
      /\ first = -1 /\ last = -1 /\ taken = 0 /\ played = 0 /\ gap = 0 /\ result = 0
  BY DEF Init, RtpInit, NoPacket
<1>2. state = [ssrc |-> 0, init |-> FALSE, seq |-> 0, timestamp |-> 0,
              packets |-> 0, drops |-> 0, dupes |-> 0]
  BY DEF Init, RtpInit
<1>3. Typed
  <2>1. base \in [ssrc : {1, 2}, seq : 0 .. SeqMod - 1, timestamp : UInt]
    BY <1>1, NumbersAssumption
  <2>2. 0 \in 0 .. SeqMod - 1 /\ 0 \in UInt
    BY ConstantBounds DEF UInt
  <2> QED
    BY <1>1, <1>2, <2>1, <2>2 DEF Typed
<1>4. Known = {}
  BY <1>1 DEF Known
<1> QED
  BY <1>1, <1>2, <1>3, <1>4 DEF Inv, Paced, Near, Mirrors, DropsAccountFor, GapIsTrue

LEMMA SendStep ==
  ASSUME Inv, NEW silence \in Silences, Send(silence)
  PROVE  Inv'
<1> DEFINE new == [index |-> sent, start |-> clock + silence]
<1>1. /\ flight' \subseteq flight \cup {new}
      /\ \A p \in flight' : p = new \/ p.index > sent - Window
      /\ sent' = sent + 1 /\ clock' = clock + silence + Frames
      /\ UNCHANGED <<state, result, base, history>>
      /\ taken > 0 => sent - last <= Burst
  BY DEF Send
<1>2. /\ silence \in Nat /\ silence + Frames <= Step /\ Step \in Nat /\ Frames \in Nat \ {0}
      /\ sent \in Nat /\ clock \in Nat
  BY StepBounds, ConstantBounds DEF Inv, Typed
<1>3. Typed'
  BY <1>1, <1>2 DEF Inv, Typed, history
<1>4. Known' \subseteq Known \cup {new}
  BY <1>1 DEF Known, history
<1>5. Paced'
  <2>1. ASSUME NEW p \in Known
        PROVE  /\ p.index \in 0 .. sent - 1 /\ p.start \in Int
               /\ clock - p.start - Frames >= 0
               /\ clock - p.start - Frames <= Span(sent - 1 - p.index)
               /\ Span(sent - p.index) = Span(sent - 1 - p.index) + Step
               /\ Span(sent - 1 - p.index) \in Int
    <3>1. /\ p.index \in 0 .. sent - 1 /\ p.start \in Int
          /\ clock - p.start - Frames >= 0
          /\ clock - p.start - Frames <= Span(sent - 1 - p.index)
      BY DEF Inv, Paced
    <3>2. sent - 1 - p.index \in Int /\ (sent - 1 - p.index) + 1 = sent - p.index
      BY <1>2, <3>1
    <3> QED
      BY <3>1, <3>2, Spans
  <2>2. ASSUME NEW p \in Known'
        PROVE  /\ p.index \in 0 .. sent' - 1 /\ p.start \in Int
               /\ clock' - p.start - Frames >= 0
               /\ clock' - p.start - Frames <= Span(sent' - 1 - p.index)
    <3>1. CASE p = new
      BY <1>1, <1>2, <3>1, Spans
    <3>2. CASE p \in Known
      <4>1. sent' - 1 - p.index = sent - p.index
        BY <1>1, <1>2, <2>1, <3>2
      <4> QED
        BY <1>1, <1>2, <2>1, <3>2, <4>1
    <3> QED
      BY <1>4, <3>1, <3>2
  <2>3. ASSUME NEW p \in Known', NEW q \in Known', p.index > q.index
        PROVE  p.start - q.start - Frames >= 0 /\ p.start - q.start <= Span(p.index - q.index)
    <3>1. CASE p \in Known /\ q \in Known
      BY <2>3, <3>1 DEF Inv, Paced
    <3>2. CASE p = new /\ q \in Known
      <4>1. p.start - q.start = (clock - q.start - Frames) + (silence + Frames)
        BY <1>2, <2>1, <3>2
      <4> QED
        BY <1>2, <2>1, <3>2, <4>1
    <3>3. CASE q = new
      <4>1. p.index <= sent
        BY <1>1, <1>2, <2>2
      <4> QED
        BY <1>2, <2>2, <2>3, <3>3, <4>1
    <3> QED
      BY <1>4, <3>1, <3>2, <3>3
  <2> QED
    BY <2>2, <2>3 DEF Paced, Span
<1>6. Near'
  <2>1. \A p \in flight : p.index \in Int /\ p.index <= sent - 1
    BY <1>2 DEF Inv, Paced, Known
  <2>2. last \in Int /\ taken' = taken /\ last' = last
    BY <1>1 DEF Inv, Typed, history
  <2>3. \A p \in flight' : sent' - Window <= p.index
    BY <1>1, <1>2, <2>1, ConstantBounds
  <2>4. taken > 0 => \A p \in flight' : p.index - last <= Ahead
    BY <1>1, <1>2, <2>1, <2>2, ConstantBounds DEF Inv, Near
  <2> QED
    BY <2>2, <2>3, <2>4 DEF Near
<1>7. Mirrors'
  BY <1>1 DEF Inv, Mirrors, DropsAccountFor, GapIsTrue, history
<1> QED
  BY <1>3, <1>5, <1>6, <1>7 DEF Inv

\* Nothing but the newest packet taken changes what is known, and that packet
\* was known.
LEMMA TakenStep ==
  ASSUME Inv, NEW p \in flight, UNCHANGED sender,
         taken' = taken + 1, last' = p.index, played' = p.start + Frames
  PROVE  Paced' /\ Near'
<1>1. /\ taken' > 0 /\ p.start \in Int /\ p.index \in Int
      /\ p = [index |-> p.index, start |-> p.start]
  BY WireIs DEF Inv, Typed
<1>2. played' - Frames = p.start
  BY <1>1, ConstantBounds
<1>3. [index |-> last', start |-> played' - Frames] = p
  BY <1>1, <1>2
<1>4. Known' \subseteq Known
  BY <1>3 DEF Known, sender
<1>5. Paced'
  BY <1>4 DEF Inv, Paced, sender, Span
<1>6. ASSUME NEW q \in flight
      PROVE  q.index - p.index <= Ahead
  <2>1. q.index \in Int /\ q.index <= sent - 1 /\ sent \in Nat /\ p.index >= sent - Window
    BY DEF Inv, Paced, Near, Typed, Known
  <2> QED
    BY <1>1, <2>1, ConstantBounds
<1> QED
  BY <1>5, <1>6 DEF Inv, Near, sender

LEMMA DeliverStep ==
  ASSUME Inv, NEW p \in flight, Deliver(p)
  PROVE  Inv'
<1>1. rtp_process(Wire(p), Frames) /\ Record(p) /\ UNCHANGED sender
  BY DEF Deliver
<1>2. /\ p.index \in Int /\ p.start \in Int /\ last \in Int /\ taken \in Nat
      /\ first \in Int /\ played \in Int /\ gap \in Int /\ Frames \in Nat
      /\ base \in [ssrc : {1, 2}, seq : 0 .. SeqMod - 1, timestamp : UInt]
  BY WireIs, ConstantBounds DEF Inv, Typed
<1> DEFINE n == (base.seq + p.index + 1) % SeqMod
           t == (base.timestamp + (p.start + Frames)) % M
<1>3. n \in 0 .. SeqMod - 1 /\ t \in UInt
  BY DueAfter
<1>4. CASE taken = 0
  <2>1. /\ state' = [ssrc |-> base.ssrc, init |-> TRUE, seq |-> n, timestamp |-> t,
                     packets |-> 1, drops |-> 0, dupes |-> 0]
        /\ result' = 0
    BY <1>1, <1>4, TakesFirst
  <2>2. /\ first' = p.index /\ last' = p.index /\ taken' = taken + 1 /\ taken' = 1
        /\ gap' = 0 /\ played' = p.start + Frames
    BY <1>1, <1>4, <2>1 DEF Record
  <2>3. Paced' /\ Near'
    BY <1>1, <2>2, TakenStep
  <2> HIDE DEF n, t
  <2>4. Typed'
    BY <1>1, <1>2, <1>3, <2>1, <2>2 DEF Inv, Typed, sender
  <2>5. /\ state'.ssrc = base.ssrc /\ state'.init /\ state'.seq = n /\ state'.timestamp = t
        /\ state'.packets = 1 /\ state'.drops = 0 /\ state'.dupes = 0
    BY <2>1
  <2>6. Mirrors'
    BY <1>1, <1>2, <2>1, <2>2, <2>5 DEF Mirrors, DropsAccountFor, GapIsTrue, sender, n, t
  <2> QED
    BY <2>3, <2>4, <2>6 DEF Inv
<1>5. CASE taken > 0 /\ p.index <= last
  <2>1. state' = [state EXCEPT !.packets = @ + 1, !.dupes = @ + 1] /\ result' = -1
    BY <1>1, <1>5, RefusesLate
  <2>2. UNCHANGED <<first, last, taken, gap, played>>
    BY <1>1, <2>1 DEF Record
  <2>3. Known' = Known
    BY <1>1, <2>2 DEF Known, sender
  <2>4. Paced' /\ Near'
    BY <1>1, <2>2, <2>3 DEF Inv, Paced, Near, sender, Span
  <2>5. Typed'
    <3> DEFINE packets == state.packets + 1
               dupes == state.dupes + 1
    <3>1. packets \in Nat /\ dupes \in Nat
      BY DEF Inv, Typed
    <3>2. state' = [state EXCEPT !.packets = packets, !.dupes = dupes]
      BY <2>1
    <3> HIDE DEF packets, dupes
    <3>3. state' \in [ssrc : Nat, init : BOOLEAN, seq : 0 .. SeqMod - 1, timestamp : UInt,
                      packets : Nat, drops : Int, dupes : Nat]
      BY <3>1, <3>2 DEF Inv, Typed
    <3> QED
      BY <1>1, <2>1, <2>2, <3>3 DEF Inv, Typed, sender
  <2>6. /\ state'.ssrc = state.ssrc /\ state'.init = state.init /\ state'.seq = state.seq
        /\ state'.timestamp = state.timestamp /\ state'.drops = state.drops
        /\ state'.packets = state.packets + 1 /\ state'.dupes = state.dupes + 1
        /\ state.packets \in Nat /\ state.dupes \in Nat
    BY <2>1 DEF Inv, Typed
  <2>7. Mirrors'
    BY <1>1, <1>2, <2>1, <2>2, <2>6 DEF Inv, Mirrors, DropsAccountFor, GapIsTrue, sender
  <2> QED
    BY <2>4, <2>5, <2>7 DEF Inv
<1>6. CASE taken > 0 /\ p.index > last
  <2>1. /\ state' = [state EXCEPT !.packets = @ + 1, !.drops = @ + (p.index - last - 1),
                                  !.seq = n, !.timestamp = t]
        /\ result' = p.start - played /\ result' >= 0
    BY <1>1, <1>6, TakesDue
  <2>2. /\ first' = first /\ last' = p.index /\ taken' = taken + 1
        /\ gap' = p.start - played /\ played' = p.start + Frames
    BY <1>1, <1>2, <1>6, <2>1 DEF Record
  <2>3. Paced' /\ Near'
    BY <1>1, <2>2, TakenStep
  <2> HIDE DEF n, t
  <2>4. Typed'
    <3> DEFINE packets == state.packets + 1
               drops == state.drops + (p.index - last - 1)
    <3>1. packets \in Nat /\ drops \in Int /\ p.start - played \in Int
      BY <1>2 DEF Inv, Typed
    <3>2. state' = [state EXCEPT !.packets = packets, !.drops = drops, !.seq = n,
                                 !.timestamp = t]
      BY <2>1
    <3> HIDE DEF packets, drops
    <3>3. state' \in [ssrc : Nat, init : BOOLEAN, seq : 0 .. SeqMod - 1, timestamp : UInt,
                      packets : Nat, drops : Int, dupes : Nat]
      BY <1>3, <3>1, <3>2 DEF Inv, Typed
    <3> QED
      BY <1>1, <1>2, <2>1, <2>2, <3>1, <3>3 DEF Inv, Typed, sender
  <2>5. /\ state'.ssrc = state.ssrc /\ state'.init = state.init /\ state'.seq = n
        /\ state'.timestamp = t /\ state'.drops = state.drops + (p.index - last - 1)
        /\ state'.packets = state.packets + 1 /\ state'.dupes = state.dupes
        /\ state.packets \in Nat /\ state.dupes \in Nat /\ state.drops \in Int
    BY <2>1 DEF Inv, Typed
  <2>6. Mirrors'
    BY <1>1, <1>2, <1>6, <2>1, <2>2, <2>5
       DEF Inv, Mirrors, DropsAccountFor, GapIsTrue, sender, n, t
  <2> QED
    BY <2>3, <2>4, <2>6 DEF Inv
<1> QED
  BY <1>2, <1>4, <1>5, <1>6

\* A restarted sender that may not keep its SSRC has another than the session's.
LEMMA RestartStep ==
  ASSUME Inv, Rewinds = FALSE, NEW ssrc \in {2} \cup (IF Rewinds THEN {1} ELSE {}),
         NEW seq \in FirstSeq, NEW ts \in FirstTime, Restart(ssrc, seq, ts)
  PROVE  Inv'
<1>1. /\ base' = [ssrc |-> 2, seq |-> seq, timestamp |-> ts] /\ base.ssrc = 1
      /\ sent' = 0 /\ clock' = 0 /\ flight' = {}
      /\ first' = -1 /\ last' = -1 /\ taken' = 0 /\ played' = 0 /\ gap' = 0
      /\ state' = state /\ result' = result
  BY DEF Restart, Start, NoPacket
<1>2. base' \in [ssrc : {1, 2}, seq : 0 .. SeqMod - 1, timestamp : UInt]
  BY <1>1, NumbersAssumption
<1>3. Typed'
  BY <1>1, <1>2 DEF Inv, Typed
<1>4. Known' = {}
  BY <1>1 DEF Known
<1>5. base'.ssrc = 2
  BY <1>1
<1>6. state.init => state.ssrc = 1
  BY <1>1 DEF Inv, Mirrors
<1> QED
  BY <1>1, <1>3, <1>4, <1>5, <1>6 DEF Inv, Paced, Near, Mirrors, DropsAccountFor, GapIsTrue

LEMMA InvStep ==
  ASSUME Inv, Rewinds = FALSE, [Next]_vars
  PROVE  Inv'
<1>1. CASE \E silence \in Silences : Send(silence)
  BY <1>1, SendStep
<1>2. CASE \E p \in flight : Deliver(p)
  BY <1>2, DeliverStep
<1>3. CASE \E ssrc \in {2} \cup (IF Rewinds THEN {1} ELSE {}), seq \in FirstSeq,
              ts \in FirstTime : Restart(ssrc, seq, ts)
  BY <1>3, RestartStep
<1>4. CASE UNCHANGED vars
  BY <1>4 DEF vars, sender, history, Inv, Typed, Paced, Near, Mirrors, DropsAccountFor,
              GapIsTrue, Known, Span
<1> QED
  BY <1>1, <1>2, <1>3, <1>4 DEF Next

-----------------------------------------------------------------------------
(* If a restarted sender changes its SSRC, as RTP asks of it: *)

\* the drops rtp_process counts are exactly the packets that were lost or came
\* late, across the wrap of the sequence number;
THEOREM CountsDrops ==
  ASSUME Rewinds = FALSE
  PROVE  Spec => []DropsAccountFor
<1>1. Inv => DropsAccountFor
  BY DEF Inv, Mirrors
<1>2. Inv /\ [Next]_vars => Inv'
  BY InvStep
<1> QED
  BY InvInit, <1>1, <1>2, PTL DEF Spec

\* the jump it returns is the time that passed without samples, across the wrap
\* of the timestamp;
THEOREM MeasuresGaps ==
  ASSUME Rewinds = FALSE
  PROVE  Spec => []GapIsTrue
<1>1. Inv => GapIsTrue
  BY DEF Inv, Mirrors
<1>2. Inv /\ [Next]_vars => Inv'
  BY InvStep
<1> QED
  BY InvInit, <1>1, <1>2, PTL DEF Spec

\* and it refuses no packet but one that is late, and that by its number.
THEOREM RefusesOnlyLate ==
  ASSUME Rewinds = FALSE
  PROVE  Spec => RefusedIsLate
<1>1. ASSUME Inv, NEW p \in flight, Deliver(p), result' < 0
      PROVE  result' = -1 /\ taken > 0 /\ p.index <= last
  <2>1. rtp_process(Wire(p), Frames)
    BY <1>1 DEF Deliver
  <2>2. taken \in Nat /\ p.index \in Int /\ last \in Int
    BY <1>1, WireIs DEF Inv, Typed
  <2>3. taken > 0
    <3>1. taken # 0
      BY <1>1, <2>1, TakesFirst
    <3> QED
      BY <2>2, <3>1
  <2>4. ~(p.index > last)
    <3>1. ASSUME p.index > last PROVE FALSE
      <4>1. result' = p.start - played /\ result' >= 0
        BY <1>1, <2>1, <2>2, <2>3, <3>1, TakesDue
      <4>2. p.start \in Int /\ played \in Int
        BY <1>1, WireIs DEF Inv, Typed
      <4> QED
        BY <1>1, <4>1, <4>2
    <3> QED
      BY <3>1
  <2> QED
    BY <1>1, <2>1, <2>2, <2>3, <2>4, RefusesLate
<1>2. Inv /\ [Next]_vars =>
        [\A p \in flight : (Deliver(p) /\ result' < 0) =>
           result' = -1 /\ taken > 0 /\ p.index <= last]_vars
  BY <1>1
<1>3. Inv /\ [Next]_vars => Inv'
  BY InvStep
<1> QED
  BY InvInit, <1>2, <1>3, PTL DEF Spec, RefusedIsLate
=============================================================================
