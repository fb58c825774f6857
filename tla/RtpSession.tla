----------------------------- MODULE RtpSession -----------------------------
(***************************************************************************)
(* A sender, a network that loses, repeats and reorders, and a receiver    *)
(* that hands every packet of one SSRC to rtp_process.                     *)
(*                                                                         *)
(* The sender numbers its packets from FirstSeq on and may fall silent     *)
(* before one.  A packet can still arrive while fewer than Window later    *)
(* ones have been sent.  The sender may restart, with a new SSRC or (as    *)
(* Rewinds allows) the old one, from another number and time.  Unless the  *)
(* receiver has yet to take its first packet, at most Burst packets in a   *)
(* row are lost: a longer outage would exceed half the range of a          *)
(* sequence number here long before it did in the code.                    *)
(***************************************************************************)
EXTENDS RtpProcess, FiniteSets

CONSTANTS
  Frames,        \* frames in every packet
  Silences,      \* frames of silence the sender may leave before a packet
  Window,        \* how many packets the network may still deliver
  Burst,         \* bound: packets lost in a row
  MaxSent,       \* bound: packets sent between two restarts
  MaxHandled,    \* bound: packets handled
  FirstSeq,      \* sequence numbers the sender may start from
  FirstTime,     \* and timestamps
  Rewinds        \* whether a restarted sender may keep its SSRC

\* Numbers are told apart within half their range, and so are the times of two
\* packets as far apart as packets may arrive: step bounds a packet's frames and
\* the silence before it.
Ahead == IF Burst > Window THEN Burst ELSE Window

ASSUME NumbersAssumption ==
  /\ Window \in 1 .. SeqHalf /\ Burst \in 0 .. SeqHalf
  /\ FirstSeq \subseteq 0 .. SeqMod - 1 /\ FirstTime \subseteq UInt

ASSUME TimesAssumption ==
  /\ Frames \in Nat \ {0}
  /\ \E step \in 1 .. Half :
       /\ Ahead * step <= Half /\ Frames <= step
       /\ \A silence \in Silences : silence \in Nat /\ silence + Frames <= step

(***************************************************************************)
(* sent and clock count the packets and frames sent since the sender       *)
(* started at base; flight holds what may still arrive, numbered by sent.  *)
(* The history of the receiver is in the same unbounded numbers: first     *)
(* and last packet taken, how many, the time behind the last, the gap that *)
(* truly preceded it, and which were refused before the first (wild).      *)
(***************************************************************************)
VARIABLES base, sent, clock, flight, first, last, taken, played, gap, wild

sender   == <<base, sent, clock, flight>>
history  == <<first, last, taken, played, gap, wild>>
vars     == <<state, result, sender, history>>

NoPacket == -1

Start(ssrc, seq, ts) ==
  /\ base' = [ssrc |-> ssrc, seq |-> seq, timestamp |-> ts]
  /\ sent' = 0 /\ clock' = 0 /\ flight' = {}

Init ==
  /\ RtpInit
  /\ base \in [ssrc : {1}, seq : FirstSeq, timestamp : FirstTime]
  /\ sent = 0 /\ clock = 0 /\ flight = {}
  /\ first = NoPacket /\ last = NoPacket /\ taken = 0 /\ played = 0 /\ gap = 0
  /\ wild = {}

Send(silence) ==
  /\ sent < MaxSent
  /\ taken > 0 => sent - last <= Burst
  /\ flight' = {p \in flight : p.index > sent - Window}
                 \cup {[index |-> sent, start |-> clock + silence]}
  /\ sent' = sent + 1
  /\ clock' = clock + silence + Frames
  /\ UNCHANGED <<state, result, base, history>>

\* What packet p looks like on the wire.
Wire(p) == [ssrc |-> base.ssrc, seq |-> (base.seq + p.index) % SeqMod,
            timestamp |-> (base.timestamp + p.start) % M]

\* The receiver's history after it was handed p.
Record(p) ==
  IF result' >= 0
  THEN /\ first' = IF taken = 0 THEN p.index ELSE first
       /\ last' = p.index
       /\ taken' = taken + 1
       /\ gap' = IF taken = 0 THEN 0 ELSE p.start - played
       /\ played' = p.start + Frames
       /\ wild' = {}
  ELSE /\ wild' = IF taken = 0 THEN wild \cup {p.index} ELSE wild
       /\ UNCHANGED <<first, last, taken, gap, played>>

Deliver(p) ==
  /\ state.packets < MaxHandled
  /\ rtp_process(Wire(p), Frames)
  /\ Record(p)
  /\ UNCHANGED sender

\* The sender starts over; nothing of its earlier life is still on its way.
Restart(ssrc, seq, ts) ==
  /\ sent > 0
  /\ base.ssrc = 1
  /\ Start(ssrc, seq, ts)
  /\ first' = NoPacket /\ last' = NoPacket /\ taken' = 0 /\ played' = 0 /\ gap' = 0
  /\ wild' = {}
  /\ UNCHANGED <<state, result>>

Next ==
  \/ \E silence \in Silences : Send(silence)
  \/ \E p \in flight : Deliver(p)
  \/ \E ssrc \in {2} \cup (IF Rewinds THEN {1} ELSE {}), seq \in FirstSeq, ts \in FirstTime :
       Restart(ssrc, seq, ts)

Spec == Init /\ [][Next]_vars

-----------------------------------------------------------------------------
\* Nothing is taken twice and nothing late is taken after something newer; and
\* the drops counted are exactly the packets skipped, across the wrap of the
\* sequence number, whatever was lost, repeated or reordered.
DropsAccountFor ==
  taken > 0 => /\ state.drops + taken = last - first + 1
               /\ state.packets = taken + state.dupes

\* The jump returned is the time that truly passed without samples between the
\* last packet taken and this one, across the wrap of the timestamp.
GapIsTrue == (taken > 0 /\ result >= 0) => result = gap

\* Only a late packet is refused: one already taken, or older than one taken;
\* and it is refused by its number, never by the age of its samples.
RefusedIsLate ==
  [][\A p \in flight : (Deliver(p) /\ result' < 0) =>
       result' = -1 /\ taken > 0 /\ p.index <= last]_vars

\* multicast.c:299, "3 wild sequence numbers in a row will assume a stream
\* restart": of a sender that has just started no more than three are refused.
RestartAssumed == taken = 0 => Cardinality(wild) <= 3
=============================================================================
