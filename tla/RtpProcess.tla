----------------------------- MODULE RtpProcess -----------------------------
(***************************************************************************)
(* rtp_process (lib/multicast.c): the library's bookkeeping of one RTP     *)
(* session, by sequence number and timestamp.                              *)
(*                                                                         *)
(* SeqHalf scales 2^15 as Half scales 2^31: sequence numbers are uint16_t  *)
(* (0 .. SeqMod-1) and their difference is taken as an int16_t.            *)
(***************************************************************************)
EXTENDS FixedWidth

CONSTANT SeqHalf        \* 2^15 in the code

ASSUME SeqHalfAssumption == SeqHalf \in Nat \ {0}

SeqMod == 2 * SeqHalf   \* 2^16 in the code

ToSeq(x) == IF x >= SeqMod THEN x - SeqMod ELSE x

ToSeqStep(x) ==
  IF x >= SeqHalf THEN x - SeqMod ELSE IF x < -SeqHalf THEN x + SeqMod ELSE x

VARIABLES
  state,      \* struct rtp_state
  result      \* what rtp_process returned last

RtpInit ==
  /\ state = [ssrc |-> 0, init |-> FALSE, seq |-> 0, timestamp |-> 0,
              packets |-> 0, drops |-> 0, dupes |-> 0]
  /\ result = 0

\* The state as the first packet of a session finds it.
Session(rtp) ==
  IF state.init /\ rtp.ssrc = state.ssrc THEN state
  ELSE [ssrc |-> rtp.ssrc, init |-> TRUE, seq |-> rtp.seq,
        timestamp |-> rtp.timestamp, packets |-> 0, drops |-> 0, dupes |-> 0]

\* Sequence numbers and sample times ahead of what is expected.
SeqStep(rtp)  == ToSeqStep(rtp.seq - Session(rtp).seq)

TimeGap(rtp) == ToInt(rtp.timestamp - Session(rtp).timestamp)

\* The packet's sequence number is behind: a duplicate, or late.
DropDupe(rtp) ==
  /\ SeqStep(rtp) < 0
  /\ state' = [Session(rtp) EXCEPT !.packets = @ + 1, !.dupes = @ + 1]
  /\ result' = -1

TakeDue_SeqKept(rtp, sampcnt) ==    \* faulty: expects one more than it expected
  /\ SeqStep(rtp) >= 0
  /\ state' = [Session(rtp) EXCEPT
                 !.packets = @ + 1,
                 !.drops = @ + SeqStep(rtp),
                 !.seq = ToSeq(@ + 1),
                 !.timestamp = IF TimeGap(rtp) < 0 THEN @ ELSE ToUint(rtp.timestamp + sampcnt)]
  /\ result' = TimeGap(rtp)

TakeDue_GapKept(rtp, sampcnt) ==    \* faulty: does not catch up with the gap
  /\ SeqStep(rtp) >= 0
  /\ state' = [Session(rtp) EXCEPT
                 !.packets = @ + 1,
                 !.drops = @ + SeqStep(rtp),
                 !.seq = ToSeq(rtp.seq + 1),
                 !.timestamp = IF TimeGap(rtp) < 0 THEN @ ELSE ToUint(@ + sampcnt)]
  /\ result' = TimeGap(rtp)

TakeDue_Bytes(rtp, sampcnt) ==   \* faulty: counts two bytes a sample as samples
  /\ SeqStep(rtp) >= 0
  /\ state' = [Session(rtp) EXCEPT
                 !.packets = @ + 1,
                 !.drops = @ + SeqStep(rtp),
                 !.seq = ToSeq(rtp.seq + 1),
                 !.timestamp = IF TimeGap(rtp) < 0 THEN @
                               ELSE ToUint(rtp.timestamp + 2 * sampcnt)]
  /\ result' = TimeGap(rtp)

\* It is due or ahead: the numbers skipped count as drops.  Unless its samples
\* are old, its time is taken too.  The jump of time, either way, is returned.
TakeDue(rtp, sampcnt) ==
  /\ SeqStep(rtp) >= 0
  /\ state' = [Session(rtp) EXCEPT
                 !.packets = @ + 1,
                 !.drops = @ + SeqStep(rtp),
                 !.seq = ToSeq(rtp.seq + 1),
                 !.timestamp = IF TimeGap(rtp) < 0 THEN @ ELSE ToUint(rtp.timestamp + sampcnt)]
  /\ result' = TimeGap(rtp)

rtp_process(rtp, sampcnt) == DropDupe(rtp) \/ TakeDue(rtp, sampcnt)
=============================================================================
