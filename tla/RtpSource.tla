------------------------------ MODULE RtpSource ------------------------------
(***************************************************************************)
(* The RTP source block, source_impl<T> (lib/source_impl.{h,cc}): the      *)
(* scheduler's thread running work() and a control thread (GUI, script)    *)
(* calling set_ssrc() with no lock between them.                           *)
(*                                                                         *)
(* work() is cut at every access to a field the two threads share (ssrc    *)
(* and pcmstream.ssrc), so every order of those accesses is a behaviour.   *)
(* The network is whatever recvfrom may return: any datagram, at any time, *)
(* again, or none.  Packet and byte counters, the sequence number, the     *)
(* payload type and the sender's printed name are written by work() and    *)
(* read by nothing, and are left out.                                      *)
(***************************************************************************)
EXTENDS SourceOutput

CONSTANTS
  Datagrams,        \* what may arrive on the multicast socket
  NoDatagram,
  Configs,          \* the instances of the block considered
  Requests,         \* the arguments of set_ssrc; 0 asks for any stream
  BufferSizes,      \* the noutput_items the scheduler offers
  NoSender,         \* pcmstream.sender before any packet
  Reordering        \* whether set_ssrc's stores may be seen in reverse order

(***************************************************************************)
(* A datagram is the RTP fields work() looks at: its length, cc, the       *)
(* extension bit and ext_len (words of the extension), the pad bit and the *)
(* datagram's last byte, marker, timestamp, ssrc; and its sender, an IPv4  *)
(* address and port.                                                       *)
(***************************************************************************)
HeaderLength(d) ==
  12 + 4 * d.cc + (IF d.extension THEN 4 + 4 * d.ext_len ELSE 0)

PayloadSize(d) ==
  d.len - HeaderLength(d) - (IF d.pad THEN d.last ELSE 0)

ASSUME DatagramAssumption ==
  /\ NoDatagram \notin Datagrams
  /\ \A d \in Datagrams : /\ d.timestamp \in UInt
                          /\ d.ssrc \in Nat
                          /\ d.sender # NoSender
                          /\ d.sender = [addr |-> d.sender.addr, port |-> d.sender.port]
                          /\ PayloadSize(d) \in Int

\* What the constructor builds, but for streams said to be of no channels or of
\* fewer: it takes them, and the first packet is divided by that number.
ASSUME ConfigAssumption ==
  Configs \subseteq {c \in Config : Constructible(c)}

ASSUME RequestAssumption == Requests \subseteq Nat

\* Buffers and payloads (at most Bufsize = 9000 bytes) are far below 2^31.
ASSUME SizeAssumption ==
  /\ BufferSizes \subseteq Nat \ {0}
  /\ \A d \in Datagrams, n \in BufferSizes : n + PayloadSize(d) < Half

VARIABLES
  config,     \* T, channels and number of output ports; fixed by the constructor
  ssrc,       \* the requested SSRC
  pcm,        \* pcmstream: ssrc, sender and the expected timestamp
  wpc,        \* where the worker thread is
  cur,        \* the datagram in work()'s buffer
  noutput,    \* work()'s noutput_items
  intr,       \* the scheduler has interrupted the worker thread
  spc,        \* where the control thread is: "idle", or between the two
              \* stores of set_ssrc: "clear" (pcmstream.ssrc still to be
              \* cleared) or "request" (ssrc still to be written)
  pending,    \* the argument of the latest set_ssrc
  ret         \* how the latest work() returned

(***************************************************************************)
(* History, read by no action of the block:                                *)
(*   owner    the stream (SSRC and sender) the expected timestamp is of    *)
(*   due      the RTP time of the next output item, found by counting the  *)
(*            items handed over since the last (re)start or marker         *)
(*   slipped  some packet since then did not fit in the buffer it met      *)
(*   stale    packets of an SSRC other than the requested one that were    *)
(*            output since set_ssrc returned                               *)
(*   raced    when set_ssrc returned, the worker was still handling, or    *)
(*            between its two stores had started a session from, a packet  *)
(*            accepted for an earlier request                              *)
(***************************************************************************)
VARIABLES owner, due, slipped, stale, raced

session == <<pcm, owner, due, slipped>>
setter  == <<ssrc, spc, pending, raced>>
vars == <<config, session, setter, stale, wpc, cur, noutput, intr, ret>>

Stream(d) == [ssrc |-> d.ssrc, sender |-> d.sender]
NoStream  == [ssrc |-> 0, sender |-> NoSender]

\* work() returned after handing over no item.
Empty(n) == [noutput |-> n, gap |-> 0, size |-> 0, offset |-> 0, items |-> 0]

Init ==
  /\ config \in Configs
  /\ ssrc \in Requests
  /\ pcm = [ssrc |-> 0, sender |-> NoSender, timestamp |-> 0]
  /\ wpc = "idle"
  /\ cur = NoDatagram
  /\ noutput \in BufferSizes
  /\ intr = FALSE
  /\ spc = "idle"
  /\ pending = ssrc
  /\ ret = Empty(noutput)
  /\ owner = NoStream
  /\ due = 0
  /\ slipped = FALSE
  /\ stale = 0
  /\ raced = FALSE

-----------------------------------------------------------------------------
(* The scheduler.  *)

\* It calls work with a buffer of n items.
CallWork(n) ==
  /\ wpc = "idle"
  /\ ~intr
  /\ wpc' = "loop"
  /\ noutput' = n
  /\ ret' = Empty(n)
  /\ UNCHANGED <<config, session, setter, stale, cur, intr>>

\* It stops the flowgraph: the worker thread is asked to end ...
Stop ==
  /\ ~intr
  /\ intr' = TRUE
  /\ UNCHANGED <<config, session, setter, stale, wpc, cur, noutput, ret>>

\* ... and, once it has, a new one may be started on the same block.
Restart ==
  /\ wpc = "done"
  /\ wpc' = "idle"
  /\ intr' = FALSE
  /\ UNCHANGED <<config, session, setter, stale, cur, noutput, ret>>

-----------------------------------------------------------------------------
(* The control thread: set_ssrc.  *)

InFlight == wpc \in {"session", "init", "match", "sender", "process"}

\* The worker is past the SSRC filter with a packet the request s excludes.
Overtaken(s) == s # 0 /\ InFlight /\ cur.ssrc # s

\* The two stores, to fields no lock protects, may become visible in either
\* order: ssrc first, as they are written, ...
SetSsrc(s) ==
  /\ spc = "idle"
  /\ spc' = "clear"
  /\ pending' = s
  /\ ssrc' = s
  /\ UNCHANGED <<config, session, stale, raced, wpc, cur, noutput, intr, ret>>

SetSsrcClear_Forgets ==             \* faulty: the session is left as it is
  /\ spc = "clear"
  /\ spc' = "idle"
  /\ stale' = 0
  /\ raced' = Overtaken(ssrc)
  /\ UNCHANGED <<config, ssrc, pending, session, wpc, cur, noutput, intr, ret>>

SetSsrcClear ==
  /\ spc = "clear"
  /\ spc' = "idle"
  /\ pcm' = [pcm EXCEPT !.ssrc = 0]
  /\ stale' = 0
  /\ raced' = Overtaken(ssrc)
  /\ UNCHANGED <<config, ssrc, pending, owner, due, slipped,
                 wpc, cur, noutput, intr, ret>>

\* ... or pcmstream.ssrc first.
ClearEarly(s) ==
  /\ Reordering
  /\ spc = "idle"
  /\ spc' = "request"
  /\ pending' = s
  /\ pcm' = [pcm EXCEPT !.ssrc = 0]
  /\ UNCHANGED <<config, ssrc, raced, owner, due, slipped, stale,
                 wpc, cur, noutput, intr, ret>>

SetSsrcLate ==
  /\ spc = "request"
  /\ spc' = "idle"
  /\ ssrc' = pending
  /\ stale' = 0
  /\ raced' = (Overtaken(pending) \/ (pending # 0 /\ pcm.ssrc \notin {0, pending}))
  /\ UNCHANGED <<config, session, pending, wpc, cur, noutput, intr, ret>>

ControlStep == \/ \E s \in Requests : SetSsrc(s) \/ ClearEarly(s)
               \/ SetSsrcClear
               \/ SetSsrcLate

-----------------------------------------------------------------------------
(* The worker thread: work().  *)

\* boost::this_thread::interruption_point, at the head of the receive loop and
\* in the scheduler's own loop around work; nowhere else.
Interrupted ==
  /\ wpc \in {"idle", "loop"}
  /\ intr
  /\ wpc' = "done"
  /\ UNCHANGED <<config, session, setter, stale, cur, noutput, intr, ret>>

EnterRecv ==
  /\ wpc = "loop"
  /\ ~intr
  /\ wpc' = "recv"
  /\ UNCHANGED <<config, session, setter, stale, cur, noutput, intr, ret>>

RecvTimeout_Blocking ==             \* faulty: recvfrom waits for a datagram
  wpc = "recv" /\ FALSE /\ UNCHANGED vars

\* SO_RCVTIMEO: recvfrom gives up and work returns without output.
RecvTimeout ==
  /\ wpc = "recv"
  /\ wpc' = "idle"
  /\ ret' = Empty(noutput)
  /\ UNCHANGED <<config, session, setter, stale, cur, noutput, intr>>

\* A datagram is kept if it holds an RTP header and, without padding, a payload.
RecvDatagram(d) ==
  /\ wpc = "recv"
  /\ IF d.len >= 12 /\ PayloadSize(d) > 0
     THEN wpc' = "filter" /\ cur' = d
     ELSE wpc' = "loop" /\ UNCHANGED cur
  /\ UNCHANGED <<config, session, setter, stale, noutput, intr, ret>>

\* The packet is of no interest: back to the head of the loop.
Skip == wpc' = "loop" /\ cur' = NoDatagram

\* The SSRC filter reads the request twice: is any stream wanted ...
FilterAny ==
  /\ wpc = "filter"
  /\ \/ cur.ssrc = 0 /\ Skip
     \/ /\ cur.ssrc # 0
        /\ wpc' = IF ssrc = 0 THEN "session" ELSE "filter2"
        /\ UNCHANGED cur
  /\ UNCHANGED <<config, session, setter, stale, noutput, intr, ret>>

FilterMatch_Open ==                 \* faulty: lets every SSRC pass
  /\ wpc = "filter2"
  /\ wpc' = "session"
  /\ UNCHANGED <<config, session, setter, stale, cur, noutput, intr, ret>>

\* ... and, if not, is it this one.
FilterMatch ==
  /\ wpc = "filter2"
  /\ \/ cur.ssrc # ssrc /\ Skip
     \/ cur.ssrc = ssrc /\ wpc' = "session" /\ UNCHANGED cur
  /\ UNCHANGED <<config, session, setter, stale, noutput, intr, ret>>

\* Is there a session?  (pcmstream.ssrc is read here and again in MatchSession.)
CheckSession ==
  /\ wpc = "session"
  /\ wpc' = IF pcm.ssrc = 0 THEN "init" ELSE "match"
  /\ UNCHANGED <<config, session, setter, stale, cur, noutput, intr, ret>>

\* The session the packet d starts.
init(d) ==
  /\ pcm' = [ssrc |-> d.ssrc, sender |-> d.sender, timestamp |-> d.timestamp]
  /\ owner' = Stream(d)
  /\ due' = d.timestamp
  /\ slipped' = FALSE

InitSession ==
  /\ wpc = "init"
  /\ init(cur)
  /\ wpc' = "sender"
  /\ UNCHANGED <<config, setter, stale, cur, noutput, intr, ret>>

MatchSession_Open ==                \* faulty: takes any packet for the session's
  /\ wpc = "match"
  /\ wpc' = "sender"
  /\ UNCHANGED <<config, session, setter, stale, cur, noutput, intr, ret>>

MatchSession ==
  /\ wpc = "match"
  /\ \/ cur.ssrc # pcm.ssrc /\ Skip
     \/ cur.ssrc = pcm.ssrc /\ wpc' = "sender" /\ UNCHANGED cur
  /\ UNCHANGED <<config, session, setter, stale, noutput, intr, ret>>

SameSource_AddressOnly(s, t) ==     \* faulty: the port is not compared
  s.addr = t.addr

\* address_match and getportnumber.
SameSource(s, t) == s.addr = t.addr /\ s.port = t.port

\* The stream now comes from another address or port: the sender restarted.
CheckSender ==
  /\ wpc = "sender"
  /\ IF SameSource(cur.sender, pcm.sender) THEN UNCHANGED session ELSE init(cur)
  /\ wpc' = "process"
  /\ UNCHANGED <<config, setter, stale, cur, noutput, intr, ret>>

\* A marked packet resynchronises the timeline.
Expected == IF cur.marker THEN cur.timestamp ELSE pcm.timestamp

TimeStep_Unsigned ==                \* faulty: the difference is not taken as an int
  ToUint(cur.timestamp - Expected)

\* Frames missing between what was expected and the packet.
TimeStep == ToInt(cur.timestamp - Expected)

\* Where the packet's samples go: behind the zeroes for the gap, if the two
\* are predicted to fit; else at the start of the buffer.
Offset(step, size) ==
  IF step > 0 /\ get_output_items(config, size, step) <= noutput
  THEN output_zeroes(config, step, noutput, 0)
  ELSE 0

NextTimestamp_Samples(size) ==      \* faulty: samples taken for frames
  ToUint(cur.timestamp + SampCount(size))

NextTimestamp_NoWrap(size) ==       \* faulty: does not wrap
  cur.timestamp + FrameCount(config, size)

\* The expected timestamp behind the packet.
NextTimestamp(size) == ToUint(cur.timestamp + FrameCount(config, size))

\* "Old dupe": before the expected timestamp.  (Never a marked packet.)
DropOld ==
  /\ wpc = "process"
  /\ TimeStep < 0
  /\ Skip
  /\ UNCHANGED <<config, session, setter, stale, noutput, intr, ret>>

\* A packet requested by nobody, output although set_ssrc has returned.
Unwanted == spc = "idle" /\ ssrc # 0 /\ cur.ssrc # ssrc

\* The RTP time reached from t by handing over n items.
Advance(t, n) == ToUint(t + (n \div ItemsPerFrame(config)))

\* The count the scheduler takes for the end of the block's output.
WORK_DONE == -1

Output ==
  LET size   == PayloadSize(cur)
      step   == TimeStep
      offset == Offset(step, size)
      items  == output_samples(config, size, noutput, offset)
  IN  /\ wpc = "process"
      /\ step >= 0
      /\ pcm' = [pcm EXCEPT !.timestamp = NextTimestamp(size)]
      /\ ret' = [noutput |-> noutput, gap |-> step, size |-> size,
                 offset |-> offset, items |-> items]
      /\ wpc' = IF items = WORK_DONE THEN "done" ELSE "idle"
      /\ cur' = NoDatagram
      /\ due' = Advance(Advance(IF cur.marker THEN cur.timestamp ELSE due, offset),
                        items - offset)
      /\ slipped' = ((slipped /\ ~cur.marker) \/ ~Fits(config, step, size, noutput))
      /\ stale' = stale + (IF Unwanted THEN 1 ELSE 0)
      /\ UNCHANGED <<config, setter, owner, noutput, intr>>

-----------------------------------------------------------------------------
Receive == \E d \in Datagrams : RecvDatagram(d)

LocalStep ==
  \/ Interrupted \/ EnterRecv
  \/ FilterAny \/ FilterMatch
  \/ CheckSession \/ InitSession \/ MatchSession
  \/ CheckSender \/ DropOld \/ Output

WorkerStep == LocalStep \/ RecvTimeout \/ Receive

SchedulerStep == (\E n \in BufferSizes : CallWork(n)) \/ Stop \/ Restart

Next == WorkerStep \/ ControlStep \/ SchedulerStep

Spec == Init /\ [][Next]_vars

-----------------------------------------------------------------------------
(***************************************************************************)
(* Fairness.  The worker thread is never starved, recvfrom does not wait   *)
(* longer than its timeout, a set_ssrc that was begun returns, and the     *)
(* scheduler calls work again while the flowgraph runs.  Nothing is        *)
(* assumed of the network except in OnAir, which a property may take as a  *)
(* premise: there a sender of every SSRC that may be requested keeps       *)
(* getting packets through.                                                *)
(***************************************************************************)
WorkerFairness ==
  /\ WF_vars(LocalStep)
  /\ WF_vars(RecvTimeout)

LiveSpec == Spec /\ WorkerFairness

RecvFrom(s) == \E d \in Datagrams :
  d.ssrc = s /\ d.len >= 12 /\ PayloadSize(d) > 0 /\ RecvDatagram(d)

(* The senders of what may be requested keep getting packets through, the  *)
(* flowgraph runs and a set_ssrc that was begun returns.                   *)
OnAir ==
  /\ WF_vars(SetSsrcClear \/ SetSsrcLate)
  /\ WF_vars(\E n \in BufferSizes : CallWork(n))
  /\ \A s \in Requests \ {0} : SF_vars(RecvFrom(s))

=============================================================================
