--------------------------- MODULE RtpSourceProofs ---------------------------
(***************************************************************************)
(* Proofs, for every set of datagrams, configurations, requests and buffer *)
(* sizes, that the RTP source block keeps its safety properties.           *)
(*                                                                         *)
(* Inv is the inductive invariant.  Its parts build on one another: types; *)
(* what the worker knows of the packet it holds; what a set_ssrc leaves    *)
(* behind; whose timestamp is expected; and the count of output items.     *)
(***************************************************************************)
EXTENDS SourceProperties, TLAPS

\* The worker holds a packet worth its name from recvfrom on.
Holding ==
  /\ (wpc \in {"filter", "filter2"} \/ InFlight)
        => cur \in Datagrams /\ PayloadSize(cur) > 0
  /\ wpc = "filter2" \/ InFlight => cur.ssrc # 0

\* After a set_ssrc that overtook nothing, what is in flight was requested; and
\* if something else is in flight, nothing unwanted has been output yet.
Retuned ==
  /\ (spc = "idle" /\ ~raced) => ~Overtaken(ssrc)
  /\ StrayOnlyWhenRaced
  /\ StaleOutputBounded
  /\ (spc = "idle" /\ Overtaken(ssrc)) => stale = 0

\* The expected timestamp belongs to the session's sender and, unless set_ssrc
\* has just cleared it, to its SSRC.
Owned ==
  /\ owner.sender = pcm.sender
  /\ owner.ssrc # 0 => owner.sender # NoSender
  /\ pcm.ssrc # 0 => owner.ssrc = pcm.ssrc
  /\ wpc \in {"sender", "process"} => owner.ssrc = cur.ssrc
  /\ ExpectationIsOwn

Counted == TimelineAligned /\ PacketInPlace /\ ItemsFit /\ OddOnlyWhenCut

Inv == TypeOK /\ Holding /\ Retuned /\ Owned /\ Counted

-----------------------------------------------------------------------------
(* What the counting functions of SourceOutput return, for every           *)
(* configuration, payload and buffer below the range of an int.            *)

\* A quotient is between zero and its dividend.
LEMMA QuotientBound ==
  ASSUME NEW a \in Nat, NEW b \in Nat \ {0}
  PROVE  a \div b \in 0 .. a
  OBVIOUS

\* What the division of a payload into frames keeps in range.
LEMMA FrameCountRange ==
  ASSUME NEW c \in Config, NEW size \in Nat
  PROVE  /\ SampCount(size) \in 0 .. size
         /\ FrameCount(c, size) \in 0 .. size
<1>1. SampCount(size) \in 0 .. size
  BY DEF SampCount
<1>2. FrameCount(c, size) \in 0 .. SampCount(size)
  BY <1>1, QuotientBound DEF FrameCount, Config
<1> QED
  BY <1>1, <1>2

\* In a supported mode the samples of a payload are its whole frames, or, when
\* interleaved, all of its 16-bit words.
LEMMA SamplesRange ==
  ASSUME NEW c \in Config, Supported(c), NEW size \in Nat
  PROVE  /\ Samples(c, size) \in 0 .. size
         /\ ~Interleaved(c) => Samples(c, size) = FrameCount(c, size)
         /\ Interleaved(c) => /\ Samples(c, size) = SampCount(size)
                              /\ FrameCount(c, size) = SampCount(size) \div 2
<1>1. CASE c.channels = 1
  BY <1>1 DEF Samples, SampCount, FrameCount, Interleaved
<1>2. CASE c.channels = 2
  BY <1>2 DEF Samples, SampCount, FrameCount, Interleaved
<1> QED
  BY <1>1, <1>2 DEF Supported

\* Zeroes stay within the buffer unless their count overflows; interleaved,
\* their count is even in any case.
LEMMA ZeroesRange ==
  ASSUME NEW c \in Config, NEW step \in Nat, step < Half,
         NEW n \in Nat \ {0}, n < Half
  PROVE  /\ output_zeroes(c, step, n, 0) \in -Half .. n
         /\ output_zeroes(c, step, n, 0) <= ItemsPerFrame(c) * step
         /\ (Interleaved(c) => 2 * step < Half) => output_zeroes(c, step, n, 0) \in 0 .. n
         /\ Interleaved(c) => output_zeroes(c, step, n, 0) % 2 = 0
<1>1. CASE Interleaved(c)
  BY <1>1, HalfAssumption DEF output_zeroes, ClipZeroes, ToInt, M, Interleaved, ItemsPerFrame
<1>2. CASE ~Interleaved(c)
  BY <1>2, HalfAssumption DEF output_zeroes, ClipZeroes, ToInt, M, ItemsPerFrame
<1> QED
  BY <1>1, <1>2

\* Samples behind an offset within the buffer end within it.
LEMMA SamplesEnd ==
  ASSUME NEW c \in Config, NEW size \in Nat,
         NEW n \in Nat \ {0}, n + size < Half, NEW offset \in Int
  PROVE  /\ output_samples(c, size, n, offset) \in Int
         /\ offset \in 0 .. n => /\ offset <= output_samples(c, size, n, offset)
                                 /\ output_samples(c, size, n, offset) <= n
<1>1. CASE Supported(c)
  <2> DEFINE k == Samples(c, size)
  <2>1. k \in 0 .. size
    BY <1>1, SamplesRange
  <2> HIDE DEF k
  <2>2. /\ ClipSamples(k, n, offset) \in Int
        /\ offset \in 0 .. n => ClipSamples(k, n, offset) \in 0 .. n - offset
    BY <2>1, HalfAssumption DEF ClipSamples, ToInt, M
  <2> QED
    BY <1>1, <2>2 DEF output_samples, k
<1>2. CASE ~Supported(c)
  BY <1>2 DEF output_samples
<1> QED
  BY <1>1, <1>2

\* A packet that fits is output whole: all the zeroes of its gap, then all its
\* samples.
LEMMA FittingPacket ==
  ASSUME NEW c \in Config, Supported(c), NEW step \in Nat, step < Half,
         NEW size \in Nat, NEW n \in Nat \ {0}, n + size < Half,
         Fits(c, step, size, n)
  PROVE  LET zeroes == ItemsPerFrame(c) * step
         IN  /\ get_output_items(c, size, step) <= n
             /\ output_zeroes(c, step, n, 0) = zeroes
             /\ output_samples(c, size, n, zeroes) - zeroes = Samples(c, size)
             /\ zeroes \div ItemsPerFrame(c) = step
             /\ Samples(c, size) \div ItemsPerFrame(c) = FrameCount(c, size)
<1>1. Samples(c, size) \in 0 .. size /\ SampCount(size) \in Nat
  BY SamplesRange, FrameCountRange
<1>2. CASE Interleaved(c)
  <2>1. /\ Samples(c, size) = SampCount(size)
        /\ FrameCount(c, size) = SampCount(size) \div 2
        /\ 2 * step + SampCount(size) <= n
    BY <1>2, SamplesRange DEF Fits, ItemsPerFrame
  <2>2. get_output_items(c, size, step) <= n
    BY <1>1, <1>2, <2>1, HalfAssumption DEF get_output_items, ToInt, M
  <2>3. output_zeroes(c, step, n, 0) = 2 * step
    BY <1>1, <1>2, <2>1, HalfAssumption
       DEF output_zeroes, ClipZeroes, ToInt, M, Interleaved
  <2>4. output_samples(c, size, n, 2 * step) - 2 * step = Samples(c, size)
    BY <1>1, <2>1, HalfAssumption DEF output_samples, ClipSamples, ToInt, M
  <2> QED
    BY <1>2, <2>1, <2>2, <2>3, <2>4 DEF ItemsPerFrame
<1>3. CASE ~Interleaved(c)
  <2>1. /\ Samples(c, size) = FrameCount(c, size)
        /\ step + Samples(c, size) <= n
    BY <1>3, SamplesRange DEF Fits, ItemsPerFrame
  <2>2. get_output_items(c, size, step) <= n
    BY <1>1, <1>3, <2>1, HalfAssumption DEF get_output_items, ToInt, M
  <2>3. output_zeroes(c, step, n, 0) = step
    BY <1>1, <1>3, <2>1, HalfAssumption
       DEF output_zeroes, ClipZeroes, ToInt, M, Supported
  <2>4. output_samples(c, size, n, step) - step = Samples(c, size)
    BY <1>1, <2>1, HalfAssumption DEF output_samples, ClipSamples, ToInt, M
  <2> QED
    BY <1>1, <1>3, <2>1, <2>2, <2>3, <2>4 DEF ItemsPerFrame
<1> QED
  BY <1>2, <1>3

\* The items of a packet that fits are those of its frames.
LEMMA WholeFrames ==
  ASSUME NEW c \in Config, Supported(c), NEW step \in Nat, NEW size \in Nat,
         NEW n \in Nat, Fits(c, step, size, n)
  PROVE  Samples(c, size) = ItemsPerFrame(c) * FrameCount(c, size)
<1>1. /\ SampCount(size) \in Nat /\ FrameCount(c, size) \in Nat /\ Samples(c, size) \in Nat
      /\ ~Interleaved(c) => Samples(c, size) = FrameCount(c, size)
      /\ Interleaved(c) => /\ Samples(c, size) = SampCount(size)
                           /\ FrameCount(c, size) = SampCount(size) \div 2
  BY SamplesRange, FrameCountRange
<1>2. Interleaved(c) => SampCount(size) % 2 = 0
  BY DEF Fits
<1> QED
  BY <1>1, <1>2 DEF ItemsPerFrame

-----------------------------------------------------------------------------
(* Types, and the packet in hand.  *)

Typed == TypeOK /\ Holding

\* The next expected timestamp is a timestamp.
LEMMA PacketType ==
  ASSUME NEW d \in Datagrams
  PROVE  /\ d.timestamp \in 0 .. 2 * Half - 1
         /\ d.ssrc \in Nat
         /\ d.sender \in Senders
         /\ PayloadSize(d) \in Int
         /\ \A n \in BufferSizes : n \in Nat \ {0} /\ n + PayloadSize(d) < Half
  BY DatagramAssumption, SizeAssumption DEF UInt, M, Senders

LEMMA ConfigType ==
  ASSUME TypeOK
  PROVE  config \in Config /\ Constructible(config)
  BY ConfigAssumption DEF TypeOK

LEMMA NextTimestampType ==
  ASSUME TypeOK, cur \in Datagrams, PayloadSize(cur) > 0
  PROVE  /\ PayloadSize(cur) \in Nat \ {0}
         /\ noutput + PayloadSize(cur) < Half
         /\ NextTimestamp(PayloadSize(cur)) \in UInt
<1> DEFINE size == PayloadSize(cur)
<1>0. noutput \in BufferSizes /\ config \in Config
  BY ConfigType DEF TypeOK
<1>1. /\ size \in Nat \ {0} /\ noutput \in Nat \ {0} /\ noutput + size < Half
      /\ cur.timestamp \in 0 .. 2 * Half - 1
  BY <1>0, PacketType
<1>2. FrameCount(config, size) \in 0 .. size
  BY <1>0, <1>1, FrameCountRange
<1> HIDE DEF size
<1>3. NextTimestamp(size) \in UInt
  BY <1>0, <1>1, <1>2, HalfAssumption DEF NextTimestamp, ToUint, UInt, M
<1> QED
  BY <1>1, <1>3 DEF size

\* A gap is an int, and none precedes a marked packet.
LEMMA TimeStepType ==
  ASSUME TypeOK, cur \in Datagrams
  PROVE  /\ TimeStep \in SInt
         /\ Expected \in UInt
         /\ cur.marker => TimeStep = 0
<1>1. cur.timestamp \in 0 .. 2 * Half - 1
  BY PacketType
<1>2. pcm.timestamp \in 0 .. 2 * Half - 1
  BY DEF TypeOK, PcmStream, UInt, M
<1> QED
  BY <1>1, <1>2, HalfAssumption DEF TimeStep, Expected, ToInt, UInt, SInt, M

LEMMA TypedInit == Init => Typed
<1> SUFFICES ASSUME Init PROVE Typed
  OBVIOUS
<1>2. /\ pcm \in PcmStream
      /\ ret \in Outcome
      /\ owner \in [ssrc : Nat, sender : Senders]
  BY HalfAssumption
     DEF Init, PcmStream, Outcome, Senders, Empty, NoStream, UInt, M
<1>4. TypeOK
  <2>1. wpc = "idle" /\ spc = "idle" /\ intr = FALSE /\ slipped = FALSE /\ raced = FALSE
    BY DEF Init
  <2>2. pending \in Requests /\ due \in Int /\ stale \in Nat
    BY DEF Init
  <2>3. config \in Configs /\ ssrc \in Requests /\ noutput \in BufferSizes
    BY DEF Init
  <2>4. cur = NoDatagram
    BY DEF Init
  <2> QED
    BY <1>2, <2>1, <2>2, <2>3, <2>4 DEF TypeOK
<1>3. Holding
  BY DEF Init, Holding, InFlight
<1> QED
  BY <1>3, <1>4 DEF Typed

\* A session begun with a packet is of its type.
LEMMA SessionTyped ==
  ASSUME NEW d \in Datagrams, init(d)
  PROVE  /\ pcm' \in PcmStream
         /\ owner' \in [ssrc : Nat, sender : Senders]
         /\ due' \in Int
         /\ slipped' \in BOOLEAN
<1>1. d.timestamp \in UInt /\ d.timestamp \in Int /\ d.ssrc \in Nat /\ d.sender \in Senders
  BY PacketType DEF UInt, M
<1> QED
  BY <1>1 DEF init, PcmStream, Stream

\* What Output writes is of its type.
LEMMA OutputTyped ==
  ASSUME Typed, Output
  PROVE  Typed'
<1> DEFINE size   == PayloadSize(cur)
           step   == TimeStep
           offset == Offset(step, size)
           items  == output_samples(config, size, noutput, offset)
<1>1. /\ TypeOK /\ cur \in Datagrams /\ size > 0
      /\ config \in Config /\ noutput \in BufferSizes /\ noutput \in Nat \ {0}
  BY ConfigAssumption, SizeAssumption
     DEF Typed, Holding, TypeOK, Output, InFlight
<1>2. /\ size \in Nat \ {0} /\ noutput + size < Half
      /\ NextTimestamp(size) \in UInt
  BY <1>1, NextTimestampType
<1>3. step \in Nat /\ step < Half /\ noutput < Half
  BY <1>1, <1>2, TimeStepType, HalfAssumption DEF Output, SInt
<1>4. offset \in Int
  BY <1>1, <1>3, ZeroesRange DEF Offset
<1>5. items \in Int
  BY <1>1, <1>2, <1>4, SamplesEnd
<1>6. \A t \in Int, n \in Int : Advance(t, n) \in Int
  BY HalfAssumption DEF Advance, ItemsPerFrame, ToUint, M
<1>7. pcm' \in PcmStream
  BY <1>1, <1>2 DEF Output, TypeOK, PcmStream
<1>8. ret' \in Outcome
  BY <1>1, <1>2, <1>3, <1>4, <1>5 DEF Output, Outcome
<1>9. due' \in Int
  <2>1. cur.timestamp \in Int /\ due \in Int
    BY <1>1, PacketType DEF TypeOK
  <2>2. due' = Advance(Advance(IF cur.marker THEN cur.timestamp ELSE due, offset),
                       items - offset)
    BY DEF Output
  <2> DEFINE base == IF cur.marker THEN cur.timestamp ELSE due
  <2>3. base \in Int
    BY <2>1
  <2> HIDE DEF base
  <2>4. Advance(base, offset) \in Int
    BY <1>4, <1>6, <2>3
  <2>5. Advance(Advance(base, offset), items - offset) \in Int
    BY <1>4, <1>5, <1>6, <2>4
  <2> QED
    BY <2>2, <2>5 DEF base
<1>10. slipped' \in BOOLEAN /\ stale' \in Nat
  BY <1>1 DEF Output, TypeOK, Fits
<1>11. TypeOK'
  BY <1>1, <1>7, <1>8, <1>9, <1>10 DEF Output, TypeOK, setter
<1>12. Holding'
  BY DEF Output, Holding, InFlight
<1> QED
  BY <1>11, <1>12 DEF Typed

LEMMA TypedStep == Typed /\ [Next]_vars => Typed'
<1> SUFFICES ASSUME Typed, [Next]_vars PROVE Typed'
  OBVIOUS
<1> USE DEF Typed, Holding, InFlight, session, setter
<1>1. ASSUME NEW n \in BufferSizes, CallWork(n) PROVE Typed'
  BY <1>1 DEF CallWork, TypeOK, Empty, Outcome
<1>2. CASE Stop
  BY <1>2 DEF Stop, TypeOK
<1>3. CASE Restart
  BY <1>3 DEF Restart, TypeOK
<1>4. ASSUME NEW s \in Requests, SetSsrc(s) PROVE Typed'
  BY <1>4, RequestAssumption DEF SetSsrc, TypeOK
<1>5. CASE SetSsrcClear
  BY <1>5 DEF SetSsrcClear, TypeOK, PcmStream, Overtaken
<1>6. ASSUME NEW s \in Requests, ClearEarly(s) PROVE Typed'
  BY <1>6, RequestAssumption DEF ClearEarly, TypeOK, PcmStream
<1>7. CASE SetSsrcLate
  BY <1>7, RequestAssumption DEF SetSsrcLate, TypeOK, Overtaken
<1>8. CASE Interrupted
  BY <1>8 DEF Interrupted, TypeOK
<1>9. CASE EnterRecv
  BY <1>9 DEF EnterRecv, TypeOK
<1>10. CASE RecvTimeout
  BY <1>10 DEF RecvTimeout, TypeOK, Empty, Outcome
<1>11. ASSUME NEW d \in Datagrams, RecvDatagram(d) PROVE Typed'
  BY <1>11 DEF RecvDatagram, TypeOK
<1>12. CASE FilterAny
  BY <1>12 DEF FilterAny, Skip, TypeOK
<1>13. CASE FilterMatch
  BY <1>13 DEF FilterMatch, Skip, TypeOK
<1>14. CASE CheckSession
  BY <1>14 DEF CheckSession, TypeOK
<1>15. CASE InitSession
  BY <1>15, SessionTyped DEF InitSession, TypeOK
<1>16. CASE MatchSession
  BY <1>16 DEF MatchSession, Skip, TypeOK
<1>17. CASE CheckSender
  BY <1>17, SessionTyped DEF CheckSender, TypeOK
<1>18. CASE DropOld
  BY <1>18 DEF DropOld, Skip, TypeOK
<1>19. CASE Output
  BY <1>19, OutputTyped
<1>20. CASE UNCHANGED vars
  BY <1>20 DEF vars, TypeOK
<1> QED
  BY <1>1, <1>2, <1>3, <1>4, <1>5, <1>6, <1>7, <1>8, <1>9, <1>10, <1>11, <1>12,
     <1>13, <1>14, <1>15, <1>16, <1>17, <1>18, <1>19, <1>20
     DEF Next, WorkerStep, LocalStep, Receive, ControlStep, SchedulerStep

\* Every reachable state is of its type: TypeOK holds of every behaviour of the
\* block, whatever arrives and whatever is requested.
THEOREM TypeCorrect == Spec => []TypeOK
<1>1. Typed => TypeOK
  BY DEF Typed
<1> QED
  BY <1>1, TypedInit, TypedStep, PTL DEF Spec

-----------------------------------------------------------------------------
(* Retuning.  *)

LEMMA RetunedInit == Init => Retuned
  BY DEF Init, Retuned, StrayOnlyWhenRaced, StaleOutputBounded, Overtaken, InFlight

LEMMA RetunedStep == Typed /\ Retuned /\ [Next]_vars => Retuned'
<1> SUFFICES ASSUME Typed, Retuned, [Next]_vars PROVE Retuned'
  OBVIOUS
<1>0. /\ stale \in Nat
      /\ wpc \in {"init", "sender"} => cur.ssrc # 0
  BY DEF Typed, TypeOK, Holding, InFlight
<1> USE DEF Retuned, StrayOnlyWhenRaced, StaleOutputBounded, Overtaken, InFlight,
            session, setter
<1>1. ASSUME NEW n \in BufferSizes, CallWork(n) PROVE Retuned'
  BY <1>1 DEF CallWork
<1>2. CASE Stop
  BY <1>2 DEF Stop
<1>3. CASE Restart
  BY <1>3 DEF Restart
<1>4. ASSUME NEW s \in Requests, SetSsrc(s) PROVE Retuned'
  BY <1>4 DEF SetSsrc
<1>5. CASE SetSsrcClear
  <2>1. pcm'.ssrc = 0
    BY <1>5 DEF SetSsrcClear, Typed, TypeOK, PcmStream
  <2>2. /\ spc' = "idle" /\ stale' = 0 /\ ssrc' = ssrc /\ wpc' = wpc /\ cur' = cur
        /\ raced' = Overtaken(ssrc)
    BY <1>5 DEF SetSsrcClear
  <2>3. Overtaken(ssrc)' <=> raced'
    BY <2>2 DEF Overtaken, InFlight
  <2> HIDE DEF Overtaken
  <2> QED
    BY <2>1, <2>2, <2>3
<1>6. ASSUME NEW s \in Requests, ClearEarly(s) PROVE Retuned'
  BY <1>6 DEF ClearEarly
<1>7. CASE SetSsrcLate
  <2>1. /\ spc' = "idle" /\ stale' = 0 /\ ssrc' = pending /\ wpc' = wpc /\ cur' = cur
        /\ pcm' = pcm
        /\ raced' = (Overtaken(pending) \/ (pending # 0 /\ pcm.ssrc \notin {0, pending}))
    BY <1>7 DEF SetSsrcLate
  <2>2. Overtaken(ssrc)' <=> Overtaken(pending)
    BY <2>1 DEF Overtaken, InFlight
  <2> HIDE DEF Overtaken
  <2>3. ~raced' => ~Overtaken(ssrc)' /\ (pending # 0 => pcm.ssrc \in {0, pending})
    BY <2>1, <2>2
  <2> QED
    BY <2>1, <2>3
<1>8. CASE Interrupted
  BY <1>8 DEF Interrupted
<1>9. CASE EnterRecv
  BY <1>9 DEF EnterRecv
<1>10. CASE RecvTimeout
  BY <1>10 DEF RecvTimeout
<1>11. ASSUME NEW d \in Datagrams, RecvDatagram(d) PROVE Retuned'
  BY <1>11 DEF RecvDatagram
<1>12. CASE FilterAny
  BY <1>12 DEF FilterAny, Skip
<1>13. CASE FilterMatch
  BY <1>13 DEF FilterMatch, Skip
<1>14. CASE CheckSession
  BY <1>14 DEF CheckSession
<1>15. CASE InitSession
  <2>1. pcm'.ssrc = cur.ssrc
    BY <1>15 DEF InitSession, init
  <2> QED
    BY <1>15, <2>1 DEF InitSession
<1>16. CASE MatchSession
  BY <1>16 DEF MatchSession, Skip
<1>17. CASE CheckSender
  <2>1. pcm' = pcm \/ pcm'.ssrc = cur.ssrc
    BY <1>17 DEF CheckSender, init
  <2> QED
    BY <1>17, <2>1 DEF CheckSender
<1>18. CASE DropOld
  BY <1>18 DEF DropOld, Skip
<1>19. CASE Output
  <2>1. pcm'.ssrc = pcm.ssrc
    BY <1>19 DEF Output, Typed, TypeOK, PcmStream
  <2>2. stale' = stale + (IF Unwanted THEN 1 ELSE 0)
    BY <1>19 DEF Output
  <2>3. /\ spc' = spc /\ ssrc' = ssrc /\ raced' = raced
        /\ wpc = "process" /\ wpc' \in {"idle", "done"}
    BY <1>19 DEF Output
  <2>4. Unwanted => stale = 0
    BY <2>3 DEF Unwanted
  <2>5. stale' <= 1
    BY <1>0, <2>2, <2>4
  <2> QED
    BY <2>1, <2>3, <2>5
<1>20. CASE UNCHANGED vars
  BY <1>20 DEF vars
<1> QED
  BY <1>1, <1>2, <1>3, <1>4, <1>5, <1>6, <1>7, <1>8, <1>9, <1>10, <1>11, <1>12,
     <1>13, <1>14, <1>15, <1>16, <1>17, <1>18, <1>19, <1>20
     DEF Next, WorkerStep, LocalStep, Receive, ControlStep, SchedulerStep

\* After set_ssrc has returned at most one packet of another SSRC is output.
THEOREM AtMostOneStale == Spec => []StaleOutputBounded
<1>1. Retuned => StaleOutputBounded
  BY DEF Retuned
<1> QED
  BY <1>1, TypedInit, TypedStep, RetunedInit, RetunedStep, PTL DEF Spec

\* A set_ssrc that overtook no packet leaves the session empty or on the request.
THEOREM CleanRetune == Spec => []StrayOnlyWhenRaced
<1>1. Retuned => StrayOnlyWhenRaced
  BY DEF Retuned
<1> QED
  BY <1>1, TypedInit, TypedStep, RetunedInit, RetunedStep, PTL DEF Spec

-----------------------------------------------------------------------------
(* Whose timestamp is expected.  *)

LEMMA OwnedInit == Init => Owned
  BY DEF Init, Owned, ExpectationIsOwn, NoStream

\* Two IPv4 senders with the same address and port are the same.
LEMMA SameSourceIsEqual ==
  ASSUME NEW d \in Datagrams, NEW t \in Senders, t # NoSender, SameSource(d.sender, t)
  PROVE  d.sender = t
<1>1. PICK e \in Datagrams : t = e.sender
  BY DEF Senders
<1>2. /\ d.sender = [addr |-> d.sender.addr, port |-> d.sender.port]
      /\ e.sender = [addr |-> e.sender.addr, port |-> e.sender.port]
  BY DatagramAssumption
<1> QED
  BY <1>1, <1>2 DEF SameSource

LEMMA OwnedStep == Typed /\ Owned /\ [Next]_vars => Owned'
<1> SUFFICES ASSUME Typed, Owned, [Next]_vars PROVE Owned'
  OBVIOUS
<1>0. /\ wpc \in {"init", "match", "sender"} => cur \in Datagrams /\ cur.ssrc # 0
      /\ pcm.sender \in Senders
      /\ owner = [ssrc |-> owner.ssrc, sender |-> owner.sender]
  BY DEF Typed, TypeOK, Holding, InFlight, PcmStream
<1> USE DEF Owned, ExpectationIsOwn, session, setter
<1>1. ASSUME NEW n \in BufferSizes, CallWork(n) PROVE Owned'
  BY <1>1 DEF CallWork
<1>2. CASE Stop
  BY <1>2 DEF Stop
<1>3. CASE Restart
  BY <1>3 DEF Restart
<1>4. ASSUME NEW s \in Requests, SetSsrc(s) PROVE Owned'
  BY <1>4 DEF SetSsrc
<1>5. CASE SetSsrcClear
  <2>1. pcm'.ssrc = 0 /\ pcm'.sender = pcm.sender
    BY <1>5 DEF SetSsrcClear, Typed, TypeOK, PcmStream
  <2> QED
    BY <1>5, <2>1 DEF SetSsrcClear
<1>6. ASSUME NEW s \in Requests, ClearEarly(s) PROVE Owned'
  <2>1. pcm'.ssrc = 0 /\ pcm'.sender = pcm.sender
    BY <1>6 DEF ClearEarly, Typed, TypeOK, PcmStream
  <2> QED
    BY <1>6, <2>1 DEF ClearEarly
<1>7. CASE SetSsrcLate
  BY <1>7 DEF SetSsrcLate
<1>8. CASE Interrupted
  BY <1>8 DEF Interrupted
<1>9. CASE EnterRecv
  BY <1>9 DEF EnterRecv
<1>10. CASE RecvTimeout
  BY <1>10 DEF RecvTimeout
<1>11. ASSUME NEW d \in Datagrams, RecvDatagram(d) PROVE Owned'
  BY <1>11 DEF RecvDatagram
<1>12. CASE FilterAny
  BY <1>12 DEF FilterAny, Skip
<1>13. CASE FilterMatch
  BY <1>13 DEF FilterMatch, Skip
<1>14. CASE CheckSession
  BY <1>14 DEF CheckSession
<1> DEFINE Begun == /\ pcm'.ssrc = cur.ssrc /\ pcm'.sender = cur.sender
                    /\ owner' = Stream(cur)
                    /\ owner'.ssrc = cur.ssrc /\ owner'.sender = cur.sender
<1>a. init(cur) => Begun
  BY DEF init, Stream
<1>b. cur \in Datagrams => cur.sender # NoSender
  BY DatagramAssumption
<1>15. CASE InitSession
  BY <1>0, <1>15, <1>a, <1>b DEF InitSession
<1>16. CASE MatchSession
  BY <1>0, <1>16 DEF MatchSession, Skip
<1>17. CASE CheckSender
  <2>1. CASE SameSource(cur.sender, pcm.sender)
    <3>1. owner.sender = cur.sender /\ owner.ssrc = cur.ssrc
      BY <1>0, <1>17, <2>1, SameSourceIsEqual DEF CheckSender
    <3>2. owner = Stream(cur)
      BY <1>0, <3>1 DEF Stream
    <3> QED
      BY <1>17, <2>1, <3>2 DEF CheckSender
  <2>2. CASE ~SameSource(cur.sender, pcm.sender)
    BY <1>0, <1>17, <1>a, <1>b, <2>2 DEF CheckSender
  <2> QED
    BY <2>1, <2>2
<1>18. CASE DropOld
  BY <1>18 DEF DropOld, Skip
<1>19. CASE Output
  <2>1. pcm'.ssrc = pcm.ssrc /\ pcm'.sender = pcm.sender
    BY <1>19 DEF Output, Typed, TypeOK, PcmStream
  <2> QED
    BY <1>19, <2>1 DEF Output
<1>20. CASE UNCHANGED vars
  BY <1>20 DEF vars
<1> QED
  BY <1>1, <1>2, <1>3, <1>4, <1>5, <1>6, <1>7, <1>8, <1>9, <1>10, <1>11, <1>12,
     <1>13, <1>14, <1>15, <1>16, <1>17, <1>18, <1>19, <1>20
     DEF Next, WorkerStep, LocalStep, Receive, ControlStep, SchedulerStep

\* No gap is measured against the timestamp of another stream.
THEOREM OwnExpectation == Spec => []ExpectationIsOwn
<1>1. Owned => ExpectationIsOwn
  BY DEF Owned
<1> QED
  BY <1>1, TypedInit, TypedStep, OwnedInit, OwnedStep, PTL DEF Spec

-----------------------------------------------------------------------------
(* The count of items.  *)

LEMMA CountedInit == Init => Counted
  BY SizeAssumption
     DEF Init, Counted, TimelineAligned, PacketInPlace, ItemsFit, OddOnlyWhenCut, Empty,
         GapOverflows, SampCount

\* Handing over a packet that fits moves the timeline from the expected
\* timestamp to the next one.
LEMMA AdvancePastPacket ==
  ASSUME NEW ts \in UInt, NEW e \in UInt, NEW frames \in Nat, frames < Half,
         ToInt(ts - e) >= 0
  PROVE  ToUint(ToUint(e + ToInt(ts - e)) + frames) = ToUint(ts + frames)
  BY HalfAssumption DEF ToInt, ToUint, UInt, M

\* An item behind the zeroes of a gap holds the samples of its own frame, each
\* in its channel.
LEMMA ItemOfItsFrame ==
  ASSUME NEW c \in Config, Supported(c), Constructible(c), NEW gap \in Nat,
         NEW port \in 0 .. c.outs - 1, NEW i \in Nat
  PROVE  LET item == ItemAt(c, port, i, ItemsPerFrame(c) * gap)
             frame == i \div ItemsPerFrame(c)
         IN  /\ item = <<>> <=> frame < gap
             /\ \A n \in DOMAIN item :
                  /\ item[n] \div c.channels = frame - gap
                  /\ item[n] % c.channels = Channel(c, port, i, n)
<1> DEFINE item == ItemAt(c, port, i, ItemsPerFrame(c) * gap)
<1>1. c.outs \in Nat /\ port \in Nat /\ c.channels \in {1, 2}
  BY DEF Config, Supported
<1>2. c.outs = 1 \/ c.outs = 2
  BY DEF Supported, Constructible
<1>3. CASE Interleaved(c)
  <2>1. c.channels = 2 /\ c.outs = 1 /\ ItemsPerFrame(c) = 2
    BY <1>3 DEF Interleaved, ItemsPerFrame
  <2>2. CASE i < 2 * gap
    <3>1. item = <<>> /\ i \div 2 < gap
      BY <2>1, <2>2 DEF ItemAt
    <3> QED
      BY <2>1, <3>1
  <2>3. CASE ~(i < 2 * gap)
    <3>1. item = <<i - 2 * gap>>
      BY <1>3, <2>1, <2>3 DEF ItemAt, ItemSamples
    <3>2. /\ (i - 2 * gap) \div 2 = (i \div 2) - gap /\ ~(i \div 2 < gap)
          /\ (i - 2 * gap) % 2 = i % 2
      BY <2>3
    <3>3. \A n \in DOMAIN item : n = 1 /\ Channel(c, port, i, n) = i % 2
      BY <1>3, <2>1, <3>1 DEF Channel
    <3>4. item # <<>> /\ item[1] = i - 2 * gap
      BY <3>1
    <3> QED
      BY <2>1, <3>2, <3>3, <3>4
  <2> QED
    BY <2>2, <2>3
<1>4. CASE ~Interleaved(c)
  <2>1. ItemsPerFrame(c) = 1 /\ i \div 1 = i /\ 1 * gap = gap
    BY <1>4 DEF ItemsPerFrame
  <2>2. CASE i < gap
    <3>1. item = <<>>
      BY <2>1, <2>2 DEF ItemAt
    <3> QED
      BY <2>1, <2>2, <3>1
  <2>3. CASE ~(i < gap)
    <3> DEFINE k == i - gap
    <3>1. k \in Nat /\ item = ItemSamples(c, port, k)
      BY <2>1, <2>3 DEF ItemAt
    <3> HIDE DEF k
    <3>2. CASE c.channels = 1
      <4>1. item = <<k>> /\ k \div 1 = k /\ k % 1 = 0
        BY <3>1, <3>2 DEF ItemSamples
      <4>2. \A n \in DOMAIN item : n = 1 /\ Channel(c, port, i, n) = 0
        BY <3>2, <4>1 DEF Channel
      <4>3. item # <<>> /\ item[1] = k
        BY <4>1
      <4> QED
        BY <2>1, <2>3, <3>2, <4>1, <4>2, <4>3 DEF k
    <3>3. CASE c.channels = 2 /\ c.outs = 2
      <4>1. item = <<2 * k + port>>
        BY <1>4, <3>1, <3>3 DEF ItemSamples
      <4>2. port \in {0, 1}
        BY <3>3
      <4>3. (2 * k + port) \div 2 = k /\ (2 * k + port) % 2 = port
        BY <3>1, <4>2
      <4>4. \A n \in DOMAIN item : n = 1 /\ Channel(c, port, i, n) = port
        BY <3>3, <4>1 DEF Channel
      <4>5. item # <<>> /\ item[1] = 2 * k + port
        BY <4>1
      <4> QED
        BY <2>1, <2>3, <3>3, <4>3, <4>4, <4>5 DEF k
    <3>4. CASE c.channels = 2 /\ c.outs = 1
      <4>1. item = <<2 * k, 2 * k + 1>>
        BY <1>4, <3>1, <3>4 DEF ItemSamples
      <4>2. /\ (2 * k) \div 2 = k /\ (2 * k) % 2 = 0
            /\ (2 * k + 1) \div 2 = k /\ (2 * k + 1) % 2 = 1
        BY <3>1
      <4>3. \A n \in DOMAIN item : n \in {1, 2}
        BY <4>1
      <4>4. \A n \in {1, 2} : Channel(c, port, i, n) = n - 1
        BY <1>4, <3>4 DEF Channel
      <4>5. item # <<>> /\ item[1] = 2 * k /\ item[2] = 2 * k + 1
        BY <4>1
      <4> QED
        BY <2>1, <2>3, <3>4, <4>2, <4>3, <4>4, <4>5 DEF k
    <3> QED
      BY <1>1, <1>2, <3>2, <3>3, <3>4
  <2> QED
    BY <2>2, <2>3
<1> QED
  BY <1>3, <1>4

LEMMA OutputCounted ==
  ASSUME Typed, Counted, Output
  PROVE  Counted'
<1> DEFINE size   == PayloadSize(cur)
           step   == TimeStep
           offset == Offset(step, size)
           items  == output_samples(config, size, noutput, offset)
<1>1. /\ TypeOK /\ cur \in Datagrams /\ size > 0
      /\ config \in Config /\ noutput \in Nat \ {0}
  BY ConfigType, SizeAssumption DEF Typed, Holding, TypeOK, Output, InFlight
<1>2. size \in Nat \ {0} /\ noutput + size < Half
  BY <1>1, NextTimestampType
<1>3. step \in Nat /\ step < Half /\ noutput < Half
  BY <1>1, <1>2, TimeStepType, HalfAssumption DEF Output, SInt
<1>4. /\ offset \in -Half .. noutput
      /\ offset <= ItemsPerFrame(config) * step
      /\ ~GapOverflows(step) => offset \in 0 .. noutput
      /\ Interleaved(config) => offset % 2 = 0
  <2>1. offset = 0 \/ offset = output_zeroes(config, step, noutput, 0)
    BY DEF Offset
  <2>2. /\ output_zeroes(config, step, noutput, 0) \in -Half .. noutput
        /\ output_zeroes(config, step, noutput, 0) <= ItemsPerFrame(config) * step
    BY <1>1, <1>3, ZeroesRange
  <2>5. ItemsPerFrame(config) * step >= 0
    BY <1>3 DEF ItemsPerFrame
  <2>3. ~GapOverflows(step) => output_zeroes(config, step, noutput, 0) \in 0 .. noutput
    BY <1>1, <1>3, ZeroesRange, HalfAssumption DEF GapOverflows
  <2>4. Interleaved(config) => output_zeroes(config, step, noutput, 0) % 2 = 0
    BY <1>1, <1>3, ZeroesRange
  <2> HIDE DEF offset
  <2> QED
    BY <1>1, <2>1, <2>2, <2>3, <2>4, <2>5, HalfAssumption
<1>5. items \in Int /\ (offset \in 0 .. noutput => offset <= items /\ items <= noutput)
  BY <1>1, <1>2, <1>4, SamplesEnd
<1>6. ret' = [noutput |-> noutput, gap |-> step, size |-> size,
              offset |-> offset, items |-> items]
  BY DEF Output
<1>7. config' = config
  BY DEF Output
<1>8. ItemsFit'
  BY <1>4, <1>5, <1>6, <1>7 DEF ItemsFit, GapOverflows, Interleaved
<1>9. TimelineAligned'
  <2> SUFFICES ASSUME Supported(config), ~slipped' PROVE due' = pcm'.timestamp
    BY <1>7 DEF TimelineAligned, Supported
  <2>1. Fits(config, step, size, noutput) /\ (~slipped \/ cur.marker)
    BY DEF Output
  <2>2. (IF cur.marker THEN cur.timestamp ELSE due) = Expected
    BY <2>1 DEF Counted, TimelineAligned, Expected
  <2> DEFINE zeroes == ItemsPerFrame(config) * step
  <2>3. /\ get_output_items(config, size, step) <= noutput
        /\ output_zeroes(config, step, noutput, 0) = zeroes
        /\ output_samples(config, size, noutput, zeroes) - zeroes = Samples(config, size)
        /\ zeroes \div ItemsPerFrame(config) = step
        /\ Samples(config, size) \div ItemsPerFrame(config) = FrameCount(config, size)
    BY <1>1, <1>2, <1>3, <2>1, FittingPacket
  <2>4. offset = zeroes
    <3>1. step = 0 => zeroes = 0
      BY DEF ItemsPerFrame
    <3> QED
      BY <1>3, <2>3, <3>1 DEF Offset
  <2>5. due' = Advance(Advance(Expected, offset), items - offset)
    BY <2>2 DEF Output
  <2>6. due' = ToUint(ToUint(Expected + step) + FrameCount(config, size))
    BY <2>3, <2>4, <2>5 DEF Advance
  <2>7. /\ FrameCount(config, size) \in Nat /\ FrameCount(config, size) < Half
        /\ cur.timestamp \in UInt /\ Expected \in UInt
    <3>1. FrameCount(config, size) \in 0 .. size
      BY <1>1, <1>2, FrameCountRange
    <3>2. cur.timestamp \in UInt /\ Expected \in UInt
      BY <1>1, TimeStepType, PacketType DEF UInt, M
    <3> HIDE DEF size
    <3> QED
      BY <1>1, <1>2, <3>1, <3>2, HalfAssumption
  <2>8. due' = ToUint(cur.timestamp + FrameCount(config, size))
    BY <1>3, <2>6, <2>7, AdvancePastPacket DEF TimeStep
  <2>9. pcm'.timestamp = NextTimestamp(size)
    BY <1>1 DEF Output, TypeOK, PcmStream
  <2> QED
    BY <2>8, <2>9 DEF NextTimestamp
<1>10. OddOnlyWhenCut'
  <2> SUFFICES ASSUME Interleaved(config), items % 2 = 1, SampCount(size) % 2 # 1
               PROVE  noutput % 2 = 1 /\ ~Fits(config, step, size, noutput)
    BY <1>6, <1>7 DEF OddOnlyWhenCut, Interleaved, Fits, ItemsPerFrame, Samples
  <2> DEFINE k == SampCount(size)
  <2>1. k \in Nat /\ k <= size /\ Samples(config, size) = k /\ Supported(config)
    <3>1. k \in 0 .. size
      BY <1>1, <1>2, FrameCountRange
    <3> QED
      BY <1>2, <3>1 DEF Samples, Interleaved, Supported
  <2>2. items = offset + ClipSamples(k, noutput, offset)
    BY <2>1 DEF output_samples
  <2>3. offset % 2 = 0 /\ offset + k < Half /\ offset + k >= -Half /\ offset \in Int
    <3> HIDE DEF size, offset, k
    <3>1. offset % 2 = 0
      BY <1>4
    <3> QED
      BY <1>1, <1>2, <1>4, <2>1, <3>1, HalfAssumption
  <2>4. ToInt(offset + k) = offset + k
    BY <2>1, <2>3, HalfAssumption DEF ToInt
  <2> HIDE DEF offset, items, k
  <2>5. (offset + k) % 2 = 0
    BY <2>1, <2>3 DEF k
  <2>6. offset + k > noutput /\ items = noutput
    BY <1>1, <2>1, <2>2, <2>3, <2>4, <2>5 DEF ClipSamples
  <2>7. 2 * step + k > noutput
    BY <1>1, <1>3, <1>4, <2>1, <2>3, <2>6 DEF ItemsPerFrame
  <2> QED
    BY <1>1, <1>3, <2>1, <2>6, <2>7 DEF Fits, ItemsPerFrame
<1>11. PacketInPlace'
  <2> SUFFICES ASSUME Supported(config), Fits(config, step, size, noutput)
               PROVE  /\ items = ItemsPerFrame(config) * (step + FrameCount(config, size))
                      /\ \A port \in 0 .. config.outs - 1, i \in 0 .. items - 1 :
                           LET item == ItemAt(config, port, i, offset)
                               frame == i \div ItemsPerFrame(config)
                           IN  /\ item = <<>> <=> frame < step
                               /\ \A n \in DOMAIN item :
                                    /\ item[n] \div config.channels = frame - step
                                    /\ item[n] % config.channels = Channel(config, port, i, n)
    BY <1>6, <1>7 DEF PacketInPlace
  <2> DEFINE zeroes == ItemsPerFrame(config) * step
  <2>1. /\ get_output_items(config, size, step) <= noutput
        /\ output_zeroes(config, step, noutput, 0) = zeroes
        /\ output_samples(config, size, noutput, zeroes) - zeroes = Samples(config, size)
    BY <1>1, <1>2, <1>3, FittingPacket
  <2>2. offset = zeroes
    <3>1. step = 0 => zeroes = 0
      BY DEF ItemsPerFrame
    <3> QED
      BY <1>3, <2>1, <3>1 DEF Offset
  <2>3. Samples(config, size) = ItemsPerFrame(config) * FrameCount(config, size)
    BY <1>1, <1>2, <1>3, WholeFrames
  <2>4. items = ItemsPerFrame(config) * (step + FrameCount(config, size))
    <3>1. items - zeroes = ItemsPerFrame(config) * FrameCount(config, size)
      BY <2>1, <2>2, <2>3
    <3>2. items \in Int /\ FrameCount(config, size) \in Nat /\ step \in Nat
      BY <1>1, <1>2, <1>3, <1>5, FrameCountRange
    <3> HIDE DEF items, step, size
    <3> QED
      BY <3>1, <3>2 DEF ItemsPerFrame
  <2>5. Constructible(config)
    BY <1>1, ConfigType
  <2> HIDE DEF items, step, size, offset
  <2>6. \A i \in 0 .. items - 1 : i \in Nat
    OBVIOUS
  <2> QED
    BY <1>1, <1>3, <2>2, <2>4, <2>5, <2>6, ItemOfItsFrame
<1> QED
  BY <1>8, <1>9, <1>10, <1>11 DEF Counted

LEMMA CountedStep == Typed /\ Counted /\ [Next]_vars => Counted'
<1> SUFFICES ASSUME Typed, Counted, [Next]_vars PROVE Counted'
  OBVIOUS
<1> DEFINE Still == /\ config' = config /\ due' = due /\ slipped' = slipped
                       /\ pcm'.timestamp = pcm.timestamp
           Begun    == config' = config /\ due' = pcm'.timestamp
           Nothing  == \E n \in BufferSizes : ret' = Empty(n)
<1>1. (Still \/ Begun) => TimelineAligned'
  BY DEF Counted, TimelineAligned, Supported
<1>2. Nothing => PacketInPlace' /\ ItemsFit' /\ OddOnlyWhenCut'
  BY SizeAssumption DEF Empty, PacketInPlace, ItemsFit, OddOnlyWhenCut
<1>3. ret' = ret /\ config' = config => PacketInPlace' /\ ItemsFit' /\ OddOnlyWhenCut'
  BY DEF Counted, PacketInPlace, ItemsFit, OddOnlyWhenCut, GapOverflows, Interleaved, Fits,
         ItemsPerFrame, Samples
<1>4. init(cur) => due' = pcm'.timestamp
  BY DEF init
<1>5. CASE Output
  BY <1>5, OutputCounted
<1>6. CASE \E n \in BufferSizes : CallWork(n)
  BY <1>1, <1>2, <1>6 DEF CallWork, Counted, session
<1>7. CASE RecvTimeout
  BY <1>1, <1>2, <1>7 DEF RecvTimeout, Counted, session, Typed, TypeOK
<1>8. CASE InitSession
  BY <1>1, <1>3, <1>4, <1>8 DEF InitSession, Counted
<1>9. CASE CheckSender
  BY <1>1, <1>3, <1>4, <1>9 DEF CheckSender, Counted, session
<1>10. CASE ControlStep
  <2>1. ControlStep => /\ config' = config /\ ret' = ret /\ due' = due
                       /\ slipped' = slipped
                       /\ pcm' = pcm \/ pcm' = [pcm EXCEPT !.ssrc = 0]
    BY DEF ControlStep, SetSsrc, ClearEarly, SetSsrcClear, SetSsrcLate, session
  <2>2. pcm' = pcm \/ pcm' = [pcm EXCEPT !.ssrc = 0] => pcm'.timestamp = pcm.timestamp
    BY DEF Typed, TypeOK, PcmStream
  <2> QED
    BY <1>1, <1>3, <1>10, <2>1, <2>2 DEF Counted
<1>11. CASE \/ Stop \/ Restart \/ Interrupted \/ EnterRecv \/ Receive
            \/ FilterAny \/ FilterMatch \/ CheckSession \/ MatchSession \/ DropOld
            \/ UNCHANGED vars
  <2>1. Still /\ ret' = ret
    BY <1>11 DEF Stop, Restart, Interrupted, EnterRecv, Receive, RecvDatagram,
                 FilterAny, FilterMatch, CheckSession, MatchSession, DropOld, vars, session
  <2> QED
    BY <1>1, <1>3, <2>1 DEF Counted
<1> QED
  BY <1>5, <1>6, <1>7, <1>8, <1>9, <1>10, <1>11
     DEF Next, WorkerStep, LocalStep, SchedulerStep

\* As long as packets fit their buffers, counting output items tells the time.
THEOREM TimelineKept == Spec => []TimelineAligned
<1>1. Counted => TimelineAligned
  BY DEF Counted
<1> QED
  BY <1>1, TypedInit, TypedStep, CountedInit, CountedStep, PTL DEF Spec

\* A packet that fits is handed over whole, each sample at its time and place.
THEOREM InPlace == Spec => []PacketInPlace
<1>1. Counted => PacketInPlace
  BY DEF Counted
<1> QED
  BY <1>1, TypedInit, TypedStep, CountedInit, CountedStep, PTL DEF Spec

\* What work reports fits the buffer it was given.
THEOREM Fitting == Spec => []ItemsFit
<1>1. Counted => ItemsFit
  BY DEF Counted
<1> QED
  BY <1>1, TypedInit, TypedStep, CountedInit, CountedStep, PTL DEF Spec

\* Interleaved pairs are only broken by half frames and overfilled odd buffers.
THEOREM Pairs == Spec => []OddOnlyWhenCut
<1>1. Counted => OddOnlyWhenCut
  BY DEF Counted
<1> QED
  BY <1>1, TypedInit, TypedStep, CountedInit, CountedStep, PTL DEF Spec

-----------------------------------------------------------------------------
(* Deafness.  *)

\* A deaf block stays deaf and hands over nothing until the next set_ssrc.
LEMMA DeafStep ==
  Typed /\ [Next]_vars => (Deaf => \/ spc' # "idle"
                                   \/ Deaf' /\ (ret' = ret \/ ret'.items = 0))
<1> SUFFICES ASSUME Typed, [Next]_vars, Deaf, spc' = "idle"
             PROVE  Deaf' /\ (ret' = ret \/ ret'.items = 0)
  OBVIOUS
<1> USE DEF Deaf, InFlight, session, setter
<1>1. CASE ControlStep
  BY <1>1 DEF ControlStep, SetSsrc, ClearEarly, SetSsrcClear, SetSsrcLate
<1>2. CASE SchedulerStep
  BY <1>2 DEF SchedulerStep, CallWork, Stop, Restart, Empty
<1>3. CASE Interrupted \/ EnterRecv \/ Receive \/ RecvTimeout
  BY <1>3 DEF Interrupted, EnterRecv, Receive, RecvDatagram, RecvTimeout, Empty
<1>4. CASE FilterAny \/ FilterMatch
  BY <1>4 DEF FilterAny, FilterMatch, Skip
<1>5. CASE CheckSession \/ MatchSession
  BY <1>5 DEF CheckSession, MatchSession, Skip
<1>6. CASE InitSession \/ CheckSender \/ DropOld \/ Output
  BY <1>6 DEF InitSession, CheckSender, DropOld, Output
<1>7. CASE UNCHANGED vars
  BY <1>7 DEF vars
<1> QED
  BY <1>1, <1>2, <1>3, <1>4, <1>5, <1>6, <1>7 DEF Next, WorkerStep, LocalStep

\* Only a new set_ssrc brings a deaf block back.
THEOREM Deafness == Spec => DeafUntilReset
<1> QED
  BY TypedInit, TypedStep, DeafStep, PTL DEF Spec, DeafUntilReset

-----------------------------------------------------------------------------
(* What has passed.  *)

\* A time behind the expected timestamp stays behind it while the timeline goes
\* on, as long as it ends up behind by no more than half the range.
LEMMA StaysBehind ==
  ASSUME NEW t \in UInt, NEW ts \in UInt, NEW e \in UInt, NEW frames \in Nat,
         frames < Half, ToInt(ts - e) >= 0, ToInt(t - e) < 0,
         ToInt(ts - e) + frames - ToInt(t - e) <= Half
  PROVE  ToInt(t - ToUint(ts + frames)) < 0
  BY HalfAssumption DEF ToInt, ToUint, UInt, M

\* Handing over an unmarked packet leaves what has passed passed.
LEMMA OutputPasses ==
  ASSUME Typed, Owned, Output, ~cur.marker, NEW d \in Datagrams, Passed(d)
  PROVE  Passed(d)' \/ Laps(d)
<1> DEFINE size == PayloadSize(cur)
           frames == FrameCount(config, size)
<1>0. wpc = "process" /\ cur \in Datagrams /\ PayloadSize(cur) > 0 /\ TypeOK
  BY DEF Typed, Holding, InFlight, Output
<1>1. size \in Nat \ {0} /\ noutput + size < Half
  BY <1>0, NextTimestampType
<1>2. config \in Config /\ size < Half
  <2>1. noutput \in Nat
    BY <1>0, SizeAssumption DEF TypeOK
  <2> QED
    BY <1>0, <1>1, <2>1, ConfigType, HalfAssumption
<1>3. frames \in Nat /\ frames < Half
  <2> HIDE DEF size
  <2>1. size \in Nat
    BY <1>1
  <2>2. FrameCount(config, size) \in 0 .. size
    BY <1>2, <2>1, FrameCountRange
  <2> QED
    BY <1>2, <2>1, <2>2, HalfAssumption
<1>4. /\ cur.timestamp \in UInt /\ d.timestamp \in UInt /\ pcm.timestamp \in UInt
      /\ TimeStep = ToInt(cur.timestamp - pcm.timestamp)
  BY <1>0, PacketType DEF TypeOK, PcmStream, UInt, M, TimeStep, Expected
<1>5. /\ pcm'.timestamp = ToUint(cur.timestamp + frames)
      /\ ret'.gap = TimeStep /\ ret'.size = size /\ owner' = owner
      /\ ToInt(cur.timestamp - pcm.timestamp) >= 0
  BY <1>0, <1>4 DEF Output, TypeOK, PcmStream, NextTimestamp
<1>6. ToInt(d.timestamp - pcm.timestamp) \in Int /\ TimeStep \in Int
  BY <1>4, HalfAssumption DEF ToInt, UInt, M
<1>7. CASE TimeStep + frames - ToInt(d.timestamp - pcm.timestamp) > Half
  BY <1>0, <1>5, <1>7 DEF Laps
<1>8. CASE TimeStep + frames - ToInt(d.timestamp - pcm.timestamp) <= Half
  <2> HIDE DEF size, frames
  <2>1. ToInt(d.timestamp - ToUint(cur.timestamp + frames)) < 0
    BY <1>3, <1>4, <1>5, <1>8, StaysBehind DEF Passed
  <2> QED
    BY <2>1, <1>5 DEF Passed
<1> QED
  BY <1>3, <1>6, <1>7, <1>8, HalfAssumption

\* The two parts of NeverReplayed, of a step.
KeepsPassed(d) ==
  \/ Passed(d)'
  \/ wpc \in {"init", "sender"}
  \/ wpc = "process" /\ cur.marker
  \/ Laps(d)

LEMMA PassedStep ==
  Typed /\ Owned /\ [Next]_vars =>
     /\ wpc = "process" /\ wpc' = "idle" /\ Passed(cur) => cur.marker
     /\ <<pcm, owner>>' # <<pcm, owner>> =>
          \A d \in Datagrams : Passed(d) => KeepsPassed(d)
<1> SUFFICES ASSUME Typed, Owned, [Next]_vars
             PROVE  /\ wpc = "process" /\ wpc' = "idle" /\ Passed(cur) => cur.marker
                    /\ <<pcm, owner>>' # <<pcm, owner>> =>
                         \A d \in Datagrams : Passed(d) => KeepsPassed(d)
  OBVIOUS
<1>1. \/ pcm' = pcm /\ owner' = owner /\ ~(wpc = "process" /\ wpc' = "idle")
      \/ pcm'.timestamp = pcm.timestamp /\ owner' = owner /\ wpc' = wpc
      \/ wpc \in {"init", "sender"}
      \/ Output
  BY DEF Next, WorkerStep, LocalStep, Receive, ControlStep, SchedulerStep, vars, session,
         setter, CallWork, Stop, Restart, SetSsrc, SetSsrcClear, ClearEarly, SetSsrcLate,
         Interrupted, EnterRecv, RecvTimeout, RecvDatagram, FilterAny, FilterMatch,
         CheckSession, InitSession, MatchSession, CheckSender, DropOld, Output, Skip,
         Typed, TypeOK, PcmStream
<1>2. CASE pcm' = pcm /\ owner' = owner /\ ~(wpc = "process" /\ wpc' = "idle")
  BY <1>2
<1>3. CASE pcm'.timestamp = pcm.timestamp /\ owner' = owner /\ wpc' = wpc
  BY <1>3 DEF KeepsPassed, Passed
<1>4. CASE wpc \in {"init", "sender"}
  BY <1>4 DEF KeepsPassed
<1>5. CASE Output
  <2>1. Passed(cur) => cur.marker
    <3>1. TimeStep >= 0
      BY <1>5 DEF Output
    <3>2. cur \in Datagrams /\ TypeOK
      BY <1>5 DEF Output, Typed, Holding, InFlight
    <3>3. TimeStep \in Int
      BY <3>2, TimeStepType DEF SInt
    <3> QED
      BY <3>1, <3>3 DEF Passed, TimeStep, Expected
  <2>2. ASSUME NEW d \in Datagrams, Passed(d) PROVE KeepsPassed(d)
    <3>1. wpc = "process"
      BY <1>5 DEF Output
    <3>2. CASE cur.marker
      BY <3>1, <3>2 DEF KeepsPassed
    <3>3. CASE ~cur.marker
      BY <1>5, <2>2, <3>3, OutputPasses DEF KeepsPassed
    <3> QED
      BY <3>2, <3>3
  <2> QED
    BY <2>1, <2>2
<1> QED
  BY <1>1, <1>2, <1>3, <1>4, <1>5

\* Late, repeated and set-back packets are never handed over, whatever is sent,
\* in what order, and whenever set_ssrc is called.
THEOREM PassedForGood == Spec => NeverReplayed
<1> QED
  BY TypedInit, TypedStep, OwnedInit, OwnedStep, PassedStep, PTL
     DEF Spec, NeverReplayed, KeepsPassed
=============================================================================
