-------------------------- MODULE SourceProperties --------------------------
(***************************************************************************)
(* What the RTP source block promises: the properties of RtpSource.        *)
(***************************************************************************)
EXTENDS RtpSource

Senders == {NoSender} \cup {d.sender : d \in Datagrams}

PcmStream == [ssrc : Nat, sender : Senders, timestamp : UInt]

Outcome == [noutput : BufferSizes, gap : Nat, size : Nat, offset : Int, items : Int]

\* Every variable stays in the range its C++ type or its meaning gives it.
TypeOK ==
  /\ config \in Configs
  /\ ssrc \in Requests
  /\ pcm \in PcmStream
  /\ wpc \in {"idle", "loop", "recv", "filter", "filter2", "session", "init",
              "match", "sender", "process", "done"}
  /\ cur \in Datagrams \cup {NoDatagram}
  /\ noutput \in BufferSizes
  /\ intr \in BOOLEAN
  /\ spc \in {"idle", "clear", "request"}
  /\ pending \in Requests
  /\ ret \in Outcome
  /\ owner \in [ssrc : Nat, sender : Senders]
  /\ due \in Int
  /\ slipped \in BOOLEAN
  /\ stale \in Nat
  /\ raced \in BOOLEAN

-----------------------------------------------------------------------------
(* Retuning: set_ssrc against work().  *)

\* Once set_ssrc has returned, the block outputs at most one more packet of a
\* stream it was told to leave: the one work() had already accepted.
StaleOutputBounded == stale <= 1

\* A session stays on another SSRC than the requested one only if work() was
\* handling a packet of the earlier request while set_ssrc ran; whenever no
\* packet was in flight, set_ssrc leaves the session empty or on the request.
StrayOnlyWhenRaced ==
  (spc = "idle" /\ ssrc # 0 /\ ~raced) => pcm.ssrc \in {0, ssrc}

\* The session is on one SSRC, the filter passes another: no packet can be
\* output.  (A packet still in flight may restart the session, hence the limit
\* on wpc.)
Deaf ==
  /\ spc = "idle"
  /\ ssrc # 0
  /\ pcm.ssrc \notin {0, ssrc}
  /\ InFlight => wpc \in {"session", "match"} /\ cur.ssrc = ssrc

\* Nothing the worker, the network or a restart of the flowgraph does makes a
\* deaf block hear again or output an item; only a new set_ssrc can.
DeafUntilReset ==
  [][Deaf => \/ spc' # "idle"
             \/ Deaf' /\ (ret' = ret \/ ret'.items = 0)]_vars

\* The expected timestamp work() measures a gap against is always that of the
\* packet's own stream, never of the one received before a change of SSRC,
\* address or port.
ExpectationIsOwn == wpc = "process" => owner = Stream(cur)

-----------------------------------------------------------------------------
(* The timeline.  *)

\* While every packet fits the buffer it meets, counting output items tells the
\* time: the next item is the sample of the expected timestamp, whatever was
\* lost, repeated, reordered, marked or restarted before, across the wrap of the
\* timestamp.
TimelineAligned == (Supported(config) /\ ~slipped) => due = pcm.timestamp

\* The timeline of d's stream is past the time d is of.
Passed(d) == owner = Stream(d) /\ ToInt(d.timestamp - pcm.timestamp) < 0

\* The items handed over carry the timeline from behind d to half the range of
\* the timestamps past it, where d counts as ahead.
Laps(d) ==
  /\ wpc = "process"
  /\ ret'.gap + FrameCount(config, ret'.size) - ToInt(d.timestamp - pcm.timestamp) > Half

\* A time that has passed does not come back: a packet of it, late, repeated, or
\* from a sender that set its timestamps back, is not handed over however often
\* it comes, until its stream is marked, starts a session again from another
\* address or after set_ssrc, or goes on for half the range of the timestamps.
NeverReplayed ==
  [][/\ wpc = "process" /\ wpc' = "idle" /\ Passed(cur) => cur.marker
     /\ <<pcm, owner>>' # <<pcm, owner>> =>
          \A d \in Datagrams : Passed(d) =>
             \/ Passed(d)'
             \/ wpc \in {"init", "sender"}
             \/ wpc = "process" /\ cur.marker
             \/ Laps(d)]_vars

\* The channel the n-th sample in the item at i of a port should be of.
Channel(c, port, i, n) ==
  IF c.channels = 1 THEN 0
  ELSE IF c.outs = 2 THEN port
  ELSE IF Interleaved(c) THEN i % 2 ELSE n - 1

\* A packet that fits its buffer is handed over in place: on every port each
\* missing frame is zero, each frame of the payload stands as many frames
\* behind them as it does in the payload, in its channel, and none is left out
\* (output_zeroes, output_samples and the offset work() passes between them).
PacketInPlace ==
  LET c == config
      frame(i) == i \div ItemsPerFrame(c)
  IN  (ret.items > 0 /\ Supported(c) /\ Fits(c, ret.gap, ret.size, ret.noutput)) =>
        /\ ret.items = ItemsPerFrame(c) * (ret.gap + FrameCount(c, ret.size))
        /\ \A port \in 0 .. c.outs - 1, i \in 0 .. ret.items - 1 :
             LET item == ItemAt(c, port, i, ret.offset)
             IN  /\ item = <<>> <=> frame(i) < ret.gap
                 /\ \A n \in DOMAIN item :
                      /\ item[n] \div c.channels = frame(i) - ret.gap
                      /\ item[n] % c.channels = Channel(c, port, i, n)

\* The zeroes for a gap would overflow an int when counted in items.
GapOverflows(gap) == Interleaved(config) /\ 2 * gap >= Half

\* work() reports no more items than the buffer it was given holds, the samples
\* lie behind the zeroes, and neither count is negative, short of a gap so long
\* that its item count overflows.
ItemsFit ==
  ~GapOverflows(ret.gap) => /\ 0 <= ret.offset
                            /\ ret.offset <= ret.items
                            /\ ret.items <= ret.noutput

\* With interleaved output an odd number of items, which swaps I and Q of all
\* that follows, has one of two causes: a payload that ends inside a frame, or
\* an odd buffer that the packet overfills.
OddOnlyWhenCut ==
  (Interleaved(config) /\ ret.items % 2 = 1) =>
     \/ SampCount(ret.size) % 2 = 1
     \/ ret.noutput % 2 = 1 /\ ~Fits(config, ret.gap, ret.size, ret.noutput)

-----------------------------------------------------------------------------
(* Liveness.  *)

\* A stopped flowgraph stops: neither a silent group nor a flood of packets
\* keeps work() from reaching its interruption point.
StopTerminates == intr ~> wpc = "done"

\* A request that was not overtaken is taken up: if its sender is on the air,
\* the session becomes that of the requested SSRC unless the control thread
\* asks for another or stops the flowgraph.
RequestAdopted ==
  OnAir => \A s \in Requests \ {0} :
    (spc = "idle" /\ ssrc = s /\ ~raced) ~>
       (pcm.ssrc = s \/ spc # "idle" \/ intr)

-----------------------------------------------------------------------------
(* What the comments and the documentation say and the code does not do.  *)

\* README.md:3, the block "reads from an RTP stream (identified by its multicast
\* address and SSRC)": after set_ssrc it can read the stream asked for.
NeverDeaf == ~Deaf

\* source_impl.cc:259, "interleaved short case - make sure nzeroes is even": the
\* output of whole I/Q frames stays whole.
FramesIntact ==
  (Interleaved(config) /\ SampCount(ret.size) % 2 = 0) => ret.items % 2 = 0

\* source_impl.cc:176, "Tell runtime system how many output items we produced":
\* what work() returns is such a number.
ReturnIsACount == ret.items >= 0

=============================================================================
