---------------------------- MODULE SourceOutput ----------------------------
(***************************************************************************)
(* How many items one packet becomes: the arithmetic of get_output_items,  *)
(* output_zeroes and output_samples for the three instantiations of        *)
(* source_impl<T> (lib/source_impl.h, lib/source_impl.cc).                 *)
(*                                                                         *)
(* A configuration is what the constructor fixed: the item type T, the     *)
(* channels of the RTP stream and the number of output ports.  A sample is *)
(* its place in the payload; its scaling to the item type is left out.     *)
(***************************************************************************)
EXTENDS FixedWidth

Types == {"gr_complex", "float", "int16_t"}

Config == [T : Types, channels : Nat \ {0}, outs : Nat \ {0}]

\* Two channels to one port of shorts: each frame is two items, I then Q.
Interleaved(c) == c.T = "int16_t" /\ c.channels = 2 /\ c.outs = 1

\* What check_out_channels lets the constructor build.
Constructible(c) == c.T = "gr_complex" => c.outs = 1

\* Whether the nested tests of output_samples reach a copying loop.
Supported(c) ==
  /\ c.channels \in {1, 2}
  /\ c.T # "gr_complex" => c.outs \in {1, 2}

\* Items of one port that one frame of the stream (one sampling instant) takes.
ItemsPerFrame(c) == IF Interleaved(c) THEN 2 ELSE 1

\* # of 16-bit samples in a payload, and # of frames.
SampCount(size) == size \div 2
FrameCount(c, size) == SampCount(size) \div c.channels

-----------------------------------------------------------------------------
\* The item count work predicts for a gap of time_step frames and a payload.
get_output_items(c, size, time_step) ==
  IF Interleaved(c)
  THEN ToInt(ToInt(2 * time_step) + SampCount(size))
  ELSE ToInt(time_step + FrameCount(c, size))

ClipSamples_IgnoresOffset(n, noutput_items, offset) ==    \* faulty
  IF n <= noutput_items THEN n ELSE noutput_items - offset

\* Clipping a run of n items at offset to the work buffer; interleaved runs of
\* zeroes are cut at a frame boundary, runs of samples are not.
ClipZeroes(c, n, noutput_items, offset) ==
  LET room == noutput_items - offset
  IN  IF ToInt(offset + n) <= noutput_items THEN n
      ELSE IF Interleaved(c) THEN room - (room % 2) ELSE room

ClipSamples(n, noutput_items, offset) ==
  IF ToInt(offset + n) <= noutput_items THEN n ELSE noutput_items - offset

output_zeroes_Frames(c, nzeroes, noutput_items, offset) ==    \* faulty: one zero
  offset + ClipZeroes(c, nzeroes, noutput_items, offset)     \* for a pair

\* Both return the offset behind what they wrote.
output_zeroes(c, nzeroes, noutput_items, offset) ==
  LET asked == IF Interleaved(c) THEN ToInt(2 * nzeroes) ELSE nzeroes
  IN  IF c.T = "gr_complex" \/ c.outs \in {1, 2}
      THEN offset + ClipZeroes(c, asked, noutput_items, offset)
      ELSE offset

Samples(c, size) ==
  IF Interleaved(c) THEN SampCount(size) ELSE size \div (2 * c.channels)

output_samples(c, size, noutput_items, offset) ==
  IF Supported(c)
  THEN offset + ClipSamples(Samples(c, size), noutput_items, offset)
  ELSE offset

\* The samples of the payload, counted from 0, that make the k-th item written
\* to a port: of a mono stream every port takes them all, of a stereo stream a
\* port takes its own channel, or a single port both, as the parts of a complex
\* number, mixed, or one after the other.
ItemSamples_Advances(c, port, k) ==     \* faulty: each port reads a sample on
  IF c.channels = 1 \/ Interleaved(c) THEN <<c.outs * k + port>>
  ELSE IF c.outs = 1 THEN <<2 * k, 2 * k + 1>>
  ELSE <<2 * k + port>>

ItemSamples(c, port, k) ==
  IF c.channels = 1 \/ Interleaved(c) THEN <<k>>
  ELSE IF c.outs = 1 THEN <<2 * k, 2 * k + 1>>
  ELSE <<2 * k + port>>

\* The item at i behind a run of zeroes up to offset; a zero is made of no sample.
ItemAt(c, port, i, offset) ==
  IF i < offset THEN <<>> ELSE ItemSamples(c, port, i - offset)

-----------------------------------------------------------------------------
\* What a reader expects of a packet, in unbounded arithmetic: it fits if the
\* gap before it and all its samples have room, and it ends on a whole frame.
Fits(c, time_step, size, noutput_items) ==
  /\ ItemsPerFrame(c) * time_step + Samples(c, size) <= noutput_items
  /\ Interleaved(c) => SampCount(size) % 2 = 0
=============================================================================
