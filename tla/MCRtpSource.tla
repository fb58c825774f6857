---------------------------- MODULE MCRtpSource ----------------------------
(***************************************************************************)
(* Instances of RtpSource for TLC.  Half = 16 scales 2^31, so timestamps   *)
(* wrap at 32; payloads are 2 to 8 bytes and buffers up to 8 items.        *)
(***************************************************************************)
EXTENDS SourceProperties

a1 == [addr |-> "a", port |-> 1]
a2 == [addr |-> "a", port |-> 2]
b1 == [addr |-> "b", port |-> 1]

\* A plain packet: no CSRCs, extension or padding, payload bytes behind the header.
Packet(s, from, ts, payload, mark) ==
  [len |-> 12 + payload, cc |-> 0, extension |-> FALSE, ext_len |-> 0,
   pad |-> FALSE, last |-> 0, marker |-> mark, timestamp |-> ts, ssrc |-> s,
   sender |-> from]

Mode(t, in, out) == [T |-> t, channels |-> in, outs |-> out]

\* The output modes the GRC block offers.
Modes == { Mode("gr_complex", 2, 1), Mode("int16_t", 2, 1),
           Mode("float", 1, 1), Mode("float", 2, 2),
           Mode("int16_t", 1, 1), Mode("int16_t", 2, 2) }

\* Others the constructor accepts: downmix, pseudo-stereo, and two that
\* output_samples has no copying loop for.
OtherModes == { Mode("float", 2, 1), Mode("float", 1, 2),
                Mode("gr_complex", 3, 1), Mode("int16_t", 1, 3) }

Mono == { Mode("float", 1, 1) }

-----------------------------------------------------------------------------
\* Retuning: two SSRCs, one of them from two senders; a request for any stream.
RetuneDatagrams ==
  { Packet(1, a1, 0, 4, FALSE), Packet(1, a1, 2, 4, FALSE),
    Packet(1, b1, 0, 4, FALSE), Packet(1, a2, 2, 4, TRUE),
    Packet(2, a1, 0, 4, FALSE), Packet(2, a1, 2, 4, FALSE),
    Packet(0, a1, 0, 4, FALSE) }

RetuneRequests == {0, 1, 2}

-----------------------------------------------------------------------------
\* The timeline: one stream whose timestamps straddle the wrap, lost,
\* repeated and reordered at will, with payloads of one, two and three
\* samples (in stereo half a frame, one, one and a half); a marked packet; and malformed ones: no RTP
\* header, no payload, only padding, CSRCs or an extension that overrun it.
TimelineDatagrams ==
  { Packet(1, a1, ts, payload, FALSE) :
       ts \in {30, 31, 0, 2, 10}, payload \in {2, 4, 6} }
  \cup { Packet(1, a1, 5, 4, TRUE), Packet(1, b1, 2, 4, FALSE) }
  \cup { [Packet(1, a1, 0, 4, FALSE) EXCEPT !.cc = 1],
         [Packet(1, a1, 0, 4, FALSE) EXCEPT !.len = 8],
         [Packet(1, a1, 0, 0, FALSE) EXCEPT !.marker = TRUE],
         [Packet(1, a1, 0, 4, FALSE) EXCEPT !.pad = TRUE, !.last = 4],
         [Packet(1, a1, 1, 8, FALSE) EXCEPT !.pad = TRUE, !.last = 4],
         [Packet(1, a1, 1, 8, FALSE) EXCEPT !.extension = TRUE],
         [Packet(1, a1, 0, 8, FALSE) EXCEPT !.extension = TRUE, !.ext_len = 2] }

OneRequest == {1}

AllModes == Modes \cup OtherModes

-----------------------------------------------------------------------------
\* Liveness: the fewest datagrams that allow a race, a drop and an adoption.
LiveDatagrams ==
  { Packet(1, a1, 0, 4, FALSE), Packet(2, a1, 0, 4, FALSE), Packet(2, b1, 2, 4, FALSE) }
=============================================================================
