----------------------------- MODULE Selection -----------------------------
(***************************************************************************)
(* A comprehension with a condition, and a join: what the Python of the    *)
(* documentation programs does to its lists and strings.                   *)
(***************************************************************************)
EXTENDS Naturals, SequencesExt

(* A sequence, of anything.                                                 *)
Sequence(s) == s \in Seq(ToSet(s))

(* What a sequence has at the given places, in its order.                   *)
Kept(s, places) ==
    LET upto[n \in 0 .. Len(s)] ==
          IF n = 0 THEN <<>>
          ELSE IF n \in places THEN Append(upto[n - 1], s[n]) ELSE upto[n - 1]
    IN  upto[Len(s)]

(* The sequences of a sequence, one after the other.                        *)
Concat(ss) ==
    LET upto[n \in 0 .. Len(ss)] == IF n = 0 THEN <<>> ELSE upto[n - 1] \o ss[n]
    IN  upto[Len(ss)]
=============================================================================
