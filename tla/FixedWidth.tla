----------------------------- MODULE FixedWidth -----------------------------
(***************************************************************************)
(* The 32-bit machine integers of the block, scaled: 2^31 becomes Half.    *)
(* RTP timestamps are uint32_t (0 .. M-1); item counts and the time step   *)
(* are int (-Half .. Half-1).                                              *)
(*                                                                         *)
(* Every sum the code forms leaves its range by less than M, so one fold   *)
(* is enough to wrap it; a fold, unlike %, is linear arithmetic, which     *)
(* keeps the proofs within reach of an SMT solver.  Overflow of an int is  *)
(* undefined in C++; the fold is the two's-complement result a build       *)
(* produces.                                                               *)
(***************************************************************************)
EXTENDS Integers

CONSTANT Half           \* 2^31 in the code

ASSUME HalfAssumption == Half \in Nat \ {0}

M == 2 * Half           \* 2^32 in the code

UInt == 0 .. M - 1
SInt == -Half .. Half - 1

\* A sum of uint32_t values.
ToUint(x) == IF x >= M THEN x - M ELSE IF x < 0 THEN x + M ELSE x

\* A value converted to, or a sum of, ints.
ToInt(x) == IF x >= Half THEN x - M ELSE IF x < -Half THEN x + M ELSE x
=============================================================================
