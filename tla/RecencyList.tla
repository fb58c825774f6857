---------------------------- MODULE RecencyList ----------------------------
(***************************************************************************)
(* What the address cache of lib/multicast.c promises: a list of the       *)
(* addresses asked for, each once, the most recent first.                  *)
(***************************************************************************)
EXTENDS SequencesExt

CONSTANT Socks

VARIABLES list, answer

NoAnswer == [sock |-> "none"]

Init == list = <<>> /\ answer = NoAnswer

\* Looking an address up makes it the most recent one and answers for it.
Lookup(s) ==
  /\ list' = <<s>> \o RemoveFirst(list, s)
  /\ answer' = [sock |-> s]

Next == \E s \in Socks : Lookup(s)

Spec == Init /\ [][Next]_<<list, answer>>
=============================================================================
