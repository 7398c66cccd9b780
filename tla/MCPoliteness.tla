---------------------------- MODULE MCPoliteness ----------------------------
(***************************************************************************)
(* Instances of Politeness for TLC.                                        *)
(***************************************************************************)
EXTENDS Politeness, TLC

CONSTANTS w1, w2, w3, d1

\* A call without a delay or a cap would be granted any number of times in a tick.
SomeCalls ==
  {[delay |-> 0, capped |-> TRUE], [delay |-> 2, capped |-> TRUE], [delay |-> 2, capped |-> FALSE]}

CappedCalls == {[delay |-> 1, capped |-> TRUE]}

WorkerSymmetry == Permutations(Workers)
=============================================================================
