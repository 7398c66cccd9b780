---------------------------- MODULE MCJobEnqueue ----------------------------
(***************************************************************************)
(* Instances of JobEnqueue for TLC.                                        *)
(***************************************************************************)
EXTENDS JobEnqueue, TLC

CONSTANTS k1, k2, x1, x2, x3

\* A planner that enqueues two URLs, and a route call.
Planner == {<<k1, k2>>, <<k2>>}

SessionSymmetry == Permutations({x1, x2, x3})
=============================================================================
