---------------------------- MODULE MCCrawlWork -----------------------------
(***************************************************************************)
(* Instances of CrawlWork for TLC.                                         *)
(***************************************************************************)
EXTENDS CrawlWork, TLC

CONSTANTS j1, j2, h1, h2

\* Limits that cut from the end, cut everything, and lie below and above the
\* worker's own.
SomeMaxBytes == {-1, 0, 1, 3}

Symmetry == Permutations({h1, h2}) \cup Permutations({j1, j2})
=============================================================================
