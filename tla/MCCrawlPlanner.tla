--------------------------- MODULE MCCrawlPlanner ---------------------------
(***************************************************************************)
(* Instances of CrawlPlanner for TLC: the pages of one domain, each of     *)
(* them seeded by every worker.                                            *)
(***************************************************************************)
EXTENDS CrawlPlanner

CONSTANTS w1, w2, d1, u1, u2

MCDomainOf == [u \in Urls |-> d1]

MCSeeds == [w \in Workers |-> Urls]
=============================================================================
