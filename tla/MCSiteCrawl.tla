---------------------------- MODULE MCSiteCrawl -----------------------------
(***************************************************************************)
(* An instance of SiteCrawl for TLC: five pages of one domain, two of them *)
(* seeds, and one of another.                                              *)
(***************************************************************************)
EXTENDS SiteCrawl

CONSTANTS u1, u2, u3, u4, u5, u6, d1, d2, w1

MCDomainOf == [u \in Urls |-> IF u = u6 THEN d2 ELSE d1]

\* Every web in which a page links to at most one page.  The page of the
\* other domain is never crawled, so it needs no links.
SparseWebs ==
  {[u \in Urls |-> IF u = u6 THEN {} ELSE links[u]] :
     links \in [Urls \ {u6} -> {{}} \cup {{u} : u \in Urls}]}

TwoSeeds == [w \in Workers |-> {u1, u2}]
=============================================================================
