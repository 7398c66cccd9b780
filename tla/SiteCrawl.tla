----------------------------- MODULE SiteCrawl ------------------------------
(***************************************************************************)
(* A crawl of a web: workers take items from the frontier, fetch the pages *)
(* and offer their links, until nothing is left.  The loop itself is       *)
(* outside this code base; the frontier is made for it.                    *)
(***************************************************************************)
EXTENDS Frontier

CONSTANT Webs  \* the webs to crawl: functions from a page to its links

ASSUME WebsAssumption == Webs \subseteq [Urls -> SUBSET Urls]

VARIABLE web  \* the web being crawled; it does not change

vars == <<frontier, web>>

Init == FrontierInit /\ web \in Webs

\* The worker has fetched its page and offers the links, one level deeper.
FollowLinks(w) ==
  /\ held[w] # None
  /\ todo[w] = {}
  /\ todo' = [todo EXCEPT ![w] =
       {[url |-> u, depth |-> held[w].depth + 1] : u \in web[held[w].url]}]
  /\ held' = [held EXCEPT ![w] = None]
  /\ UNCHANGED <<queue, visited, allowed, taken, web>>

Step(w) ==
  \/ \E item \in todo[w] : Offer(w, item) /\ UNCHANGED web
  \/ Take(w) /\ UNCHANGED web
  \/ FollowLinks(w)

\* The crawl ends when the queue is empty and every worker is done with it.
Done == Idle /\ UNCHANGED vars

Next == Done \/ \E w \in Workers : Step(w)

\* A worker that has something to do goes on (CrawlPlanner.plan_all and the
\* workers run until the queue is empty).
Spec == Init /\ [][Next]_vars /\ \A w \in Workers : WF_vars(Step(w))

(***************************************************************************)
(* Properties                                                              *)
(***************************************************************************)
TypeOK == FrontierTypeOK /\ web \in [Urls -> SUBSET Urls]

MayCrawl(w, u) == ~SameDomainOnly \/ allowed[w] = {} \/ DomainOf[u] \in allowed[w]

\* The pages within n links of those in start.
Near(start, links, n) ==
  LET near[k \in 0..MaxDepth] ==
        IF k = 0 THEN start ELSE near[k - 1] \cup UNION {links[v] : v \in near[k - 1]}
  IN  near[n]

\* The pages within n links of a seed, through pages worker w may crawl.
Within(w, n) ==
  Near({u \in Seeds[w] : MayCrawl(w, u)},
       [u \in Urls |-> {v \in web[u] : MayCrawl(w, v)}], n)

\* When the crawl is over it has reached exactly the pages within max_depth
\* links of a seed: none was first accepted on a detour that made max_depth
\* cut off its links.  If max_pages stopped it, it has the pages nearest to
\* the seeds: none beyond n links while one within n links is missing.
CrawlIsBreadthFirst ==
  Idle => \A w \in Workers :
    /\ visited[w] \subseteq Within(w, MaxDepth)
    /\ \/ visited[w] = Within(w, MaxDepth)
       \/ MaxPages # None /\ Cardinality(visited[w]) = MaxPages
    /\ \A n \in 0..MaxDepth :
         visited[w] \subseteq Within(w, n) \/ Within(w, n) \subseteq visited[w]

\* The crawl ends, however the pages link to each other.
CrawlEnds == <>Idle
=============================================================================
