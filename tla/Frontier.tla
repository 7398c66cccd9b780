------------------------------ MODULE Frontier ------------------------------
(***************************************************************************)
(* The crawl frontier: which URLs are accepted for crawling, at what depth *)
(* and in which order.  A Frontier object belongs to one worker process    *)
(* and remembers what it has accepted in memory; the queue behind it is    *)
(* its own (InMemoryFrontierQueue, one worker here) or a Redis list that   *)
(* several workers share (RedisFrontierQueue).                             *)
(*                                                                         *)
(* This module has the operations; SiteCrawl and CrawlPlanner call them.   *)
(***************************************************************************)
EXTENDS Naturals, Sequences, FiniteSets

CONSTANTS
  Workers,
  Urls,            \* canonical URLs
  Domains,
  DomainOf,        \* [Urls -> Domains]
  Seeds,           \* [Workers -> SUBSET Urls]: the seeds of each worker's frontier
  MaxDepth,
  MaxPages,        \* None: no limit
  SameDomainOnly,
  AllowedDomains,  \* {}: the domain of the first seed
  None

ASSUME FrontierAssumption ==
  /\ DomainOf \in [Urls -> Domains]
  /\ Seeds \in [Workers -> SUBSET Urls]
  /\ MaxDepth \in Nat
  /\ MaxPages \in Nat \cup {None}
  /\ SameDomainOnly \in BOOLEAN
  /\ AllowedDomains \subseteq Domains

Item == [url : Urls, depth : Nat]

ASSUME NoItem == None \notin Item

VARIABLES
  queue,    \* items waiting
  visited,  \* URLs each worker's frontier has accepted
  allowed,  \* domains each worker's frontier stays in; {}: not decided yet
  todo,     \* seeds or links a worker still has to offer to its frontier
  held,     \* the item a worker has taken from the queue
  taken     \* history: how often each URL was taken from the queue

frontier == <<queue, visited, allowed, todo, held, taken>>

FrontierInit ==
  /\ queue = <<>>
  /\ visited = [w \in Workers |-> {}]
  /\ allowed = [w \in Workers |-> AllowedDomains]
  /\ todo = [w \in Workers |-> {[url |-> u, depth |-> 0] : u \in Seeds[w]}]
  /\ held = [w \in Workers |-> None]
  /\ taken = [u \in Urls |-> 0]

\* The domains a frontier stays in once it is offered item: the first seed
\* decides if they were not given.
AllowedAfter(w, item) ==
  IF item.depth = 0 /\ SameDomainOnly /\ allowed[w] = {}
    THEN {DomainOf[item.url]}
    ELSE allowed[w]

\* Seeded fault: the page limit lets one more page in.
AdmitsOneMore(w, item) ==
  /\ item.depth <= MaxDepth
  /\ item.url \notin visited[w]
  /\ MaxPages # None => Cardinality(visited[w]) <= MaxPages

\* Seeded fault: URLs accepted before are not recognised.
AdmitsRevisits(w, item) == item.depth <= MaxDepth

\* The gates of _enqueue.
Admits(w, item) ==
  LET domains == AllowedAfter(w, item)
  IN  /\ item.depth <= MaxDepth
      /\ SameDomainOnly /\ domains # {} => DomainOf[item.url] \in domains
      /\ item.url \notin visited[w]
      /\ MaxPages # None => Cardinality(visited[w]) < MaxPages

\* Seeded fault: what is refused is offered again.
OfferUntilAdmitted(w, item) ==
  /\ item \in todo[w]
  /\ allowed' = [allowed EXCEPT ![w] = AllowedAfter(w, item)]
  /\ IF Admits(w, item)
       THEN /\ todo' = [todo EXCEPT ![w] = @ \ {item}]
            /\ visited' = [visited EXCEPT ![w] = @ \cup {item.url}]
            /\ queue' = Append(queue, item)
       ELSE UNCHANGED <<todo, visited, queue>>
  /\ UNCHANGED <<held, taken>>

\* add_seed, or one iteration of add_links.
Offer(w, item) ==
  /\ item \in todo[w]
  /\ todo' = [todo EXCEPT ![w] = @ \ {item}]
  /\ allowed' = [allowed EXCEPT ![w] = AllowedAfter(w, item)]
  /\ IF Admits(w, item)
       THEN /\ visited' = [visited EXCEPT ![w] = @ \cup {item.url}]
            /\ queue' = Append(queue, item)
       ELSE UNCHANGED <<visited, queue>>
  /\ UNCHANGED <<held, taken>>

\* Seeded fault: the newest item is taken first.
TakeNewest(w) ==
  /\ todo[w] = {}
  /\ held[w] = None
  /\ queue # <<>>
  /\ LET last == queue[Len(queue)]
     IN  /\ held' = [held EXCEPT ![w] = last]
         /\ taken' = [taken EXCEPT ![last.url] = @ + 1]
  /\ queue' = SubSeq(queue, 1, Len(queue) - 1)
  /\ UNCHANGED <<visited, allowed, todo>>

\* next: the oldest item, first in first out.
Take(w) ==
  /\ todo[w] = {}
  /\ held[w] = None
  /\ queue # <<>>
  /\ held' = [held EXCEPT ![w] = Head(queue)]
  /\ queue' = Tail(queue)
  /\ taken' = [taken EXCEPT ![Head(queue).url] = @ + 1]
  /\ UNCHANGED <<visited, allowed, todo>>

\* Nothing is waiting and no worker is at work.
Idle ==
  /\ queue = <<>>
  /\ \A w \in Workers : todo[w] = {} /\ held[w] = None

FrontierTypeOK ==
  /\ queue \in Seq(Item)
  /\ visited \in [Workers -> SUBSET Urls]
  /\ allowed \in [Workers -> SUBSET Domains]
  /\ todo \in [Workers -> SUBSET Item]
  /\ held \in [Workers -> Item \cup {None}]
  /\ taken \in [Urls -> Nat]

\* No page is crawled twice (the frontier's visited dedup).  Stated of one worker:
\* several on one queue each accept a page, as OncePerFrontier says.
TakenOnce == \A u \in Urls : taken[u] <= 1

\* Frontiers that share a queue accept a page each, for none knows what the
\* others accepted; but every entry in the queue stands for one acceptance and
\* is taken once, so a page is crawled at most once per frontier.
Waiters(u) == {i \in DOMAIN queue : queue[i].url = u}
OncePerFrontier ==
  \A u \in Urls :
    taken[u] + Cardinality(Waiters(u)) = Cardinality({w \in Workers : u \in visited[w]})

\* max_pages bounds the pages the whole crawl accepts.
WithinMaxPages ==
  MaxPages # None => Cardinality(UNION {visited[w] : w \in Workers}) <= MaxPages
=============================================================================
