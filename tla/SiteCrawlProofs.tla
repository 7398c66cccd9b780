---------------------------- MODULE SiteCrawlProofs ----------------------------
(***************************************************************************)
(* Proofs about SiteCrawl for one worker per queue: any web, seeds, depth, *)
(* domains and page limit.  With several workers on one queue a page may   *)
(* be crawled once by each, since each has its own visited set: what holds *)
(* then is in CrawlPlannerProofs.                                          *)
(***************************************************************************)
EXTENDS SiteCrawl, SequenceTheorems, FiniteSetTheorems, WellFoundedInduction, TLAPS

Alone == Cardinality(Workers) = 1 /\ IsFiniteSet(Workers)

\* Waiting items are of different pages, which were accepted and never taken.
QueueInv ==
  \A w \in Workers :
    /\ \A i \in DOMAIN queue : queue[i].url \in visited[w] /\ taken[queue[i].url] = 0
    /\ \A i, j \in DOMAIN queue : queue[i].url = queue[j].url => i = j
    /\ \A u \in Urls : taken[u] > 0 => u \in visited[w]

\* What a frontier has accepted is finite and within the limit.
PagesInv ==
  \A w \in Workers :
    /\ IsFiniteSet(visited[w])
    /\ MaxPages # None => Cardinality(visited[w]) <= MaxPages

CrawlInv == TypeOK /\ QueueInv /\ PagesInv /\ TakenOnce

LEMMA AloneIsOne == ASSUME Alone PROVE \E w : Workers = {w}
BY FS_Singleton DEF Alone

\* MaxPages is a number or the None that no number is.
LEMMA LimitIsNumber == ASSUME MaxPages # None PROVE MaxPages \in Nat
BY FrontierAssumption

LEMMA InitCrawlInv == Init => CrawlInv
<1> SUFFICES ASSUME Init PROVE CrawlInv
  OBVIOUS
<1> USE DEF Init, FrontierInit
<1>1. TypeOK
  <2>1. queue \in Seq(Item)
    OBVIOUS
  <2>2. todo \in [Workers -> SUBSET Item]
    <3>1. ASSUME NEW w \in Workers
          PROVE  {[url |-> u, depth |-> 0] : u \in Seeds[w]} \subseteq Item
      BY FrontierAssumption DEF Item
    <3> QED BY <3>1
  <2> QED BY <2>1, <2>2, FrontierAssumption, WebsAssumption DEF TypeOK, FrontierTypeOK
<1>2. QueueInv
  BY DEF QueueInv
<1>3. PagesInv
  <2>1. IsFiniteSet({}) /\ Cardinality({}) = 0
    BY FS_EmptySet
  <2> QED BY <2>1, LimitIsNumber DEF PagesInv
<1>4. TakenOnce
  BY DEF TakenOnce
<1> QED BY <1>1, <1>2, <1>3, <1>4 DEF CrawlInv

\* An accepted page is new to the frontier, and so to the queue.
LEMMA OfferKeeps ==
  ASSUME CrawlInv, Alone, NEW w \in Workers, NEW item \in todo[w], Offer(w, item),
         UNCHANGED web
  PROVE  CrawlInv'
<1>1. item \in Item /\ item.url \in Urls /\ DomainOf[item.url] \in Domains
  BY FrontierAssumption DEF CrawlInv, TypeOK, FrontierTypeOK, Item
<1>2. AllowedAfter(w, item) \in SUBSET Domains
  BY <1>1 DEF AllowedAfter, CrawlInv, TypeOK, FrontierTypeOK
<1>3. /\ todo' \in [Workers -> SUBSET Item] /\ allowed' \in [Workers -> SUBSET Domains]
      /\ UNCHANGED <<held, taken, web>>
  BY <1>2 DEF Offer, CrawlInv, TypeOK, FrontierTypeOK
<1>4. TakenOnce'
  BY <1>3 DEF TakenOnce, CrawlInv
<1>5. CASE ~Admits(w, item)
  <2>1. UNCHANGED <<queue, visited>>
    BY <1>5 DEF Offer
  <2>2. TypeOK'
    BY <1>3, <2>1 DEF CrawlInv, TypeOK, FrontierTypeOK
  <2> QED BY <1>3, <1>4, <2>1, <2>2 DEF CrawlInv, QueueInv, PagesInv
<1>6. CASE Admits(w, item)
  <2>1. /\ visited' = [visited EXCEPT ![w] = @ \cup {item.url}]
        /\ queue' = Append(queue, item)
    BY <1>6 DEF Offer
  <2>2. Workers = {w}
    BY AloneIsOne
  <2>3. visited'[w] = visited[w] \cup {item.url} /\ item.url \notin visited[w]
    BY <1>6, <2>1 DEF Admits, CrawlInv, TypeOK, FrontierTypeOK
  <2>4. TypeOK'
    BY <1>1, <1>3, <2>1, <2>3 DEF CrawlInv, TypeOK, FrontierTypeOK
  <2>5. QueueInv'
    <3>1. queue \in Seq(Item) /\ taken \in [Urls -> Nat]
      BY DEF CrawlInv, TypeOK, FrontierTypeOK
    <3>2. DOMAIN queue = 1..Len(queue) /\ DOMAIN queue' = 1..(Len(queue) + 1)
          /\ Len(queue) \in Nat /\ queue'[Len(queue) + 1] = item
          /\ \A i \in 1..Len(queue) : queue'[i] = queue[i]
      BY <1>1, <2>1, <3>1, AppendProperties
    <3>3. taken[item.url] = 0
      BY <1>1, <2>3, <3>1 DEF CrawlInv, QueueInv
    <3>4. \A i \in 1..Len(queue) : queue[i].url \in visited[w] /\ taken[queue[i].url] = 0
                                     /\ queue[i].url # item.url
      BY <2>3, <3>2 DEF CrawlInv, QueueInv
    <3>5. \A i, j \in 1..Len(queue) : queue[i].url = queue[j].url => i = j
      BY <3>2 DEF CrawlInv, QueueInv
    <3>6. \A i \in 1..(Len(queue) + 1) : i = Len(queue) + 1 \/ i \in 1..Len(queue)
      BY <3>2
    <3>7. \A i \in DOMAIN queue' :
            queue'[i].url \in visited'[w] /\ taken'[queue'[i].url] = 0
      BY <1>3, <2>3, <3>2, <3>3, <3>4, <3>6
    <3>8. \A i, j \in DOMAIN queue' : queue'[i].url = queue'[j].url => i = j
      BY <3>2, <3>4, <3>5, <3>6
    <3>9. \A u \in Urls : taken'[u] > 0 => u \in visited'[w]
      BY <1>3, <2>3 DEF CrawlInv, QueueInv
    <3> QED BY <2>2, <3>7, <3>8, <3>9 DEF QueueInv
  <2>6. PagesInv'
    <3>1. IsFiniteSet(visited[w])
      BY DEF CrawlInv, PagesInv
    <3>2. IsFiniteSet(visited'[w]) /\ Cardinality(visited'[w]) = Cardinality(visited[w]) + 1
          /\ Cardinality(visited[w]) \in Nat
      <4> DEFINE old == visited[w]
      <4>1. IsFiniteSet(old \cup {item.url})
            /\ (item.url \notin old => Cardinality(old \cup {item.url}) = Cardinality(old) + 1)
        <5> HIDE DEF old
        <5>1. IsFiniteSet(old)
          BY <3>1 DEF old
        <5> QED BY <5>1, FS_AddElement
      <4>2. Cardinality(old) \in Nat
        BY <3>1, FS_CardinalityType
      <4> QED BY <2>3, <4>1, <4>2
    <3>3. MaxPages # None => Cardinality(visited'[w]) <= MaxPages
      BY <1>6, <3>2, LimitIsNumber DEF Admits
    <3> QED BY <2>2, <3>2, <3>3 DEF PagesInv
  <2> QED BY <1>4, <2>4, <2>5, <2>6 DEF CrawlInv
<1> QED BY <1>5, <1>6

\* The page taken was waiting once, and has not been taken before.
LEMMA TakeKeeps ==
  ASSUME CrawlInv, NEW w \in Workers, Take(w), UNCHANGED web
  PROVE  CrawlInv'
<1> DEFINE page == Head(queue).url
<1>1. /\ queue \in Seq(Item) /\ queue # <<>> /\ queue' = Tail(queue)
      /\ taken \in [Urls -> Nat] /\ taken' = [taken EXCEPT ![page] = @ + 1]
      /\ held' = [held EXCEPT ![w] = Head(queue)] /\ UNCHANGED <<visited, allowed, todo>>
  BY DEF Take, CrawlInv, TypeOK, FrontierTypeOK
<1>2. /\ Len(queue) \in Nat \ {0} /\ Head(queue) = queue[1] /\ Head(queue) \in Item
      /\ DOMAIN queue = 1..Len(queue) /\ DOMAIN queue' = 1..(Len(queue) - 1)
      /\ queue' \in Seq(Item)
      /\ \A i \in 1..(Len(queue) - 1) : queue'[i] = queue[i + 1]
  BY <1>1, HeadTailProperties, EmptySeq
<1>3. page \in Urls /\ taken[page] = 0 /\ \A v \in Workers : page \in visited[v]
  <2>1. 1 \in DOMAIN queue /\ page = queue[1].url /\ page \in Urls
    BY <1>2 DEF Item
  <2> QED BY <2>1 DEF CrawlInv, QueueInv
<1> HIDE DEF page
<1>4. TypeOK'
  BY <1>1, <1>2, <1>3 DEF CrawlInv, TypeOK, FrontierTypeOK
<1>5. taken'[page] = 1 /\ \A u \in Urls \ {page} : taken'[u] = taken[u]
  BY <1>1, <1>3
<1>6. TakenOnce'
  BY <1>1, <1>5 DEF CrawlInv, TakenOnce
<1>7. PagesInv'
  BY <1>1 DEF CrawlInv, PagesInv
<1>8. QueueInv'
  <2> SUFFICES ASSUME NEW v \in Workers
               PROVE  /\ \A i \in DOMAIN queue' :
                           queue'[i].url \in visited'[v] /\ taken'[queue'[i].url] = 0
                      /\ \A i, j \in DOMAIN queue' : queue'[i].url = queue'[j].url => i = j
                      /\ \A u \in Urls : taken'[u] > 0 => u \in visited'[v]
    BY DEF QueueInv
  <2>1. ASSUME NEW i \in DOMAIN queue'
        PROVE  i + 1 \in DOMAIN queue /\ queue'[i] = queue[i + 1] /\ i + 1 # 1 /\ i \in Int
    BY <1>2
  <2>2. 1 \in DOMAIN queue /\ queue[1].url = page
    BY <1>2 DEF page
  <2>3. ASSUME NEW i \in DOMAIN queue'
        PROVE  queue'[i].url \in visited'[v] /\ taken'[queue'[i].url] = 0
    <3>1. queue[i + 1].url # page
      BY <2>1, <2>2 DEF CrawlInv, QueueInv
    <3>2. queue[i + 1].url \in visited[v] /\ taken[queue[i + 1].url] = 0
      BY <2>1 DEF CrawlInv, QueueInv
    <3>3. queue[i + 1].url \in Urls
      <4>1. queue[i + 1] \in Item
        BY <1>1, <1>2, <2>1, ElementOfSeq
      <4> QED BY <4>1 DEF Item
    <3> QED BY <1>1, <1>5, <2>1, <3>1, <3>2, <3>3
  <2>4. ASSUME NEW i \in DOMAIN queue', NEW j \in DOMAIN queue', queue'[i].url = queue'[j].url
        PROVE  i = j
    <3>1. i + 1 = j + 1
      BY <2>1, <2>4 DEF CrawlInv, QueueInv
    <3> QED BY <2>1, <3>1
  <2>5. ASSUME NEW u \in Urls, taken'[u] > 0 PROVE u \in visited'[v]
    <3>1. CASE u = page
      BY <1>1, <1>3, <3>1
    <3>2. CASE u # page
      BY <1>1, <1>5, <2>5, <3>2 DEF CrawlInv, QueueInv
    <3> QED BY <3>1, <3>2
  <2> QED BY <2>3, <2>4, <2>5
<1> QED BY <1>4, <1>6, <1>7, <1>8 DEF CrawlInv

LEMMA FollowLinksKeeps ==
  ASSUME CrawlInv, NEW w \in Workers, FollowLinks(w)
  PROVE  CrawlInv'
<1>1. held[w] \in Item /\ held[w].url \in Urls /\ held[w].depth + 1 \in Nat
  BY DEF FollowLinks, CrawlInv, TypeOK, FrontierTypeOK, Item
<1>2. {[url |-> u, depth |-> held[w].depth + 1] : u \in web[held[w].url]} \subseteq Item
  BY <1>1 DEF CrawlInv, TypeOK, Item
<1>3. TypeOK'
  BY <1>2 DEF FollowLinks, CrawlInv, TypeOK, FrontierTypeOK
<1> QED BY <1>3 DEF FollowLinks, CrawlInv, QueueInv, PagesInv, TakenOnce

LEMMA CrawlInvariant == ASSUME Alone PROVE Spec => []CrawlInv
<1>1. CrawlInv /\ [Next]_vars => CrawlInv'
  <2> SUFFICES ASSUME CrawlInv, [Next]_vars PROVE CrawlInv'
    OBVIOUS
  <2>1. CASE UNCHANGED vars
    BY <2>1 DEF vars, frontier, CrawlInv, TypeOK, FrontierTypeOK, QueueInv, PagesInv, TakenOnce
  <2>2. ASSUME NEW w \in Workers, Step(w) PROVE CrawlInv'
    BY <2>2, OfferKeeps, TakeKeeps, FollowLinksKeeps DEF Step
  <2> QED BY <2>1, <2>2 DEF Next, Done
<1> QED BY InitCrawlInv, <1>1, PTL DEF Spec

\* One worker crawls no page twice, however the pages link to each other and
\* however often a page is linked while it waits.
THEOREM PagesTakenOnce == ASSUME Alone PROVE Spec => []TakenOnce
<1>1. CrawlInv => TakenOnce
  BY DEF CrawlInv
<1> QED BY CrawlInvariant, <1>1, PTL

\* One worker never accepts more than max_pages pages.
THEOREM PageLimitKept == ASSUME Alone PROVE Spec => []WithinMaxPages
<1>1. CrawlInv => WithinMaxPages
  <2>1. PICK w : Workers = {w}
    BY AloneIsOne
  <2>2. UNION {visited[v] : v \in Workers} = visited[w]
    BY <2>1
  <2> QED BY <2>1, <2>2 DEF CrawlInv, PagesInv, WithinMaxPages
<1> QED BY CrawlInvariant, <1>1, PTL

(***************************************************************************)
(* Induction over natural numbers, with sets in the place of predicates    *)
(***************************************************************************)
\* A set of numbers has a least one.
LEMMA LeastNumber ==
  ASSUME NEW T, T \subseteq Nat, T # {}
  PROVE  \E m \in T : \A k \in T : m <= k
<1> DEFINE R == {ss \in Nat \X Nat : ss[1] < ss[2]}
<1>1. IsWellFoundedOn(R, Nat)
  BY NatLessThanWellFounded DEF OpToRel
<1>2. PICK m \in T : \A k \in T : ~ (<<k, m>> \in R)
  <2> HIDE DEF R
  <2> QED BY <1>1, WFMin
<1>3. \A k \in T : m \in Nat /\ k \in Nat /\ ~(k < m)
  BY <1>2
<1> QED BY <1>3

\* A set that has 0 and every successor has every number.
LEMMA SetInduction ==
  ASSUME NEW S, 0 \in S, \A n \in Nat : n \in S => n + 1 \in S
  PROVE  Nat \subseteq S
<1> SUFFICES ASSUME Nat \ S # {} PROVE FALSE
  OBVIOUS
<1>1. PICK m \in Nat \ S : \A k \in Nat \ S : m <= k
  <2>1. Nat \ S \subseteq Nat
    OBVIOUS
  <2> QED BY <2>1, LeastNumber
<1>2. m # 0 /\ m - 1 \in Nat /\ (m - 1) + 1 = m /\ ~(m <= m - 1)
  BY <1>1
<1> QED BY <1>1, <1>2

(***************************************************************************)
(* Pages by their distance                                                 *)
(***************************************************************************)
\* What the recursive definition of Near computes.
LEMMA NearDef ==
  ASSUME NEW start, NEW links
  PROVE  /\ Near(start, links, 0) = start
         /\ \A n \in 0..(MaxDepth - 1) : \A u :
              u \in Near(start, links, n + 1) <=>
                u \in Near(start, links, n) \/ \E v \in Near(start, links, n) : u \in links[v]
<1> DEFINE Body(f, k) == IF k = 0 THEN start
                         ELSE f[k - 1] \cup UNION {links[v] : v \in f[k - 1]}
           Has(n) == \E f : f = [k \in 0..n |-> Body(f, k)]
           S == {n \in Nat : Has(n)}
<1>1. 0 \in S
  <2> DEFINE f == [k \in 0..0 |-> start]
  <2>1. f = [k \in 0..0 |-> Body(f, k)]
    OBVIOUS
  <2> QED BY <2>1
<1>2. ASSUME NEW n \in Nat, n \in S PROVE n + 1 \in S
  <2>1. PICK f : f = [k \in 0..n |-> Body(f, k)]
    BY <1>2
  <2> DEFINE g == [k \in 0..(n + 1) |-> IF k \in 0..n THEN f[k] ELSE Body(f, k)]
  <2>2. ASSUME NEW k \in 0..(n + 1) PROVE g[k] = Body(g, k)
    <3>1. CASE k = 0
      BY <2>1, <3>1
    <3>2. CASE k # 0
      <4>1. k - 1 \in 0..n /\ k - 1 \in 0..(n + 1)
        BY <3>2
      <4>2. g[k - 1] = f[k - 1]
        BY <4>1
      <4>3. g[k] = Body(f, k)
        BY <2>1
      <4> QED BY <4>2, <4>3
    <3> QED BY <3>1, <3>2
  <2>3. g = [k \in 0..(n + 1) |-> Body(g, k)]
    BY <2>2
  <2> HIDE DEF g
  <2> QED BY <2>3
<1>3. Has(MaxDepth)
  <2>1. Nat \subseteq S
    <3> HIDE DEF S
    <3> QED BY <1>1, <1>2, SetInduction
  <2> QED BY <2>1, FrontierAssumption
<1> DEFINE near == CHOOSE f : f = [k \in 0..MaxDepth |-> Body(f, k)]
<1>4. near = [k \in 0..MaxDepth |-> Body(near, k)]
  BY <1>3
<1>5. \A n : Near(start, links, n) = near[n]
  BY DEF Near
<1> HIDE DEF near
<1>6. near[0] = start
  BY <1>4, FrontierAssumption
<1>7. ASSUME NEW n \in 0..(MaxDepth - 1)
      PROVE  \A u : u \in near[n + 1] <=> u \in near[n] \/ \E v \in near[n] : u \in links[v]
  <2>1. n + 1 \in 0..MaxDepth /\ n + 1 # 0 /\ (n + 1) - 1 = n
    BY FrontierAssumption
  <2>2. near[n + 1] = near[n] \cup UNION {links[v] : v \in near[n]}
    BY <1>4, <2>1
  <2> QED BY <2>2
<1> QED BY <1>5, <1>6, <1>7

\* Farther pages include the nearer ones.
LEMMA NearGrows ==
  ASSUME NEW start, NEW links, NEW m \in 0..MaxDepth, NEW n \in m..MaxDepth
  PROVE  Near(start, links, m) \subseteq Near(start, links, n)
<1> DEFINE S == {k \in Nat : m + k <= MaxDepth =>
                   Near(start, links, m) \subseteq Near(start, links, m + k)}
<1>0. m \in Nat /\ MaxDepth \in Nat /\ n \in Nat /\ m <= n /\ n <= MaxDepth
  BY FrontierAssumption
<1>1. 0 \in S
  BY <1>0
<1>2. ASSUME NEW k \in Nat, k \in S PROVE k + 1 \in S
  <2> SUFFICES ASSUME m + (k + 1) <= MaxDepth
               PROVE  Near(start, links, m) \subseteq Near(start, links, m + (k + 1))
    BY <1>0
  <2>1. m + k \in 0..(MaxDepth - 1) /\ m + (k + 1) = (m + k) + 1 /\ m + k <= MaxDepth
    BY <1>0
  <2>2. \A p \in 0..(MaxDepth - 1) :
          Near(start, links, p) \subseteq Near(start, links, p + 1)
    BY NearDef
  <2> QED BY <1>2, <2>1, <2>2
<1>3. Nat \subseteq S
  <2> HIDE DEF S
  <2> QED BY <1>1, <1>2, SetInduction
<1>4. n - m \in Nat /\ m + (n - m) = n
  BY <1>0
<1> QED BY <1>0, <1>3, <1>4

\* A set that the links do not leave includes all that is near it.
LEMMA NearStays ==
  ASSUME NEW start, NEW links, NEW C, start \subseteq C,
         \A v \in C : links[v] \subseteq C, NEW n \in 0..MaxDepth
  PROVE  Near(start, links, n) \subseteq C
<1> DEFINE S == {k \in Nat : k <= MaxDepth => Near(start, links, k) \subseteq C}
<1>1. 0 \in S
  BY NearDef
<1>2. ASSUME NEW k \in Nat, k \in S PROVE k + 1 \in S
  <2> SUFFICES ASSUME k + 1 <= MaxDepth PROVE Near(start, links, k + 1) \subseteq C
    OBVIOUS
  <2>1. k \in 0..(MaxDepth - 1) /\ k <= MaxDepth
    BY FrontierAssumption
  <2>2. \A u \in Near(start, links, k + 1) :
          u \in Near(start, links, k) \/ \E v \in Near(start, links, k) : u \in links[v]
    BY <2>1, NearDef
  <2> QED BY <1>2, <2>1, <2>2
<1>3. Nat \subseteq S
  <2> HIDE DEF S
  <2> QED BY <1>1, <1>2, SetInduction
<1> QED BY <1>3, FrontierAssumption


(***************************************************************************)
(* Breadth first                                                           *)
(***************************************************************************)
Full(w) == MaxPages # None /\ Cardinality(visited[w]) = MaxPages

\* Accepted and not yet crawled; waiting to be offered.
Waiting(w, u) == (\E i \in DOMAIN queue : queue[i].url = u) \/ (held[w] # None /\ held[w].url = u)
Offering(w, u) == \E item \in todo[w] : item.url = u

\* The seeds are being offered.  The first decides the domain.
Seeding(w) ==
  /\ held[w] = None
  /\ \A item \in todo[w] : item.depth = 0 /\ item.url \in Seeds[w]
  /\ \A i \in DOMAIN queue : queue[i].depth = 0
  /\ \A u \in visited[w] : u \in Seeds[w] /\ MayCrawl(w, u) /\ Waiting(w, u)
  /\ SameDomainOnly /\ allowed[w] = {} =>
       visited[w] = {} /\ \A u \in Seeds[w] : Offering(w, u)
  /\ \A u \in Seeds[w] : MayCrawl(w, u) => Offering(w, u) \/ u \in visited[w] \/ Full(w)

\* What waits, by its depth: the pages of depth c come first, and those of
\* depth c + 1 follow.
QueueAtDepth(w, c) ==
  /\ \A i \in DOMAIN queue :
       /\ queue[i].depth \in {c, c + 1} /\ queue[i].depth <= MaxDepth
       /\ queue[i].depth = c => queue[i].url \in Within(w, c)
       /\ \A j \in DOMAIN queue : i < j => queue[i].depth <= queue[j].depth
  /\ held[w] # None => held[w].depth = c /\ held[w].url \in Within(w, c)
  /\ \A item \in todo[w] :
       /\ item.depth = c + 1
       /\ c < MaxDepth /\ MayCrawl(w, item.url) => item.url \in Within(w, c + 1)

\* Nothing has been accepted from farther than c + 1 links away.
NotBeyond(w, c) ==
  /\ visited[w] \subseteq Within(w, IF c < MaxDepth THEN c + 1 ELSE c)
  /\ \A n \in 0..MaxDepth :
       visited[w] \subseteq Within(w, n) \/ Within(w, n) \subseteq visited[w]

\* Unless max_pages has stopped it, the crawl has every page within c links, and
\* the links of those it has crawled.
Complete(w, c) ==
  /\ Within(w, c) \subseteq visited[w]
  /\ \A i \in DOMAIN queue : queue[i].depth = c + 1 => queue[i].url \notin Within(w, c)
  /\ c < MaxDepth => \A u \in visited[w] : \A v \in web[u] :
       MayCrawl(w, v) => Waiting(w, u) \/ v \in visited[w] \/ Offering(w, v)

Crawling(w, c) == QueueAtDepth(w, c) /\ NotBeyond(w, c) /\ (Full(w) \/ Complete(w, c))

BreadthInv == \A w \in Workers : Seeding(w) \/ \E c \in 0..MaxDepth : Crawling(w, c)

\* What Within means, without Near: the seeds, and one more link per step; all of
\* it pages the worker may crawl.
LEMMA WithinDef ==
  ASSUME TypeOK, NEW w \in Workers
  PROVE  /\ \A u : u \in Within(w, 0) <=> u \in Seeds[w] /\ MayCrawl(w, u)
         /\ \A n \in 0..MaxDepth : Within(w, n) \subseteq {u \in Urls : MayCrawl(w, u)}
         /\ \A n \in 0..(MaxDepth - 1) : \A u :
              u \in Within(w, n + 1) <=>
                u \in Within(w, n) \/ (MayCrawl(w, u) /\ \E v \in Within(w, n) : u \in web[v])
<1> DEFINE start == {u \in Seeds[w] : MayCrawl(w, u)}
           links == [u \in Urls |-> {v \in web[u] : MayCrawl(w, v)}]
           C == {u \in Urls : MayCrawl(w, u)}
<1>1. \A n : Within(w, n) = Near(start, links, n)
  BY DEF Within
<1>2. start \subseteq C /\ \A v \in C : links[v] \subseteq C
  BY FrontierAssumption DEF TypeOK
<1>3. \A v \in Urls : \A u : u \in links[v] <=> u \in web[v] /\ MayCrawl(w, u)
  OBVIOUS
<1>4. \A u : u \in start <=> u \in Seeds[w] /\ MayCrawl(w, u)
  OBVIOUS
<1>5. C \subseteq Urls
  OBVIOUS
<1> HIDE DEF start, links, C
<1>6. \A n \in 0..MaxDepth : Within(w, n) \subseteq C
  BY <1>1, <1>2, NearStays
<1>7. Within(w, 0) = start
  BY <1>1, NearDef
<1>8. \A n \in 0..(MaxDepth - 1) : \A u :
        u \in Within(w, n + 1) <=> u \in Within(w, n) \/ \E v \in Within(w, n) : u \in links[v]
  BY <1>1, NearDef
<1>9. ASSUME NEW n \in 0..(MaxDepth - 1), NEW u
      PROVE  (\E v \in Within(w, n) : u \in links[v]) <=>
               MayCrawl(w, u) /\ \E v \in Within(w, n) : u \in web[v]
  <2>1. Within(w, n) \subseteq Urls
    BY <1>5, <1>6, FrontierAssumption
  <2> QED BY <1>3, <2>1
<1>10. \A n \in 0..MaxDepth : Within(w, n) \subseteq {u \in Urls : MayCrawl(w, u)}
  BY <1>6 DEF C
<1> QED BY <1>4, <1>7, <1>8, <1>9, <1>10

\* Farther pages include the nearer ones.
LEMMA WithinGrows ==
  ASSUME NEW w \in Workers, NEW m \in 0..MaxDepth, NEW n \in m..MaxDepth
  PROVE  Within(w, m) \subseteq Within(w, n)
BY NearGrows DEF Within

\* Pages that include the seeds and that no link leaves include all within reach.
LEMMA WithinStays ==
  ASSUME TypeOK, NEW w \in Workers, NEW C \in SUBSET Urls,
         \A u \in Seeds[w] : MayCrawl(w, u) => u \in C,
         \A v \in C : \A u \in web[v] : MayCrawl(w, u) => u \in C,
         NEW n \in 0..MaxDepth
  PROVE  Within(w, n) \subseteq C
<1> DEFINE start == {u \in Seeds[w] : MayCrawl(w, u)}
           links == [u \in Urls |-> {v \in web[u] : MayCrawl(w, v)}]
<1>1. start \subseteq C /\ \A v \in C : links[v] \subseteq C
  OBVIOUS
<1>2. Within(w, n) = Near(start, links, n)
  BY DEF Within
<1> HIDE DEF start, links
<1> QED BY <1>1, <1>2, NearStays

\* Distances change only with the domains the worker stays in.
LEMMA WithinSame ==
  ASSUME NEW w \in Workers, allowed'[w] = allowed[w], UNCHANGED web
  PROVE  /\ \A u : MayCrawl(w, u)' <=> MayCrawl(w, u)
         /\ \A n : Within(w, n)' = Within(w, n)
<1>1. \A u : MayCrawl(w, u)' <=> MayCrawl(w, u)
  BY DEF MayCrawl
<1>2. {u \in Seeds[w] : MayCrawl(w, u)'} = {u \in Seeds[w] : MayCrawl(w, u)}
  BY <1>1
<1>3. [u \in Urls |-> {v \in web'[u] : MayCrawl(w, v)'}] =
        [u \in Urls |-> {v \in web[u] : MayCrawl(w, v)}]
  BY <1>1
<1> QED BY <1>1, <1>2, <1>3 DEF Within

\* What the steps do to the crawl of worker w.
LEMMA OfferFacts ==
  ASSUME CrawlInv, NEW w \in Workers, NEW item \in todo[w], Offer(w, item)
  PROVE  /\ item \in Item /\ item.url \in Urls /\ Len(queue) \in Nat
         /\ DOMAIN queue = 1..Len(queue)
         /\ \A other : other \in todo'[w] <=> other \in todo[w] /\ other # item
         /\ held' = held /\ allowed'[w] = AllowedAfter(w, item)
         /\ Admits(w, item) =>
              /\ visited'[w] = visited[w] \cup {item.url} /\ item.url \notin visited[w]
              /\ DOMAIN queue' = 1..(Len(queue) + 1)
              /\ queue'[Len(queue) + 1] = item
              /\ \A i \in 1..Len(queue) : queue'[i] = queue[i]
              /\ ~Full(w)
         /\ ~Admits(w, item) => visited'[w] = visited[w] /\ queue' = queue
<1>1. /\ item \in Item /\ item.url \in Urls /\ queue \in Seq(Item) /\ Len(queue) \in Nat
      /\ DOMAIN queue = 1..Len(queue)
  BY DEF CrawlInv, TypeOK, FrontierTypeOK, Item
<1>2. todo'[w] = todo[w] \ {item} /\ held' = held /\ allowed'[w] = AllowedAfter(w, item)
  BY DEF Offer, CrawlInv, TypeOK, FrontierTypeOK
<1>3. ASSUME Admits(w, item)
      PROVE  /\ visited'[w] = visited[w] \cup {item.url} /\ item.url \notin visited[w]
             /\ queue' = Append(queue, item)
  BY <1>3 DEF Offer, Admits, CrawlInv, TypeOK, FrontierTypeOK
<1>4. Admits(w, item) =>
        /\ DOMAIN queue' = 1..(Len(queue) + 1)
        /\ queue'[Len(queue) + 1] = item
        /\ \A i \in 1..Len(queue) : queue'[i] = queue[i]
  BY <1>1, <1>3, AppendProperties
<1>5. ~Admits(w, item) => visited'[w] = visited[w] /\ queue' = queue
  BY DEF Offer
<1>6. Admits(w, item) => ~Full(w)
  BY LimitIsNumber DEF Admits, Full
<1> QED BY <1>1, <1>2, <1>3, <1>4, <1>5, <1>6

\* A page keeps its place in the queue or in the worker's hands while another is
\* offered.
LEMMA OfferKeepsPlaces ==
  ASSUME CrawlInv, NEW w \in Workers, NEW item \in todo[w], Offer(w, item)
  PROVE  /\ visited[w] \subseteq visited'[w]
         /\ Full(w) => Full(w)'
         /\ \A u : Waiting(w, u) => Waiting(w, u)'
         /\ Admits(w, item) => Waiting(w, item.url)'
         /\ \A u : Offering(w, u) => Offering(w, u)' \/ u = item.url
<1>1. visited[w] \subseteq visited'[w] /\ (Full(w) => Full(w)')
  BY OfferFacts DEF Full
<1>2. ASSUME NEW u, Waiting(w, u) PROVE Waiting(w, u)'
  <2>1. held'[w] = held[w]
    BY OfferFacts
  <2>2. \A i \in DOMAIN queue : i \in DOMAIN queue' /\ queue'[i] = queue[i]
    BY OfferFacts
  <2> QED BY <1>2, <2>1, <2>2 DEF Waiting
<1>3. Admits(w, item) => Waiting(w, item.url)'
  BY OfferFacts DEF Waiting
<1>4. \A u : Offering(w, u) => Offering(w, u)' \/ u = item.url
  BY OfferFacts DEF Offering
<1> QED BY <1>1, <1>2, <1>3, <1>4

\* Why _enqueue refuses a page.
LEMMA WhyRefused ==
  ASSUME CrawlInv, NEW w \in Workers, NEW item \in todo[w], Offer(w, item),
         item.depth <= MaxDepth, MayCrawl(w, item.url)'
  PROVE  Admits(w, item) \/ item.url \in visited[w] \/ Full(w)
<1>1. allowed'[w] = AllowedAfter(w, item)
  BY OfferFacts
<1>2. MaxPages # None =>
        MaxPages \in Nat /\ Cardinality(visited[w]) \in Nat /\ Cardinality(visited[w]) <= MaxPages
  BY LimitIsNumber, FS_CardinalityType DEF CrawlInv, PagesInv
<1> QED BY <1>1, <1>2 DEF Admits, Full, MayCrawl

LEMMA TakeFacts ==
  ASSUME CrawlInv, NEW w \in Workers, Take(w)
  PROVE  /\ todo[w] = {} /\ todo'[w] = {} /\ held[w] = None
         /\ visited'[w] = visited[w] /\ allowed'[w] = allowed[w]
         /\ Len(queue) \in Nat /\ DOMAIN queue = 1..Len(queue) /\ 1 \in DOMAIN queue
         /\ held'[w] = queue[1] /\ held'[w] # None
         /\ DOMAIN queue' = 1..(Len(queue) - 1)
         /\ \A i \in 1..(Len(queue) - 1) : queue'[i] = queue[i + 1]
         /\ \A i \in DOMAIN queue : queue[i] \in Item /\ queue[i].url \in visited[w]
         /\ \A u : Waiting(w, u) => Waiting(w, u)'
         /\ Full(w) => Full(w)'
<1>1. /\ queue \in Seq(Item) /\ queue # <<>> /\ queue' = Tail(queue)
      /\ held'[w] = Head(queue) /\ todo' = todo /\ visited' = visited /\ allowed' = allowed
      /\ todo[w] = {} /\ held[w] = None
  BY DEF Take, CrawlInv, TypeOK, FrontierTypeOK
<1>2. /\ Len(queue) \in Nat \ {0} /\ Head(queue) = queue[1] /\ Head(queue) \in Item
      /\ DOMAIN queue = 1..Len(queue) /\ DOMAIN queue' = 1..(Len(queue) - 1)
      /\ \A i \in 1..(Len(queue) - 1) : queue'[i] = queue[i + 1]
  BY <1>1, HeadTailProperties, EmptySeq
<1>3. held'[w] # None
  BY <1>1, <1>2, NoItem
<1>4. \A i \in DOMAIN queue : queue[i] \in Item /\ queue[i].url \in visited[w]
  BY <1>1, <1>2, ElementOfSeq DEF CrawlInv, QueueInv
<1>5. ASSUME NEW u, Waiting(w, u) PROVE Waiting(w, u)'
  <2>1. PICK i \in DOMAIN queue : queue[i].url = u
    BY <1>1, <1>5 DEF Waiting
  <2>2. CASE i = 1
    BY <1>1, <1>2, <1>3, <2>1, <2>2 DEF Waiting
  <2>3. CASE i # 1
    <3>1. i - 1 \in DOMAIN queue' /\ queue'[i - 1] = queue[i]
      BY <1>2, <2>1, <2>3
    <3> QED BY <2>1, <3>1 DEF Waiting
  <2> QED BY <2>2, <2>3
<1> QED BY <1>1, <1>2, <1>3, <1>4, <1>5 DEF Full

LEMMA InitSeeds == ASSUME Init, NEW w \in Workers PROVE Seeding(w)
<1>1. /\ queue = <<>> /\ visited[w] = {} /\ held[w] = None
      /\ todo[w] = {[url |-> u, depth |-> 0] : u \in Seeds[w]}
  BY DEF Init, FrontierInit
<1>2. \A u \in Seeds[w] : Offering(w, u)
  <2>1. ASSUME NEW u \in Seeds[w] PROVE [url |-> u, depth |-> 0] \in todo[w]
    BY <1>1
  <2> QED BY <2>1 DEF Offering
<1>3. \A item \in todo[w] : item.depth = 0 /\ item.url \in Seeds[w]
  BY <1>1
<1> QED BY <1>1, <1>2, <1>3 DEF Seeding

\* The first seed decides the domains before anything is accepted.
LEMMA SeedingOffer ==
  ASSUME CrawlInv, NEW w \in Workers, Seeding(w), NEW item \in todo[w], Offer(w, item),
         UNCHANGED web
  PROVE  Seeding(w)'
<1>1. item.depth = 0 /\ item.url \in Seeds[w] /\ item.depth <= MaxDepth
  BY FrontierAssumption DEF Seeding
<1>2. /\ allowed'[w] = AllowedAfter(w, item) /\ held' = held
      /\ item.url \in Urls
  BY OfferFacts
<1>3. ~(SameDomainOnly /\ allowed'[w] = {})
  BY <1>1, <1>2 DEF AllowedAfter
<1>4. \A u : MayCrawl(w, u)' => MayCrawl(w, u)
  BY <1>1, <1>2 DEF MayCrawl, AllowedAfter
<1>5. ~(SameDomainOnly /\ allowed[w] = {}) => \A u : MayCrawl(w, u)' <=> MayCrawl(w, u)
  BY <1>1, <1>2 DEF MayCrawl, AllowedAfter
<1>6. ASSUME NEW u \in visited'[w] PROVE u \in Seeds[w] /\ MayCrawl(w, u)' /\ Waiting(w, u)'
  <2>1. CASE u \in visited[w]
    BY <1>5, <2>1, OfferKeepsPlaces DEF Seeding
  <2>2. CASE u \notin visited[w]
    <3>1. Admits(w, item) /\ u = item.url
      BY <1>6, <2>2, OfferFacts
    <3>2. MayCrawl(w, u)'
      BY <1>2, <3>1 DEF MayCrawl, Admits
    <3> QED BY <1>1, <3>1, <3>2, OfferKeepsPlaces
  <2> QED BY <2>1, <2>2
<1>7. ASSUME NEW u \in Seeds[w], MayCrawl(w, u)'
      PROVE  Offering(w, u)' \/ u \in visited'[w] \/ Full(w)'
  <2>1. CASE u = item.url
    <3>1. Admits(w, item) \/ u \in visited[w] \/ Full(w)
      BY <1>1, <1>7, <2>1, WhyRefused
    <3> QED BY <2>1, <3>1, OfferFacts, OfferKeepsPlaces
  <2>2. CASE u # item.url
    <3>1. Offering(w, u) \/ u \in visited[w] \/ Full(w)
      BY <1>4, <1>7 DEF Seeding
    <3> QED BY <2>2, <3>1, OfferKeepsPlaces
  <2> QED BY <2>1, <2>2
<1>8. \A other \in todo'[w] : other.depth = 0 /\ other.url \in Seeds[w]
  BY OfferFacts DEF Seeding
<1>9. \A i \in DOMAIN queue' : queue'[i].depth = 0
  <2>1. CASE Admits(w, item)
    <3>1. \A i \in 1..(Len(queue) + 1) : i \in 1..Len(queue) \/ i = Len(queue) + 1
      BY OfferFacts
    <3> QED BY <1>1, <2>1, <3>1, OfferFacts DEF Seeding
  <2>2. CASE ~Admits(w, item)
    BY <2>2, OfferFacts DEF Seeding
  <2> QED BY <2>1, <2>2
<1>10. held'[w] = None
  BY <1>2 DEF Seeding
<1> QED BY <1>3, <1>6, <1>7, <1>8, <1>9, <1>10 DEF Seeding

\* The first page taken ends the offering of seeds: all that wait are seeds.
LEMMA SeedingTake ==
  ASSUME CrawlInv, NEW w \in Workers, Seeding(w), Take(w), UNCHANGED web
  PROVE  Crawling(w, 0)'
<1>1. /\ \A u : MayCrawl(w, u)' <=> MayCrawl(w, u)
      /\ \A n : Within(w, n)' = Within(w, n)
  BY TakeFacts, WithinSame
<1>2. TypeOK /\ MaxDepth \in Nat
  BY FrontierAssumption DEF CrawlInv
<1>3. visited'[w] = visited[w] /\ \A u \in visited[w] : Waiting(w, u)' /\ u \in Within(w, 0)
  BY <1>2, TakeFacts, WithinDef DEF Seeding
<1>4. \A n \in 0..MaxDepth : visited[w] \subseteq Within(w, n)
  BY <1>2, <1>3, WithinGrows
<1>5. ~Full(w) => Within(w, 0) \subseteq visited[w]
  BY <1>2, TakeFacts, WithinDef DEF Seeding, Offering
<1>6. \A i \in DOMAIN queue' : queue'[i].depth = 0 /\ queue'[i].url \in visited[w]
  <2>1. /\ Len(queue) \in Nat /\ DOMAIN queue = 1..Len(queue)
        /\ DOMAIN queue' = 1..(Len(queue) - 1)
        /\ \A i \in 1..(Len(queue) - 1) : queue'[i] = queue[i + 1]
    BY TakeFacts
  <2>2. \A i \in DOMAIN queue' : i + 1 \in DOMAIN queue /\ queue'[i] = queue[i + 1]
    BY <2>1
  <2> QED BY <2>2, TakeFacts DEF Seeding
<1>7. held'[w].depth = 0 /\ held'[w].url \in visited[w]
  BY TakeFacts DEF Seeding
<1>8. QueueAtDepth(w, 0)'
  BY <1>1, <1>2, <1>3, <1>6, <1>7, TakeFacts DEF QueueAtDepth
<1>9. NotBeyond(w, 0)'
  <2>1. visited'[w] \subseteq Within(w, IF 0 < MaxDepth THEN 0 + 1 ELSE 0)
    BY <1>2, <1>3, <1>4
  <2> QED BY <1>1, <1>3, <1>4, <2>1 DEF NotBeyond
<1>10. Full(w)' \/ Complete(w, 0)'
  <2>1. CASE Full(w)
    BY <2>1, TakeFacts
  <2>2. CASE ~Full(w)
    BY <1>1, <1>3, <1>5, <1>6, <2>2 DEF Complete
  <2> QED BY <2>1, <2>2
<1> QED BY <1>8, <1>9, <1>10 DEF Crawling

\* A link goes behind all that waits, one level deeper; a refused one was too deep,
\* out of the domains, accepted before, or one page too many.
LEMMA CrawlingOffer ==
  ASSUME CrawlInv, NEW w \in Workers, NEW c \in 0..MaxDepth, Crawling(w, c),
         NEW item \in todo[w], Offer(w, item), UNCHANGED web
  PROVE  Crawling(w, c)'
<1>1. /\ c \in Nat /\ MaxDepth \in Nat /\ item.depth = c + 1 /\ TypeOK
      /\ (c < MaxDepth /\ MayCrawl(w, item.url) => item.url \in Within(w, c + 1))
  BY FrontierAssumption DEF Crawling, QueueAtDepth, CrawlInv
<1>2. allowed'[w] = allowed[w] /\ AllowedAfter(w, item) = allowed[w]
  <2>1. AllowedAfter(w, item) = allowed[w]
    BY <1>1 DEF AllowedAfter
  <2> QED BY <2>1, OfferFacts
<1>3. /\ \A u : MayCrawl(w, u)' <=> MayCrawl(w, u)
      /\ \A n : Within(w, n)' = Within(w, n)
  BY <1>2, WithinSame
<1>4. Admits(w, item) => c < MaxDepth /\ item.url \in Within(w, c + 1)
  BY <1>1, <1>2 DEF Admits, MayCrawl
<1>5. QueueAtDepth(w, c)'
  <2>1. held'[w] # None => held'[w].depth = c /\ held'[w].url \in Within(w, c)
    BY OfferFacts DEF Crawling, QueueAtDepth
  <2>2. \A other \in todo'[w] :
          /\ other.depth = c + 1
          /\ c < MaxDepth /\ MayCrawl(w, other.url) => other.url \in Within(w, c + 1)
    BY OfferFacts DEF Crawling, QueueAtDepth
  <2>3. ASSUME NEW i \in DOMAIN queue'
        PROVE  /\ queue'[i].depth \in {c, c + 1} /\ queue'[i].depth <= MaxDepth
               /\ queue'[i].depth = c => queue'[i].url \in Within(w, c)
               /\ \A j \in DOMAIN queue' : i < j => queue'[i].depth <= queue'[j].depth
    <3>1. CASE Admits(w, item)
      <4>1. \A k \in DOMAIN queue' : k \in 1..Len(queue) \/ k = Len(queue) + 1
        BY <3>1, OfferFacts
      <4>2. \A k \in 1..Len(queue) :
              /\ queue'[k] = queue[k] /\ queue[k].depth \in {c, c + 1}
              /\ queue[k].depth <= MaxDepth
              /\ queue[k].depth = c => queue[k].url \in Within(w, c)
              /\ \A j \in 1..Len(queue) : k < j => queue[k].depth <= queue[j].depth
        BY <3>1, OfferFacts DEF Crawling, QueueAtDepth
      <4>3. queue'[Len(queue) + 1].depth = c + 1
        BY <1>1, <3>1, OfferFacts
      <4>4. Len(queue) \in Nat
        BY OfferFacts
      <4> QED BY <1>1, <1>4, <3>1, <4>1, <4>2, <4>3, <4>4
    <3>2. CASE ~Admits(w, item)
      BY <3>2, OfferFacts DEF Crawling, QueueAtDepth
    <3> QED BY <3>1, <3>2
  <2> QED BY <1>3, <2>1, <2>2, <2>3 DEF QueueAtDepth
<1>6. NotBeyond(w, c)'
  <2>1. CASE Admits(w, item)
    <3>1. visited'[w] = visited[w] \cup {item.url} /\ ~Full(w)
      BY <2>1, OfferFacts
    <3>2. c < MaxDepth /\ visited'[w] \subseteq Within(w, c + 1)
      BY <1>4, <2>1, <3>1 DEF Crawling, NotBeyond
    <3>3. Within(w, c) \subseteq visited'[w]
      BY <3>1 DEF Crawling, Complete
    <3>4. ASSUME NEW n \in 0..MaxDepth
          PROVE  visited'[w] \subseteq Within(w, n) \/ Within(w, n) \subseteq visited'[w]
      <4>1. CASE n <= c
        <5>1. Within(w, n) \subseteq Within(w, c)
          BY <1>1, <4>1, WithinGrows
        <5> QED BY <3>3, <5>1
      <4>2. CASE ~(n <= c)
        <5>1. c + 1 \in 0..MaxDepth /\ n \in (c + 1)..MaxDepth
          BY <1>1, <4>2
        <5>2. Within(w, c + 1) \subseteq Within(w, n)
          BY <5>1, WithinGrows
        <5> QED BY <3>2, <5>2
      <4> QED BY <4>1, <4>2
    <3> QED BY <1>3, <3>2, <3>4 DEF NotBeyond
  <2>2. CASE ~Admits(w, item)
    BY <1>3, <2>2, OfferFacts DEF Crawling, NotBeyond
  <2> QED BY <2>1, <2>2
<1>7. Full(w)' \/ Complete(w, c)'
  <2> SUFFICES ASSUME ~Full(w)' PROVE Complete(w, c)'
    OBVIOUS
  <2>1. ~Full(w) /\ Complete(w, c)
    BY OfferKeepsPlaces DEF Crawling
  <2>2. Within(w, c) \subseteq visited'[w]
    BY <2>1, OfferKeepsPlaces DEF Complete
  <2>3. \A i \in DOMAIN queue' : queue'[i].depth = c + 1 => queue'[i].url \notin Within(w, c)
    <3>1. CASE Admits(w, item)
      <4>1. \A i \in DOMAIN queue' : i \in 1..Len(queue) \/ i = Len(queue) + 1
        BY <3>1, OfferFacts
      <4>2. item.url \notin Within(w, c)
        BY <2>1, <3>1, OfferFacts DEF Complete
      <4> QED BY <2>1, <3>1, <4>1, <4>2, OfferFacts DEF Complete
    <3>2. CASE ~Admits(w, item)
      BY <2>1, <3>2, OfferFacts DEF Complete
    <3> QED BY <3>1, <3>2
  <2>4. ASSUME c < MaxDepth, NEW u \in visited'[w], NEW v \in web[u], MayCrawl(w, v)
        PROVE  Waiting(w, u)' \/ v \in visited'[w] \/ Offering(w, v)'
    <3>1. CASE u \notin visited[w]
      BY <3>1, OfferFacts, OfferKeepsPlaces
    <3>2. CASE u \in visited[w]
      <4>1. Waiting(w, u) \/ v \in visited[w] \/ Offering(w, v)
        BY <2>1, <2>4, <3>2 DEF Complete
      <4>2. CASE v = item.url
        <5>1. Admits(w, item) \/ v \in visited[w]
          BY <1>1, <1>3, <2>1, <2>4, <4>2, WhyRefused
        <5> QED BY <4>2, <5>1, OfferFacts
      <4>3. CASE v # item.url
        BY <4>1, <4>3, OfferKeepsPlaces
      <4> QED BY <4>2, <4>3
    <3> QED BY <3>1, <3>2
  <2> QED BY <1>3, <2>2, <2>3, <2>4 DEF Complete
<1> QED BY <1>5, <1>6, <1>7 DEF Crawling

\* When the last page of depth c has gone, all within c + 1 links are accepted and
\* the next level begins.
LEMMA CrawlingTake ==
  ASSUME CrawlInv, NEW w \in Workers, NEW c \in 0..MaxDepth, Crawling(w, c), Take(w),
         UNCHANGED web
  PROVE  \E d \in 0..MaxDepth : Crawling(w, d)'
<1>1. /\ \A u : MayCrawl(w, u)' <=> MayCrawl(w, u)
      /\ \A n : Within(w, n)' = Within(w, n)
  BY TakeFacts, WithinSame
<1>2. c \in Nat /\ MaxDepth \in Nat /\ TypeOK /\ visited'[w] = visited[w]
  BY FrontierAssumption, TakeFacts DEF CrawlInv
<1>3. /\ \A i \in DOMAIN queue : i \in Nat /\ queue[i].depth \in {c, c + 1}
                                   /\ queue[i].depth <= MaxDepth
      /\ \A i \in DOMAIN queue : queue[i].depth = c => queue[i].url \in Within(w, c)
      /\ \A i, j \in DOMAIN queue : i < j => queue[i].depth <= queue[j].depth
  BY TakeFacts DEF Crawling, QueueAtDepth
<1>4. \A i \in DOMAIN queue' :
        i \in Nat /\ i + 1 \in DOMAIN queue /\ 1 < i + 1 /\ queue'[i] = queue[i + 1]
  BY TakeFacts
<1>5. held'[w] = queue[1] /\ 1 \in DOMAIN queue /\ todo'[w] = {} /\ todo[w] = {}
  BY TakeFacts
<1>6. CASE queue[1].depth = c
  <2>1. QueueAtDepth(w, c)'
    <3>1. \A i, j \in DOMAIN queue' : i < j => queue'[i].depth <= queue'[j].depth
      BY <1>3, <1>4
    <3> QED BY <1>1, <1>3, <1>4, <1>5, <1>6, <3>1 DEF QueueAtDepth
  <2>2. NotBeyond(w, c)'
    BY <1>1, <1>2 DEF Crawling, NotBeyond
  <2>3. Full(w)' \/ Complete(w, c)'
    <3>1. CASE Full(w)
      BY <3>1, TakeFacts
    <3>2. CASE Complete(w, c)
      <4>1. \A i \in DOMAIN queue' : queue'[i].depth = c + 1 => queue'[i].url \notin Within(w, c)
        BY <1>4, <3>2 DEF Complete
      <4>2. c < MaxDepth => \A u \in visited[w] : \A v \in web[u] :
              MayCrawl(w, v) => Waiting(w, u)' \/ v \in visited[w]
        BY <1>5, <3>2, TakeFacts DEF Complete, Offering
      <4>3. Within(w, c) \subseteq visited[w]
        BY <3>2 DEF Complete
      <4> QED BY <1>1, <1>2, <4>1, <4>2, <4>3 DEF Complete
    <3> QED BY <3>1, <3>2 DEF Crawling
  <2> QED BY <2>1, <2>2, <2>3 DEF Crawling
<1>7. CASE queue[1].depth = c + 1
  <2>1. c < MaxDepth /\ c + 1 \in 0..MaxDepth
    BY <1>2, <1>3, <1>5, <1>7
  <2>2. \A i \in DOMAIN queue : queue[i].depth = c + 1
    <3>1. \A i \in DOMAIN queue : i = 1 \/ 1 < i
      BY TakeFacts
    <3> QED BY <1>2, <1>3, <1>5, <1>7, <3>1
  <2>3. visited[w] \subseteq Within(w, c + 1)
    BY <2>1 DEF Crawling, NotBeyond
  <2>4. QueueAtDepth(w, c + 1)'
    <3>1. \A i \in DOMAIN queue : queue[i].url \in Within(w, c + 1)
      BY <2>3, TakeFacts
    <3> QED BY <1>1, <1>2, <1>3, <1>4, <1>5, <2>1, <2>2, <3>1 DEF QueueAtDepth
  <2>5. NotBeyond(w, c + 1)'
    <3>1. visited[w] \subseteq Within(w, IF c + 1 < MaxDepth THEN (c + 1) + 1 ELSE c + 1)
      <4>1. CASE c + 1 < MaxDepth
        <5>1. (c + 1) + 1 \in (c + 1)..MaxDepth
          BY <1>2, <4>1
        <5>2. Within(w, c + 1) \subseteq Within(w, (c + 1) + 1)
          BY <2>1, <5>1, WithinGrows
        <5> QED BY <2>3, <4>1, <5>2
      <4>2. CASE ~(c + 1 < MaxDepth)
        BY <2>3, <4>2
      <4> QED BY <4>1, <4>2
    <3>2. \A n \in 0..MaxDepth :
            visited[w] \subseteq Within(w, n) \/ Within(w, n) \subseteq visited[w]
      BY DEF Crawling, NotBeyond
    <3> QED BY <1>1, <1>2, <3>1, <3>2 DEF NotBeyond
  <2>6. Full(w)' \/ Complete(w, c + 1)'
    <3>1. CASE Full(w)
      BY <3>1, TakeFacts
    <3>2. CASE Complete(w, c)
      <4>1. \A u \in visited[w] : \A v \in web[u] :
              MayCrawl(w, v) => Waiting(w, u) \/ v \in visited[w]
        BY <1>5, <2>1, <3>2 DEF Complete, Offering
      <4>2. \A v \in Within(w, c) : v \in visited[w] /\ ~Waiting(w, v)
        BY <2>2, <3>2, TakeFacts DEF Complete, Waiting
      <4>3. Within(w, c + 1) \subseteq visited[w]
        <5>1. c \in 0..(MaxDepth - 1)
          BY <1>2, <2>1
        <5>2. ASSUME NEW u \in Within(w, c + 1) PROVE u \in visited[w]
          <6>1. u \in Within(w, c) \/ (MayCrawl(w, u) /\ \E v \in Within(w, c) : u \in web[v])
            BY <1>2, <5>1, WithinDef
          <6> QED BY <4>1, <4>2, <6>1
        <5> QED BY <5>2
      <4>4. \A u \in visited[w] : \A v \in web[u] :
              MayCrawl(w, v) => Waiting(w, u)' \/ v \in visited[w]
        BY <4>1, TakeFacts
      <4>5. \A i \in DOMAIN queue' : queue'[i].depth # (c + 1) + 1
        BY <1>2, <1>4, <2>2
      <4> QED BY <1>1, <1>2, <4>3, <4>4, <4>5 DEF Complete
    <3> QED BY <3>1, <3>2 DEF Crawling
  <2>7. Crawling(w, c + 1)'
    BY <2>4, <2>5, <2>6 DEF Crawling
  <2> QED BY <2>1, <2>7
<1> QED BY <1>3, <1>5, <1>6, <1>7

\* The page whose links are offered stops waiting, and they are being offered.
LEMMA CrawlingFollow ==
  ASSUME CrawlInv, NEW w \in Workers, NEW c \in 0..MaxDepth, Crawling(w, c), FollowLinks(w)
  PROVE  Crawling(w, c)'
<1>1. /\ todo'[w] = {[url |-> u, depth |-> held[w].depth + 1] : u \in web[held[w].url]}
      /\ held'[w] = None /\ held[w] # None /\ todo[w] = {} /\ queue' = queue
      /\ visited'[w] = visited[w] /\ allowed'[w] = allowed[w] /\ UNCHANGED web
  BY DEF FollowLinks, CrawlInv, TypeOK, FrontierTypeOK
<1>2. /\ \A u : MayCrawl(w, u)' <=> MayCrawl(w, u)
      /\ \A n : Within(w, n)' = Within(w, n)
  BY <1>1, WithinSame
<1>3. c \in Nat /\ MaxDepth \in Nat /\ TypeOK
      /\ held[w].depth = c /\ held[w].url \in Within(w, c)
  BY <1>1, FrontierAssumption DEF CrawlInv, Crawling, QueueAtDepth
<1>4. QueueAtDepth(w, c)'
  <2>1. ASSUME NEW item \in todo'[w]
        PROVE  /\ item.depth = c + 1
               /\ c < MaxDepth /\ MayCrawl(w, item.url) => item.url \in Within(w, c + 1)
    <3>1. item.depth = c + 1 /\ item.url \in web[held[w].url]
      BY <1>1, <1>3
    <3>2. c < MaxDepth /\ MayCrawl(w, item.url) => item.url \in Within(w, c + 1)
      <4> SUFFICES ASSUME c < MaxDepth, MayCrawl(w, item.url) PROVE item.url \in Within(w, c + 1)
        OBVIOUS
      <4>1. c \in 0..(MaxDepth - 1)
        BY <1>3
      <4> QED BY <1>3, <3>1, <4>1, WithinDef
    <3> QED BY <3>1, <3>2
  <2> QED BY <1>1, <1>2, <2>1 DEF Crawling, QueueAtDepth
<1>5. NotBeyond(w, c)'
  BY <1>1, <1>2 DEF Crawling, NotBeyond
<1>6. Full(w)' \/ Complete(w, c)'
  <2>1. CASE Full(w)
    BY <1>1, <2>1 DEF Full
  <2>2. CASE Complete(w, c)
    <3>1. \A u \in web[held[w].url] : Offering(w, u)'
      <4>1. ASSUME NEW u \in web[held[w].url]
            PROVE  [url |-> u, depth |-> held[w].depth + 1] \in todo'[w]
        BY <1>1
      <4> QED BY <4>1 DEF Offering
    <3>2. \A u : Waiting(w, u) => Waiting(w, u)' \/ u = held[w].url
      BY <1>1 DEF Waiting
    <3>3. \A u : ~Offering(w, u)
      BY <1>1 DEF Offering
    <3>4. c < MaxDepth => \A u \in visited[w] : \A v \in web[u] :
            MayCrawl(w, v) => Waiting(w, u)' \/ v \in visited[w] \/ Offering(w, v)'
      BY <2>2, <3>1, <3>2, <3>3 DEF Complete
    <3> QED BY <1>1, <1>2, <2>2, <3>4 DEF Complete
  <2> QED BY <2>1, <2>2 DEF Crawling
<1> QED BY <1>4, <1>5, <1>6 DEF Crawling

\* While seeds are offered the worker holds no page whose links it could follow.
LEMMA BreadthInvariant == ASSUME Alone PROVE Spec => []BreadthInv
<1>1. Init => BreadthInv
  BY InitSeeds DEF BreadthInv
<1>2. CrawlInv /\ BreadthInv /\ [Next]_vars => BreadthInv'
  <2> SUFFICES ASSUME CrawlInv, BreadthInv, [Next]_vars PROVE BreadthInv'
    OBVIOUS
  <2>1. CASE UNCHANGED vars
    <3>1. UNCHANGED <<queue, visited, allowed, todo, held, web>>
      BY <2>1 DEF vars, frontier
    <3>2. ASSUME NEW w \in Workers
          PROVE  /\ Seeding(w) => Seeding(w)'
                 /\ \A c \in 0..MaxDepth : Crawling(w, c) => Crawling(w, c)'
      <4>1. /\ \A u : (MayCrawl(w, u)' <=> MayCrawl(w, u)) /\ (Waiting(w, u)' <=> Waiting(w, u))
                       /\ (Offering(w, u)' <=> Offering(w, u))
            /\ \A n : Within(w, n)' = Within(w, n)
            /\ Full(w)' <=> Full(w)
        BY <3>1, WithinSame DEF Waiting, Offering, Full
      <4>2. Seeding(w) => Seeding(w)'
        BY <3>1, <4>1 DEF Seeding
      <4>3. ASSUME NEW c \in 0..MaxDepth, Crawling(w, c) PROVE Crawling(w, c)'
        <5>1. QueueAtDepth(w, c)'
          BY <3>1, <4>1, <4>3 DEF Crawling, QueueAtDepth
        <5>2. NotBeyond(w, c)'
          BY <3>1, <4>1, <4>3 DEF Crawling, NotBeyond
        <5>3. Full(w)' \/ Complete(w, c)'
          BY <3>1, <4>1, <4>3 DEF Crawling, Complete
        <5> QED BY <5>1, <5>2, <5>3 DEF Crawling
      <4> QED BY <4>2, <4>3
    <3> QED BY <3>2 DEF BreadthInv
  <2>2. ASSUME NEW w \in Workers, Step(w) PROVE BreadthInv'
    <3>1. Workers = {w}
      BY AloneIsOne
    <3>2. Seeding(w)' \/ \E c \in 0..MaxDepth : Crawling(w, c)'
      <4>1. CASE Seeding(w)
        <5>1. ~FollowLinks(w)
          BY <4>1 DEF Seeding, FollowLinks
        <5>2. 0 \in 0..MaxDepth
          BY FrontierAssumption
        <5> QED BY <2>2, <4>1, <5>1, <5>2, SeedingOffer, SeedingTake DEF Step
      <4>2. ASSUME NEW c \in 0..MaxDepth, Crawling(w, c)
            PROVE  \E d \in 0..MaxDepth : Crawling(w, d)'
        BY <2>2, <4>2, CrawlingOffer, CrawlingTake, CrawlingFollow DEF Step
      <4> QED BY <4>1, <4>2 DEF BreadthInv
    <3> QED BY <3>1, <3>2 DEF BreadthInv
  <2> QED BY <2>1, <2>2 DEF Next, Done
<1> QED BY CrawlInvariant, <1>1, <1>2, PTL DEF Spec

\* One worker crawls breadth first: when it is done it has exactly the pages
\* within max_depth links of the seeds, or, if max_pages stopped it, none
\* farther than one that is missing.
THEOREM BreadthFirst == ASSUME Alone PROVE Spec => []CrawlIsBreadthFirst
<1>1. CrawlInv /\ BreadthInv => CrawlIsBreadthFirst
  <2> SUFFICES ASSUME CrawlInv, BreadthInv, Idle, NEW w \in Workers
               PROVE  /\ visited[w] \subseteq Within(w, MaxDepth)
                      /\ visited[w] = Within(w, MaxDepth) \/ Full(w)
                      /\ \A n \in 0..MaxDepth :
                           visited[w] \subseteq Within(w, n) \/ Within(w, n) \subseteq visited[w]
    BY DEF CrawlIsBreadthFirst, Full
  <2>1. /\ MaxDepth \in 0..MaxDepth /\ 0 \in 0..MaxDepth /\ TypeOK
        /\ visited[w] \in SUBSET Urls
    BY FrontierAssumption DEF CrawlInv, TypeOK, FrontierTypeOK
  <2>2. \A u : ~Waiting(w, u) /\ ~Offering(w, u)
    BY DEF Idle, Waiting, Offering
  <2>3. CASE Seeding(w)
    <3>1. visited[w] = {}
      BY <2>2, <2>3 DEF Seeding
    <3>2. ~Full(w) => \A u \in Seeds[w] : ~MayCrawl(w, u)
      BY <2>2, <2>3, <3>1 DEF Seeding
    <3>3. ~Full(w) => Within(w, MaxDepth) \subseteq visited[w]
      BY <2>1, <3>1, <3>2, WithinStays
    <3> QED BY <3>1, <3>3
  <2>4. ASSUME NEW c \in 0..MaxDepth, Crawling(w, c)
        PROVE  /\ visited[w] \subseteq Within(w, MaxDepth)
               /\ visited[w] = Within(w, MaxDepth) \/ Full(w)
               /\ \A n \in 0..MaxDepth :
                    visited[w] \subseteq Within(w, n) \/ Within(w, n) \subseteq visited[w]
    <3>1. visited[w] \subseteq Within(w, MaxDepth)
      <4> DEFINE d == IF c < MaxDepth THEN c + 1 ELSE c
      <4>1. d \in 0..MaxDepth /\ MaxDepth \in d..MaxDepth
        BY FrontierAssumption
      <4>2. visited[w] \subseteq Within(w, d)
        BY <2>4 DEF Crawling, NotBeyond
      <4> HIDE DEF d
      <4>3. Within(w, d) \subseteq Within(w, MaxDepth)
        BY <4>1, WithinGrows
      <4> QED BY <4>2, <4>3
    <3>2. Complete(w, c) => Within(w, MaxDepth) \subseteq visited[w]
      <4> SUFFICES ASSUME Complete(w, c) PROVE Within(w, MaxDepth) \subseteq visited[w]
        OBVIOUS
      <4>1. CASE c < MaxDepth
        <5>1. \A v \in visited[w] : \A u \in web[v] : MayCrawl(w, u) => u \in visited[w]
          BY <2>2, <4>1 DEF Complete
        <5>2. c \in 0..c /\ Within(w, 0) \subseteq Within(w, c)
          BY <2>1, FrontierAssumption, WithinGrows
        <5>3. \A u \in Seeds[w] : MayCrawl(w, u) => u \in visited[w]
          BY <2>1, <5>2, WithinDef DEF Complete
        <5> QED BY <2>1, <5>1, <5>3, WithinStays
      <4>2. CASE ~(c < MaxDepth)
        <5>1. c = MaxDepth
          BY <4>2, FrontierAssumption
        <5> QED BY <5>1 DEF Complete
      <4> QED BY <4>1, <4>2
    <3> QED BY <2>4, <3>1, <3>2 DEF Crawling, NotBeyond
  <2> QED BY <2>3, <2>4 DEF BreadthInv
<1> QED BY CrawlInvariant, BreadthInvariant, <1>1, PTL

(***************************************************************************)
(* The crawl runs out of work                                              *)
(***************************************************************************)
\* The steps worker w can take at most: to offer what it has to offer, to follow
\* the page it holds, and to take, follow and offer the links of every page that
\* waits or that it may still accept.
StepsLeft(w) ==
  Cardinality(todo[w])
    + (IF held[w] = None THEN 0 ELSE Cardinality(Urls) + 1)
    + (Cardinality(Urls) + 2) * (Len(queue) + Cardinality(Urls \ visited[w]))

FiniteTodo == \A w \in Workers : IsFiniteSet(todo[w])

\* Each link is one item of one depth, so a page has at most as many as there
\* are URLs.
LEMMA ItemsOfPages ==
  ASSUME IsFiniteSet(Urls), NEW pages, pages \subseteq Urls, NEW n,
         NEW items, items = {[url |-> u, depth |-> n] : u \in pages}
  PROVE  IsFiniteSet(items) /\ Cardinality(items) <= Cardinality(Urls)
<1> DEFINE asItem == [u \in pages |-> [url |-> u, depth |-> n]]
<1>1. IsFiniteSet(pages) /\ Cardinality(pages) <= Cardinality(Urls)
  BY FS_Subset
<1>2. asItem \in Surjection(pages, items)
  <2>1. asItem \in [pages -> items]
    OBVIOUS
  <2>2. \A t \in items : \E u \in pages : asItem[u] = t
    OBVIOUS
  <2> QED BY <2>1, <2>2 DEF Surjection
<1>3. IsFiniteSet(items) /\ Cardinality(items) <= Cardinality(pages)
  <2> HIDE DEF asItem
  <2> QED BY <1>1, <1>2, FS_Surjection
<1>4. Cardinality(items) \in Nat /\ Cardinality(pages) \in Nat /\ Cardinality(Urls) \in Nat
  BY <1>1, <1>3, FS_CardinalityType
<1> QED BY <1>1, <1>3, <1>4

LEMMA OneMoreTime ==
  ASSUME NEW a \in Nat, NEW b \in Nat
  PROVE  a * b \in Nat /\ a * (b + 1) = a * b + a
OBVIOUS

\* How many steps the accepted and the unseen pages stand for is a number.
LEMMA RestType ==
  ASSUME NEW a \in Nat, NEW b \in Nat, NEW c \in Nat
  PROVE  (a + 2) * (b + c) \in Nat
OBVIOUS

LEMMA StepsLeftType ==
  ASSUME CrawlInv, FiniteTodo, IsFiniteSet(Urls), NEW w \in Workers
  PROVE  /\ Cardinality(todo[w]) \in Nat /\ Cardinality(Urls) \in Nat /\ Len(queue) \in Nat
         /\ IsFiniteSet(Urls \ visited[w]) /\ Cardinality(Urls \ visited[w]) \in Nat
         /\ StepsLeft(w) \in Nat
<1>1. Cardinality(todo[w]) \in Nat /\ Cardinality(Urls) \in Nat
  BY FS_CardinalityType DEF FiniteTodo
<1>2. Len(queue) \in Nat
  BY DEF CrawlInv, TypeOK, FrontierTypeOK
<1>3. IsFiniteSet(Urls \ visited[w]) /\ Cardinality(Urls \ visited[w]) \in Nat
  BY FS_Subset, FS_CardinalityType
<1> DEFINE rest == (Cardinality(Urls) + 2) * (Len(queue) + Cardinality(Urls \ visited[w]))
           inHand == IF held[w] = None THEN 0 ELSE Cardinality(Urls) + 1
<1>4. rest \in Nat
  BY <1>1, <1>2, <1>3, RestType, Zenon
<1>5. inHand \in Nat
  BY <1>1
<1>6. StepsLeft(w) = Cardinality(todo[w]) + inHand + rest
  BY DEF StepsLeft
<1>7. StepsLeft(w) \in Nat
  <2> HIDE DEF rest, inHand
  <2> QED BY <1>1, <1>4, <1>5, <1>6
<1> QED BY <1>1, <1>2, <1>3, <1>7

\* Accepting a page moves it from those not yet accepted to the queue.
LEMMA OfferShrinks ==
  ASSUME CrawlInv, FiniteTodo, IsFiniteSet(Urls), NEW w \in Workers, NEW item \in todo[w],
         Offer(w, item)
  PROVE  IsFiniteSet(todo'[w]) /\ StepsLeft(w)' < StepsLeft(w)
<1>0. /\ Cardinality(todo[w]) \in Nat /\ Cardinality(Urls) \in Nat /\ Len(queue) \in Nat
      /\ IsFiniteSet(Urls \ visited[w]) /\ Cardinality(Urls \ visited[w]) \in Nat
      /\ StepsLeft(w) \in Nat
  BY StepsLeftType
<1>1. todo'[w] = todo[w] \ {item} /\ held' = held
  BY DEF Offer, CrawlInv, TypeOK, FrontierTypeOK
<1>2. IsFiniteSet(todo'[w]) /\ Cardinality(todo'[w]) = Cardinality(todo[w]) - 1
  <2>1. IsFiniteSet(todo[w])
    BY DEF FiniteTodo
  <2> QED BY <1>1, <2>1, FS_RemoveElement
<1>3. Len(queue') + Cardinality(Urls \ visited'[w]) = Len(queue) + Cardinality(Urls \ visited[w])
  <2>1. CASE Admits(w, item)
    <3>1. /\ visited'[w] = visited[w] \cup {item.url} /\ queue' = Append(queue, item)
          /\ item.url \in Urls \ visited[w] /\ item \in Item /\ queue \in Seq(Item)
      BY <2>1, OfferFacts DEF Offer, CrawlInv, TypeOK, FrontierTypeOK
    <3>2. Urls \ visited'[w] = (Urls \ visited[w]) \ {item.url}
      BY <3>1
    <3>3. Cardinality(Urls \ visited'[w]) = Cardinality(Urls \ visited[w]) - 1
      <4> DEFINE unseen == Urls \ visited[w]
      <4>1. item.url \in unseen /\ IsFiniteSet(unseen)
        BY <1>0, <3>1
      <4> HIDE DEF unseen
      <4>2. Cardinality(unseen \ {item.url}) = Cardinality(unseen) - 1
        BY <4>1, FS_RemoveElement
      <4> QED BY <3>2, <4>2 DEF unseen
    <3>4. Len(queue') = Len(queue) + 1
      BY <3>1, AppendProperties
    <3> QED BY <1>0, <3>3, <3>4
  <2>2. CASE ~Admits(w, item)
    BY <2>2 DEF Offer
  <2> QED BY <2>1, <2>2
<1>4. StepsLeft(w)' = StepsLeft(w) - 1
  <2> DEFINE rest == (Cardinality(Urls) + 2) * (Len(queue) + Cardinality(Urls \ visited[w]))
             inHand == IF held[w] = None THEN 0 ELSE Cardinality(Urls) + 1
  <2>1. rest \in Nat /\ inHand \in Nat
    <3>1. rest \in Nat
      BY <1>0, RestType, Zenon
    <3>2. inHand \in Nat
      BY <1>0
    <3> QED BY <3>1, <3>2
  <2>2. StepsLeft(w) = Cardinality(todo[w]) + inHand + rest
    BY DEF StepsLeft
  <2>3. StepsLeft(w)' = (Cardinality(todo[w]) - 1) + inHand + rest
    BY <1>1, <1>2, <1>3 DEF StepsLeft
  <2> HIDE DEF rest, inHand
  <2> QED BY <1>0, <2>1, <2>2, <2>3
<1> QED BY <1>0, <1>2, <1>4

\* A page taken has its own step, and its following and links, still ahead.
LEMMA TakeShrinks ==
  ASSUME CrawlInv, FiniteTodo, IsFiniteSet(Urls), NEW w \in Workers, Take(w)
  PROVE  IsFiniteSet(todo'[w]) /\ StepsLeft(w)' < StepsLeft(w)
<1> DEFINE unseen == Cardinality(Urls \ visited[w])
           each == Cardinality(Urls) + 2
<1>1. todo'[w] = todo[w] /\ visited'[w] = visited[w] /\ held[w] = None /\ held'[w] # None
  BY TakeFacts DEF Take
<1>2. Len(queue') \in Nat /\ Len(queue) = Len(queue') + 1
  <2>1. queue \in Seq(Item) /\ queue # <<>> /\ queue' = Tail(queue)
    BY DEF Take, CrawlInv, TypeOK, FrontierTypeOK
  <2> QED BY <2>1, HeadTailProperties, EmptySeq
<1>3. /\ unseen \in Nat /\ Cardinality(Urls) \in Nat /\ each \in Nat
      /\ Cardinality(todo[w]) \in Nat /\ IsFiniteSet(todo[w])
  <2>1. Cardinality(todo[w]) \in Nat /\ Cardinality(Urls) \in Nat /\ unseen \in Nat
    BY StepsLeftType
  <2> QED BY <2>1 DEF FiniteTodo
<1>4. each * (Len(queue) + unseen) = each * (Len(queue') + unseen) + each
      /\ each * (Len(queue') + unseen) \in Nat
  <2> HIDE DEF each, unseen
  <2>1. Len(queue) + unseen = (Len(queue') + unseen) + 1 /\ Len(queue') + unseen \in Nat
    BY <1>2, <1>3
  <2> QED BY <1>3, <2>1, OneMoreTime
<1>5. StepsLeft(w) = Cardinality(todo[w]) + 0 + each * (Len(queue) + unseen)
  BY <1>1 DEF StepsLeft
<1>6. StepsLeft(w)' = Cardinality(todo[w]) + (each - 1) + each * (Len(queue') + unseen)
  <2>1. Cardinality(Urls) + 1 = each - 1
    BY <1>3
  <2> QED BY <1>1, <2>1 DEF StepsLeft
<1> HIDE DEF each, unseen
<1> QED BY <1>1, <1>3, <1>4, <1>5, <1>6

LEMMA FollowShrinks ==
  ASSUME CrawlInv, FiniteTodo, IsFiniteSet(Urls), NEW w \in Workers, FollowLinks(w)
  PROVE  IsFiniteSet(todo'[w]) /\ StepsLeft(w)' < StepsLeft(w)
<1> DEFINE rest == (Cardinality(Urls) + 2) * (Len(queue) + Cardinality(Urls \ visited[w]))
<1>1. /\ held[w] # None /\ todo[w] = {} /\ held'[w] = None /\ UNCHANGED <<queue, visited>>
      /\ todo'[w] = {[url |-> u, depth |-> held[w].depth + 1] : u \in web[held[w].url]}
      /\ web[held[w].url] \subseteq Urls
  <2>1. held[w] \in Item /\ web \in [Urls -> SUBSET Urls]
    BY DEF FollowLinks, CrawlInv, TypeOK, FrontierTypeOK
  <2> QED BY <2>1 DEF FollowLinks, CrawlInv, TypeOK, FrontierTypeOK, Item
<1>2. IsFiniteSet(todo'[w]) /\ Cardinality(todo'[w]) <= Cardinality(Urls)
      /\ Cardinality(todo'[w]) \in Nat
  <2> DEFINE links == web[held[w].url]
             n == held[w].depth + 1
  <2>1. todo'[w] = {[url |-> u, depth |-> n] : u \in links} /\ links \subseteq Urls
    BY <1>1
  <2> HIDE DEF links, n
  <2>2. \A items : items = {[url |-> u, depth |-> n] : u \in links} =>
          IsFiniteSet(items) /\ Cardinality(items) <= Cardinality(Urls)
    <3>1. links \subseteq Urls
      BY <2>1
    <3> QED BY <3>1, ItemsOfPages, ZenonT(40)
  <2>3. IsFiniteSet(todo'[w]) /\ Cardinality(todo'[w]) <= Cardinality(Urls)
    BY <2>1, <2>2
  <2> QED BY <2>3, FS_CardinalityType
<1>3. Cardinality(todo[w]) = 0 /\ rest \in Nat /\ Cardinality(Urls) \in Nat
  <2>1. /\ Cardinality(Urls) \in Nat /\ Len(queue) \in Nat
        /\ Cardinality(Urls \ visited[w]) \in Nat
    BY StepsLeftType
  <2>2. Cardinality(todo[w]) = 0
    BY <1>1, FS_EmptySet
  <2>3. rest \in Nat
    BY <2>1, RestType, Zenon
  <2> QED BY <2>1, <2>2, <2>3
<1>4. StepsLeft(w) = Cardinality(todo[w]) + (Cardinality(Urls) + 1) + rest
  BY <1>1 DEF StepsLeft
<1>5. StepsLeft(w)' = Cardinality(todo'[w]) + 0 + rest
  BY <1>1 DEF StepsLeft
<1> HIDE DEF rest
<1> QED BY <1>2, <1>3, <1>4, <1>5

\* Every step of a crawl of finitely many URLs leaves fewer steps to take, so it
\* ends after a number of them known at its start, whatever the links, the
\* limits and the order.  (That a worker with a step left takes it is fairness.)
THEOREM CrawlRunsOut ==
  ASSUME Alone, IsFiniteSet(Urls), NEW w \in Workers
  PROVE  Spec => [](StepsLeft(w) \in Nat) /\ [][StepsLeft(w)' < StepsLeft(w)]_vars
<1>1. Workers = {w}
  BY AloneIsOne
<1>2. Init => FiniteTodo
  <2> SUFFICES ASSUME Init PROVE IsFiniteSet(todo[w])
    BY <1>1 DEF FiniteTodo
  <2>1. Seeds[w] \subseteq Urls /\ todo[w] = {[url |-> u, depth |-> 0] : u \in Seeds[w]}
    BY FrontierAssumption DEF Init, FrontierInit
  <2> QED BY <2>1, ItemsOfPages, ZenonT(40)
<1>3. CrawlInv /\ FiniteTodo /\ [Next]_vars =>
        FiniteTodo' /\ (UNCHANGED vars \/ StepsLeft(w)' < StepsLeft(w))
  <2> SUFFICES ASSUME CrawlInv, FiniteTodo, [Next]_vars
               PROVE  FiniteTodo' /\ (UNCHANGED vars \/ StepsLeft(w)' < StepsLeft(w))
    OBVIOUS
  <2>1. CASE UNCHANGED vars
    BY <2>1 DEF vars, frontier, FiniteTodo
  <2>2. CASE Step(w)
    <3>1. IsFiniteSet(todo'[w]) /\ StepsLeft(w)' < StepsLeft(w)
      BY <2>2, OfferShrinks, TakeShrinks, FollowShrinks DEF Step
    <3> QED BY <1>1, <3>1 DEF FiniteTodo
  <2> QED BY <1>1, <2>1, <2>2 DEF Next, Done
<1>4. CrawlInv /\ FiniteTodo => StepsLeft(w) \in Nat
  BY StepsLeftType
<1> QED BY CrawlInvariant, <1>2, <1>3, <1>4, PTL DEF Spec
=============================================================================
