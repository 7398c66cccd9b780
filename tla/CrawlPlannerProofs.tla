-------------------------- MODULE CrawlPlannerProofs --------------------------
(***************************************************************************)
(* Proofs about CrawlPlanner, for any number of planners, URLs and domains *)
(* and any limits: every job has its own grant, and the planners' steps    *)
(* are those of the ledger.  (That every URL is decided eventually is left *)
(* to model checking.)                                                     *)
(***************************************************************************)
EXTENDS CrawlPlanner, SequenceTheorems, FiniteSetTheorems, TLAPS

\* All of PlannerInv but what concerns the frontier alone.
GrantInv == TypeOK /\ StepsAgree /\ JobsAreGranted

\* Inductive: jobs are counted, so there are finitely many.
PlanInv == GrantInv /\ IsFiniteSet(jobs)

LEMMA ItemHeld ==
  ASSUME GrantInv, NEW w \in Workers, held[w] # None
  PROVE  held[w].url \in Urls /\ DomainOf[held[w].url] \in Domains
<1>1. held[w] \in Item
  BY DEF GrantInv, TypeOK, FrontierTypeOK
<1> QED BY <1>1, FrontierAssumption DEF Item

\* A command of the limiter concerns the worker that runs it.
LEMMA LimiterStep ==
  ASSUME GrantInv, NEW w \in Workers, Limiter!AcquireStep(w)
  PROVE  /\ acq' \in [Workers -> Limiter!Acquiring \cup {None}]
         /\ acq' = [acq EXCEPT ![w] = acq'[w]]
         /\ acq'[w] # None => acq'[w].domain = acq[w].domain
<1>1. acq \in [Workers -> Limiter!Acquiring \cup {None}]
  BY DEF GrantInv, TypeOK
<1>2. acq[w] # None /\ acq[w] \in Limiter!Acquiring /\ acq[w].domain \in Domains
  BY <1>1 DEF Limiter!AcquireStep, Limiter!TakeDelay, Limiter!TooSoon, Limiter!Count,
              Limiter!GrantUncapped, Limiter!SetExpiry, Limiter!RollBack, Limiter!At, Limiter!Acquiring
<1> DEFINE Moves(h) == acq' = [acq EXCEPT ![w] = h]
                         /\ h \in Limiter!Acquiring /\ h.domain = acq[w].domain
           Answered == acq' = [acq EXCEPT ![w] = None]
<1>3. (\E h : Moves(h)) \/ Answered
  <2>1. ASSUME NEW s \in {"count", "expire", "rollback"}, NEW o \in BOOLEAN
        PROVE  LET h == [acq[w] EXCEPT !.step = s, !.over = o]
               IN  h \in Limiter!Acquiring /\ h.domain = acq[w].domain
    BY <1>2 DEF Limiter!Acquiring
  <2>2. CASE Limiter!TakeDelay(w)
    <3>1. acq' = [acq EXCEPT ![w] = [acq[w] EXCEPT !.step = "count"]]
      BY <2>2 DEF Limiter!TakeDelay
    <3>2. [acq[w] EXCEPT !.step = "count"] \in Limiter!Acquiring
          /\ [acq[w] EXCEPT !.step = "count"].domain = acq[w].domain
      BY <1>2 DEF Limiter!Acquiring
    <3> QED BY <3>1, <3>2
  <2>3. CASE Limiter!TooSoon(w)
    BY <2>3 DEF Limiter!TooSoon, Limiter!Refuse
  <2>4. CASE Limiter!Count(w)
    <3> DEFINE n == Limiter!Value(acq[w].domain) + 1
    <3>1. CASE n = 1
      <4> DEFINE h == [acq[w] EXCEPT !.step = "expire", !.over = (n > Cap)]
      <4>1. acq' = [acq EXCEPT ![w] = h]
        BY <2>4, <3>1 DEF Limiter!Count
      <4>2. h \in Limiter!Acquiring /\ h.domain = acq[w].domain
        <5>1. \A x, y : (x > y) \in BOOLEAN
          OBVIOUS
        <5> QED BY <2>1, <5>1
      <4> QED BY <4>1, <4>2
    <3>2. CASE n # 1 /\ n > Cap
      <4> DEFINE h == [acq[w] EXCEPT !.step = "rollback", !.over = TRUE]
      <4>1. acq' = [acq EXCEPT ![w] = h]
        BY <2>4, <3>2 DEF Limiter!Count
      <4>2. h \in Limiter!Acquiring /\ h.domain = acq[w].domain
        BY <2>1
      <4> QED BY <4>1, <4>2
    <3>3. CASE n # 1 /\ ~(n > Cap)
      BY <2>4, <3>3 DEF Limiter!Count, Limiter!GrantCounted, Limiter!Grant
    <3> QED BY <3>1, <3>2, <3>3
  <2>5. CASE Limiter!SetExpiry(w)
    <3>1. CASE acq[w].over
      <4>1. acq' = [acq EXCEPT ![w] = [acq[w] EXCEPT !.step = "rollback"]]
        BY <2>5, <3>1 DEF Limiter!SetExpiry
      <4>2. [acq[w] EXCEPT !.step = "rollback"] \in Limiter!Acquiring
            /\ [acq[w] EXCEPT !.step = "rollback"].domain = acq[w].domain
        BY <1>2 DEF Limiter!Acquiring
      <4> QED BY <4>1, <4>2
    <3>2. CASE ~acq[w].over
      BY <2>5, <3>2 DEF Limiter!SetExpiry, Limiter!GrantCounted, Limiter!Grant
    <3> QED BY <3>1, <3>2
  <2>6. CASE Limiter!RollBack(w)
    BY <2>6 DEF Limiter!RollBack, Limiter!Refuse
  <2>7. CASE Limiter!GrantUncapped(w)
    BY <2>7 DEF Limiter!GrantUncapped, Limiter!Grant
  <2> QED BY <2>2, <2>3, <2>4, <2>5, <2>6, <2>7 DEF Limiter!AcquireStep
<1>4. ASSUME NEW h, Moves(h) PROVE acq'[w] = h
  BY <1>1, <1>4
<1> QED BY <1>1, <1>2, <1>3, <1>4

(***************************************************************************)
(* Every job has its own grant                                             *)
(***************************************************************************)
LEMMA CountsAreNumbers ==
  ASSUME IsFiniteSet(jobs), NEW d
  PROVE  /\ IsFiniteSet(JobsOf(d)) /\ Cardinality(JobsOf(d)) \in Nat
         /\ IsFiniteSet(ReadyFor(d)) /\ Cardinality(ReadyFor(d)) \in Nat
<1>1. JobsOf(d) \subseteq jobs /\ ReadyFor(d) \subseteq Workers
  BY DEF JobsOf, ReadyFor
<1> QED BY <1>1, FS_Subset, FS_CardinalityType, PlannerAssumption

\* A step that adds neither a job nor a planner about to create one.
LEMMA NoneReadied ==
  ASSUME GrantInv, IsFiniteSet(jobs), jobs' = jobs, granted' = granted,
         \A w \in Workers : plan'[w] = "enqueue" => plan[w] = "enqueue" /\ held'[w] = held[w]
  PROVE  JobsAreGranted' /\ IsFiniteSet(jobs)'
<1> SUFFICES ASSUME NEW d \in Domains
             PROVE  Cardinality(JobsOf(d)') + Cardinality(ReadyFor(d)') <= granted'[d]
  BY DEF JobsAreGranted
<1>1. JobsOf(d)' = JobsOf(d) /\ ReadyFor(d)' \subseteq ReadyFor(d)
  BY DEF JobsOf, ReadyFor
<1>2. Cardinality(ReadyFor(d)') <= Cardinality(ReadyFor(d)) /\ IsFiniteSet(ReadyFor(d)')
  BY <1>1, FS_Subset, CountsAreNumbers
<1>3. Cardinality(ReadyFor(d)') \in Nat
  BY <1>2, FS_CardinalityType
<1>4. Cardinality(JobsOf(d)) + Cardinality(ReadyFor(d)) <= granted[d]
  BY DEF GrantInv, JobsAreGranted
<1>5. granted[d] \in Nat
  BY DEF GrantInv, TypeOK
<1> QED BY <1>1, <1>2, <1>3, <1>4, <1>5, CountsAreNumbers

LEMMA InitPlanInv == Init => PlanInv
<1> SUFFICES ASSUME Init PROVE PlanInv
  OBVIOUS
<1> USE DEF Init, FrontierInit, Limiter!PolitenessInit
<1>1. FrontierTypeOK
  <2>1. ASSUME NEW w \in Workers
        PROVE  {[url |-> u, depth |-> 0] : u \in Seeds[w]} \subseteq Item
    BY FrontierAssumption DEF Item
  <2>2. queue \in Seq(Item)
    OBVIOUS
  <2> QED BY <2>1, <2>2, FrontierAssumption DEF FrontierTypeOK
<1>2. TypeOK
  <2>1. failures \in 0..MaxFailures
    BY PlannerAssumption
  <2> QED BY <1>1, <2>1 DEF TypeOK
<1>3. StepsAgree
  BY DEF StepsAgree
<1>4. IsFiniteSet(jobs)
  BY FS_EmptySet
<1>5. JobsAreGranted
  <2> SUFFICES ASSUME NEW d \in Domains
               PROVE  Cardinality(JobsOf(d)) + Cardinality(ReadyFor(d)) <= granted[d]
    BY DEF JobsAreGranted
  <2>1. JobsOf(d) = {} /\ ReadyFor(d) = {}
    BY DEF JobsOf, ReadyFor
  <2> QED BY <2>1, FS_EmptySet
<1> QED BY <1>2, <1>3, <1>4, <1>5 DEF PlanInv, GrantInv

\* The frontier's operations keep its types.
LEMMA OfferTypes ==
  ASSUME FrontierTypeOK, NEW w \in Workers, NEW item \in todo[w], Offer(w, item)
  PROVE  FrontierTypeOK' /\ UNCHANGED <<held, taken>>
<1>1. item \in Item /\ item.url \in Urls /\ DomainOf[item.url] \in Domains
  BY FrontierAssumption DEF FrontierTypeOK, Item
<1>2. AllowedAfter(w, item) \in SUBSET Domains
  BY <1>1 DEF AllowedAfter, FrontierTypeOK
<1>3. visited' \in [Workers -> SUBSET Urls] /\ queue' \in Seq(Item)
  <2>1. CASE Admits(w, item)
    <3>1. visited' = [visited EXCEPT ![w] = @ \cup {item.url}] /\ queue' = Append(queue, item)
      BY <2>1 DEF Offer
    <3>2. Append(queue, item) \in Seq(Item)
      BY <1>1, AppendProperties DEF FrontierTypeOK
    <3> QED BY <1>1, <3>1, <3>2 DEF FrontierTypeOK
  <2>2. CASE ~Admits(w, item)
    BY <2>2 DEF Offer, FrontierTypeOK
  <2> QED BY <2>1, <2>2
<1> QED BY <1>2, <1>3 DEF Offer, FrontierTypeOK

LEMMA TakeTypes ==
  ASSUME FrontierTypeOK, NEW w \in Workers, Take(w)
  PROVE  FrontierTypeOK'
<1>1. Head(queue) \in Item /\ Tail(queue) \in Seq(Item)
  BY HeadTailProperties DEF Take, FrontierTypeOK
<1>2. Head(queue).url \in Urls
  BY <1>1 DEF Item
<1> QED BY <1>1, <1>2 DEF Take, FrontierTypeOK

LEMMA ConcludeTypes ==
  ASSUME GrantInv, NEW w \in Workers, held[w] # None, NEW decision \in Outcomes,
         Conclude(w, decision)
  PROVE  /\ FrontierTypeOK'
         /\ plan' \in [Workers -> {"idle", "robots", "acquire", "enqueue", "failed"}]
         /\ outcome' \in [Urls -> Outcomes \cup {None}]
BY ItemHeld DEF Conclude, GrantInv, TypeOK, FrontierTypeOK

LEMMA AddSeedKeeps ==
  ASSUME PlanInv, NEW w \in Workers, AddSeed(w)
  PROVE  PlanInv'
<1>1. FrontierTypeOK' /\ UNCHANGED <<held, taken>>
  BY OfferTypes DEF AddSeed, PlanInv, GrantInv, TypeOK
<1>2. UNCHANGED <<planner, limiter>>
  BY DEF AddSeed
<1>3. TypeOK' /\ StepsAgree'
  BY <1>1, <1>2 DEF planner, limiter, PlanInv, GrantInv, TypeOK, StepsAgree
<1>4. JobsAreGranted' /\ IsFiniteSet(jobs)'
  BY <1>1, <1>2, NoneReadied DEF planner, PlanInv
<1> QED BY <1>3, <1>4 DEF PlanInv, GrantInv

LEMMA TakeItemKeeps ==
  ASSUME PlanInv, NEW w \in Workers, TakeItem(w)
  PROVE  PlanInv'
<1>1. FrontierTypeOK'
  BY TakeTypes DEF TakeItem, PlanInv, GrantInv, TypeOK
<1>2. plan' = [plan EXCEPT ![w] = "robots"] /\ held' = [held EXCEPT ![w] = Head(queue)]
      /\ UNCHANGED <<jobs, outcome, granted, failures, acq>>
  BY DEF TakeItem, Take, limiter
<1>3. TypeOK'
  BY <1>1, <1>2 DEF PlanInv, GrantInv, TypeOK
<1>4. Head(queue) # None
  <2>1. Head(queue) \in Item
    BY HeadTailProperties DEF TakeItem, Take, PlanInv, GrantInv, TypeOK, FrontierTypeOK
  <2> QED BY <2>1, NoItem
<1>5. StepsAgree'
  BY <1>2, <1>4 DEF TakeItem, PlanInv, GrantInv, TypeOK, FrontierTypeOK, StepsAgree
<1>6. JobsAreGranted' /\ IsFiniteSet(jobs)'
  BY <1>2, NoneReadied DEF PlanInv, GrantInv, TypeOK, FrontierTypeOK
<1> QED BY <1>3, <1>5, <1>6 DEF PlanInv, GrantInv

LEMMA RefusedKeeps ==
  ASSUME PlanInv, NEW w \in Workers, RefusedByRobots(w)
  PROVE  PlanInv'
<1>1. PICK decision \in Refusals : Conclude(w, decision)
  BY DEF RefusedByRobots
<1>2. held[w] # None /\ plan[w] = "robots"
      /\ UNCHANGED <<jobs, granted, failures, acq>>
  BY DEF RefusedByRobots, limiter, PlanInv, GrantInv, StepsAgree
<1>3. TypeOK'
  BY <1>1, <1>2, ConcludeTypes DEF Outcomes, PlanInv, GrantInv, TypeOK
<1>4. StepsAgree'
  BY <1>1, <1>2 DEF Conclude, PlanInv, GrantInv, TypeOK, FrontierTypeOK, StepsAgree
<1>5. JobsAreGranted' /\ IsFiniteSet(jobs)'
  BY <1>1, <1>2, NoneReadied DEF Conclude, PlanInv, GrantInv, TypeOK, FrontierTypeOK
<1> QED BY <1>3, <1>4, <1>5 DEF PlanInv, GrantInv

LEMMA AllowedKeeps ==
  ASSUME PlanInv, NEW w \in Workers, AllowedByRobots(w)
  PROVE  PlanInv'
<1>1. PICK asked \in RobotsDelays :
        Limiter!Enter(w, DomainOf[held[w].url],
                      [delay |-> IF asked > DefaultDelay THEN asked ELSE DefaultDelay,
                       capped |-> w \in CappedPlanners])
  BY DEF AllowedByRobots
<1> DEFINE delay == IF asked > DefaultDelay THEN asked ELSE DefaultDelay
           capped == w \in CappedPlanners
           entry == [domain |-> DomainOf[held[w].url], delay |-> delay, capped |-> capped,
                     step |-> IF delay > 0 THEN "delay" ELSE "count", over |-> FALSE]
<1>2. held[w] # None /\ plan[w] = "robots" /\ plan' = [plan EXCEPT ![w] = "acquire"]
      /\ UNCHANGED <<frontier, jobs, outcome, granted, failures>>
  BY DEF AllowedByRobots, PlanInv, GrantInv, StepsAgree
<1>3. acq' = [acq EXCEPT ![w] = entry]
  BY <1>1 DEF Limiter!Enter
<1>4. entry \in Limiter!Acquiring
  <2>1. delay \in Nat /\ capped \in BOOLEAN /\ DomainOf[held[w].url] \in Domains
    BY <1>2, ItemHeld, PlannerAssumption DEF PlanInv
  <2> QED BY <2>1 DEF Limiter!Acquiring
<1>5. entry # None /\ entry.domain = DomainOf[held[w].url]
  BY <1>4, NoOutcome
<1> HIDE DEF entry
<1>6. FrontierTypeOK'
  BY <1>2 DEF frontier, PlanInv, GrantInv, TypeOK, FrontierTypeOK
<1>7. TypeOK'
  BY <1>2, <1>3, <1>4, <1>6 DEF PlanInv, GrantInv, TypeOK
<1>8. StepsAgree'
  BY <1>2, <1>3, <1>5 DEF frontier, PlanInv, GrantInv, TypeOK, FrontierTypeOK, StepsAgree
<1>9. JobsAreGranted' /\ IsFiniteSet(jobs)'
  BY <1>2, NoneReadied DEF frontier, PlanInv, GrantInv, TypeOK
<1> QED BY <1>7, <1>8, <1>9 DEF PlanInv, GrantInv

\* A granted item counts one more grant and one more planner about to enqueue.
LEMMA AcquireKeeps ==
  ASSUME PlanInv, NEW w \in Workers, Acquire(w)
  PROVE  PlanInv'
<1>1. /\ plan[w] = "acquire" /\ held[w] # None
      /\ acq' \in [Workers -> Limiter!Acquiring \cup {None}]
      /\ acq' = [acq EXCEPT ![w] = acq'[w]]
      /\ acq'[w] # None => acq'[w].domain = DomainOf[held[w].url]
  BY LimiterStep DEF Acquire, PlanInv, GrantInv, StepsAgree
<1>2. CASE acq'[w] # None /\ UNCHANGED <<frontier, planner>>
  <2>1. TypeOK' /\ StepsAgree'
    BY <1>1, <1>2 DEF frontier, planner, PlanInv, GrantInv, TypeOK, FrontierTypeOK, StepsAgree
  <2>2. JobsAreGranted' /\ IsFiniteSet(jobs)'
    BY <1>2, NoneReadied DEF frontier, planner, PlanInv
  <2> QED BY <2>1, <2>2 DEF PlanInv, GrantInv
<1>3. CASE /\ acq'[w] = None /\ ~Granted(w)
           /\ Conclude(w, "deferred_politeness") /\ UNCHANGED <<jobs, granted, failures>>
  <2>1. TypeOK'
    BY <1>1, <1>3, ConcludeTypes DEF Outcomes, PlanInv, GrantInv, TypeOK
  <2>2. StepsAgree'
    BY <1>1, <1>3 DEF Conclude, PlanInv, GrantInv, TypeOK, FrontierTypeOK, StepsAgree
  <2>3. JobsAreGranted' /\ IsFiniteSet(jobs)'
    BY <1>1, <1>3, NoneReadied DEF Conclude, PlanInv, GrantInv, TypeOK, FrontierTypeOK
  <2> QED BY <2>1, <2>2, <2>3 DEF PlanInv, GrantInv
<1>4. CASE /\ acq'[w] = None
           /\ plan' = [plan EXCEPT ![w] = "enqueue"]
           /\ granted' = [granted EXCEPT ![DomainOf[held[w].url]] = @ + 1]
           /\ UNCHANGED <<frontier, jobs, outcome, failures>>
  <2> DEFINE e == DomainOf[held[w].url]
  <2>1. e \in Domains
    BY <1>1, ItemHeld DEF PlanInv
  <2>2. TypeOK' /\ StepsAgree'
    <3>1. UNCHANGED <<queue, visited, allowed, todo, held, taken, jobs, outcome, failures>>
      BY <1>4 DEF frontier
    <3>2. TypeOK'
      BY <1>1, <1>4, <2>1, <3>1 DEF PlanInv, GrantInv, TypeOK, FrontierTypeOK
    <3>3. StepsAgree'
      BY <1>1, <1>4, <3>1 DEF PlanInv, GrantInv, TypeOK, FrontierTypeOK, StepsAgree
    <3> QED BY <3>2, <3>3
  <2>3. IsFiniteSet(jobs)'
    BY <1>4 DEF PlanInv
  <2>4. ASSUME NEW d \in Domains
        PROVE  Cardinality(JobsOf(d)') + Cardinality(ReadyFor(d)') <= granted'[d]
    <3>1. JobsOf(d)' = JobsOf(d)
      BY <1>4 DEF JobsOf
    <3>2. ReadyFor(d)' = IF d = e THEN ReadyFor(d) \cup {w} ELSE ReadyFor(d)
      BY <1>1, <1>4 DEF ReadyFor, frontier, PlanInv, GrantInv, TypeOK
    <3>3. granted'[d] = IF d = e THEN granted[d] + 1 ELSE granted[d]
      BY <1>4, <2>1 DEF PlanInv, GrantInv, TypeOK
    <3>4. w \notin ReadyFor(d)
      BY <1>1 DEF ReadyFor
    <3>5. Cardinality(ReadyFor(d) \cup {w}) = Cardinality(ReadyFor(d)) + 1
      BY <3>4, FS_AddElement, CountsAreNumbers DEF PlanInv
    <3>6. Cardinality(JobsOf(d)) + Cardinality(ReadyFor(d)) <= granted[d] /\ granted[d] \in Nat
      BY DEF PlanInv, GrantInv, JobsAreGranted, TypeOK
    <3>7. Cardinality(JobsOf(d)) \in Nat /\ Cardinality(ReadyFor(d)) \in Nat
      BY CountsAreNumbers DEF PlanInv
    <3> HIDE DEF e
    <3> QED BY <3>1, <3>2, <3>3, <3>5, <3>6, <3>7
  <2> QED BY <2>2, <2>3, <2>4 DEF PlanInv, GrantInv, JobsAreGranted
<1> QED BY <1>2, <1>3, <1>4 DEF Acquire

\* A job takes the place of the planner that was about to create it.
LEMMA JobStored ==
  ASSUME PlanInv, NEW w \in Workers, plan[w] = "enqueue", NEW step, step # "enqueue",
         plan' = [plan EXCEPT ![w] = step], held' = [held EXCEPT ![w] = None],
         jobs' = jobs \cup {held[w].url}, granted' = granted
  PROVE  JobsAreGranted' /\ IsFiniteSet(jobs)'
<1> DEFINE u == held[w].url
<1>1. IsFiniteSet(jobs)'
  BY FS_AddElement DEF PlanInv
<1>2. ASSUME NEW d \in Domains
      PROVE  Cardinality(JobsOf(d)') + Cardinality(ReadyFor(d)') <= granted'[d]
  <2>1. plan \in [Workers -> {"idle", "robots", "acquire", "enqueue", "failed"}]
        /\ held \in [Workers -> Item \cup {None}]
    BY DEF PlanInv, GrantInv, TypeOK, FrontierTypeOK
  <2>2. Cardinality(JobsOf(d)) + Cardinality(ReadyFor(d)) <= granted[d] /\ granted[d] \in Nat
    BY DEF PlanInv, GrantInv, JobsAreGranted, TypeOK
  <2>3. /\ IsFiniteSet(JobsOf(d)) /\ Cardinality(JobsOf(d)) \in Nat
        /\ IsFiniteSet(ReadyFor(d)) /\ Cardinality(ReadyFor(d)) \in Nat
    BY CountsAreNumbers DEF PlanInv
  <2>4. CASE DomainOf[u] # d
    <3>1. JobsOf(d)' = JobsOf(d) /\ ReadyFor(d)' = ReadyFor(d)
      BY <2>1, <2>4 DEF JobsOf, ReadyFor
    <3> QED BY <2>2, <3>1
  <2>5. CASE DomainOf[u] = d
    <3>1. JobsOf(d)' = JobsOf(d) \cup {u}
      BY <2>5 DEF JobsOf
    <3>2. ReadyFor(d)' = ReadyFor(d) \ {w} /\ w \in ReadyFor(d)
      BY <2>1, <2>5 DEF ReadyFor
    <3> HIDE DEF u
    <3>3. Cardinality(JobsOf(d) \cup {u}) <= Cardinality(JobsOf(d)) + 1
          /\ Cardinality(JobsOf(d) \cup {u}) \in Nat
      <4>1. Cardinality(JobsOf(d) \cup {u}) = Cardinality(JobsOf(d))
              \/ Cardinality(JobsOf(d) \cup {u}) = Cardinality(JobsOf(d)) + 1
        BY <2>3, FS_AddElement
      <4> QED BY <2>3, <4>1
    <3>4. Cardinality(ReadyFor(d) \ {w}) = Cardinality(ReadyFor(d)) - 1
      BY <2>3, <3>2, FS_RemoveElement
    <3> QED BY <2>2, <2>3, <3>1, <3>2, <3>3, <3>4
  <2> QED BY <2>4, <2>5
<1> QED BY <1>1, <1>2 DEF JobsAreGranted

LEMMA EnqueueKeeps ==
  ASSUME PlanInv, NEW w \in Workers, Enqueue(w)
  PROVE  PlanInv'
<1> DEFINE u == held[w].url
           decision == IF u \in jobs THEN "duplicate_job" ELSE "enqueued"
<1>1. plan[w] = "enqueue" /\ held[w] # None /\ decision \in Outcomes
      /\ Conclude(w, decision) /\ jobs' = jobs \cup {u}
      /\ UNCHANGED <<granted, failures, acq>>
  BY DEF Enqueue, limiter, Outcomes, PlanInv, GrantInv, StepsAgree
<1>2. u \in Urls /\ DomainOf[u] \in Domains
  BY <1>1, ItemHeld DEF PlanInv
<1>3. TypeOK'
  <2> HIDE DEF decision
  <2> QED BY <1>1, <1>2, ConcludeTypes DEF PlanInv, GrantInv, TypeOK
<1>4. StepsAgree'
  BY <1>1 DEF Conclude, PlanInv, GrantInv, TypeOK, FrontierTypeOK, StepsAgree
<1>5. JobsAreGranted' /\ IsFiniteSet(jobs)'
  BY <1>1, JobStored DEF Conclude
<1> QED BY <1>3, <1>4, <1>5 DEF PlanInv, GrantInv

\* A planner that fails takes its item and its call of the limiter with it; a
\* job it stored counts.
LEMMA FailKeeps ==
  ASSUME PlanInv, NEW w \in Workers, Fail(w)
  PROVE  PlanInv'
<1>1. /\ held[w] # None /\ plan' = [plan EXCEPT ![w] = "failed"]
      /\ held' = [held EXCEPT ![w] = None]
      /\ UNCHANGED <<queue, visited, allowed, todo, taken, outcome, granted>>
  BY DEF Fail, PlanInv, GrantInv, StepsAgree
<1>2. failures' \in 0..MaxFailures
  BY PlannerAssumption DEF Fail, PlanInv, GrantInv, TypeOK
<1>3. acq' = [acq EXCEPT ![w] = None]
  BY DEF Fail, limiter, Limiter!Dies, PlanInv, GrantInv, TypeOK, StepsAgree
<1>4. \/ jobs' = jobs
      \/ plan[w] = "enqueue" /\ jobs' = jobs \cup {held[w].url}
  BY DEF Fail
<1>5. jobs' \subseteq Urls
  BY <1>1, <1>4, ItemHeld DEF PlanInv, GrantInv, TypeOK
<1>6. TypeOK' /\ StepsAgree'
  BY <1>1, <1>2, <1>3, <1>5 DEF PlanInv, GrantInv, TypeOK, FrontierTypeOK, StepsAgree
<1>7. JobsAreGranted' /\ IsFiniteSet(jobs)'
  <2>1. CASE jobs' = jobs
    BY <1>1, <2>1, NoneReadied DEF PlanInv, GrantInv, TypeOK, FrontierTypeOK
  <2>2. CASE plan[w] = "enqueue" /\ jobs' = jobs \cup {held[w].url}
    BY <1>1, <2>2, JobStored
  <2> QED BY <1>4, <2>1, <2>2
<1> QED BY <1>6, <1>7 DEF PlanInv, GrantInv

LEMMA TimeKeeps ==
  ASSUME PlanInv, Time
  PROVE  PlanInv'
<1>1. UNCHANGED <<frontier, planner, acq>>
  BY DEF Time, Limiter!Tick
<1>2. TypeOK' /\ StepsAgree'
  BY <1>1 DEF frontier, planner, PlanInv, GrantInv, TypeOK, FrontierTypeOK, StepsAgree
<1>3. JobsAreGranted' /\ IsFiniteSet(jobs)'
  BY <1>1, NoneReadied DEF frontier, planner, PlanInv
<1> QED BY <1>2, <1>3 DEF PlanInv, GrantInv

LEMMA PlanInvariant == Spec => []PlanInv
<1>1. PlanInv /\ [Next]_vars => PlanInv'
  <2> SUFFICES ASSUME PlanInv, [Next]_vars PROVE PlanInv'
    OBVIOUS
  <2>1. CASE UNCHANGED vars
    BY <2>1 DEF vars, frontier, planner, limiter, PlanInv, GrantInv, TypeOK, FrontierTypeOK,
                StepsAgree, JobsAreGranted, JobsOf, ReadyFor
  <2>2. ASSUME NEW w \in Workers, PlanStep(w) PROVE PlanInv'
    BY <2>2, AddSeedKeeps, TakeItemKeeps, RefusedKeeps, AllowedKeeps, AcquireKeeps, EnqueueKeeps
       DEF PlanStep
  <2> QED BY <2>1, <2>2, FailKeeps, TimeKeeps DEF Next
<1> QED BY InitPlanInv, <1>1, PTL DEF Spec

LEMMA GrantInvariant == Spec => []GrantInv
<1>1. PlanInv => GrantInv
  BY DEF PlanInv
<1> QED BY PlanInvariant, <1>1, PTL

(***************************************************************************)
(* A page is taken at most once for each frontier that accepted it         *)
(***************************************************************************)
Acceptors(u) == {w \in Workers : u \in visited[w]}

\* What the counts in OncePerFrontier are.
LEMMA FrontierCounts ==
  ASSUME FrontierTypeOK, NEW u \in Urls
  PROVE  /\ IsFiniteSet(Waiters(u)) /\ Cardinality(Waiters(u)) \in Nat
         /\ IsFiniteSet(Acceptors(u)) /\ Cardinality(Acceptors(u)) \in Nat
         /\ taken[u] \in Nat
<1>1. Waiters(u) \subseteq 1..Len(queue) /\ Len(queue) \in Nat
  BY LenProperties DEF Waiters, FrontierTypeOK
<1>2. IsFiniteSet(1..Len(queue))
  BY <1>1, FS_Interval
<1>3. Acceptors(u) \subseteq Workers
  BY DEF Acceptors
<1> QED BY <1>1, <1>2, <1>3, FS_Subset, FS_CardinalityType, PlannerAssumption DEF FrontierTypeOK

LEMMA CountsStay ==
  ASSUME OncePerFrontier, UNCHANGED <<queue, visited, taken>>
  PROVE  OncePerFrontier'
BY DEF OncePerFrontier, Waiters

\* A frontier that accepts a page has not accepted it before and appends one item.
LEMMA OfferCounts ==
  ASSUME FrontierTypeOK, OncePerFrontier, NEW w \in Workers, NEW item \in todo[w], Offer(w, item)
  PROVE  OncePerFrontier'
<1>1. CASE ~Admits(w, item)
  BY <1>1, CountsStay DEF Offer
<1>2. CASE Admits(w, item)
  <2>1. /\ visited' = [visited EXCEPT ![w] = @ \cup {item.url}] /\ item.url \notin visited[w]
        /\ queue' = Append(queue, item) /\ taken' = taken
    BY <1>2 DEF Offer, Admits
  <2>2. item \in Item /\ queue \in Seq(Item) /\ visited \in [Workers -> SUBSET Urls]
    BY DEF FrontierTypeOK
  <2>3. /\ Len(queue) \in Nat /\ DOMAIN queue = 1..Len(queue)
        /\ DOMAIN queue' = 1..(Len(queue) + 1) /\ queue'[Len(queue) + 1] = item
        /\ \A i \in 1..Len(queue) : queue'[i] = queue[i]
    BY <2>1, <2>2, AppendProperties, LenProperties
  <2> SUFFICES ASSUME NEW u \in Urls
               PROVE  taken'[u] + Cardinality(Waiters(u)') = Cardinality(Acceptors(u)')
    BY DEF OncePerFrontier, Acceptors
  <2>4. taken[u] + Cardinality(Waiters(u)) = Cardinality(Acceptors(u))
    BY DEF OncePerFrontier, Acceptors
  <2>5. CASE u # item.url
    <3>1. Waiters(u)' = Waiters(u)
      BY <2>3, <2>5 DEF Waiters
    <3>2. Acceptors(u)' = Acceptors(u)
      BY <2>1, <2>2, <2>5 DEF Acceptors
    <3> QED BY <2>1, <2>4, <3>1, <3>2
  <2>6. CASE u = item.url
    <3>1. Waiters(u)' = Waiters(u) \cup {Len(queue) + 1} /\ Len(queue) + 1 \notin Waiters(u)
      BY <2>3, <2>6 DEF Waiters
    <3>2. Acceptors(u)' = Acceptors(u) \cup {w} /\ w \notin Acceptors(u)
      BY <2>1, <2>2, <2>6 DEF Acceptors
    <3>3. Cardinality(Waiters(u)') = Cardinality(Waiters(u)) + 1
      BY <3>1, FrontierCounts, FS_AddElement
    <3>4. Cardinality(Acceptors(u)') = Cardinality(Acceptors(u)) + 1
      BY <3>2, FrontierCounts, FS_AddElement
    <3> QED BY <2>1, <2>4, <3>3, <3>4, FrontierCounts
  <2> QED BY <2>5, <2>6
<1> QED BY <1>1, <1>2

\* The item taken is one place of its page fewer and one time more taken.
LEMMA TakeCounts ==
  ASSUME FrontierTypeOK, OncePerFrontier, NEW w \in Workers, Take(w)
  PROVE  OncePerFrontier'
<1> DEFINE page == Head(queue).url
<1>1. /\ queue \in Seq(Item) /\ queue # <<>> /\ queue' = Tail(queue) /\ visited' = visited
      /\ taken \in [Urls -> Nat] /\ taken' = [taken EXCEPT ![page] = @ + 1]
  BY DEF Take, FrontierTypeOK
<1>2. /\ Len(queue) \in Nat \ {0} /\ page = queue[1].url
      /\ DOMAIN queue = 1..Len(queue) /\ DOMAIN queue' = 1..(Len(queue) - 1)
      /\ \A i \in 1..(Len(queue) - 1) : queue'[i] = queue[i + 1]
  BY <1>1, HeadTailProperties, EmptySeq
<1> HIDE DEF page
<1> SUFFICES ASSUME NEW u \in Urls
             PROVE  taken'[u] + Cardinality(Waiters(u)') = Cardinality(Acceptors(u)')
  BY DEF OncePerFrontier, Acceptors
<1>3. taken[u] + Cardinality(Waiters(u)) = Cardinality(Acceptors(u)) /\ Acceptors(u)' = Acceptors(u)
  BY <1>1 DEF OncePerFrontier, Acceptors
<1>4. IsFiniteSet(Waiters(u) \ {1})
      /\ Cardinality(Waiters(u) \ {1}) =
           IF u = page THEN Cardinality(Waiters(u)) - 1 ELSE Cardinality(Waiters(u))
  <2>1. 1 \in Waiters(u) <=> u = page
    BY <1>2 DEF Waiters
  <2> QED BY <2>1, FrontierCounts, FS_RemoveElement
<1>5. ExistsBijection(Waiters(u) \ {1}, Waiters(u)')
  <2> DEFINE S == Waiters(u) \ {1}
             T == Waiters(u)'
             shift == [i \in S |-> i - 1]
  <2>1. S \subseteq 2..Len(queue) /\ T \subseteq 1..(Len(queue) - 1)
    BY <1>2 DEF Waiters
  <2>2. \A i \in S : i - 1 \in T
    BY <1>2, <2>1 DEF Waiters
  <2>3. \A j \in T : j + 1 \in S /\ (j + 1) - 1 = j
    BY <1>2, <2>1 DEF Waiters
  <2>4. \A i, j \in S : i - 1 = j - 1 => i = j
    BY <1>2, <2>1
  <2> HIDE DEF S, T
  <2>5. shift \in Bijection(S, T)
    <3>1. shift \in [S -> T]
      BY <2>2
    <3>2. \A i, j \in S : shift[i] = shift[j] => i = j
      BY <2>4
    <3>3. \A j \in T : \E i \in S : shift[i] = j
      BY <2>3
    <3> HIDE DEF shift
    <3> QED BY <3>1, <3>2, <3>3 DEF Bijection, Injection, Surjection, IsInjective
  <2>6. ExistsBijection(S, T)
    BY <2>5 DEF ExistsBijection
  <2> QED BY <2>6 DEF S, T
<1>6. Cardinality(Waiters(u)') = Cardinality(Waiters(u) \ {1})
  BY <1>4, <1>5, FS_Bijection
<1>7. taken'[u] = IF u = page THEN taken[u] + 1 ELSE taken[u]
  BY <1>1
<1> QED BY <1>3, <1>4, <1>6, <1>7, FrontierCounts

LEMMA CountsInvariant == Spec => []OncePerFrontier
<1>1. Init => OncePerFrontier
  <2> SUFFICES ASSUME Init, NEW u \in Urls
               PROVE  taken[u] + Cardinality(Waiters(u)) = Cardinality(Acceptors(u))
    BY DEF OncePerFrontier, Acceptors
  <2>1. taken[u] = 0 /\ Waiters(u) = {} /\ Acceptors(u) = {}
    BY DEF Init, FrontierInit, Waiters, Acceptors
  <2> QED BY <2>1, FS_EmptySet
<1>2. GrantInv /\ OncePerFrontier /\ [Next]_vars => OncePerFrontier'
  <2> SUFFICES ASSUME GrantInv, OncePerFrontier, [Next]_vars PROVE OncePerFrontier'
    OBVIOUS
  <2>1. FrontierTypeOK
    BY DEF GrantInv, TypeOK
  <2>2. CASE UNCHANGED <<queue, visited, taken>>
    BY <2>2, CountsStay
  <2>3. ASSUME NEW w \in Workers, AddSeed(w) PROVE OncePerFrontier'
    BY <2>1, <2>3, OfferCounts DEF AddSeed
  <2>4. ASSUME NEW w \in Workers, TakeItem(w) PROVE OncePerFrontier'
    BY <2>1, <2>4, TakeCounts DEF TakeItem
  <2>5. ASSUME NEW w \in Workers,
               \/ RefusedByRobots(w) \/ AllowedByRobots(w) \/ Acquire(w) \/ Enqueue(w) \/ Fail(w)
        PROVE  UNCHANGED <<queue, visited, taken>>
    BY <2>5 DEF RefusedByRobots, AllowedByRobots, Acquire, Enqueue, Fail, Conclude, frontier
  <2> QED BY <2>2, <2>3, <2>4, <2>5 DEF Next, Time, PlanStep, vars, frontier
<1> QED BY <1>1, <1>2, GrantInvariant, PTL DEF Spec

\* However many planners share the limiter and the queue, fail or are deferred:
\* each job and each job about to be created has a grant of its own, a planner's
\* step, its item and its call of the limiter agree, and a page is taken as
\* often as frontiers accepted it, less the items that wait.
THEOREM JobsHaveGrants == Spec => []PlannerInv
<1>1. GrantInv /\ OncePerFrontier => PlannerInv
  BY DEF GrantInv, PlannerInv
<1> QED BY GrantInvariant, CountsInvariant, <1>1, PTL

(***************************************************************************)
(* The planners' steps are those of the ledger                             *)
(***************************************************************************)
Queued == {queue[i].url : i \in 1..Len(queue)}
Holders == {v \in Workers : held[v] # None}
InHand == {held[w].url : w \in Holders}

LEMMA WaitingIs == Waiting = (Queued \cup InHand) \ Decided
BY DEF Waiting, Queued, InHand, Holders

\* A planner that puts its item down leaves those of the others.
LEMMA PutDown ==
  ASSUME GrantInv, NEW w \in Workers, held[w] # None, held' = [held EXCEPT ![w] = None]
  PROVE  InHand = InHand' \cup {held[w].url}
<1>1. held \in [Workers -> Item \cup {None}]
  BY DEF GrantInv, TypeOK, FrontierTypeOK
<1>2. Holders' = Holders \ {w} /\ w \in Holders
  BY <1>1 DEF Holders
<1>3. \A v \in Holders' : held'[v] = held[v]
  BY <1>1, <1>2 DEF Holders
<1>4. InHand' = {held[v].url : v \in Holders \ {w}}
  BY <1>2, <1>3 DEF InHand
<1> QED BY <1>2, <1>4 DEF InHand

LEMMA ConcludeDecides ==
  ASSUME GrantInv, NEW w \in Workers, held[w] # None, NEW decision \in Outcomes,
         Conclude(w, decision), failures' = failures
  PROVE  [Ledger!Next]_Ledger!ledger
<1> DEFINE u == held[w].url
<1>1. u \in Urls
  BY ItemHeld
<1>2. InHand = InHand' \cup {u}
  BY PutDown DEF Conclude
<1>3. Queued' = Queued
  BY DEF Conclude, Queued
<1>4. Decided' = Decided \cup {u}
  <2>1. outcome' = [outcome EXCEPT ![u] = decision] /\ decision # None
    BY NoOutcome DEF Conclude
  <2>2. outcome \in [Urls -> Outcomes \cup {None}]
    BY DEF GrantInv, TypeOK
  <2> HIDE DEF u
  <2> QED BY <1>1, <2>1, <2>2 DEF Decided
<1> HIDE DEF u
<1>5. Waiting' = (Queued' \cup InHand') \ Decided'
  BY DEF Waiting, Queued, InHand, Holders
<1>6. Waiting' = Waiting \ {u}
  BY <1>2, <1>3, <1>4, <1>5, WaitingIs
<1>7. CASE u \in Decided
  <2>1. Waiting' = Waiting /\ Decided' = Decided
    BY <1>4, <1>6, <1>7, WaitingIs
  <2> QED BY <2>1 DEF Ledger!ledger
<1>8. CASE u \notin Decided
  <2>1. u \in Waiting
    BY <1>2, <1>8, WaitingIs
  <2>2. Ledger!Decide(u)
    BY <1>4, <1>6, <2>1 DEF Ledger!Decide
  <2> QED BY <1>1, <2>2 DEF Ledger!Next
<1> QED BY <1>7, <1>8

\* What the ledger sees of a step that moves no item.
LEMMA LedgerStutters ==
  ASSUME UNCHANGED <<queue, held, outcome, failures>>
  PROVE  UNCHANGED Ledger!ledger
BY DEF Ledger!ledger, Waiting, Decided

LEMMA SeedIsAccepted ==
  ASSUME GrantInv, NEW w \in Workers, AddSeed(w)
  PROVE  [Ledger!Next]_Ledger!ledger
<1>1. PICK item \in todo[w] : Offer(w, item)
  BY DEF AddSeed
<1>2. UNCHANGED <<held, outcome, failures>>
  BY <1>1 DEF AddSeed, Offer, planner
<1>3. CASE ~Admits(w, item)
  BY <1>1, <1>2, <1>3, LedgerStutters DEF Offer
<1>4. CASE Admits(w, item)
  <2> DEFINE u == item.url
  <2>1. item \in Item /\ u \in Urls /\ queue' = Append(queue, item) /\ queue \in Seq(Item)
    BY <1>1, <1>4 DEF Offer, GrantInv, TypeOK, FrontierTypeOK, Item
  <2>2. Queued' = Queued \cup {u}
    <3>1. Len(queue) \in Nat /\ Len(queue') = Len(queue) + 1 /\ queue'[Len(queue) + 1] = item
          /\ \A i \in 1..Len(queue) : queue'[i] = queue[i]
      BY <2>1, AppendProperties, LenProperties
    <3>2. 1..Len(queue') = 1..Len(queue) \cup {Len(queue) + 1}
      BY <3>1
    <3> QED BY <3>1, <3>2 DEF Queued
  <2>3. Decided' = Decided /\ InHand' = InHand
    BY <1>2 DEF Decided, InHand, Holders
  <2> HIDE DEF u
  <2>4. Waiting' = (Queued' \cup InHand') \ Decided'
    BY DEF Waiting, Queued, InHand, Holders
  <2>5. CASE u \in Waiting \cup Decided
    <3>1. Waiting' = Waiting
      BY <2>2, <2>3, <2>4, <2>5, WaitingIs
    <3> QED BY <1>2, <2>3, <3>1 DEF Ledger!ledger
  <2>6. CASE u \notin Waiting \cup Decided
    <3>1. Waiting' = Waiting \cup {u}
      BY <2>2, <2>3, <2>4, <2>6, WaitingIs
    <3> QED BY <1>2, <2>1, <2>3, <2>6, <3>1 DEF Ledger!Next, Ledger!Accept
  <2> QED BY <2>5, <2>6
<1> QED BY <1>3, <1>4

\* The item goes from the queue into the planner's hands.
LEMMA ItemStaysWaiting ==
  ASSUME GrantInv, NEW w \in Workers, TakeItem(w)
  PROVE  UNCHANGED Ledger!ledger
<1> DEFINE head == Head(queue)
<1>1. /\ queue \in Seq(Item) /\ queue # <<>> /\ queue' = Tail(queue) /\ held[w] = None
      /\ held' = [held EXCEPT ![w] = head] /\ held \in [Workers -> Item \cup {None}]
      /\ UNCHANGED <<outcome, failures>>
  BY DEF TakeItem, Take, GrantInv, TypeOK, FrontierTypeOK
<1>2. /\ Len(queue) \in Nat \ {0} /\ head = queue[1] /\ head \in Item
      /\ Len(queue') = Len(queue) - 1
      /\ \A i \in 1..(Len(queue) - 1) : queue'[i] = queue[i + 1]
  BY <1>1, HeadTailProperties, EmptySeq
<1>3. Queued = Queued' \cup {head.url}
  <2>1. \A i \in 1..Len(queue) : i = 1 \/ (i - 1 \in 1..(Len(queue) - 1) /\ i - 1 + 1 = i)
    BY <1>2
  <2>2. \A i \in 1..(Len(queue) - 1) : i + 1 \in 1..Len(queue)
    BY <1>2
  <2>3. 1 \in 1..Len(queue)
    BY <1>2
  <2>4. Queued \subseteq Queued' \cup {head.url}
    <3> SUFFICES ASSUME NEW i \in 1..Len(queue)
                 PROVE  queue[i].url \in Queued' \cup {head.url}
      BY DEF Queued
    <3>1. CASE i = 1
      BY <1>2, <3>1
    <3>2. CASE i # 1
      <4>1. i - 1 \in 1..Len(queue') /\ queue'[i - 1] = queue[i]
        BY <1>2, <2>1, <3>2
      <4> QED BY <4>1 DEF Queued
    <3> QED BY <3>1, <3>2
  <2>5. Queued' \cup {head.url} \subseteq Queued
    <3>1. \A i \in 1..Len(queue') : i + 1 \in 1..Len(queue) /\ queue'[i] = queue[i + 1]
      BY <1>2, <2>2
    <3> QED BY <1>2, <2>3, <3>1 DEF Queued
  <2> QED BY <2>4, <2>5
<1> HIDE DEF head
<1>4. InHand' = InHand \cup {head.url}
  <2>1. head # None
    BY <1>2, NoItem
  <2>2. Holders' = Holders \cup {w} /\ w \notin Holders
    BY <1>1, <2>1 DEF Holders
  <2>3. held'[w] = head /\ \A v \in Holders : held'[v] = held[v]
    BY <1>1, <2>2 DEF Holders
  <2> QED BY <2>2, <2>3 DEF InHand
<1>5. Decided' = Decided
  BY <1>1 DEF Decided
<1>6. Waiting' = (Queued' \cup InHand') \ Decided'
  BY DEF Waiting, Queued, InHand, Holders
<1>7. Waiting' = Waiting
  BY <1>3, <1>4, <1>5, <1>6, WaitingIs
<1> QED BY <1>1, <1>5, <1>7 DEF Ledger!ledger

\* A planner that fails loses its item, if no other has it as well.
LEMMA FailureLosesOne ==
  ASSUME GrantInv, NEW w \in Workers, Fail(w)
  PROVE  Ledger!Fail
<1> DEFINE u == held[w].url
<1>1. held[w] # None /\ held' = [held EXCEPT ![w] = None] /\ failures' = failures + 1
      /\ UNCHANGED <<queue, outcome>>
  BY DEF Fail, GrantInv, StepsAgree
<1>2. u \in Urls /\ InHand = InHand' \cup {u}
  BY <1>1, ItemHeld, PutDown
<1> HIDE DEF u
<1>3. Queued' = Queued /\ Decided' = Decided
  BY <1>1 DEF Queued, Decided
<1>4. Waiting' = (Queued' \cup InHand') \ Decided'
  BY DEF Waiting, Queued, InHand, Holders
<1>5. Waiting' = Waiting \/ Waiting' = Waiting \ {u}
  <2>1. CASE u \in Queued \cup InHand'
    BY <1>2, <1>3, <1>4, <2>1, WaitingIs
  <2>2. CASE u \notin Queued \cup InHand'
    BY <1>2, <1>3, <1>4, <2>2, WaitingIs
  <2> QED BY <2>1, <2>2
<1> QED BY <1>1, <1>2, <1>3, <1>5 DEF Ledger!Fail

\* However many planners take from the queue, each URL accepted waits until it
\* is decided, is decided once, and is lost only by a planner that fails, which
\* loses one at most.
THEOREM PlansFollowLedger == Spec => Ledger!Safety
<1>1. Init => Ledger!Init
  <2> SUFFICES ASSUME Init PROVE Ledger!Init
    OBVIOUS
  <2>1. queue = <<>> /\ Holders = {} /\ Decided = {} /\ failures = 0
    BY DEF Init, FrontierInit, Holders, Decided
  <2>2. Queued = {} /\ InHand = {}
    BY <2>1 DEF Queued, InHand
  <2> QED BY <2>1, <2>2, WaitingIs DEF Ledger!Init
<1>2. GrantInv /\ [Next]_vars => [Ledger!Next]_Ledger!ledger
  <2> SUFFICES ASSUME GrantInv, [Next]_vars PROVE [Ledger!Next]_Ledger!ledger
    OBVIOUS
  <2>1. CASE UNCHANGED vars
    BY <2>1, LedgerStutters DEF vars, frontier, planner
  <2>2. CASE Time
    BY <2>2, LedgerStutters DEF Time, frontier, planner
  <2>3. ASSUME NEW w \in Workers, PlanStep(w) PROVE [Ledger!Next]_Ledger!ledger
    <3>1. CASE AddSeed(w)
      BY <3>1, SeedIsAccepted
    <3>2. CASE TakeItem(w)
      BY <3>2, ItemStaysWaiting
    <3>3. CASE RefusedByRobots(w)
      <4>1. PICK decision \in Refusals : Conclude(w, decision)
        BY <3>3 DEF RefusedByRobots
      <4>2. held[w] # None /\ failures' = failures /\ decision \in Outcomes
        BY <3>3 DEF RefusedByRobots, GrantInv, StepsAgree, Outcomes
      <4> QED BY <4>1, <4>2, ConcludeDecides
    <3>4. CASE AllowedByRobots(w)
      BY <3>4, LedgerStutters DEF AllowedByRobots, frontier
    <3>5. CASE Acquire(w)
      <4>1. CASE UNCHANGED <<frontier, planner>>
        BY <4>1, LedgerStutters DEF frontier, planner
      <4>2. CASE UNCHANGED <<frontier, jobs, outcome, failures>>
        BY <4>2, LedgerStutters DEF frontier
      <4>3. CASE Conclude(w, "deferred_politeness") /\ UNCHANGED <<jobs, granted, failures>>
        <5>1. held[w] # None /\ "deferred_politeness" \in Outcomes
          BY <3>5 DEF Acquire, GrantInv, StepsAgree, Outcomes
        <5> QED BY <4>3, <5>1, ConcludeDecides
      <4> QED BY <3>5, <4>1, <4>2, <4>3 DEF Acquire
    <3>6. CASE Enqueue(w)
      <4>1. PICK decision \in Outcomes : Conclude(w, decision)
        BY <3>6 DEF Enqueue, Outcomes
      <4>2. held[w] # None /\ failures' = failures
        BY <3>6 DEF Enqueue, GrantInv, StepsAgree
      <4> QED BY <4>1, <4>2, ConcludeDecides
    <3> QED BY <2>3, <3>1, <3>2, <3>3, <3>4, <3>5, <3>6 DEF PlanStep
  <2>4. ASSUME NEW w \in Workers, Fail(w) PROVE [Ledger!Next]_Ledger!ledger
    BY <2>4, FailureLosesOne DEF Ledger!Next
  <2> QED BY <2>1, <2>2, <2>3, <2>4 DEF Next
<1> QED BY <1>1, <1>2, GrantInvariant, PTL DEF Spec, Ledger!Safety
===============================================================================
