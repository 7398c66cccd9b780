---------------------------- MODULE CrawlPlanner ----------------------------
(***************************************************************************)
(* plan_all: a planner takes URLs from the frontier until it is empty.     *)
(* Each is checked against robots.txt, must get a politeness grant for its *)
(* domain and becomes a crawl job.  Planners of several workers share the  *)
(* limiter, and their queue if it is the Redis one.                        *)
(*                                                                         *)
(* The planner has a limiter and a job table, as it has in operation; both *)
(* are optional in the code.                                               *)
(***************************************************************************)
EXTENDS Frontier

CONSTANTS
  RobotsDelays,  \* crawl delays robots.txt may ask for, in ticks
  DefaultDelay,
  Cap, Day, Prompt,
  CappedPlanners, \* planners built with a max_pages_per_day
  MaxFailures    \* planners that fail, at most

ASSUME PlannerAssumption ==
  /\ IsFiniteSet(Workers)
  /\ RobotsDelays \subseteq Nat
  /\ DefaultDelay \in Nat
  /\ CappedPlanners \subseteq Workers
  /\ MaxFailures \in Nat

VARIABLES
  plan,     \* what each planner does with the item it holds
  jobs,     \* URLs with a crawl job
  outcome,  \* the last PlanOutcome of a URL, None before it has one
  granted,  \* history: grants each domain's items got
  failures, \* history: planners that failed
  gate, count, ttl, acq, grants, window, deaths

Limiter ==
  INSTANCE Politeness WITH
    Calls <- [delay : RobotsDelays \cup {DefaultDelay}, capped : BOOLEAN],
    Resets <- FALSE, MaxDeaths <- MaxFailures

planner == <<plan, jobs, outcome, granted, failures>>
limiter == <<gate, count, ttl, acq, grants, window, deaths>>
vars == <<frontier, planner, limiter>>

Refusals == {"blocked_ssrf", "blocked_robots", "robots_unknown"}
Outcomes == Refusals \cup {"deferred_politeness", "enqueued", "duplicate_job"}

ASSUME NoOutcome == None \notin Outcomes /\ None \notin Limiter!Acquiring

Init ==
  /\ FrontierInit
  /\ Limiter!PolitenessInit
  /\ plan = [w \in Workers |-> "idle"]
  /\ jobs = {}
  /\ outcome = [u \in Urls |-> None]
  /\ granted = [d \in Domains |-> 0]
  /\ failures = 0

AddSeed(w) ==
  /\ \E item \in todo[w] : Offer(w, item)
  /\ UNCHANGED <<planner, limiter>>

TakeItem(w) ==
  /\ plan[w] = "idle"
  /\ Take(w)
  /\ plan' = [plan EXCEPT ![w] = "robots"]
  /\ UNCHANGED <<jobs, outcome, granted, failures, limiter>>

\* The planner is done with the item it holds.
Conclude(w, decision) ==
  /\ held' = [held EXCEPT ![w] = None]
  /\ plan' = [plan EXCEPT ![w] = "idle"]
  /\ outcome' = [outcome EXCEPT ![held[w].url] = decision]
  /\ UNCHANGED <<queue, visited, allowed, todo, taken>>

RefusedByRobots(w) ==
  /\ plan[w] = "robots"
  /\ \E decision \in Refusals : Conclude(w, decision)
  /\ UNCHANGED <<jobs, granted, failures, limiter>>

\* The longer of the default delay and the one robots.txt asks for counts.
AllowedByRobots(w) ==
  /\ plan[w] = "robots"
  /\ \E asked \in RobotsDelays :
       Limiter!Enter(w, DomainOf[held[w].url],
                     [delay |-> IF asked > DefaultDelay THEN asked ELSE DefaultDelay,
                      capped |-> w \in CappedPlanners])
  /\ plan' = [plan EXCEPT ![w] = "acquire"]
  /\ UNCHANGED <<frontier, jobs, outcome, granted, failures>>

\* The limiter's answer is True.
Granted(w) == grants' # grants

\* Seeded fault: a deferred item is dropped without an outcome.
AcquireDrops(w) ==
  /\ plan[w] = "acquire"
  /\ Limiter!AcquireStep(w)
  /\ IF acq'[w] # None
       THEN UNCHANGED <<frontier, planner>>
       ELSE /\ held' = IF Granted(w) THEN held ELSE [held EXCEPT ![w] = None]
            /\ plan' = [plan EXCEPT ![w] = IF Granted(w) THEN "enqueue" ELSE "idle"]
            /\ granted' = IF Granted(w) THEN [granted EXCEPT ![DomainOf[held[w].url]] = @ + 1]
                          ELSE granted
            /\ UNCHANGED <<queue, visited, allowed, todo, taken, jobs, outcome, failures>>

\* Seeded fault: the limiter's answer is ignored.
AcquireUnchecked(w) ==
  /\ plan[w] = "acquire"
  /\ Limiter!AcquireStep(w)
  /\ plan' = [plan EXCEPT ![w] = IF acq'[w] = None THEN "enqueue" ELSE "acquire"]
  /\ granted' = IF Granted(w) THEN [granted EXCEPT ![DomainOf[held[w].url]] = @ + 1] ELSE granted
  /\ UNCHANGED <<frontier, jobs, outcome, failures>>

\* One command of the limiter; its answer lets the item through or defers it.
Acquire(w) ==
  /\ plan[w] = "acquire"
  /\ Limiter!AcquireStep(w)
  /\ \/ acq'[w] # None /\ UNCHANGED <<frontier, planner>>
     \/ /\ acq'[w] = None /\ Granted(w)
        /\ plan' = [plan EXCEPT ![w] = "enqueue"]
        /\ granted' = [granted EXCEPT ![DomainOf[held[w].url]] = @ + 1]
        /\ UNCHANGED <<frontier, jobs, outcome, failures>>
     \/ /\ acq'[w] = None /\ ~Granted(w)
        /\ Conclude(w, "deferred_politeness")
        /\ UNCHANGED <<jobs, granted, failures>>

Enqueue(w) ==
  /\ plan[w] = "enqueue"
  /\ Conclude(w, IF held[w].url \in jobs THEN "duplicate_job" ELSE "enqueued")
  /\ jobs' = jobs \cup {held[w].url}
  /\ UNCHANGED <<granted, failures, limiter>>

\* The robots check, the limiter or the enqueue raises, or the worker dies:
\* plan_all ends, and the item, already popped, goes with it.  A job may have
\* been stored before its outcome is.
Fail(w) ==
  /\ failures < MaxFailures
  /\ \/ plan[w] = "robots" /\ UNCHANGED <<jobs, limiter>>
     \/ plan[w] = "acquire" /\ Limiter!Dies(w) /\ UNCHANGED jobs
     \/ plan[w] = "enqueue" /\ jobs' \in {jobs, jobs \cup {held[w].url}} /\ UNCHANGED limiter
  /\ failures' = failures + 1
  /\ plan' = [plan EXCEPT ![w] = "failed"]
  /\ held' = [held EXCEPT ![w] = None]
  /\ UNCHANGED <<queue, visited, allowed, todo, taken, outcome, granted>>

PlanStep(w) ==
  \/ AddSeed(w)
  \/ TakeItem(w)
  \/ RefusedByRobots(w)
  \/ AllowedByRobots(w)
  \/ Acquire(w)
  \/ Enqueue(w)

Time == Limiter!Tick /\ UNCHANGED <<frontier, planner>>

Next == Time \/ \E w \in Workers : PlanStep(w) \/ Fail(w)

\* plan_all goes on while the frontier has items; time goes on.
Spec == Init /\ [][Next]_vars /\ WF_vars(Time) /\ \A w \in Workers : WF_vars(PlanStep(w))

(***************************************************************************)
(* Properties                                                              *)
(***************************************************************************)
\* Of the limiter, what the planners see; Politeness has the types of its keys.
TypeOK ==
  /\ FrontierTypeOK
  /\ acq \in [Workers -> Limiter!Acquiring \cup {None}]
  /\ plan \in [Workers -> {"idle", "robots", "acquire", "enqueue", "failed"}]
  /\ jobs \subseteq Urls
  /\ outcome \in [Urls -> Outcomes \cup {None}]
  /\ granted \in [Domains -> Nat]
  /\ failures \in 0..MaxFailures

Decided == {u \in Urls : outcome[u] # None}

Waiting ==
  ({queue[i].url : i \in 1..Len(queue)} \cup {held[w].url : w \in {v \in Workers : held[v] # None}})
    \ Decided

\* The planners of one queue decide every URL a frontier accepts, whatever
\* robots and limiter answer, unless one that fails loses it; they get
\* through, and no URL falls between queue, item and outcome.
Ledger == INSTANCE PlanLedger WITH waiting <- Waiting, decided <- Decided

LedgerImplemented == Ledger!Spec

JobsOf(d) == {u \in jobs : DomainOf[u] = d}
ReadyFor(d) == {w \in Workers : plan[w] = "enqueue" /\ DomainOf[held[w].url] = d}

\* However many planners share the limiter, and whatever they fail at, the
\* jobs of a domain and those about to be created have a grant each.
JobsAreGranted ==
  \A d \in Domains : Cardinality(JobsOf(d)) + Cardinality(ReadyFor(d)) <= granted[d]

\* The planner's step, its item and its call of the limiter agree.
StepsAgree ==
  \A w \in Workers :
    /\ held[w] # None <=> plan[w] \in {"robots", "acquire", "enqueue"}
    /\ acq[w] # None <=> plan[w] = "acquire"
    /\ acq[w] # None => acq[w].domain = DomainOf[held[w].url]

PlannerInv == TypeOK /\ StepsAgree /\ JobsAreGranted /\ OncePerFrontier
=============================================================================
