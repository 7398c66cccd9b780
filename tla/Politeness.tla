----------------------------- MODULE Politeness -----------------------------
(***************************************************************************)
(* RedisPolitenessLimiter: the crawl delay and the daily cap of a domain,  *)
(* enforced over all workers by two Redis keys with a time to live.        *)
(* acquire is a sequence of Redis commands, each atomic, between which     *)
(* other workers run theirs, keys expire and the worker may die.           *)
(*                                                                         *)
(* Time passes in ticks; the keys' times to live count down.               *)
(***************************************************************************)
EXTENDS Integers, Sequences, FiniteSets

CONSTANTS
  Workers,
  Domains,
  Calls,     \* acquire's parameters: a crawl delay in ticks, 0 for none, and
             \* whether there is a max_pages_per_day
  Cap,       \* max_pages_per_day, where there is one
  Day,       \* the ticks of 24 hours
  Prompt,    \* TRUE: acquire is quick: no tick or reset falls into one
  Resets,    \* TRUE: operators reset domains
  MaxDeaths, \* workers that die inside acquire, at most
  None

ASSUME PolitenessAssumption ==
  /\ IsFiniteSet(Workers)
  /\ Calls \subseteq [delay : Nat, capped : BOOLEAN]
  /\ Cap \in Nat
  /\ Day \in Nat \ {0}
  /\ Prompt \in BOOLEAN
  /\ Resets \in BOOLEAN
  /\ MaxDeaths \in Nat

\* A worker inside acquire: the command it runs next, the delay it asked for,
\* whether it gave a cap and, once it has incremented the count, whether that
\* was over the cap.
Acquiring == [domain : Domains, delay : Nat, capped : BOOLEAN,
              step : {"delay", "count", "expire", "rollback"}, over : BOOLEAN]

Granted == [age : Nat, delay : Nat]

ASSUME NoAcquiring == None \notin Acquiring /\ None \notin Int

VARIABLES
  gate,    \* ticks until the delay key of a domain expires, 0 if there is none
  count,   \* the count key of a domain, None if there is none
  ttl,     \* ticks until the count key expires, None if it never will
  acq,     \* what each worker is doing inside acquire
  grants,  \* history: age and delay of each domain's grants of the last Day
  window,  \* history: counted grants of each domain since its count key was created
  deaths   \* history: workers that died inside acquire

politeness == <<gate, count, ttl, acq, grants, window, deaths>>

PolitenessInit ==
  /\ gate = [d \in Domains |-> 0]
  /\ count = [d \in Domains |-> None]
  /\ ttl = [d \in Domains |-> None]
  /\ acq = [w \in Workers |-> None]
  /\ grants = [d \in Domains |-> <<>>]
  /\ window = [d \in Domains |-> 0]
  /\ deaths = 0

Value(d) == IF count[d] = None THEN 0 ELSE count[d]

Enter(w, d, call) ==
  /\ acq[w] = None
  /\ acq' = [acq EXCEPT ![w] =
       [domain |-> d, delay |-> call.delay, capped |-> call.capped,
        step |-> IF call.delay > 0 THEN "delay" ELSE "count", over |-> FALSE]]
  /\ UNCHANGED <<gate, count, ttl, grants, window, deaths>>

At(w, step) == acq[w] # None /\ acq[w].step = step

\* acquire answers True, having counted the grant or not, or False.
Grant(w) ==
  /\ acq' = [acq EXCEPT ![w] = None]
  /\ grants' = [grants EXCEPT ![acq[w].domain] = Append(@, [age |-> 0, delay |-> acq[w].delay])]
  /\ UNCHANGED deaths

GrantCounted(w) == Grant(w) /\ window' = [window EXCEPT ![acq[w].domain] = @ + 1]

Refuse(w) ==
  /\ acq' = [acq EXCEPT ![w] = None]
  /\ UNCHANGED <<grants, window, deaths>>

\* Seeded fault: SET without NX.
TakeDelayAnyway(w) ==
  /\ At(w, "delay")
  /\ gate' = [gate EXCEPT ![acq[w].domain] = acq[w].delay]
  /\ acq' = [acq EXCEPT ![w].step = "count"]
  /\ UNCHANGED <<count, ttl, grants, window, deaths>>

\* SET NX PX on the delay key.
TakeDelay(w) ==
  LET d == acq[w].domain
  IN  /\ At(w, "delay")
      /\ gate[d] = 0
      /\ gate' = [gate EXCEPT ![d] = acq[w].delay]
      /\ acq' = [acq EXCEPT ![w].step = "count"]
      /\ UNCHANGED <<count, ttl, grants, window, deaths>>

\* Seeded fault: a refused request is counted.
TooSoonCounted(w) ==
  LET d == acq[w].domain
  IN  /\ At(w, "delay")
      /\ gate[d] > 0
      /\ count' = [count EXCEPT ![d] = Value(d) + 1]
      /\ Refuse(w)
      /\ UNCHANGED <<gate, ttl>>

TooSoon(w) ==
  /\ At(w, "delay")
  /\ gate[acq[w].domain] > 0
  /\ Refuse(w)
  /\ UNCHANGED <<gate, count, ttl>>

\* Seeded fault: one grant too many.
CountOneMore(w) ==
  LET d == acq[w].domain
      n == Value(d) + 1
  IN  /\ At(w, "count") /\ acq[w].capped
      /\ count' = [count EXCEPT ![d] = n]
      /\ CASE n = 1 -> /\ acq' = [acq EXCEPT ![w].step = "expire"]
                       /\ UNCHANGED <<grants, window, deaths>>
           [] n # 1 /\ n > Cap + 1 -> /\ acq' = [acq EXCEPT ![w].step = "rollback", ![w].over = TRUE]
                                      /\ UNCHANGED <<grants, window, deaths>>
           [] OTHER -> GrantCounted(w)
      /\ UNCHANGED <<gate, ttl>>

\* INCR of the count key.
Count(w) ==
  LET d == acq[w].domain
      n == Value(d) + 1
  IN  /\ At(w, "count") /\ acq[w].capped
      /\ count' = [count EXCEPT ![d] = n]
      /\ CASE n = 1 -> /\ acq' = [acq EXCEPT ![w].step = "expire", ![w].over = n > Cap]
                       /\ UNCHANGED <<grants, window, deaths>>
           [] n # 1 /\ n > Cap -> /\ acq' = [acq EXCEPT ![w].step = "rollback", ![w].over = TRUE]
                                  /\ UNCHANGED <<grants, window, deaths>>
           [] OTHER -> GrantCounted(w)
      /\ UNCHANGED <<gate, ttl>>

\* Without a cap nothing is counted.
GrantUncapped(w) ==
  /\ At(w, "count")
  /\ ~acq[w].capped
  /\ Grant(w)
  /\ UNCHANGED <<gate, count, ttl, window>>

\* EXPIRE, after the first increment; nothing on a key that is gone.
SetExpiry(w) ==
  LET d == acq[w].domain
  IN  /\ At(w, "expire")
      /\ ttl' = IF count[d] = None THEN ttl ELSE [ttl EXCEPT ![d] = Day]
      /\ IF acq[w].over
           THEN /\ acq' = [acq EXCEPT ![w].step = "rollback"]
                /\ UNCHANGED <<grants, window, deaths>>
           ELSE GrantCounted(w)
      /\ UNCHANGED <<gate, count>>

\* Seeded fault: rolled back by deleting the key.
RollBackByDelete(w) ==
  /\ At(w, "rollback")
  /\ count' = [count EXCEPT ![acq[w].domain] = None]
  /\ ttl' = [ttl EXCEPT ![acq[w].domain] = None]
  /\ Refuse(w)
  /\ UNCHANGED gate

\* DECR, which creates a key that is gone.
RollBack(w) ==
  LET d == acq[w].domain
  IN  /\ At(w, "rollback")
      /\ count' = [count EXCEPT ![d] = Value(d) - 1]
      /\ Refuse(w)
      /\ UNCHANGED <<gate, ttl>>

Dies(w) ==
  /\ acq[w] # None
  /\ deaths < MaxDeaths
  /\ deaths' = deaths + 1
  /\ acq' = [acq EXCEPT ![w] = None]
  /\ UNCHANGED <<gate, count, ttl, grants, window>>

Undisturbed == Prompt => \A w \in Workers : acq[w] = None

\* reset: an operator deletes both keys and starts afresh.
Reset(d) ==
  /\ Resets
  /\ Undisturbed
  /\ gate' = [gate EXCEPT ![d] = 0]
  /\ count' = [count EXCEPT ![d] = None]
  /\ ttl' = [ttl EXCEPT ![d] = None]
  /\ grants' = [grants EXCEPT ![d] = <<>>]
  /\ window' = [window EXCEPT ![d] = 0]
  /\ UNCHANGED <<acq, deaths>>

\* What is left of a domain's grants, which are kept oldest first.
Recent(list) ==
  LET old == {i \in 1..Len(list) : list[i].age >= Day}
  IN  SubSeq(list, Cardinality(old) + 1, Len(list))

Tick ==
  LET Expires(d) == ttl[d] = 1
      aged(d) == [i \in 1..Len(grants[d]) |-> [grants[d][i] EXCEPT !.age = @ + 1]]
  IN  /\ Undisturbed
      /\ gate' = [d \in Domains |-> IF gate[d] = 0 THEN 0 ELSE gate[d] - 1]
      /\ count' = [d \in Domains |-> IF Expires(d) THEN None ELSE count[d]]
      /\ ttl' = [d \in Domains |-> IF ttl[d] = None \/ Expires(d) THEN None ELSE ttl[d] - 1]
      /\ grants' = [d \in Domains |-> Recent(aged(d))]
      /\ window' = [d \in Domains |-> IF Expires(d) THEN 0 ELSE window[d]]
      /\ UNCHANGED <<acq, deaths>>

AcquireStep(w) ==
  \/ TakeDelay(w)
  \/ TooSoon(w)
  \/ Count(w)
  \/ GrantUncapped(w)
  \/ SetExpiry(w)
  \/ RollBack(w)

Next ==
  \/ \E w \in Workers :
       \/ \E d \in Domains, call \in Calls : Enter(w, d, call)
       \/ AcquireStep(w)
       \/ Dies(w)
  \/ \E d \in Domains : Reset(d)
  \/ Tick

\* A worker goes on with the command it is at, and time goes on.
Spec == PolitenessInit /\ [][Next]_politeness /\ WF_politeness(Tick)
          /\ \A w \in Workers : WF_politeness(AcquireStep(w))

(***************************************************************************)
(* Properties                                                              *)
(***************************************************************************)
KeysOK ==
  /\ gate \in [Domains -> Nat]
  /\ count \in [Domains -> Int \cup {None}]
  /\ ttl \in [Domains -> (Nat \ {0}) \cup {None}]
  /\ acq \in [Workers -> Acquiring \cup {None}]
  /\ window \in [Domains -> Nat]
  /\ deaths \in 0..MaxDeaths

TypeOK ==
  /\ KeysOK
  /\ grants \in [Domains -> Seq(Granted)]

\* The workers that give a cap together get no more grants than the cap while
\* a domain's count key lives.
CapPerWindow == \A d \in Domains : window[d] <= Cap

\* Two grants of a domain that were asked for with a crawl delay are at least
\* the first one's delay apart, whichever workers got them.
GrantsSpaced ==
  \A d \in Domains : \A i, j \in 1..Len(grants[d]) :
    i < j /\ grants[d][j].delay > 0
      => grants[d][i].age - grants[d][j].age >= grants[d][i].delay

\* remaining_today.
Remaining(d) == IF Cap > Value(d) THEN Cap - Value(d) ELSE 0

\* When no worker is inside acquire, and none has died in it, the grants
\* remaining_today answers and those made under the cap add up to it: no
\* refusal, rollback, expiry or call without a cap leaks one.
RemainingIsExact ==
  deaths = 0 /\ (\A w \in Workers : acq[w] = None)
    => \A d \in Domains : Remaining(d) = Cap - window[d]

\* A domain whose cap is used up is served again.
CapRenewed == \A d \in Domains : Value(d) >= Cap ~> Value(d) < Cap

(***************************************************************************)
(* The inductive invariant, when acquire is prompt                         *)
(***************************************************************************)
Inside(d, steps) ==
  {w \in Workers : acq[w] # None /\ acq[w].domain = d /\ acq[w].step \in steps}

\* The increments a domain's count holds cover its grants and the workers
\* that have not yet got or given back theirs, and nothing else while no
\* worker has died; and the grants still promised to workers setting the
\* key's expiry fit under the cap.
CountInv ==
  /\ \A w \in Workers : At(w, "expire") => (acq[w].over <=> Cap = 0)
  /\ \A d \in Domains :
       LET incremented == window[d] + Cardinality(Inside(d, {"expire", "rollback"}))
       IN  /\ incremented <= Value(d)
           /\ deaths = 0 => incremented = Value(d)
           /\ Cap > 0 => window[d] + Cardinality(Inside(d, {"expire"})) <= Cap
           /\ Cap = 0 => window[d] = 0

\* Behind the delay key: a worker that has set it and not yet been answered.
Admitted(w) == acq[w] # None /\ acq[w].delay > 0 /\ acq[w].step # "delay"

\* At most one worker of a domain is behind the delay key, which still has all
\* of its time to live, and the delays of all earlier grants are over by then.
\* The key outlives what is left of any grant's delay.
SpacingInv ==
  /\ \A w \in Workers : Admitted(w) =>
       LET d == acq[w].domain
       IN  /\ gate[d] >= acq[w].delay
           /\ \A i \in 1..Len(grants[d]) : grants[d][i].age >= grants[d][i].delay
           /\ \A v \in Workers : Admitted(v) /\ acq[v].domain = d => v = w
  /\ \A d \in Domains : \A i \in 1..Len(grants[d]) :
       /\ grants[d][i].age + gate[d] >= grants[d][i].delay
       /\ \A j \in i..Len(grants[d]) : grants[d][i].age >= grants[d][j].age
  /\ GrantsSpaced

PolitenessInv == TypeOK /\ CountInv /\ SpacingInv
=============================================================================
