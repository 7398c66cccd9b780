----------------------------- MODULE PlanLedger -----------------------------
(***************************************************************************)
(* What planners promise of every URL a frontier accepts: it waits until   *)
(* it is decided, once and for good, unless a planner that fails loses it. *)
(***************************************************************************)
EXTENDS Naturals

CONSTANT Urls

VARIABLES
  waiting,  \* accepted and not decided yet
  decided,
  failures  \* planners that have failed

ledger == <<waiting, decided, failures>>

Init == waiting = {} /\ decided = {} /\ failures = 0

Accept(u) ==
  /\ u \notin waiting \cup decided
  /\ waiting' = waiting \cup {u}
  /\ UNCHANGED <<decided, failures>>

Decide(u) ==
  /\ u \in waiting
  /\ waiting' = waiting \ {u}
  /\ decided' = decided \cup {u}
  /\ UNCHANGED failures

\* A planner fails, and with it at most the URL it has taken from the queue.
Fail ==
  /\ failures' = failures + 1
  /\ \E u \in Urls : waiting' \in {waiting, waiting \ {u}}
  /\ UNCHANGED decided

Next == Fail \/ \E u \in Urls : Accept(u) \/ Decide(u)

Safety == Init /\ [][Next]_ledger

Spec == Safety /\ \A u \in Urls : WF_ledger(Decide(u))
=============================================================================
