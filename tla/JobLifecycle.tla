---------------------------- MODULE JobLifecycle ----------------------------
(***************************************************************************)
(* What job_state promises of a crawl_jobs row, whoever handles it: its    *)
(* status follows the transition contract and stops in a terminal state,   *)
(* each retryable failure is counted once, and the job has its pattern     *)
(* exactly when it has succeeded.                                          *)
(***************************************************************************)
EXTENDS JobRules

CONSTANT Jobs

VARIABLES
  status,    \* status of each job's row
  attempts,  \* attempt_count of each job's row
  built      \* jobs whose crawl has left a pattern

lifecycle == <<status, attempts, built>>

Init ==
  /\ status = [j \in Jobs |-> "queued"]
  /\ attempts = [j \in Jobs |-> 0]
  /\ built = {}

\* A transaction commits one transition, or two in a row.
Journey(from, to) ==
  \/ CanTransition(from, to)
  \/ \E via \in JobStatus : CanTransition(from, via) /\ CanTransition(via, to)

Advance(j, to) ==
  /\ Journey(status[j], to)
  /\ status' = [status EXCEPT ![j] = to]
  /\ built' = IF to = "succeeded" THEN built \cup {j} ELSE built

\* The job failed in a way worth retrying, and waits, or is queued again.
FailRetryably(j) ==
  /\ \E to \in {"failed_retryable", "queued"} : Advance(j, to)
  /\ attempts' = [attempts EXCEPT ![j] = @ + 1]

Proceed(j) ==
  /\ \E to \in JobStatus \ {"failed_retryable", "queued"} : Advance(j, to)
  /\ UNCHANGED attempts

Next == \E j \in Jobs : FailRetryably(j) \/ Proceed(j)

Spec == Init /\ [][Next]_lifecycle
=============================================================================
