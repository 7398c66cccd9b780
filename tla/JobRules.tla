------------------------------ MODULE JobRules ------------------------------
(***************************************************************************)
(* The pure rules of crawl jobs: the transition contract of job_state and  *)
(* the retry decision of retry_policy.                                     *)
(***************************************************************************)
EXTENDS Integers

JobStatus == {"queued", "policy_checking", "ready", "running", "succeeded",
              "failed_retryable", "failed_terminal", "cancelled"}

TerminalStates == {"succeeded", "failed_terminal", "cancelled"}

JobTransitions ==
  ({"queued"} \X {"policy_checking", "ready", "running", "cancelled"})
    \cup ({"policy_checking"} \X {"ready", "failed_terminal", "cancelled"})
    \cup ({"ready"} \X {"running", "cancelled"})
    \cup ({"running"} \X {"succeeded", "failed_retryable", "failed_terminal", "cancelled"})
    \cup ({"failed_retryable"} \X {"queued", "running", "failed_terminal", "cancelled"})

CanTransition(from, to) == <<from, to>> \in JobTransitions

\* RETRY_POLICY; a code it does not name is never retried (DEFAULT_POLICY).
MaxRetries(code) ==
  CASE code = "network_timeout" -> 3
    [] code = "rate_limited" -> 5
    [] code = "parser_error" -> 2
    [] OTHER -> 0

\* Seeded fault: one retry too many.
ShouldRetryOnceMore(code, attempts) == attempts <= MaxRetries(code)

ShouldRetry(code, attempts) == attempts < MaxRetries(code)
=============================================================================
