----------------------------- MODULE JobRunner ------------------------------
(***************************************************************************)
(* Crawl jobs as their handlers see them.  A handler loads a job's row,    *)
(* changes its copy through transition_job, which checks the contract      *)
(* against the COPY and flushes, and commits or rolls back.  The first     *)
(* flush locks the row until the transaction ends; a flush of a row that   *)
(* another transaction has locked waits, and then overwrites what that     *)
(* transaction wrote.  Only the columns a handler changed are written.     *)
(*                                                                         *)
(* The dispatcher that loads jobs and calls the handlers is outside this   *)
(* code base: Exclusive says whether it gives a job to one handler at a    *)
(* time.                                                                   *)
(***************************************************************************)
EXTENDS JobRules

CONSTANTS
  Jobs,
  Handlers,      \* database sessions that handle jobs
  Outcomes,      \* outcomes a worker's postcheck can give
  ErrorCodes,    \* error codes callers give to schedule_retry_or_fail
  Exclusive,     \* TRUE: a job is in one handler's hands at a time
  AttemptBound,  \* attempts are not counted beyond this
  None

Operations == {"claim", "process", "retry", "cancel"}

ASSUME JobAssumption ==
  /\ Outcomes \subseteq {"succeeded", "failed_retryable", "failed_terminal"}
  /\ Exclusive \in BOOLEAN
  /\ AttemptBound \in Nat

Row == [status : JobStatus, attempts : Nat]

\* A handler: what it does, its copy of the row, the columns it has flushed
\* and the pattern it has inserted, and how far it is.
Handler == [op : Operations, job : Jobs, copy : Row,
            wrote : SUBSET {"status", "attempts"}, pattern : BOOLEAN,
            stage : {"loaded", "executing", "done"}]

ASSUME NoneAssumption == None \notin Handler \cup Handlers

VARIABLES
  row,       \* crawl_jobs: the committed row of each job
  lock,      \* the handler whose open transaction has written the row
  ses,       \* what each handler is doing
  patterns,  \* number of patterns committed for each job
  failures   \* history: retryable failures committed for each job

vars == <<row, lock, ses, patterns, failures>>

Init ==
  /\ row = [j \in Jobs |-> [status |-> "queued", attempts |-> 0]]
  /\ lock = [j \in Jobs |-> None]
  /\ ses = [h \in Handlers |-> None]
  /\ patterns = [j \in Jobs |-> 0]
  /\ failures = [j \in Jobs |-> 0]

InHands(j) == {h \in Handlers : ses[h] # None /\ ses[h].job = j}

Load(h, j, op) ==
  /\ ses[h] = None
  /\ Exclusive => InHands(j) = {}
  /\ ses' = [ses EXCEPT ![h] =
       [op |-> op, job |-> j, copy |-> row[j], wrote |-> {}, pattern |-> FALSE,
        stage |-> "loaded"]]
  /\ UNCHANGED <<row, lock, patterns, failures>>

At(h, op, stage) == ses[h] # None /\ ses[h].op = op /\ ses[h].stage = stage

\* The copy's column values after the flush, in a transaction that holds the
\* row from then on.
Flush(h, copy, columns, pattern, stage) ==
  LET j == ses[h].job
  IN  /\ lock[j] \in {None, h}
      /\ lock' = [lock EXCEPT ![j] = h]
      /\ ses' = [ses EXCEPT ![h] =
           [ses[h] EXCEPT !.copy = copy, !.wrote = ses[h].wrote \cup columns,
                          !.pattern = pattern, !.stage = stage]]
      /\ UNCHANGED <<row, patterns, failures>>

\* Seeded fault: a retryable failure is not counted.
TransitionUncounted(h, to, pattern, stage) ==
  LET copy == ses[h].copy
  IN  /\ CanTransition(copy.status, to)
      /\ Flush(h, [copy EXCEPT !.status = to], {"status"}, pattern, stage)

\* transition_job: checked on the copy; a retryable failure is counted.
Transition(h, to, pattern, stage) ==
  LET copy == ses[h].copy
  IN  /\ CanTransition(copy.status, to)
      /\ IF to = "failed_retryable"
           THEN /\ copy.attempts < AttemptBound
                /\ Flush(h, [status |-> to, attempts |-> copy.attempts + 1],
                         {"status", "attempts"}, pattern, stage)
           ELSE Flush(h, [copy EXCEPT !.status = to], {"status"}, pattern, stage)

\* A dispatcher marks the job running, or an operator cancels it.
Claim(h) ==
  /\ At(h, "claim", "loaded")
  /\ Transition(h, "running", FALSE, "done")

Cancel(h) ==
  /\ At(h, "cancel", "loaded")
  /\ Transition(h, "cancelled", FALSE, "done")

\* process_crawl_job marks the job running unless its copy already is...
StartProcessing(h) ==
  /\ At(h, "process", "loaded")
  /\ \/ Transition(h, "running", FALSE, "executing")
     \/ /\ ses[h].copy.status = "running"
        /\ ses' = [ses EXCEPT ![h].stage = "executing"]
        /\ UNCHANGED <<row, lock, patterns, failures>>

\* Seeded fault: the pattern is kept when the outcome is a failure.
FinishAlwaysBuilding(h, outcome) ==
  /\ At(h, "process", "executing")
  /\ Transition(h, outcome, TRUE, "done")

\* ... fetches and parses, and writes the outcome, with a pattern on success.
FinishProcessing(h, outcome) ==
  /\ At(h, "process", "executing")
  /\ Transition(h, outcome, outcome = "succeeded", "done")

\* Seeded fault: queued again without counting the attempt.
ScheduleUncounted(h, code) ==
  LET copy == ses[h].copy
  IN  /\ At(h, "retry", "loaded")
      /\ IF ShouldRetry(code, copy.attempts)
           THEN /\ CanTransition(copy.status, "failed_retryable")
                /\ Flush(h, [copy EXCEPT !.status = "queued"],
                         {"status", "attempts"}, FALSE, "done")
           ELSE Transition(h, "failed_terminal", FALSE, "done")

\* schedule_retry_or_fail: while retries are left the job is failed and
\* queued again, then it has failed for good.
ScheduleRetry(h, code) ==
  LET copy == ses[h].copy
  IN  /\ At(h, "retry", "loaded")
      /\ IF ShouldRetry(code, copy.attempts)
           THEN /\ CanTransition(copy.status, "failed_retryable")
                /\ copy.attempts < AttemptBound
                /\ Flush(h, [status |-> "queued", attempts |-> copy.attempts + 1],
                         {"status", "attempts"}, FALSE, "done")
           ELSE Transition(h, "failed_terminal", FALSE, "done")

Release(h) ==
  /\ lock' = [j \in Jobs |-> IF lock[j] = h THEN None ELSE lock[j]]
  /\ ses' = [ses EXCEPT ![h] = None]

Commit(h) ==
  /\ ses[h] # None
  /\ ses[h].stage = "done"
  /\ LET s == ses[h]
         failed == "attempts" \in s.wrote
     IN  /\ row' = [row EXCEPT ![s.job] =
              [status |-> s.copy.status,
               attempts |-> IF failed THEN s.copy.attempts ELSE @.attempts]]
         /\ patterns' = [patterns EXCEPT ![s.job] = IF s.pattern THEN @ + 1 ELSE @]
         /\ failures' = [failures EXCEPT ![s.job] = IF failed THEN @ + 1 ELSE @]
  /\ Release(h)

\* A refused transition or a parser raises, or the process dies: rolled back.
Abort(h) ==
  /\ ses[h] # None
  /\ Release(h)
  /\ UNCHANGED <<row, patterns, failures>>

Next ==
  \E h \in Handlers :
    \/ \E j \in Jobs, op \in Operations : Load(h, j, op)
    \/ Claim(h)
    \/ Cancel(h)
    \/ StartProcessing(h)
    \/ \E outcome \in Outcomes : FinishProcessing(h, outcome)
    \/ \E code \in ErrorCodes : ScheduleRetry(h, code)
    \/ Commit(h)
    \/ Abort(h)

Spec == Init /\ [][Next]_vars

(***************************************************************************)
(* Properties                                                              *)
(***************************************************************************)
TypeOK ==
  /\ row \in [Jobs -> Row]
  /\ lock \in [Jobs -> Handlers \cup {None}]
  /\ ses \in [Handlers -> Handler \cup {None}]
  /\ patterns \in [Jobs -> Nat]
  /\ failures \in [Jobs -> Nat]

\* The committed rows implement the lifecycle that job_state promises.
Lifecycle == INSTANCE JobLifecycle WITH
  status <- [j \in Jobs |-> row[j].status],
  attempts <- [j \in Jobs |-> row[j].attempts],
  built <- {j \in Jobs : patterns[j] > 0}

LifecycleImplemented == Lifecycle!Spec

\* A job's crawl leaves one pattern if it succeeds, and none otherwise: no
\* redelivery, retry or cancellation builds a second one or orphans one.
OnePatternPerSuccess ==
  \A j \in Jobs : patterns[j] = IF row[j].status = "succeeded" THEN 1 ELSE 0

\* No retryable failure goes uncounted: attempt_count is what the retry
\* decision rests on.
AttemptsCountFailures ==
  \A j \in Jobs : row[j].attempts = failures[j]

\* A job goes back to the queue only while its retries last by the policy of
\* some error code, the failures the runner itself has marked included.
RequeuedWithinPolicy ==
  [][\A j \in Jobs :
       row[j].status # "queued" /\ row'[j].status = "queued"
         => \E code \in ErrorCodes : row'[j].attempts <= MaxRetries(code)]_row

(***************************************************************************)
(* The inductive invariant, for exclusive dispatch                         *)
(***************************************************************************)
\* What a handler's copy says about the committed row it will replace.
CopyInv(s) ==
  LET committed == row[s.job]
  IN  /\ s.pattern <=> s.stage = "done" /\ s.copy.status = "succeeded"
      /\ "attempts" \in s.wrote <=> s.stage = "done" /\ s.copy.status \in {"failed_retryable", "queued"}
      /\ s.copy.attempts = IF "attempts" \in s.wrote THEN committed.attempts + 1
                                                     ELSE committed.attempts
      /\ s.stage = "loaded" => s.copy.status = committed.status
      /\ s.stage = "executing" =>
            /\ s.copy.status = "running"
            /\ committed.status = "running" \/ CanTransition(committed.status, "running")
      /\ s.stage = "done" => Lifecycle!Journey(committed.status, s.copy.status)

\* With one handler per job, every copy is one transaction away from its row:
\* the strengthening under which the counts and the refinement are inductive.
JobInv ==
  /\ TypeOK
  /\ \A g, h \in Handlers :
       ses[g] # None /\ ses[h] # None /\ ses[g].job = ses[h].job => g = h
  /\ \A h \in Handlers : ses[h] # None => CopyInv(ses[h])
  /\ OnePatternPerSuccess
  /\ AttemptsCountFailures
=============================================================================
