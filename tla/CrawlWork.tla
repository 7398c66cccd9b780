------------------------------ MODULE CrawlWork -----------------------------
(***************************************************************************)
(* process_crawl_job with its worker and its events.  JobRunner leaves the *)
(* outcome of a job open; here it is what the worker's prechecks and       *)
(* postchecks say of the crawl.  Events are published inside the           *)
(* transaction, before it commits, and are not taken back by a rollback.   *)
(***************************************************************************)
EXTENDS JobRunner, FetchWorkers

ASSUME OutcomesAssumption == Outcomes = {"succeeded", "failed_retryable", "failed_terminal"}

VARIABLES
  work,   \* what came of the crawl each handler has processed
  last,   \* history: what came of the crawl a job's row was last written for
  heard   \* the last event published about each job

workVars == <<vars, work, last, heard>>

\* What can come of a crawl: a stage, and why it ended there.
Results ==
  {[stage |-> "precheck", reason |-> Precheck(c)] : c \in {d \in Crawls : Precheck(d) # "ok"}}
    \cup
  {[stage |-> "postcheck", reason |-> Postcheck(c)] : c \in {d \in Crawls : Precheck(d) = "ok"}}

ASSUME NoResultAssumption == None \notin Results

Transient == {"fetch_failed", "render_failed"}  \* _RETRYABLE_REASONS

\* Seeded fault: the stage decides, not the reason.
OutcomeByStage(result) ==
  IF result.reason = "ok" THEN "succeeded"
  ELSE IF result.stage = "postcheck" THEN "failed_retryable" ELSE "failed_terminal"

Outcome(result) ==
  IF result.reason = "ok" THEN "succeeded"
  ELSE IF result.stage = "postcheck" /\ result.reason \in Transient THEN "failed_retryable"
  ELSE "failed_terminal"

WorkInit ==
  /\ Init
  /\ work = [h \in Handlers |-> None]
  /\ last = [j \in Jobs |-> None]
  /\ heard = [j \in Jobs |-> None]

Hear(h, event) == heard' = [heard EXCEPT ![ses[h].job] = event]

\* Seeded fault: the start is published before the job's status is looked at.
StartCrawlFirst(h) ==
  /\ At(h, "process", "loaded")
  /\ \/ StartProcessing(h)
     \/ ses[h].copy.status \in TerminalStates /\ Abort(h)
  /\ Hear(h, "started")
  /\ UNCHANGED <<work, last>>

\* The job is marked running, then its start is published.
StartCrawl(h) ==
  /\ StartProcessing(h)
  /\ Hear(h, "started")
  /\ UNCHANGED <<work, last>>

\* Precheck, fetch, postcheck, and for what passes the pattern; the outcome is
\* marked before its event is published.
Crawl(h, result) ==
  /\ result.reason # "raises"
  /\ FinishProcessing(h, Outcome(result))
  /\ Hear(h, IF Outcome(result) = "succeeded" THEN "completed" ELSE "failed")
  /\ work' = [work EXCEPT ![h] = result]
  /\ UNCHANGED last

\* The pattern's events are out when a publish or the last transition raises.
BreakOff(h) ==
  /\ At(h, "process", "executing")
  /\ Abort(h)
  /\ Hear(h, "pattern")
  /\ UNCHANGED <<work, last>>

\* The other handlers publish nothing.
OtherStep(h) ==
  /\ \/ \E j \in Jobs, op \in Operations : Load(h, j, op)
     \/ Claim(h)
     \/ Cancel(h)
     \/ \E code \in ErrorCodes : ScheduleRetry(h, code)
  /\ UNCHANGED <<work, last, heard>>

CommitWork(h) ==
  /\ Commit(h)
  /\ last' = [last EXCEPT ![ses[h].job] = work[h]]
  /\ work' = [work EXCEPT ![h] = None]
  /\ UNCHANGED heard

AbortWork(h) ==
  /\ Abort(h)
  /\ work' = [work EXCEPT ![h] = None]
  /\ UNCHANGED <<last, heard>>

WorkNext ==
  \E h \in Handlers :
    \/ StartCrawl(h)
    \/ \E result \in Results : Crawl(h, result)
    \/ BreakOff(h)
    \/ OtherStep(h)
    \/ CommitWork(h)
    \/ AbortWork(h)

WorkSpec == WorkInit /\ [][WorkNext]_workVars

(***************************************************************************)
(* Properties                                                              *)
(***************************************************************************)
Events == {"started", "pattern", "completed", "failed"}

WorkTypeOK ==
  /\ work \in [Handlers -> Results \cup {None}]
  /\ last \in [Jobs -> Results \cup {None}]
  /\ heard \in [Jobs -> Events \cup {None}]

\* Whichever crawl a handler has let through, what it builds a pattern from is
\* within the worker's limit and the job's, although precheck, fetch and
\* postcheck each read the limits for themselves.
FetchesWithinLimits ==
  \A h \in Handlers : work[h] # None /\ work[h].reason = "ok" => WorkersKeepLimits

\* A stored success was announced and nothing is published about the job after
\* it: a redelivered job is refused before its start is published.
SuccessIsLastWord ==
  \A j \in Jobs : row[j].status = "succeeded" => heard[j] = "completed"

\* The stored outcome fits the crawl it came from: a pattern stands on content
\* the worker let through, only a failed fetch is left to be retried, and a job
\* whose fetch failed is not given up by the handler that crawled it.
OutcomeFitsCrawl ==
  \A j \in Jobs :
    /\ row[j].status = "succeeded" => last[j] # None /\ last[j].reason = "ok"
    /\ row[j].status = "failed_retryable" => last[j] # None /\ last[j].reason \in Transient
    /\ row[j].status = "failed_terminal" => last[j] = None \/ last[j].reason \notin Transient

(***************************************************************************)
(* The inductive invariant, for exclusive dispatch, together with JobInv   *)
(***************************************************************************)
\* What a handler has processed and announced is what it will commit, and no
\* other operation writes an outcome a crawl alone gives.
HandlerInv(h) ==
  LET s == ses[h]
      processed == s # None /\ s.op = "process" /\ s.stage = "done"
  IN  /\ work[h] # None <=> processed
      /\ processed => /\ s.copy.status = Outcome(work[h])
                      /\ s.copy.status = "succeeded" => heard[s.job] = "completed"
      /\ s # None /\ s.op # "process" =>
            s.stage # "executing" /\ (s.stage = "done" => s.copy.status \notin {"succeeded", "failed_retryable"})

WorkInv ==
  /\ WorkTypeOK
  /\ \A h \in Handlers : HandlerInv(h)
  /\ SuccessIsLastWord
  /\ OutcomeFitsCrawl
=============================================================================
