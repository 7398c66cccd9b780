--------------------------- MODULE CrawlWorkProofs --------------------------
(***************************************************************************)
(* Proofs about JobRunner and CrawlWork, for any jobs and handlers.  First *)
(* JobRunner: what holds when a job is in one handler's hands at a time,   *)
(* and the retry policy, which holds whoever has it.  Then CrawlWork: it   *)
(* implements JobRunner, whose theorems therefore hold of it, and with one *)
(* handler per job its announcements and its stored outcomes agree with    *)
(* what came of the crawl.                                                 *)
(***************************************************************************)
EXTENDS CrawlWork, TLAPS

\* A transaction's one or two transitions make a journey of the lifecycle.
LEMMA OneTransition ==
  ASSUME NEW from, NEW to, CanTransition(from, to)
  PROVE  /\ Lifecycle!Journey(from, to)
         /\ from \in JobStatus /\ to \in JobStatus /\ from \notin TerminalStates
BY DEF CanTransition, JobTransitions, Lifecycle!Journey, Lifecycle!CanTransition,
       Lifecycle!JobTransitions, JobStatus, TerminalStates

LEMMA TwoTransitions ==
  ASSUME NEW from, NEW via, NEW to, CanTransition(from, via), CanTransition(via, to)
  PROVE  Lifecycle!Journey(from, to)
<1>1. via \in JobStatus
  BY OneTransition
<1> QED
  BY <1>1 DEF CanTransition, Lifecycle!Journey, Lifecycle!CanTransition,
              Lifecycle!JobStatus, JobStatus, Lifecycle!JobTransitions, JobTransitions

\* No journey leaves a terminal state.
LEMMA JourneysEnd ==
  ASSUME NEW from, NEW to, Lifecycle!Journey(from, to)
  PROVE  from \in JobStatus /\ to \in JobStatus /\ from \notin TerminalStates
BY DEF Lifecycle!Journey, Lifecycle!CanTransition, Lifecycle!JobTransitions,
       JobStatus, TerminalStates

LEMMA InitJobInv == Init => JobInv
BY DEF Init, JobInv, TypeOK, Row, JobStatus, OnePatternPerSuccess, AttemptsCountFailures

\* A handler changes what it remembers of its own job, and perhaps locks it.
LEMMA MemoryPreserves ==
  ASSUME JobInv, NEW h \in Handlers, NEW new \in Handler, CopyInv(new),
         ses[h] # None => new.job = ses[h].job,
         ses[h] = None => InHands(new.job) = {},
         ses' = [ses EXCEPT ![h] = new],
         lock' \in [Jobs -> Handlers \cup {None}],
         UNCHANGED <<row, patterns, failures>>
  PROVE  JobInv'
<1>1. TypeOK'
  BY DEF JobInv, TypeOK
<1>2. ASSUME NEW f \in Handlers, NEW g \in Handlers,
             ses'[f] # None, ses'[g] # None, ses'[f].job = ses'[g].job
      PROVE  f = g
  BY <1>2 DEF JobInv, TypeOK, InHands
<1>3. ASSUME NEW g \in Handlers, ses'[g] # None PROVE CopyInv(ses[g])'
  <2>1. CopyInv(ses'[g])
    BY <1>3 DEF JobInv, TypeOK
  <2> QED BY <2>1 DEF CopyInv
<1>4. (OnePatternPerSuccess /\ AttemptsCountFailures)'
  BY DEF JobInv, OnePatternPerSuccess, AttemptsCountFailures
<1> QED BY <1>1, <1>2, <1>3, <1>4 DEF JobInv

LEMMA LoadPreserves ==
  ASSUME JobInv, Exclusive = TRUE, NEW h \in Handlers, NEW j \in Jobs,
         NEW op \in Operations, Load(h, j, op)
  PROVE  JobInv'
<1> DEFINE new == [op |-> op, job |-> j, copy |-> row[j], wrote |-> {},
                   pattern |-> FALSE, stage |-> "loaded"]
<1>1. new \in Handler
  BY DEF Handler, JobInv, TypeOK
<1>2. CopyInv(new)
  BY DEF CopyInv, JobInv, TypeOK, Row
<1>3. ses[h] = None /\ InHands(j) = {} /\ ses' = [ses EXCEPT ![h] = new]
      /\ UNCHANGED <<row, lock, patterns, failures>> /\ new.job = j
  BY DEF Load
<1> HIDE DEF new
<1> QED BY <1>1, <1>2, <1>3, MemoryPreserves DEF JobInv, TypeOK

\* Flushing a copy that is a journey away from the committed row.
LEMMA FlushPreserves ==
  ASSUME JobInv, NEW h \in Handlers, ses[h] # None,
         NEW copy \in Row, NEW columns \in SUBSET {"status", "attempts"},
         NEW pattern \in BOOLEAN, NEW stage \in {"executing", "done"},
         Flush(h, copy, columns, pattern, stage),
         ses[h].stage \in {"loaded", "executing"},
         pattern <=> stage = "done" /\ copy.status = "succeeded",
         "attempts" \in columns
           <=> stage = "done" /\ copy.status \in {"failed_retryable", "queued"},
         copy.attempts = IF "attempts" \in columns THEN ses[h].copy.attempts + 1
                                                  ELSE ses[h].copy.attempts,
         stage = "executing" => /\ copy.status = "running"
                                /\ ses[h].stage = "loaded"
                                /\ CanTransition(ses[h].copy.status, "running"),
         stage = "done" => Lifecycle!Journey(row[ses[h].job].status, copy.status)
  PROVE  JobInv'
<1> DEFINE new == [ses[h] EXCEPT !.copy = copy, !.wrote = ses[h].wrote \cup columns,
                                 !.pattern = pattern, !.stage = stage]
<1>1. ses[h] \in Handler /\ CopyInv(ses[h])
  BY DEF JobInv, TypeOK
<1>2. /\ new \in Handler /\ new.job = ses[h].job /\ new.copy = copy
      /\ new.wrote = ses[h].wrote \cup columns /\ new.pattern = pattern
      /\ new.stage = stage
  BY <1>1 DEF Handler
<1>3. "attempts" \notin ses[h].wrote
      /\ ses[h].copy.attempts = row[ses[h].job].attempts
      /\ (ses[h].stage = "loaded" => ses[h].copy.status = row[ses[h].job].status)
  BY <1>1 DEF CopyInv
<1>4. /\ ses' = [ses EXCEPT ![h] = new]
      /\ lock' \in [Jobs -> Handlers \cup {None}]
      /\ UNCHANGED <<row, patterns, failures>>
  BY DEF Flush, JobInv, TypeOK
<1> HIDE DEF new
<1>5. CopyInv(new)
  BY <1>2, <1>3 DEF CopyInv
<1> QED BY <1>2, <1>4, <1>5, MemoryPreserves

\* A journey that starts at the committed row and ends in one more transition
\* of the copy.
LEMMA CopyJourney ==
  ASSUME JobInv, NEW h \in Handlers, ses[h] # None,
         ses[h].stage \in {"loaded", "executing"},
         NEW to, CanTransition(ses[h].copy.status, to)
  PROVE  Lifecycle!Journey(row[ses[h].job].status, to)
<1>1. CopyInv(ses[h])
  BY DEF JobInv
<1> QED BY <1>1, OneTransition, TwoTransitions DEF CopyInv

LEMMA TransitionPreserves ==
  ASSUME JobInv, NEW h \in Handlers, ses[h] # None,
         ses[h].stage \in {"loaded", "executing"},
         NEW to, to # "queued",
         NEW pattern \in BOOLEAN, NEW stage \in {"executing", "done"},
         pattern <=> stage = "done" /\ to = "succeeded",
         stage = "executing" => to = "running" /\ ses[h].stage = "loaded",
         Transition(h, to, pattern, stage)
  PROVE  JobInv'
<1>1. CanTransition(ses[h].copy.status, to) /\ to \in JobStatus
  BY OneTransition DEF Transition
<1>2. Lifecycle!Journey(row[ses[h].job].status, to)
  BY <1>1, CopyJourney
<1>3. ses[h].copy \in Row
  BY DEF JobInv, TypeOK, Handler
<1>4. CASE to = "failed_retryable"
  <2> DEFINE copy == [status |-> to, attempts |-> ses[h].copy.attempts + 1]
  <2>1. Flush(h, copy, {"status", "attempts"}, pattern, stage)
    BY <1>4 DEF Transition
  <2>2. copy \in Row /\ copy.status = to /\ copy.attempts = ses[h].copy.attempts + 1
    BY <1>1, <1>3 DEF Row
  <2>3. stage = "done"
    BY <1>4
  <2> HIDE DEF copy
  <2> QED BY <1>2, <1>4, <2>1, <2>2, <2>3, FlushPreserves
<1>5. CASE to # "failed_retryable"
  <2> DEFINE copy == [ses[h].copy EXCEPT !.status = to]
  <2>1. Flush(h, copy, {"status"}, pattern, stage)
    BY <1>5 DEF Transition
  <2>2. copy \in Row /\ copy.status = to /\ copy.attempts = ses[h].copy.attempts
    BY <1>1, <1>3 DEF Row
  <2> HIDE DEF copy
  <2> QED BY <1>1, <1>2, <1>5, <2>1, <2>2, FlushPreserves
<1> QED BY <1>4, <1>5

LEMMA ClaimPreserves ==
  ASSUME JobInv, NEW h \in Handlers, Claim(h) \/ Cancel(h)
  PROVE  JobInv'
BY TransitionPreserves DEF Claim, Cancel, At

LEMMA StartPreserves ==
  ASSUME JobInv, NEW h \in Handlers, StartProcessing(h)
  PROVE  JobInv'
<1>1. ses[h] # None /\ ses[h].stage = "loaded" /\ ses[h] \in Handler /\ CopyInv(ses[h])
  BY DEF StartProcessing, At, JobInv, TypeOK
<1>2. CASE Transition(h, "running", FALSE, "executing")
  BY <1>1, <1>2, TransitionPreserves
<1>3. CASE ses[h].copy.status = "running" /\ ses' = [ses EXCEPT ![h].stage = "executing"]
           /\ UNCHANGED <<row, lock, patterns, failures>>
  <2> DEFINE new == [ses[h] EXCEPT !.stage = "executing"]
  <2>1. /\ new \in Handler /\ new.job = ses[h].job /\ new.copy = ses[h].copy
        /\ new.wrote = ses[h].wrote /\ new.pattern = ses[h].pattern
        /\ new.stage = "executing"
    BY <1>1 DEF Handler
  <2>2. ses' = [ses EXCEPT ![h] = new]
    BY <1>1, <1>3 DEF JobInv, TypeOK
  <2> HIDE DEF new
  <2>3. CopyInv(new)
    BY <1>1, <1>3, <2>1 DEF CopyInv
  <2>4. lock' \in [Jobs -> Handlers \cup {None}]
    BY <1>3 DEF JobInv, TypeOK
  <2> QED BY <1>1, <1>3, <2>1, <2>2, <2>3, <2>4, MemoryPreserves
<1> QED BY <1>2, <1>3 DEF StartProcessing

LEMMA FinishPreserves ==
  ASSUME JobInv, NEW h \in Handlers, NEW outcome \in Outcomes,
         FinishProcessing(h, outcome)
  PROVE  JobInv'
<1>1. ses[h] # None /\ ses[h].stage = "executing"
      /\ Transition(h, outcome, outcome = "succeeded", "done")
  BY DEF FinishProcessing, At
<1>2. outcome # "queued"
  BY JobAssumption
<1> QED BY <1>1, <1>2, TransitionPreserves

LEMMA ScheduleRetryPreserves ==
  ASSUME JobInv, NEW h \in Handlers, NEW code \in ErrorCodes, ScheduleRetry(h, code)
  PROVE  JobInv'
<1>1. ses[h] # None /\ ses[h].stage = "loaded" /\ ses[h].copy \in Row
  BY DEF ScheduleRetry, At, JobInv, TypeOK, Handler
<1>2. CASE ShouldRetry(code, ses[h].copy.attempts)
  <2> DEFINE copy == [status |-> "queued", attempts |-> ses[h].copy.attempts + 1]
  <2>1. Flush(h, copy, {"status", "attempts"}, FALSE, "done")
        /\ CanTransition(ses[h].copy.status, "failed_retryable")
    BY <1>2 DEF ScheduleRetry
  <2>2. copy \in Row /\ copy.status = "queued" /\ copy.attempts = ses[h].copy.attempts + 1
    BY <1>1 DEF Row, JobStatus
  <2>3. Lifecycle!Journey(row[ses[h].job].status, "queued")
    <3>1. CanTransition("failed_retryable", "queued")
      BY DEF CanTransition, JobTransitions
    <3>2. CopyInv(ses[h])
      BY <1>1 DEF JobInv
    <3> QED BY <1>1, <2>1, <3>1, <3>2, TwoTransitions DEF CopyInv
  <2> HIDE DEF copy
  <2> QED BY <1>1, <2>1, <2>2, <2>3, FlushPreserves
<1>3. CASE ~ShouldRetry(code, ses[h].copy.attempts)
  BY <1>1, <1>3, TransitionPreserves DEF ScheduleRetry
<1> QED BY <1>2, <1>3

LEMMA AbortPreserves ==
  ASSUME JobInv, NEW h \in Handlers, Abort(h)
  PROVE  JobInv'
<1>1. TypeOK'
  BY DEF Abort, Release, JobInv, TypeOK
<1>2. \A g \in Handlers : ses'[g] # None => ses'[g] = ses[g]
  BY DEF Abort, Release, JobInv, TypeOK
<1>3. ASSUME NEW g \in Handlers, ses'[g] # None PROVE CopyInv(ses[g])'
  BY <1>2, <1>3 DEF JobInv, CopyInv, Abort
<1>4. (OnePatternPerSuccess /\ AttemptsCountFailures)'
  BY DEF Abort, JobInv, OnePatternPerSuccess, AttemptsCountFailures
<1> QED BY <1>1, <1>2, <1>3, <1>4 DEF JobInv

(***************************************************************************)
(* Commit: the copy replaces the row                                       *)
(***************************************************************************)
LEMMA CommitFacts ==
  ASSUME JobInv, NEW h \in Handlers, NEW j \in Jobs, Commit(h), j = ses[h].job
  PROVE  LET s == ses[h]
             failed == "attempts" \in s.wrote
         IN  /\ s \in Handler /\ s.copy \in Row /\ CopyInv(s) /\ s.stage = "done"
             /\ row[j] \in Row
             /\ row' = [row EXCEPT ![j] = s.copy]
             /\ patterns' = [patterns EXCEPT ![j] = IF s.pattern THEN @ + 1 ELSE @]
             /\ failures' = [failures EXCEPT ![j] = IF failed THEN @ + 1 ELSE @]
             /\ Release(h)
             /\ Lifecycle!Journey(row[j].status, s.copy.status)
             /\ s.pattern <=> s.copy.status = "succeeded"
             /\ failed <=> s.copy.status \in {"failed_retryable", "queued"}
             /\ s.copy.attempts = IF failed THEN row[j].attempts + 1
                                            ELSE row[j].attempts
<1> DEFINE s == ses[h]
           failed == "attempts" \in s.wrote
<1>1. s \in Handler /\ s.copy \in Row /\ CopyInv(s) /\ s.stage = "done" /\ row[j] \in Row
  BY DEF Commit, JobInv, TypeOK, Handler
<1>2. /\ Lifecycle!Journey(row[j].status, s.copy.status)
      /\ s.pattern <=> s.copy.status = "succeeded"
      /\ failed <=> s.copy.status \in {"failed_retryable", "queued"}
      /\ s.copy.attempts = IF failed THEN row[j].attempts + 1 ELSE row[j].attempts
  BY <1>1 DEF CopyInv
<1>3. [status |-> s.copy.status,
       attempts |-> IF failed THEN s.copy.attempts ELSE row[j].attempts] = s.copy
  BY <1>1, <1>2 DEF Row
<1>4. /\ row' = [row EXCEPT ![j] =
           [status |-> s.copy.status,
            attempts |-> IF failed THEN s.copy.attempts ELSE row[j].attempts]]
      /\ patterns' = [patterns EXCEPT ![j] = IF s.pattern THEN @ + 1 ELSE @]
      /\ failures' = [failures EXCEPT ![j] = IF failed THEN @ + 1 ELSE @]
      /\ Release(h)
  BY DEF Commit
<1> QED BY <1>1, <1>2, <1>3, <1>4

LEMMA CommitPreserves ==
  ASSUME JobInv, NEW h \in Handlers, Commit(h)
  PROVE  JobInv'
<1>1. ses[h] \in Handler /\ ses[h] # None
  BY DEF Commit, JobInv, TypeOK
<1> PICK j \in Jobs : j = ses[h].job
  BY <1>1 DEF Handler
<1> DEFINE s == ses[h]
           failed == "attempts" \in s.wrote
<1>2. /\ s.copy \in Row /\ row[j] \in Row
      /\ row' = [row EXCEPT ![j] = s.copy]
      /\ patterns' = [patterns EXCEPT ![j] = IF s.pattern THEN @ + 1 ELSE @]
      /\ failures' = [failures EXCEPT ![j] = IF failed THEN @ + 1 ELSE @]
      /\ Release(h)
      /\ Lifecycle!Journey(row[j].status, s.copy.status)
      /\ s.pattern <=> s.copy.status = "succeeded"
      /\ s.copy.attempts = IF failed THEN row[j].attempts + 1 ELSE row[j].attempts
  BY CommitFacts
<1>3. row[j].status \notin TerminalStates
  BY <1>2, JourneysEnd
<1>4. TypeOK'
  BY <1>2 DEF JobInv, TypeOK, Release
<1>5. \A g \in Handlers : ses'[g] # None => ses'[g] = ses[g] /\ ses[g].job # j /\ ses[g].job \in Jobs
  BY <1>1, <1>2 DEF JobInv, TypeOK, Release, Handler
<1>6. ASSUME NEW g \in Handlers, ses'[g] # None PROVE CopyInv(ses[g])'
  <2>1. row'[ses[g].job] = row[ses[g].job] /\ CopyInv(ses[g])
    BY <1>2, <1>5, <1>6 DEF JobInv, TypeOK
  <2> QED BY <1>5, <1>6, <2>1 DEF CopyInv
<1>7. OnePatternPerSuccess'
  BY <1>2, <1>3 DEF JobInv, TypeOK, OnePatternPerSuccess, TerminalStates
<1>8. AttemptsCountFailures'
  BY <1>2 DEF JobInv, TypeOK, AttemptsCountFailures
<1> QED BY <1>4, <1>5, <1>6, <1>7, <1>8 DEF JobInv

LEMMA NextPreserves ==
  ASSUME JobInv, Exclusive = TRUE, [Next]_vars
  PROVE  JobInv'
<1>1. CASE UNCHANGED vars
  BY <1>1 DEF vars, JobInv, TypeOK, CopyInv, OnePatternPerSuccess, AttemptsCountFailures
<1>2. ASSUME NEW h \in Handlers, NEW j \in Jobs, NEW op \in Operations, Load(h, j, op)
      PROVE  JobInv'
  BY <1>2, LoadPreserves
<1>3. ASSUME NEW h \in Handlers, Claim(h) \/ Cancel(h) PROVE JobInv'
  BY <1>3, ClaimPreserves
<1>4. ASSUME NEW h \in Handlers, StartProcessing(h) PROVE JobInv'
  BY <1>4, StartPreserves
<1>5. ASSUME NEW h \in Handlers, NEW outcome \in Outcomes, FinishProcessing(h, outcome)
      PROVE  JobInv'
  BY <1>5, FinishPreserves
<1>6. ASSUME NEW h \in Handlers, NEW code \in ErrorCodes, ScheduleRetry(h, code)
      PROVE  JobInv'
  BY <1>6, ScheduleRetryPreserves
<1>7. ASSUME NEW h \in Handlers, Commit(h) PROVE JobInv'
  BY <1>7, CommitPreserves
<1>8. ASSUME NEW h \in Handlers, Abort(h) PROVE JobInv'
  BY <1>8, AbortPreserves
<1> QED
  BY <1>1, <1>2, <1>3, <1>4, <1>5, <1>6, <1>7, <1>8 DEF Next

(***************************************************************************)
(* Refinement: a commit is a step of the lifecycle, all else stutters      *)
(***************************************************************************)
LEMMA CommitImplements ==
  ASSUME JobInv, NEW h \in Handlers, Commit(h)
  PROVE  Lifecycle!Next
<1>1. ses[h] \in Handler
  BY DEF Commit, JobInv, TypeOK
<1> PICK j \in Jobs : j = ses[h].job
  BY <1>1 DEF Handler
<1> DEFINE to == ses[h].copy.status
           failed == "attempts" \in ses[h].wrote
<1>2. /\ ses[h].copy \in Row /\ row[j] \in Row
      /\ row' = [row EXCEPT ![j] = ses[h].copy]
      /\ patterns' = [patterns EXCEPT ![j] = IF ses[h].pattern THEN @ + 1 ELSE @]
      /\ Lifecycle!Journey(row[j].status, to)
      /\ ses[h].pattern <=> to = "succeeded"
      /\ failed <=> to \in {"failed_retryable", "queued"}
      /\ ses[h].copy.attempts = IF failed THEN row[j].attempts + 1 ELSE row[j].attempts
  BY CommitFacts
<1>3. [i \in Jobs |-> row'[i].status] = [[i \in Jobs |-> row[i].status] EXCEPT ![j] = to]
  BY <1>2 DEF JobInv, TypeOK
<1>4. [i \in Jobs |-> row'[i].attempts]
        = IF failed THEN [[i \in Jobs |-> row[i].attempts] EXCEPT ![j] = row[j].attempts + 1]
                    ELSE [i \in Jobs |-> row[i].attempts]
  BY <1>2 DEF JobInv, TypeOK
<1>5. {i \in Jobs : patterns'[i] > 0}
        = IF to = "succeeded" THEN {i \in Jobs : patterns[i] > 0} \cup {j}
                              ELSE {i \in Jobs : patterns[i] > 0}
  BY <1>2 DEF JobInv, TypeOK
<1>6. to \in Lifecycle!JobStatus
  BY <1>2 DEF Row, JobStatus, Lifecycle!JobStatus
<1> HIDE DEF to, failed
<1>8. CASE failed
  <2>1. to \in {"failed_retryable", "queued"}
    BY <1>2, <1>8
  <2>2. Lifecycle!FailRetryably(j)
    BY <1>2, <1>3, <1>4, <1>5, <1>8, <2>1 DEF Lifecycle!FailRetryably, Lifecycle!Advance
  <2> QED BY <2>2 DEF Lifecycle!Next
<1>9. CASE ~failed
  <2>1. to \in Lifecycle!JobStatus \ {"failed_retryable", "queued"}
    BY <1>2, <1>6, <1>9
  <2>2. Lifecycle!Proceed(j)
    BY <1>2, <1>3, <1>4, <1>5, <1>9, <2>1 DEF Lifecycle!Proceed, Lifecycle!Advance
  <2> QED BY <2>2 DEF Lifecycle!Next
<1> QED BY <1>8, <1>9

LEMMA StepImplementsLifecycle ==
  ASSUME JobInv, [Next]_vars
  PROVE  [Lifecycle!Next]_(Lifecycle!lifecycle)
<1>1. CASE UNCHANGED <<row, patterns>>
  BY <1>1 DEF Lifecycle!lifecycle
<1>2. CASE \E h \in Handlers : Commit(h)
  BY <1>2, CommitImplements
<1>3. CASE \E h \in Handlers : Abort(h) \/ \E j \in Jobs, op \in Operations : Load(h, j, op)
  BY <1>1, <1>3 DEF Abort, Load
<1>4. CASE \E h \in Handlers :
              \/ Claim(h) \/ Cancel(h) \/ StartProcessing(h)
              \/ \E outcome \in Outcomes : FinishProcessing(h, outcome)
              \/ \E code \in ErrorCodes : ScheduleRetry(h, code)
  BY <1>1, <1>4, ZenonT(60) DEF Claim, Cancel, StartProcessing, FinishProcessing, ScheduleRetry,
                    Transition, Flush
<1> QED BY <1>1, <1>2, <1>3, <1>4 DEF Next, vars

(***************************************************************************)
(* The theorems                                                            *)
(***************************************************************************)
\* With one handler per job, every copy stays one transaction away from its
\* row, a job has one pattern exactly when it succeeded, and attempt_count
\* counts its retryable failures.
THEOREM JobInvariant ==
  ASSUME Exclusive = TRUE
  PROVE  Spec => []JobInv
<1>1. JobInv /\ [Next]_vars => JobInv'
  BY NextPreserves
<1> QED BY InitJobInv, <1>1, PTL DEF Spec

\* No retry, cancellation, crash or claim builds a second pattern of a job or
\* leaves one behind a job that did not succeed.
THEOREM OnePattern ==
  ASSUME Exclusive = TRUE
  PROVE  Spec => []OnePatternPerSuccess
<1>1. JobInv => OnePatternPerSuccess
  BY DEF JobInv
<1> QED BY <1>1, JobInvariant, PTL

\* The handlers of job_state, retry_policy and the runner implement the
\* lifecycle contract when no job is in two hands.
THEOREM RunnerImplementsLifecycle ==
  ASSUME Exclusive = TRUE
  PROVE  Spec => LifecycleImplemented
<1>1. Init => Lifecycle!Init
  BY DEF Init, Lifecycle!Init
<1>2. JobInv /\ [Next]_vars => [Lifecycle!Next]_(Lifecycle!lifecycle)
  BY StepImplementsLifecycle
<1> QED
  BY <1>1, <1>2, JobInvariant, PTL DEF Spec, LifecycleImplemented, Lifecycle!Spec

\* However the failures of a job came about, the runner has counted them all.
THEOREM FailuresAreCounted ==
  ASSUME Exclusive = TRUE
  PROVE  Spec => []AttemptsCountFailures
<1>1. JobInv => AttemptsCountFailures
  BY DEF JobInv
<1> QED BY <1>1, JobInvariant, PTL

(***************************************************************************)
(* The retry policy, whoever holds the job                                 *)
(***************************************************************************)
\* A copy about to be queued again has counted its attempt, and some error
\* code's policy allows that many.
RetryInv ==
  /\ TypeOK
  /\ \A h \in Handlers :
       ses[h] # None /\ ses[h].stage = "done" /\ ses[h].copy.status = "queued"
         => /\ "attempts" \in ses[h].wrote
            /\ \E code \in ErrorCodes : ses[h].copy.attempts <= MaxRetries(code)

\* A handler's memory changes to one that is not queued, or is within policy.
LEMMA RetryMemory ==
  ASSUME RetryInv, NEW h \in Handlers, NEW new \in Handler \cup {None},
         new # None /\ new.stage = "done" /\ new.copy.status = "queued"
           => /\ "attempts" \in new.wrote
              /\ \E code \in ErrorCodes : new.copy.attempts <= MaxRetries(code),
         ses' = [ses EXCEPT ![h] = new],
         lock' \in [Jobs -> Handlers \cup {None}],
         row' \in [Jobs -> Row],
         patterns' \in [Jobs -> Nat],
         failures' \in [Jobs -> Nat]
  PROVE  RetryInv'
<1>1. TypeOK'
  BY DEF RetryInv, TypeOK
<1>2. \A g \in Handlers : ses'[g] = IF g = h THEN new ELSE ses[g]
  BY DEF RetryInv, TypeOK
<1> QED BY <1>1, <1>2 DEF RetryInv

LEMMA RetryFlush ==
  ASSUME RetryInv, NEW h \in Handlers, ses[h] # None,
         NEW copy \in Row, NEW columns \in SUBSET {"status", "attempts"},
         NEW pattern \in BOOLEAN, NEW stage \in {"executing", "done"},
         Flush(h, copy, columns, pattern, stage),
         copy.status = "queued"
           => /\ "attempts" \in columns
              /\ \E code \in ErrorCodes : copy.attempts <= MaxRetries(code)
  PROVE  RetryInv'
<1> DEFINE new == [ses[h] EXCEPT !.copy = copy, !.wrote = ses[h].wrote \cup columns,
                                 !.pattern = pattern, !.stage = stage]
<1>1. ses[h] \in Handler
  BY DEF RetryInv, TypeOK
<1>2. new \in Handler /\ new.copy = copy /\ new.wrote = ses[h].wrote \cup columns
  BY <1>1 DEF Handler
<1>3. /\ ses' = [ses EXCEPT ![h] = new]
      /\ lock' \in [Jobs -> Handlers \cup {None}]
      /\ row' \in [Jobs -> Row] /\ patterns' \in [Jobs -> Nat] /\ failures' \in [Jobs -> Nat]
  BY DEF Flush, RetryInv, TypeOK
<1> HIDE DEF new
<1> QED BY <1>2, <1>3, RetryMemory

LEMMA RetryTransition ==
  ASSUME RetryInv, NEW h \in Handlers, ses[h] # None, NEW to, to # "queued",
         NEW pattern \in BOOLEAN, NEW stage \in {"executing", "done"},
         Transition(h, to, pattern, stage)
  PROVE  RetryInv'
<1>1. to \in JobStatus
  BY OneTransition DEF Transition
<1>2. ses[h].copy \in Row
  BY DEF RetryInv, TypeOK, Handler
<1>3. CASE to = "failed_retryable"
  <2> DEFINE copy == [status |-> to, attempts |-> ses[h].copy.attempts + 1]
  <2>1. Flush(h, copy, {"status", "attempts"}, pattern, stage)
    BY <1>3 DEF Transition
  <2>2. copy \in Row /\ copy.status # "queued"
    BY <1>1, <1>2 DEF Row
  <2> HIDE DEF copy
  <2> QED BY <2>1, <2>2, RetryFlush
<1>4. CASE to # "failed_retryable"
  <2> DEFINE copy == [ses[h].copy EXCEPT !.status = to]
  <2>1. Flush(h, copy, {"status"}, pattern, stage)
    BY <1>4 DEF Transition
  <2>2. copy \in Row /\ copy.status # "queued"
    BY <1>1, <1>2 DEF Row
  <2> HIDE DEF copy
  <2> QED BY <2>1, <2>2, RetryFlush
<1> QED BY <1>3, <1>4

LEMMA RetrySchedule ==
  ASSUME RetryInv, NEW h \in Handlers, NEW code \in ErrorCodes, ScheduleRetry(h, code)
  PROVE  RetryInv'
<1>1. ses[h] # None /\ ses[h].copy \in Row
  BY DEF ScheduleRetry, At, RetryInv, TypeOK, Handler
<1>2. CASE ShouldRetry(code, ses[h].copy.attempts)
  <2> DEFINE copy == [status |-> "queued", attempts |-> ses[h].copy.attempts + 1]
  <2>1. Flush(h, copy, {"status", "attempts"}, FALSE, "done")
    BY <1>2 DEF ScheduleRetry
  <2>2. copy \in Row
    BY <1>1 DEF Row, JobStatus
  <2>3. copy.attempts <= MaxRetries(code)
    BY <1>1, <1>2 DEF Row, ShouldRetry, MaxRetries
  <2> HIDE DEF copy
  <2> QED BY <1>1, <2>1, <2>2, <2>3, RetryFlush
<1>3. CASE ~ShouldRetry(code, ses[h].copy.attempts)
  BY <1>1, <1>3, RetryTransition DEF ScheduleRetry
<1> QED BY <1>2, <1>3

LEMMA RetryProcess ==
  ASSUME RetryInv, NEW h \in Handlers, StartProcessing(h)
  PROVE  RetryInv'
<1>1. ses[h] # None /\ ses[h] \in Handler
  BY DEF StartProcessing, At, RetryInv, TypeOK
<1>2. CASE Transition(h, "running", FALSE, "executing")
  BY <1>1, <1>2, RetryTransition
<1>3. CASE ses' = [ses EXCEPT ![h].stage = "executing"] /\ UNCHANGED <<row, lock, patterns, failures>>
  <2> DEFINE new == [ses[h] EXCEPT !.stage = "executing"]
  <2>1. new \in Handler /\ new.stage = "executing"
    BY <1>1 DEF Handler
  <2>2. ses' = [ses EXCEPT ![h] = new]
    BY <1>3
  <2> HIDE DEF new
  <2> QED BY <1>3, <2>1, <2>2, RetryMemory DEF RetryInv, TypeOK
<1> QED BY <1>2, <1>3 DEF StartProcessing

LEMMA RetryRelease ==
  ASSUME RetryInv, NEW h \in Handlers, Commit(h) \/ Abort(h)
  PROVE  RetryInv'
<1>1. ses[h] \in Handler
  BY DEF Commit, Abort, RetryInv, TypeOK
<1>2. /\ ses' = [ses EXCEPT ![h] = None]
      /\ lock' \in [Jobs -> Handlers \cup {None}]
  BY DEF Commit, Abort, Release, RetryInv, TypeOK
<1>3. row' \in [Jobs -> Row]
  BY <1>1 DEF Commit, Abort, RetryInv, TypeOK, Handler, Row
<1>4. patterns' \in [Jobs -> Nat] /\ failures' \in [Jobs -> Nat]
  BY DEF Commit, Abort, RetryInv, TypeOK
<1> QED BY <1>2, <1>3, <1>4, RetryMemory

LEMMA RetryLoad ==
  ASSUME RetryInv, NEW h \in Handlers, NEW j \in Jobs, NEW op \in Operations, Load(h, j, op)
  PROVE  RetryInv'
<1> DEFINE new == [op |-> op, job |-> j, copy |-> row[j], wrote |-> {},
                   pattern |-> FALSE, stage |-> "loaded"]
<1>1. new \in Handler /\ new.stage = "loaded"
  BY DEF Handler, RetryInv, TypeOK
<1>2. ses' = [ses EXCEPT ![h] = new] /\ UNCHANGED <<row, lock, patterns, failures>>
  BY DEF Load
<1> HIDE DEF new
<1> QED BY <1>1, <1>2, RetryMemory DEF RetryInv, TypeOK

LEMMA RetryNext ==
  ASSUME RetryInv, [Next]_vars
  PROVE  RetryInv'
<1>1. CASE UNCHANGED vars
  BY <1>1 DEF vars, RetryInv, TypeOK
<1>2. ASSUME NEW h \in Handlers, Claim(h) \/ Cancel(h)
      PROVE  RetryInv'
  BY <1>2, RetryTransition DEF Claim, Cancel, At
<1>3. ASSUME NEW h \in Handlers, NEW outcome \in Outcomes, FinishProcessing(h, outcome)
      PROVE  RetryInv'
  <2>1. outcome # "queued" /\ (outcome = "succeeded") \in BOOLEAN
    BY JobAssumption
  <2> QED BY <1>3, <2>1, RetryTransition DEF FinishProcessing, At
<1> QED BY <1>1, <1>2, <1>3, RetryLoad, RetryProcess, RetrySchedule, RetryRelease DEF Next

\* A job goes back to the queue only within the retry policy, also when
\* several handlers hold copies of it and overwrite each other's commits.
THEOREM QueuedWithinPolicy == Spec => RequeuedWithinPolicy
<1> DEFINE Within == \A j \in Jobs :
             row[j].status # "queued" /\ row'[j].status = "queued"
               => \E code \in ErrorCodes : row'[j].attempts <= MaxRetries(code)
<1>1. Init => RetryInv
  BY DEF Init, RetryInv, TypeOK, Row, JobStatus
<1>2. RetryInv /\ [Next]_vars => RetryInv'
  BY RetryNext
<1>3. RetryInv /\ [Next]_vars => [Within]_row
  <2> SUFFICES ASSUME RetryInv, [Next]_vars, row' # row
               PROVE  Within
    OBVIOUS
  <2>1. PICK h \in Handlers : Commit(h)
    BY ZenonT(60) DEF Next, vars, Load, Claim, Cancel, StartProcessing, FinishProcessing, ScheduleRetry,
           Transition, Flush, Abort
  <2>2. ses[h] \in Handler /\ ses[h] # None /\ ses[h].stage = "done"
    BY <2>1 DEF Commit, RetryInv, TypeOK
  <2>3. /\ \A j \in Jobs : j # ses[h].job => row'[j] = row[j]
        /\ row'[ses[h].job].status = ses[h].copy.status
        /\ "attempts" \in ses[h].wrote => row'[ses[h].job].attempts = ses[h].copy.attempts
    BY <2>1, <2>2 DEF Commit, RetryInv, TypeOK, Handler
  <2> SUFFICES ASSUME NEW j \in Jobs, row[j].status # "queued", row'[j].status = "queued"
               PROVE  \E code \in ErrorCodes : row'[j].attempts <= MaxRetries(code)
    OBVIOUS
  <2>4. j = ses[h].job
    BY <2>3
  <2>5. ses[h].copy.status = "queued"
    BY <2>3, <2>4
  <2>6. PICK code \in ErrorCodes :
          "attempts" \in ses[h].wrote /\ ses[h].copy.attempts <= MaxRetries(code)
    BY <2>2, <2>5 DEF RetryInv
  <2>7. row'[j].attempts = ses[h].copy.attempts
    BY <2>3, <2>4, <2>6
  <2> QED BY <2>6, <2>7
<1> QED BY <1>1, <1>2, <1>3, PTL DEF Spec, RequeuedWithinPolicy

(***************************************************************************)
(* The workers and the events                                              *)
(***************************************************************************)
\* What the outcome says of the reason.
LEMMA OutcomeReason ==
  ASSUME NEW result \in Results
  PROVE  /\ Outcome(result) \in Outcomes
         /\ Outcome(result) = "succeeded" <=> result.reason = "ok"
         /\ Outcome(result) = "failed_retryable" => result.reason \in Transient
         /\ Outcome(result) = "failed_terminal" => result.reason \notin Transient
<1>1. \/ \E c \in Crawls : result = [stage |-> "precheck", reason |-> Precheck(c)]
      \/ \E c \in Crawls : result = [stage |-> "postcheck", reason |-> Postcheck(c)]
  BY DEF Results
<1>2. CASE \E c \in Crawls : result = [stage |-> "precheck", reason |-> Precheck(c)]
  <2>1. PICK c \in Crawls : result = [stage |-> "precheck", reason |-> Precheck(c)]
    BY <1>2
  <2>2. Precheck(c) \notin Transient
    BY DEF Precheck, Transient
  <2> QED BY <2>1, <2>2, OutcomesAssumption DEF Outcome
<1>3. CASE \E c \in Crawls : result = [stage |-> "postcheck", reason |-> Postcheck(c)]
  BY <1>3, OutcomesAssumption DEF Outcome, Transient
<1> QED BY <1>1, <1>2, <1>3

\* Every step of the crawl's handlers is a step of JobRunner.
LEMMA WorkStepIsRunnerStep == WorkNext => [Next]_vars
<1> SUFFICES ASSUME WorkNext PROVE Next
  OBVIOUS
<1>1. PICK h \in Handlers :
        \/ StartCrawl(h)
        \/ \E result \in Results : Crawl(h, result)
        \/ BreakOff(h)
        \/ OtherStep(h)
        \/ CommitWork(h)
        \/ AbortWork(h)
  BY DEF WorkNext
<1>2. CASE StartCrawl(h)
  BY <1>2 DEF StartCrawl, Next
<1>3. CASE \E result \in Results : Crawl(h, result)
  <2>1. PICK result \in Results : FinishProcessing(h, Outcome(result))
    BY <1>3 DEF Crawl
  <2> QED BY <2>1, OutcomeReason DEF Next
<1>4. CASE BreakOff(h) \/ AbortWork(h)
  BY <1>4 DEF BreakOff, AbortWork, Next
<1>5. CASE OtherStep(h)
  BY <1>5 DEF OtherStep, Next
<1>6. CASE CommitWork(h)
  BY <1>6 DEF CommitWork, Next
<1> QED BY <1>1, <1>2, <1>3, <1>4, <1>5, <1>6

\* process_crawl_job with its worker and events implements the job runner, so
\* that the runner's theorems are theorems about it.
THEOREM WorkImplementsJobRunner == WorkSpec => Spec
<1>1. WorkInit => Init
  BY DEF WorkInit
<1>2. [WorkNext]_workVars => [Next]_vars
  BY WorkStepIsRunnerStep DEF workVars
<1> QED BY <1>1, <1>2, PTL DEF WorkSpec, Spec

(***************************************************************************)
(* The inductive step of WorkInv                                           *)
(***************************************************************************)
\* A flush leaves the handler with the copy, in the stage it names.
LEMMA FlushMemory ==
  ASSUME JobInv, NEW h \in Handlers, ses[h] # None, NEW copy \in Row,
         NEW columns \in SUBSET {"status", "attempts"},
         NEW pattern \in BOOLEAN, NEW stage \in {"executing", "done"},
         Flush(h, copy, columns, pattern, stage)
  PROVE  \E new \in Handler :
           /\ ses' = [ses EXCEPT ![h] = new] /\ row' = row
           /\ new.op = ses[h].op /\ new.job = ses[h].job
           /\ new.stage = stage /\ new.copy = copy
<1> DEFINE new == [ses[h] EXCEPT !.copy = copy, !.wrote = ses[h].wrote \cup columns,
                                 !.pattern = pattern, !.stage = stage]
<1>1. ses[h] \in Handler
  BY DEF JobInv, TypeOK
<1>2. /\ new \in Handler /\ new.job = ses[h].job /\ new.op = ses[h].op
      /\ new.copy = copy /\ new.stage = stage
  BY <1>1 DEF Handler
<1>3. ses' = [ses EXCEPT ![h] = new] /\ row' = row
  BY DEF Flush
<1> HIDE DEF new
<1> QED BY <1>2, <1>3

LEMMA TransitionMemory ==
  ASSUME JobInv, NEW h \in Handlers, ses[h] # None, NEW to,
         NEW pattern \in BOOLEAN, NEW stage \in {"executing", "done"},
         Transition(h, to, pattern, stage)
  PROVE  /\ CanTransition(ses[h].copy.status, to)
         /\ \E new \in Handler :
              /\ ses' = [ses EXCEPT ![h] = new] /\ row' = row
              /\ new.op = ses[h].op /\ new.job = ses[h].job
              /\ new.stage = stage /\ new.copy.status = to
<1>1. CanTransition(ses[h].copy.status, to) /\ to \in JobStatus
  BY OneTransition DEF Transition
<1>2. ses[h].copy \in Row
  BY DEF JobInv, TypeOK, Handler
<1>3. \E copy \in Row, columns \in SUBSET {"status", "attempts"} :
        copy.status = to /\ Flush(h, copy, columns, pattern, stage)
  <2>1. CASE to = "failed_retryable"
    <3> DEFINE copy == [status |-> to, attempts |-> ses[h].copy.attempts + 1]
    <3>1. copy \in Row /\ copy.status = to
      BY <1>1, <1>2 DEF Row
    <3>2. Flush(h, copy, {"status", "attempts"}, pattern, stage)
      BY <2>1 DEF Transition
    <3> HIDE DEF copy
    <3> QED BY <3>1, <3>2
  <2>2. CASE to # "failed_retryable"
    <3> DEFINE copy == [ses[h].copy EXCEPT !.status = to]
    <3>1. copy \in Row /\ copy.status = to
      BY <1>1, <1>2 DEF Row
    <3>2. Flush(h, copy, {"status"}, pattern, stage)
      BY <2>2 DEF Transition
    <3> HIDE DEF copy
    <3> QED BY <3>1, <3>2
  <2> QED BY <2>1, <2>2
<1>4. PICK copy \in Row, columns \in SUBSET {"status", "attempts"} :
        copy.status = to /\ Flush(h, copy, columns, pattern, stage)
  BY <1>3
<1>5. PICK new \in Handler :
        /\ ses' = [ses EXCEPT ![h] = new] /\ row' = row
        /\ new.op = ses[h].op /\ new.job = ses[h].job
        /\ new.stage = stage /\ new.copy = copy
  BY <1>4, FlushMemory
<1> QED BY <1>1, <1>4, <1>5

\* A handler goes on with its own job: it may publish about it, unless the job
\* has succeeded, and nothing the other handlers hold is about that job.
LEMMA HandlerGoesOn ==
  ASSUME JobInv, JobInv', WorkInv, NEW h \in Handlers, NEW new \in Handler,
         ses' = [ses EXCEPT ![h] = new], row' = row, last' = last,
         NEW event \in Events \cup {None}, NEW result \in Results \cup {None},
         heard' = [heard EXCEPT ![new.job] = event],
         work' = [work EXCEPT ![h] = result],
         row[new.job].status = "succeeded" => event = heard[new.job],
         HandlerInv(h)'
  PROVE  WorkInv'
<1>1. ses \in [Handlers -> Handler \cup {None}] /\ new.job \in Jobs
  BY DEF JobInv, TypeOK, Handler
<1>2. WorkTypeOK'
  BY <1>1 DEF WorkInv, WorkTypeOK
<1>3. ASSUME NEW g \in Handlers PROVE HandlerInv(g)'
  <2>1. CASE g = h
    BY <2>1
  <2>2. CASE g # h
    <3>1. ses'[g] = ses[g] /\ ses'[h] = new /\ work'[g] = work[g]
      BY <1>1, <2>2 DEF WorkInv, WorkTypeOK
    <3>2. new # None
      BY NoneAssumption
    <3>3. ASSUME ses[g] # None PROVE heard'[ses[g].job] = heard[ses[g].job]
      <4>1. ses[g].job # new.job
        BY <2>2, <3>1, <3>2, <3>3 DEF JobInv
      <4>2. ses[g].job \in Jobs
        BY <3>3 DEF JobInv, TypeOK, Handler
      <4> QED BY <4>1, <4>2 DEF WorkInv, WorkTypeOK
    <3>4. HandlerInv(g)
      BY DEF WorkInv
    <3> QED BY <3>1, <3>3, <3>4 DEF HandlerInv
  <2> QED BY <2>1, <2>2
<1>4. SuccessIsLastWord'
  BY <1>1 DEF WorkInv, WorkTypeOK, SuccessIsLastWord
<1>5. OutcomeFitsCrawl'
  BY DEF WorkInv, OutcomeFitsCrawl
<1> QED BY <1>2, <1>3, <1>4, <1>5 DEF WorkInv

\* While a handler works on a job from its queue or running, its row has not
\* succeeded.
LEMMA UnfinishedRow ==
  ASSUME JobInv, NEW h \in Handlers, ses[h] # None,
         \/ ses[h].stage = "executing"
         \/ /\ ses[h].stage = "loaded"
            /\ \/ ses[h].copy.status = "running"
               \/ CanTransition(ses[h].copy.status, "running")
  PROVE  row[ses[h].job].status # "succeeded"
<1>1. CopyInv(ses[h])
  BY DEF JobInv
<1>2. ~CanTransition("succeeded", "running")
  BY DEF CanTransition, JobTransitions
<1> QED BY <1>1, <1>2 DEF CopyInv

LEMMA StartCrawlKeeps ==
  ASSUME JobInv, JobInv', WorkInv, NEW h \in Handlers, StartCrawl(h)
  PROVE  WorkInv'
<1>1. /\ ses[h] # None /\ ses[h] \in Handler /\ ses[h].op = "process"
      /\ ses[h].stage = "loaded"
  BY DEF StartCrawl, StartProcessing, At, JobInv, TypeOK
<1>2. \E new \in Handler :
        /\ ses' = [ses EXCEPT ![h] = new] /\ row' = row
        /\ new.op = ses[h].op /\ new.job = ses[h].job /\ new.stage = "executing"
  <2>1. CASE Transition(h, "running", FALSE, "executing")
    <3>1. /\ CanTransition(ses[h].copy.status, "running")
          /\ \E new \in Handler :
               /\ ses' = [ses EXCEPT ![h] = new] /\ row' = row
               /\ new.op = ses[h].op /\ new.job = ses[h].job
               /\ new.stage = "executing" /\ new.copy.status = "running"
      BY <1>1, <2>1, TransitionMemory, ZenonT(60)
    <3> QED BY <3>1
  <2>2. CASE /\ ses[h].copy.status = "running"
             /\ ses' = [ses EXCEPT ![h].stage = "executing"]
             /\ UNCHANGED <<row, lock, patterns, failures>>
    <3> DEFINE new == [ses[h] EXCEPT !.stage = "executing"]
    <3>1. new \in Handler /\ new.op = ses[h].op /\ new.job = ses[h].job
          /\ new.stage = "executing"
      BY <1>1 DEF Handler
    <3>2. ses' = [ses EXCEPT ![h] = new] /\ row' = row
      BY <2>2
    <3> HIDE DEF new
    <3> QED BY <3>1, <3>2
  <2> QED BY <2>1, <2>2 DEF StartCrawl, StartProcessing
<1>3. PICK new \in Handler :
        /\ ses' = [ses EXCEPT ![h] = new] /\ row' = row
        /\ new.op = ses[h].op /\ new.job = ses[h].job /\ new.stage = "executing"
  BY <1>2
<1>4. ses[h].copy.status = "running" \/ CanTransition(ses[h].copy.status, "running")
  BY <1>1, TransitionMemory DEF StartCrawl, StartProcessing
<1>5. row[ses[h].job].status # "succeeded"
  BY <1>1, <1>4, UnfinishedRow
<1>6. work[h] = None
  BY <1>1 DEF WorkInv, HandlerInv
<1>7. /\ heard' = [heard EXCEPT ![new.job] = "started"]
      /\ work' = [work EXCEPT ![h] = None] /\ last' = last
  BY <1>3, <1>6 DEF StartCrawl, Hear, WorkInv, WorkTypeOK
<1>8. ses'[h] = new /\ work'[h] = None
  BY <1>3, <1>7 DEF JobInv, TypeOK, WorkInv, WorkTypeOK
<1>9. HandlerInv(h)'
  BY <1>1, <1>3, <1>8 DEF HandlerInv
<1> QED BY <1>3, <1>5, <1>7, <1>9, HandlerGoesOn DEF Events

LEMMA CrawlKeeps ==
  ASSUME JobInv, JobInv', WorkInv, NEW h \in Handlers, NEW result \in Results,
         Crawl(h, result)
  PROVE  WorkInv'
<1> DEFINE to == Outcome(result)
           built == to = "succeeded"
           event == IF built THEN "completed" ELSE "failed"
<1>1. /\ ses[h] # None /\ ses[h].op = "process" /\ ses[h].stage = "executing"
      /\ Transition(h, to, built, "done")
  BY DEF Crawl, FinishProcessing, At
<1>2. built \in BOOLEAN /\ event \in Events /\ (to = "succeeded" => event = "completed")
  BY DEF Events
<1>3. /\ heard' = [heard EXCEPT ![ses[h].job] = event]
      /\ work' = [work EXCEPT ![h] = result] /\ last' = last
  BY DEF Crawl, Hear
<1>4. to = Outcome(result)
  OBVIOUS
<1> HIDE DEF to, built, event
<1>5. PICK new \in Handler :
        /\ ses' = [ses EXCEPT ![h] = new] /\ row' = row
        /\ new.op = ses[h].op /\ new.job = ses[h].job
        /\ new.stage = "done" /\ new.copy.status = to
  BY <1>1, <1>2, TransitionMemory
<1>6. row[new.job].status # "succeeded"
  BY <1>1, <1>5, UnfinishedRow
<1>7. result # None
  BY NoResultAssumption
<1>8. new.job \in Jobs /\ ses'[h] = new /\ work'[h] = result /\ heard'[new.job] = event
  BY <1>3, <1>5 DEF JobInv, TypeOK, WorkInv, WorkTypeOK, Handler
<1>9. HandlerInv(h)'
  <2>1. new # None /\ new.op = "process" /\ new.stage = "done"
    BY <1>1, <1>5, NoneAssumption
  <2> QED BY <1>2, <1>4, <1>5, <1>7, <1>8, <2>1 DEF HandlerInv
<1> QED BY <1>2, <1>3, <1>5, <1>6, <1>9, HandlerGoesOn

\* A handler that publishes nothing and processes no crawl.
LEMMA QuietStepKeeps ==
  ASSUME JobInv, JobInv', WorkInv, NEW h \in Handlers, NEW new \in Handler,
         ses' = [ses EXCEPT ![h] = new], row' = row, work[h] = None,
         last' = last, work' = [work EXCEPT ![h] = None],
         heard' = [heard EXCEPT ![new.job] = heard[new.job]],
         \/ new.stage = "loaded"
         \/ /\ new.stage = "done" /\ new.op # "process"
            /\ new.copy.status \notin {"succeeded", "failed_retryable"}
  PROVE  WorkInv'
<1>1. /\ ses'[h] = new /\ new # None /\ new.job \in Jobs
  BY NoneAssumption DEF JobInv, TypeOK, Handler
<1>2. HandlerInv(h)'
  BY <1>1 DEF HandlerInv
<1>3. heard[new.job] \in Events \cup {None}
  BY <1>1 DEF WorkInv, WorkTypeOK
<1>4. PICK event \in Events \cup {None} :
        heard' = [heard EXCEPT ![new.job] = event] /\ event = heard[new.job]
  BY <1>3
<1> QED BY <1>2, <1>4, HandlerGoesOn

LEMMA NothingPublished ==
  ASSUME WorkInv, NEW h \in Handlers, NEW new \in Handler, work[h] = None, OtherStep(h)
  PROVE  /\ last' = last /\ work' = [work EXCEPT ![h] = None]
         /\ heard' = [heard EXCEPT ![new.job] = heard[new.job]]
BY DEF WorkInv, WorkTypeOK, OtherStep, Handler

LEMMA OtherStepKeeps ==
  ASSUME JobInv, JobInv', WorkInv, NEW h \in Handlers, OtherStep(h)
  PROVE  WorkInv'
<1>1. ASSUME NEW j \in Jobs, NEW op \in Operations, Load(h, j, op) PROVE WorkInv'
  <2> DEFINE new == [op |-> op, job |-> j, copy |-> row[j], wrote |-> {},
                     pattern |-> FALSE, stage |-> "loaded"]
  <2>1. new \in Handler /\ new.stage = "loaded"
    BY DEF JobInv, TypeOK, Handler
  <2>2. ses' = [ses EXCEPT ![h] = new] /\ row' = row /\ ses[h] = None
    BY <1>1 DEF Load
  <2>3. work[h] = None
    BY <2>2 DEF WorkInv, HandlerInv
  <2> HIDE DEF new
  <2> QED BY <2>1, <2>2, <2>3, QuietStepKeeps, NothingPublished
<1>2. ASSUME NEW to, to \notin {"succeeded", "failed_retryable"}, ses[h] # None,
             ses[h].op # "process", ses[h].stage = "loaded",
             Transition(h, to, FALSE, "done")
      PROVE  WorkInv'
  <2> DEFINE pattern == FALSE
             stage == "done"
  <2>0. pattern \in BOOLEAN /\ stage \in {"executing", "done"}
        /\ Transition(h, to, pattern, stage)
    BY <1>2
  <2> HIDE DEF pattern
  <2>1. PICK new \in Handler :
          /\ ses' = [ses EXCEPT ![h] = new] /\ row' = row
          /\ new.op = ses[h].op /\ new.job = ses[h].job
          /\ new.stage = "done" /\ new.copy.status = to
    BY <1>2, <2>0, TransitionMemory
  <2>2. work[h] = None
    BY <1>2 DEF WorkInv, HandlerInv
  <2> QED BY <1>2, <2>1, <2>2, QuietStepKeeps, NothingPublished
<1>3. CASE Claim(h)
  BY <1>2, <1>3 DEF Claim, At
<1>4. CASE Cancel(h)
  BY <1>2, <1>4 DEF Cancel, At
<1>5. ASSUME NEW code \in ErrorCodes, ScheduleRetry(h, code) PROVE WorkInv'
  <2>1. ses[h] # None /\ ses[h].op = "retry" /\ ses[h].stage = "loaded" /\ ses[h].copy \in Row
    BY <1>5 DEF ScheduleRetry, At, JobInv, TypeOK, Handler
  <2>2. CASE ShouldRetry(code, ses[h].copy.attempts)
    <3> DEFINE copy == [status |-> "queued", attempts |-> ses[h].copy.attempts + 1]
    <3>1. copy \in Row /\ copy.status = "queued"
      BY <2>1 DEF Row, JobStatus
    <3>2. Flush(h, copy, {"status", "attempts"}, FALSE, "done")
      BY <1>5, <2>2 DEF ScheduleRetry
    <3> HIDE DEF copy
    <3>3. PICK new \in Handler :
            /\ ses' = [ses EXCEPT ![h] = new] /\ row' = row
            /\ new.op = ses[h].op /\ new.job = ses[h].job
            /\ new.stage = "done" /\ new.copy = copy
      BY <2>1, <3>1, <3>2, FlushMemory
    <3>4. work[h] = None
      BY <2>1 DEF WorkInv, HandlerInv
    <3> QED BY <2>1, <3>1, <3>3, <3>4, QuietStepKeeps, NothingPublished
  <2>3. CASE ~ShouldRetry(code, ses[h].copy.attempts)
    BY <1>2, <1>5, <2>1, <2>3 DEF ScheduleRetry
  <2> QED BY <2>2, <2>3
<1> QED BY <1>1, <1>3, <1>4, <1>5 DEF OtherStep

\* A handler ends: it forgets what it processed, and the others hold other jobs.
LEMMA ReleaseKeepsOthers ==
  ASSUME JobInv, WorkInv, NEW h \in Handlers, ses[h] # None, Release(h),
         work' = [work EXCEPT ![h] = None],
         NEW event \in Events \cup {None},
         heard' = [heard EXCEPT ![ses[h].job] = event]
  PROVE  /\ \A g \in Handlers : HandlerInv(g)'
         /\ heard' \in [Jobs -> Events \cup {None}]
         /\ work' \in [Handlers -> Results \cup {None}]
<1>1. ses \in [Handlers -> Handler \cup {None}] /\ ses[h].job \in Jobs
  BY DEF JobInv, TypeOK, Handler
<1>2. ASSUME NEW g \in Handlers PROVE HandlerInv(g)'
  <2>1. CASE g = h
    <3>1. ses'[h] = None /\ work'[h] = None
      BY <1>1 DEF Release, WorkInv, WorkTypeOK
    <3> QED BY <2>1, <3>1 DEF HandlerInv
  <2>2. CASE g # h
    <3>1. ses'[g] = ses[g] /\ work'[g] = work[g]
      BY <1>1, <2>2 DEF Release, WorkInv, WorkTypeOK
    <3>2. ASSUME ses[g] # None PROVE heard'[ses[g].job] = heard[ses[g].job]
      <4>1. ses[g].job # ses[h].job /\ ses[g].job \in Jobs
        BY <2>2, <3>2 DEF JobInv, TypeOK, Handler
      <4> QED BY <4>1 DEF WorkInv, WorkTypeOK
    <3>3. HandlerInv(g)
      BY DEF WorkInv
    <3> QED BY <3>1, <3>2, <3>3 DEF HandlerInv
  <2> QED BY <2>1, <2>2
<1> QED BY <1>1, <1>2 DEF WorkInv, WorkTypeOK

LEMMA AbortKeeps ==
  ASSUME JobInv, WorkInv, NEW h \in Handlers, AbortWork(h) \/ BreakOff(h)
  PROVE  WorkInv'
<1>1. /\ ses[h] # None /\ Release(h) /\ row' = row /\ last' = last /\ ses[h].job \in Jobs
  BY DEF AbortWork, BreakOff, Abort, JobInv, TypeOK, Handler
<1>2. \E event \in Events \cup {None} :
        /\ heard' = [heard EXCEPT ![ses[h].job] = event]
        /\ row[ses[h].job].status = "succeeded" => event = heard[ses[h].job]
  <2>1. CASE AbortWork(h)
    <3>1. heard' = [heard EXCEPT ![ses[h].job] = heard[ses[h].job]]
      BY <1>1, <2>1 DEF AbortWork, WorkInv, WorkTypeOK
    <3>2. heard[ses[h].job] \in Events \cup {None}
      BY <1>1 DEF WorkInv, WorkTypeOK
    <3> QED BY <3>1, <3>2
  <2>2. CASE BreakOff(h)
    <3>1. row[ses[h].job].status # "succeeded"
      BY <1>1, <2>2, UnfinishedRow DEF BreakOff, At
    <3> QED BY <2>2, <3>1 DEF BreakOff, Hear, Events
  <2> QED BY <2>1, <2>2
<1>3. PICK event \in Events \cup {None} :
        /\ heard' = [heard EXCEPT ![ses[h].job] = event]
        /\ row[ses[h].job].status = "succeeded" => event = heard[ses[h].job]
  BY <1>2
<1>4. work' = [work EXCEPT ![h] = None]
  <2>1. CASE AbortWork(h)
    BY <2>1 DEF AbortWork
  <2>2. CASE BreakOff(h)
    <3>1. work[h] = None
      BY <2>2 DEF BreakOff, At, WorkInv, HandlerInv
    <3> QED BY <2>2, <3>1 DEF BreakOff, WorkInv, WorkTypeOK
  <2> QED BY <2>1, <2>2
<1>5. /\ \A g \in Handlers : HandlerInv(g)'
      /\ heard' \in [Jobs -> Events \cup {None}]
      /\ work' \in [Handlers -> Results \cup {None}]
  BY <1>1, <1>3, <1>4, ReleaseKeepsOthers
<1>6. SuccessIsLastWord' /\ OutcomeFitsCrawl'
  BY <1>1, <1>3 DEF WorkInv, WorkTypeOK, SuccessIsLastWord, OutcomeFitsCrawl
<1> QED BY <1>1, <1>5, <1>6 DEF WorkInv, WorkTypeOK

LEMMA CommitKeeps ==
  ASSUME JobInv, WorkInv, NEW h \in Handlers, CommitWork(h)
  PROVE  WorkInv'
<1> DEFINE job == ses[h].job
           status == ses[h].copy.status
<1>1. /\ ses[h] # None /\ ses[h].stage = "done" /\ Release(h) /\ job \in Jobs
      /\ ses[h] \in Handler /\ HandlerInv(h)
  BY DEF CommitWork, Commit, JobInv, TypeOK, Handler, WorkInv
<1>2. /\ row'[job].status = status
      /\ \A j \in Jobs \ {job} : row'[j] = row[j]
  BY <1>1 DEF CommitWork, Commit, JobInv, TypeOK
<1>3. /\ last'[job] = work[h] /\ \A j \in Jobs \ {job} : last'[j] = last[j]
      /\ last' \in [Jobs -> Results \cup {None}]
  BY <1>1 DEF CommitWork, WorkInv, WorkTypeOK
<1>4. heard' = heard /\ heard[job] \in Events \cup {None}
      /\ heard' = [heard EXCEPT ![job] = heard[job]]
      /\ work' = [work EXCEPT ![h] = None]
  BY <1>1 DEF CommitWork, WorkInv, WorkTypeOK
<1>5. /\ \A g \in Handlers : HandlerInv(g)'
      /\ heard' \in [Jobs -> Events \cup {None}]
      /\ work' \in [Handlers -> Results \cup {None}]
  BY <1>1, <1>4, ReleaseKeepsOthers
<1>6. /\ status = "succeeded" => heard[job] = "completed"
      /\ \/ work[h] = None /\ status \notin {"succeeded", "failed_retryable"}
         \/ work[h] \in Results /\ work[h] # None /\ status = Outcome(work[h])
  BY <1>1 DEF HandlerInv, WorkInv, WorkTypeOK
<1>7. /\ status = "succeeded" => work[h] # None /\ work[h].reason = "ok"
      /\ status = "failed_retryable" => work[h] # None /\ work[h].reason \in Transient
      /\ status = "failed_terminal" => work[h] = None \/ work[h].reason \notin Transient
  BY <1>6, OutcomeReason
<1> HIDE DEF job, status
<1>8. SuccessIsLastWord'
  BY <1>2, <1>4, <1>6 DEF SuccessIsLastWord, WorkInv
<1>9. OutcomeFitsCrawl'
  BY <1>2, <1>3, <1>7 DEF OutcomeFitsCrawl, WorkInv
<1> QED BY <1>3, <1>5, <1>8, <1>9 DEF WorkInv, WorkTypeOK

LEMMA InitWorkInv == WorkInit => WorkInv
BY DEF WorkInit, Init, WorkInv, WorkTypeOK, HandlerInv, SuccessIsLastWord, OutcomeFitsCrawl

LEMMA WorkNextKeeps ==
  ASSUME JobInv, JobInv', WorkInv, [WorkNext]_workVars
  PROVE  WorkInv'
<1>1. CASE UNCHANGED workVars
  BY <1>1 DEF workVars, vars, WorkInv, WorkTypeOK, HandlerInv, SuccessIsLastWord,
              OutcomeFitsCrawl
<1>2. CASE WorkNext
  BY <1>2, StartCrawlKeeps, CrawlKeeps, AbortKeeps, OtherStepKeeps, CommitKeeps
     DEF WorkNext
<1> QED BY <1>1, <1>2

LEMMA WorkInvariant == ASSUME Exclusive = TRUE PROVE WorkSpec => [](JobInv /\ WorkInv)
<1>1. WorkInit => JobInv /\ WorkInv
  BY InitJobInv, InitWorkInv DEF WorkInit
<1>2. JobInv /\ WorkInv /\ [WorkNext]_workVars => JobInv' /\ WorkInv'
  <2> SUFFICES ASSUME JobInv, WorkInv, [WorkNext]_workVars PROVE JobInv' /\ WorkInv'
    OBVIOUS
  <2>1. [Next]_vars
    BY WorkStepIsRunnerStep DEF workVars
  <2>2. JobInv'
    BY <2>1, NextPreserves
  <2> QED BY <2>2, WorkNextKeeps
<1> QED BY <1>1, <1>2, PTL DEF WorkSpec

(***************************************************************************)
(* Theorems                                                                *)
(***************************************************************************)
\* With one handler per job, nothing is published about a job after its stored
\* success but what announced it: no redelivery contradicts it.
THEOREM SuccessStands == ASSUME Exclusive = TRUE PROVE WorkSpec => []SuccessIsLastWord
<1>1. JobInv /\ WorkInv => SuccessIsLastWord
  BY DEF WorkInv
<1> QED BY <1>1, WorkInvariant, PTL

\* With one handler per job, the stored outcome is the one its crawl earned:
\* a pattern stands on accepted content, a retry on a failed fetch.
THEOREM OutcomesAreEarned == ASSUME Exclusive = TRUE PROVE WorkSpec => []OutcomeFitsCrawl
<1>1. JobInv /\ WorkInv => OutcomeFitsCrawl
  BY DEF WorkInv
<1> QED BY <1>1, WorkInvariant, PTL

\* What a worker lets through keeps its limit and the job's, whatever the
\* limits and however large the content: the cut is the only place where a
\* limit is enforced before parsing, and a limit that cuts from the end is
\* refused where the worker looks at it.
THEOREM LimitsAreKept == WorkSpec => []FetchesWithinLimits
<1>1. ASSUME NEW c \in PassingCrawls PROVE WithinLimits(c)
  <2>1. c \in Crawls /\ Precheck(c) = "ok" /\ Postcheck(c) = "ok"
    BY <1>1 DEF PassingCrawls
  <2>2. c.size \in Nat /\ c.limit \in Int /\ WorkerMax \in Nat
        /\ c.given \in {"null_config", "unset", "null", "number"}
    BY <2>1, WorkerAssumption DEF Crawls
  <2>3. Limit(c) \in Int /\ ByteSize(c) \in Int
    BY <2>2 DEF Limit, ByteSize
  <2>4. ByteSize(c) <= WorkerMax
    <3>1. ~(ByteSize(c) > WorkerMax)
      BY <2>1 DEF Postcheck
    <3> QED BY <2>2, <2>3, <3>1
  <2>5. ASSUME c.worker # "render", c.given = "number" PROVE ByteSize(c) <= c.limit
    <3>1. ~InvalidLimit(c)
      BY <2>1 DEF Precheck
    <3>2. c.limit > 0 /\ Limit(c) = c.limit
      BY <2>2, <2>5, <3>1 DEF InvalidLimit, Limit
    <3> QED BY <2>2, <3>2 DEF ByteSize
  <2> QED BY <2>4, <2>5 DEF WithinLimits
<1>2. FetchesWithinLimits
  BY <1>1 DEF FetchesWithinLimits, WorkersKeepLimits
<1> QED BY <1>2, PTL
=============================================================================
