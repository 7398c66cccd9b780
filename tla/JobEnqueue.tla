----------------------------- MODULE JobEnqueue -----------------------------
(***************************************************************************)
(* Idempotent creation of crawl jobs.  enqueue_crawl_job looks for a job   *)
(* with the same idempotency key and inserts one if there is none; the     *)
(* unique index ux_crawl_jobs_idem refuses the second of two concurrent    *)
(* inserts, once the first has committed.  The loser rolls its transaction *)
(* back and answers with the job of the winner.                            *)
(*                                                                         *)
(* A caller may enqueue several jobs in one transaction: the crawl-jobs    *)
(* route enqueues one, a planner one per URL it takes from the frontier.   *)
(***************************************************************************)
EXTENDS Naturals, Sequences

CONSTANTS
  Keys,      \* idempotency keys: source, job type and content hash
  Sessions,
  Batches,   \* sequences of keys a caller enqueues in one transaction
  None

ASSUME BatchAssumption == Batches \subseteq Seq(Keys)

Caller == [batch : Seq(Keys),           \* keys still to enqueue
           missing : BOOLEAN,           \* the select for the next key found none
           pending : SUBSET Keys,       \* keys inserted in the open transaction
           created : SUBSET Keys]       \* keys answered with created=True

ASSUME NoneAssumption == None \notin Caller

VARIABLES
  stored,   \* committed rows of crawl_jobs per key
  told,     \* transactions that committed after a created=True answer, per key
  ses

vars == <<stored, told, ses>>

Init ==
  /\ stored = [k \in Keys |-> 0]
  /\ told = [k \in Keys |-> 0]
  /\ ses = [x \in Sessions |-> None]

Begin(x, batch) ==
  /\ ses[x] = None
  /\ ses' = [ses EXCEPT ![x] =
       [batch |-> batch, missing |-> FALSE, pending |-> {}, created |-> {}]]
  /\ UNCHANGED <<stored, told>>

Enqueuing(x) == ses[x] # None /\ ses[x].batch # <<>>

\* The transaction sees committed rows and its own.
Select(x) ==
  LET k == Head(ses[x].batch)
  IN  /\ Enqueuing(x)
      /\ ~ses[x].missing
      /\ ses' = IF stored[k] > 0 \/ k \in ses[x].pending
                  THEN [ses EXCEPT ![x].batch = Tail(@)]
                  ELSE [ses EXCEPT ![x].missing = TRUE]
      /\ UNCHANGED <<stored, told>>

\* An insert waits for another open transaction that has inserted the key.
Inserting(x) ==
  /\ Enqueuing(x)
  /\ ses[x].missing
  /\ \A y \in Sessions \ {x} :
       ses[y] # None => Head(ses[x].batch) \notin ses[y].pending

\* Seeded fault: the unique index is missing.
InsertUnindexed(x) ==
  LET k == Head(ses[x].batch)
  IN  /\ Inserting(x)
      /\ ses' = [ses EXCEPT ![x] =
           [batch |-> Tail(@.batch), missing |-> FALSE,
            pending |-> @.pending \cup {k}, created |-> @.created \cup {k}]]
      /\ UNCHANGED <<stored, told>>

Insert(x) ==
  LET k == Head(ses[x].batch)
  IN  /\ Inserting(x)
      /\ stored[k] = 0
      /\ ses' = [ses EXCEPT ![x] =
           [batch |-> Tail(@.batch), missing |-> FALSE,
            pending |-> @.pending \cup {k}, created |-> @.created \cup {k}]]
      /\ UNCHANGED <<stored, told>>

\* Seeded fault: the loser is told that it created the job.
ConflictAnsweredCreated(x) ==
  /\ Inserting(x)
  /\ stored[Head(ses[x].batch)] > 0
  /\ ses' = [ses EXCEPT ![x] =
       [batch |-> Tail(@.batch), missing |-> FALSE, pending |-> {},
        created |-> @.created \cup {Head(@.batch)}]]
  /\ UNCHANGED <<stored, told>>

\* IntegrityError: the whole transaction is rolled back, whatever the caller
\* had written in it, and the existing job is the answer.
InsertConflict(x) ==
  /\ Inserting(x)
  /\ stored[Head(ses[x].batch)] > 0
  /\ ses' = [ses EXCEPT ![x] =
       [batch |-> Tail(@.batch), missing |-> FALSE, pending |-> {},
        created |-> @.created]]
  /\ UNCHANGED <<stored, told>>

Commit(x) ==
  /\ ses[x] # None
  /\ ses[x].batch = <<>>
  /\ stored' = [k \in Keys |-> IF k \in ses[x].pending THEN stored[k] + 1 ELSE stored[k]]
  /\ told' = [k \in Keys |-> IF k \in ses[x].created THEN told[k] + 1 ELSE told[k]]
  /\ ses' = [ses EXCEPT ![x] = None]

\* The caller fails, or the database breaks a deadlock of two inserts.
Abort(x) ==
  /\ ses[x] # None
  /\ ses' = [ses EXCEPT ![x] = None]
  /\ UNCHANGED <<stored, told>>

Next ==
  \E x \in Sessions :
    \/ \E batch \in Batches : Begin(x, batch)
    \/ Select(x)
    \/ Insert(x)
    \/ InsertConflict(x)
    \/ Commit(x)
    \/ Abort(x)

Spec == Init /\ [][Next]_vars

(***************************************************************************)
(* Properties                                                              *)
(***************************************************************************)
TypeOK ==
  /\ stored \in [Keys -> Nat]
  /\ told \in [Keys -> Nat]
  /\ ses \in [Sessions -> Caller \cup {None}]

\* However many callers race, a key has at most one job.
OneJobPerKey == \A k \in Keys : stored[k] <= 1

\* The callers that were told created=True and committed are those whose job
\* is in the table: nobody is told so for a job that was rolled back, and no
\* two callers for the same job.
CreatedMeansStored == \A k \in Keys : told[k] = stored[k]

(***************************************************************************)
(* The inductive invariant, for one key per transaction                    *)
(***************************************************************************)
\* A key inserted in an open transaction has no committed job and is in no
\* other open transaction: the index makes a second insert wait.
PendingInv ==
  \A x \in Sessions : ses[x] # None =>
    \A k \in ses[x].pending :
      /\ stored[k] = 0
      /\ \A y \in Sessions \ {x} : ses[y] # None => k \notin ses[y].pending

\* A caller with one key has inserted what it was told it created, and has
\* not inserted anything that a conflict could roll back.
AnswerInv ==
  \A x \in Sessions : ses[x] # None =>
    /\ ses[x].created = ses[x].pending
    /\ Len(ses[x].batch) <= 1
    /\ ses[x].batch # <<>> => ses[x].pending = {}

\* What the open transactions hold will be stored, and is what was answered:
\* the strengthening under which both properties are inductive.
EnqueueInv ==
  /\ TypeOK
  /\ OneJobPerKey
  /\ PendingInv
  /\ AnswerInv
  /\ CreatedMeansStored
=============================================================================
