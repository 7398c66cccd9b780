--------------------------------- MODULE Intake ---------------------------------
(***************************************************************************)
(* How a page enters the system: a request registers its URL, later ones   *)
(* have a crawl job created for the source that was answered.  The two     *)
(* routes share the database and nothing else; the crawl-jobs route loads  *)
(* the source first and answers 404 if there is none.  One job type and    *)
(* content hash: the idempotency key is the source.                        *)
(***************************************************************************)
EXTENDS JobEnqueue

CONSTANT Urls

ASSUME RouteAssumption == Keys = Urls /\ Batches = {<<u>> : u \in Urls}

VARIABLES rows, reg, answered, doubled

Registry == INSTANCE Registration

ASSUME RegistryAssumption == None \notin Registry!Request /\ Registry!Registrable

registryVars == <<rows, reg, answered, doubled>>

intakeVars == <<stored, told, ses, rows, reg, answered, doubled>>

IntakeInit == Init /\ Registry!RegistryInit

\* A session handles one request at a time.
RegistrationStep ==
  /\ \/ \E x \in Sessions : ses[x] = None /\ Registry!RegistryStep(x)
     \/ \E u \in Urls : Registry!Ingest(u)
  /\ UNCHANGED vars

CreateCrawlJob(x, u) ==
  /\ reg[x] = None
  /\ Registry!Stored(u)
  /\ Begin(x, <<u>>)

EnqueueStep ==
  /\ \E x \in Sessions :
       \/ \E u \in Urls : CreateCrawlJob(x, u)
       \/ Select(x)
       \/ Insert(x)
       \/ InsertConflict(x)
       \/ Commit(x)
       \/ Abort(x)
  /\ UNCHANGED registryVars

IntakeNext == RegistrationStep \/ EnqueueStep

IntakeSpec == IntakeInit /\ [][IntakeNext]_intakeVars

(***************************************************************************)
(* Properties                                                              *)
(***************************************************************************)
IntakeTypeOK == TypeOK /\ Registry!RegistryTypeOK

\* A committed answer names a stored source of the page that was asked for.
AnswersNameStoredPages == Registry!AnswersNameStoredPages

\* A request that comes when its page is registered never inserts a row.
DuplicatesOnlyByRace == Registry!DuplicatesOnlyByRace

\* What the two idempotent routes promise together: a page whose registrations
\* never overlapped and that no dataset brought in has at most one crawl job,
\* however its URL was spelled and however many requests raced for the job.
OneJobPerPage ==
  \A u, v \in Urls :
    /\ u \notin doubled /\ Registry!SamePage(u, v)
    /\ stored[u] > 0 /\ stored[v] > 0
    => u = v
==================================================================================
