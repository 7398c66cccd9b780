---------------------------- MODULE FetchWorkers ----------------------------
(***************************************************************************)
(* The fetch workers: what each does with a job between precheck and       *)
(* postcheck.  Sizes are small numbers; WorkerMax is the size limit a      *)
(* worker is built with, and job_config may carry another, max_bytes.      *)
(***************************************************************************)
EXTENDS Integers

CONSTANTS
  WorkerMax,   \* max_bytes of the workers
  MaxBytes,    \* numbers a job_config gives as max_bytes
  Sizes        \* sizes of what is fetched

ASSUME WorkerAssumption ==
  /\ WorkerMax \in Nat \ {0}
  /\ MaxBytes \subseteq Int
  /\ Sizes \subseteq Nat

Workers == {"http", "render", "pdf", "file"}

\* A job and what its fetch meets.  job_config is null or its max_bytes is not
\* there ("unset"), null, or a number; content of another type is "blocked" when the worker
\* has a list of allowed types, and "unparsable" content makes the parser raise.
Crawls ==
  {c \in [worker : Workers,
          url : {"address", "blank", "missing"},
          supported : BOOLEAN,       \* the worker knows the job_type
          forbidden : BOOLEAN,       \* job_config asks for a login, a paywall bypass...
          given : {"null_config", "unset", "null", "number"}, limit : MaxBytes,
          fetched : {"error", "content"}, size : Sizes,
          content : {"plain", "encrypted", "blocked", "unparsable"}] :
     c.given = "null_config" => ~c.forbidden}

\* The http and pdf workers strip the url before they judge it.
NoUrl(c) == c.url = "missing" \/ (c.url = "blank" /\ c.worker \in {"http", "pdf"})

Limit(c) == IF c.given = "number" THEN c.limit ELSE WorkerMax

\* Seeded fault: the limit of the job is taken as it comes.
ValidLimit(c) == FALSE

\* The render worker looks at no limit, and only the file worker asks for a number.
InvalidLimit(c) ==
  /\ c.worker # "render"
  /\ \/ c.given = "number" /\ c.limit <= 0
     \/ c.given = "null" /\ c.worker = "file"

\* Comparing a null limit raises in the pdf worker's precheck.
Precheck(c) ==
  IF NoUrl(c) THEN "missing_or_invalid_url"
  ELSE IF ~c.supported THEN "unsupported_job_type"
  ELSE IF c.worker = "render" /\ c.forbidden THEN "forbidden_action"
  ELSE IF InvalidLimit(c) THEN "invalid_max_bytes"
  ELSE IF c.worker = "pdf" /\ c.given = "null" THEN "raises"
  ELSE "ok"

\* content[:limit] when the content is longer than the limit; a negative limit
\* cuts from the end.
ByteSize(c) ==
  LET limit == Limit(c)
      kept == IF limit >= 0 THEN limit ELSE c.size + limit
  IN  IF c.size <= limit THEN c.size ELSE IF kept > 0 THEN kept ELSE 0

\* The http worker looks for its limit in a null job_config before the fetch;
\* the others take it for an empty one.
ConfigRaises(c) == c.worker = "http" /\ c.given = "null_config"

\* Inside the fetch a null limit raises as well, and is taken for a failure
\* of the fetch.
FetchFails(c) == c.fetched = "error" \/ c.given = "null"

\* The pdf and file workers parse before postcheck, the others leave it to
\* process_crawl_job; a parser that raises is not caught by either.
ParseRaises(c) == c.content = "unparsable"

\* Nothing looks at the HTTP status of a fetch that got an answer.
Postcheck(c) ==
  IF ConfigRaises(c) THEN "raises"
  ELSE IF FetchFails(c) THEN IF c.worker = "render" THEN "render_failed" ELSE "fetch_failed"
  ELSE IF c.worker \in {"pdf", "file"} /\ ParseRaises(c) THEN "raises"
  ELSE IF ByteSize(c) > WorkerMax THEN "too_large"
  ELSE IF c.worker = "http" /\ c.content = "blocked" THEN "content_type_blocked"
  ELSE IF c.worker = "pdf" /\ c.content = "encrypted" THEN "encrypted_pdf"
  ELSE IF ParseRaises(c) THEN "raises"
  ELSE "ok"

\* What a worker lets through is no larger than its own limit, nor than the limit
\* of the job where the worker checks that there is one.
WithinLimits(c) ==
  /\ ByteSize(c) <= WorkerMax
  /\ c.worker # "render" /\ c.given = "number" => ByteSize(c) <= c.limit

PassingCrawls == {c \in Crawls : Precheck(c) = "ok" /\ Postcheck(c) = "ok"}

WorkersKeepLimits == \A c \in PassingCrawls : WithinLimits(c)
=============================================================================
