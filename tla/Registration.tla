----------------------------- MODULE Registration -----------------------------
(***************************************************************************)
(* Registration of sources, statement by statement.  register_source looks *)
(* for a row with the URL, then for one with its canonical form, and       *)
(* inserts one if it found neither.  The unique index ux_web_sources_url   *)
(* refuses a second row of one URL; nothing refuses a second row of one    *)
(* canonical URL.  Datasets are ingested without a canonical URL.          *)
(*                                                                         *)
(* A row is named by its URL, which the index makes a key.                 *)
(***************************************************************************)
EXTENDS FiniteSets, UrlCanon

CONSTANTS
  Urls,       \* the URLs registered or ingested
  Sessions,
  None

Phase == {"by_url", "by_canonical", "insert", "flushed"}

\* known: history, whether the page had a registered row when the request came.
Request == [url : Urls, phase : Phase, known : BOOLEAN]

\* Other URLs are answered 400.
Registrable == Urls \subseteq Url /\ \A u \in Urls : ExtractDomain(u) # ""

VARIABLES
  rows,      \* committed rows of web_sources, and whether they were registered
  reg,       \* the registration each session is handling, None when idle
  answered,  \* history: <<url, source>> of the last answer, {} before it
  doubled    \* history: URLs of pages with overlapping registrations, or ingested

RegistryInit ==
  /\ rows = [u \in Urls |-> "absent"]
  /\ reg = [x \in Sessions |-> None]
  /\ answered = {}
  /\ doubled = {}

Stored(u) == rows[u] # "absent"

\* The rows a lookup by the canonical form of u finds.
SameCanonical(u) ==
  {v \in Urls : rows[v] = "registered" /\ CanonicalizeUrl(v) = CanonicalizeUrl(u)}

RegisteredAs(u) == {v \in Urls : rows[v] = "registered" /\ SamePage(u, v)}

Spellings(u) == {v \in Urls : SamePage(u, v)}

Register(x, u) ==
  /\ reg[x] = None
  /\ reg' = [reg EXCEPT ![x] =
       [url |-> u, phase |-> "by_url", known |-> RegisteredAs(u) # {}]]
  /\ UNCHANGED <<rows, answered, doubled>>

In(x, phase) == reg[x] # None /\ reg[x].phase = phase

Proceed(x, phase) ==
  /\ reg' = [reg EXCEPT ![x].phase = phase]
  /\ UNCHANGED <<rows, answered, doubled>>

Answer(x, source) ==
  /\ reg' = [reg EXCEPT ![x] = None]
  /\ answered' = {<<reg[x].url, source>>}

Found(x, source) ==
  /\ Answer(x, source)
  /\ UNCHANGED <<rows, doubled>>

\* The handler raises (IntegrityError, MultipleResultsFound), or dies.
Abort(x) ==
  /\ reg[x] # None
  /\ reg' = [reg EXCEPT ![x] = None]
  /\ UNCHANGED <<rows, answered, doubled>>

LookUpUrl(x) ==
  /\ In(x, "by_url")
  /\ IF Stored(reg[x].url) THEN Found(x, reg[x].url) ELSE Proceed(x, "by_canonical")

\* Seeded fault: only the URL itself is looked up.
SkipCanonical(x) == In(x, "by_canonical") /\ Proceed(x, "insert")

\* scalar_one_or_none raises if there are two.
LookUpCanonical(x) ==
  LET found == SameCanonical(reg[x].url)
  IN  /\ In(x, "by_canonical")
      /\ \/ found = {} /\ Proceed(x, "insert")
         \/ \E u \in found : found = {u} /\ Found(x, u)
         \/ Cardinality(found) > 1 /\ Abort(x)

\* An insert waits for another open transaction that has inserted the URL.
Uncontended(u) == \A y \in Sessions : In(y, "flushed") => reg[y].url # u

Insert(x) ==
  /\ In(x, "insert")
  /\ Uncontended(reg[x].url)
  /\ IF Stored(reg[x].url) THEN Abort(x) ELSE Proceed(x, "flushed")

Overlaps(x) ==
  \E y \in Sessions \ {x} : reg[y] # None /\ SamePage(reg[x].url, reg[y].url)

Commit(x) ==
  /\ In(x, "flushed")
  /\ rows' = [rows EXCEPT ![reg[x].url] = "registered"]
  /\ Answer(x, reg[x].url)
  /\ doubled' = IF Overlaps(x) THEN doubled \cup Spellings(reg[x].url) ELSE doubled

\* ingest_features inserts a row without a canonical URL.
Ingest(u) ==
  /\ ~Stored(u)
  /\ Uncontended(u)
  /\ rows' = [rows EXCEPT ![u] = "ingested"]
  /\ doubled' = doubled \cup Spellings(u)
  /\ UNCHANGED <<reg, answered>>

RegistryStep(x) ==
  \/ \E u \in Urls : Register(x, u)
  \/ LookUpUrl(x)
  \/ LookUpCanonical(x)
  \/ Insert(x)
  \/ Commit(x)
  \/ Abort(x)

RegistryNext == (\E x \in Sessions : RegistryStep(x)) \/ (\E u \in Urls : Ingest(u))

(***************************************************************************)
(* Properties                                                              *)
(***************************************************************************)
RegistryTypeOK ==
  /\ rows \in [Urls -> {"absent", "registered", "ingested"}]
  /\ reg \in [Sessions -> Request \cup {None}]
  /\ answered \subseteq Urls \X Urls
  /\ doubled \subseteq Urls

\* A committed answer names a stored source of the page that was asked for,
\* whichever of the two lookups or the insert found it.  Rows stay, so it is
\* enough to look at each answer when it is the last one.
AnswersNameStoredPages ==
  \A answer \in answered : Stored(answer[2]) /\ SamePage(answer[1], answer[2])

\* A second row of a page comes only from registrations that overlap: a
\* request that comes when the page is registered never inserts, however it
\* spells the URL.
DuplicatesOnlyByRace ==
  \A x \in Sessions : In(x, "insert") \/ In(x, "flushed") => ~reg[x].known
===============================================================================
