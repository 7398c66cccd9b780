-------------------------- MODULE SourceGovernance --------------------------
(***************************************************************************)
(* Sources, the patterns built from them, and everything that decides      *)
(* whether a pattern may reach the generation engine: registration,        *)
(* dataset ingestion, policy checks, delete requests and their             *)
(* propagation, rechecks, manual reviews and the crawl workers that write  *)
(* patterns.                                                               *)
(*                                                                         *)
(* A handler runs in a database session: it loads rows, computes, and its  *)
(* writes become visible at commit, all together.  Other handlers may      *)
(* commit in between, since rows are loaded without a lock (READ           *)
(* COMMITTED, no version column).  The ORM writes a column only if its new *)
(* value differs from the value LOADED (operator Column): a handler that   *)
(* sets a column to what it read writes nothing, whatever the row holds by *)
(* then.                                                                   *)
(***************************************************************************)
EXTENDS GovernanceRules

CONSTANTS
  Sources,          \* identities a web_sources row may take
  Patterns,         \* identities a web_patterns row may take
  Requests,         \* identities a web_delete_requests row may take
  Snapshots,        \* identities a crawl_snapshots row may take
  Sessions,         \* requests and workers that may run at the same time
  Domains,          \* domains of the sources
  DomainOf,         \* [Sources -> Domains]
  Features,         \* governance results the crawled content may have
  PatternLicenses,  \* licence tags callers attach to a pattern or a dataset
  ClueOf,           \* [Sources -> LicenseStatus]: what auto_classify makes of
                    \* a source's metadata, which nothing changes
  Ops,              \* the operations users, operators and workers invoke
  MatchedRequests,  \* TRUE: operators resolve a source's own delete requests
  Drained,          \* TRUE: operators propagate a deletion when the source's
                    \* crawls and approvals have ended; none begins afterwards
  None

Feature == [pii : PiiStatus, reuse : ReuseRisk, recon : ReconResult]

AllOps == {"register", "ingest", "policy_check", "delete_request", "apply_delete",
           "recheck_hold", "recheck_removed", "approve", "block", "crawl",
           "snapshot"}

SourceRow == [status : SourceStatus \cup {ManualReview}, license : LicenseStatus]

PatternRow == [source : Sources, status : PatternStatus, license : LicenseStatus,
               feature : Feature]

RequestRow == [source : Sources, status : {"received", "resolved"}]

SnapshotRow == [source : Sources, access : {"restricted", "blocked"}]

\* The allow_crawl column of a domain's crawl_policies row, if there is one.
PolicyCell == {"absent", "allow", "deny"}

\* What a policy check has decided, and the policy row it has loaded.
Decision == [row : SourceRow, policy : PolicyCell]

Handler == [op : AllOps, loaded : BOOLEAN, source : Sources,
            seen : SourceRow \cup {None}, pats : SUBSET Patterns,
            snaps : {None} \cup SUBSET Snapshots,
            decision : Decision \cup {None}, request : Requests \cup {None}]

ASSUME ConstantsAssumption ==
  /\ DomainOf \in [Sources -> Domains]
  /\ Features \subseteq Feature
  /\ PatternLicenses \subseteq LicenseStatus
  /\ ClueOf \in [Sources -> LicenseStatus]
  /\ Ops \subseteq AllOps
  /\ MatchedRequests \in BOOLEAN
  /\ Drained \in BOOLEAN
  /\ None \notin SourceRow \cup PatternRow \cup RequestRow \cup SnapshotRow
                   \cup Decision \cup Handler \cup Requests
  /\ \A ns \in SUBSET Snapshots : ns # None

VARIABLES
  src,       \* web_sources: the row of each source, None before it exists
  pat,       \* web_patterns
  req,       \* web_delete_requests
  policy,    \* crawl_policies.allow_crawl per domain
  snaps,     \* crawl_snapshots
  jobs,      \* sources with a crawl job that a worker may take
  ses,       \* the handler each session is running, None when it is idle
  retired    \* history: sources whose deletion or removal was answered "done"

vars == <<src, pat, req, policy, snaps, jobs, ses, retired>>

Init ==
  /\ src = [s \in Sources |-> None]
  /\ pat = [p \in Patterns |-> None]
  /\ req = [r \in Requests |-> None]
  /\ policy = [d \in Domains |-> "absent"]
  /\ snaps = [n \in Snapshots |-> None]
  /\ jobs = {}
  /\ ses = [x \in Sessions |-> None]
  /\ retired = {}

(***************************************************************************)
(* Sessions                                                                *)
(***************************************************************************)
StoredPatterns == {p \in Patterns : pat[p] # None}

PatternsOf(s) == {p \in StoredPatterns : pat[p].source = s}

SnapshotsOf(s) == {n \in Snapshots : snaps[n] # None /\ snaps[n].source = s}

\* The value a column holds after a handler that loaded seen and assigned
\* new commits, when the row holds current.
Column(current, seen, new) == IF seen = new THEN current ELSE new

\* Session x starts handling operation op on source s, having loaded row.
Begin(x, op, s, row, pats, request) ==
  /\ op \in Ops
  /\ ses[x] = None
  /\ ses' = [ses EXCEPT ![x] =
       [op |-> op, loaded |-> FALSE, source |-> s, seen |-> row, pats |-> pats,
        snaps |-> None, decision |-> None, request |-> request]]
  /\ UNCHANGED <<src, pat, req, policy, snaps, jobs, retired>>

Running(x, op) == ses[x] # None /\ ses[x].op = op

Idle(x) == ses' = [ses EXCEPT ![x] = None]

\* The procedure under which a deletion is complete, if Drained: nothing in
\* the code keeps operators and reviewers to it.
Busy(s) ==
  \/ s \in jobs
  \/ \E x \in Sessions : (Running(x, "crawl") \/ Running(x, "approve")) /\ ses[x].source = s

Deleting(s) ==
  \/ \E x \in Sessions : Running(x, "apply_delete") /\ ses[x].source = s
  \/ \E r \in Requests : req[r] # None /\ req[r].source = s /\ req[r].status = "resolved"

\* A handler that raises, or whose process dies, leaves no trace: its
\* session is rolled back.
Crash(x) ==
  /\ ses[x] # None
  /\ Idle(x)
  /\ UNCHANGED <<src, pat, req, policy, snaps, jobs, retired>>

(***************************************************************************)
(* Sources enter the system.                                               *)
(***************************************************************************)
Register(s) ==
  /\ "register" \in Ops
  /\ src[s] = None
  /\ src' = [src EXCEPT ![s] = [status |-> "policy_pending", license |-> "unknown"]]
  /\ UNCHANGED <<pat, req, policy, snaps, jobs, ses, retired>>

BuiltPattern(s, license, feature) ==
  [source |-> s, license |-> license, feature |-> feature,
   status |-> GovernanceStatus(feature.pii, feature.reuse, feature.recon)]

\* A dataset is one source, created as parsed, with its patterns, in one
\* transaction.
Ingest(s, license) ==
  /\ "ingest" \in Ops
  /\ src[s] = None
  /\ src' = [src EXCEPT ![s] = [status |-> "parsed", license |-> license]]
  /\ \E new \in SUBSET (Patterns \ StoredPatterns) : \E feature \in [new -> Features] :
       pat' = [p \in Patterns |-> IF p \in new
                                    THEN BuiltPattern(s, license, feature[p])
                                    ELSE pat[p]]
  /\ UNCHANGED <<req, policy, snaps, jobs, ses, retired>>

(***************************************************************************)
(* Policy check: load the source, ask for robots.txt (a network call),     *)
(* load the domain's policy row, commit the verdict on both.               *)
(***************************************************************************)
PolicyCheckRead(x, s) ==
  /\ src[s] # None
  /\ Begin(x, "policy_check", s, src[s], {}, None)

PolicyCheckDecide(x) ==
  /\ Running(x, "policy_check")
  /\ ~ses[x].loaded
  /\ \E robots \in RobotsAnswer :
       LET clue == ClueOf[ses[x].source]
       IN  ses' = [ses EXCEPT
             ![x].loaded = TRUE,
             ![x].decision = [row |-> [status |-> PolicyVerdict(robots, clue),
                                       license |-> clue],
                              policy |-> policy[DomainOf[ses[x].source]]]]
  /\ UNCHANGED <<src, pat, req, policy, snaps, jobs, retired>>

\* ux_crawl_policies_domain: a domain has one policy row, so inserting one
\* that another session inserted meanwhile fails, and the whole transaction
\* with it.
PolicyInsertConflicts(x) ==
  /\ ses[x].decision.policy = "absent"
  /\ policy[DomainOf[ses[x].source]] # "absent"

\* Seeded fault: a missing policy row is not inserted.
PolicyCheckCommitNoInsert(x) ==
  /\ Running(x, "policy_check")
  /\ ses[x].loaded
  /\ src' = [src EXCEPT ![ses[x].source] = ses[x].decision.row]
  /\ Idle(x)
  /\ UNCHANGED <<pat, req, policy, snaps, jobs, retired>>

\* Seeded fault: only the status is written.
PolicyCheckCommitStatus(x) ==
  /\ Running(x, "policy_check")
  /\ ses[x].loaded
  /\ ~PolicyInsertConflicts(x)
  /\ LET s == ses[x].source
     IN  /\ src' = [src EXCEPT ![s].status = ses[x].decision.row.status]
         /\ policy' = [policy EXCEPT ![DomainOf[s]] = "deny"]
  /\ Idle(x)
  /\ UNCHANGED <<pat, req, snaps, jobs, retired>>

PolicyCheckCommit(x) ==
  /\ Running(x, "policy_check")
  /\ ses[x].loaded
  /\ ~PolicyInsertConflicts(x)
  /\ LET s == ses[x].source
         seen == ses[x].seen
         verdict == ses[x].decision.row
         allow == IF verdict.status = "allowed_crawl" THEN "allow" ELSE "deny"
     IN  /\ src' = [src EXCEPT
              ![s].status = Column(@, seen.status, verdict.status),
              ![s].license = Column(@, seen.license, verdict.license)]
         /\ policy' = [policy EXCEPT
              ![DomainOf[s]] = Column(@, ses[x].decision.policy, allow)]
  /\ Idle(x)
  /\ UNCHANGED <<pat, req, snaps, jobs, retired>>

PolicyCheckConflict(x) ==
  /\ Running(x, "policy_check")
  /\ ses[x].loaded
  /\ PolicyInsertConflicts(x)
  /\ Idle(x)
  /\ UNCHANGED <<src, pat, req, policy, snaps, jobs, retired>>

(***************************************************************************)
(* Delete requests and their propagation; rechecks.                        *)
(***************************************************************************)
DeleteRequestRead(x, s) ==
  /\ src[s] # None
  /\ Begin(x, "delete_request", s, src[s], {}, None)

\* Seeded fault: the request is recorded, the source not marked.
DeleteRequestUnmarked(x, r) ==
  /\ Running(x, "delete_request")
  /\ req[r] = None
  /\ req' = [req EXCEPT ![r] = [source |-> ses[x].source, status |-> "received"]]
  /\ retired' = retired \cup {ses[x].source}
  /\ Idle(x)
  /\ UNCHANGED <<src, pat, policy, snaps, jobs>>

DeleteRequestCommit(x, r) ==
  /\ Running(x, "delete_request")
  /\ req[r] = None
  /\ LET s == ses[x].source
     IN  /\ req' = [req EXCEPT ![r] = [source |-> s, status |-> "received"]]
         /\ src' = [src EXCEPT
              ![s].status = Column(@, ses[x].seen.status, "delete_requested")]
         /\ retired' = retired \cup {s}
  /\ Idle(x)
  /\ UNCHANGED <<pat, policy, snaps, jobs>>

\* An operator propagates a deletion, naming the request it resolves, if any.
ApplyDeleteRead(x, s, r) ==
  /\ src[s] # None
  /\ r # None =>
       /\ req[r] # None
       /\ MatchedRequests => req[r].source = s
  /\ Drained => ~Busy(s)
  /\ Begin(x, "apply_delete", s, src[s], {}, r)

\* hold: the licence, robots file or content changed, or needs a review.
\* removed: the content is gone.
RecheckRead(x, s, result) ==
  /\ src[s] # None
  /\ Begin(x, result, s, src[s], {}, None)

Blocks(x) == Running(x, "apply_delete") \/ Running(x, "recheck_hold")
               \/ Running(x, "recheck_removed")

\* Seeded fault: only one of the source's patterns is loaded.
BlockFirstPatternLoad(x) ==
  /\ Blocks(x)
  /\ ~ses[x].loaded
  /\ LET open == {p \in PatternsOf(ses[x].source) : pat[p].status # "blocked"}
     IN  ses' = [ses EXCEPT
           ![x].loaded = TRUE,
           ![x].pats = IF open = {} THEN {} ELSE {CHOOSE p \in open : TRUE}]
  /\ UNCHANGED <<src, pat, req, policy, snaps, jobs, retired>>

\* _block_patterns loads the source's patterns and changes those not blocked.
BlockPatternsLoad(x) ==
  /\ Blocks(x)
  /\ ~ses[x].loaded
  /\ ses' = [ses EXCEPT
       ![x].loaded = TRUE,
       ![x].pats = {p \in PatternsOf(ses[x].source) : pat[p].status # "blocked"}]
  /\ UNCHANGED <<src, pat, req, policy, snaps, jobs, retired>>

SetPatterns(ps, status) ==
  pat' = [p \in Patterns |-> IF p \in ps THEN [pat[p] EXCEPT !.status = status]
                                         ELSE pat[p]]

Restricts(x) == Running(x, "apply_delete") \/ Running(x, "recheck_removed")

\* _restrict_snapshots, after _block_patterns, loads the source's snapshots and
\* changes those not blocked.
RestrictSnapshotsLoad(x) ==
  /\ Restricts(x)
  /\ ses[x].loaded
  /\ ses[x].snaps = None
  /\ ses' = [ses EXCEPT
       ![x].snaps = {n \in SnapshotsOf(ses[x].source) : snaps[n].access # "blocked"}]
  /\ UNCHANGED <<src, pat, req, policy, snaps, jobs, retired>>

RestrictSnapshots(ns) ==
  snaps' = [n \in Snapshots |-> IF n \in ns THEN [snaps[n] EXCEPT !.access = "blocked"]
                                           ELSE snaps[n]]

\* Seeded fault: the propagation leaves the source as it is.
ApplyDeleteUnmarked(x) ==
  /\ Running(x, "apply_delete")
  /\ ses[x].snaps # None
  /\ RestrictSnapshots(ses[x].snaps)
  /\ req' = req
  /\ retired' = retired \cup {ses[x].source}
  /\ SetPatterns(ses[x].pats, "blocked")
  /\ Idle(x)
  /\ UNCHANGED <<src, policy, jobs>>

ApplyDeleteCommit(x) ==
  /\ Running(x, "apply_delete")
  /\ ses[x].snaps # None
  /\ LET s == ses[x].source
         r == ses[x].request
     IN  /\ src' = [src EXCEPT
              ![s].status = Column(@, ses[x].seen.status, "delete_requested")]
         /\ RestrictSnapshots(ses[x].snaps)
         /\ req' = IF r = None THEN req
                               ELSE [req EXCEPT ![r].status = "resolved"]
         /\ retired' = retired \cup {s}
  /\ SetPatterns(ses[x].pats, "blocked")
  /\ Idle(x)
  /\ UNCHANGED <<policy, jobs>>

\* Seeded fault: the whole row is written back as it was loaded.
RecheckHoldWritesBack(x) ==
  /\ Running(x, "recheck_hold")
  /\ ses[x].loaded
  /\ src' = [src EXCEPT ![ses[x].source] = ses[x].seen]
  /\ SetPatterns(ses[x].pats, "blocked")
  /\ Idle(x)
  /\ UNCHANGED <<req, policy, snaps, jobs, retired>>

RecheckHoldCommit(x) ==
  /\ Running(x, "recheck_hold")
  /\ ses[x].loaded
  /\ SetPatterns(ses[x].pats, "blocked")
  /\ Idle(x)
  /\ UNCHANGED <<src, req, policy, snaps, jobs, retired>>

RecheckRemovedCommit(x) ==
  /\ Running(x, "recheck_removed")
  /\ ses[x].snaps # None
  /\ LET s == ses[x].source
     IN  /\ src' = [src EXCEPT
              ![s].status = Column(@, ses[x].seen.status, "blocked")]
         /\ RestrictSnapshots(ses[x].snaps)
         /\ retired' = retired \cup {s}
  /\ SetPatterns(ses[x].pats, "blocked")
  /\ Idle(x)
  /\ UNCHANGED <<req, policy, jobs>>

(***************************************************************************)
(* Manual review of one pattern, by a reviewer.                            *)
(***************************************************************************)
Reviewed(op) == IF op = "approve" THEN "approved" ELSE "blocked"

\* A pattern that already has the reviewer's verdict will not be written.
ReviewRead(x, p, op) ==
  /\ pat[p] # None
  /\ Drained /\ op = "approve" => ~Deleting(pat[p].source)
  /\ Begin(x, op, pat[p].source, None,
           IF pat[p].status = Reviewed(op) THEN {} ELSE {p}, None)

ReviewCommit(x) ==
  /\ Running(x, "approve") \/ Running(x, "block")
  /\ SetPatterns(ses[x].pats, Reviewed(ses[x].op))
  /\ Idle(x)
  /\ UNCHANGED <<src, req, policy, snaps, jobs, retired>>

(***************************************************************************)
(* Crawling.  Neither creating a job nor running it looks at the status of *)
(* the source.                                                             *)
(***************************************************************************)
CreateCrawlJob(s) ==
  /\ "crawl" \in Ops
  /\ src[s] # None
  /\ Drained => ~Deleting(s)
  /\ jobs' = jobs \cup {s}
  /\ UNCHANGED <<src, pat, req, policy, snaps, ses, retired>>

CrawlStart(x, s) ==
  /\ s \in jobs
  /\ Begin(x, "crawl", s, None, {}, None)

CrawlPersist(x, p, license, feature) ==
  /\ Running(x, "crawl")
  /\ pat[p] = None
  /\ pat' = [pat EXCEPT ![p] = BuiltPattern(ses[x].source, license, feature)]
  /\ jobs' = jobs \ {ses[x].source}
  /\ Idle(x)
  /\ UNCHANGED <<src, req, policy, snaps, retired>>

\* The worker fails for good; a retryable failure is Crash, for which the
\* job stays takeable.
CrawlFail(x) ==
  /\ Running(x, "crawl")
  /\ jobs' = jobs \ {ses[x].source}
  /\ Idle(x)
  /\ UNCHANGED <<src, pat, req, policy, snaps, retired>>

\* A crawl may store a snapshot.  The snapshot store is outside this code
\* base, which only restricts the access to its rows.
StoreSnapshot(x, n) ==
  /\ "snapshot" \in Ops
  /\ Running(x, "crawl")
  /\ snaps[n] = None
  /\ snaps' = [snaps EXCEPT ![n] = [source |-> ses[x].source, access |-> "restricted"]]
  /\ UNCHANGED <<src, pat, req, policy, jobs, ses, retired>>

(***************************************************************************)
(* Specification                                                           *)
(***************************************************************************)
SourceNext(s) ==
  \/ Register(s)
  \/ \E license \in PatternLicenses : Ingest(s, license)
  \/ CreateCrawlJob(s)

ReadNext(x) ==
  \/ \E s \in Sources :
       \/ PolicyCheckRead(x, s)
       \/ DeleteRequestRead(x, s)
       \/ \E r \in Requests \cup {None} : ApplyDeleteRead(x, s, r)
       \/ \E result \in {"recheck_hold", "recheck_removed"} : RecheckRead(x, s, result)
       \/ CrawlStart(x, s)
  \/ \E p \in Patterns, op \in {"approve", "block"} : ReviewRead(x, p, op)

CommitNext(x) ==
  \/ PolicyCheckDecide(x)
  \/ PolicyCheckCommit(x)
  \/ PolicyCheckConflict(x)
  \/ \E r \in Requests : DeleteRequestCommit(x, r)
  \/ BlockPatternsLoad(x)
  \/ RestrictSnapshotsLoad(x)
  \/ ApplyDeleteCommit(x)
  \/ RecheckHoldCommit(x)
  \/ RecheckRemovedCommit(x)
  \/ ReviewCommit(x)
  \/ \E p \in Patterns, license \in PatternLicenses, feature \in Features :
       CrawlPersist(x, p, license, feature)
  \/ CrawlFail(x)
  \/ \E n \in Snapshots : StoreSnapshot(x, n)
  \/ Crash(x)

Next ==
  \/ \E s \in Sources : SourceNext(s)
  \/ \E x \in Sessions : ReadNext(x) \/ CommitNext(x)

Spec == Init /\ [][Next]_vars

(***************************************************************************)
(* What the generation engine may receive                                  *)
(***************************************************************************)
\* evaluate_pattern: the gate applied to a pattern row and its source row.
Operational(p) ==
  LET row == pat[p]
  IN  EvaluateOperational(src[row.source].status, row.license, row.feature.pii,
                          row.feature.reuse, row.status, row.feature.recon)

(***************************************************************************)
(* Properties                                                              *)
(***************************************************************************)
TypeOK ==
  /\ src \in [Sources -> SourceRow \cup {None}]
  /\ pat \in [Patterns -> PatternRow \cup {None}]
  /\ req \in [Requests -> RequestRow \cup {None}]
  /\ policy \in [Domains -> PolicyCell]
  /\ snaps \in [Snapshots -> SnapshotRow \cup {None}]
  /\ jobs \subseteq Sources
  /\ ses \in [Sessions -> Handler \cup {None}]
  /\ retired \subseteq Sources

\* Once a deletion or removal of a source has been answered "done", none of
\* its patterns passes the operational gate, whatever handlers were in
\* flight and whatever checks, crawls and approvals follow.  The handlers
\* write what they computed from a status that may be stale by then.
RetiredNeverOperational ==
  \A p \in StoredPatterns : pat[p].source \in retired => ~Operational(p)

\* A reviewer cannot approve what the pipeline blocked: whoever sets
\* pattern_status, a pattern passes the gate only if the governance of its
\* own content passed.
GovernanceIsFinal ==
  \A p \in StoredPatterns :
    LET f == pat[p].feature
    IN  Operational(p) => GovernanceStatus(f.pii, f.reuse, f.recon) = "approved"

\* A source that has left the operational states, or entered outside them,
\* never comes (back) into one: no handler restores a stale status.
NeverReoperational ==
  [][\A s \in Sources :
       /\ src[s] # None
       /\ src[s].status \notin OperationalSourceStates
       => src'[s].status \notin OperationalSourceStates]_src

\* The status only a policy check writes and the domain's policy row are
\* committed together: two first checks of a domain cannot leave a checked
\* source without a policy row.
CheckedHasPolicy ==
  \A s \in Sources :
    src[s] # None /\ src[s].status \in {"allowed_crawl", "allowed_metadata_only", ManualReview}
      => policy[DomainOf[s]] # "absent"

\* A verdict that admits a source stands on the licence recorded with it: of
\* two checks in flight, neither leaves its status over the other's licence,
\* although each writes only the columns it saw change.
VerdictMatchesLicense ==
  \A s \in Sources :
    src[s] # None =>
      /\ src[s].status = "allowed_crawl" => src[s].license = "allowed"
      /\ src[s].status = "allowed_metadata_only" => src[s].license = "conditional"

\* Propagation is complete: nothing of a source with a resolved delete
\* request is left approved or accessible (apply_delete's contract).  Nothing
\* in the code lets crawls and approvals end first, or keeps them from
\* coming after; this is what they can spoil.
DeletionComplete ==
  \A r \in Requests :
    req[r] # None /\ req[r].status = "resolved"
      => /\ \A p \in PatternsOf(req[r].source) : pat[p].status = "blocked"
         /\ \A n \in SnapshotsOf(req[r].source) : snaps[n].access = "blocked"

(***************************************************************************)
(* The inductive invariant: what each handler in flight may rely on.       *)
(***************************************************************************)
Withdrawn(s) == src[s] # None /\ src[s].status \notin OperationalSourceStates

\* Session x's memory against the database.  What it will write still has a
\* row to be written to; a policy check's verdict is never operational; and a
\* source that was withdrawn when the session loaded it is withdrawn now.
HandlerInv(x) ==
  ses[x] # None =>
    LET h == ses[x]
    IN  /\ h.pats \subseteq StoredPatterns
        /\ h.snaps # None => \A n \in h.snaps : snaps[n] # None
        /\ h.request # None => req[h.request] # None
        /\ h.op \in {"policy_check", "delete_request", "apply_delete", "recheck_removed"}
              => h.seen # None
        /\ h.seen # None =>
              /\ src[h.source] # None
              /\ h.seen.status \notin OperationalSourceStates => Withdrawn(h.source)
        /\ h.op = "policy_check" /\ h.loaded => h.decision # None
        /\ h.decision # None =>
              h.decision.row.status \notin OperationalSourceStates

\* Every handler's memory is consistent with the database and a retired
\* source is withdrawn: the strengthening under which the properties above
\* are inductive.
GovernanceInv ==
  /\ TypeOK
  /\ \A x \in Sessions : HandlerInv(x)
  /\ \A s \in retired : Withdrawn(s)
=============================================================================
