----------------------- MODULE SourceGovernanceProofs -----------------------
(***************************************************************************)
(* Proofs about SourceGovernance, for any sets of sources, patterns,       *)
(* requests and sessions.                                                  *)
(***************************************************************************)
EXTENDS SourceGovernance, TLAPS

(***************************************************************************)
(* The rules                                                               *)
(***************************************************************************)
\* Whatever robots.txt and the licence say, a policy check gives a status of
\* the vocabulary, or the manual review, and never an operational one.
LEMMA VerdictNeverOperational ==
  ASSUME NEW robots, NEW license
  PROVE  /\ PolicyVerdict(robots, license) \in SourceStatus \cup {ManualReview}
         /\ PolicyVerdict(robots, license) \notin OperationalSourceStates
BY DEF PolicyVerdict, SourceStatus, ManualReview, OperationalSourceStates

\* The six gates agree with the pipeline: what passes the gate has a content
\* that the pipeline passes.
THEOREM GateImpliesGovernance ==
  ASSUME NEW status, NEW license, NEW pii, NEW reuse, NEW patternStatus, NEW recon,
         EvaluateOperational(status, license, pii, reuse, patternStatus, recon)
  PROVE  /\ status \in OperationalSourceStates
         /\ patternStatus = "approved"
         /\ GovernancePasses(pii, reuse, recon)
BY DEF EvaluateOperational, UnmetGates, GovernancePasses

LEMMA GovernanceStatusType ==
  ASSUME NEW pii, NEW reuse, NEW recon
  PROVE  GovernanceStatus(pii, reuse, recon) \in PatternStatus
BY DEF GovernanceStatus, PatternStatus

\* The row a build writes is a pattern row.
LEMMA BuiltPatternType ==
  ASSUME NEW s \in Sources, NEW license \in PatternLicenses, NEW feature \in Features
  PROVE  /\ BuiltPattern(s, license, feature) \in PatternRow
         /\ BuiltPattern(s, license, feature) # None
BY GovernanceStatusType, ConstantsAssumption DEF BuiltPattern, PatternRow

\* A handler that loaded a withdrawn source, or that writes a status outside
\* the operational ones, leaves the source withdrawn.
LEMMA ColumnKeepsWithdrawal ==
  ASSUME NEW current, NEW seen, NEW new,
         new \notin OperationalSourceStates,
         seen \notin OperationalSourceStates => current \notin OperationalSourceStates
  PROVE  Column(current, seen, new) \notin OperationalSourceStates
BY DEF Column

LEMMA InitGovernanceInv == Init => GovernanceInv
BY DEF Init, GovernanceInv, TypeOK, HandlerInv, Withdrawn, PolicyCell

\* What every step does: it keeps the invariant and the rows of sources, and
\* brings no source back from withdrawal.
SafeStep ==
  /\ GovernanceInv'
  /\ \A s \in Sources : src[s] # None => src'[s] # None
  /\ \A s \in Sources : Withdrawn(s) => Withdrawn(s)'

LEMMA BeginPreserves ==
  ASSUME GovernanceInv,
         NEW x \in Sessions, NEW op, NEW s \in Sources, NEW row, NEW pats, NEW request,
         row = None \/ (src[s] # None /\ row = src[s]),
         op \in {"policy_check", "delete_request", "apply_delete", "recheck_removed"}
           => row # None,
         pats \subseteq StoredPatterns,
         request = None \/ (request \in Requests /\ req[request] # None),
         Begin(x, op, s, row, pats, request)
  PROVE  SafeStep
<1> DEFINE h == [op |-> op, loaded |-> FALSE, source |-> s, seen |-> row, pats |-> pats,
                 snaps |-> None, decision |-> None, request |-> request]
<1>1. h \in Handler
  BY ConstantsAssumption DEF Handler, Begin, GovernanceInv, TypeOK, StoredPatterns
<1>2. h # None
  BY <1>1, ConstantsAssumption
<1>3. ses' = [ses EXCEPT ![x] = h] /\ UNCHANGED <<src, pat, req, policy, snaps, jobs, retired>>
  BY DEF Begin
<1>4. TypeOK'
  BY <1>1, <1>3 DEF GovernanceInv, TypeOK
<1>5. ASSUME NEW y \in Sessions PROVE HandlerInv(y)'
  <2>1. CASE y = x
    <3>1. ses'[y] = h
      BY <2>1, <1>3 DEF GovernanceInv, TypeOK
    <3> QED
      BY <3>1, <1>3 DEF HandlerInv, Withdrawn, StoredPatterns
  <2>2. CASE y # x
    BY <2>2, <1>3 DEF GovernanceInv, HandlerInv, TypeOK, Withdrawn, StoredPatterns
  <2> QED BY <2>1, <2>2
<1>6. (\A z \in retired : Withdrawn(z))'
  BY <1>3 DEF GovernanceInv, Withdrawn
<1>7. \A z \in Sources : Withdrawn(z) => Withdrawn(z)'
  BY <1>3 DEF Withdrawn
<1>8. \A z \in Sources : src[z] # None => src'[z] # None
  BY <1>3
<1> QED BY <1>4, <1>5, <1>6, <1>7, <1>8 DEF GovernanceInv, SafeStep

(***************************************************************************)
(* A step that starts no handler keeps the invariant if rows only appear   *)
(* and no source comes back from withdrawal.                               *)
(***************************************************************************)
RowsPersist ==
  /\ \A s \in Sources : src[s] # None => src'[s] # None
  /\ \A s \in Sources : Withdrawn(s) => Withdrawn(s)'
  /\ \A p \in Patterns : pat[p] # None => pat'[p] # None
  /\ \A r \in Requests : req[r] # None => req'[r] # None
  /\ \A n \in Snapshots : snaps[n] # None => snaps'[n] # None

LEMMA RowsPersistPreserves ==
  ASSUME GovernanceInv, TypeOK', RowsPersist,
         \A y \in Sessions : ses'[y] = ses[y] \/ ses'[y] = None,
         \A s \in retired' : s \in retired \/ Withdrawn(s)'
  PROVE  SafeStep
<1>1. ASSUME NEW y \in Sessions PROVE HandlerInv(y)'
  <2>1. CASE ses'[y] = None
    BY <2>1 DEF HandlerInv
  <2>2. CASE ses'[y] = ses[y] /\ ses[y] # None
    <3>1. HandlerInv(y) /\ ses[y] \in Handler
      BY <2>2 DEF GovernanceInv, TypeOK
    <3>2. ses[y].source \in Sources /\ ses[y].request \in Requests \cup {None}
          /\ ses[y].pats \subseteq Patterns /\ ses[y].snaps \in {None} \cup SUBSET Snapshots
      BY <3>1 DEF Handler
    <3> QED
      BY <2>2, <3>1, <3>2 DEF HandlerInv, RowsPersist, StoredPatterns
  <2> QED BY <2>1, <2>2
<1>2. (\A s \in retired : Withdrawn(s))'
  BY DEF GovernanceInv, TypeOK, RowsPersist
<1> QED BY <1>1, <1>2 DEF GovernanceInv, SafeStep, RowsPersist

\* Marking patterns keeps them stored and well typed.
LEMMA SetPatternsPersist ==
  ASSUME GovernanceInv, NEW ps, ps \subseteq StoredPatterns,
         NEW status \in PatternStatus, SetPatterns(ps, status)
  PROVE  /\ pat' \in [Patterns -> PatternRow \cup {None}]
         /\ \A p \in Patterns : pat[p] # None => pat'[p] # None
<1>1. ASSUME NEW p \in ps
      PROVE  [pat[p] EXCEPT !.status = status] \in PatternRow
  BY DEF StoredPatterns, GovernanceInv, TypeOK, PatternRow
<1> QED
  BY <1>1, ConstantsAssumption DEF SetPatterns, GovernanceInv, TypeOK, StoredPatterns

SnapshotsPersist ==
  /\ snaps' \in [Snapshots -> SnapshotRow \cup {None}]
  /\ \A n \in Snapshots : snaps[n] # None => snaps'[n] # None

\* Restricting snapshots keeps them stored and well typed.
LEMMA RestrictPersists ==
  ASSUME GovernanceInv, NEW ns, \A n \in ns : snaps[n] # None, RestrictSnapshots(ns)
  PROVE  SnapshotsPersist
<1>1. ASSUME NEW n \in Snapshots, n \in ns
      PROVE  [snaps[n] EXCEPT !.access = "blocked"] \in SnapshotRow
  BY <1>1 DEF GovernanceInv, TypeOK, SnapshotRow
<1> QED
  BY <1>1, ConstantsAssumption DEF RestrictSnapshots, GovernanceInv, TypeOK, SnapshotsPersist

\* A handler that loaded source s finds its row, and a status written through
\* what it loaded is well typed and not operational.
LEMMA StatusWrite ==
  ASSUME GovernanceInv, NEW x \in Sessions, ses[x] # None, ses[x].seen # None,
         NEW s \in Sources, s = ses[x].source,
         NEW new \in SourceStatus \cup {ManualReview},
         new \notin OperationalSourceStates
  PROVE  /\ src[s] # None /\ src[s] \in SourceRow
         /\ ses[x].seen \in SourceRow
         /\ Column(src[s].status, ses[x].seen.status, new)
              \in (SourceStatus \cup {ManualReview}) \ OperationalSourceStates
<1>1. ses[x].seen \in SourceRow /\ HandlerInv(x)
  BY DEF GovernanceInv, TypeOK, Handler
<1>2. /\ src[s] \in SourceRow /\ src[s] # None
      /\ ses[x].seen.status \notin OperationalSourceStates
           => src[s].status \notin OperationalSourceStates
  BY <1>1 DEF GovernanceInv, TypeOK, HandlerInv, Withdrawn
<1>3. Column(src[s].status, ses[x].seen.status, new) \notin OperationalSourceStates
  BY <1>2, ColumnKeepsWithdrawal
<1>4. Column(src[s].status, ses[x].seen.status, new) \in SourceStatus \cup {ManualReview}
  BY <1>2 DEF Column, SourceRow
<1> QED BY <1>1, <1>2, <1>3, <1>4

\* Replacing one source's row by a withdrawn one.
LEMMA RowWritePersists ==
  ASSUME GovernanceInv, NEW s \in Sources, NEW row \in SourceRow,
         row.status \notin OperationalSourceStates, src' = [src EXCEPT ![s] = row]
  PROVE  /\ src' \in [Sources -> SourceRow \cup {None}]
         /\ \A z \in Sources : src[z] # None => src'[z] # None
         /\ \A z \in Sources : Withdrawn(z) => Withdrawn(z)'
         /\ Withdrawn(s)'
<1>1. row # None
  BY ConstantsAssumption
<1> QED
  BY <1>1 DEF GovernanceInv, TypeOK, Withdrawn

(***************************************************************************)
(* Sources enter                                                           *)
(***************************************************************************)
LEMMA RegisterPreserves ==
  ASSUME GovernanceInv, NEW s \in Sources, Register(s)
  PROVE  SafeStep
<1> DEFINE row == [status |-> "policy_pending", license |-> "unknown"]
<1>1. row \in SourceRow /\ row.status \notin OperationalSourceStates
  BY DEF SourceRow, SourceStatus, LicenseStatus, OperationalSourceStates
<1>2. src' = [src EXCEPT ![s] = row] /\ UNCHANGED <<pat, req, policy, snaps, jobs, ses, retired>>
  BY DEF Register
<1> HIDE DEF row
<1>3. /\ src' \in [Sources -> SourceRow \cup {None}]
      /\ \A z \in Sources : src[z] # None => src'[z] # None
      /\ \A z \in Sources : Withdrawn(z) => Withdrawn(z)'
  BY <1>1, <1>2, RowWritePersists
<1>4. TypeOK' /\ RowsPersist
  BY <1>2, <1>3 DEF GovernanceInv, TypeOK, RowsPersist
<1> QED BY <1>2, <1>4, RowsPersistPreserves

LEMMA IngestPreserves ==
  ASSUME GovernanceInv, NEW s \in Sources, NEW license \in PatternLicenses,
         Ingest(s, license)
  PROVE  SafeStep
<1> PICK new \in SUBSET (Patterns \ StoredPatterns) : \E feature \in [new -> Features] :
       pat' = [p \in Patterns |-> IF p \in new THEN BuiltPattern(s, license, feature[p])
                                               ELSE pat[p]]
  BY DEF Ingest
<1>1. PICK feature \in [new -> Features] :
        pat' = [p \in Patterns |-> IF p \in new THEN BuiltPattern(s, license, feature[p])
                                                ELSE pat[p]]
  OBVIOUS
<1>2. /\ pat' \in [Patterns -> PatternRow \cup {None}]
      /\ \A p \in Patterns : pat[p] # None => pat'[p] # None
  BY <1>1, BuiltPatternType DEF GovernanceInv, TypeOK
<1>3. [status |-> "parsed", license |-> license] \in SourceRow
  BY ConstantsAssumption DEF SourceRow, SourceStatus
<1>4. src[s] = None
      /\ src' = [src EXCEPT ![s] = [status |-> "parsed", license |-> license]]
      /\ UNCHANGED <<req, policy, snaps, jobs, ses, retired>>
  BY DEF Ingest
<1>5. /\ src' \in [Sources -> SourceRow \cup {None}]
      /\ \A z \in Sources : src[z] # None => src'[z] = src[z]
  BY <1>3, <1>4 DEF GovernanceInv, TypeOK
<1>6. TypeOK' /\ RowsPersist
  BY <1>2, <1>4, <1>5 DEF GovernanceInv, TypeOK, RowsPersist, Withdrawn
<1> QED BY <1>4, <1>6, RowsPersistPreserves

(***************************************************************************)
(* Handlers start and load                                                 *)
(***************************************************************************)
LEMMA ReadPreserves ==
  ASSUME GovernanceInv, NEW x \in Sessions, ReadNext(x)
  PROVE  SafeStep
<1>1. ASSUME NEW s \in Sources, PolicyCheckRead(x, s) PROVE SafeStep
  BY <1>1, BeginPreserves DEF PolicyCheckRead
<1>2. ASSUME NEW s \in Sources, DeleteRequestRead(x, s) PROVE SafeStep
  BY <1>2, BeginPreserves DEF DeleteRequestRead
<1>3. ASSUME NEW s \in Sources, NEW r \in Requests \cup {None}, ApplyDeleteRead(x, s, r)
      PROVE SafeStep
  BY <1>3, BeginPreserves DEF ApplyDeleteRead
<1>4. ASSUME NEW s \in Sources, NEW result \in {"recheck_hold", "recheck_removed"},
             RecheckRead(x, s, result)
      PROVE SafeStep
  BY <1>4, BeginPreserves DEF RecheckRead
<1>5. ASSUME NEW s \in Sources, CrawlStart(x, s) PROVE SafeStep
  BY <1>5, BeginPreserves DEF CrawlStart
<1>6. ASSUME NEW p \in Patterns, NEW op \in {"approve", "block"}, ReviewRead(x, p, op)
      PROVE SafeStep
  <2>1. pat[p].source \in Sources /\ p \in StoredPatterns
    BY <1>6 DEF ReviewRead, GovernanceInv, TypeOK, PatternRow, StoredPatterns
  <2>2. PICK ps \in SUBSET StoredPatterns : Begin(x, op, pat[p].source, None, ps, None)
    BY <1>6, <2>1 DEF ReviewRead
  <2>3. op \notin {"policy_check", "delete_request", "apply_delete", "recheck_removed"}
    BY <1>6
  <2> QED BY <2>1, <2>2, <2>3, BeginPreserves
<1> QED
  BY <1>1, <1>2, <1>3, <1>4, <1>5, <1>6 DEF ReadNext

\* A handler in flight that changes what it remembers, and nothing else.
LEMMA MemoryPreserves ==
  ASSUME GovernanceInv, NEW x \in Sessions, ses[x] # None,
         NEW pats, pats \subseteq StoredPatterns,
         NEW kept, kept = None \/ (kept \in SUBSET Snapshots /\ \A n \in kept : snaps[n] # None),
         NEW decision, decision = None \/ (decision \in Decision
           /\ decision.row.status \notin OperationalSourceStates),
         ses[x].op = "policy_check" => decision # None,
         ses' = [ses EXCEPT ![x] = [ses[x] EXCEPT !.loaded = TRUE, !.pats = pats,
                                                  !.snaps = kept, !.decision = decision]],
         UNCHANGED <<src, pat, req, policy, snaps, jobs, retired>>
  PROVE  SafeStep
<1> DEFINE h == [ses[x] EXCEPT !.loaded = TRUE, !.pats = pats, !.snaps = kept,
                               !.decision = decision]
<1>1. ses[x] \in Handler /\ HandlerInv(x)
  BY DEF GovernanceInv, TypeOK
<1>2. /\ h \in Handler
      /\ h.op = ses[x].op /\ h.source = ses[x].source /\ h.seen = ses[x].seen
      /\ h.request = ses[x].request /\ h.pats = pats /\ h.decision = decision
      /\ h.snaps = kept
  BY <1>1 DEF Handler, StoredPatterns
<1>3. h # None
  BY <1>2, ConstantsAssumption
<1>4. ses' = [ses EXCEPT ![x] = h]
  OBVIOUS
<1> HIDE DEF h
<1>5. TypeOK'
  BY <1>2, <1>4 DEF GovernanceInv, TypeOK
<1>6. ASSUME NEW y \in Sessions PROVE HandlerInv(y)'
  <2>1. CASE y = x
    <3>1. ses'[y] = h
      BY <2>1, <1>4 DEF GovernanceInv, TypeOK
    <3> QED
      BY <3>1, <1>1, <1>2, <1>3 DEF HandlerInv, Withdrawn, StoredPatterns
  <2>2. CASE y # x
    BY <2>2, <1>4 DEF GovernanceInv, HandlerInv, TypeOK, Withdrawn, StoredPatterns
  <2> QED BY <2>1, <2>2
<1>7. (\A z \in retired : Withdrawn(z))'
  BY DEF GovernanceInv, Withdrawn
<1>8. \A z \in Sources : Withdrawn(z) => Withdrawn(z)'
  BY DEF Withdrawn
<1> QED BY <1>5, <1>6, <1>7, <1>8 DEF GovernanceInv, SafeStep

LEMMA DecidePreserves ==
  ASSUME GovernanceInv, NEW x \in Sessions, PolicyCheckDecide(x)
  PROVE  SafeStep
<1> DEFINE clue == ClueOf[ses[x].source]
<1>1. PICK robots \in RobotsAnswer :
        ses' = [ses EXCEPT
          ![x].loaded = TRUE,
          ![x].decision = [row |-> [status |-> PolicyVerdict(robots, clue),
                                    license |-> clue],
                           policy |-> policy[DomainOf[ses[x].source]]]]
  BY DEF PolicyCheckDecide
<1> DEFINE d == [row |-> [status |-> PolicyVerdict(robots, clue), license |-> clue],
                 policy |-> policy[DomainOf[ses[x].source]]]
<1>2. ses[x] # None /\ ses[x] \in Handler
  BY DEF PolicyCheckDecide, Running, GovernanceInv, TypeOK
<1>3. policy[DomainOf[ses[x].source]] \in PolicyCell
  BY <1>2, ConstantsAssumption DEF Handler, GovernanceInv, TypeOK
<1>4. [status |-> PolicyVerdict(robots, clue), license |-> clue] \in SourceRow
  BY <1>2, VerdictNeverOperational, ConstantsAssumption DEF SourceRow, Handler
<1>5. d \in Decision /\ d.row.status \notin OperationalSourceStates
  BY <1>3, <1>4, VerdictNeverOperational DEF Decision
<1>6. d # None
  BY <1>5, ConstantsAssumption
<1> HIDE DEF d
<1>7. ses' = [ses EXCEPT ![x] = [ses[x] EXCEPT !.loaded = TRUE, !.pats = ses[x].pats,
                                               !.snaps = ses[x].snaps, !.decision = d]]
  BY <1>1, <1>2 DEF d, Handler, GovernanceInv, TypeOK
<1>8. /\ ses[x].pats \subseteq StoredPatterns
      /\ ses[x].snaps = None \/ ( /\ ses[x].snaps \in SUBSET Snapshots
                                 /\ \A n \in ses[x].snaps : snaps[n] # None )
  BY <1>2 DEF GovernanceInv, HandlerInv, Handler
<1>9. UNCHANGED <<src, pat, req, policy, snaps, jobs, retired>>
  BY DEF PolicyCheckDecide
<1> QED BY <1>2, <1>5, <1>6, <1>7, <1>8, <1>9, MemoryPreserves

LEMMA BlockPatternsLoadPreserves ==
  ASSUME GovernanceInv, NEW x \in Sessions, BlockPatternsLoad(x)
  PROVE  SafeStep
<1> DEFINE ps == {p \in PatternsOf(ses[x].source) : pat[p].status # "blocked"}
<1>1. ses[x] # None /\ ses[x].op # "policy_check" /\ ses[x] \in Handler
  BY DEF BlockPatternsLoad, Blocks, Running, GovernanceInv, TypeOK
<1>2. ps \subseteq StoredPatterns
  BY DEF PatternsOf
<1>3. /\ ses[x].decision = None \/ (ses[x].decision \in Decision
           /\ ses[x].decision.row.status \notin OperationalSourceStates)
      /\ ses[x].snaps = None \/ ( /\ ses[x].snaps \in SUBSET Snapshots
                                 /\ \A n \in ses[x].snaps : snaps[n] # None )
  BY <1>1 DEF GovernanceInv, HandlerInv, Handler
<1>4. ses' = [ses EXCEPT ![x].loaded = TRUE, ![x].pats = ps]
      /\ UNCHANGED <<src, pat, req, policy, snaps, jobs, retired>>
  BY DEF BlockPatternsLoad
<1> DEFINE d == ses[x].decision
           ns == ses[x].snaps
<1>5. ses' = [ses EXCEPT ![x] = [ses[x] EXCEPT !.loaded = TRUE, !.pats = ps,
                                               !.snaps = ns, !.decision = d]]
  BY <1>1, <1>4 DEF Handler, GovernanceInv, TypeOK
<1> HIDE DEF ps, d, ns
<1>6. /\ d = None \/ (d \in Decision /\ d.row.status \notin OperationalSourceStates)
      /\ ns = None \/ (ns \in SUBSET Snapshots /\ \A n \in ns : snaps[n] # None)
  BY <1>3 DEF d, ns
<1>7. /\ UNCHANGED <<src, pat, req, policy, snaps, jobs, retired>>
      /\ ses[x].op = "policy_check" => d # None
  BY <1>1, <1>4
<1> QED BY <1>1, <1>2, <1>5, <1>6, <1>7, MemoryPreserves

LEMMA RestrictSnapshotsLoadPreserves ==
  ASSUME GovernanceInv, NEW x \in Sessions, RestrictSnapshotsLoad(x)
  PROVE  SafeStep
<1> DEFINE ns == {n \in SnapshotsOf(ses[x].source) : snaps[n].access # "blocked"}
<1>1. /\ ses[x] # None /\ ses[x].op # "policy_check" /\ ses[x] \in Handler
      /\ ses[x].loaded = TRUE
  BY DEF RestrictSnapshotsLoad, Restricts, Running, GovernanceInv, TypeOK, Handler
<1>2. ns \in SUBSET Snapshots /\ \A n \in ns : snaps[n] # None
  BY DEF SnapshotsOf
<1>3. /\ ses[x].pats \subseteq StoredPatterns
      /\ ses[x].decision = None \/ (ses[x].decision \in Decision
           /\ ses[x].decision.row.status \notin OperationalSourceStates)
  BY <1>1 DEF GovernanceInv, HandlerInv, Handler
<1>4. ses' = [ses EXCEPT ![x].snaps = ns]
      /\ UNCHANGED <<src, pat, req, policy, snaps, jobs, retired>>
  BY DEF RestrictSnapshotsLoad
<1> DEFINE d == ses[x].decision
           ps == ses[x].pats
<1>5. ses' = [ses EXCEPT ![x] = [ses[x] EXCEPT !.loaded = TRUE, !.pats = ps,
                                               !.snaps = ns, !.decision = d]]
  BY <1>1, <1>4 DEF Handler, GovernanceInv, TypeOK
<1> HIDE DEF ps, d, ns
<1>6. /\ ps \subseteq StoredPatterns
      /\ d = None \/ (d \in Decision /\ d.row.status \notin OperationalSourceStates)
  BY <1>3 DEF d, ps
<1>7. /\ UNCHANGED <<src, pat, req, policy, snaps, jobs, retired>>
      /\ ses[x].op = "policy_check" => d # None
  BY <1>1, <1>4
<1> QED BY <1>1, <1>2, <1>5, <1>6, <1>7, MemoryPreserves

(***************************************************************************)
(* Commits                                                                 *)
(***************************************************************************)
LEMMA SourceWritePreserves ==
  ASSUME GovernanceInv, NEW x \in Sessions, NEW s \in Sources, NEW row \in SourceRow,
         row.status \notin OperationalSourceStates,
         src' = [src EXCEPT ![s] = row],
         pat' \in [Patterns -> PatternRow \cup {None}],
         \A p \in Patterns : pat[p] # None => pat'[p] # None,
         req' \in [Requests -> RequestRow \cup {None}],
         \A r \in Requests : req[r] # None => req'[r] # None,
         policy' \in [Domains -> PolicyCell], SnapshotsPersist,
         jobs' = jobs, Idle(x), retired' \in {retired, retired \cup {s}}
  PROVE  SafeStep
<1>1. /\ src' \in [Sources -> SourceRow \cup {None}]
      /\ \A z \in Sources : src[z] # None => src'[z] # None
      /\ \A z \in Sources : Withdrawn(z) => Withdrawn(z)'
      /\ Withdrawn(s)'
  BY RowWritePersists
<1>2. ses' \in [Sessions -> Handler \cup {None}]
      /\ \A y \in Sessions : ses'[y] = ses[y] \/ ses'[y] = None
  BY DEF Idle, GovernanceInv, TypeOK
<1>3. RowsPersist
  BY <1>1 DEF RowsPersist, SnapshotsPersist
<1>4. TypeOK'
  BY <1>1, <1>2 DEF GovernanceInv, TypeOK, SnapshotsPersist
<1>5. \A z \in retired' : z \in retired \/ Withdrawn(z)'
  BY <1>1
<1> QED BY <1>2, <1>3, <1>4, <1>5, RowsPersistPreserves

LEMMA PolicyCheckPreserves ==
  ASSUME GovernanceInv, NEW x \in Sessions, PolicyCheckCommit(x)
  PROVE  SafeStep
<1>1. /\ ses[x] # None /\ ses[x] \in Handler /\ HandlerInv(x)
      /\ ses[x].op = "policy_check" /\ ses[x].loaded
  BY DEF PolicyCheckCommit, Running, GovernanceInv, TypeOK
<1> PICK s \in Sources : s = ses[x].source
  BY <1>1 DEF Handler
<1> DEFINE seen == ses[x].seen
           verdict == ses[x].decision.row
           status == Column(src[s].status, seen.status, verdict.status)
           license == Column(src[s].license, seen.license, verdict.license)
           allow == IF verdict.status = "allowed_crawl" THEN "allow" ELSE "deny"
           row == [src[s] EXCEPT !.status = status, !.license = license]
<1>2. seen # None /\ ses[x].decision \in Decision
      /\ verdict.status \notin OperationalSourceStates
  BY <1>1 DEF HandlerInv, Handler
<1>3. verdict \in SourceRow /\ verdict.status \in SourceStatus \cup {ManualReview}
  BY <1>2 DEF Decision, SourceRow
<1>4. /\ src[s] # None /\ src[s] \in SourceRow
      /\ status \in (SourceStatus \cup {ManualReview}) \ OperationalSourceStates
  BY <1>1, <1>2, <1>3, StatusWrite
<1>5. license \in LicenseStatus
  BY <1>3, <1>4 DEF Column, SourceRow
<1>6. src' = [src EXCEPT ![s].status = status, ![s].license = license]
      /\ policy' = [policy EXCEPT ![DomainOf[s]] =
                      Column(policy[DomainOf[s]], ses[x].decision.policy, allow)]
      /\ Idle(x) /\ UNCHANGED <<pat, req, snaps, jobs, retired>>
  BY DEF PolicyCheckCommit
<1>7. Column(policy[DomainOf[s]], ses[x].decision.policy, allow) \in PolicyCell
  BY ConstantsAssumption DEF Column, PolicyCell, GovernanceInv, TypeOK
<1>8. policy' \in [Domains -> PolicyCell]
  BY <1>6, <1>7 DEF GovernanceInv, TypeOK
<1> HIDE DEF status, license, verdict, seen, allow
<1>9. row \in SourceRow /\ row.status \notin OperationalSourceStates
  BY <1>4, <1>5 DEF SourceRow
<1>10. src' = [src EXCEPT ![s] = row]
  BY <1>4, <1>6 DEF SourceRow, GovernanceInv, TypeOK
<1> HIDE DEF row
<1>11. pat' \in [Patterns -> PatternRow \cup {None}] /\ req' \in [Requests -> RequestRow \cup {None}]
       /\ SnapshotsPersist
  BY <1>6 DEF GovernanceInv, TypeOK, SnapshotsPersist
<1> QED BY <1>6, <1>8, <1>9, <1>10, <1>11, SourceWritePreserves

LEMMA DeleteRequestPreserves ==
  ASSUME GovernanceInv, NEW x \in Sessions, NEW r \in Requests, DeleteRequestCommit(x, r)
  PROVE  SafeStep
<1>1. /\ ses[x] # None /\ ses[x] \in Handler /\ HandlerInv(x)
      /\ ses[x].op = "delete_request" /\ ses[x].seen # None
  BY DEF DeleteRequestCommit, Running, GovernanceInv, TypeOK, HandlerInv
<1> PICK s \in Sources : s = ses[x].source
  BY <1>1 DEF Handler
<1> DEFINE status == Column(src[s].status, ses[x].seen.status, "delete_requested")
           row == [src[s] EXCEPT !.status = status]
<1>2. /\ src[s] # None /\ src[s] \in SourceRow
      /\ status \in (SourceStatus \cup {ManualReview}) \ OperationalSourceStates
  <2>1. "delete_requested" \in SourceStatus \cup {ManualReview}
        /\ "delete_requested" \notin OperationalSourceStates
    BY DEF SourceStatus, OperationalSourceStates
  <2> QED BY <1>1, <2>1, StatusWrite
<1>3. /\ req' = [req EXCEPT ![r] = [source |-> s, status |-> "received"]]
      /\ src' = [src EXCEPT ![s].status = status]
      /\ retired' = retired \cup {s}
      /\ Idle(x) /\ UNCHANGED <<pat, policy, snaps, jobs>>
  BY DEF DeleteRequestCommit
<1> HIDE DEF status
<1>4. row \in SourceRow /\ row.status \notin OperationalSourceStates
  BY <1>2 DEF SourceRow
<1>5. src' = [src EXCEPT ![s] = row]
  BY <1>2, <1>3 DEF SourceRow, GovernanceInv, TypeOK
<1> HIDE DEF row
<1>6. /\ req' \in [Requests -> RequestRow \cup {None}]
      /\ \A z \in Requests : req[z] # None => req'[z] # None
  <2>1. [source |-> s, status |-> "received"] \in RequestRow
    BY DEF RequestRow
  <2>2. [source |-> s, status |-> "received"] # None
    BY <2>1, ConstantsAssumption
  <2> QED BY <1>3, <2>1, <2>2 DEF GovernanceInv, TypeOK
<1>7. /\ pat' = pat /\ pat' \in [Patterns -> PatternRow \cup {None}]
      /\ policy' \in [Domains -> PolicyCell]
      /\ SnapshotsPersist
  BY <1>3 DEF GovernanceInv, TypeOK, SnapshotsPersist
<1> QED BY <1>3, <1>4, <1>5, <1>6, <1>7, SourceWritePreserves

\* The two propagations that also withdraw the source.
LEMMA PropagationPreserves ==
  ASSUME GovernanceInv, NEW x \in Sessions, NEW target \in {"delete_requested", "blocked"},
         ses[x] # None, ses[x].op \in {"apply_delete", "recheck_removed"},
         NEW s \in Sources, s = ses[x].source,
         src' = [src EXCEPT ![s].status = Column(src[s].status, ses[x].seen.status, target)],
         ses[x].snaps # None, RestrictSnapshots(ses[x].snaps),
         SetPatterns(ses[x].pats, "blocked"), Idle(x),
         req' \in [Requests -> RequestRow \cup {None}],
         \A z \in Requests : req[z] # None => req'[z] # None,
         retired' = retired \cup {s}, UNCHANGED <<policy, jobs>>
  PROVE  SafeStep
<1> DEFINE status == Column(src[s].status, ses[x].seen.status, target)
           row == [src[s] EXCEPT !.status = status]
<1>1. ses[x] \in Handler /\ HandlerInv(x)
  BY DEF GovernanceInv, TypeOK
<1>2. ses[x].seen # None /\ ses[x].pats \subseteq StoredPatterns
      /\ \A n \in ses[x].snaps : snaps[n] # None
  BY <1>1 DEF HandlerInv
<1>3. /\ src[s] # None /\ src[s] \in SourceRow
      /\ status \in (SourceStatus \cup {ManualReview}) \ OperationalSourceStates
  <2>1. target \in SourceStatus \cup {ManualReview} /\ target \notin OperationalSourceStates
    BY DEF SourceStatus, OperationalSourceStates
  <2> QED BY <1>2, <2>1, StatusWrite
<1> HIDE DEF status
<1>4. row \in SourceRow /\ row.status \notin OperationalSourceStates
  BY <1>3 DEF SourceRow
<1>5. src' = [src EXCEPT ![s] = row]
  BY <1>3 DEF status, SourceRow, GovernanceInv, TypeOK
<1> HIDE DEF row
<1>6. /\ pat' \in [Patterns -> PatternRow \cup {None}]
      /\ \A p \in Patterns : pat[p] # None => pat'[p] # None
  <2>1. "blocked" \in PatternStatus
    BY DEF PatternStatus
  <2> QED BY <1>2, <2>1, SetPatternsPersist
<1>7. policy' \in [Domains -> PolicyCell] /\ SnapshotsPersist
  BY <1>2, RestrictPersists DEF GovernanceInv, TypeOK
<1> QED BY <1>4, <1>5, <1>6, <1>7, SourceWritePreserves

LEMMA ApplyDeletePreserves ==
  ASSUME GovernanceInv, NEW x \in Sessions, ApplyDeleteCommit(x)
  PROVE  SafeStep
<1>1. ses[x] # None /\ ses[x] \in Handler /\ ses[x].op = "apply_delete" /\ HandlerInv(x)
  BY DEF ApplyDeleteCommit, Running, GovernanceInv, TypeOK
<1> PICK s \in Sources : s = ses[x].source
  BY <1>1 DEF Handler
<1>2. /\ src' = [src EXCEPT ![s].status =
                   Column(src[s].status, ses[x].seen.status, "delete_requested")]
      /\ ses[x].snaps # None /\ RestrictSnapshots(ses[x].snaps)
      /\ retired' = retired \cup {s}
      /\ req' = IF ses[x].request = None THEN req
                   ELSE [req EXCEPT ![ses[x].request].status = "resolved"]
      /\ SetPatterns(ses[x].pats, "blocked") /\ Idle(x) /\ UNCHANGED <<policy, jobs>>
  BY DEF ApplyDeleteCommit
<1>3. /\ req' \in [Requests -> RequestRow \cup {None}]
      /\ \A z \in Requests : req[z] # None => req'[z] # None
  <2>1. CASE ses[x].request = None
    BY <1>2, <2>1 DEF GovernanceInv, TypeOK
  <2>2. CASE ses[x].request # None
    <3>1. ses[x].request \in Requests /\ req[ses[x].request] \in RequestRow
      BY <1>1, <2>2 DEF Handler, HandlerInv, GovernanceInv, TypeOK
    <3>2. [req[ses[x].request] EXCEPT !.status = "resolved"] \in RequestRow
      BY <3>1 DEF RequestRow
    <3>3. [req[ses[x].request] EXCEPT !.status = "resolved"] # None
      BY <3>2, ConstantsAssumption
    <3> QED BY <1>2, <2>2, <3>1, <3>2, <3>3 DEF GovernanceInv, TypeOK
  <2> QED BY <2>1, <2>2
<1> QED BY <1>1, <1>2, <1>3, PropagationPreserves

LEMMA RecheckRemovedPreserves ==
  ASSUME GovernanceInv, NEW x \in Sessions, RecheckRemovedCommit(x)
  PROVE  SafeStep
<1>1. ses[x] # None /\ ses[x] \in Handler /\ ses[x].op = "recheck_removed"
  BY DEF RecheckRemovedCommit, Running, GovernanceInv, TypeOK
<1> PICK s \in Sources : s = ses[x].source
  BY <1>1 DEF Handler
<1>2. /\ src' = [src EXCEPT ![s].status =
                   Column(src[s].status, ses[x].seen.status, "blocked")]
      /\ ses[x].snaps # None /\ RestrictSnapshots(ses[x].snaps)
      /\ retired' = retired \cup {s}
      /\ SetPatterns(ses[x].pats, "blocked") /\ Idle(x) /\ UNCHANGED <<req, policy, jobs>>
  BY DEF RecheckRemovedCommit
<1>3. req' \in [Requests -> RequestRow \cup {None}]
  BY <1>2 DEF GovernanceInv, TypeOK
<1> QED BY <1>1, <1>2, <1>3, PropagationPreserves

\* Blocking or reviewing patterns, and nothing else.
LEMMA PatternWritePreserves ==
  ASSUME GovernanceInv, NEW x \in Sessions, NEW ps, ps \subseteq StoredPatterns,
         NEW status \in PatternStatus, SetPatterns(ps, status), Idle(x),
         UNCHANGED <<src, req, policy, snaps, jobs, retired>>
  PROVE  SafeStep
<1>1. /\ pat' \in [Patterns -> PatternRow \cup {None}]
      /\ \A p \in Patterns : pat[p] # None => pat'[p] # None
  BY SetPatternsPersist
<1>2. ses' \in [Sessions -> Handler \cup {None}]
      /\ \A y \in Sessions : ses'[y] = ses[y] \/ ses'[y] = None
  BY DEF Idle, GovernanceInv, TypeOK
<1>3. TypeOK' /\ RowsPersist
  BY <1>1, <1>2 DEF GovernanceInv, TypeOK, RowsPersist, Withdrawn
<1> QED BY <1>2, <1>3, RowsPersistPreserves

LEMMA RecheckHoldPreserves ==
  ASSUME GovernanceInv, NEW x \in Sessions, RecheckHoldCommit(x)
  PROVE  SafeStep
<1>1. /\ ses[x].pats \subseteq StoredPatterns /\ "blocked" \in PatternStatus
      /\ SetPatterns(ses[x].pats, "blocked") /\ Idle(x)
      /\ UNCHANGED <<src, req, policy, snaps, jobs, retired>>
  BY DEF RecheckHoldCommit, Running, GovernanceInv, HandlerInv, PatternStatus
<1> QED BY <1>1, PatternWritePreserves

LEMMA ReviewPreserves ==
  ASSUME GovernanceInv, NEW x \in Sessions, ReviewCommit(x)
  PROVE  SafeStep
<1>1. /\ ses[x].pats \subseteq StoredPatterns /\ Reviewed(ses[x].op) \in PatternStatus
      /\ SetPatterns(ses[x].pats, Reviewed(ses[x].op)) /\ Idle(x)
      /\ UNCHANGED <<src, req, policy, snaps, jobs, retired>>
  BY DEF ReviewCommit, Running, Reviewed, GovernanceInv, HandlerInv, PatternStatus
<1> QED BY <1>1, PatternWritePreserves

(***************************************************************************)
(* Crawling, and what touches only jobs, snapshots and sessions            *)
(***************************************************************************)
LEMMA CrawlPersistPreserves ==
  ASSUME GovernanceInv, NEW x \in Sessions, NEW p \in Patterns,
         NEW license \in PatternLicenses, NEW feature \in Features,
         CrawlPersist(x, p, license, feature)
  PROVE  SafeStep
<1>1. ses[x] \in Handler
  BY DEF CrawlPersist, Running, GovernanceInv, TypeOK
<1> PICK s \in Sources : s = ses[x].source
  BY <1>1 DEF Handler
<1>2. PICK row \in PatternRow : row = BuiltPattern(s, license, feature) /\ row # None
  BY BuiltPatternType
<1>3. pat' = [pat EXCEPT ![p] = row] /\ jobs' = jobs \ {s} /\ Idle(x)
      /\ UNCHANGED <<src, req, policy, snaps, retired>>
  BY <1>2 DEF CrawlPersist
<1>4. TypeOK' /\ RowsPersist
  BY <1>2, <1>3 DEF GovernanceInv, TypeOK, RowsPersist, Withdrawn, Idle
<1>5. \A y \in Sessions : ses'[y] = ses[y] \/ ses'[y] = None
  BY <1>3 DEF Idle, GovernanceInv, TypeOK
<1> QED BY <1>3, <1>4, <1>5, RowsPersistPreserves

LEMMA BookkeepingPreserves ==
  ASSUME GovernanceInv, NEW x \in Sessions,
         Idle(x) \/ ses' = ses,
         jobs' \in SUBSET Sources, SnapshotsPersist,
         UNCHANGED <<src, pat, req, policy, retired>>
  PROVE  SafeStep
<1>1. ses' \in [Sessions -> Handler \cup {None}]
      /\ \A y \in Sessions : ses'[y] = ses[y] \/ ses'[y] = None
  BY DEF Idle, GovernanceInv, TypeOK
<1>2. TypeOK' /\ RowsPersist
  BY <1>1 DEF GovernanceInv, TypeOK, RowsPersist, Withdrawn, SnapshotsPersist
<1> QED BY <1>1, <1>2, RowsPersistPreserves

LEMMA CreateCrawlJobPreserves ==
  ASSUME GovernanceInv, NEW s \in Sources, CreateCrawlJob(s)
  PROVE  SafeStep
<1>1. TypeOK' /\ RowsPersist
  BY DEF CreateCrawlJob, GovernanceInv, TypeOK, RowsPersist, Withdrawn
<1>2. (\A y \in Sessions : ses'[y] = ses[y]) /\ retired' = retired
  BY DEF CreateCrawlJob
<1> QED BY <1>1, <1>2, RowsPersistPreserves

LEMMA StoreSnapshotPreserves ==
  ASSUME GovernanceInv, NEW x \in Sessions, NEW n \in Snapshots, StoreSnapshot(x, n)
  PROVE  SafeStep
<1>1. SnapshotsPersist
  <2>1. ses[x].source \in Sources
    BY DEF StoreSnapshot, Running, GovernanceInv, TypeOK, Handler
  <2>2. [source |-> ses[x].source, access |-> "restricted"] \in SnapshotRow
    BY <2>1 DEF SnapshotRow
  <2> QED BY <2>2 DEF StoreSnapshot, GovernanceInv, TypeOK, SnapshotsPersist
<1>2. jobs' \in SUBSET Sources
  BY DEF StoreSnapshot, GovernanceInv, TypeOK
<1>3. ses' = ses /\ UNCHANGED <<src, pat, req, policy, retired>>
  BY DEF StoreSnapshot
<1> QED BY <1>1, <1>2, <1>3, BookkeepingPreserves

\* A conflicting policy insert, a crash and a failed crawl only end a handler.
LEMMA AbortPreserves ==
  ASSUME GovernanceInv, NEW x \in Sessions,
         PolicyCheckConflict(x) \/ Crash(x) \/ CrawlFail(x)
  PROVE  SafeStep
<1>1. Idle(x) /\ UNCHANGED <<src, pat, req, policy, snaps, retired>>
      /\ jobs' \in SUBSET Sources
  BY DEF PolicyCheckConflict, Crash, CrawlFail, GovernanceInv, TypeOK
<1>2. SnapshotsPersist
  BY <1>1 DEF GovernanceInv, TypeOK, SnapshotsPersist
<1> QED BY <1>1, <1>2, BookkeepingPreserves

(***************************************************************************)
(* Every step                                                              *)
(***************************************************************************)
LEMMA SourcePreserves ==
  ASSUME GovernanceInv, NEW s \in Sources, SourceNext(s)
  PROVE  SafeStep
BY RegisterPreserves, IngestPreserves, CreateCrawlJobPreserves DEF SourceNext

LEMMA CommitPreserves ==
  ASSUME GovernanceInv, NEW x \in Sessions, CommitNext(x)
  PROVE  SafeStep
<1>1. CASE PolicyCheckDecide(x)
  BY <1>1, DecidePreserves
<1>2. CASE PolicyCheckCommit(x)
  BY <1>2, PolicyCheckPreserves
<1>3. CASE PolicyCheckConflict(x) \/ Crash(x) \/ CrawlFail(x)
  BY <1>3, AbortPreserves
<1>4. CASE \E r \in Requests : DeleteRequestCommit(x, r)
  BY <1>4, DeleteRequestPreserves
<1>5. CASE BlockPatternsLoad(x)
  BY <1>5, BlockPatternsLoadPreserves
<1>6. CASE ApplyDeleteCommit(x)
  BY <1>6, ApplyDeletePreserves
<1>7. CASE RecheckHoldCommit(x)
  BY <1>7, RecheckHoldPreserves
<1>8. CASE RecheckRemovedCommit(x)
  BY <1>8, RecheckRemovedPreserves
<1>9. CASE ReviewCommit(x)
  BY <1>9, ReviewPreserves
<1>10. CASE \E p \in Patterns, license \in PatternLicenses, feature \in Features :
              CrawlPersist(x, p, license, feature)
  BY <1>10, CrawlPersistPreserves
<1>11. CASE \E n \in Snapshots : StoreSnapshot(x, n)
  BY <1>11, StoreSnapshotPreserves
<1>12. CASE RestrictSnapshotsLoad(x)
  BY <1>12, RestrictSnapshotsLoadPreserves
<1> QED
  BY <1>1, <1>2, <1>3, <1>4, <1>5, <1>6, <1>7, <1>8, <1>9, <1>10, <1>11, <1>12 DEF CommitNext

LEMMA NextPreserves ==
  ASSUME GovernanceInv, [Next]_vars
  PROVE  SafeStep
<1>1. CASE UNCHANGED vars
  BY <1>1 DEF vars, GovernanceInv, TypeOK, HandlerInv, Withdrawn, StoredPatterns, SafeStep
<1>2. CASE Next
  BY <1>2, SourcePreserves, ReadPreserves, CommitPreserves DEF Next
<1> QED BY <1>1, <1>2

(***************************************************************************)
(* The theorems                                                            *)
(***************************************************************************)
\* In every reachable state the rows are well typed, each handler in flight
\* remembers nothing the database contradicts in a way that could undo a
\* withdrawal, and a source whose deletion was answered is withdrawn.
THEOREM GovernanceInvariant == Spec => []GovernanceInv
<1>1. GovernanceInv /\ [Next]_vars => GovernanceInv'
  BY NextPreserves DEF SafeStep
<1> QED BY InitGovernanceInv, <1>1, PTL DEF Spec

\* After apply_delete, delete_request or a "removed" recheck has answered, no
\* pattern of the source passes the operational gate again.
THEOREM RetiredStayOut == Spec => []RetiredNeverOperational
<1>1. GovernanceInv => RetiredNeverOperational
  BY GateImpliesGovernance
  DEF GovernanceInv, RetiredNeverOperational, Withdrawn, Operational
<1> QED BY GovernanceInvariant, <1>1, PTL

\* approve_pattern, which sets the pattern status and nothing else, cannot
\* make a pattern operational whose content the pipeline blocked.
THEOREM GovernanceCannotBeOverruled == Spec => []GovernanceIsFinal
<1>1. GovernanceIsFinal
  BY GateImpliesGovernance DEF GovernanceIsFinal, Operational, GovernanceStatus
<1> QED BY <1>1, PTL

\* No handler brings a source (back) into an operational status.
THEOREM NoReturnFromWithdrawal == Spec => NeverReoperational
<1>1. GovernanceInv /\ [Next]_vars =>
        [\A s \in Sources :
           /\ src[s] # None
           /\ src[s].status \notin OperationalSourceStates
           => src'[s].status \notin OperationalSourceStates]_src
  BY NextPreserves DEF SafeStep, Withdrawn
<1> QED BY GovernanceInvariant, <1>1, PTL DEF Spec, NeverReoperational

(***************************************************************************)
(* Deletions that wait for crawls and approvals: complete, however many    *)
(* other handlers overlap with them.                                       *)
(***************************************************************************)
\* What a propagation in flight will block, and on whose behalf: its request,
\* if any, is one of its source's, and of the source's patterns and snapshots
\* it has loaded every one that is not blocked yet.
PropagationInv(x) ==
  Running(x, "apply_delete") =>
    LET h == ses[x]
    IN  /\ h.request # None => req[h.request].source = h.source
        /\ h.loaded => \A p \in PatternsOf(h.source) : p \in h.pats \/ pat[p].status = "blocked"
        /\ h.snaps # None =>
             /\ h.loaded
             /\ \A n \in SnapshotsOf(h.source) : n \in h.snaps \/ snaps[n].access = "blocked"

\* An approval in flight will write a pattern of the source it is said to.
ApprovalInv(x) ==
  Running(x, "approve") => \A p \in ses[x].pats : pat[p].source = ses[x].source

DeletionInv ==
  /\ \A x \in Sessions : PropagationInv(x) /\ ApprovalInv(x)
  /\ \A s \in Sources : Deleting(s) => ~Busy(s)
  /\ \A r \in Requests : req[r] # None => src[req[r].source] # None
  /\ DeletionComplete

\* The operators and reviewers follow the procedure.
Procedure == Drained /\ MatchedRequests

\* A handler that starts has loaded nothing: a propagation starts while the
\* source is neither crawled nor approved, a crawl from the job table, and an
\* approval on a source that is not being deleted.
Started(h) ==
  /\ ~h.loaded /\ h.snaps = None
  /\ h.op = "crawl" => h.source \in jobs
  /\ h.op = "apply_delete" =>
       /\ ~Busy(h.source)
       /\ h.request # None => req[h.request].source = h.source
  /\ h.op = "approve" =>
       /\ ~Deleting(h.source)
       /\ \A p \in h.pats : pat[p].source = h.source

\* A handler that loads keeps what it was started for, and a propagation
\* loads every pattern, then every snapshot, of its source that is not blocked.
Loads(h, new) ==
  /\ new.op = h.op /\ new.source = h.source /\ new.request = h.request
  /\ h.op # "approve"
  /\ h.op = "apply_delete" =>
       \/ /\ ~h.loaded /\ new.snaps = h.snaps
          /\ new.pats = {p \in PatternsOf(h.source) : pat[p].status # "blocked"}
       \/ /\ h.loaded /\ new.loaded /\ new.pats = h.pats
          /\ new.snaps = {n \in SnapshotsOf(h.source) : snaps[n].access # "blocked"}

LEMMA ReadBegins ==
  ASSUME GovernanceInv, Procedure, NEW x \in Sessions, ReadNext(x)
  PROVE  \E h : /\ ses[x] = None /\ ses' = [ses EXCEPT ![x] = h] /\ Started(h)
                /\ UNCHANGED <<src, pat, req, policy, snaps, jobs, retired>>
<1> DEFINE Goal == \E h : /\ ses[x] = None /\ ses' = [ses EXCEPT ![x] = h] /\ Started(h)
                          /\ UNCHANGED <<src, pat, req, policy, snaps, jobs, retired>>
<1>1. ASSUME NEW op, NEW s, NEW row, NEW pats, NEW r, Begin(x, op, s, row, pats, r),
             op = "crawl" => s \in jobs,
             op = "apply_delete" => ~Busy(s) /\ (r # None => req[r].source = s),
             op = "approve" => ~Deleting(s) /\ \A p \in pats : pat[p].source = s
      PROVE  Goal
  <2> DEFINE h == [op |-> op, loaded |-> FALSE, source |-> s, seen |-> row, pats |-> pats,
                   snaps |-> None, decision |-> None, request |-> r]
  <2>1. /\ ses[x] = None /\ ses' = [ses EXCEPT ![x] = h]
        /\ UNCHANGED <<src, pat, req, policy, snaps, jobs, retired>>
    BY <1>1 DEF Begin
  <2>2. /\ h.op = op /\ ~h.loaded /\ h.source = s /\ h.request = r /\ h.snaps = None
        /\ h.pats = pats
    OBVIOUS
  <2> HIDE DEF h
  <2>3. Started(h)
    BY <1>1, <2>2 DEF Started
  <2> QED BY <2>1, <2>3
<1> HIDE DEF Goal
<1>2. ASSUME NEW s \in Sources, PolicyCheckRead(x, s) PROVE Goal
  BY <1>1, <1>2 DEF PolicyCheckRead
<1>3. ASSUME NEW s \in Sources, DeleteRequestRead(x, s) PROVE Goal
  BY <1>1, <1>3 DEF DeleteRequestRead
<1>4. ASSUME NEW s \in Sources, NEW r \in Requests \cup {None}, ApplyDeleteRead(x, s, r)
      PROVE  Goal
  BY <1>1, <1>4 DEF ApplyDeleteRead, Procedure
<1>5. ASSUME NEW s \in Sources, NEW result \in {"recheck_hold", "recheck_removed"},
             RecheckRead(x, s, result)
      PROVE  Goal
  BY <1>1, <1>5 DEF RecheckRead
<1>6. ASSUME NEW s \in Sources, CrawlStart(x, s) PROVE Goal
  BY <1>1, <1>6 DEF CrawlStart
<1>7. ASSUME NEW p \in Patterns, NEW op \in {"approve", "block"}, ReviewRead(x, p, op)
      PROVE  Goal
  <2>1. PICK pats \in SUBSET {p} : Begin(x, op, pat[p].source, None, pats, None)
    BY <1>7 DEF ReviewRead
  <2>2. op = "approve" => ~Deleting(pat[p].source)
    BY <1>7 DEF ReviewRead, Procedure
  <2> QED BY <1>1, <1>7, <2>1, <2>2
<1>8. Goal
  BY <1>2, <1>3, <1>4, <1>5, <1>6, <1>7 DEF ReadNext
<1> QED BY <1>8 DEF Goal

\* A step changes a session by starting a handler in it, ending it, or
\* loading what the handler decides on.
LEMMA SessionSteps ==
  ASSUME GovernanceInv, Procedure, Next, NEW y \in Sessions
  PROVE  \/ ses'[y] = ses[y]
         \/ ses'[y] = None
         \/ /\ ses[y] = None /\ Started(ses'[y])
            /\ UNCHANGED <<src, pat, req, snaps, jobs>>
         \/ /\ ses[y] # None /\ Loads(ses[y], ses'[y])
            /\ UNCHANGED <<src, pat, req, snaps, jobs>>
<1>1. CASE \E s \in Sources : SourceNext(s)
  BY <1>1 DEF SourceNext, Register, Ingest, CreateCrawlJob
<1>2. ASSUME NEW x \in Sessions, ReadNext(x)
      PROVE  \/ ses'[y] = ses[y]
             \/ /\ ses[y] = None /\ Started(ses'[y])
                /\ UNCHANGED <<src, pat, req, snaps, jobs>>
  BY <1>2, ReadBegins DEF GovernanceInv, TypeOK
<1>3. ASSUME NEW x \in Sessions, BlockPatternsLoad(x)
      PROVE  \/ ses'[y] = ses[y]
             \/ /\ ses[y] # None /\ Loads(ses[y], ses'[y])
                /\ UNCHANGED <<src, pat, req, snaps, jobs>>
  <2> DEFINE ps == {p \in PatternsOf(ses[x].source) : pat[p].status # "blocked"}
             h == [ses[x] EXCEPT !.loaded = TRUE, !.pats = ps]
  <2>1. /\ ses[x] \in Handler /\ ses[x] # None /\ ~ses[x].loaded
        /\ ses[x].op # "approve"
    BY <1>3 DEF BlockPatternsLoad, Blocks, Running, GovernanceInv, TypeOK
  <2>2. ses' = [ses EXCEPT ![x] = h] /\ UNCHANGED <<src, pat, req, snaps, jobs>>
    BY <1>3, <2>1 DEF BlockPatternsLoad, GovernanceInv, TypeOK
  <2> HIDE DEF ps
  <2>3. /\ h.op = ses[x].op /\ h.source = ses[x].source /\ h.request = ses[x].request
        /\ h.pats = ps /\ h.snaps = ses[x].snaps
    BY <2>1 DEF Handler
  <2> HIDE DEF h
  <2> QED BY <2>1, <2>2, <2>3 DEF ps, Loads, GovernanceInv, TypeOK
<1>4. ASSUME NEW x \in Sessions, PolicyCheckDecide(x)
      PROVE  \/ ses'[y] = ses[y]
             \/ /\ ses[y] # None /\ Loads(ses[y], ses'[y])
                /\ UNCHANGED <<src, pat, req, snaps, jobs>>
  <2>1. ses[x] \in Handler /\ ses[x] # None /\ ses[x].op = "policy_check"
    BY <1>4 DEF PolicyCheckDecide, Running, GovernanceInv, TypeOK
  <2>2. PICK d : ses' = [ses EXCEPT ![x] = [ses[x] EXCEPT !.loaded = TRUE, !.decision = d]]
    BY <1>4, <2>1 DEF PolicyCheckDecide, GovernanceInv, TypeOK
  <2> DEFINE h == [ses[x] EXCEPT !.loaded = TRUE, !.decision = d]
  <2>3. h.op = ses[x].op /\ h.source = ses[x].source /\ h.request = ses[x].request
    BY <2>1 DEF Handler
  <2>4. UNCHANGED <<src, pat, req, snaps, jobs>>
    BY <1>4 DEF PolicyCheckDecide
  <2> HIDE DEF h
  <2>5. ses' = [ses EXCEPT ![x] = h]
    BY <2>2 DEF h
  <2> QED BY <2>1, <2>3, <2>4, <2>5 DEF Loads, GovernanceInv, TypeOK
<1>5. ASSUME NEW x \in Sessions, RestrictSnapshotsLoad(x)
      PROVE  \/ ses'[y] = ses[y]
             \/ /\ ses[y] # None /\ Loads(ses[y], ses'[y])
                /\ UNCHANGED <<src, pat, req, snaps, jobs>>
  <2> DEFINE ns == {n \in SnapshotsOf(ses[x].source) : snaps[n].access # "blocked"}
             h == [ses[x] EXCEPT !.snaps = ns]
  <2>1. /\ ses[x] \in Handler /\ ses[x] # None /\ ses[x].loaded
        /\ ses[x].op # "approve"
    BY <1>5 DEF RestrictSnapshotsLoad, Restricts, Running, GovernanceInv, TypeOK
  <2>2. ses' = [ses EXCEPT ![x] = h] /\ UNCHANGED <<src, pat, req, snaps, jobs>>
    BY <1>5, <2>1 DEF RestrictSnapshotsLoad, GovernanceInv, TypeOK
  <2> HIDE DEF ns
  <2>3. /\ h.op = ses[x].op /\ h.source = ses[x].source /\ h.request = ses[x].request
        /\ h.pats = ses[x].pats /\ h.snaps = ns /\ h.loaded
    BY <2>1 DEF Handler
  <2> HIDE DEF h
  <2> QED BY <2>1, <2>2, <2>3 DEF ns, Loads, GovernanceInv, TypeOK
<1>6. ASSUME NEW x \in Sessions, CommitNext(x), ~BlockPatternsLoad(x), ~PolicyCheckDecide(x),
             ~RestrictSnapshotsLoad(x)
      PROVE  ses'[y] = ses[y] \/ ses'[y] = None
  <2>1. Idle(x) \/ ses' = ses
    BY <1>6 DEF CommitNext, PolicyCheckCommit, PolicyCheckConflict, DeleteRequestCommit,
         ApplyDeleteCommit, RecheckHoldCommit, RecheckRemovedCommit, ReviewCommit,
         CrawlPersist, CrawlFail, StoreSnapshot, Crash
  <2> QED BY <2>1 DEF Idle, GovernanceInv, TypeOK
<1> QED BY <1>1, <1>2, <1>3, <1>4, <1>5, <1>6 DEF Next

\* Only one handler starts in a step.
LEMMA OneStarts ==
  ASSUME GovernanceInv, Procedure, Next, NEW y \in Sessions, NEW z \in Sessions,
         ses[y] = None, ses'[y] # None, ses[z] = None, ses'[z] # None
  PROVE  y = z
<1>1. CASE \E s \in Sources : SourceNext(s)
  BY <1>1 DEF SourceNext, Register, Ingest, CreateCrawlJob
<1>2. ASSUME NEW x \in Sessions, ReadNext(x) PROVE y = x /\ z = x
  BY <1>2, ReadBegins DEF GovernanceInv, TypeOK
<1>3. ASSUME NEW x \in Sessions, CommitNext(x), NEW w \in Sessions, ses[w] = None
      PROVE  ses'[w] = None
  <2>1. ses[x] # None
    BY <1>3 DEF CommitNext, PolicyCheckDecide, PolicyCheckCommit, PolicyCheckConflict,
       DeleteRequestCommit, BlockPatternsLoad, Blocks, RestrictSnapshotsLoad, Restricts,
       ApplyDeleteCommit, RecheckHoldCommit, RecheckRemovedCommit, ReviewCommit,
       CrawlPersist, CrawlFail, StoreSnapshot, Crash, Running
  <2>2. ses' = ses \/ \E h : ses' = [ses EXCEPT ![x] = h]
    <3>1. CASE PolicyCheckDecide(x)
      BY <3>1 DEF PolicyCheckDecide, GovernanceInv, TypeOK
    <3>2. CASE BlockPatternsLoad(x)
      BY <3>2 DEF BlockPatternsLoad, GovernanceInv, TypeOK
    <3>3. CASE RestrictSnapshotsLoad(x)
      BY <3>3 DEF RestrictSnapshotsLoad, GovernanceInv, TypeOK
    <3>4. CASE ~(PolicyCheckDecide(x) \/ BlockPatternsLoad(x) \/ RestrictSnapshotsLoad(x))
      BY <1>3, <3>4 DEF CommitNext, PolicyCheckCommit, PolicyCheckConflict,
         DeleteRequestCommit, ApplyDeleteCommit, RecheckHoldCommit, RecheckRemovedCommit,
         ReviewCommit, CrawlPersist, CrawlFail, StoreSnapshot, Crash, Idle
    <3> QED BY <3>1, <3>2, <3>3, <3>4
  <2> QED BY <1>3, <2>1, <2>2 DEF GovernanceInv, TypeOK
<1> QED BY <1>1, <1>2, <1>3 DEF Next

\* The steps that write patterns, other than Ingest and CrawlPersist: blocking
\* some, or approving what an approval has loaded.
LEMMA PatternWrites ==
  ASSUME NEW x \in Sessions, CommitNext(x),
         ~\E q \in Patterns, license \in PatternLicenses, feature \in Features :
            CrawlPersist(x, q, license, feature)
  PROVE  \/ pat' = pat
         \/ /\ ses[x] # None
            /\ \/ SetPatterns(ses[x].pats, "blocked")
               \/ SetPatterns(ses[x].pats, "approved") /\ Running(x, "approve")
<1>1. CASE ReviewCommit(x)
  BY <1>1 DEF ReviewCommit, Reviewed, Running
<1>2. CASE ~ReviewCommit(x)
  BY <1>2 DEF CommitNext, PolicyCheckDecide, PolicyCheckCommit, PolicyCheckConflict,
     DeleteRequestCommit, BlockPatternsLoad, RestrictSnapshotsLoad, ApplyDeleteCommit,
     RecheckHoldCommit, RecheckRemovedCommit, Running, CrawlFail, StoreSnapshot, Crash
<1> QED BY <1>1, <1>2

\* A stored pattern keeps its source and is only blocked, or approved where an
\* approval is in flight; patterns appear only of sources that are entering or
\* being crawled.
LEMMA PatternSteps ==
  ASSUME GovernanceInv, DeletionInv, Next, NEW p \in Patterns
  PROVE  \/ pat'[p] = pat[p]
         \/ pat[p] = None /\ (src[pat'[p].source] = None \/ Busy(pat'[p].source))
         \/ /\ pat[p] # None /\ pat'[p].source = pat[p].source
            /\ pat'[p].status = "blocked" \/ Busy(pat[p].source)
<1>1. ASSUME NEW s \in Sources, NEW license \in PatternLicenses, Ingest(s, license)
      PROVE  pat'[p] = pat[p] \/ (pat[p] = None /\ src[pat'[p].source] = None)
  <2>1. PICK new \in SUBSET (Patterns \ StoredPatterns) : \E f \in [new -> Features] :
          pat' = [q \in Patterns |-> IF q \in new THEN BuiltPattern(s, license, f[q]) ELSE pat[q]]
    BY <1>1 DEF Ingest
  <2>2. src[s] = None
    BY <1>1 DEF Ingest
  <2> QED BY <2>1, <2>2 DEF StoredPatterns, BuiltPattern, GovernanceInv, TypeOK
<1>2. ASSUME NEW x \in Sessions, NEW q \in Patterns, NEW license \in PatternLicenses,
             NEW feature \in Features, CrawlPersist(x, q, license, feature)
      PROVE  pat'[p] = pat[p] \/ (pat[p] = None /\ Busy(pat'[p].source))
  BY <1>2 DEF CrawlPersist, BuiltPattern, Busy, GovernanceInv, TypeOK
<1>3. ASSUME NEW x \in Sessions, NEW status \in {"approved", "blocked"},
             SetPatterns(ses[x].pats, status), ses[x] # None,
             status = "approved" => Running(x, "approve")
      PROVE  \/ pat'[p] = pat[p]
             \/ /\ pat[p] # None /\ pat'[p].source = pat[p].source
                /\ pat'[p].status = "blocked" \/ Busy(pat[p].source)
  <2>1. ses[x].pats \subseteq StoredPatterns
    BY <1>3 DEF GovernanceInv, HandlerInv
  <2>2. CASE p \in ses[x].pats
    <3>1. pat[p] # None /\ pat[p] \in PatternRow
      BY <2>1, <2>2 DEF StoredPatterns, GovernanceInv, TypeOK
    <3>2. pat'[p].source = pat[p].source /\ pat'[p].status = status
      BY <1>3, <2>2, <3>1 DEF SetPatterns, PatternRow
    <3>3. CASE Running(x, "approve")
      BY <2>2, <3>1, <3>2, <3>3 DEF DeletionInv, ApprovalInv, Busy
    <3> QED BY <1>3, <3>1, <3>2, <3>3
  <2>3. CASE p \notin ses[x].pats
    BY <1>3, <2>3 DEF SetPatterns, GovernanceInv, TypeOK
  <2> QED BY <2>2, <2>3
<1>4. ASSUME NEW x \in Sessions, ReadNext(x) PROVE pat' = pat
  BY <1>4 DEF ReadNext, PolicyCheckRead, DeleteRequestRead, ApplyDeleteRead, RecheckRead,
     CrawlStart, ReviewRead, Begin
<1>5. ASSUME NEW s \in Sources, SourceNext(s),
             ~\E license \in PatternLicenses : Ingest(s, license)
      PROVE  pat' = pat
  BY <1>5 DEF SourceNext, Register, CreateCrawlJob
<1> QED BY <1>1, <1>2, <1>3, <1>4, <1>5, PatternWrites DEF Next

\* Snapshots are added only to a source that is being crawled, and then only
\* blocked.
LEMMA SnapshotSteps ==
  ASSUME GovernanceInv, Next, NEW n \in Snapshots
  PROVE  \/ snaps'[n] = snaps[n]
         \/ snaps[n] = None /\ Busy(snaps'[n].source)
         \/ /\ snaps[n] # None /\ snaps'[n].source = snaps[n].source
            /\ snaps'[n].access = "blocked"
<1>1. ASSUME NEW x \in Sessions, ses[x] # None, ses[x].snaps # None,
             RestrictSnapshots(ses[x].snaps)
      PROVE  \/ snaps'[n] = snaps[n]
             \/ /\ snaps[n] # None /\ snaps'[n].source = snaps[n].source
                /\ snaps'[n].access = "blocked"
  <2>1. CASE n \in ses[x].snaps
    <3>1. snaps[n] # None /\ snaps[n] \in SnapshotRow
      BY <1>1, <2>1 DEF GovernanceInv, HandlerInv, TypeOK
    <3> QED BY <1>1, <2>1, <3>1 DEF RestrictSnapshots, SnapshotRow
  <2>2. CASE n \notin ses[x].snaps
    BY <1>1, <2>2 DEF RestrictSnapshots, GovernanceInv, TypeOK
  <2> QED BY <2>1, <2>2
<1>2. ASSUME NEW x \in Sessions, NEW m \in Snapshots, StoreSnapshot(x, m)
      PROVE  snaps'[n] = snaps[n] \/ (snaps[n] = None /\ Busy(snaps'[n].source))
  BY <1>2 DEF StoreSnapshot, Busy, Running, GovernanceInv, TypeOK
<1>3. ASSUME NEW x \in Sessions, CommitNext(x), ~\E m \in Snapshots : StoreSnapshot(x, m)
      PROVE  \/ snaps' = snaps
             \/ ses[x] # None /\ ses[x].snaps # None /\ RestrictSnapshots(ses[x].snaps)
  BY <1>3 DEF CommitNext, PolicyCheckDecide, PolicyCheckCommit, PolicyCheckConflict,
     DeleteRequestCommit, BlockPatternsLoad, RestrictSnapshotsLoad, ApplyDeleteCommit,
     RecheckHoldCommit, RecheckRemovedCommit, ReviewCommit, CrawlPersist, CrawlFail, Crash,
     Running
<1>4. ASSUME NEW x \in Sessions, ReadNext(x) PROVE snaps' = snaps
  BY <1>4 DEF ReadNext, PolicyCheckRead, DeleteRequestRead, ApplyDeleteRead, RecheckRead,
     CrawlStart, ReviewRead, Begin
<1>5. ASSUME NEW z \in Sources, SourceNext(z) PROVE snaps' = snaps
  BY <1>5 DEF SourceNext, Register, Ingest, CreateCrawlJob
<1> QED BY <1>1, <1>2, <1>3, <1>4, <1>5 DEF Next

\* A request is received of an existing source, and resolved by the
\* propagation that names it.
LEMMA RequestSteps ==
  ASSUME GovernanceInv, Next, NEW r \in Requests
  PROVE  \/ req'[r] = req[r]
         \/ req[r] = None /\ req'[r].status = "received" /\ src[req'[r].source] # None
         \/ /\ req[r] # None /\ req'[r].source = req[r].source
            /\ \E x \in Sessions : ApplyDeleteCommit(x) /\ ses[x].request = r
<1>1. ASSUME NEW x \in Sessions, NEW q \in Requests, DeleteRequestCommit(x, q)
      PROVE  \/ req'[r] = req[r]
             \/ req[r] = None /\ req'[r].status = "received" /\ src[req'[r].source] # None
  <2>1. ses[x] # None /\ ses[x].op = "delete_request" /\ HandlerInv(x)
    BY <1>1 DEF DeleteRequestCommit, Running, GovernanceInv
  <2>2. src[ses[x].source] # None
    BY <2>1 DEF HandlerInv
  <2>3. req[q] = None /\ req' = [req EXCEPT ![q] = [source |-> ses[x].source, status |-> "received"]]
    BY <1>1 DEF DeleteRequestCommit
  <2> QED BY <2>2, <2>3 DEF GovernanceInv, TypeOK
<1>2. ASSUME NEW x \in Sessions, ApplyDeleteCommit(x)
      PROVE  \/ req'[r] = req[r]
             \/ /\ req[r] # None /\ req'[r].source = req[r].source
                /\ ApplyDeleteCommit(x) /\ ses[x].request = r
  <2>1. CASE ses[x].request = r /\ r # None
    <3>1. req[r] # None /\ req[r] \in RequestRow
      BY <1>2, <2>1 DEF ApplyDeleteCommit, Running, GovernanceInv, HandlerInv, TypeOK
    <3>2. req' = [req EXCEPT ![r].status = "resolved"]
      BY <1>2, <2>1 DEF ApplyDeleteCommit
    <3> QED BY <1>2, <2>1, <3>1, <3>2 DEF RequestRow, GovernanceInv, TypeOK
  <2>2. CASE ses[x].request # r
    BY <1>2, <2>2 DEF ApplyDeleteCommit, GovernanceInv, TypeOK
  <2> QED BY <2>1, <2>2, ConstantsAssumption
<1>3. ASSUME NEW x \in Sessions, CommitNext(x), ~ApplyDeleteCommit(x),
             ~\E q \in Requests : DeleteRequestCommit(x, q)
      PROVE  req' = req
  BY <1>3 DEF CommitNext, PolicyCheckDecide, PolicyCheckCommit, PolicyCheckConflict,
     BlockPatternsLoad, RestrictSnapshotsLoad, RecheckHoldCommit, RecheckRemovedCommit,
     ReviewCommit, CrawlPersist, CrawlFail, StoreSnapshot, Crash
<1>4. ASSUME NEW x \in Sessions, ReadNext(x) PROVE req' = req
  BY <1>4 DEF ReadNext, PolicyCheckRead, DeleteRequestRead, ApplyDeleteRead, RecheckRead,
     CrawlStart, ReviewRead, Begin
<1>5. ASSUME NEW z \in Sources, SourceNext(z) PROVE req' = req
  BY <1>5 DEF SourceNext, Register, Ingest, CreateCrawlJob
<1> QED BY <1>1, <1>2, <1>3, <1>4, <1>5 DEF Next

\* Crawls, approvals and propagations of one source keep apart.
LEMMA KeptApart ==
  ASSUME GovernanceInv, Procedure, DeletionInv, Next, NEW s \in Sources, Deleting(s)'
  PROVE  ~Busy(s)' /\ ~Busy(s)
<1>1. \/ Deleting(s)
      \/ /\ ~Busy(s) /\ UNCHANGED <<jobs, req>>
         /\ \E z \in Sessions : Running(z, "apply_delete")' /\ ses[z] = None
  <2>1. ASSUME NEW y \in Sessions, Running(y, "apply_delete")', ses'[y].source = s
        PROVE  \/ Deleting(s)
               \/ ~Busy(s) /\ UNCHANGED <<jobs, req>> /\ ses[y] = None
    BY <2>1, SessionSteps DEF Running, Started, Loads, Deleting
  <2>2. ASSUME NEW r \in Requests, req'[r] # None, req'[r].source = s,
               req'[r].status = "resolved"
        PROVE  Deleting(s)
    <3>1. CASE req'[r] = req[r]
      BY <2>2, <3>1 DEF Deleting
    <3>2. ASSUME req[r] # None, req'[r].source = req[r].source, NEW x \in Sessions,
                 ApplyDeleteCommit(x), ses[x].request = r
          PROVE  Deleting(s)
      <4>1. Running(x, "apply_delete") /\ PropagationInv(x)
        BY <3>2 DEF ApplyDeleteCommit, DeletionInv
      <4>2. ses[x].source = req[r].source
        BY <3>2, <4>1, ConstantsAssumption DEF PropagationInv
      <4> QED BY <2>2, <3>2, <4>1, <4>2 DEF Deleting
    <3> QED BY <2>2, <3>1, <3>2, RequestSteps
  <2> QED BY <2>1, <2>2 DEF Deleting
<1>2. ~Busy(s)
  BY <1>1 DEF DeletionInv
<1>3. s \notin jobs'
  <2>1. ASSUME CreateCrawlJob(s) PROVE FALSE
    BY <1>1, <2>1 DEF CreateCrawlJob, Procedure, Deleting, Running
  <2>2. ASSUME NEW x \in Sessions, CommitNext(x) PROVE jobs' \subseteq jobs
    BY <2>2 DEF CommitNext, PolicyCheckDecide, PolicyCheckCommit, PolicyCheckConflict,
       DeleteRequestCommit, BlockPatternsLoad, RestrictSnapshotsLoad, ApplyDeleteCommit,
       RecheckHoldCommit, RecheckRemovedCommit, ReviewCommit, CrawlPersist, CrawlFail,
       StoreSnapshot, Crash
  <2>3. ASSUME NEW x \in Sessions, ReadNext(x) PROVE jobs' = jobs
    BY <2>3, ReadBegins
  <2>4. ASSUME NEW z \in Sources, SourceNext(z) PROVE jobs' = jobs \/ CreateCrawlJob(z)
    BY <2>4 DEF SourceNext, Register, Ingest
  <2> QED BY <1>2, <2>1, <2>2, <2>3, <2>4 DEF Next, Busy, CreateCrawlJob
<1>4. ASSUME NEW y \in Sessions, Running(y, "crawl")', ses'[y].source = s PROVE FALSE
  BY <1>2, <1>4, SessionSteps DEF Running, Started, Loads, Busy
<1>5. ASSUME NEW y \in Sessions, Running(y, "approve")', ses'[y].source = s PROVE FALSE
  <2>1. ses[y] = None /\ Started(ses'[y])
    BY <1>2, <1>5, SessionSteps DEF Running, Loads, Busy
  <2>2. ~Deleting(s)
    BY <1>5, <2>1 DEF Started, Running
  <2>3. PICK z \in Sessions : Running(z, "apply_delete")' /\ ses[z] = None
    BY <1>1, <2>2
  <2>4. y = z
    BY <1>5, <2>1, <2>3, OneStarts DEF Running
  <2> QED BY <1>5, <2>3, <2>4 DEF Running
<1> QED BY <1>2, <1>3, <1>4, <1>5 DEF Busy

\* While a source is being deleted, its stored patterns and snapshots are what
\* they were or blocked, and none appears.
LEMMA DeletedSourceQuiet ==
  ASSUME GovernanceInv, Procedure, DeletionInv, Next, NEW s \in Sources, src[s] # None,
         Deleting(s)'
  PROVE  /\ \A p \in PatternsOf(s)' :
              p \in PatternsOf(s) /\ (pat'[p] = pat[p] \/ pat'[p].status = "blocked")
         /\ \A n \in SnapshotsOf(s)' :
              n \in SnapshotsOf(s) /\ (snaps'[n] = snaps[n] \/ snaps'[n].access = "blocked")
<1>1. ~Busy(s)
  BY KeptApart
<1>2. ASSUME NEW p \in PatternsOf(s)'
      PROVE  p \in PatternsOf(s) /\ (pat'[p] = pat[p] \/ pat'[p].status = "blocked")
  <2>1. p \in Patterns /\ pat'[p] # None /\ pat'[p].source = s
    BY <1>2 DEF PatternsOf, StoredPatterns
  <2> QED BY <1>1, <2>1, PatternSteps DEF PatternsOf, StoredPatterns
<1>3. ASSUME NEW n \in SnapshotsOf(s)'
      PROVE  n \in SnapshotsOf(s) /\ (snaps'[n] = snaps[n] \/ snaps'[n].access = "blocked")
  <2>1. n \in Snapshots /\ snaps'[n] # None /\ snaps'[n].source = s
    BY <1>3 DEF SnapshotsOf
  <2> QED BY <1>1, <2>1, SnapshotSteps DEF SnapshotsOf
<1> QED BY <1>2, <1>3

LEMMA ApprovalPreserved ==
  ASSUME GovernanceInv, Procedure, DeletionInv, Next, NEW y \in Sessions
  PROVE  ApprovalInv(y)'
<1> SUFFICES ASSUME Running(y, "approve")', NEW p \in ses'[y].pats
             PROVE  pat'[p].source = ses'[y].source
  BY DEF ApprovalInv
<1>1. CASE ses'[y] = ses[y]
  <2>1. p \in StoredPatterns /\ pat[p].source = ses[y].source
    BY <1>1 DEF Running, GovernanceInv, HandlerInv, DeletionInv, ApprovalInv
  <2> QED BY <1>1, <2>1, PatternSteps DEF StoredPatterns
<1>2. CASE Started(ses'[y]) /\ UNCHANGED pat
  BY <1>2 DEF Started, Running
<1> QED BY <1>1, <1>2, SessionSteps DEF Running, Loads

LEMMA PropagationPreserved ==
  ASSUME GovernanceInv, Procedure, DeletionInv, Next, NEW y \in Sessions
  PROVE  PropagationInv(y)'
<1>1. ASSUME Running(y, "apply_delete")' PROVE PropagationInv(y)'
  <2>1. GovernanceInv' /\ \A s \in Sources : src[s] # None => src'[s] # None
    BY NextPreserves DEF SafeStep
  <2>2. CASE ses'[y] = ses[y]
    <3> PICK h \in Handler : h = ses[y]
      BY <1>1, <2>2 DEF Running, GovernanceInv, TypeOK
    <3>1. Running(y, "apply_delete") /\ PropagationInv(y) /\ HandlerInv(y) /\ h # None
      BY <1>1, <2>2 DEF Running, DeletionInv, GovernanceInv
    <3>2. h.source \in Sources /\ src[h.source] # None /\ Deleting(h.source)'
      BY <1>1, <2>2, <3>1 DEF Handler, HandlerInv, Running, Deleting
    <3>3. ASSUME h.request # None PROVE req'[h.request].source = h.source
      <4>1. h.request \in Requests /\ req[h.request] # None
            /\ req[h.request].source = h.source
        BY <3>1, <3>3 DEF Handler, HandlerInv, PropagationInv
      <4> QED BY <4>1, RequestSteps
    <3>4. ASSUME h.loaded, NEW p \in PatternsOf(h.source)'
          PROVE  p \in h.pats \/ pat'[p].status = "blocked"
      <4>1. p \in PatternsOf(h.source) /\ (pat'[p] = pat[p] \/ pat'[p].status = "blocked")
        BY <3>2, <3>4, DeletedSourceQuiet
      <4> QED BY <3>1, <3>4, <4>1 DEF PropagationInv
    <3>5. ASSUME h.snaps # None, NEW n \in SnapshotsOf(h.source)'
          PROVE  n \in h.snaps \/ snaps'[n].access = "blocked"
      <4>1. n \in SnapshotsOf(h.source) /\ (snaps'[n] = snaps[n] \/ snaps'[n].access = "blocked")
        BY <3>2, <3>5, DeletedSourceQuiet
      <4> QED BY <3>1, <3>5, <4>1 DEF PropagationInv
    <3>6. h.snaps # None => h.loaded
      BY <3>1 DEF PropagationInv
    <3> QED BY <2>2, <3>3, <3>4, <3>5, <3>6 DEF PropagationInv
  <2>3. CASE Started(ses'[y]) /\ UNCHANGED req
    BY <1>1, <2>3 DEF Started, PropagationInv, Running
  <2>4. CASE ses[y] # None /\ Loads(ses[y], ses'[y]) /\ UNCHANGED <<pat, req, snaps>>
    <3>1. Running(y, "apply_delete") /\ PropagationInv(y)
      BY <1>1, <2>4 DEF Running, Loads, DeletionInv
    <3>2. PICK s : s = ses[y].source
      OBVIOUS
    <3>3. /\ ses'[y].source = ses[y].source /\ ses'[y].request = ses[y].request
          /\ \/ /\ ~ses[y].loaded /\ ses'[y].snaps = ses[y].snaps
                /\ ses'[y].pats = {p \in PatternsOf(ses[y].source) : pat[p].status # "blocked"}
             \/ /\ ses[y].loaded /\ ses'[y].loaded /\ ses'[y].pats = ses[y].pats
                /\ ses'[y].snaps = {n \in SnapshotsOf(ses[y].source) :
                                      snaps[n].access # "blocked"}
      BY <2>4, <3>1 DEF Loads, Running
    <3>4. PatternsOf(s)' = PatternsOf(s) /\ SnapshotsOf(s)' = SnapshotsOf(s)
      BY <2>4 DEF PatternsOf, StoredPatterns, SnapshotsOf
    <3>5. /\ ses'[y].loaded => \A p \in PatternsOf(s)' :
               p \in ses'[y].pats \/ pat'[p].status = "blocked"
          /\ ses'[y].snaps # None =>
               /\ ses'[y].loaded
               /\ \A n \in SnapshotsOf(s)' : n \in ses'[y].snaps \/ snaps'[n].access = "blocked"
      BY <2>4, <3>1, <3>2, <3>3, <3>4 DEF PropagationInv
    <3> QED BY <2>4, <3>1, <3>2, <3>3, <3>5
            DEF Running, PropagationInv, PatternsOf, StoredPatterns, SnapshotsOf
  <2> QED BY <1>1, <2>2, <2>3, <2>4, SessionSteps DEF Running
<1> QED BY <1>1 DEF PropagationInv

\* The step that resolves a request blocks every pattern and every snapshot
\* its source has.
LEMMA CompletionPreserved ==
  ASSUME GovernanceInv, Procedure, DeletionInv, Next
  PROVE  DeletionComplete'
<1> SUFFICES ASSUME NEW r \in Requests, req'[r] # None, req'[r].status = "resolved"
             PROVE  /\ (\A p \in PatternsOf(req[r].source) : pat[p].status = "blocked")'
                    /\ (\A n \in SnapshotsOf(req[r].source) : snaps[n].access = "blocked")'
  BY DEF DeletionComplete
<1>1. GovernanceInv'
  BY NextPreserves DEF SafeStep
<1> PICK s \in Sources : s = req'[r].source
  BY <1>1 DEF GovernanceInv, TypeOK, RequestRow
<1>2. Deleting(s)'
  BY DEF Deleting
<1>3. req[r] # None /\ req[r].source = s /\ src[s] # None
  BY RequestSteps DEF DeletionInv
<1>4. /\ \A p \in PatternsOf(s)' :
           p \in PatternsOf(s) /\ (pat'[p] = pat[p] \/ pat'[p].status = "blocked")
      /\ \A n \in SnapshotsOf(s)' :
           n \in SnapshotsOf(s) /\ (snaps'[n] = snaps[n] \/ snaps'[n].access = "blocked")
  BY <1>2, <1>3, DeletedSourceQuiet
<1>5. CASE req'[r] = req[r]
  <2>1. /\ \A p \in PatternsOf(s) : pat[p].status = "blocked"
        /\ \A n \in SnapshotsOf(s) : snaps[n].access = "blocked"
    BY <1>3, <1>5 DEF DeletionInv, DeletionComplete
  <2>2. /\ \A p \in PatternsOf(s)' : pat'[p].status = "blocked"
        /\ \A n \in SnapshotsOf(s)' : snaps'[n].access = "blocked"
    BY <1>4, <2>1
  <2> QED BY <2>2 DEF PatternsOf, StoredPatterns, SnapshotsOf
<1>6. ASSUME NEW x \in Sessions, ApplyDeleteCommit(x), ses[x].request = r
      PROVE  /\ \A p \in PatternsOf(s)' : pat'[p].status = "blocked"
             /\ \A n \in SnapshotsOf(s)' : snaps'[n].access = "blocked"
  <2>1. /\ Running(x, "apply_delete") /\ ses[x].snaps # None /\ PropagationInv(x)
        /\ SetPatterns(ses[x].pats, "blocked") /\ RestrictSnapshots(ses[x].snaps)
    BY <1>6 DEF ApplyDeleteCommit, DeletionInv
  <2>2. ses[x].source = s /\ ses[x].loaded
    BY <1>3, <1>6, <2>1, ConstantsAssumption DEF PropagationInv
  <2>3. ASSUME NEW p \in PatternsOf(s)' PROVE pat'[p].status = "blocked"
    <3>1. p \in PatternsOf(s) /\ (pat'[p] = pat[p] \/ pat'[p].status = "blocked")
      BY <1>4, <2>3
    <3>2. CASE p \in ses[x].pats
      <4>1. pat[p] \in PatternRow /\ p \in Patterns
        BY <3>1 DEF PatternsOf, StoredPatterns, GovernanceInv, TypeOK
      <4> QED BY <2>1, <3>2, <4>1 DEF SetPatterns, PatternRow
    <3>3. CASE p \notin ses[x].pats
      BY <2>1, <2>2, <3>1, <3>3 DEF PropagationInv
    <3> QED BY <3>2, <3>3
  <2>4. ASSUME NEW n \in SnapshotsOf(s)' PROVE snaps'[n].access = "blocked"
    <3>1. n \in SnapshotsOf(s) /\ (snaps'[n] = snaps[n] \/ snaps'[n].access = "blocked")
      BY <1>4, <2>4
    <3>2. CASE n \in ses[x].snaps
      <4>1. snaps[n] \in SnapshotRow /\ n \in Snapshots
        BY <3>1 DEF SnapshotsOf, GovernanceInv, TypeOK
      <4> QED BY <2>1, <3>2, <4>1 DEF RestrictSnapshots, SnapshotRow
    <3>3. CASE n \notin ses[x].snaps
      BY <2>1, <2>2, <3>1, <3>3 DEF PropagationInv
    <3> QED BY <3>2, <3>3
  <2> QED BY <2>3, <2>4
<1> QED BY <1>3, <1>5, <1>6, RequestSteps DEF PatternsOf, StoredPatterns, SnapshotsOf

LEMMA NextPreservesDeletion ==
  ASSUME GovernanceInv, Procedure, DeletionInv, [Next]_vars
  PROVE  DeletionInv'
<1>1. CASE UNCHANGED vars
  BY <1>1 DEF vars, DeletionInv, DeletionComplete, PropagationInv, ApprovalInv, Running,
              Deleting, Busy, PatternsOf, StoredPatterns, SnapshotsOf
<1>2. CASE Next
  <2>1. \A s \in Sources : Deleting(s)' => ~Busy(s)'
    BY <1>2, KeptApart
  <2>2. ASSUME NEW r \in Requests, req'[r] # None PROVE src'[req'[r].source] # None
    <3>1. GovernanceInv' /\ \A s \in Sources : src[s] # None => src'[s] # None
      BY <1>2, NextPreserves DEF SafeStep
    <3>2. req'[r].source \in Sources
      BY <2>2, <3>1 DEF GovernanceInv, TypeOK, RequestRow
    <3>3. src[req'[r].source] # None
      BY <1>2, <2>2, RequestSteps DEF DeletionInv
    <3> QED BY <3>1, <3>2, <3>3
  <2> QED BY <1>2, <2>1, <2>2, PropagationPreserved, ApprovalPreserved, CompletionPreserved
          DEF DeletionInv
<1> QED BY <1>1, <1>2

LEMMA DeletionInvariant ==
  ASSUME Procedure
  PROVE  Spec => []DeletionInv
<1>1. Init => DeletionInv
  BY DEF Init, DeletionInv, DeletionComplete, PropagationInv, ApprovalInv, Running, Deleting,
         Busy, StoredPatterns
<1>2. GovernanceInv /\ DeletionInv /\ [Next]_vars => DeletionInv'
  BY NextPreservesDeletion
<1> QED BY GovernanceInvariant, <1>1, <1>2, PTL DEF Spec

\* apply_delete leaves no pattern of the source usable and no snapshot
\* accessible, whatever blocking reviews, rechecks, checks, ingests and crashes
\* overlap with it, if the source's crawls and approvals have ended when it
\* starts and none begins afterwards: the procedure the code does not enforce.
THEOREM DrainedDeletionsComplete ==
  ASSUME Procedure
  PROVE  Spec => []DeletionComplete
<1>1. DeletionInv => DeletionComplete
  BY DEF DeletionInv
<1> QED BY DeletionInvariant, <1>1, PTL

(***************************************************************************)
(* Policy checks that overlap: an admitting status stands on the licence   *)
(* stored with it, and a checked source has a policy row.                  *)
(***************************************************************************)
CheckedStatus == {"allowed_crawl", "allowed_metadata_only", ManualReview}

\* A row whose admitting status, if it has one, stands on the licence that
\* the source's metadata says.
Judged(row, s) ==
  /\ row.status = "allowed_crawl" => row.license = "allowed" /\ ClueOf[s] = "allowed"
  /\ row.status = "allowed_metadata_only" =>
       row.license = "conditional" /\ ClueOf[s] = "conditional"

\* A check in flight: a licence it will not write, having seen it right, is
\* still right; and a policy row it has seen is still there.
CheckInFlight(x) ==
  ses[x] # None /\ ses[x].op = "policy_check" =>
    LET h == ses[x]
        s == ses[x].source
    IN  /\ h.seen.license = ClueOf[s] => src[s].license = ClueOf[s]
        /\ h.decision # None =>
             /\ h.decision.row.license = ClueOf[s]
             /\ Judged(h.decision.row, s)
             /\ h.decision.policy # "absent" => policy[DomainOf[s]] # "absent"

RowJudged(s) ==
  src[s] # None =>
    /\ Judged(src[s], s)
    /\ src[s].status \in CheckedStatus => policy[DomainOf[s]] # "absent"

\* The strengthening under which both properties are inductive.
CheckInv ==
  /\ \A s \in Sources : RowJudged(s)
  /\ \A x \in Sessions : CheckInFlight(x)

\* A verdict that admits a source names the licence it stands on.
LEMMA VerdictJudged ==
  ASSUME NEW robots, NEW s, NEW row, row.license = ClueOf[s],
         row.status = PolicyVerdict(robots, ClueOf[s])
  PROVE  Judged(row, s)
BY DEF Judged, PolicyVerdict, ManualReview

\* The steps that keep the licences and the policy rows: a source appears
\* unchecked, or has its status set to one that is not a check's.
Unjudging(s) ==
  \/ src'[s] = src[s]
  \/ src[s] = None /\ src'[s] # None /\ src'[s].status \in {"policy_pending", "parsed"}
  \/ /\ src[s] # None /\ src'[s] # None /\ src'[s].license = src[s].license
     /\ src'[s].status \in {src[s].status, "delete_requested", "blocked"}

LEMMA RowsStayJudged ==
  ASSUME GovernanceInv, CheckInv, \A s \in Sources : Unjudging(s), policy' = policy
  PROVE  /\ \A s \in Sources : RowJudged(s)'
         /\ \A s \in Sources : src[s] # None => src'[s].license = src[s].license
<1> SUFFICES ASSUME NEW s \in Sources
             PROVE  RowJudged(s)' /\ (src[s] # None => src'[s].license = src[s].license)
  OBVIOUS
<1>1. Unjudging(s) /\ RowJudged(s)
  BY DEF CheckInv
<1>2. CASE src'[s] = src[s]
  BY <1>1, <1>2 DEF RowJudged, Judged
<1>3. CASE src[s] = None /\ src'[s] # None /\ src'[s].status \in {"policy_pending", "parsed"}
  BY <1>3 DEF RowJudged, Judged, CheckedStatus, ManualReview
<1>4. CASE /\ src[s] # None /\ src'[s] # None /\ src'[s].license = src[s].license
           /\ src'[s].status \in {src[s].status, "delete_requested", "blocked"}
  BY <1>1, <1>4 DEF RowJudged, Judged, CheckedStatus, ManualReview
<1> QED BY <1>1, <1>2, <1>3, <1>4 DEF Unjudging

\* Of a step that judges nothing, a check that was in flight learns nothing.
LEMMA UnjudgingPreserves ==
  ASSUME GovernanceInv, CheckInv, \A s \in Sources : Unjudging(s), policy' = policy,
         \A y \in Sessions :
           \/ ses'[y] = ses[y]
           \/ ses'[y] = None
           \/ ses'[y].op # "policy_check"
           \/ CheckInFlight(y)'
  PROVE  CheckInv'
<1>1. /\ \A s \in Sources : RowJudged(s)'
      /\ \A s \in Sources : src[s] # None => src'[s].license = src[s].license
  BY RowsStayJudged
<1>2. ASSUME NEW y \in Sessions, ses'[y] = ses[y] PROVE CheckInFlight(y)'
  <2>1. CASE ses[y] # None /\ ses[y].op = "policy_check"
    <3>1. ses[y].source \in Sources /\ src[ses[y].source] # None
      BY <2>1 DEF GovernanceInv, TypeOK, Handler, HandlerInv
    <3>2. src'[ses[y].source].license = src[ses[y].source].license
      BY <1>1, <3>1
    <3>3. CheckInFlight(y)
      BY DEF CheckInv
    <3> QED BY <1>2, <2>1, <3>2, <3>3 DEF CheckInFlight, Judged
  <2>2. CASE ~(ses[y] # None /\ ses[y].op = "policy_check")
    BY <1>2, <2>2 DEF CheckInFlight
  <2> QED BY <2>1, <2>2
<1>3. ASSUME NEW y \in Sessions PROVE CheckInFlight(y)'
  BY <1>2 DEF CheckInFlight
<1> QED BY <1>1, <1>3 DEF CheckInv

\* A handler that starts has decided nothing.
LEMMA StartPreserves ==
  ASSUME GovernanceInv, CheckInv, NEW x \in Sessions, ReadNext(x)
  PROVE  CheckInv'
<1>1. PICK h : /\ ses' = [ses EXCEPT ![x] = h]
               /\ h # None => h.decision = None
               /\ h # None /\ h.op = "policy_check" => h.seen = src[h.source]
               /\ UNCHANGED <<src, policy>>
  <2> DEFINE G(op, s, row, pats, r) ==
               [op |-> op, loaded |-> FALSE, source |-> s, seen |-> row, pats |-> pats,
                snaps |-> None, decision |-> None, request |-> r]
  <2>1. ASSUME NEW s \in Sources, PolicyCheckRead(x, s)
        PROVE  ses' = [ses EXCEPT ![x] = G("policy_check", s, src[s], {}, None)]
               /\ UNCHANGED <<src, policy>>
    BY <2>1 DEF PolicyCheckRead, Begin
  <2>2. ASSUME ~\E s \in Sources : PolicyCheckRead(x, s)
        PROVE  \E op, s, row, pats, r :
                 /\ op # "policy_check"
                 /\ ses' = [ses EXCEPT ![x] = G(op, s, row, pats, r)]
                 /\ UNCHANGED <<src, policy>>
    <3>1. ASSUME NEW op, NEW s, NEW row, NEW pats, NEW r, Begin(x, op, s, row, pats, r),
                 op # "policy_check"
          PROVE  \E op1, s1, row1, pats1, r1 :
                 /\ op1 # "policy_check"
                 /\ ses' = [ses EXCEPT ![x] = G(op1, s1, row1, pats1, r1)]
                 /\ UNCHANGED <<src, policy>>
      BY <3>1 DEF Begin
    <3> HIDE DEF G
    <3>2. ASSUME NEW s \in Sources, DeleteRequestRead(x, s)
          PROVE  Begin(x, "delete_request", s, src[s], {}, None)
      BY <3>2 DEF DeleteRequestRead
    <3>3. ASSUME NEW s \in Sources, NEW r \in Requests \cup {None}, ApplyDeleteRead(x, s, r)
          PROVE  Begin(x, "apply_delete", s, src[s], {}, r)
      BY <3>3 DEF ApplyDeleteRead
    <3>4. ASSUME NEW s \in Sources, NEW result \in {"recheck_hold", "recheck_removed"},
                 RecheckRead(x, s, result)
          PROVE  Begin(x, result, s, src[s], {}, None)
      BY <3>4 DEF RecheckRead
    <3>5. ASSUME NEW s \in Sources, CrawlStart(x, s)
          PROVE  Begin(x, "crawl", s, None, {}, None)
      BY <3>5 DEF CrawlStart
    <3>6. ASSUME NEW p \in Patterns, NEW op \in {"approve", "block"}, ReviewRead(x, p, op)
          PROVE  Begin(x, op, pat[p].source, None,
                       IF pat[p].status = Reviewed(op) THEN {} ELSE {p}, None)
      BY <3>6 DEF ReviewRead
    <3> QED BY <2>2, <3>1, <3>2, <3>3, <3>4, <3>5, <3>6 DEF ReadNext
  <2> QED BY <2>1, <2>2
<1>2. ASSUME NEW s \in Sources PROVE Unjudging(s)
  BY <1>1 DEF Unjudging
<1>3. CheckInFlight(x)'
  <2>1. ses'[x] = h
    BY <1>1 DEF GovernanceInv, TypeOK
  <2> QED BY <1>1, <2>1 DEF CheckInFlight
<1>4. ASSUME NEW y \in Sessions, y # x PROVE ses'[y] = ses[y]
  BY <1>1, <1>4 DEF GovernanceInv, TypeOK
<1> QED BY <1>1, <1>2, <1>3, <1>4, UnjudgingPreserves

\* The verdict stands on the licence the metadata says.
LEMMA DecidePreservesChecks ==
  ASSUME GovernanceInv, CheckInv, NEW x \in Sessions, PolicyCheckDecide(x)
  PROVE  CheckInv'
<1> DEFINE s == ses[x].source
<1>1. PICK robots \in RobotsAnswer :
        ses' = [ses EXCEPT
          ![x].loaded = TRUE,
          ![x].decision = [row |-> [status |-> PolicyVerdict(robots, ClueOf[s]),
                                    license |-> ClueOf[s]],
                           policy |-> policy[DomainOf[s]]]]
  BY DEF PolicyCheckDecide
<1> DEFINE row == [status |-> PolicyVerdict(robots, ClueOf[s]), license |-> ClueOf[s]]
           h == [ses[x] EXCEPT !.loaded = TRUE,
                               !.decision = [row |-> row, policy |-> policy[DomainOf[s]]]]
<1>2. UNCHANGED <<src, policy>> /\ ses[x] \in Handler /\ ses[x] # None
      /\ ses[x].op = "policy_check"
  BY DEF PolicyCheckDecide, Running, GovernanceInv, TypeOK
<1>3. ses' = [ses EXCEPT ![x] = h]
  BY <1>1, <1>2 DEF GovernanceInv, TypeOK
<1>4. Judged(row, s)
  BY VerdictJudged
<1>5. /\ h.source = s /\ h.seen = ses[x].seen
      /\ h.decision.row = row /\ h.decision.policy = policy[DomainOf[s]]
  BY <1>2 DEF Handler
<1>6. row.license = ClueOf[s]
  OBVIOUS
<1>7. ses'[x] = h
  BY <1>3 DEF GovernanceInv, TypeOK
<1>8. s' = ses'[x].source
  OBVIOUS
<1> HIDE DEF h, row
<1>9. CheckInFlight(x)'
  <2>1. CheckInFlight(x)
    BY DEF CheckInv
  <2> QED BY <1>2, <1>4, <1>5, <1>6, <1>7, <2>1 DEF CheckInFlight, Judged
<1>10. ASSUME NEW y \in Sessions, y # x PROVE ses'[y] = ses[y]
  BY <1>3, <1>10 DEF GovernanceInv, TypeOK
<1>11. ASSUME NEW z \in Sources PROVE Unjudging(z)
  BY <1>2 DEF Unjudging
<1> QED BY <1>2, <1>9, <1>10, <1>11, UnjudgingPreserves

\* The commit writes the columns the check saw differ, and a row of policy.
LEMMA CommitPreservesChecks ==
  ASSUME GovernanceInv, CheckInv, NEW x \in Sessions, PolicyCheckCommit(x)
  PROVE  CheckInv'
<1>1. /\ ses[x] \in Handler /\ ses[x] # None /\ HandlerInv(x) /\ CheckInFlight(x)
      /\ ses[x].op = "policy_check" /\ ses[x].loaded
  BY DEF PolicyCheckCommit, Running, GovernanceInv, TypeOK, CheckInv
<1> PICK s \in Sources : s = ses[x].source
  BY <1>1 DEF Handler
<1>2. /\ src[s] # None /\ src[s] \in SourceRow
      /\ ses[x].seen # None /\ ses[x].decision # None /\ DomainOf[s] \in Domains
      /\ policy[DomainOf[s]] \in PolicyCell
  BY <1>1, ConstantsAssumption DEF HandlerInv, GovernanceInv, TypeOK
<1>3. PICK seen, verdict, cell : /\ seen = ses[x].seen /\ verdict = ses[x].decision.row
                                 /\ cell = ses[x].decision.policy
  OBVIOUS
<1>4. PICK status, license, allow :
        /\ status = Column(src[s].status, seen.status, verdict.status)
        /\ license = Column(src[s].license, seen.license, verdict.license)
        /\ allow = Column(policy[DomainOf[s]], cell,
                          IF verdict.status = "allowed_crawl" THEN "allow" ELSE "deny")
  OBVIOUS
<1>5. /\ src' = [src EXCEPT ![s].status = status, ![s].license = license]
      /\ policy' = [policy EXCEPT ![DomainOf[s]] = allow]
      /\ Idle(x)
  BY <1>3, <1>4 DEF PolicyCheckCommit
<1>6. /\ verdict.license = ClueOf[s] /\ Judged(verdict, s)
      /\ seen.license = ClueOf[s] => src[s].license = ClueOf[s]
      /\ cell # "absent" => policy[DomainOf[s]] # "absent"
  BY <1>1, <1>2, <1>3 DEF CheckInFlight
<1>7. license = ClueOf[s]
  BY <1>4, <1>6 DEF Column
<1>8. allow # "absent"
  BY <1>4, <1>6 DEF Column
<1>9. src'[s].status = status /\ src'[s].license = license
  BY <1>2, <1>5 DEF SourceRow, GovernanceInv, TypeOK
<1>10. policy'[DomainOf[s]] # "absent"
       /\ \A d \in Domains : policy[d] # "absent" => policy'[d] # "absent"
  BY <1>2, <1>5, <1>8 DEF GovernanceInv, TypeOK
<1>11. Judged(src'[s], s)
  <2>1. Judged(src[s], s)
    BY <1>2 DEF CheckInv, RowJudged
  <2>2. status = src[s].status \/ status = verdict.status
    BY <1>4 DEF Column
  <2> QED BY <1>6, <1>7, <1>9, <2>1, <2>2 DEF Judged
<1>12. ASSUME NEW z \in Sources, z # s PROVE src'[z] = src[z] /\ DomainOf[z] \in Domains
  BY <1>5, <1>12, ConstantsAssumption DEF GovernanceInv, TypeOK
<1>13. ASSUME NEW z \in Sources PROVE RowJudged(z)'
  <2>1. CASE z = s
    BY <1>10, <1>11, <2>1 DEF RowJudged, Judged
  <2>2. CASE z # s
    BY <1>10, <1>12, <2>2 DEF CheckInv, RowJudged, Judged
  <2> QED BY <2>1, <2>2
<1>14. ASSUME NEW y \in Sessions PROVE CheckInFlight(y)'
  <2>1. CASE ses'[y] = None
    BY <2>1 DEF CheckInFlight
  <2>2. CASE ses'[y] = ses[y] /\ ses[y] # None /\ ses[y].op = "policy_check"
    <3>1. ses[y] \in Handler /\ CheckInFlight(y)
      BY <2>2 DEF CheckInv, GovernanceInv, TypeOK
    <3>2. ses[y].source \in Sources /\ DomainOf[ses[y].source] \in Domains
      BY <3>1, ConstantsAssumption DEF Handler
    <3>3. src[ses[y].source].license = ClueOf[ses[y].source]
             => src'[ses[y].source].license = ClueOf[ses[y].source]
      BY <1>7, <1>9, <1>12, <3>2
    <3>4. policy[DomainOf[ses[y].source]] # "absent" => policy'[DomainOf[ses[y].source]] # "absent"
      BY <1>10, <3>2
    <3> QED BY <2>2, <3>1, <3>3, <3>4 DEF CheckInFlight, Judged
  <2>3. CASE ses'[y] = ses[y] /\ ~(ses[y] # None /\ ses[y].op = "policy_check")
    BY <2>3 DEF CheckInFlight
  <2>4. ses'[y] = ses[y] \/ ses'[y] = None
    BY <1>5 DEF Idle, GovernanceInv, TypeOK
  <2> QED BY <2>1, <2>2, <2>3, <2>4
<1> QED BY <1>13, <1>14 DEF CheckInv

\* Every other step of a running handler writes a status that judges nothing.
LEMMA OtherCommitsPreserve ==
  ASSUME GovernanceInv, CheckInv, NEW x \in Sessions, CommitNext(x),
         ~PolicyCheckDecide(x), ~PolicyCheckCommit(x)
  PROVE  CheckInv'
<1>1. policy' = policy
  BY DEF CommitNext, PolicyCheckConflict, DeleteRequestCommit, BlockPatternsLoad,
         ApplyDeleteCommit, RecheckHoldCommit, RecheckRemovedCommit, ReviewCommit,
         CrawlPersist, CrawlFail, StoreSnapshot, Crash, RestrictSnapshotsLoad
<1>2. \A y \in Sessions : \/ ses'[y] = ses[y]
                          \/ ses'[y] = None
                          \/ ses'[y].op # "policy_check"
  <2>1. CASE BlockPatternsLoad(x)
    <3>1. PICK ps : ses' = [ses EXCEPT ![x] = [ses[x] EXCEPT !.loaded = TRUE, !.pats = ps]]
      BY <2>1 DEF BlockPatternsLoad, GovernanceInv, TypeOK
    <3>2. ses[x] \in Handler /\ ses[x].op # "policy_check"
      BY <2>1 DEF BlockPatternsLoad, Blocks, Running, GovernanceInv, TypeOK
    <3>3. ses'[x].op # "policy_check"
      BY <3>1, <3>2 DEF GovernanceInv, TypeOK, Handler
    <3> QED BY <3>1, <3>3 DEF GovernanceInv, TypeOK
  <2>2. CASE RestrictSnapshotsLoad(x)
    <3>1. PICK ns : ses' = [ses EXCEPT ![x] = [ses[x] EXCEPT !.snaps = ns]]
      BY <2>2 DEF RestrictSnapshotsLoad, GovernanceInv, TypeOK
    <3>2. ses[x] \in Handler /\ ses[x].op # "policy_check"
      BY <2>2 DEF RestrictSnapshotsLoad, Restricts, Running, GovernanceInv, TypeOK
    <3>3. ses'[x].op # "policy_check"
      BY <3>1, <3>2 DEF GovernanceInv, TypeOK, Handler
    <3> QED BY <3>1, <3>3 DEF GovernanceInv, TypeOK
  <2>3. CASE ~BlockPatternsLoad(x) /\ ~RestrictSnapshotsLoad(x)
    <3>1. Idle(x) \/ ses' = ses
      BY <2>3 DEF CommitNext, PolicyCheckConflict, DeleteRequestCommit,
           ApplyDeleteCommit, RecheckHoldCommit, RecheckRemovedCommit, ReviewCommit,
           CrawlPersist, CrawlFail, StoreSnapshot, Crash
    <3> QED BY <3>1 DEF Idle, GovernanceInv, TypeOK
  <2> QED BY <2>1, <2>2, <2>3
<1>3. src' = src \/ \E target \in {"delete_requested", "blocked"} :
                      /\ ses[x] # None /\ src[ses[x].source] # None
                      /\ ses[x].source \in Sources
                      /\ src' = [src EXCEPT ![ses[x].source].status =
                                   Column(@, ses[x].seen.status, target)]
  <2>1. CASE (\E r \in Requests : DeleteRequestCommit(x, r)) \/ ApplyDeleteCommit(x)
             \/ RecheckRemovedCommit(x)
    <3>1. /\ ses[x] # None /\ ses[x] \in Handler /\ HandlerInv(x)
          /\ ses[x].op \in {"delete_request", "apply_delete", "recheck_removed"}
      BY <2>1 DEF DeleteRequestCommit, ApplyDeleteCommit, RecheckRemovedCommit, Running,
                  GovernanceInv, TypeOK
    <3>2. ses[x].source \in Sources /\ src[ses[x].source] # None
      BY <3>1 DEF Handler, HandlerInv
    <3> QED BY <2>1, <3>1, <3>2 DEF DeleteRequestCommit, ApplyDeleteCommit, RecheckRemovedCommit
  <2>2. CASE ~((\E r \in Requests : DeleteRequestCommit(x, r)) \/ ApplyDeleteCommit(x)
               \/ RecheckRemovedCommit(x))
    BY <2>2 DEF CommitNext, PolicyCheckConflict, BlockPatternsLoad, RecheckHoldCommit,
                RestrictSnapshotsLoad, ReviewCommit, CrawlPersist, CrawlFail, StoreSnapshot, Crash
  <2> QED BY <2>1, <2>2
<1>4. ASSUME NEW s \in Sources PROVE Unjudging(s)
  <2>1. CASE src'[s] = src[s]
    BY <2>1 DEF Unjudging
  <2>2. CASE src'[s] # src[s]
    <3>1. PICK target \in {"delete_requested", "blocked"} :
            /\ src[s] # None /\ src[s] \in SourceRow
            /\ src' = [src EXCEPT ![s].status = Column(@, ses[x].seen.status, target)]
      BY <1>3, <2>2 DEF GovernanceInv, TypeOK
    <3>2. PICK status \in {src[s].status, target} :
            src' = [src EXCEPT ![s] = [src[s] EXCEPT !.status = status]]
      BY <3>1 DEF Column
    <3>3. src'[s] = [src[s] EXCEPT !.status = status]
      BY <3>2 DEF GovernanceInv, TypeOK
    <3>4. [src[s] EXCEPT !.status = status] \in SourceRow
      BY <3>1, <3>2 DEF SourceRow, SourceStatus
    <3>5. src'[s] # None
      BY <3>3, <3>4, ConstantsAssumption
    <3> QED BY <3>1, <3>2, <3>3, <3>5 DEF Unjudging, SourceRow
  <2> QED BY <2>1, <2>2
<1> QED BY <1>1, <1>2, <1>4, UnjudgingPreserves

\* A source appears with a status no check has given it.
LEMMA AppearancePreserves ==
  ASSUME GovernanceInv, CheckInv, NEW s \in Sources, SourceNext(s)
  PROVE  CheckInv'
<1>1. PICK row : \/ src' = src
                 \/ /\ src[s] = None /\ row.status \in {"policy_pending", "parsed"}
                    /\ row # None /\ src' = [src EXCEPT ![s] = row]
  <2>1. CASE Register(s)
    <3>1. [status |-> "policy_pending", license |-> "unknown"] \in SourceRow
      BY DEF SourceRow, SourceStatus, LicenseStatus
    <3> QED BY <2>1, <3>1, ConstantsAssumption DEF Register
  <2>2. ASSUME NEW license \in PatternLicenses, Ingest(s, license)
        PROVE  /\ src[s] = None
               /\ [status |-> "parsed", license |-> license] # None
               /\ src' = [src EXCEPT ![s] = [status |-> "parsed", license |-> license]]
    <3>1. [status |-> "parsed", license |-> license] \in SourceRow
      BY ConstantsAssumption DEF SourceRow, SourceStatus
    <3> QED BY <2>2, <3>1, ConstantsAssumption DEF Ingest
  <2>3. CASE CreateCrawlJob(s)
    BY <2>3 DEF CreateCrawlJob
  <2> QED BY <2>1, <2>2, <2>3 DEF SourceNext
<1>2. UNCHANGED <<policy, ses>>
  BY DEF SourceNext, Register, Ingest, CreateCrawlJob
<1>3. ASSUME NEW z \in Sources PROVE Unjudging(z)
  BY <1>1 DEF Unjudging, GovernanceInv, TypeOK
<1> QED BY <1>2, <1>3, UnjudgingPreserves

LEMMA NextPreservesChecks ==
  ASSUME GovernanceInv, CheckInv, [Next]_vars
  PROVE  CheckInv'
<1>1. CASE UNCHANGED vars
  BY <1>1 DEF vars, CheckInv, RowJudged, CheckInFlight, Judged
<1>2. CASE Next
  BY <1>2, AppearancePreserves, StartPreserves, DecidePreservesChecks,
     CommitPreservesChecks, OtherCommitsPreserve DEF Next
<1> QED BY <1>1, <1>2

LEMMA ChecksInvariant == Spec => []CheckInv
<1>1. Init => CheckInv
  BY DEF Init, CheckInv, RowJudged, CheckInFlight
<1>2. GovernanceInv /\ CheckInv /\ [Next]_vars => CheckInv'
  BY NextPreservesChecks
<1> QED BY GovernanceInvariant, <1>1, <1>2, PTL DEF Spec

\* Checks of one source that overlap never leave the status of one over the
\* licence of another (policy_check writes only the columns it saw change).
THEOREM AdmissionStandsOnLicense == Spec => []VerdictMatchesLicense
<1>1. CheckInv => VerdictMatchesLicense
  BY DEF CheckInv, RowJudged, Judged, VerdictMatchesLicense
<1> QED BY ChecksInvariant, <1>1, PTL

\* A source with the status of a check has a policy row for its domain: the
\* verdict and the row are committed together, and the loser of two first
\* checks of a domain leaves no verdict.
THEOREM CheckedSourceHasPolicy == Spec => []CheckedHasPolicy
<1>1. CheckInv => CheckedHasPolicy
  BY DEF CheckInv, RowJudged, CheckedStatus, CheckedHasPolicy
<1> QED BY ChecksInvariant, <1>1, PTL
=============================================================================
