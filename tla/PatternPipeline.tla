--------------------------- MODULE PatternPipeline --------------------------
(***************************************************************************)
(* run_pattern_governance and persist_pattern on any raw feature dict, and *)
(* the stored row, in any status, as the pattern state machine decides it. *)
(* The three places that judge a pattern (the pipeline, the state machine  *)
(* and the operational gate) are compared over every combination of their  *)
(* inputs.  ReuseRules says what reuse and recon come out as; here they    *)
(* are any.                                                                *)
(***************************************************************************)
EXTENDS GovernanceRules, AbstractionGuard

CONSTANTS
  RawKeys,   \* keys a raw feature dict may have
  Texts,     \* texts to scan, as kinds of personal data
  NoText     \* pii_text was not given

ASSUME TextAssumption == Texts \subseteq SUBSET PiiTypes /\ NoText \notin Texts

VARIABLES
  raw,   \* what the pipeline was given
  row    \* the stored pattern

vars == <<raw, row>>

Raws == [keys : SUBSET RawKeys, originalText : Texts, piiText : Texts \cup {NoText},
         reuse : ReuseRisk, recon : ReconResult \ {"not_run"}]

\* The value of original_text, which an absent key leaves empty.
OriginalText(r) == IF "original_text" \in r.keys THEN r.originalText ELSE {}

\* Seeded fault: the text is scanned after the guard has taken it out.
ScannedAfterGuard(r) ==
  IF r.piiText # NoText THEN r.piiText
  ELSE IF "original_text" \in Guard(r.keys).kept THEN r.originalText ELSE {}

\* pii_text, even an empty one, is scanned instead of the original.
Scanned(r) == IF r.piiText # NoText THEN r.piiText ELSE OriginalText(r)

\* The row of a raw feature dict.
Persist(r) ==
  [feature |-> StoredKeys(Guard(r.keys)), pii |-> PiiScan(Scanned(r)),
   reuse |-> r.reuse, recon |-> r.recon,
   status |-> GovernanceStatus(PiiScan(Scanned(r)), r.reuse, r.recon)]

\* A stored row may be in any status, and may come without a test result.
Init ==
  /\ raw \in Raws
  /\ \E status \in PatternStatus, recon \in {raw.recon, "not_run"} :
       row = [Persist(raw) EXCEPT !.status = status, !.recon = recon]

Decide ==
  /\ row' = [row EXCEPT !.status = DecidePatternStatus(row.reuse, row.recon, row.status)]
  /\ UNCHANGED raw

Next == Decide

Spec == Init /\ [][Next]_vars

(***************************************************************************)
(* Properties                                                              *)
(***************************************************************************)
\* From any status, in whatever order the steps are called, a decision is a
\* transition of the contract: never out of a terminal status, and never to
\* approved without the two checks in between.
DecisionFollowsContract ==
  [][row'.status # row.status => <<row.status, row'.status>> \in PatternTransitions]_vars

\* The six gates and the pipeline agree: a pattern as the pipeline leaves it
\* passes the gate exactly when the pipeline approved it and its source and
\* licence are operational.  Two lists of conditions, kept in two modules.
GateAgreesWithPipeline ==
  LET verdict == GovernanceStatus(row.pii, row.reuse, row.recon)
  IN  \A source \in SourceStatus \cup {ManualReview}, license \in LicenseStatus :
        EvaluateOperational(source, license, row.pii, row.reuse, verdict, row.recon)
          <=> /\ source \in OperationalSourceStates
              /\ license \in OperationalLicenseStates
              /\ verdict = "approved"

\* What the pipeline approves, the state machine does not block.
PipelineNotMoreLenient ==
  GovernanceStatus(row.pii, row.reuse, row.recon) = "approved"
    => DecidePatternStatus(row.reuse, row.recon, "reuse_risk_scored") = "approved"

\* Nothing of the original is stored, although the texts go through the
\* pipeline for the leak test: no key that carries expression, none nobody
\* knows, and no comparison text, under its own name or under _leak_probe.
NothingOriginalStored ==
  row.feature \cap (RemovalKeys \cup ProbeKeys \cup {"_leak_probe"}) = {}
    /\ row.feature \subseteq AllowedKeys \cup ReportKeys

\* The guard takes the original text out before the scanner looks for personal
\* data in it; what the scanner finds still keeps the pattern from the
\* generation engine, whatever status it is later given.  (The runner gives no
\* separate pii_text.)
PersonalDataStops ==
  raw.piiText = NoText /\ OriginalText(raw) \cap HighRisk # {} =>
    \A source \in SourceStatus \cup {ManualReview}, license \in LicenseStatus :
      ~EvaluateOperational(source, license, row.pii, row.reuse, row.status, row.recon)
=============================================================================
