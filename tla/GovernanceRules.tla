--------------------------- MODULE GovernanceRules ---------------------------
(***************************************************************************)
(* The pure rules of the governance layer: the status vocabularies         *)
(* (app/models/enums.py), the pattern transition contract, the verdict of  *)
(* a policy check, the verdict of the pattern pipeline and the six-gate    *)
(* test that lets a pattern reach the generation engine.                   *)
(***************************************************************************)

(***************************************************************************)
(* Vocabularies                                                            *)
(***************************************************************************)
SourceStatus == {"discovered", "policy_pending", "allowed_metadata_only",
                 "allowed_crawl", "crawled", "parsed", "pattern_built",
                 "approved_for_pattern_use", "blocked", "delete_requested",
                 "deleted"}

PatternStatus == {"built", "abstraction_checked", "reuse_risk_scored",
                  "approved", "blocked", "deprecated"}

LicenseStatus == {"unknown", "allowed", "conditional",
                  "conditional_approved", "blocked"}

PiiStatus == {"unknown", "clean", "redacted", "sensitive", "blocked"}

ReuseRisk == {"low", "medium", "high", "blocked"}

\* What check_robots answers: an internal host is refused before anything is
\* fetched (one that cannot be resolved is not), a file that could not be
\* fetched leaves the path unchecked, and a missing one (404) allows it.
CheckRobots(host, file, rule) ==
  CASE host = "internal" -> "disallowed"
    [] host # "internal" /\ file = "error" -> "unchecked"
    [] host # "internal" /\ file = "missing" -> "allowed"
    [] OTHER -> rule

RobotsAnswer == {CheckRobots(host, file, rule) : host \in {"internal", "public"},
                                                 file \in {"error", "missing", "fetched"},
                                                 rule \in {"allowed", "disallowed"}}

\* recon_test_passed is a nullable Boolean: the test may not have been run.
ReconResult == {"passed", "failed", "not_run"}

OperationalSourceStates == {"parsed", "pattern_built", "approved_for_pattern_use"}
OperationalLicenseStates == {"allowed", "conditional_approved"}
OperationalPiiStates == {"clean", "redacted"}
OperationalReuseStates == {"low", "medium"}

(***************************************************************************)
(* The pattern transition contract, as a set of <<from, to>> pairs.        *)
(***************************************************************************)
PatternTransitions ==
  ({"built"} \X {"abstraction_checked", "blocked", "deprecated"})
    \cup ({"abstraction_checked"} \X {"reuse_risk_scored", "blocked", "deprecated"})
    \cup ({"reuse_risk_scored"} \X {"approved", "blocked", "deprecated"})
    \cup ({"approved"} \X {"deprecated", "blocked"})

(***************************************************************************)
(* The status a policy check gives a source. A robots file that could not  *)
(* be read, or a licence nobody recognises, ends in a manual review whose  *)
(* name is not one of SourceStatus.                                        *)
(***************************************************************************)
ManualReview == "manual_review_required"

PolicyVerdict(robots, license) ==
  CASE robots = "disallowed" \/ license = "blocked" -> "blocked"
    [] robots = "allowed" /\ license = "allowed" -> "allowed_crawl"
    [] robots = "allowed" /\ license = "conditional" -> "allowed_metadata_only"
    [] OTHER -> ManualReview

(***************************************************************************)
(* The pipeline's verdict on what a pattern is made of.                    *)
(***************************************************************************)
\* Seeded fault: the pipeline forgets the reconstruction test.
PassesWithoutRecon(pii, reuse, recon) ==
  /\ pii \in OperationalPiiStates
  /\ reuse \in OperationalReuseStates

GovernancePasses(pii, reuse, recon) ==
  /\ pii \in OperationalPiiStates
  /\ reuse \in OperationalReuseStates
  /\ recon = "passed"

GovernanceStatus(pii, reuse, recon) ==
  IF GovernancePasses(pii, reuse, recon) THEN "approved" ELSE "blocked"

(***************************************************************************)
(* The pattern state machine's own decision.                               *)
(***************************************************************************)
\* Seeded fault: medium risk is no longer approvable in the state machine.
CanApproveLowOnly(reuse, recon) ==
  /\ recon # "failed"
  /\ reuse = "low"

CanApprove(reuse, recon) ==
  /\ recon # "failed"
  /\ reuse \in OperationalReuseStates

\* Seeded fault: the decision does not consult the contract.
DecideUnchecked(reuse, recon, current) ==
  IF CanApprove(reuse, recon) THEN "approved" ELSE "blocked"

DecidePatternStatus(reuse, recon, current) ==
  LET target == IF CanApprove(reuse, recon) THEN "approved" ELSE "blocked"
  IN  CASE current \in {"blocked", "deprecated"} \/ target = current -> current
        [] <<current, target>> \in PatternTransitions -> target
        [] OTHER -> "blocked"

(***************************************************************************)
(* The operational gate: the names of the gates a pattern fails. A pattern *)
(* is operational when it fails none.                                      *)
(***************************************************************************)
\* Seeded fault: the gate trusts pattern_status for the reuse risk.
UnmetWithoutReuse(status, license, pii, reuse, patternStatus, recon) ==
  {gate \in {"source_status", "license_status", "pii_status", "pattern_status",
             "recon_test"} :
     \/ gate = "source_status" /\ status \notin OperationalSourceStates
     \/ gate = "license_status" /\ license \notin OperationalLicenseStates
     \/ gate = "pii_status" /\ pii \notin OperationalPiiStates
     \/ gate = "pattern_status" /\ patternStatus # "approved"
     \/ gate = "recon_test" /\ recon # "passed"}

UnmetGates(status, license, pii, reuse, patternStatus, recon) ==
  {gate \in {"source_status", "license_status", "pii_status", "reuse_risk",
             "pattern_status", "recon_test"} :
     \/ gate = "source_status" /\ status \notin OperationalSourceStates
     \/ gate = "license_status" /\ license \notin OperationalLicenseStates
     \/ gate = "pii_status" /\ pii \notin OperationalPiiStates
     \/ gate = "reuse_risk" /\ reuse \notin OperationalReuseStates
     \/ gate = "pattern_status" /\ patternStatus # "approved"
     \/ gate = "recon_test" /\ recon # "passed"}

EvaluateOperational(status, license, pii, reuse, patternStatus, recon) ==
  UnmetGates(status, license, pii, reuse, patternStatus, recon) = {}
=============================================================================
