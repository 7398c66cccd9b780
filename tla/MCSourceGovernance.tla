------------------------- MODULE MCSourceGovernance -------------------------
(***************************************************************************)
(* Instances of SourceGovernance for TLC: sources of one domain.           *)
(***************************************************************************)
EXTENDS SourceGovernance, AccessControl, LicenseRules, TLC

CONSTANTS s1, s2, p1, p2, r1, r2, n1, x1, x2, d1

MCDomainOf == [s \in Sources |-> d1]

\* A source as register_source leaves it, whatever its notes say, and one
\* whose metadata a later import has completed: two of its texts disagree, and
\* the first Creative Commons URL decides.
RegisteredClues == [s \in Sources |-> AutoClassify(RegisteredMetadata(<<"cc_free">>))]
ImportedClues ==
  [s \in Sources |-> AutoClassify([license |-> <<"cc_free">>, html |-> <<"cc_restricted">>])]

\* A harmless pattern, and one whose reuse risk is high.
Safe == [pii |-> "clean", reuse |-> "low", recon |-> "passed"]
Risky == [pii |-> "clean", reuse |-> "high", recon |-> "passed"]

SafeOnly == {Safe}
SafeOrRisky == {Safe, Risky}

\* The operations a deployment offers, and the roles its users hold: a header
\* may name a role nobody knows.
Reviewers == Permitted({{"source_operator"}, {"privacy_reviewer", "intern"},
                        {"pattern_reviewer"}},
                       AllOps \ {"register", "snapshot"})
Operators == Permitted({{"source_operator", "intern"}, {"privacy_reviewer"},
                        {"pattern_reviewer"}},
                       AllOps \ {"policy_check"})
Crawlers == Permitted({{"source_operator"}, {"privacy_reviewer"}},
                      {"register", "delete_request", "apply_delete", "crawl", "snapshot"})

SessionSymmetry == Permutations({x1, x2})
=============================================================================
