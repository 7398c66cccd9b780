----------------------------- MODULE ReuseRules -----------------------------
(***************************************************************************)
(* How the pattern pipeline judges how close a pattern stays to its        *)
(* original: the reuse risk score with its hard rules and grades           *)
(* (app/pattern/reuse_risk.py), the reconstruction test                    *)
(* (app/pattern/reconstruction_test.py) and the logo and artwork detectors *)
(* they read (app/adapters/vision.py).                                     *)
(*                                                                         *)
(* A sub-score is a number of hundredths and a weighted sum of them a      *)
(* number of ten-thousandths, so that every threshold is an integer.  The  *)
(* code adds floats: a sum whose exact value is a threshold may come out   *)
(* just above it (0.20 * 0.75 + 0.15 * 0.5 + 0.10 * 0.75 is                *)
(* 0.30000000000000004).  The Boolean over is that outcome.  Only the      *)
(* reuse score suffers it: the reconstruction sum is rounded to six places *)
(* before it is compared.                                                  *)
(***************************************************************************)
EXTENDS GovernanceRules, Integers

\* A key the feature dict does not have.
NoValue == -1

Clamp01(x) == IF x < 0 THEN 0 ELSE IF x > 100 THEN 100 ELSE x

Larger(x, y) == IF x > y THEN x ELSE y

(***************************************************************************)
(* From the feature dict to signals.                                       *)
(***************************************************************************)
\* A precomputed value wins over one derived by comparing trees, histograms
\* or vectors, which is 0 when there is nothing to compare.
SubScore(given, derived) == IF given # NoValue THEN Clamp01(given) ELSE derived

\* An unknown brand is neutral.
BrandRisk(given, listed) ==
  CASE given # NoValue -> Clamp01(given)
    [] given = NoValue /\ listed # NoValue -> Clamp01(listed)
    [] OTHER -> 50

\* An explicit flag wins over a classifier's score, a score over a heuristic.
Detected(flag, score, hint) ==
  \/ flag = "yes"
  \/ flag = "absent" /\ score # NoValue /\ score >= 50
  \/ flag = "absent" /\ score = NoValue /\ hint

\* Leaked text: 15% of the shingles of both texts together are in both.
TextLeaks(overlap) == overlap >= 15

\* What both judgements read: logo and artwork come from the detectors, face
\* from the dict alone.
Signals(f) ==
  [layout |-> SubScore(f.layout, f.layoutDerived),
   color |-> SubScore(f.color, f.colorDerived),
   structure |-> SubScore(f.structure, f.structureDerived),
   brand |-> BrandRisk(f.brand, f.brandListed),
   leak |-> TextLeaks(f.overlap),
   logo |-> Detected(f.logo, f.logoScore, f.logoHint),
   artwork |-> Detected(f.artwork, f.artworkScore, f.artworkHint),
   face |-> f.face]

SignalSet == [layout : 0..100, color : 0..100, structure : 0..100, brand : 0..100,
              leak : BOOLEAN, logo : BOOLEAN, artwork : BOOLEAN, face : BOOLEAN]

(***************************************************************************)
(* The reuse risk score.                                                   *)
(***************************************************************************)
RawScore(s) == 30 * s.layout + 20 * s.color + 25 * s.structure + 15 * s.brand
                 + 10 * Larger(s.layout, s.color)

\* Seeded fault: the artwork rule sets the score instead of a floor under it.
ReuseScoreArtworkFixed(s) ==
  CASE s.leak -> 9500
    [] ~s.leak /\ s.artwork -> 7500
    [] ~s.leak /\ ~s.artwork /\ (s.logo \/ s.face) -> Larger(6500, RawScore(s))
    [] OTHER -> RawScore(s)

\* Seeded fault: the logo rule forgets faces.
ReuseScoreNoFace(s) ==
  CASE s.leak -> 9500
    [] ~s.leak /\ s.artwork -> Larger(7500, RawScore(s))
    [] ~s.leak /\ ~s.artwork /\ s.logo -> Larger(6500, RawScore(s))
    [] OTHER -> RawScore(s)

\* Hard rules first, in this order: leaked text decides alone, artwork and then
\* a logo or a face put a floor under the weighted sum.
ReuseScore(s) ==
  CASE s.leak -> 9500
    [] ~s.leak /\ s.artwork -> Larger(7500, RawScore(s))
    [] ~s.leak /\ ~s.artwork /\ (s.logo \/ s.face) -> Larger(6500, RawScore(s))
    [] OTHER -> RawScore(s)

Thresholds == {3000, 6000, 8000}

Exceeds(score, limit, over) == score > limit \/ (score = limit /\ over)

\* Seeded fault: the first two grade boundaries are merged.
ScoreToRiskLenient(score, over) ==
  CASE ~Exceeds(score, 6000, over) -> "low"
    [] Exceeds(score, 6000, over) /\ ~Exceeds(score, 8000, over) -> "high"
    [] OTHER -> "blocked"

ScoreToRisk(score, over) ==
  CASE ~Exceeds(score, 3000, over) -> "low"
    [] Exceeds(score, 3000, over) /\ ~Exceeds(score, 6000, over) -> "medium"
    [] Exceeds(score, 6000, over) /\ ~Exceeds(score, 8000, over) -> "high"
    [] OTHER -> "blocked"

Risk(s, over) == ScoreToRisk(ReuseScore(s), over)

(***************************************************************************)
(* The reconstruction test: how much of the original the visual signals    *)
(* would bring back.                                                       *)
(***************************************************************************)
Reconstructability(s) == 50 * s.layout + 30 * s.color + 20 * s.structure

ReconstructionTest(s) ==
  IF ~s.leak /\ Reconstructability(s) <= 6000 THEN "passed" ELSE "failed"

\* The pipeline's verdict on a pattern.
Verdict(s, over, pii) == GovernanceStatus(pii, Risk(s, over), ReconstructionTest(s))
=============================================================================
