--------------------------- MODULE PatternScoring ---------------------------
(***************************************************************************)
(* A feature dict whose keys parsers, detectors and operators fill in and  *)
(* correct one at a time, in any order, and the judgement                  *)
(* run_pattern_governance passes on it at every moment.                    *)
(***************************************************************************)
EXTENDS ReuseRules, FiniteSets

\* The values a key of the feature dict may take: one set per key.
CONSTANT Values

Given == {"layout", "color", "structure", "brand"}
Derived == {"layoutDerived", "colorDerived", "structureDerived"}
Flags == {"logo", "artwork"}
FlagScores == {"logoScore", "artworkScore"}
Hints == {"logoHint", "artworkHint", "face"}
Keys == Given \cup Derived \cup Flags \cup FlagScores \cup Hints
          \cup {"brandListed", "overlap"}

ASSUME ValuesAssumption ==
  /\ DOMAIN Values = Keys
  /\ \A k \in Given \cup FlagScores \cup {"brandListed", "overlap"} : Values[k] \subseteq Int
  /\ \A k \in Derived : Values[k] \subseteq 0..100
  /\ \A k \in Flags : Values[k] \subseteq {"absent", "yes", "no"}
  /\ \A k \in Hints : Values[k] \subseteq BOOLEAN

VARIABLES feature, over

vars == <<feature, over>>

Features ==
  [layout : Values["layout"], layoutDerived : Values["layoutDerived"],
   color : Values["color"], colorDerived : Values["colorDerived"],
   structure : Values["structure"], structureDerived : Values["structureDerived"],
   brand : Values["brand"], brandListed : Values["brandListed"],
   overlap : Values["overlap"],
   logo : Values["logo"], logoScore : Values["logoScore"], logoHint : Values["logoHint"],
   artwork : Values["artwork"], artworkScore : Values["artworkScore"],
   artworkHint : Values["artworkHint"],
   face : Values["face"]]

\* Whether the float sum exceeds its exact value matters at a threshold only,
\* and depends on nothing but the sub-scores.
Rounds(s, o) == o => RawScore(s) \in Thresholds

SameSum(s, t) ==
  \A part \in {"layout", "color", "structure", "brand"} : s[part] = t[part]

Init == /\ feature \in Features
        /\ over \in BOOLEAN
        /\ Rounds(Signals(feature), over)

\* A key is set, corrected or removed.
Revise(k) == /\ \E v \in Values[k] : feature' = [feature EXCEPT ![k] = v]
             /\ over' \in BOOLEAN
             /\ Rounds(Signals(feature'), over')
             /\ SameSum(Signals(feature), Signals(feature')) => over' = over

Next == \E k \in DOMAIN Values : Revise(k)

Spec == Init /\ [][Next]_vars

(***************************************************************************)
(* The golden set (app/golden_set.py): samples by label, as signals, and   *)
(* the grades a label expects.                                             *)
(***************************************************************************)
CriticalLabels == {"brand-clone", "logo-face", "text-leak"}

ExpectedGrades(label) ==
  CASE label = "safe-structural" -> {"low"}
    [] label = "public-doc" -> {"low", "medium"}
    [] label = "text-leak" -> {"blocked"}
    [] OTHER -> {"high", "blocked"}

Sample(layout, color, structure, brand, leak, logo, face) ==
  [layout |-> layout, color |-> color, structure |-> structure, brand |-> brand,
   leak |-> leak, logo |-> logo, artwork |-> FALSE, face |-> face]

GoldenSamples(label) ==
  CASE label = "safe-structural" ->
         {Sample(20, 10, 20, 50, FALSE, FALSE, FALSE),
          Sample(15, 20, 10, 50, FALSE, FALSE, FALSE)}
    [] label = "brand-clone" ->
         {Sample(95, 95, 90, 90, FALSE, FALSE, FALSE),
          Sample(90, 92, 88, 80, FALSE, FALSE, FALSE)}
    [] label = "logo-face" ->
         {Sample(20, 20, 20, 50, FALSE, TRUE, FALSE),
          Sample(10, 10, 10, 50, FALSE, FALSE, TRUE)}
    [] label = "text-leak" -> {Sample(0, 0, 0, 50, TRUE, FALSE, FALSE)}
    [] OTHER -> {Sample(30, 20, 30, 20, FALSE, FALSE, FALSE)}

Labels == CriticalLabels \cup {"safe-structural", "public-doc"}

LabelledSamples ==
  UNION {{[label |-> label, signals |-> sample] : sample \in GoldenSamples(label)} :
           label \in Labels}

\* evaluate_sample.
SamplePassed(sample) == Risk(sample.signals, over) \in ExpectedGrades(sample.label)

\* Seeded fault: a label counts as recalled if most of its samples are.
MostlyRecalled(label, samples) ==
  LET labelled == {sample \in samples : sample.label = label}
  IN  2 * Cardinality({sample \in labelled : SamplePassed(sample)}) > Cardinality(labelled)

\* recall_by_label[label] is 1.0.
FullyRecalled(label, samples) ==
  LET labelled == {sample \in samples : sample.label = label}
  IN  Cardinality({sample \in labelled : SamplePassed(sample)}) = Cardinality(labelled)

\* evaluate_golden_set: a label without samples has no recall to fall short.
GoldenSetPassed(samples) ==
  \A label \in CriticalLabels :
    (\E sample \in samples : sample.label = label) => FullyRecalled(label, samples)

\* Gate G4 lets a release pass.
GoldenGate(samples) == GoldenSetPassed(samples)

(***************************************************************************)
(* Properties                                                              *)
(***************************************************************************)
Rank(risk) == CASE risk = "low" -> 0
                [] risk = "medium" -> 1
                [] risk = "high" -> 2
                [] OTHER -> 3

\* t shows at least as much of the original as s.
AtLeast(s, t) ==
  /\ \A part \in {"layout", "color", "structure", "brand"} : s[part] <= t[part]
  /\ \A hit \in {"leak", "logo", "artwork", "face"} : s[hit] => t[hit]

\* EvidenceNeverHelps: more evidence of copying never lowers the grade and
\* never turns a pattern the pipeline blocked into one it approves, whichever
\* hard rule, weight, float rounding or test decided before and after.  (The
\* text is taken to be free of personal data, which the pipeline judges apart.)
EvidenceStep ==
  LET s == Signals(feature)
      t == Signals(feature')
  IN  AtLeast(s, t) =>
        /\ Rank(Risk(s, over)) <= Rank(Risk(t, over'))
        /\ Verdict(s, over, "clean") = "blocked" => Verdict(t, over', "clean") = "blocked"

EvidenceNeverHelps == [][EvidenceStep]_vars

\* The labels of the golden set hold around its samples and not at them only:
\* whatever is at least as close to the original as a sample of a critical
\* label, and whatever is no closer than a sample of a safe one, is graded as
\* that label expects.  The hard rules need no resemblance besides: leaked text
\* is always blocked, a logo, a face or an artwork always high at least.
GoldenRegions ==
  LET s == Signals(feature)
      risk == Risk(s, over)
  IN  /\ \A label \in CriticalLabels : \A sample \in GoldenSamples(label) :
           AtLeast(sample, s) => risk \in ExpectedGrades(label)
      /\ \A label \in {"safe-structural", "public-doc"} : \A sample \in GoldenSamples(label) :
           AtLeast(s, sample) => risk \in ExpectedGrades(label)
      /\ s.leak => risk \in ExpectedGrades("text-leak")
      /\ s.logo \/ s.face \/ s.artwork => risk \in ExpectedGrades("logo-face")

\* The release gate overlooks no miss: with one more sample in the golden set, any
\* feature dict under any label, it passes exactly if that sample is graded as a
\* critical label demands, however many others are recalled.
GateStopsMisses ==
  \A label \in Labels :
    LET added == [label |-> label, signals |-> Signals(feature)]
    IN  GoldenGate(LabelledSamples \cup {added})
          <=> (label \in CriticalLabels => SamplePassed(added))

\* The two judgements do not contradict each other where it would show: what
\* the score calls low could not be reconstructed, so that the reconstruction
\* test only ever stops a medium pattern.
LowIsUnreconstructable ==
  Risk(Signals(feature), over) = "low" => ReconstructionTest(Signals(feature)) = "passed"
=============================================================================
