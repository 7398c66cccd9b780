------------------------ MODULE PatternScoringProofs ------------------------
(***************************************************************************)
(* The properties of PatternScoring for every feature dict, whatever values *)
(* its keys may take.                                                      *)
(***************************************************************************)
EXTENDS PatternScoring, FiniteSetTheorems, TLAPS

\* Whatever the dict holds, the signals are hundredths and Booleans: clamping
\* and the fixed priorities leave nothing undefined.
LEMMA SignalsType == ASSUME NEW f \in Features PROVE Signals(f) \in SignalSet
<1>1. SubScore(f.layout, f.layoutDerived) \in 0..100
  BY ValuesAssumption DEF Features, SubScore, Clamp01, Keys, Given, Derived
<1>2. SubScore(f.color, f.colorDerived) \in 0..100
  BY ValuesAssumption DEF Features, SubScore, Clamp01, Keys, Given, Derived
<1>3. SubScore(f.structure, f.structureDerived) \in 0..100
  BY ValuesAssumption DEF Features, SubScore, Clamp01, Keys, Given, Derived
<1>4. BrandRisk(f.brand, f.brandListed) \in 0..100
  BY ValuesAssumption DEF Features, BrandRisk, Clamp01, Keys, Given
<1>5. /\ Detected(f.logo, f.logoScore, f.logoHint) \in BOOLEAN
      /\ Detected(f.artwork, f.artworkScore, f.artworkHint) \in BOOLEAN
  BY Zenon DEF Detected
<1>6. f.face \in BOOLEAN /\ TextLeaks(f.overlap) \in BOOLEAN
  BY ValuesAssumption DEF Features, TextLeaks, Keys, Hints
<1> QED BY <1>1, <1>2, <1>3, <1>4, <1>5, <1>6 DEF Signals, SignalSet

Typed == feature \in Features /\ over \in BOOLEAN

LEMMA StaysTyped == Spec => []Typed
<1>1. Init => Typed
  BY DEF Init, Typed
<1>2. ASSUME Typed, [Next]_vars PROVE Typed'
  <2>1. CASE UNCHANGED vars
    BY <1>2, <2>1 DEF vars, Typed
  <2>2. ASSUME NEW k \in Keys, Revise(k) PROVE Typed'
    <3>1. PICK v \in Values[k] : feature' = [feature EXCEPT ![k] = v]
      BY <2>2 DEF Revise
    <3>2. feature' \in Features
      BY <1>2, <3>1 DEF Typed, Features, Keys, Given, Derived, Flags, FlagScores, Hints
    <3> QED BY <2>2, <3>2 DEF Revise, Typed
  <2> QED BY <1>2, <2>1, <2>2, ValuesAssumption DEF Next
<1> QED BY <1>1, <1>2, PTL DEF Spec

\* The two weighted sums over plain integers: they grow with each part, and
\* the score's, all of whose weights are positive, stays only if every part does.
LEMMA LargerIsMonotone ==
  ASSUME NEW a \in Int, NEW b \in Int, NEW x \in Int, NEW y \in Int, a <= x, b <= y
  PROVE  Larger(a, b) \in Int /\ Larger(x, y) \in Int /\ Larger(a, b) <= Larger(x, y)
BY DEF Larger

LEMMA ScoreSum ==
  ASSUME NEW a \in Int, NEW b \in Int, NEW c \in Int, NEW d \in Int, NEW m \in Int,
         NEW x \in Int, NEW y \in Int, NEW z \in Int, NEW w \in Int, NEW n \in Int,
         a <= x, b <= y, c <= z, d <= w, m <= n
  PROVE  LET old == 30 * a + 20 * b + 25 * c + 15 * d + 10 * m
             new == 30 * x + 20 * y + 25 * z + 15 * w + 10 * n
         IN  /\ old \in Int /\ new \in Int /\ old <= new
             /\ old = new => a = x /\ b = y /\ c = z /\ d = w
OBVIOUS

LEMMA ReconSum ==
  ASSUME NEW a \in Int, NEW b \in Int, NEW c \in Int,
         NEW x \in Int, NEW y \in Int, NEW z \in Int, a <= x, b <= y, c <= z
  PROVE  LET old == 50 * a + 30 * b + 20 * c
             new == 50 * x + 30 * y + 20 * z
         IN  old \in Int /\ new \in Int /\ old <= new
OBVIOUS

\* Where the score lies on the golden set's regions and above the
\* reconstruction threshold, over plain integers.
LEMMA ScoreBounds ==
  ASSUME NEW a \in Int, NEW b \in Int, NEW c \in Int, NEW d \in Int, NEW m \in Int,
         0 <= a, 0 <= b, 0 <= c, 0 <= d, a <= m, b <= m, m \in {a, b}
  PROVE  LET raw == 30 * a + 20 * b + 25 * c + 15 * d + 10 * m
         IN  /\ a >= 90 /\ b >= 92 /\ c >= 88 /\ d >= 80 => raw > 8000
             /\ a <= 20 /\ b <= 20 /\ c <= 20 /\ d <= 50 => raw < 3000
             /\ a <= 30 /\ b <= 30 /\ c <= 40 /\ d <= 20 => raw < 6000
             /\ 50 * a + 30 * b + 20 * c > 6000 => raw > 3000
OBVIOUS

LEMMA RawScoreBounds ==
  ASSUME NEW s \in SignalSet
  PROVE  /\ RawScore(s) \in Int /\ Reconstructability(s) \in Int
         /\ s.layout >= 90 /\ s.color >= 92 /\ s.structure >= 88 /\ s.brand >= 80
              => RawScore(s) > 8000
         /\ s.layout <= 20 /\ s.color <= 20 /\ s.structure <= 20 /\ s.brand <= 50
              => RawScore(s) < 3000
         /\ s.layout <= 30 /\ s.color <= 30 /\ s.structure <= 40 /\ s.brand <= 20
              => RawScore(s) < 6000
         /\ Reconstructability(s) > 6000 => RawScore(s) > 3000
<1> DEFINE a == s.layout
           b == s.color
           c == s.structure
           d == s.brand
           m == Larger(a, b)
<1>1. /\ a \in Int /\ b \in Int /\ c \in Int /\ d \in Int
      /\ 0 <= a /\ 0 <= b /\ 0 <= c /\ 0 <= d
  BY DEF SignalSet
<1>2. m \in Int /\ a <= m /\ b <= m /\ m \in {a, b}
  BY <1>1 DEF Larger
<1>3. /\ RawScore(s) = 30 * a + 20 * b + 25 * c + 15 * d + 10 * m
      /\ Reconstructability(s) = 50 * a + 30 * b + 20 * c
  BY DEF RawScore, Reconstructability
<1> HIDE DEF a, b, c, d, m
<1>4. /\ RawScore(s) \in Int /\ Reconstructability(s) \in Int
      /\ a >= 90 /\ b >= 92 /\ c >= 88 /\ d >= 80 => RawScore(s) > 8000
      /\ a <= 20 /\ b <= 20 /\ c <= 20 /\ d <= 50 => RawScore(s) < 3000
      /\ a <= 30 /\ b <= 30 /\ c <= 40 /\ d <= 20 => RawScore(s) < 6000
      /\ Reconstructability(s) > 6000 => RawScore(s) > 3000
  BY <1>1, <1>2, <1>3, ScoreBounds
<1> QED BY <1>4 DEF a, b, c, d

LEMMA Dominated ==
  ASSUME NEW s, NEW t, AtLeast(s, t)
  PROVE  /\ s.layout <= t.layout /\ s.color <= t.color
         /\ s.structure <= t.structure /\ s.brand <= t.brand
         /\ s.leak => t.leak
         /\ s.logo => t.logo
         /\ s.artwork => t.artwork
         /\ s.face => t.face
BY DEF AtLeast

\* The corner of each label's region.
LEMMA SampleCorners ==
  /\ \A g \in GoldenSamples("brand-clone") :
       /\ g.layout \in Int /\ g.color \in Int /\ g.structure \in Int /\ g.brand \in Int
       /\ g.layout >= 90 /\ g.color >= 92 /\ g.structure >= 88 /\ g.brand >= 80
  /\ \A g \in GoldenSamples("logo-face") : g.logo \/ g.face
  /\ \A g \in GoldenSamples("text-leak") : g.leak
  /\ \A g \in GoldenSamples("safe-structural") :
       /\ g.layout \in Int /\ g.color \in Int /\ g.structure \in Int /\ g.brand \in Int
       /\ g.layout <= 20 /\ g.color <= 20 /\ g.structure <= 20 /\ g.brand <= 50
       /\ ~(g.leak \/ g.logo \/ g.artwork \/ g.face)
  /\ \A g \in GoldenSamples("public-doc") :
       /\ g.layout \in Int /\ g.color \in Int /\ g.structure \in Int /\ g.brand \in Int
       /\ g.layout <= 30 /\ g.color <= 30 /\ g.structure <= 40 /\ g.brand <= 20
       /\ ~(g.leak \/ g.logo \/ g.artwork \/ g.face)
<1>1. \A g \in GoldenSamples("brand-clone") :
        /\ g.layout \in Int /\ g.color \in Int /\ g.structure \in Int /\ g.brand \in Int
        /\ g.layout >= 90 /\ g.color >= 92 /\ g.structure >= 88 /\ g.brand >= 80
  BY DEF GoldenSamples, Sample
<1>2. \A g \in GoldenSamples("logo-face") : g.logo \/ g.face
  BY DEF GoldenSamples, Sample
<1>3. \A g \in GoldenSamples("text-leak") : g.leak
  BY DEF GoldenSamples, Sample
<1>4. \A g \in GoldenSamples("safe-structural") :
        /\ g.layout \in Int /\ g.color \in Int /\ g.structure \in Int /\ g.brand \in Int
        /\ g.layout <= 20 /\ g.color <= 20 /\ g.structure <= 20 /\ g.brand <= 50
        /\ ~(g.leak \/ g.logo \/ g.artwork \/ g.face)
  BY DEF GoldenSamples, Sample
<1>5. \A g \in GoldenSamples("public-doc") :
        /\ g.layout \in Int /\ g.color \in Int /\ g.structure \in Int /\ g.brand \in Int
        /\ g.layout <= 30 /\ g.color <= 30 /\ g.structure <= 40 /\ g.brand <= 20
        /\ ~(g.leak \/ g.logo \/ g.artwork \/ g.face)
  BY DEF GoldenSamples, Sample
<1> QED BY <1>1, <1>2, <1>3, <1>4, <1>5

\* The golden set's labels hold on whole regions.
THEOREM GoldenRegionsHold == Spec => []GoldenRegions
<1>1. ASSUME Typed PROVE GoldenRegions
  <2> DEFINE s == Signals(feature)
  <2>1. s \in SignalSet /\ over \in BOOLEAN
    BY <1>1, SignalsType DEF Typed
  <2> HIDE DEF s
  <2>2. RawScore(s) \in Int /\ s.leak \in BOOLEAN
    BY <2>1, RawScoreBounds DEF SignalSet
  <2>3. s.layout >= 90 /\ s.color >= 92 /\ s.structure >= 88 /\ s.brand >= 80
          => Risk(s, over) \in {"high", "blocked"}
    BY <2>1, <2>2, RawScoreBounds DEF Risk, ReuseScore, Larger, ScoreToRisk, Exceeds
  <2>4. ASSUME ~(s.leak \/ s.logo \/ s.artwork \/ s.face)
        PROVE  Risk(s, over) = ScoreToRisk(RawScore(s), over)
    BY <2>4 DEF Risk, ReuseScore
  <2>5. ASSUME ~(s.leak \/ s.logo \/ s.artwork \/ s.face)
        PROVE  /\ s.layout <= 20 /\ s.color <= 20 /\ s.structure <= 20 /\ s.brand <= 50
                    => Risk(s, over) = "low"
               /\ s.layout <= 30 /\ s.color <= 30 /\ s.structure <= 40 /\ s.brand <= 20
                    => Risk(s, over) \in {"low", "medium"}
    BY <2>1, <2>2, <2>4, <2>5, RawScoreBounds DEF ScoreToRisk, Exceeds
  <2>6. s.leak => Risk(s, over) = "blocked"
    BY DEF Risk, ReuseScore, ScoreToRisk, Exceeds
  <2>7. s.logo \/ s.artwork \/ s.face => Risk(s, over) \in {"high", "blocked"}
    BY <2>2 DEF Risk, ReuseScore, Larger, ScoreToRisk, Exceeds
  <2>8. /\ s.layout \in Int /\ s.color \in Int /\ s.structure \in Int /\ s.brand \in Int
    BY <2>1 DEF SignalSet
  <2>9. ASSUME NEW sample \in GoldenSamples("brand-clone"), AtLeast(sample, s)
        PROVE  Risk(s, over) \in ExpectedGrades("brand-clone")
    <3>1. s.layout >= 90 /\ s.color >= 92 /\ s.structure >= 88 /\ s.brand >= 80
      BY <2>8, <2>9, SampleCorners, Dominated
    <3> QED BY <2>3, <3>1 DEF ExpectedGrades
  <2>10. ASSUME NEW sample \in GoldenSamples("logo-face"), AtLeast(sample, s)
         PROVE  Risk(s, over) \in ExpectedGrades("logo-face")
    BY <2>7, <2>10, SampleCorners, Dominated DEF ExpectedGrades
  <2>11. ASSUME NEW sample \in GoldenSamples("text-leak"), AtLeast(sample, s)
         PROVE  Risk(s, over) \in ExpectedGrades("text-leak")
    BY <2>6, <2>11, SampleCorners, Dominated DEF ExpectedGrades
  <2>12. ASSUME NEW sample \in GoldenSamples("safe-structural"), AtLeast(s, sample)
         PROVE  Risk(s, over) \in ExpectedGrades("safe-structural")
    <3>1. /\ ~(s.leak \/ s.logo \/ s.artwork \/ s.face)
          /\ s.layout <= 20 /\ s.color <= 20 /\ s.structure <= 20 /\ s.brand <= 50
      BY <2>8, <2>12, SampleCorners, Dominated
    <3> QED BY <2>5, <3>1 DEF ExpectedGrades
  <2>13. ASSUME NEW sample \in GoldenSamples("public-doc"), AtLeast(s, sample)
         PROVE  Risk(s, over) \in ExpectedGrades("public-doc")
    <3>1. /\ ~(s.leak \/ s.logo \/ s.artwork \/ s.face)
          /\ s.layout <= 30 /\ s.color <= 30 /\ s.structure <= 40 /\ s.brand <= 20
      BY <2>8, <2>13, SampleCorners, Dominated
    <3> QED BY <2>5, <3>1 DEF ExpectedGrades
  <2>14. /\ s.leak => Risk(s, over) \in ExpectedGrades("text-leak")
         /\ s.logo \/ s.face \/ s.artwork => Risk(s, over) \in ExpectedGrades("logo-face")
    BY <2>6, <2>7 DEF ExpectedGrades
  <2> QED BY <2>9, <2>10, <2>11, <2>12, <2>13, <2>14 DEF GoldenRegions, CriticalLabels, s
<1> QED BY StaysTyped, <1>1, PTL

\* A grade of low leaves no room for a reconstruction above its threshold.
THEOREM LowNeverReconstructs == Spec => []LowIsUnreconstructable
<1>1. ASSUME NEW s \in SignalSet, NEW o \in BOOLEAN, Risk(s, o) = "low"
      PROVE  ReconstructionTest(s) = "passed"
  <2>1. RawScore(s) \in Int /\ Reconstructability(s) \in Int
    BY RawScoreBounds
  <2>2. ~s.leak /\ RawScore(s) <= 3000
    BY <1>1, <2>1 DEF Risk, ReuseScore, Larger, ScoreToRisk, Exceeds
  <2>3. Reconstructability(s) <= 6000
    BY <2>1, <2>2, RawScoreBounds
  <2> QED BY <2>2, <2>3 DEF ReconstructionTest
<1>2. Typed => LowIsUnreconstructable
  BY SignalsType, <1>1 DEF LowIsUnreconstructable, Typed
<1> QED BY StaysTyped, <1>2, PTL

\* One more signal, or a stronger one, moves the grade up or not at all.
LEMMA RiskIsMonotone ==
  ASSUME NEW s \in SignalSet, NEW t \in SignalSet, NEW o \in BOOLEAN, NEW p \in BOOLEAN,
         AtLeast(s, t), SameSum(s, t) => p = o
  PROVE  Rank(Risk(s, o)) <= Rank(Risk(t, p))
<1>1. /\ s.layout <= t.layout /\ s.color <= t.color
      /\ s.structure <= t.structure /\ s.brand <= t.brand
      /\ s.leak => t.leak
      /\ s.artwork => t.artwork
      /\ s.logo \/ s.face => t.logo \/ t.face
  BY DEF AtLeast
<1>2. /\ RawScore(s) \in Int /\ RawScore(t) \in Int
      /\ RawScore(s) <= RawScore(t)
      /\ RawScore(s) = RawScore(t) => SameSum(s, t)
  <2>1. /\ s.layout \in Int /\ s.color \in Int /\ s.structure \in Int /\ s.brand \in Int
        /\ t.layout \in Int /\ t.color \in Int /\ t.structure \in Int /\ t.brand \in Int
    BY DEF SignalSet
  <2>2. /\ Larger(s.layout, s.color) \in Int /\ Larger(t.layout, t.color) \in Int
        /\ Larger(s.layout, s.color) <= Larger(t.layout, t.color)
    BY <1>1, <2>1, LargerIsMonotone
  <2> DEFINE a == s.layout
             b == s.color
             c == s.structure
             d == s.brand
             m == Larger(a, b)
             x == t.layout
             y == t.color
             z == t.structure
             w == t.brand
             n == Larger(x, y)
  <2>3. /\ RawScore(s) = 30 * a + 20 * b + 25 * c + 15 * d + 10 * m
        /\ RawScore(t) = 30 * x + 20 * y + 25 * z + 15 * w + 10 * n
    BY DEF RawScore
  <2>4. /\ a \in Int /\ b \in Int /\ c \in Int /\ d \in Int /\ m \in Int
        /\ x \in Int /\ y \in Int /\ z \in Int /\ w \in Int /\ n \in Int
        /\ a <= x /\ b <= y /\ c <= z /\ d <= w /\ m <= n
    BY <1>1, <2>1, <2>2
  <2> HIDE DEF a, b, c, d, m, x, y, z, w, n
  <2>5. /\ RawScore(s) \in Int /\ RawScore(t) \in Int
        /\ RawScore(s) <= RawScore(t)
        /\ RawScore(s) = RawScore(t) => a = x /\ b = y /\ c = z /\ d = w
    BY <2>3, <2>4, ScoreSum
  <2> QED BY <2>5 DEF SameSum, a, b, c, d, x, y, z, w
<1>3. /\ ReuseScore(s) \in Int /\ ReuseScore(t) \in Int
      /\ \/ ReuseScore(s) < ReuseScore(t)
         \/ ReuseScore(s) = ReuseScore(t) /\ ReuseScore(t) \notin Thresholds
         \/ ReuseScore(s) = ReuseScore(t) /\ RawScore(s) = RawScore(t)
         \/ t.leak
  BY <1>1, <1>2 DEF ReuseScore, Larger, Thresholds, SignalSet
<1>4. CASE t.leak
  BY <1>4 DEF Risk, ReuseScore, ScoreToRisk, Exceeds, Rank
<1>5. CASE ~t.leak
  BY <1>2, <1>3, <1>5 DEF Risk, ScoreToRisk, Exceeds, Rank, Thresholds
<1> QED BY <1>4, <1>5

\* Nor does it turn a refusal into an approval.
LEMMA BlockedStaysBlocked ==
  ASSUME NEW s \in SignalSet, NEW t \in SignalSet, NEW o \in BOOLEAN, NEW p \in BOOLEAN,
         AtLeast(s, t), SameSum(s, t) => p = o, Verdict(s, o, "clean") = "blocked"
  PROVE  Verdict(t, p, "clean") = "blocked"
<1>1. Rank(Risk(s, o)) <= Rank(Risk(t, p))
  BY RiskIsMonotone
<1>2. Risk(t, p) \in {"low", "medium"} => Risk(s, o) \in {"low", "medium"}
  BY <1>1 DEF Risk, ScoreToRisk, Rank
<1>3. ReconstructionTest(t) = "passed" => ReconstructionTest(s) = "passed"
  <2>1. /\ s.layout \in Int /\ s.color \in Int /\ s.structure \in Int
        /\ t.layout \in Int /\ t.color \in Int /\ t.structure \in Int
    BY DEF SignalSet
  <2>2. /\ s.layout <= t.layout /\ s.color <= t.color /\ s.structure <= t.structure
        /\ s.leak => t.leak
    BY DEF AtLeast
  <2>3. Reconstructability(s) <= Reconstructability(t)
        /\ Reconstructability(s) \in Int /\ Reconstructability(t) \in Int
    BY <2>1, <2>2, ReconSum DEF Reconstructability
  <2> QED BY <2>2, <2>3 DEF ReconstructionTest
<1> QED BY <1>2, <1>3 DEF Verdict, GovernanceStatus, GovernancePasses,
           OperationalReuseStates, OperationalPiiStates

THEOREM EvidenceIsMonotone == Spec => EvidenceNeverHelps
<1>1. ASSUME Typed, Typed', Next PROVE EvidenceStep
  <2>1. Signals(feature) \in SignalSet /\ Signals(feature') \in SignalSet
    BY <1>1, SignalsType DEF Typed
  <2>2. SameSum(Signals(feature), Signals(feature')) => over' = over
    BY <1>1 DEF Next, Revise
  <2> QED BY <1>1, <2>1, <2>2, RiskIsMonotone, BlockedStaysBlocked DEF EvidenceStep, Typed
<1> QED BY StaysTyped, <1>1, PTL DEF Spec, EvidenceNeverHelps


(***************************************************************************)
(* The release gate                                                        *)
(***************************************************************************)
\* Every critical sample of the golden set is graded as its label demands.
LEMMA CriticalSamplesPass ==
  ASSUME NEW label \in CriticalLabels, NEW s \in GoldenSamples(label), over \in BOOLEAN
  PROVE  Risk(s, over) \in ExpectedGrades(label)
<1>1. s \in SignalSet
  <2>1. CASE label = "brand-clone"
    <3>1. /\ Sample(95, 95, 90, 90, FALSE, FALSE, FALSE) \in SignalSet
          /\ Sample(90, 92, 88, 80, FALSE, FALSE, FALSE) \in SignalSet
      BY DEF Sample, SignalSet
    <3> QED BY <2>1, <3>1 DEF GoldenSamples
  <2>2. CASE label = "logo-face"
    <3>1. /\ Sample(20, 20, 20, 50, FALSE, TRUE, FALSE) \in SignalSet
          /\ Sample(10, 10, 10, 50, FALSE, FALSE, TRUE) \in SignalSet
      BY DEF Sample, SignalSet
    <3> QED BY <2>2, <3>1 DEF GoldenSamples
  <2>3. CASE label = "text-leak"
    <3>1. Sample(0, 0, 0, 50, TRUE, FALSE, FALSE) \in SignalSet
      BY DEF Sample, SignalSet
    <3> QED BY <2>3, <3>1 DEF GoldenSamples
  <2> QED BY <2>1, <2>2, <2>3 DEF CriticalLabels
<1>2. RawScore(s) \in Int
  BY <1>1, RawScoreBounds
<1>3. CASE label = "brand-clone"
  <2>1. s.layout >= 90 /\ s.color >= 92 /\ s.structure >= 88 /\ s.brand >= 80
        /\ ~s.leak
    BY <1>3 DEF GoldenSamples, Sample
  <2>2. RawScore(s) > 8000
    BY <1>1, <2>1, RawScoreBounds
  <2> QED BY <1>2, <1>3, <2>2 DEF Risk, ReuseScore, Larger, ScoreToRisk, Exceeds, ExpectedGrades
<1>4. CASE label = "logo-face"
  <2>1. s.logo \/ s.face
    BY <1>4 DEF GoldenSamples, Sample
  <2> QED BY <1>2, <1>4, <2>1 DEF Risk, ReuseScore, Larger, ScoreToRisk, Exceeds, ExpectedGrades
<1>5. CASE label = "text-leak"
  <2>1. s.leak
    BY <1>5 DEF GoldenSamples, Sample
  <2> QED BY <1>5, <2>1 DEF Risk, ReuseScore, ScoreToRisk, Exceeds, ExpectedGrades
<1> QED BY <1>3, <1>4, <1>5 DEF CriticalLabels

LEMMA LabelledSamplesFinite == IsFiniteSet(LabelledSamples)
<1> DEFINE L(label) == {[label |-> label, signals |-> sample] : sample \in GoldenSamples(label)}
<1>1. ASSUME NEW a, NEW b PROVE IsFiniteSet({a, b})
  <2>1. {a, b} = {a} \cup {b}
    OBVIOUS
  <2>2. IsFiniteSet({a})
    BY FS_Singleton
  <2>3. IsFiniteSet({a} \cup {b})
    BY <2>2, FS_AddElement
  <2> QED BY <2>1, <2>3
<1>2. ASSUME NEW label PROVE IsFiniteSet(L(label))
  <2>1. \E a, b : GoldenSamples(label) = {a, b}
    <3>1. \A a : {a} = {a, a}
      OBVIOUS
    <3> QED BY <3>1, ZenonT(40) DEF GoldenSamples
  <2>2. PICK a, b : GoldenSamples(label) = {a, b}
    BY <2>1
  <2>3. L(label) = {[label |-> label, signals |-> a], [label |-> label, signals |-> b]}
    BY <2>2
  <2> QED BY <1>1, <2>3
<1>3. LabelledSamples = L("brand-clone") \cup L("logo-face") \cup L("text-leak")
                          \cup L("safe-structural") \cup L("public-doc")
  <2> HIDE DEF L
  <2>1. LabelledSamples = UNION {L(label) : label \in Labels}
    BY DEF LabelledSamples, L
  <2> QED BY <2>1 DEF Labels, CriticalLabels
<1> HIDE DEF L
<1> QED BY <1>2, <1>3, FS_Union

\* recall is 1.0 exactly if no sample of the label is missed.
LEMMA RecallOverlooksNothing ==
  ASSUME NEW samples, IsFiniteSet(samples), NEW label
  PROVE  FullyRecalled(label, samples)
           <=> \A sample \in samples : sample.label = label => SamplePassed(sample)
<1> DEFINE labelled == {sample \in samples : sample.label = label}
           passed == {sample \in labelled : SamplePassed(sample)}
<1>1. IsFiniteSet(labelled)
  BY FS_Subset
<1>2. passed \in SUBSET labelled
  OBVIOUS
<1>3. Cardinality(passed) = Cardinality(labelled) <=> passed = labelled
  BY <1>1, <1>2, FS_Subset
<1>4. passed = labelled <=> \A sample \in labelled : SamplePassed(sample)
  OBVIOUS
<1> QED BY <1>3, <1>4 DEF FullyRecalled

\* evaluate_golden_set, which compares a recall with 1.0, stops a release for
\* one missed sample, whatever its feature dict and however many are recalled.
THEOREM GateStopsEveryMiss == Spec => []GateStopsMisses
<1>1. ASSUME Typed, NEW label \in Labels
      PROVE  LET added == [label |-> label, signals |-> Signals(feature)]
             IN  GoldenGate(LabelledSamples \cup {added})
                   <=> (label \in CriticalLabels => SamplePassed(added))
  <2> DEFINE added == [label |-> label, signals |-> Signals(feature)]
             samples == LabelledSamples \cup {added}
  <2>1. IsFiniteSet(samples)
    BY LabelledSamplesFinite, FS_AddElement
  <2>2. ASSUME NEW sample \in LabelledSamples, sample.label \in CriticalLabels
        PROVE  SamplePassed(sample)
    <3>1. sample.signals \in GoldenSamples(sample.label)
      BY DEF LabelledSamples
    <3> QED BY <1>1, <2>2, <3>1, CriticalSamplesPass DEF SamplePassed, Typed
  <2>3. added.label = label
    OBVIOUS
  <2> HIDE DEF added
  <2>4. GoldenGate(samples) <=>
          \A critical \in CriticalLabels :
            \A sample \in samples : sample.label = critical => SamplePassed(sample)
    <3> HIDE DEF samples
    <3> QED BY <2>1, RecallOverlooksNothing DEF GoldenGate, GoldenSetPassed
  <2>5. GoldenGate(samples) <=> (label \in CriticalLabels => SamplePassed(added))
    BY <2>2, <2>3, <2>4
  <2> QED BY <2>5 DEF added
<1>2. Typed => GateStopsMisses
  BY <1>1 DEF GateStopsMisses
<1> QED BY StaysTyped, <1>2, PTL
=============================================================================
