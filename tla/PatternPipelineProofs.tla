------------------------ MODULE PatternPipelineProofs -----------------------
(***************************************************************************)
(* The comparisons of PatternPipeline, for any keys and texts.             *)
(***************************************************************************)
EXTENDS PatternPipeline, TLAPS

\* What a row keeps of the raw feature it was stored for.
RowInv ==
  /\ raw \in Raws
  /\ row.feature = StoredKeys(Guard(raw.keys))
  /\ row.pii = PiiScan(Scanned(raw))
  /\ row.reuse \in ReuseRisk
  /\ row.recon \in ReconResult
  /\ row.status \in PatternStatus
  /\ row = [feature |-> row.feature, pii |-> row.pii, reuse |-> row.reuse,
            recon |-> row.recon, status |-> row.status]

LEMMA InitRow == Init => RowInv
<1> SUFFICES ASSUME Init PROVE RowInv
  OBVIOUS
<1>1. PICK status \in PatternStatus, recon \in {raw.recon, "not_run"} :
        row = [Persist(raw) EXCEPT !.status = status, !.recon = recon]
  BY DEF Init
<1>2. raw \in Raws /\ raw.reuse \in ReuseRisk /\ recon \in ReconResult
  BY DEF Init, Raws, ReconResult
<1>3. row = [feature |-> StoredKeys(Guard(raw.keys)), pii |-> PiiScan(Scanned(raw)),
             reuse |-> raw.reuse, recon |-> recon, status |-> status]
  BY <1>1 DEF Persist
<1> QED BY <1>2, <1>3 DEF RowInv

LEMMA DecideRow ==
  ASSUME RowInv, Decide
  PROVE  /\ RowInv'
         /\ row'.status = DecidePatternStatus(row.reuse, row.recon, row.status)
<1> DEFINE status == DecidePatternStatus(row.reuse, row.recon, row.status)
<1>1. status \in PatternStatus
  BY DEF RowInv, DecidePatternStatus, PatternStatus
<1>2. row' = [row EXCEPT !.status = status] /\ raw' = raw
  BY DEF Decide
<1> HIDE DEF status
<1>3. row' = [feature |-> row.feature, pii |-> row.pii, reuse |-> row.reuse,
              recon |-> row.recon, status |-> status]
  BY <1>2 DEF RowInv
<1>4. RowInv'
  BY <1>1, <1>2, <1>3 DEF RowInv
<1> QED BY <1>3, <1>4 DEF status

LEMMA RowStays == Spec => []RowInv
<1>1. RowInv /\ [Next]_vars => RowInv'
  <2>1. CASE UNCHANGED vars
    BY <2>1 DEF vars, RowInv
  <2>2. CASE Decide
    BY <2>2, DecideRow
  <2> QED BY <2>1, <2>2 DEF Next
<1> QED BY <1>1, InitRow, PTL DEF Spec

\* Every decision of the state machine is a transition of its contract.
THEOREM DecisionIsLegal == Spec => DecisionFollowsContract
<1>1. RowInv /\ [Next]_vars =>
        [row'.status # row.status => <<row.status, row'.status>> \in PatternTransitions]_vars
  <2> SUFFICES ASSUME RowInv, Decide, row'.status # row.status
               PROVE  <<row.status, row'.status>> \in PatternTransitions
    BY DEF Next
  <2>1. row'.status = DecidePatternStatus(row.reuse, row.recon, row.status)
    BY DecideRow
  <2> QED BY <2>1 DEF RowInv, DecidePatternStatus, PatternStatus, PatternTransitions
<1> QED BY RowStays, <1>1, PTL DEF Spec, DecisionFollowsContract

\* The operational gate and the pipeline draw the same line.
THEOREM GateAndPipelineAgree == Spec => []GateAgreesWithPipeline
<1>1. GateAgreesWithPipeline
  BY DEF GateAgreesWithPipeline, EvaluateOperational, UnmetGates, GovernanceStatus,
         GovernancePasses
<1> QED BY <1>1, PTL

\* The state machine approves whatever the pipeline approves.
THEOREM PipelineWithinStateMachine == Spec => []PipelineNotMoreLenient
<1>1. PipelineNotMoreLenient
  BY DEF PipelineNotMoreLenient, GovernanceStatus, GovernancePasses, DecidePatternStatus,
         CanApprove, PatternTransitions
<1> QED BY <1>1, PTL

\* No raw feature dict, whatever its keys, leaves original expression in a row.
THEOREM OriginalsStayOut == Spec => []NothingOriginalStored
<1>1. RowInv => NothingOriginalStored
  <2> SUFFICES ASSUME RowInv PROVE NothingOriginalStored
    OBVIOUS
  <2>1. row.feature \subseteq (AllowedKeys \ RemovalKeys) \cup ReportKeys
    BY DEF RowInv, StoredKeys, Guard, Internal
  <2>2. AllowedKeys \cap (ProbeKeys \cup {"_leak_probe"}) = {}
    BY DEF AllowedKeys, ProbeKeys
  <2>3. RemovalKeys \subseteq
          {"raw_text", "original_text", "verbatim_text", "unique_phrases", "image_pixels",
           "raw_image", "logo_asset", "face_crops", "person_images", "signature",
           "unique_artwork", "illustration_asset", "design_replica"}
    BY DEF RemovalKeys, Removed, RemovalTargets
  <2>4. ReportKeys \cap (RemovalKeys \cup ProbeKeys \cup {"_leak_probe"}) = {}
    BY <2>3 DEF ReportKeys, ProbeKeys
  <2> QED BY <2>1, <2>2, <2>4 DEF NothingOriginalStored
<1> QED BY <1>1, RowStays, PTL

\* Sensitive data in the original text keeps the row out of the generation
\* engine in every status it may be given.
THEOREM PersonalDataStaysOut == Spec => []PersonalDataStops
<1>1. RowInv => PersonalDataStops
  <2> SUFFICES ASSUME RowInv, raw.piiText = NoText, OriginalText(raw) \cap HighRisk # {},
                      NEW source, NEW license
               PROVE  ~EvaluateOperational(source, license, row.pii, row.reuse, row.status,
                                           row.recon)
    BY DEF PersonalDataStops
  <2>1. row.pii = "sensitive"
    BY DEF RowInv, Scanned, PiiScan
  <2> QED BY <2>1 DEF EvaluateOperational, UnmetGates, OperationalPiiStates
<1> QED BY <1>1, RowStays, PTL
=============================================================================
