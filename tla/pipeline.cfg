\* Every combination of raw keys, texts, scores and pattern status.
SPECIFICATION Spec
CONSTANTS
  NoText = NoText
  RawKeys <- SomeKeys
  Texts <- SomeTexts
INVARIANTS
  GateAgreesWithPipeline
  PipelineNotMoreLenient
  NothingOriginalStored
  PersonalDataStops
PROPERTIES
  DecisionFollowsContract
