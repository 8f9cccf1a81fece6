SPECIFICATION Spec
CONSTANTS
  MaxStringChars = 65536
  MaxAgentIters = 32
  MaxRegexPatternChars = 512
  MaxSourceBytes = 262144
  MaxIrBytes = 1048576
  DefaultMaxIters = 6
  Texts <- AllTexts
  Runnable <- RunnableTexts
  OtherWorkflow <- Another
  Inputs = {i1, i2}
INVARIANTS
  TypeOK
  AcceptedIsRuntimeReady
  AcceptedIsAsWritten
  BothWaysAgree
  StoredDefinitionLoadsIfBounded
  ExecutesWhatWasBound
  OneDefinitionPerRun
  OwnerMayResume
CHECK_DEADLOCK FALSE
