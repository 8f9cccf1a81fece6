SPECIFICATION Spec
CONSTANTS
  MaxStringChars = 65536
  MaxAgentIters = 32
  MaxRegexPatternChars = 512
  MaxSourceBytes = 262144
  MaxIrBytes = 1048576
  DefaultMaxIters = 6
  Texts <- LongOnly
  Runnable <- LongOnly
  OtherWorkflow <- Another
  Inputs = {i1, i2}
INVARIANT
  StoredDefinitionLoads
CHECK_DEADLOCK FALSE
