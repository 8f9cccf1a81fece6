SPECIFICATION TracedSpec
CONSTANTS
  x = x
  y = y
  quoted = quoted
  padded = padded
  Values = {x, y}
  Noisy = {quoted, padded}
  Strip <- StripBlanks
  Fold <- FoldNoise
  NSteps = 3
  Programs <- AllPrograms
  ToolResults = {seen}
  MaxIters = 2
INVARIANTS
  TypeOK
  FinishedStepIsNotRedone
  CheckpointIsUsable
  CheckpointsFormAPath
  RequestsQuoteTheStore
  JournalKeyIsUnique
  TraceTypeOK
  StepsCompletedInLockstep
  AnsweredCallsAreCounted
PROPERTIES
  OnlyInFlightCallRepeats
  ReplayIsOwnIfDistinct
  ImplementsRunWalk
CHECK_DEADLOCK FALSE
