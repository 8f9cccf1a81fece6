SPECIFICATION FairSpec
CONSTANTS
  x = x
  y = y
  quoted = quoted
  padded = padded
  Values = {x, y}
  Noisy = {quoted, padded}
  Strip <- StripBlanks
  Fold <- FoldNoise
  NSteps = 3
  Programs <- OneBranch
  ToolResults = {seen}
  MaxIters = 2
PROPERTY
  FailingRunAsksAgain
CHECK_DEADLOCK FALSE
