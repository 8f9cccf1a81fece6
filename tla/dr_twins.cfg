SPECIFICATION Spec
CONSTANTS
  x = x
  y = y
  quoted = quoted
  padded = padded
  Values = {x, y}
  Noisy = {quoted, padded}
  Strip <- StripBlanks
  Fold <- FoldNoise
  NSteps = 3
  Programs <- OneTwins
  ToolResults = {seen}
  MaxIters = 2
PROPERTY
  ReplayIsOwn
CHECK_DEADLOCK FALSE
