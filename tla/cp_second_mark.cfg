SPECIFICATION Spec
CONSTANTS
  Runs = {r1}
  Legacy = {}
  MaxPending = 1
  MaxRetained = 1
  NoRun = NoRun
  Servers = {s1}
  Workers = {w1}
  NoServer = NoServer
  StopJoins = TRUE
  Clis = {c1}
  MaxInterruptions = 0
  MaxFaults = 0
PROPERTY
  SecondMarkIsHarmless
CHECK_DEADLOCK FALSE
