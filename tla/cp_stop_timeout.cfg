SPECIFICATION Spec
CONSTANTS
  Runs = {r1}
  Legacy = {}
  MaxPending = 1
  MaxRetained = 1
  NoRun = NoRun
  Servers = {s1, s2}
  Workers = {w1}
  NoServer = NoServer
  StopJoins = FALSE
  Clis = {}
  MaxInterruptions = 1
  MaxFaults = 0
INVARIANT
  OneExecutor
CHECK_DEADLOCK FALSE
