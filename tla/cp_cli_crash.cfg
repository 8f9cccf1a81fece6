SPECIFICATION Spec
CONSTANTS
  Runs = {r1}
  Legacy = {}
  MaxPending = 1
  MaxRetained = 1
  NoRun = NoRun
  Servers = {}
  Workers = {w1}
  NoServer = NoServer
  StopJoins = TRUE
  Clis = {c1}
  MaxInterruptions = 1
  MaxFaults = 0
INVARIANT
  CrashedRunIsResumable
CHECK_DEADLOCK FALSE
