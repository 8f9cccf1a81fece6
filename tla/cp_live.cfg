SPECIFICATION FairSpec
CONSTANTS
  Runs = {r1, r2}
  Legacy = {}
  MaxPending = 1
  MaxRetained = 0
  NoRun = NoRun
  Servers = {s1, s2}
  Workers = {w1, w2}
  NoServer = NoServer
  StopJoins = TRUE
  Clis = {}
  MaxInterruptions = 1
  MaxFaults = 2
PROPERTIES
  AcceptedRunEnds
CHECK_DEADLOCK FALSE
