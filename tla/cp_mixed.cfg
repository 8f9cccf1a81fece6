SPECIFICATION Spec
CONSTANTS
  Runs = {r1, r2, r3}
  Legacy = {r3}
  MaxPending = 1
  MaxRetained = 0
  NoRun = NoRun
  Servers = {s1, s2}
  Workers = {w1}
  NoServer = NoServer
  StopJoins = FALSE
  Clis = {c1, c2}
  MaxInterruptions = 1
  MaxFaults = 0
INVARIANTS
  QueueIsExecutable
  RunningIsRecoverable
  OneServingPool
PROPERTIES
  PrunedStaysPruned
SYMMETRY Symmetry
CHECK_DEADLOCK FALSE
