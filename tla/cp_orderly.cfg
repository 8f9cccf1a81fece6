SPECIFICATION OrderlySpec
CONSTANTS
  Runs = {r1, r2}
  Legacy = {}
  MaxPending = 1
  MaxRetained = 0
  NoRun = NoRun
  Servers = {s1, s2}
  Workers = {w1, w2}
  NoServer = NoServer
  StopJoins = TRUE
  Clis = {c1, c2}
  MaxInterruptions = 2
  MaxFaults = 1
INVARIANTS
  OneExecutor
  ExecutingRowIsRunning
PROPERTIES
  CompletedIsFinal
  OnlyOrphansRequeued
  ImplementsRunQueue
SYMMETRY Symmetry
CHECK_DEADLOCK FALSE
