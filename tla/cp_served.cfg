SPECIFICATION Spec
CONSTANTS
  Runs = {r1, r2, r3, r4}
  Legacy = {}
  MaxPending = 1
  MaxRetained = 0
  NoRun = NoRun
  Servers = {s1, s2}
  Workers = {w1, w2}
  NoServer = NoServer
  StopJoins = TRUE
  Clis = {}
  MaxInterruptions = 1
  MaxFaults = 1
INVARIANTS
  TypeOK
  OneExecutor
  ExecutingRowIsRunning
  NothingStrandedWhileServed
  BacklogBound
  TableBound
PROPERTIES
  CompletedIsFinal
  OnlyOrphansRequeued
  ImplementsRunQueue
SYMMETRY Symmetry
CHECK_DEADLOCK FALSE
