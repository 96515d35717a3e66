CONSTANTS
  m1 = m1
  m2 = m2
  w1 = w1
  w2 = w2
  NoMessage = NoMessage
  Message = {m1, m2}
  Worker = {w1, w2}
  QueueSize = 1
  SenderCount = 1
  Flaky = {}
  MaxAttempts = 2
  Stoppable = TRUE
  LogLimit = 1
  Loads = 3
SPECIFICATION Spec
CHECK_DEADLOCK FALSE
INVARIANTS
  SnapshotIsConsistent
