CONSTANTS
  r1 = r1
  r2 = r2
  w1 = w1
  w2 = w2
  Request = {r1, r2}
  Worker = {w1, w2}
  JobCount = 1
  MaxSignals = 2
SPECIFICATION FairSpec
CHECK_DEADLOCK FALSE
INVARIANTS
  Inductive
  CleanExitLeavesNothing
  RequestsFindThePartsUp
  SignalsSpareRequests
PROPERTIES
  SignalEndsProcess
