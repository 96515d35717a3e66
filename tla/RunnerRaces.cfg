CONSTANTS
  s1 = s1
  s2 = s2
  p1 = p1
  p2 = p2
  NoStarter = NoStarter
  JobCount = 2
  Starter = {s1, s2}
  Stopper = {p1, p2}
SPECIFICATION FairSpec
CHECK_DEADLOCK FALSE
INVARIANTS
  Inductive
  QuietAfterStop
  LastErrIsOfLastRun
PROPERTIES
  StopTerminates
  JobsRepeat
