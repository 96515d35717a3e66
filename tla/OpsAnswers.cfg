CONSTANTS
  lower = lower
  mixed = mixed
  r1 = r1
  r2 = r2
  r3 = r3
  NoRecord = NoRecord
  NoReq = NoReq
  Request = {r1, r2}
  Id <- BothIds
  Canon <- BothCanon
  Seed <- SeedPaused
  Kinds = {"create", "update", "delete", "transition"}
  Targets = {"queued", "active", "paused", "closed", "other"}
  Expected = {0, 2}
  AuditCap = 2
  SweepMax = 1
SPECIFICATION FairSpec
INVARIANTS
  Inductive
  AuditMatchesWrites
PROPERTIES
  OnlyOvertakenIsDenied
  EveryRequestIsAnswered
