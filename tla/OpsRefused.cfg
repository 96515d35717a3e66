CONSTANTS
  lower = lower
  mixed = mixed
  r1 = r1
  r2 = r2
  r3 = r3
  NoRecord = NoRecord
  NoReq = NoReq
  Request = {r1, r2}
  Id <- OneId
  Canon <- OneCanon
  Seed <- SeedActive
  Kinds = {"update", "transition"}
  Targets = {"active", "closed"}
  Expected = {0}
  AuditCap = 2
  SweepMax = 2
SPECIFICATION Spec
SYMMETRY Symmetry
INVARIANTS
  RefusedTransitionDidNotHappen
