CONSTANTS
  lower = lower
  mixed = mixed
  r1 = r1
  r2 = r2
  r3 = r3
  NoRecord = NoRecord
  NoReq = NoReq
  Request = {r1, r2, r3}
  Id <- OneId
  Canon <- OneCanon
  Seed <- SeedActive
  Kinds = {"create", "update", "delete"}
  Targets = {"active"}
  Expected = {1}
  AuditCap = 3
  SweepMax = 3
SPECIFICATION Spec
SYMMETRY Symmetry
PROPERTIES
  ObservedIsReplaced
