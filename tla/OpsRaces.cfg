CONSTANTS
  lower = lower
  mixed = mixed
  r1 = r1
  r2 = r2
  r3 = r3
  NoRecord = NoRecord
  NoReq = NoReq
  Request = {r1, r2, r3}
  Id <- OneId
  Canon <- OneCanon
  Seed <- SeedActive
  Kinds = {"create", "update", "delete", "transition"}
  Targets = {"active", "closed"}
  Expected = {0, 1}
  AuditCap = 2
  SweepMax = 1
SPECIFICATION Spec
SYMMETRY Symmetry
INVARIANTS
  RevisionNamesContent
  NoLostUpdate
  AnswersAreHonest
  AuditIsNewestEvents
PROPERTIES
  HistoryNeedsARace
  GuardedTransitionIsLegal
  UnfitOnlyIfOvertaken
  ImplementsContract
