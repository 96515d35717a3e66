CONSTANTS
  NoRecord = NoRecord
  Id = {1, 2, 3}
  Content <- Contents
  Seeds <- SomeSeeds
  Queries <- Filters
  Sizes <- SomeSizes
  DefaultSize = 1
  MaxSize = 2
  Half = 6
  Base = 2
  Times = {0, 2, 3, 4}
  MaxWrites = 2
  TopLimit = 2
SPECIFICATION Spec
CHECK_DEADLOCK FALSE
INVARIANTS
  PagesAreWindows
  StillListIsRead
  MissedOnlyIfSank
  TwiceOnlyIfRose
  ReportIsRight
