CONSTANTS
  r1 = r1
  r2 = r2
  r3 = r3
  NoSample = NoSample
  NoLimit = NoLimit
  Request = {r1, r2, r3}
  Zone = {1, 2}
  Sample <- Samples
  Capacity = 2
  AlertLimit = 3
  ColdchainMaxTempC = 8
  CongestionPct = 90
SPECIFICATION Spec
SYMMETRY Symmetry
INVARIANTS
  HistoryIsNewest
  AnswersAreRight
  NoAlertLost
  SummaryIsBracketed
