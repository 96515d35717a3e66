CONSTANTS
  yardA1 = yardA1
  yardCold2 = yardCold2
  r1 = r1
  r2 = r2
  r3 = r3
  r4 = r4
  UnknownZone = UnknownZone
  NoStatus = NoStatus
  Request = {r1, r2}
  Zone = {yardA1, yardCold2}
  SeedStatus <- Seeded
  Overlap = 2
SPECIFICATION Spec
SYMMETRY Symmetry
CHECK_DEADLOCK FALSE
PROPERTIES
  LegalMoves
