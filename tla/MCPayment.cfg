SPECIFICATION FairSpec
CONSTANTS
  r1 = r1
  r2 = r2
  r3 = r3
  r4 = r4
  Requests = {r1, r2, r3, r4}
  Menu <- Races
  None = None
INVARIANTS
  TypeOK
  StatusBacked
  AuditTrail
  CaptureBacked
PROPERTIES
  IsLedger
  Heals
CHECK_DEADLOCK FALSE
