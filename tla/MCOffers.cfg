SPECIFICATION Spec
CONSTANTS
  u1 = u1
  u2 = u2
  a = a
  b = b
  Users = {u1, u2}
  Revisions = {a, b}
  MaxTime = 2
  MaxTag = 2
  MaxPuts = 3
  Forms <- Entered
  None = None
SYMMETRY Symmetry
INVARIANTS
  TypeOK
  DocumentsAgree
  ServedIsApproved
PROPERTIES
  ApprovedIsFinal
  ApprovalsKept
  StaysOnSale
CHECK_DEADLOCK FALSE
