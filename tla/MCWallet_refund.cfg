SPECIFICATION Spec
CHECK_DEADLOCK FALSE
CONSTANTS
  c1 = c1
  c2 = c2
  d1 = d1
  d2 = d2
  f1 = f1
  f2 = f2
  l1 = l1
  l2 = l2
  u1 = u1
  u2 = u2
  NoUuid = NoUuid
  Requests = {c1, c2, d1, f1, f2}
  Amounts = {1, 2, 3}
  Uuids = {u1, u2}
  Menu <- RefundMenu
INVARIANTS
  TypeOK
  LotsConserved
  DebitsBacked
  BooksBalance
PROPERTIES
  NoLostUpdate
  ImplementsLedger
