SPECIFICATION Spec
CONSTANTS
  Docs = {d1}
  Workers = {w1, w2}
  MaxAge = 2
  MaxRetry = 1
  MaxFaults = 1
  Miss = Miss
  NoAction = NoAction
SYMMETRY Symmetric
INVARIANT Settled
CHECK_DEADLOCK FALSE
