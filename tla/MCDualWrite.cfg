SPECIFICATION FairSpec
CONSTANTS
  Docs = {d1}
  Workers = {w1, w2}
  MaxAge = 2
  MaxRetry = 1
  MaxFaults = 1
  Miss = Miss
  NoAction = NoAction
INVARIANTS
  TypeOK
  NothingForgotten
  RetriesCounted
PROPERTIES
  DroppedWhenDone
  IsReplica
  CatchesUp
CHECK_DEADLOCK FALSE
