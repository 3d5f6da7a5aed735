SPECIFICATION FairSpec
CHECK_DEADLOCK FALSE
CONSTANTS
  a = a
  b = b
  s1 = s1
  s2 = s2
  k1 = k1
  k2 = k2
  NoSource = NoSource
  Contexts = {a, b}
  MaxTx = 2
  MaxDepth = 2
  Sources = {s1, s2}
  Conns = {k1, k2}
  PoolOf <- OnePool
INVARIANTS
  TypeOK
  ConnectionsAccounted
  CommittedPrefix
  VerdictTrue
PROPERTIES
  MarkedNeverCommits
  EveryTxEnds
