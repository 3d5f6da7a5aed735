SPECIFICATION Spec
CHECK_DEADLOCK FALSE
CONSTANTS
  w1 = w1
  w2 = w2
  w3 = w3
  o1 = o1
  o2 = o2
  f1 = f1
  f2 = f2
  f3 = f3
  c1 = c1
  c2 = c2
  c3 = c3
  c4 = c4
  c5 = c5
  Main = Main
  NoFuture = NoFuture
  Home = w1
  Workers = {w1, w2}
  Outsiders = {o1, o2}
  Calls = {f1, f2, f3}
  Conts = {c1, c2, c3}
  Same = {}
  Slow = FALSE
  QueueLimit = 4
  On <- FanOn
  By <- FanBy
  Waits <- FanWaits
INVARIANTS
  NotReentrant
