SPECIFICATION FairSpec
CONSTANTS
  c1 = c1
  c2 = c2
  Clients = {c1, c2}
  NumThreads = 3
  FailingThreads = {0, 2}
  MaxRects = 3
INVARIANTS StreamsNotShared ClientOutlivesWorkers
PROPERTIES EncodesSequentially ServerReturns
