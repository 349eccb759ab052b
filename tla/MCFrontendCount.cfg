SPECIFICATION Spec
CONSTANTS
  t1 = t1
  t2 = t2
  b1 = b1
  b2 = b2
  noBackend = noBackend
  Threads <- MCThreads
  Backends <- MCBackends
  NoBackend <- noBackend
  Throttle = 1
  MaxAnnouncements = 1
  MaxStreamers = 1
INVARIANTS
  CountIsExact
