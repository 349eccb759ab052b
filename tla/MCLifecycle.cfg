SPECIFICATION FairSpec
CONSTANTS
  r1 = r1
  r2 = r2
  w1 = w1
  w2 = w2
  Requests <- MCRequests
  PoolThreads <- MCPoolThreads
  Silent <- MCSilent
CHECK_DEADLOCK FALSE
INVARIANTS
  TypeOK
  HandlersFindMembers
  NoThreadWithoutProxy
  StalledByOwnException
  OneHandlerEach
  LeftToThePool
PROPERTIES
  ShutdownReturns
  HandlersServed
  ImplementsAccounting
