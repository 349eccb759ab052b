SPECIFICATION Spec
CONSTANTS
  t1 = t1
  t2 = t2
  t3 = t3
  noThread = noThread
  noDeadline = noDeadline
  Threads <- MCThreads
  NoThread <- noThread
  NoDeadline <- noDeadline
  MaxTime = 2
  MaxCommands = 2
PROPERTIES
  PauseStands
