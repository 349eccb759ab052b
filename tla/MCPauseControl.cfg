SPECIFICATION FairSpec
CONSTANTS
  t1 = t1
  t2 = t2
  t3 = t3
  noThread = noThread
  noDeadline = noDeadline
  Threads <- MCThreads
  NoThread <- noThread
  NoDeadline <- noDeadline
  MaxTime = 2
  MaxCommands = 2
INVARIANTS
  TypeOK
  AnswersTrue
PROPERTIES
  Resumes
  ImplementsPause
