SPECIFICATION FairSpec
CONSTANTS
  b1 = b1
  b2 = b2
  b3 = b3
  p = p
  q = q
  x = x
  y = y
  noProducer = noProducer
  Backends <- MCBackends
  Records <- MCRecords
  Requests <- MCRequests
  NoProducer <- noProducer
INVARIANTS
  TypeOK
  SummaryIsCommon
  AgreementIsKept
PROPERTIES
  SummaryGiven
