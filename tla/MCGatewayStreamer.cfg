SPECIFICATION FairSpec
CONSTANTS
  e1 = e1
  e2 = e2
  noEtag = noEtag
  noBuffer = noBuffer
  Bytes <- MCBytes
  ETags <- MCETags
  NoETag <- noEtag
  Encodings <- MCEncodings
  Identity = ""
  CacheReplies <- MCCacheReplies
  ContentReplies <- MCContentReplies
  DenialLines <- MCDenialLines
  CachedHead <- MCCachedHead
  NoBuffer <- noBuffer
  SocketBuffer = 2
  MaxBuffer = 2
  MaxCached = 2
CHECK_DEADLOCK FALSE
INVARIANTS
  TypeOK
  OneReader
  NotForgotten
  ChargedOnce
  OneRepresentation
  CacheHoldsBodies
  BuffersBounded
  EndReportedLast
PROPERTIES
  EndIsFinal
  StoredAsReceived
  ImplementsStream
  ImplementsAccounting
  ClientServed
  ResourcesReleased
