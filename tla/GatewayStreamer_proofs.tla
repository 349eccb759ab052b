------------------------ MODULE GatewayStreamer_proofs ------------------------
(***************************************************************************)
(* Theorems about GatewayStreamer, for every set of replies, every size of *)
(* the buffers and every interleaving.                                     *)
(*                                                                         *)
(* The inductive invariant has three parts.  Control relates the threads:  *)
(* who may start a read, when the mutex is held, what the server has been  *)
(* told and what the backend has been charged.  Data relates the buffers   *)
(* to the bytes read from the connection in each phase of the exchange.    *)
(* Both need TypeOK, and TypeOK needs Data: what is stored in the cache    *)
(* goes under the ETag that the copy was made for.                         *)
(***************************************************************************)
EXTENDS GatewayStreamer, SequenceTheorems, TLAPS

Before == {"start", "connect", "listen"}

Control ==
  /\ OneReader
  /\ reads # <<>> => io = "idle" /\ socket = "open"
  /\ io = "connecting" => itsGatewayStatus = "ONGOING" /\ ~itsBackendBufferFull
                          /\ reads = <<>>
  /\ itsBackendBufferFull => itsGatewayStatus = "ONGOING" /\ io = "idle" /\ socket = "open"
  /\ server \in Before =>
       /\ reads = <<>> /\ io = "idle" /\ ~itsBackendBufferFull
       /\ itsGatewayStatus = "ONGOING" /\ ~itsFinishing
  /\ server \in {"start", "connect"} => timer = "idle"
  /\ server = "listen" => socket = "open"
  /\ proxyStatus = "FAIL_REMOTE_HOST" => server = "gone"
  /\ ChargedOnce
  /\ NotForgotten
  /\ EndReportedLast

NothingRead ==
  /\ wire = <<>> /\ itsResponseHeaderBuffer = <<>> /\ itsClientDataBuffer = <<>>
  /\ delivered = <<>> /\ itsCachedContent = <<>>

(* The copy for the cache is the body read so far. *)
CopyOfBody ==
  /\ reply \in ContentReplies /\ reply.storable /\ reply.etag # NoETag
  /\ itsBackendMetadata = [etag |-> reply.etag, enc |-> reply.enc]
  /\ reply.head <= Len(wire)
  /\ itsCachedContent = SubSeq(reply.bytes, reply.head + 1, Len(wire))

ReadingHeaders ==
  reads \in {<<"readCacheResponse">>, <<"readDataResponseHeaders">>}

Data ==
  /\ IsPrefixOf(wire, reply.bytes)
  /\ server \in Before \/ io = "connecting" => NothingRead
  /\ ReadingHeaders =>
       /\ itsResponseHeaderBuffer = wire /\ Len(wire) < reply.head
       /\ itsClientDataBuffer = <<>> /\ delivered = <<>> /\ itsCachedContent = <<>>
  /\ reads = <<"readDataResponseHeaders">> => reply \in ContentReplies
  /\ reads = <<"readDataResponse">> \/ itsBackendBufferFull =>
       /\ Out = wire
       /\ itsResponseIsCacheable => CopyOfBody
  /\ reads = <<"readDataResponse">> =>
       \/ Len(itsClientDataBuffer) <= MaxBuffer
       \/ Len(itsClientDataBuffer) <= Len(itsResponseHeaderBuffer)
  /\ OneRepresentation
  /\ CacheHoldsBodies
  /\ BuffersBounded

IInv == TypeOK /\ Control /\ Data

-----------------------------------------------------------------------------
(* Queues of at most one read.                                             *)

LEMMA Singleton ==
  ASSUME NEW h \in Handlers
  PROVE  /\ <<h>> \in Seq(Handlers) /\ <<h>> # <<>> /\ Len(<<h>>) = 1
         /\ Append(<<>>, h) = <<h>>
  OBVIOUS

(* With one reader, the pending read is the whole queue, and a handler     *)
(* that starts the next read leaves that one only.                         *)
LEMMA OneRead ==
  ASSUME TypeOK, OneReader, reads # <<>>
  PROVE  /\ Head(reads) \in Handlers /\ reads = <<Head(reads)>>
         /\ Tail(reads) = <<>>
         /\ \A h \in Handlers : Append(Tail(reads), h) = <<h>>
<1>1. reads \in Seq(Handlers) /\ Len(reads) <= 1
  BY DEF TypeOK, OneReader
<1>5. Len(reads) \in Nat \ {0}
  BY <1>1, EmptySeq
<1>6. Len(reads) = 1
  BY <1>1, <1>5
<1>2. Head(reads) \in Handlers /\ Tail(reads) \in Seq(Handlers) /\ Len(Tail(reads)) = 0
  BY <1>1, <1>6, HeadTailProperties
<1>3. Tail(reads) = <<>>
  BY <1>2, EmptySeq
<1>4. reads = <<Head(reads)>>
  BY <1>1, <1>6, LenProperties
<1> QED  BY <1>2, <1>3, <1>4, Singleton

-----------------------------------------------------------------------------
(* A step that updates the account leaves it right.                        *)
LEMMA AccountStep ==
  ASSUME ChargedOnce, Alive, itsFinishing \in BOOLEAN,
         NEW finishing \in BOOLEAN, Account(finishing)
  PROVE  ChargedOnce'
  BY DEF ChargedOnce, Account

-----------------------------------------------------------------------------
(* Control is preserved.                                                   *)

LEMMA ControlServerThread ==
  ASSUME TypeOK, Control, ServerThread \/ ClientDisconnects
  PROVE  Control'
<1>1. CASE Create
  BY <1>1 DEF Create, Control, OneReader, ChargedOnce, NotForgotten, EndReportedLast,
     Before, Alive, flagVars, bufferVars, TypeOK
<1>2. CASE SendAndListenFails
  <2>1. Alive /\ ChargedOnce /\ itsFinishing \in BOOLEAN
    BY <1>2 DEF SendAndListenFails, Alive, Control, TypeOK
  <2>2. ChargedOnce'
    BY <1>2, <2>1, AccountStep DEF SendAndListenFails
  <2> QED
    BY <1>2, <2>2 DEF SendAndListenFails, Control, OneReader, NotForgotten,
       EndReportedLast, Before, flagVars, bufferVars
<1>3. CASE SendAndListenStartsTimer
  BY <1>3 DEF SendAndListenStartsTimer, Control, OneReader, ChargedOnce, NotForgotten,
     EndReportedLast, Before, Alive, flagVars, bufferVars, countVars
<1>4. CASE SendAndListenReads
  <2>1. reads = <<>> /\ reads' = <<"readCacheResponse">> /\ Len(reads') = 1
        /\ socket = "open"
    BY <1>4, Singleton DEF SendAndListenReads, Control, Before, Handlers
  <2> QED
    BY <1>4, <2>1 DEF SendAndListenReads, Control, OneReader, ChargedOnce, NotForgotten,
       EndReportedLast, Before, Alive, flagVars, bufferVars, countVars, connVars
<1>5. CASE PeekSleeps \/ GetChunkSleeps
  BY <1>5 DEF PeekSleeps, GetChunkSleeps, Sleep, MutexFree, Control, OneReader,
     ChargedOnce, NotForgotten, EndReportedLast, Before, Alive, flagVars, bufferVars,
     countVars, connVars
<1>6. CASE PeekReturns
  <2>1. Alive /\ ChargedOnce /\ itsFinishing \in BOOLEAN
    BY <1>6 DEF PeekReturns, Alive, Control, TypeOK
  <2>2. ChargedOnce'
    BY <1>6, <2>1, AccountStep DEF PeekReturns
  <2> QED
    BY <1>6, <2>2 DEF PeekReturns, MutexFree, Control, OneReader, NotForgotten,
       EndReportedLast, StatusSeen, NothingYet, Before, flagVars, bufferVars, connVars,
       TypeOK
<1>7. CASE GetChunkReturns
  <2>1. CASE itsBackendBufferFull
    <3>1. reads = <<>> /\ reads' = <<"readDataResponse">> /\ Len(reads') = 1
      BY <1>7, <2>1, Singleton DEF GetChunkReturns, ResumeReading, Control, OneReader,
         Handlers
    <3>2. /\ io = "idle" /\ itsGatewayStatus = "ONGOING" /\ socket = "open"
          /\ server \in {"stream", "chunkSleep"} /\ server' = "stream"
          /\ itsBackendBufferFull' = FALSE
          /\ itsClientDataBuffer' = <<>>
          /\ UNCHANGED <<proxyStatus, itsGatewayStatus, itsFinishing, active, io, socket>>
      BY <1>7, <2>1 DEF GetChunkReturns, TakeClientData, Control, Before, countVars,
         connVars
    <3>3. streamerStatus' = streamerStatus
      BY <1>7, <3>2 DEF GetChunkReturns, StatusSeen, NothingYet
    <3> QED
      BY <2>1, <3>1, <3>2, <3>3 DEF Control, OneReader,
         ChargedOnce, NotForgotten, EndReportedLast, Before, Alive
  <2>2. CASE ~itsBackendBufferFull
    BY <1>7, <2>2 DEF GetChunkReturns, ResumeReading,
         TakeClientData, StatusSeen, NothingYet, MutexFree, Control, OneReader,
         ChargedOnce, NotForgotten, EndReportedLast, Before, Alive, countVars,
         connVars, TypeOK
  <2> QED  BY <2>1, <2>2
<1>8. CASE StreamEnds \/ ClientDisconnects
  <2>1. Alive /\ ChargedOnce /\ itsFinishing \in BOOLEAN
    BY <1>8 DEF StreamEnds, ClientDisconnects, DropStreamer, Alive, Control, TypeOK
  <2>2. ChargedOnce'
    BY <1>8, <2>1, AccountStep DEF StreamEnds, ClientDisconnects, DropStreamer
  <2>3. /\ server = "stream" /\ server' = "gone"
        /\ UNCHANGED <<proxyStatus, streamerStatus, flagVars, bufferVars, reads, io, socket>>
    BY <1>8 DEF StreamEnds, ClientDisconnects, DropStreamer, connVars
  <2> QED
    BY <2>2, <2>3 DEF Control, OneReader, NotForgotten, EndReportedLast, Before,
       flagVars, bufferVars
<1> QED
  BY <1>1, <1>2, <1>3, <1>4, <1>5, <1>6, <1>7, <1>8
     DEF ServerThread, SendAndListen, Peek, GetChunk

LEMMA ControlPool ==
  ASSUME TypeOK, Control, ReadCompletes \/ ContentRequest
  PROVE  Control'
<1> USE DEF Handlers
<1>1. ASSUME NEW chunk, NEW h \in {"readCacheResponse", "readDataResponseHeaders"},
             ReadHeadersIncomplete(h, chunk)
      PROVE  Control'
  <2>1. reads # <<>> /\ OneReader
    BY <1>1 DEF ReadHeadersIncomplete, Receive, Control
  <2>2. reads' = <<h>> /\ reads' # <<>> /\ Len(reads') = 1
    BY <1>1, <2>1, OneRead, Singleton DEF ReadHeadersIncomplete, ReadOn
  <2> QED
    BY <1>1, <2>1, <2>2 DEF ReadHeadersIncomplete, Receive, MutexFree, Control, OneReader,
       ChargedOnce, NotForgotten, EndReportedLast, Before, Alive, serverVars, flagVars,
       countVars
<1>2. ASSUME NEW chunk, NEW h \in {"readCacheResponse", "readDataResponseHeaders"},
             ReadHeadersFailed(h, chunk)
      PROVE  Control'
  <2>1. reads # <<>> /\ OneReader /\ Alive /\ ChargedOnce /\ itsFinishing \in BOOLEAN
    BY <1>2 DEF ReadHeadersFailed, Receive, Control, Alive, TypeOK
  <2>2. reads' = <<>> /\ Len(reads') = 0
    BY <1>2, <2>1, OneRead, EmptySeq DEF ReadHeadersFailed
  <2>3. ChargedOnce'
    BY <1>2, <2>1, AccountStep DEF ReadHeadersFailed
  <2> QED
    BY <1>2, <2>1, <2>2, <2>3 DEF ReadHeadersFailed, Receive, MutexFree, Control,
       OneReader, NotForgotten, EndReportedLast, Before, serverVars
<1>3. ASSUME NEW chunk, ReadCachePassThrough(chunk)  PROVE Control'
  <2>1. reads # <<>> /\ OneReader /\ Alive /\ ChargedOnce /\ itsFinishing \in BOOLEAN
    BY <1>3 DEF ReadCachePassThrough, HeadersComplete, Receive, Control, Alive, TypeOK
  <2>2. reads' = <<"readDataResponse">> /\ reads' # <<>> /\ Len(reads') = 1
    BY <1>3, <2>1, OneRead, Singleton DEF ReadCachePassThrough, ReadOn
  <2>3. ChargedOnce'
    BY <1>3, <2>1, AccountStep DEF ReadCachePassThrough
  <2> QED
    BY <1>3, <2>1, <2>2, <2>3 DEF ReadCachePassThrough, HeadersComplete, Receive,
       MutexFree, Control, OneReader, NotForgotten, EndReportedLast, Before, serverVars
<1>4. ASSUME NEW chunk, ReadCacheHit(chunk)  PROVE Control'
  <2>1. reads # <<>> /\ OneReader /\ Alive /\ ChargedOnce /\ itsFinishing \in BOOLEAN
    BY <1>4 DEF ReadCacheHit, HeadersComplete, Receive, Control, Alive, TypeOK
  <2>2. reads' = <<>> /\ Len(reads') = 0
    BY <1>4, <2>1, OneRead, EmptySeq DEF ReadCacheHit
  <2>3. ChargedOnce'
    BY <1>4, <2>1, AccountStep DEF ReadCacheHit
  <2> QED
    BY <1>4, <2>1, <2>2, <2>3 DEF ReadCacheHit, HeadersComplete, Receive, MutexFree,
       Control, OneReader, NotForgotten, EndReportedLast, Before, serverVars
<1>5. ASSUME NEW chunk, ReadCacheMiss(chunk)  PROVE Control'
  <2>1. reads # <<>> /\ OneReader
    BY <1>5 DEF ReadCacheMiss, Control
  <2>2. reads' = <<>> /\ Len(reads') = 0
    BY <1>5, <2>1, OneRead, EmptySeq DEF ReadCacheMiss
  <2> QED
    BY <1>5, <2>1, <2>2 DEF ReadCacheMiss, ClearBuffers, MutexFree, Control, OneReader,
       ChargedOnce, NotForgotten, EndReportedLast, Before, Alive, serverVars, flagVars,
       countVars
<1>6. ASSUME NEW chunk, ReadDataHeadersComplete(chunk)  PROVE Control'
  <2>1. reads # <<>> /\ OneReader
    BY <1>6 DEF ReadDataHeadersComplete, HeadersComplete, Receive, Control
  <2>2. reads' = <<"readDataResponse">> /\ reads' # <<>> /\ Len(reads') = 1
    BY <1>6, <2>1, OneRead, Singleton DEF ReadDataHeadersComplete, ReadOn
  <2> QED
    BY <1>6, <2>1, <2>2 DEF ReadDataHeadersComplete, HeadersComplete, Receive, MutexFree,
       Control, OneReader, ChargedOnce, NotForgotten, EndReportedLast, Before, Alive,
       serverVars, countVars
<1>7. ASSUME NEW chunk, ReadData(chunk)  PROVE Control'
  <2>1. reads # <<>> /\ OneReader /\ Alive /\ ChargedOnce /\ itsFinishing \in BOOLEAN
    BY <1>7 DEF ReadData, Receive, Control, Alive, TypeOK
  <2>2. /\ Len(reads') <= 1
        /\ \/ reads' = <<>> /\ itsBackendBufferFull' = TRUE
           \/ reads' # <<>> /\ itsBackendBufferFull' = itsBackendBufferFull
    BY <1>7, <2>1, OneRead, Singleton, EmptySeq DEF ReadData, ReadOnOrSuspend, ReadOn
  <2>3. ChargedOnce'
    BY <1>7, <2>1, AccountStep DEF ReadData
  <2>4. itsGatewayStatus = "ONGOING" /\ streamerStatus = "OK"
    BY <2>1 DEF OneReader, Control, EndReportedLast, TypeOK
  <2> QED
    BY <1>7, <2>1, <2>2, <2>3, <2>4 DEF ReadData, Receive, MutexFree, Control,
       OneReader, NotForgotten, EndReportedLast, Before, serverVars
<1>8. CASE ReadError
  <2>1. reads # <<>> /\ OneReader /\ Alive /\ ChargedOnce /\ itsFinishing \in BOOLEAN
    BY <1>8 DEF ReadError, Control, Alive, TypeOK
  <2>2. reads' = <<>> /\ Len(reads') = 0
    BY <1>8, <2>1, OneRead, EmptySeq DEF ReadError
  <2>3. ChargedOnce'
    BY <1>8, <2>1, AccountStep DEF ReadError
  <2>4. itsGatewayStatus' \in {"FINISHED", "FAILED"} /\ streamerStatus = "OK"
    BY <1>8, <2>1 DEF ReadError, HandleError, SocketErrors, OneReader, Control,
       EndReportedLast, TypeOK
  <2> QED
    BY <1>8, <2>1, <2>2, <2>3, <2>4 DEF ReadError, MutexFree, Control, OneReader,
       NotForgotten, EndReportedLast, Before, serverVars
<1>9. CASE ContentRequestFails
  <2>1. Alive /\ ChargedOnce /\ itsFinishing \in BOOLEAN
    BY <1>9 DEF ContentRequestFails, Control, Alive, TypeOK
  <2>2. ChargedOnce'
    BY <1>9, <2>1, AccountStep DEF ContentRequestFails
  <2> QED
    BY <1>9, <2>1, <2>2 DEF ContentRequestFails, Control, OneReader, NotForgotten,
       EndReportedLast, Before, serverVars, bufferVars, connVars, TypeOK
<1>10. CASE ContentRequestSent
  <2>1. /\ reads = <<>> /\ reads' = <<"readDataResponseHeaders">> /\ reads' # <<>>
        /\ Len(reads') = 1
    BY <1>10, Singleton DEF ContentRequestSent, Control
  <2> QED
    BY <1>10, <2>1 DEF ContentRequestSent, Control, OneReader, ChargedOnce, NotForgotten,
       EndReportedLast, Before, Alive, serverVars, flagVars, bufferVars, countVars
<1> QED
  BY <1>1, <1>2, <1>3, <1>4, <1>5, <1>6, <1>7, <1>8, <1>9, <1>10
     DEF ReadCompletes, ReadChunk, ReadHeaders, ContentRequest

LEMMA ControlRest ==
  ASSUME TypeOK, Control, Timer \/ OthersStore \/ CacheEvicts
  PROVE  Control'
<1>1. CASE TimerExpires
  BY <1>1 DEF TimerExpires, Control, OneReader, ChargedOnce, NotForgotten,
     EndReportedLast, Before, Alive, serverVars, flagVars, bufferVars, countVars, connVars
<1>2. CASE HandleTimeout
  <2>1. Alive /\ ChargedOnce /\ itsFinishing \in BOOLEAN
    BY <1>2 DEF HandleTimeout, TimedOut, Control, Alive, TypeOK
  <2>2. ChargedOnce'
    BY <1>2, <2>1, AccountStep DEF HandleTimeout
  <2> QED
    BY <1>2, <2>2 DEF HandleTimeout, TimedOut, Control, OneReader, NotForgotten,
       EndReportedLast, Before, serverVars, bufferVars, connVars, Account
<1>3. CASE OthersStore \/ CacheEvicts
  BY <1>3 DEF OthersStore, CacheEvicts, Control, OneReader, ChargedOnce, NotForgotten,
     EndReportedLast, Before, Alive, serverVars, flagVars, bufferVars, countVars, connVars
<1> QED  BY <1>1, <1>2, <1>3 DEF Timer

LEMMA ControlStep ==
  ASSUME TypeOK, Control, [Next]_vars
  PROVE  Control'
<1>1. CASE Next
  BY <1>1, ControlServerThread, ControlPool, ControlRest DEF Next
<1>2. CASE UNCHANGED vars
  BY <1>2 DEF vars, Control, OneReader, ChargedOnce, NotForgotten,
     EndReportedLast, Before, Alive, serverVars, flagVars, bufferVars, countVars, connVars
<1> QED  BY <1>1, <1>2

-----------------------------------------------------------------------------
(* Replies, chunks and prefixes.                                           *)

LEMMA ReplyFacts ==
  ASSUME NEW r \in CacheReplies \cup ContentReplies
  PROVE  /\ r.bytes \in Seq(Bytes) /\ Len(r.bytes) \in Nat
         /\ r.head \in Nat \ {0} /\ r.head <= Len(r.bytes)
         /\ r.etag \in ETags \cup {NoETag} /\ r.enc \in Encodings
         /\ r.storable \in BOOLEAN
<1>1. r \in Replies /\ r.head <= Len(r.bytes)
  BY RepliesAssumption
<1>2. r.bytes \in Seq(Bytes)
  BY <1>1 DEF Replies
<1>3. Len(r.bytes) \in Nat
  BY <1>2, LenProperties
<1> QED  BY <1>1, <1>2, <1>3 DEF Replies

(* A part of a sequence is a sequence of the same elements. *)
LEMMA PartOfSeq ==
  ASSUME NEW b \in Seq(Bytes), NEW m \in Nat \ {0}, NEW n \in Nat, n <= Len(b)
  PROVE  /\ SubSeq(b, m, n) \in Seq(Bytes)
         /\ Len(SubSeq(b, m, n)) = IF m <= n THEN n - m + 1 ELSE 0
<1>1. \A i \in m..n : b[i] \in Bytes
  BY ElementOfSeq, LenProperties
<1>2. m \in Int /\ n \in Int
  OBVIOUS
<1> QED  BY <1>1, <1>2, SubSeqProperties

(* The next bytes of b after its prefix s make a longer prefix. *)
LEMMA PrefixExtended ==
  ASSUME NEW b \in Seq(Bytes), NEW s \in Seq(Bytes), IsPrefixOf(s, b),
         NEW n \in Nat, Len(s) <= n, n <= Len(b)
  PROVE  /\ s \o SubSeq(b, Len(s) + 1, n) = SubSeq(b, 1, n)
         /\ Len(SubSeq(b, 1, n)) = n
         /\ IsPrefixOf(s \o SubSeq(b, Len(s) + 1, n), b)
<1>1. Len(s) \in Nat /\ Len(b) \in Nat
  BY LenProperties
<1>2. SubSeq(b, 1, Len(s)) \o SubSeq(b, Len(s) + 1, n) = SubSeq(b, 1, n)
  <2>1. 1 \in 1..Len(b) + 1 /\ Len(s) \in 1 - 1..Len(b) /\ n \in Len(s)..Len(b)
    BY <1>1
  <2> QED  BY <2>1, ConcatAdjacentSubSeq
<1>3. s \o SubSeq(b, Len(s) + 1, n) = SubSeq(b, 1, n)
  BY <1>2 DEF IsPrefixOf
<1>4. Len(SubSeq(b, 1, n)) = n
  BY PartOfSeq
<1> QED  BY <1>3, <1>4 DEF IsPrefixOf

LEMMA ChunkFacts ==
  ASSUME TypeOK, IsPrefixOf(wire, reply.bytes), NEW chunk \in Chunks
  PROVE  /\ chunk \in Seq(Bytes) /\ Len(chunk) \in 1..SocketBuffer
         /\ wire \o chunk \in Seq(Bytes)
         /\ Len(wire \o chunk) = Len(wire) + Len(chunk)
         /\ chunk = SubSeq(reply.bytes, Len(wire) + 1, Len(wire \o chunk))
         /\ IsPrefixOf(wire \o chunk, reply.bytes)
<1>1. reply.bytes \in Seq(Bytes) /\ Len(reply.bytes) \in Nat
      /\ wire \in Seq(Bytes) /\ Len(wire) \in Nat /\ SocketBuffer \in Nat \ {0}
  BY ReplyFacts, LenProperties, SizesAssumption DEF TypeOK
<1>2. PICK n \in (Len(wire) + 1)..Len(reply.bytes) :
        n <= Len(wire) + SocketBuffer /\ chunk = SubSeq(reply.bytes, Len(wire) + 1, n)
  BY DEF Chunks
<1>3. chunk \in Seq(Bytes) /\ Len(chunk) = n - Len(wire)
  BY <1>1, <1>2, PartOfSeq
<1>4. wire \o chunk \in Seq(Bytes) /\ Len(wire \o chunk) = n
  BY <1>1, <1>3, ConcatProperties
<1>5. IsPrefixOf(wire \o chunk, reply.bytes)
  BY <1>1, <1>2, PrefixExtended
<1> QED  BY <1>1, <1>2, <1>3, <1>4, <1>5

(* A response built from the cache: one header unit, then the body. *)
LEMMA HeadThenBody ==
  ASSUME NEW x \in Bytes, NEW b \in Seq(Bytes)
  PROVE  /\ <<x>> \in Seq(Bytes) /\ Len(<<x>>) = 1 /\ <<x>>[1] = x
         /\ <<x>> \o b \in Seq(Bytes) /\ <<x>> \o b # <<>>
         /\ (<<x>> \o b)[1] = x /\ Tail(<<x>> \o b) = b
<1>1. <<x>> \in Seq(Bytes) /\ Len(<<x>>) = 1 /\ <<x>>[1] = x
  OBVIOUS
<1>2. /\ <<x>> \o b \in Seq(Bytes) /\ Len(<<x>> \o b) = 1 + Len(b)
      /\ \A i \in 1..1 + Len(b) :
           (<<x>> \o b)[i] = IF i <= 1 THEN <<x>>[i] ELSE b[i - 1]
  BY <1>1, ConcatProperties
<1>3. Len(b) \in Nat
  BY LenProperties
<1>4. <<x>> \o b # <<>> /\ (<<x>> \o b)[1] = x
  BY <1>1, <1>2, <1>3, EmptySeq
<1>5. /\ Tail(<<x>> \o b) \in Seq(Bytes) /\ Len(Tail(<<x>> \o b)) = Len(b)
      /\ \A i \in 1..Len(b) : Tail(<<x>> \o b)[i] = (<<x>> \o b)[i + 1]
  BY <1>2, <1>3, <1>4, HeadTailProperties
<1>6. \A i \in 1..Len(b) : Tail(<<x>> \o b)[i] = b[i]
  BY <1>2, <1>3, <1>5
<1>7. Tail(<<x>> \o b) = b
  BY <1>5, <1>6, SeqEqual
<1> QED  BY <1>1, <1>2, <1>4, <1>7

LEMMA LookupFacts ==
  ASSUME TypeOK, reply.etag # NoETag
  PROVE  \E enc \in {request.accepts, Identity} :
           /\ <<reply.etag, enc>> \in Keys
           /\ CacheLookup(reply.etag) = cache[<<reply.etag, enc>>]
  BY ReplyFacts, ValuesAssumption DEF TypeOK, CacheLookup, Keys, Requests

-----------------------------------------------------------------------------
(* TypeOK is preserved.  The account is always 0 or 1 because it is right. *)

LEMMA AccountType ==
  ASSUME ChargedOnce'
  PROVE  active' \in {0, 1}
  BY DEF ChargedOnce

LEMMA FinishingType ==
  ASSUME itsFinishing \in BOOLEAN, NEW finishing \in BOOLEAN, Account(finishing)
  PROVE  itsFinishing' \in BOOLEAN
  BY DEF Account

LEMMA CancelledType ==
  ASSUME NEW t \in {"idle", "waiting", "expired", "aborted"}
  PROVE  Cancelled(t) \in {"idle", "waiting", "expired", "aborted"}
  BY DEF Cancelled

LEMMA TypeServerThread ==
  ASSUME TypeOK, Control, Data, ServerThread \/ ClientDisconnects
  PROVE  TypeOK'
<1>0. active' \in {0, 1} /\ reads \in Seq(Handlers) /\ itsFinishing \in BOOLEAN
  BY AccountType, ControlServerThread DEF Control, TypeOK
<1>1. CASE Create
  BY <1>0, <1>1 DEF Create, TypeOK, flagVars, bufferVars, connVars
<1>2. CASE SendAndListenFails
  <2>1. itsFinishing' \in BOOLEAN
    BY <1>0, <1>2, FinishingType DEF SendAndListenFails
  <2> QED
    BY <1>0, <1>2, <2>1 DEF SendAndListenFails, TypeOK, flagVars, bufferVars, connVars
<1>3. CASE SendAndListenStartsTimer
  BY <1>3 DEF SendAndListenStartsTimer, TypeOK, flagVars, bufferVars, countVars
<1>4. CASE SendAndListenReads
  <2>1. reads' \in Seq(Handlers)
    BY <1>0, <1>4, AppendProperties DEF SendAndListenReads, Handlers
  <2> QED
    BY <1>4, <2>1 DEF SendAndListenReads, TypeOK, flagVars, bufferVars, countVars, connVars
<1>5. CASE PeekSleeps \/ GetChunkSleeps
  BY <1>5 DEF PeekSleeps, GetChunkSleeps, Sleep, TypeOK, flagVars, bufferVars, countVars,
     connVars
<1>6. CASE PeekReturns
  <2>1. itsFinishing' \in BOOLEAN
    BY <1>0, <1>6, FinishingType DEF PeekReturns
  <2>2. streamerStatus' \in {"OK", "EXIT_OK", "EXIT_ERROR"}
    BY <1>6 DEF PeekReturns, StatusSeen, TypeOK
  <2>3. /\ server' \in {"gone", "stream"}
        /\ proxyStatus' \in {"FAIL_REMOTE_DENIED", "SUCCESS"}
        /\ UNCHANGED <<delivered, request, flagVars, bufferVars, reads, timer, io,
                       connVars, cache>>
    BY <1>6 DEF PeekReturns
  <2> QED
    BY <1>0, <2>1, <2>2, <2>3 DEF TypeOK, flagVars, bufferVars, connVars
<1>7. CASE GetChunkReturns
  <2>1. reads' \in Seq(Handlers)
    BY <1>0, <1>7, AppendProperties DEF GetChunkReturns, ResumeReading, Handlers
  <2>4. timer' \in {"idle", "waiting", "expired", "aborted"}
    BY <1>7, CancelledType DEF GetChunkReturns, ResumeReading, TypeOK
  <2>2. delivered' \in Seq(Bytes) /\ itsClientDataBuffer' \in Seq(Bytes)
    BY <1>7, ConcatProperties, EmptySeq DEF GetChunkReturns, TakeClientData, TypeOK
  <2>3. streamerStatus' \in {"OK", "EXIT_OK", "EXIT_ERROR"}
    BY <1>7 DEF GetChunkReturns, StatusSeen, TypeOK
  <2>5. /\ server' = "stream" /\ itsBackendBufferFull' = FALSE
        /\ UNCHANGED <<proxyStatus, request, itsGatewayStatus, itsResponseIsCacheable,
                       itsHasTimedOut, itsResponseHeaderBuffer, itsCachedContent,
                       itsBackendMetadata, countVars, io, connVars, cache>>
    BY <1>7 DEF GetChunkReturns
  <2>6. /\ server' \in {"start", "connect", "listen", "peek", "peekSleep", "stream",
                       "chunkSleep", "gone"}
        /\ itsBackendBufferFull' \in BOOLEAN
        /\ proxyStatus' = proxyStatus /\ request' = request
        /\ itsGatewayStatus' = itsGatewayStatus
        /\ itsResponseIsCacheable' = itsResponseIsCacheable
        /\ itsHasTimedOut' = itsHasTimedOut /\ itsFinishing' = itsFinishing
        /\ itsResponseHeaderBuffer' = itsResponseHeaderBuffer
        /\ itsCachedContent' = itsCachedContent
        /\ itsBackendMetadata' = itsBackendMetadata
        /\ io' = io /\ socket' = socket /\ reply' = reply /\ wire' = wire
        /\ cache' = cache
    BY <2>5 DEF countVars, connVars
  <2> QED
    BY <1>0, <2>1, <2>2, <2>3, <2>4, <2>6 DEF TypeOK
<1>8. CASE StreamEnds \/ ClientDisconnects
  <2>1. DropStreamer
    BY <1>8 DEF StreamEnds, ClientDisconnects
  <2>2. itsFinishing' \in BOOLEAN
    BY <1>0, <2>1, FinishingType DEF DropStreamer
  <2> QED
    BY <1>0, <2>1, <2>2 DEF DropStreamer, TypeOK, flagVars, bufferVars, connVars
<1> QED
  BY <1>1, <1>2, <1>3, <1>4, <1>5, <1>6, <1>7, <1>8
     DEF ServerThread, SendAndListen, Peek, GetChunk

(* The head of the queue is the handler that runs. *)
LEMMA HandlerRuns ==
  ASSUME TypeOK, Control, NEW h, NEW chunk, Receive(h, chunk)
  PROVE  reads = <<h>> /\ h \in Handlers /\ io = "idle"
  BY OneRead DEF Control, Receive, MutexFree

LEMMA TypePool ==
  ASSUME TypeOK, Control, Data, ReadCompletes \/ ContentRequest
  PROVE  TypeOK'
<1>0. /\ active' \in {0, 1} /\ reads \in Seq(Handlers)
      /\ itsResponseHeaderBuffer \in Seq(Bytes) /\ itsClientDataBuffer \in Seq(Bytes)
      /\ itsCachedContent \in Seq(Bytes) /\ itsFinishing \in BOOLEAN
      /\ Cancelled(timer) \in {"idle", "waiting", "expired", "aborted"}
  BY AccountType, ControlPool, CancelledType DEF Control, TypeOK
<1>1. reads # <<>> => Tail(reads) \in Seq(Handlers)
  BY <1>0, HeadTailProperties
<1>2. reads # <<>> =>
        \A h \in Handlers : ReadOn(h) =>
          reads' \in Seq(Handlers) /\ timer' \in {"idle", "waiting", "expired", "aborted"}
  BY <1>0, <1>1, AppendProperties DEF ReadOn
<1>3. ASSUME NEW chunk \in Chunks, ReadHeaders(chunk)  PROVE TypeOK'
  <2>1. PICK h \in {"readCacheResponse", "readDataResponseHeaders"} :
          ReadHeadersIncomplete(h, chunk) \/ ReadHeadersFailed(h, chunk)
    BY <1>3 DEF ReadHeaders
  <2>2. reads # <<>> /\ wire' \in Seq(Bytes) /\ h \in Handlers
        /\ itsResponseHeaderBuffer \o chunk \in Seq(Bytes)
    BY <2>1, <1>0, ChunkFacts, ConcatProperties DEF ReadHeadersIncomplete,
       ReadHeadersFailed, Receive, Data, Handlers
  <2>3. CASE ReadHeadersIncomplete(h, chunk)
    BY <2>2, <2>3, <1>2 DEF ReadHeadersIncomplete, TypeOK, serverVars, flagVars, countVars
  <2>4. CASE ReadHeadersFailed(h, chunk)
    <3>1. itsFinishing' \in BOOLEAN
      BY <2>4, <1>0, FinishingType DEF ReadHeadersFailed
    <3> QED
      BY <2>2, <2>4, <1>0, <1>1, <3>1 DEF ReadHeadersFailed, TypeOK, serverVars
  <2> QED  BY <2>1, <2>3, <2>4
<1>4. ASSUME NEW chunk \in Chunks, ReadCachePassThrough(chunk)  PROVE TypeOK'
  <2>1. reads # <<>> /\ wire' \in Seq(Bytes)
        /\ itsResponseHeaderBuffer \o chunk \in Seq(Bytes)
    BY <1>0, <1>4, ChunkFacts, ConcatProperties DEF ReadCachePassThrough,
       HeadersComplete, Receive, Data
  <2>2. itsFinishing' \in BOOLEAN
    BY <1>0, <1>4, FinishingType DEF ReadCachePassThrough
  <2>3. reads' \in Seq(Handlers) /\ timer' \in {"idle", "waiting", "expired", "aborted"}
    BY <2>1, <1>2, <1>4 DEF ReadCachePassThrough, Handlers
  <2> QED
    <3>1. /\ itsResponseHeaderBuffer' = itsResponseHeaderBuffer \o chunk
          /\ itsClientDataBuffer' = itsResponseHeaderBuffer \o chunk
          /\ itsResponseIsCacheable' \in BOOLEAN
          /\ UNCHANGED <<serverVars, request, itsGatewayStatus, itsBackendBufferFull,
                         itsHasTimedOut, itsCachedContent, itsBackendMetadata, io,
                         socket, reply, cache>>
      BY <1>4 DEF ReadCachePassThrough
    <3> QED
      BY <2>1, <2>2, <2>3, <1>0, <3>1 DEF TypeOK, serverVars
<1>5. ASSUME NEW chunk \in Chunks, ReadCacheHit(chunk)  PROVE TypeOK'
  <2>1. reads # <<>> /\ wire' \in Seq(Bytes)
        /\ itsResponseHeaderBuffer \o chunk \in Seq(Bytes)
    BY <1>0, <1>5, ChunkFacts, ConcatProperties DEF ReadCacheHit,
       HeadersComplete, Receive, Data
  <2>2. CacheLookup(reply.etag) \in Seq(Bytes)
    BY <1>5, LookupFacts DEF ReadCacheHit, TypeOK
  <2>3. itsClientDataBuffer' \in Seq(Bytes)
    <3>1. itsClientDataBuffer' \in CacheResponses(CacheLookup(reply.etag))
      BY <1>5 DEF ReadCacheHit
    <3>2. /\ <<CachedHead>> \in Seq(Bytes)
          /\ <<CachedHead>> \o CacheLookup(reply.etag) \in Seq(Bytes)
      BY <2>2, HeadThenBody, ValuesAssumption
    <3> QED  BY <3>1, <3>2 DEF CacheResponses
  <2>4. itsFinishing' \in BOOLEAN
    BY <1>0, <1>5, FinishingType DEF ReadCacheHit
  <2> QED
    <3>1. /\ itsResponseHeaderBuffer' = itsResponseHeaderBuffer \o chunk
          /\ itsResponseIsCacheable' \in BOOLEAN /\ itsGatewayStatus' = "FINISHED"
          /\ socket' = "closed" /\ reads' = Tail(reads)
          /\ UNCHANGED <<serverVars, request, itsBackendBufferFull, itsHasTimedOut,
                         itsCachedContent, itsBackendMetadata, timer, io, reply, cache>>
      BY <1>5 DEF ReadCacheHit
    <3> QED
      BY <2>1, <2>3, <2>4, <1>0, <1>1, <3>1 DEF TypeOK, serverVars
<1>6. ASSUME NEW chunk \in Chunks, ReadCacheMiss(chunk)  PROVE TypeOK'
  BY <1>1, <1>6, EmptySeq DEF ReadCacheMiss, ClearBuffers, TypeOK, serverVars, flagVars,
     countVars
<1>7. ASSUME NEW chunk \in Chunks, ReadDataHeadersComplete(chunk)  PROVE TypeOK'
  <2>1. /\ reads = <<"readDataResponseHeaders">> /\ reads # <<>>
        /\ wire' = wire \o chunk /\ wire' \in Seq(Bytes)
        /\ itsResponseHeaderBuffer = wire /\ Len(wire') \in Nat
    BY <1>7, ChunkFacts, HandlerRuns, LenProperties DEF ReadDataHeadersComplete,
       HeadersComplete, Receive, Data, ReadingHeaders
  <2>2. SubSeq(wire', reply.head + 1, Len(wire')) \in Seq(Bytes)
    BY <2>1, PartOfSeq, ReplyFacts DEF TypeOK
  <2>3. itsCachedContent' \in Seq(Bytes) /\ itsResponseIsCacheable' \in BOOLEAN
    BY <1>7, <2>1, <2>2 DEF ReadDataHeadersComplete, TypeOK
  <2>4. itsBackendMetadata' \in [etag : ETags \cup {NoETag}, enc : Encodings]
    <3>1. reply.etag \in ETags \cup {NoETag} /\ reply.enc \in Encodings
      BY ReplyFacts DEF TypeOK
    <3> QED
      BY <1>7, <3>1 DEF ReadDataHeadersComplete, TypeOK
  <2> QED
    BY <2>1, <2>3, <2>4, <1>0, <1>2, <1>7 DEF ReadDataHeadersComplete, TypeOK, serverVars,
       countVars, Handlers
<1>8. ASSUME NEW chunk \in Chunks, ReadData(chunk)  PROVE TypeOK'
  <2>1. reads # <<>> /\ wire' \in Seq(Bytes) /\ chunk \in Seq(Bytes)
    BY <1>8, ChunkFacts DEF ReadData, Receive, Data
  <2>2. itsClientDataBuffer' \in Seq(Bytes) /\ itsCachedContent \o chunk \in Seq(Bytes)
    BY <1>0, <1>8, <2>1, ConcatProperties DEF ReadData
  <2>3. itsCachedContent' \in Seq(Bytes) /\ itsResponseIsCacheable' \in BOOLEAN
    BY <1>8, <2>2, EmptySeq DEF ReadData, CollectForCache, TypeOK
  <2>4. /\ reads' \in Seq(Handlers) /\ timer' \in {"idle", "waiting", "expired", "aborted"}
        /\ itsBackendBufferFull' \in BOOLEAN
    BY <1>0, <1>1, <1>2, <1>8, <2>1 DEF ReadData, ReadOnOrSuspend, Handlers, TypeOK
  <2>5. itsFinishing' \in BOOLEAN
    BY <1>0, <1>8, FinishingType DEF ReadData
  <2> QED
    BY <1>0, <1>8, <2>1, <2>2, <2>3, <2>4, <2>5 DEF ReadData, TypeOK, serverVars
<1>9. CASE ReadError
  <2>1. PICK err \in SocketErrors : HandleError(err)
    BY <1>9 DEF ReadError
  <2>2. itsGatewayStatus' \in {"ONGOING", "FINISHED", "FAILED"}
    BY <2>1 DEF HandleError, TypeOK
  <2>3. cache' \in [Keys -> Seq(Bytes) \cup {NoBuffer}]
    BY <2>1, <1>0 DEF HandleError, InsertCachedBuffer, Kept, TypeOK
  <2>4. timer' \in {"idle", "waiting", "expired", "aborted"}
    BY <2>1, <1>0 DEF HandleError
  <2>5. itsFinishing' \in BOOLEAN /\ reads' \in Seq(Handlers)
    BY <1>0, <1>1, <1>9, FinishingType DEF ReadError
  <2>6. UNCHANGED <<serverVars, request, itsResponseIsCacheable,
                    itsBackendBufferFull, itsHasTimedOut, bufferVars, io, connVars>>
    BY <1>9 DEF ReadError
  <2> QED
    BY <1>0, <2>2, <2>3, <2>4, <2>5, <2>6 DEF TypeOK, serverVars, bufferVars, connVars
<1>10. CASE ContentRequestFails
  <2>1. itsFinishing' \in BOOLEAN
    BY <1>0, <1>10, FinishingType DEF ContentRequestFails
  <2> QED
    BY <1>0, <1>10, <2>1 DEF ContentRequestFails, TypeOK, serverVars, bufferVars, connVars
<1>11. CASE ContentRequestSent
  <2>1. reads' \in Seq(Handlers)
    BY <1>0, <1>11, AppendProperties DEF ContentRequestSent, Handlers
  <2> QED
    BY <1>0, <1>11, <2>1 DEF ContentRequestSent, TypeOK, serverVars, flagVars, bufferVars,
       countVars
<1> QED
  BY <1>3, <1>4, <1>5, <1>6, <1>7, <1>8, <1>9, <1>10, <1>11
     DEF ReadCompletes, ReadChunk, ContentRequest

(* What another request stores is the beginning of a body. *)
LEMMA StoredPart ==
  ASSUME NEW r \in CacheReplies \cup ContentReplies, NEW n \in 1..MaxCached,
         n <= Len(Body(r))
  PROVE  /\ SubSeq(Body(r), 1, n) \in Seq(Bytes)
         /\ IsPrefixOf(SubSeq(Body(r), 1, n), Body(r))
<1>1. Body(r) \in Seq(Bytes)
  BY ReplyFacts, PartOfSeq DEF Body
<1>2. n \in Nat /\ 1 <= n
  BY SizesAssumption
<1>3. /\ SubSeq(Body(r), 1, n) \in Seq(Bytes)
      /\ Len(SubSeq(Body(r), 1, n)) = n
  <2>1. /\ SubSeq(Body(r), 1, n) \in Seq(Bytes)
        /\ Len(SubSeq(Body(r), 1, n)) = IF 1 <= n THEN n - 1 + 1 ELSE 0
    BY <1>1, <1>2, PartOfSeq, 1 \in Nat \ {0}
  <2> QED  BY <2>1, <1>2
<1> QED
  BY <1>2, <1>3 DEF IsPrefixOf

LEMMA TypeRest ==
  ASSUME TypeOK, Control, Data, Timer \/ OthersStore \/ CacheEvicts
  PROVE  TypeOK'
<1>0. active' \in {0, 1} /\ itsFinishing \in BOOLEAN
  BY AccountType, ControlRest DEF Control, TypeOK
<1>1. CASE TimerExpires
  BY <1>1 DEF TimerExpires, TypeOK, serverVars, flagVars, bufferVars, countVars, connVars
<1>2. CASE HandleTimeout
  <2>1. itsFinishing' \in BOOLEAN
    BY <1>0, <1>2, FinishingType DEF HandleTimeout
  <2>2. /\ itsHasTimedOut' \in BOOLEAN /\ itsResponseIsCacheable' \in BOOLEAN
        /\ UNCHANGED itsGatewayStatus
    BY <1>2 DEF HandleTimeout, TimedOut, TypeOK
  <2>3. timer' = "idle" /\ UNCHANGED <<serverVars, request, itsBackendBufferFull,
                                       bufferVars, reads, io, connVars, cache>>
    BY <1>2 DEF HandleTimeout
  <2> QED
    BY <1>0, <2>1, <2>2, <2>3 DEF TypeOK, serverVars, bufferVars, connVars
<1>3. CASE OthersStore
  <2>1. PICK r \in ContentReplies, n \in 1..MaxCached :
          /\ n <= Len(Body(r))
          /\ cache' = [cache EXCEPT ![<<r.etag, r.enc>>] = SubSeq(Body(r), 1, n)]
    BY <1>3 DEF OthersStore
  <2>2. cache' \in [Keys -> Seq(Bytes) \cup {NoBuffer}]
    BY <2>1, StoredPart DEF TypeOK
  <2> QED
    BY <1>3, <2>2 DEF OthersStore, TypeOK, serverVars, flagVars, bufferVars, countVars,
       connVars
<1>4. CASE CacheEvicts
  BY <1>4 DEF CacheEvicts, TypeOK, serverVars, flagVars, bufferVars, countVars, connVars
<1> QED  BY <1>1, <1>2, <1>3, <1>4 DEF Timer

LEMMA TypeStep ==
  ASSUME TypeOK, Control, Data, [Next]_vars
  PROVE  TypeOK'
<1>1. CASE Next
  BY <1>1, TypeServerThread, TypePool, TypeRest DEF Next
<1>2. CASE UNCHANGED vars
  BY <1>2 DEF vars, TypeOK, serverVars, flagVars, bufferVars, countVars, connVars
<1> QED  BY <1>1, <1>2

-----------------------------------------------------------------------------
(* Data is preserved.                                                      *)

LEMMA SameRepresentation ==
  ASSUME OneRepresentation, Out' = Out, reply' = reply, request' = request
  PROVE  OneRepresentation'
  BY DEF OneRepresentation, FromBackend, FromCache

LEMMA PrefixRepresentation ==
  ASSUME reply' \in CacheReplies \cup ContentReplies, IsPrefixOf(Out', reply'.bytes)
  PROVE  OneRepresentation'
  BY DEF OneRepresentation, FromBackend

LEMMA EmptyIsPrefix ==
  ASSUME NEW b \in Seq(Bytes)
  PROVE  IsPrefixOf(<<>>, b)
<1>1. Len(<<>>) = 0 /\ Len(b) \in Nat
  BY EmptySeq, LenProperties
<1>2. SubSeq(b, 1, 0) = <<>>
  BY SubSeqEmpty
<1> QED  BY <1>1, <1>2 DEF IsPrefixOf

LEMMA OutType ==
  ASSUME TypeOK
  PROVE  Out \in Seq(Bytes) /\ (itsClientDataBuffer = <<>> => Out = delivered)
                             /\ (delivered = <<>> => Out = itsClientDataBuffer)
  BY ConcatProperties, ConcatEmptySeq DEF TypeOK, Out

LEMMA NothingReadFacts ==
  ASSUME TypeOK, NothingRead
  PROVE  Out = <<>> /\ Len(wire) = 0
  BY OutType, EmptySeq DEF NothingRead

(* Steps that leave the connection, the buffers and the queue alone. *)
LEMMA DataFrame ==
  ASSUME Data,
         UNCHANGED <<connVars, request, bufferVars, delivered, cache, reads,
                     itsBackendBufferFull>>,
         server' \in Before => server \in Before,
         io' = "connecting" => io = "connecting",
         itsResponseIsCacheable' => itsResponseIsCacheable,
         itsGatewayStatus' = "ONGOING" => itsGatewayStatus = "ONGOING"
  PROVE  Data'
<1>1. Out' = Out
  BY DEF Out, bufferVars
<1>2. OneRepresentation'
  BY <1>1, SameRepresentation DEF Data, connVars
<1>3. CacheHoldsBodies' /\ BuffersBounded'
  BY DEF Data, CacheHoldsBodies, BuffersBounded, bufferVars
<1>4. CopyOfBody => CopyOfBody'
  BY DEF CopyOfBody, connVars, bufferVars
<1> QED
  BY <1>1, <1>2, <1>3, <1>4 DEF Data, NothingRead, ReadingHeaders, connVars, bufferVars

(* Steps after which nothing of the exchange is pending any more. *)
LEMMA DataQuiet ==
  ASSUME reads' = <<>>, ~itsBackendBufferFull', server' \notin Before,
         io' # "connecting", IsPrefixOf(wire', reply'.bytes),
         OneRepresentation', CacheHoldsBodies', BuffersBounded'
  PROVE  Data'
  BY DEF Data, ReadingHeaders

LEMMA DataServerThread ==
  ASSUME TypeOK, Control, Data, ServerThread \/ ClientDisconnects
  PROVE  Data'
<1>1. CASE Create
  BY <1>1, DataFrame DEF Create, flagVars, Before
<1>2. CASE SendAndListenFails
  BY <1>2, DataFrame DEF SendAndListenFails, flagVars, Before
<1>3. CASE SendAndListenStartsTimer
  <2>1. Out' = Out /\ reply' = reply /\ wire' = wire
    BY <1>3 DEF SendAndListenStartsTimer, Out, bufferVars
  <2>2. OneRepresentation' /\ CacheHoldsBodies' /\ BuffersBounded'
    BY <1>3, <2>1, SameRepresentation DEF SendAndListenStartsTimer, Data,
       CacheHoldsBodies, BuffersBounded, bufferVars, flagVars
  <2>3. NothingRead /\ NothingRead' /\ reads = <<>> /\ ~itsBackendBufferFull
    BY <1>3 DEF SendAndListenStartsTimer, Data, Control, Before, NothingRead, bufferVars
  <2> QED
    BY <1>3, <2>1, <2>2, <2>3 DEF SendAndListenStartsTimer, Data, ReadingHeaders,
       bufferVars, flagVars
<1>4. CASE SendAndListenReads
  <2>1. reads' = <<"readCacheResponse">> /\ ~itsBackendBufferFull' /\ io' # "connecting"
    BY <1>4, Singleton DEF SendAndListenReads, Control, Before, Handlers, flagVars
  <2>2. NothingRead /\ Len(wire) = 0 /\ reply.head \in Nat \ {0}
    BY <1>4, NothingReadFacts, ReplyFacts DEF SendAndListenReads, Data, Before, TypeOK
  <2>3. Out' = Out /\ UNCHANGED <<connVars, bufferVars, delivered, request>>
    BY <1>4 DEF SendAndListenReads, Out, bufferVars
  <2>4. OneRepresentation' /\ CacheHoldsBodies' /\ BuffersBounded'
    BY <1>4, <2>3, SameRepresentation DEF SendAndListenReads, Data, CacheHoldsBodies,
       BuffersBounded, bufferVars, flagVars, connVars
  <2>5. NothingRead' /\ Len(wire') < reply'.head /\ IsPrefixOf(wire', reply'.bytes)
    BY <2>2, <2>3 DEF Data, NothingRead, bufferVars, connVars
  <2> QED
    BY <2>1, <2>4, <2>5 DEF Data, ReadingHeaders, NothingRead
<1>5. CASE PeekSleeps \/ GetChunkSleeps
  BY <1>5, DataFrame DEF PeekSleeps, GetChunkSleeps, Sleep, flagVars, Before
<1>6. CASE PeekReturns
  BY <1>6, DataFrame DEF PeekReturns, flagVars, Before
<1>7. CASE GetChunkReturns
  <2>1. /\ delivered' = Out /\ itsClientDataBuffer' = <<>> /\ Out' = Out
        /\ Len(itsClientDataBuffer') = 0
    BY <1>7, OutType, EmptySeq, ConcatEmptySeq DEF GetChunkReturns, TakeClientData, Out
  <2>2. /\ UNCHANGED <<wire, reply, request, itsResponseHeaderBuffer, itsCachedContent,
                       itsBackendMetadata, itsResponseIsCacheable, itsGatewayStatus, cache>>
        /\ server' \notin Before /\ io' = "idle" /\ ~itsBackendBufferFull'
    BY <1>7 DEF GetChunkReturns, MutexFree, Before, connVars
  <2>3. OneRepresentation' /\ CacheHoldsBodies' /\ BuffersBounded'
    <3>1. Len(itsClientDataBuffer') <= MaxBuffer + SocketBuffer
      BY <2>1, SizesAssumption
    <3> QED
      BY <2>1, <2>2, <3>1, SameRepresentation DEF Data, CacheHoldsBodies, BuffersBounded
  <2>4. CopyOfBody => CopyOfBody'
    BY <2>2 DEF CopyOfBody
  <2>5. Len(itsClientDataBuffer') <= MaxBuffer
    BY <2>1, SizesAssumption
  <2>6. CASE itsBackendBufferFull
    <3>1. reads' = <<"readDataResponse">>
      BY <1>7, <2>6, Singleton DEF GetChunkReturns, ResumeReading, Control, OneReader,
         Handlers
    <3> QED
      BY <2>1, <2>2, <2>3, <2>4, <2>5, <2>6, <3>1 DEF Data, ReadingHeaders
  <2>7. CASE ~itsBackendBufferFull
    <3>1. reads' = reads
      BY <1>7, <2>7 DEF GetChunkReturns, ResumeReading
    <3>2. ReadingHeaders => delivered' = <<>>
      BY <2>1, OutType DEF Data
    <3> QED
      BY <2>1, <2>2, <2>3, <2>4, <2>5, <2>7, <3>1, <3>2 DEF Data, ReadingHeaders
  <2> QED  BY <2>6, <2>7
<1>8. CASE StreamEnds \/ ClientDisconnects
  <2>1. DropStreamer
    BY <1>8 DEF StreamEnds, ClientDisconnects
  <2> QED
    BY <2>1, DataFrame DEF DropStreamer, flagVars, Before
<1> QED
  BY <1>1, <1>2, <1>3, <1>4, <1>5, <1>6, <1>7, <1>8
     DEF ServerThread, SendAndListen, Peek, GetChunk

LEMMA DataRest ==
  ASSUME TypeOK, Control, Data, Timer \/ OthersStore \/ CacheEvicts
  PROVE  Data'
<1>1. CASE TimerExpires
  BY <1>1, DataFrame DEF TimerExpires, serverVars, flagVars
<1>2. CASE HandleTimeout
  BY <1>2, DataFrame DEF HandleTimeout, TimedOut, serverVars, flagVars
<1>3. CASE OthersStore \/ CacheEvicts
  <2>1. UNCHANGED <<serverVars, request, flagVars, bufferVars, reads, io, connVars>>
    BY <1>3 DEF OthersStore, CacheEvicts
  <2>2. CacheHoldsBodies'
    <3>1. CASE OthersStore
      <4>1. PICK r \in ContentReplies, n \in 1..MaxCached :
              /\ r.storable /\ n <= Len(Body(r))
              /\ cache' = [cache EXCEPT ![<<r.etag, r.enc>>] = SubSeq(Body(r), 1, n)]
        BY <3>1 DEF OthersStore
      <4>2. IsPrefixOf(SubSeq(Body(r), 1, n), Body(r))
        BY <4>1, StoredPart
      <4> QED
        BY <4>1, <4>2 DEF Data, CacheHoldsBodies, TypeOK
    <3>2. CASE CacheEvicts
      BY <3>2 DEF CacheEvicts, Data, CacheHoldsBodies, TypeOK
    <3> QED  BY <1>3, <3>1, <3>2
  <2>3. Out' = Out
    BY <2>1 DEF Out, serverVars, bufferVars
  <2>4. OneRepresentation' /\ BuffersBounded'
    BY <2>1, <2>3, SameRepresentation DEF Data, BuffersBounded, bufferVars, flagVars, connVars
  <2>5. CopyOfBody => CopyOfBody'
    BY <2>1 DEF CopyOfBody, bufferVars, connVars
  <2> QED
    BY <2>1, <2>2, <2>3, <2>4, <2>5 DEF Data, NothingRead, ReadingHeaders, serverVars,
       flagVars, bufferVars, connVars
<1> QED  BY <1>1, <1>2, <1>3 DEF Timer

(* The bytes up to n of a reply, without its headers. *)
LEMMA PartOfPart ==
  ASSUME NEW b \in Seq(Bytes), NEW i \in 1..Len(b), NEW j \in 1..Len(b),
         NEW x \in 1..(j - i + 1), NEW y \in 1..(j - i + 1),
         NEW m, NEW n, m = i + x - 1, n = i + y - 1
  PROVE  SubSeq(SubSeq(b, i, j), x, y) = SubSeq(b, m, n)
BY SubSeqOfSubSeq

LEMMA PartOfBody ==
  ASSUME NEW r \in CacheReplies \cup ContentReplies,
         NEW n \in Nat, r.head <= n, n <= Len(r.bytes)
  PROVE  /\ SubSeq(SubSeq(r.bytes, 1, n), r.head + 1, n) = SubSeq(r.bytes, r.head + 1, n)
         /\ SubSeq(r.bytes, r.head + 1, n) \in Seq(Bytes)
         /\ Len(SubSeq(r.bytes, r.head + 1, n)) = n - r.head
         /\ IsPrefixOf(SubSeq(r.bytes, r.head + 1, n), Body(r))
<1>1. r.bytes \in Seq(Bytes) /\ Len(r.bytes) \in Nat /\ r.head \in Nat \ {0}
  BY ReplyFacts
<1>2. /\ SubSeq(r.bytes, r.head + 1, n) \in Seq(Bytes)
      /\ Len(SubSeq(r.bytes, r.head + 1, n)) = n - r.head
  BY <1>1, PartOfSeq
<1>3. Body(r) \in Seq(Bytes) /\ Len(Body(r)) = Len(r.bytes) - r.head
  BY <1>1, PartOfSeq, ReplyFacts DEF Body
<1>4. CASE n = r.head
  <2>1. SubSeq(r.bytes, r.head + 1, n) = <<>>
        /\ SubSeq(SubSeq(r.bytes, 1, n), r.head + 1, n) = <<>>
    BY <1>1, <1>4, SubSeqEmpty
  <2> QED  BY <1>2, <1>3, <2>1, EmptyIsPrefix
<1>5. CASE n > r.head
  <2>1. SubSeq(SubSeq(r.bytes, 1, n), r.head + 1, n) = SubSeq(r.bytes, r.head + 1, n)
    <3> DEFINE h == r.head + 1
               L == Len(r.bytes)
    <3>1. /\ 1 \in 1..L /\ n \in 1..L
          /\ h \in 1..(n - 1 + 1) /\ n \in 1..(n - 1 + 1)
          /\ h = 1 + h - 1 /\ n = 1 + n - 1
      BY <1>1, <1>5
    <3>2. r.bytes \in Seq(Bytes) /\ L = Len(r.bytes)
      BY <1>1
    <3> HIDE DEF h, L
    <3>3. SubSeq(SubSeq(r.bytes, 1, n), h, n) = SubSeq(r.bytes, h, n)
      BY <3>1, <3>2, PartOfPart
    <3> QED  BY <3>3 DEF h
  <2>2. SubSeq(Body(r), 1, n - r.head) = SubSeq(r.bytes, r.head + 1, n)
    <3> DEFINE h == r.head + 1
               L == Len(r.bytes)
               y == n - r.head
    <3>1. /\ h \in 1..L /\ L \in 1..L
          /\ 1 \in 1..(L - h + 1) /\ y \in 1..(L - h + 1)
          /\ h = h + 1 - 1 /\ n = h + y - 1
      BY <1>1, <1>5
    <3>2. r.bytes \in Seq(Bytes) /\ L = Len(r.bytes)
      BY <1>1
    <3> HIDE DEF h, L, y
    <3>3. SubSeq(SubSeq(r.bytes, h, L), 1, y) = SubSeq(r.bytes, h, n)
      BY <3>1, <3>2, PartOfPart
    <3> QED  BY <3>3 DEF Body, h, L, y
  <2>3. IsPrefixOf(SubSeq(r.bytes, r.head + 1, n), Body(r))
    <3> DEFINE part == SubSeq(r.bytes, r.head + 1, n)
    <3>1. Len(part) = n - r.head /\ Len(part) <= Len(Body(r))
      BY <1>1, <1>2, <1>3
    <3>2. SubSeq(Body(r), 1, Len(part)) = part
      BY <2>2, <3>1
    <3> HIDE DEF part
    <3>3. IsPrefixOf(part, Body(r))
      BY <3>1, <3>2 DEF IsPrefixOf
    <3> QED  BY <3>3 DEF part
  <2> QED  BY <1>2, <2>1, <2>3, Zenon
<1>6. n = r.head \/ n > r.head
  BY <1>1
<1> QED  BY <1>4, <1>5, <1>6, Zenon

-----------------------------------------------------------------------------
(* What every handler finds, and what the chunk it was called with is.     *)
LEMMA Received ==
  ASSUME TypeOK, Control, Data, NEW chunk \in Chunks, NEW h, Receive(h, chunk)
  PROVE  /\ reads = <<h>> /\ reads # <<>> /\ io = "idle" /\ ~itsBackendBufferFull
         /\ server \notin Before /\ itsGatewayStatus = "ONGOING"
         /\ wire' = wire \o chunk /\ wire' \in Seq(Bytes)
         /\ Len(wire) \in Nat /\ Len(wire') = Len(wire) + Len(chunk)
         /\ chunk \in Seq(Bytes) /\ Len(chunk) \in 1..SocketBuffer
         /\ chunk = SubSeq(reply.bytes, Len(wire) + 1, Len(wire'))
         /\ IsPrefixOf(wire', reply.bytes)
         /\ Tail(reads) = <<>> /\ \A g \in Handlers : Append(Tail(reads), g) = <<g>>
<1>1. reads = <<h>> /\ reads # <<>> /\ io = "idle" /\ OneReader
  BY HandlerRuns DEF Receive, Control
<1>2. ~itsBackendBufferFull /\ itsGatewayStatus = "ONGOING" /\ server \notin Before
  BY <1>1 DEF Control, OneReader
<1>3. wire' = wire \o chunk /\ IsPrefixOf(wire, reply.bytes) /\ Len(wire) \in Nat
  BY LenProperties DEF Receive, Data, TypeOK
<1>4. /\ chunk \in Seq(Bytes) /\ Len(chunk) \in 1..SocketBuffer /\ wire' \in Seq(Bytes)
      /\ Len(wire') = Len(wire) + Len(chunk)
      /\ chunk = SubSeq(reply.bytes, Len(wire) + 1, Len(wire'))
      /\ IsPrefixOf(wire', reply.bytes)
  BY <1>3, ChunkFacts
<1>5. Tail(reads) = <<>> /\ \A g \in Handlers : Append(Tail(reads), g) = <<g>>
  BY <1>1, OneRead
<1> QED  BY <1>1, <1>2, <1>3, <1>4, <1>5

(* Headers that were complete at this chunk and not before it. *)
LEMMA HeadersSeen ==
  ASSUME TypeOK, Control, Data, NEW chunk \in Chunks,
         NEW h \in {"readCacheResponse", "readDataResponseHeaders"}, Receive(h, chunk)
  PROVE  /\ itsResponseHeaderBuffer = wire /\ itsResponseHeaderBuffer \o chunk = wire'
         /\ Len(wire) < reply.head
         /\ itsClientDataBuffer = <<>> /\ delivered = <<>> /\ itsCachedContent = <<>>
         /\ Out = <<>> /\ Len(itsClientDataBuffer) = 0 /\ Len(itsCachedContent) = 0
<1>1. ReadingHeaders
  BY Received DEF ReadingHeaders
<1>2. /\ itsResponseHeaderBuffer = wire /\ Len(wire) < reply.head
      /\ itsClientDataBuffer = <<>> /\ delivered = <<>> /\ itsCachedContent = <<>>
  BY <1>1 DEF Data
<1> QED  BY <1>2, Received, OutType, EmptySeq

LEMMA DataReadHeaders ==
  ASSUME TypeOK, Control, Data, NEW chunk \in Chunks, ReadHeaders(chunk)
  PROVE  Data'
<1>0. PICK h \in {"readCacheResponse", "readDataResponseHeaders"} :
        ReadHeadersIncomplete(h, chunk) \/ ReadHeadersFailed(h, chunk)
  BY DEF ReadHeaders
<1>1. Receive(h, chunk) /\ UNCHANGED <<serverVars, request, itsClientDataBuffer,
        itsCachedContent, itsBackendMetadata, itsBackendBufferFull, io, socket, reply, cache>>
      /\ itsResponseHeaderBuffer' = itsResponseHeaderBuffer \o chunk
  BY <1>0 DEF ReadHeadersIncomplete, ReadHeadersFailed, flagVars
<1>2. Out' = Out /\ OneRepresentation' /\ CacheHoldsBodies'
  <2>1. Out' = Out
    BY <1>1 DEF Out, serverVars
  <2> QED
    BY <1>1, <2>1, SameRepresentation DEF Data, CacheHoldsBodies
<1>3. BuffersBounded'
  BY <1>1, HeadersSeen, SizesAssumption DEF BuffersBounded
<1>4. IsPrefixOf(wire', reply'.bytes) /\ itsResponseHeaderBuffer' = wire'
  BY <1>1, Received, HeadersSeen
<1>5. server' \notin Before /\ io' = "idle" /\ ~itsBackendBufferFull'
  BY <1>1, Received DEF serverVars
<1>6. CASE ReadHeadersIncomplete(h, chunk)
  <2>1. reads' = <<h>> /\ h \in Handlers
    BY <1>1, <1>6, Received DEF ReadHeadersIncomplete, ReadOn, Handlers
  <2>2. Len(wire') < reply.head
    BY <1>1, <1>6, HeadersSeen DEF ReadHeadersIncomplete, ParseResponse
  <2>3. h = "readDataResponseHeaders" => reply \in ContentReplies
    BY <1>1, Received DEF Data
  <2>4. /\ itsClientDataBuffer' = <<>> /\ delivered' = <<>> /\ itsCachedContent' = <<>>
    BY <1>1, HeadersSeen DEF serverVars
  <2>5. reads' # <<"readDataResponse">> /\ reply' = reply
    BY <1>1, <2>1
  <2> QED
    BY <1>2, <1>3, <1>4, <1>5, <2>1, <2>2, <2>3, <2>4, <2>5 DEF Data
<1>7. CASE ReadHeadersFailed(h, chunk)
  <2>1. reads' = <<>>
    BY <1>1, <1>7, Received DEF ReadHeadersFailed
  <2> QED  BY <1>2, <1>3, <1>4, <1>5, <2>1, DataQuiet
<1> QED  BY <1>0, <1>6, <1>7

LEMMA DataPassThrough ==
  ASSUME TypeOK, Control, Data, NEW chunk \in Chunks, ReadCachePassThrough(chunk)
  PROVE  Data'
<1>1. /\ Receive("readCacheResponse", chunk)
      /\ itsResponseHeaderBuffer' = itsResponseHeaderBuffer \o chunk
      /\ itsClientDataBuffer' = itsResponseHeaderBuffer \o chunk
      /\ itsResponseIsCacheable' = FALSE /\ ReadOn("readDataResponse")
      /\ UNCHANGED <<serverVars, request, itsBackendBufferFull, itsCachedContent, io,
                     reply, cache>>
  BY DEF ReadCachePassThrough, HeadersComplete
<1>2. /\ itsResponseHeaderBuffer' = wire' /\ itsClientDataBuffer' = wire'
      /\ delivered' = <<>> /\ itsCachedContent' = <<>> /\ Len(wire') \in Nat
      /\ reads' = <<"readDataResponse">> /\ wire' \in Seq(Bytes)
      /\ IsPrefixOf(wire', reply'.bytes)
  BY <1>1, Received, HeadersSeen, LenProperties DEF ReadOn, Handlers, serverVars
<1>3. Out' = wire'
  BY <1>2, ConcatEmptySeq DEF Out
<1>4. OneRepresentation'
  BY <1>1, <1>2, <1>3, PrefixRepresentation DEF TypeOK
<1>5. CacheHoldsBodies'
  BY <1>1 DEF Data, CacheHoldsBodies
<1>6. BuffersBounded'
  BY <1>2, SizesAssumption, EmptySeq DEF BuffersBounded
<1>7. server' \notin Before /\ io' = "idle"
  BY <1>1, Received DEF serverVars
<1> QED
  BY <1>1, <1>2, <1>3, <1>4, <1>5, <1>6, <1>7 DEF Data, ReadingHeaders

LEMMA DataCacheHit ==
  ASSUME TypeOK, Control, Data, NEW chunk \in Chunks, ReadCacheHit(chunk)
  PROVE  Data'
<1>1. /\ Receive("readCacheResponse", chunk)
      /\ reply.etag # NoETag /\ CacheLookup(reply.etag) # NoBuffer
      /\ itsClientDataBuffer' \in CacheResponses(CacheLookup(reply.etag))
      /\ itsGatewayStatus' = "FINISHED" /\ reads' = Tail(reads)
      /\ UNCHANGED <<serverVars, request, itsBackendBufferFull, itsCachedContent, io,
                     reply, cache>>
  BY DEF ReadCacheHit, HeadersComplete
<1>2. PICK enc \in {request.accepts, Identity} :
        /\ <<reply.etag, enc>> \in Keys
        /\ CacheLookup(reply.etag) = cache[<<reply.etag, enc>>]
  BY <1>1, LookupFacts
<1>3. PICK r \in ContentReplies :
        /\ <<r.etag, r.enc>> = <<reply.etag, enc>> /\ r.storable
        /\ IsPrefixOf(CacheLookup(reply.etag), Body(r))
  BY <1>1, <1>2 DEF Data, CacheHoldsBodies
<1>4. CacheLookup(reply.etag) \in Seq(Bytes)
  BY <1>1, <1>2 DEF TypeOK
<1>5. /\ delivered' = <<>> /\ reads' = <<>> /\ ~itsBackendBufferFull' /\ io' = "idle"
      /\ server' \notin Before /\ IsPrefixOf(wire', reply'.bytes)
      /\ itsCachedContent' = <<>>
  BY <1>1, Received, HeadersSeen DEF serverVars
<1>6. CachedHead \in Bytes /\ <<CachedHead>> \in Seq(Bytes)
  BY ValuesAssumption
<1>7. Out' \in CacheResponses(CacheLookup(reply.etag))
  <2>1. itsClientDataBuffer' \in Seq(Bytes)
    <3>1. <<CachedHead>> \o CacheLookup(reply.etag) \in Seq(Bytes)
      BY <1>4, <1>6, HeadThenBody
    <3> QED  BY <1>1, <1>6, <3>1 DEF CacheResponses
  <2> QED  BY <1>1, <1>5, <2>1, ConcatEmptySeq DEF Out
<1>8. FromCache'
  <2>1. CASE Out' = <<CachedHead>>
    BY <1>6, <2>1 DEF FromCache
  <2>2. CASE Out' = <<CachedHead>> \o CacheLookup(reply.etag)
    <3>1. Out' # <<>> /\ Out'[1] = CachedHead /\ Tail(Out') = CacheLookup(reply.etag)
      BY <1>4, <1>6, <2>2, HeadThenBody
    <3>2. /\ r.etag = reply'.etag /\ r.storable
          /\ r.enc \in {request'.accepts, Identity}
          /\ IsPrefixOf(Tail(Out'), Body(r))
      BY <1>1, <1>3, <3>1
    <3> QED  BY <3>1, <3>2 DEF FromCache
  <2> QED  BY <1>7, <2>1, <2>2 DEF CacheResponses
<1>9. OneRepresentation' /\ CacheHoldsBodies'
  BY <1>1, <1>8 DEF OneRepresentation, Data, CacheHoldsBodies
<1>10. BuffersBounded'
  BY <1>1, <1>5, EmptySeq, SizesAssumption DEF BuffersBounded
<1> QED  BY <1>5, <1>9, <1>10, DataQuiet

LEMMA DataCacheMiss ==
  ASSUME TypeOK, Control, Data, NEW chunk \in Chunks, ReadCacheMiss(chunk)
  PROVE  Data'
<1>1. /\ reads # <<>> /\ Head(reads) = "readCacheResponse" /\ ClearBuffers
      /\ wire' = <<>> /\ reads' = Tail(reads) /\ io' = "connecting"
      /\ UNCHANGED <<serverVars, request, itsBackendBufferFull, reply, cache>>
  BY DEF ReadCacheMiss, flagVars
<1>2. /\ reads = <<"readCacheResponse">> /\ reads' = <<>>
      /\ server \notin Before /\ ~itsBackendBufferFull
  BY <1>1, OneRead DEF Control, OneReader
<1>3. delivered' = <<>>
  BY <1>1, <1>2 DEF Data, ReadingHeaders, serverVars
<1>4. NothingRead' /\ Out' = <<>>
  BY <1>1, <1>3, ConcatEmptySeq, EmptySeq DEF NothingRead, ClearBuffers, Out
<1>5. IsPrefixOf(wire', reply'.bytes) /\ IsPrefixOf(Out', reply'.bytes)
  BY <1>1, <1>4, EmptyIsPrefix, ReplyFacts DEF TypeOK
<1>6. OneRepresentation'
  BY <1>1, <1>5, PrefixRepresentation DEF TypeOK
<1>7. CacheHoldsBodies' /\ BuffersBounded'
  BY <1>1, <1>4, EmptySeq, SizesAssumption DEF Data, CacheHoldsBodies, BuffersBounded,
     NothingRead
<1> QED
  BY <1>1, <1>2, <1>4, <1>5, <1>6, <1>7 DEF Data, ReadingHeaders

LEMMA DataContentRequest ==
  ASSUME TypeOK, Control, Data, ContentRequest
  PROVE  Data'
<1>1. CASE ContentRequestFails
  BY <1>1, DataFrame DEF ContentRequestFails, serverVars
<1>2. CASE ContentRequestSent
  <2>1. /\ NothingRead /\ reads = <<>> /\ ~itsBackendBufferFull /\ server \notin Before
    BY <1>2 DEF ContentRequestSent, Data, Control
  <2>2. /\ reply' \in ContentReplies /\ io' = "idle"
        /\ UNCHANGED <<serverVars, flagVars, bufferVars, wire, cache>>
    BY <1>2 DEF ContentRequestSent
  <2>3. reads' = <<"readDataResponseHeaders">>
    BY <1>2, <2>1, Singleton DEF ContentRequestSent, Handlers
  <2>4. NothingRead' /\ Out' = <<>> /\ wire' = <<>> /\ Len(wire') = 0
    BY <2>1, <2>2, NothingReadFacts DEF NothingRead, Out, serverVars, bufferVars
  <2>5. reply'.bytes \in Seq(Bytes) /\ reply'.head \in Nat \ {0}
    BY <2>2, ReplyFacts
  <2>6. IsPrefixOf(wire', reply'.bytes) /\ IsPrefixOf(Out', reply'.bytes)
    BY <2>4, <2>5, EmptyIsPrefix
  <2>7. OneRepresentation'
    BY <2>2, <2>6, PrefixRepresentation
  <2>8. CacheHoldsBodies' /\ BuffersBounded'
    BY <2>2, <2>4, EmptySeq, SizesAssumption DEF Data, CacheHoldsBodies, BuffersBounded,
       NothingRead
  <2>9. server' \notin Before /\ ~itsBackendBufferFull' /\ Len(wire') < reply'.head
    BY <2>1, <2>2, <2>4, <2>5 DEF serverVars, flagVars
  <2> QED
    BY <2>2, <2>3, <2>4, <2>6, <2>7, <2>8, <2>9 DEF Data, ReadingHeaders, NothingRead
<1> QED  BY <1>1, <1>2 DEF ContentRequest

LEMMA DataHeadersComplete ==
  ASSUME TypeOK, Control, Data, NEW chunk \in Chunks, ReadDataHeadersComplete(chunk)
  PROVE  Data'
<1>1. /\ Receive("readDataResponseHeaders", chunk)
      /\ ParseResponse(Len(itsResponseHeaderBuffer \o chunk)) = "COMPLETE"
      /\ itsResponseHeaderBuffer' = itsResponseHeaderBuffer \o chunk
      /\ itsClientDataBuffer' = itsResponseHeaderBuffer \o chunk
      /\ ReadOn("readDataResponse")
      /\ UNCHANGED <<serverVars, request, itsBackendBufferFull, io, reply, cache>>
  BY DEF ReadDataHeadersComplete, HeadersComplete
<1>2. /\ itsResponseHeaderBuffer' = wire' /\ itsClientDataBuffer' = wire'
      /\ delivered' = <<>> /\ Len(wire') \in Nat /\ wire' \in Seq(Bytes)
      /\ reads' = <<"readDataResponse">>
      /\ IsPrefixOf(wire', reply'.bytes)
      /\ reply \in ContentReplies
  BY <1>1, Received, HeadersSeen, LenProperties DEF ReadOn, Handlers, serverVars, Data
<1>3. reply.head <= Len(wire') /\ Len(wire') - reply.head <= MaxCached
      /\ reply.head \in Nat \ {0} /\ Len(wire') <= Len(reply.bytes)
  <2>1. Len(wire') = Len(wire) + Len(chunk) /\ Len(wire) < reply.head
        /\ Len(chunk) \in 1..SocketBuffer /\ Len(wire) \in Nat
    BY <1>1, Received, HeadersSeen
  <2>2. ~(Len(wire') < reply.head)
    BY <1>1, HeadersSeen DEF ParseResponse
  <2>3. reply.head \in Nat \ {0} /\ Len(wire') <= Len(reply.bytes)
    BY <1>1, <1>2, ReplyFacts DEF IsPrefixOf
  <2> QED  BY <1>2, <2>1, <2>2, <2>3, SizesAssumption
<1>4. Out' = wire'
  BY <1>2, ConcatEmptySeq DEF Out
<1>5. OneRepresentation' /\ CacheHoldsBodies'
  BY <1>1, <1>2, <1>4, PrefixRepresentation DEF Data, CacheHoldsBodies
<1>6. CASE reply.etag # NoETag /\ reply.storable
  <2>1. /\ itsBackendMetadata' = [etag |-> reply.etag, enc |-> reply.enc]
        /\ itsCachedContent' = SubSeq(wire', reply.head + 1, Len(wire'))
    BY <1>2, <1>6 DEF ReadDataHeadersComplete
  <2>2. /\ SubSeq(SubSeq(reply.bytes, 1, Len(wire')), reply.head + 1, Len(wire'))
             = SubSeq(reply.bytes, reply.head + 1, Len(wire'))
        /\ Len(SubSeq(reply.bytes, reply.head + 1, Len(wire'))) = Len(wire') - reply.head
    BY <1>2, <1>3, PartOfBody
  <2>3. SubSeq(reply.bytes, 1, Len(wire')) = wire'
    BY <1>1, <1>2 DEF IsPrefixOf
  <2>4. CopyOfBody' /\ Len(itsCachedContent') <= MaxCached
    BY <1>1, <1>2, <1>3, <1>6, <2>1, <2>2, <2>3 DEF CopyOfBody
  <2>5. BuffersBounded'
    BY <1>2, <2>4, SizesAssumption DEF BuffersBounded
  <2> QED
    BY <1>1, <1>2, <1>4, <1>5, <2>4, <2>5, Received DEF Data, ReadingHeaders, serverVars
<1>7. CASE reply.etag = NoETag \/ ~reply.storable
  <2>1. itsResponseIsCacheable' = FALSE /\ itsCachedContent' = itsCachedContent
    BY <1>7, <1>1 DEF ReadDataHeadersComplete
  <2>2. BuffersBounded'
    BY <1>1, <1>2, <2>1, HeadersSeen, SizesAssumption DEF BuffersBounded
  <2> QED
    BY <1>1, <1>2, <1>4, <1>5, <2>1, <2>2, Received DEF Data, ReadingHeaders, serverVars
<1> QED  BY <1>6, <1>7

LEMMA Appended ==
  ASSUME NEW a \in Seq(Bytes), NEW b \in Seq(Bytes), NEW c \in Seq(Bytes)
  PROVE  a \o (b \o c) = (a \o b) \o c
  BY ConcatAssociative

(* What is read next continues what has been read.                         *)
LEMMA NextPart ==
  ASSUME NEW b \in Seq(Bytes), NEW h \in Nat, NEW k \in Nat, NEW n \in Nat,
         h <= k, k <= n, n <= Len(b)
  PROVE  SubSeq(b, h + 1, k) \o SubSeq(b, k + 1, n) = SubSeq(b, h + 1, n)
<1> DEFINE m == h + 1
<1>1. /\ m \in 1..Len(b) + 1 /\ k \in m - 1..Len(b) /\ n \in k..Len(b)
  BY LenProperties
<1> HIDE DEF m
<1>2. SubSeq(b, m, k) \o SubSeq(b, k + 1, n) = SubSeq(b, m, n)
  BY <1>1, ConcatAdjacentSubSeq
<1> QED  BY <1>2 DEF m

LEMMA DataRead ==
  ASSUME TypeOK, Control, Data, NEW chunk \in Chunks, ReadData(chunk)
  PROVE  Data'
<1>1. /\ Receive("readDataResponse", chunk)
      /\ itsClientDataBuffer' = itsClientDataBuffer \o chunk
      /\ CollectForCache(chunk) /\ ReadOnOrSuspend
      /\ UNCHANGED <<serverVars, request, itsResponseHeaderBuffer, itsBackendMetadata,
                     io, reply, cache>>
  BY DEF ReadData
<1>2. /\ reads = <<"readDataResponse">> /\ io' = "idle" /\ server' \notin Before
      /\ IsPrefixOf(wire', reply'.bytes) /\ wire' = wire \o chunk
      /\ chunk \in Seq(Bytes) /\ Len(chunk) \in 1..SocketBuffer
      /\ Len(wire) \in Nat /\ Len(wire') = Len(wire) + Len(chunk)
      /\ chunk = SubSeq(reply.bytes, Len(wire) + 1, Len(wire'))
  BY <1>1, Received DEF serverVars
<1>3. Out = wire /\ (itsResponseIsCacheable => CopyOfBody)
  BY <1>2 DEF Data
<1>4. Out' = wire'
  <2>1. Out' = delivered \o (itsClientDataBuffer \o chunk)
    BY <1>1 DEF Out, serverVars
  <2>2. Out' = (delivered \o itsClientDataBuffer) \o chunk
    <3>1. delivered \in Seq(Bytes) /\ itsClientDataBuffer \in Seq(Bytes)
          /\ chunk \in Seq(Bytes)
      BY <1>2 DEF TypeOK
    <3>2. (delivered \o itsClientDataBuffer) \o chunk
            = delivered \o (itsClientDataBuffer \o chunk)
      BY <3>1, Appended
    <3> QED  BY <2>1, <3>2
  <2> QED  BY <1>2, <1>3, <2>2 DEF Out
<1>5. OneRepresentation' /\ CacheHoldsBodies'
  BY <1>1, <1>2, <1>4, PrefixRepresentation DEF Data, CacheHoldsBodies, TypeOK
<1>6. /\ Len(itsCachedContent') <= MaxCached
      /\ itsResponseIsCacheable' => CopyOfBody'
  <2>1. CASE ~itsResponseIsCacheable
    BY <1>1, <2>1 DEF CollectForCache, Data, BuffersBounded
  <2>2. CASE itsResponseIsCacheable
    <3>1. itsCachedContent \o chunk = SubSeq(reply.bytes, reply.head + 1, Len(wire'))
      <4>1. itsCachedContent = SubSeq(reply.bytes, reply.head + 1, Len(wire))
            /\ reply.head <= Len(wire)
        BY <1>3, <2>2 DEF CopyOfBody
      <4>2. /\ reply.bytes \in Seq(Bytes) /\ Len(reply.bytes) \in Nat
            /\ reply.head \in Nat /\ Len(wire') <= Len(reply.bytes)
        BY <1>1, <1>2, ReplyFacts DEF TypeOK, IsPrefixOf
      <4>3. Len(wire') \in Nat /\ Len(wire) <= Len(wire')
        BY <1>2
      <4> QED
        <5> DEFINE b == reply.bytes
                   h == reply.head
                   k == Len(wire)
                   n == Len(wire')
        <5>1. /\ b \in Seq(Bytes) /\ h \in Nat /\ k \in Nat /\ n \in Nat
              /\ h <= k /\ k <= n /\ n <= Len(b)
          BY <1>2, <4>1, <4>2, <4>3
        <5> HIDE DEF b, h, k, n
        <5>2. SubSeq(b, h + 1, k) \o SubSeq(b, k + 1, n) = SubSeq(b, h + 1, n)
          BY <5>1, NextPart
        <5> QED  BY <1>2, <4>1, <5>2, Zenon DEF b, h, k, n
    <3>2. CASE Len(itsCachedContent \o chunk) > MaxCached
      BY <1>1, <2>2, <3>2, EmptySeq, SizesAssumption DEF CollectForCache
    <3>3. CASE ~(Len(itsCachedContent \o chunk) > MaxCached)
      <4>1. itsCachedContent' = itsCachedContent \o chunk
        BY <1>1, <2>2, <3>3 DEF CollectForCache
      <4>2. itsCachedContent \o chunk \in Seq(Bytes)
        BY <1>2, ConcatProperties DEF TypeOK
      <4>3. Len(itsCachedContent') <= MaxCached
        BY <3>3, <4>1, <4>2, LenProperties, SizesAssumption
      <4>4. reply.head \in Nat
        BY ReplyFacts DEF TypeOK
      <4>5. reply.head <= Len(wire')
        BY <1>2, <1>3, <2>2, <4>4 DEF CopyOfBody
      <4>6. CopyOfBody'
        BY <1>1, <1>3, <2>2, <3>1, <4>1, <4>5 DEF CopyOfBody
      <4> QED  BY <4>3, <4>6
    <3> QED  BY <3>2, <3>3
  <2> QED  BY <2>1, <2>2
<1>7. BuffersBounded'
  <2>1. \/ Len(itsClientDataBuffer) <= MaxBuffer
        \/ Len(itsClientDataBuffer) <= Len(itsResponseHeaderBuffer)
    BY <1>2 DEF Data
  <2>2. Len(itsClientDataBuffer') = Len(itsClientDataBuffer) + Len(chunk)
        /\ Len(itsClientDataBuffer) \in Nat /\ Len(itsResponseHeaderBuffer) \in Nat
    BY <1>1, <1>2, ConcatProperties, LenProperties DEF TypeOK
  <2>3. \/ Len(itsClientDataBuffer') <= MaxBuffer + SocketBuffer
        \/ Len(itsClientDataBuffer') <= Len(itsResponseHeaderBuffer) + SocketBuffer
    BY <1>2, <2>1, <2>2, SizesAssumption
  <2> QED  BY <1>1, <1>6, <2>3 DEF BuffersBounded
<1>8. \/ reads' = <<"readDataResponse">> /\ Len(itsClientDataBuffer') <= MaxBuffer
      \/ reads' = <<>> /\ itsBackendBufferFull' = TRUE
  BY <1>1, Received DEF ReadOnOrSuspend, ReadOn, Handlers
<1> QED
  <2>1. ~ReadingHeaders' /\ reads' # <<"readDataResponseHeaders">>
    BY <1>8 DEF ReadingHeaders
  <2>2. reads' = <<"readDataResponse">> => Len(itsClientDataBuffer') <= MaxBuffer
    BY <1>8
  <2> QED
    BY <1>2, <1>4, <1>5, <1>6, <1>7, <2>1, <2>2 DEF Data

(* A read that ends with an error stores the body read so far or nothing. *)
LEMMA WhatIsStored ==
  ASSUME TypeOK, Control, Data, ReadError, cache' # cache
  PROVE  /\ CopyOfBody
         /\ cache' = [cache EXCEPT ![<<reply.etag, reply.enc>>] = itsCachedContent]
<1>1. reads # <<>> /\ OneReader
  BY DEF ReadError, Control
<1>2. itsResponseIsCacheable /\ itsCachedContent # <<>> /\ InsertCachedBuffer
  BY DEF ReadError, HandleError
<1>3. reads = <<"readDataResponse">>
  BY <1>1, <1>2, OneRead DEF Data, ReadingHeaders, Handlers
<1>4. CopyOfBody
  BY <1>2, <1>3 DEF Data
<1>5. PICK buffer \in Kept(cache[<<reply.etag, reply.enc>>], itsCachedContent) :
        cache' = [cache EXCEPT ![<<reply.etag, reply.enc>>] = buffer]
  BY <1>2, <1>4 DEF InsertCachedBuffer, CopyOfBody
<1>6. \/ cache' = cache
      \/ cache' = [cache EXCEPT ![<<reply.etag, reply.enc>>] = itsCachedContent]
  BY <1>5 DEF Kept, TypeOK
<1> QED  BY <1>4, <1>6

LEMMA DataReadError ==
  ASSUME TypeOK, Control, Data, ReadError
  PROVE  Data'
<1>1. PICK err \in SocketErrors : HandleError(err)
  BY DEF ReadError
<1>2. /\ reads # <<>> /\ reads' = Tail(reads) /\ io = "idle" /\ OneReader
      /\ UNCHANGED <<serverVars, request, itsBackendBufferFull, bufferVars, io, connVars>>
  BY DEF ReadError, MutexFree, Control
<1>3. /\ reads' = <<>> /\ ~itsBackendBufferFull' /\ io' = "idle" /\ server' \notin Before
      /\ IsPrefixOf(wire', reply'.bytes)
  BY <1>2, OneRead DEF OneReader, Control, Data, serverVars, connVars
<1>4. OneRepresentation'
  BY <1>2, SameRepresentation DEF Data, Out, serverVars, bufferVars, connVars
<1>5. BuffersBounded'
  <2>1. itsGatewayStatus = "ONGOING"
    BY <1>2 DEF OneReader
  <2> QED  BY <1>2, <2>1 DEF Data, BuffersBounded, bufferVars
<1>6. CacheHoldsBodies'
  <2>1. CASE cache' = cache
    BY <2>1 DEF Data, CacheHoldsBodies
  <2>2. CASE cache' # cache
    <3>1. /\ CopyOfBody
          /\ cache' = [cache EXCEPT ![<<reply.etag, reply.enc>>] = itsCachedContent]
      BY <2>2, WhatIsStored
    <3>2. /\ Len(wire) \in Nat /\ Len(wire) <= Len(reply.bytes)
          /\ reply \in ContentReplies /\ reply.storable
      BY <3>1, LenProperties DEF Data, IsPrefixOf, TypeOK, CopyOfBody
    <3>3. IsPrefixOf(itsCachedContent, Body(reply))
      BY <3>1, <3>2, PartOfBody DEF CopyOfBody
    <3> QED
      BY <3>1, <3>2, <3>3 DEF Data, CacheHoldsBodies, TypeOK
  <2> QED  BY <2>1, <2>2
<1> QED  BY <1>3, <1>4, <1>5, <1>6, DataQuiet

LEMMA DataStep ==
  ASSUME TypeOK, Control, Data, [Next]_vars
  PROVE  Data'
<1>1. CASE ServerThread \/ ClientDisconnects
  BY <1>1, DataServerThread
<1>2. CASE ReadCompletes \/ ContentRequest
  BY <1>2, DataReadHeaders, DataPassThrough, DataCacheHit, DataCacheMiss,
     DataContentRequest, DataHeadersComplete, DataRead, DataReadError
     DEF ReadCompletes, ReadChunk
<1>3. CASE Timer \/ OthersStore \/ CacheEvicts
  BY <1>3, DataRest
<1>4. CASE UNCHANGED vars
  BY <1>4, DataFrame DEF vars, serverVars, flagVars
<1> QED  BY <1>1, <1>2, <1>3, <1>4 DEF Next

-----------------------------------------------------------------------------
(* The inductive invariant, and the theorems that follow from it.          *)

LEMMA InitIInv ==
  ASSUME Init
  PROVE  IInv
<1> USE DEF Init
<1>1. <<>> \in Seq(Bytes) /\ <<>> \in Seq(Handlers) /\ Len(<<>>) = 0 /\ <<>> \o <<>> = <<>>
  BY EmptySeq, ConcatEmptySeq
<1>2. TypeOK
  BY <1>1, ValuesAssumption DEF TypeOK
<1>3. Control
  BY <1>1 DEF Control, OneReader, ChargedOnce, NotForgotten, EndReportedLast, Alive, Before
<1>4. Out = <<>> /\ NothingRead
  BY <1>1 DEF Out, NothingRead
<1>5. IsPrefixOf(wire, reply.bytes) /\ OneRepresentation
  BY <1>4, EmptyIsPrefix, ReplyFacts DEF OneRepresentation, FromBackend
<1>6. CacheHoldsBodies /\ BuffersBounded
  BY <1>1, SizesAssumption DEF CacheHoldsBodies, BuffersBounded
<1>7. Data
  BY <1>1, <1>4, <1>5, <1>6, Singleton DEF Data, ReadingHeaders, Handlers
<1> QED  BY <1>2, <1>3, <1>7 DEF IInv

LEMMA StepIInv ==
  ASSUME IInv, [Next]_vars
  PROVE  IInv'
  BY TypeStep, ControlStep, DataStep DEF IInv

LEMMA Inductive == Spec => []IInv
<1>1. Init => IInv
  BY InitIInv
<1>2. IInv /\ [Next]_vars => IInv'
  BY StepIInv
<1> QED  BY <1>1, <1>2, PTL DEF Spec

(* Every variable keeps its type.  In particular the count of active       *)
(* requests is 0 or 1: it is neither charged nor released twice.           *)
THEOREM TypeCorrect == Spec => []TypeOK
<1>1. IInv => TypeOK
  BY DEF IInv
<1> QED  BY <1>1, Inductive, PTL

(* Whatever thread starts a read, there is no other on the socket buffer.  *)
THEOREM OneReaderAlways == Spec => []OneReader
<1>1. IInv => OneReader
  BY DEF IInv, Control
<1> QED  BY <1>1, Inductive, PTL

(* A stream that goes on has a reader, or someone who is to start one.     *)
THEOREM NeverForgotten == Spec => []NotForgotten
<1>1. IInv => NotForgotten
  BY DEF IInv, Control
<1> QED  BY <1>1, Inductive, PTL

(* The backend is charged as long as the request is of concern to it.      *)
THEOREM AccountIsRight == Spec => []ChargedOnce
<1>1. IInv => ChargedOnce
  BY DEF IInv, Control
<1> QED  BY <1>1, Inductive, PTL

(* The server learns of the end when it has every byte.                    *)
THEOREM EndIsReportedLast == Spec => []EndReportedLast
<1>1. IInv => EndReportedLast
  BY DEF IInv, Control
<1> QED  BY <1>1, Inductive, PTL

(* The client's bytes are a prefix of one representation.                  *)
THEOREM NoMixture == Spec => []OneRepresentation
<1>1. IInv => OneRepresentation
  BY DEF IInv, Data
<1> QED  BY <1>1, Inductive, PTL

(* The cache holds prefixes of bodies, under their own ETag and encoding.  *)
THEOREM CacheIsSound == Spec => []CacheHoldsBodies
<1>1. IInv => CacheHoldsBodies
  BY DEF IInv, Data
<1> QED  BY <1>1, Inductive, PTL

(* What a streamer stores is all of the body that has come, so that only a *)
(* backend that closes early can put a part of a product into the cache.   *)
THEOREM StoresWhatCame == Spec => StoredAsReceived
<1>1. ASSUME IInv, ReadError, NEW k \in Keys, cache'[k] # cache[k]
      PROVE  /\ reply \in ContentReplies /\ reply.storable /\ k = <<reply.etag, reply.enc>>
             /\ cache'[k] = SubSeq(wire, reply.head + 1, Len(wire))
  <2>1. /\ CopyOfBody
        /\ cache' = [cache EXCEPT ![<<reply.etag, reply.enc>>] = itsCachedContent]
    BY <1>1, WhatIsStored DEF IInv
  <2>2. k = <<reply.etag, reply.enc>> /\ cache'[k] = itsCachedContent
    BY <1>1, <2>1 DEF IInv, TypeOK
  <2>3. /\ wire = SubSeq(reply.bytes, 1, Len(wire)) /\ Len(wire) <= Len(reply.bytes)
        /\ Len(wire) \in Nat /\ reply.head <= Len(wire) /\ reply \in ContentReplies
    BY <1>1, <2>1, LenProperties DEF IInv, Data, IsPrefixOf, TypeOK, CopyOfBody
  <2>4. SubSeq(wire, reply.head + 1, Len(wire)) = SubSeq(reply.bytes, reply.head + 1, Len(wire))
    BY <2>3, PartOfBody
  <2> QED  BY <2>1, <2>2, <2>4 DEF CopyOfBody
<1>2. IInv /\ [Next]_vars =>
        [ReadError =>
           \A k \in Keys : cache'[k] # cache[k] =>
             /\ reply \in ContentReplies /\ reply.storable /\ k = <<reply.etag, reply.enc>>
             /\ cache'[k] = SubSeq(wire, reply.head + 1, Len(wire))]_vars
  BY <1>1
<1> QED  BY <1>2, Inductive, PTL DEF Spec, StoredAsReceived

(* The buffers of a stream that goes on are bounded.                       *)
THEOREM MemoryIsBounded == Spec => []BuffersBounded
<1>1. IInv => BuffersBounded
  BY DEF IInv, Data
<1> QED  BY <1>1, Inductive, PTL

-----------------------------------------------------------------------------
(* The streamer implements GatewayStream.                                  *)

(* Bytes put into an empty buffer, or after those that are there.          *)
LEMMA FirstBytes ==
  ASSUME Out = <<>>, itsGatewayStatus = "ONGOING",
         Out' \in Seq(Bytes), Out' # <<>>,
         itsGatewayStatus' \in {"ONGOING", "FINISHED"},
         UNCHANGED <<delivered, streamerStatus>>
  PROVE  Abstract!Produce
<1>1. Len(Out) = 0 /\ Len(Out') \in Nat /\ SubSeq(Out', 1, 0) = <<>>
  BY EmptySeq, LenProperties, SubSeqEmpty
<1> QED  BY <1>1 DEF Abstract!Produce

LEMMA MoreBytes ==
  ASSUME TypeOK, itsGatewayStatus = "ONGOING",
         NEW chunk \in Seq(Bytes), Len(chunk) > 0,
         Out' = Out \o chunk, UNCHANGED <<delivered, streamerStatus, itsGatewayStatus>>
  PROVE  Abstract!Produce
<1>1. Out \in Seq(Bytes) /\ Len(Out) \in Nat /\ Len(chunk) \in Nat
  BY OutType, LenProperties
<1>2. Out' \in Seq(Bytes) /\ Len(Out') = Len(Out) + Len(chunk)
  BY <1>1, ConcatProperties
<1>3. SubSeq(Out \o chunk, 1, Len(Out)) = Out
  <2>1. \A i \in 1..Len(Out) : (Out \o chunk)[i] = Out[i]
    BY <1>1, ConcatProperties
  <2>2. \A i \in 1..Len(Out) : Out[i] \in Bytes
    BY <1>1, ElementOfSeq
  <2>3. /\ SubSeq(Out \o chunk, 1, Len(Out)) \in Seq(Bytes)
        /\ Len(SubSeq(Out \o chunk, 1, Len(Out))) = Len(Out)
        /\ \A i \in 1..Len(Out) : SubSeq(Out \o chunk, 1, Len(Out))[i] = (Out \o chunk)[i]
    BY <1>1, <2>1, <2>2, SubSeqProperties
  <2> QED  BY <1>1, <2>1, <2>3, SeqEqual
<1>4. Out' # Out /\ Len(Out') >= Len(Out)
  <2>1. Len(Out') > Len(Out)
    BY <1>1, <1>2
  <2> QED  BY <1>1, <1>2, <2>1
<1> QED  BY <1>2, <1>3, <1>4 DEF Abstract!Produce

LEMMA StreamQuiet ==
  ASSUME UNCHANGED <<delivered, itsClientDataBuffer, streamerStatus, itsGatewayStatus>>
  PROVE  UNCHANGED Abstract!streamVars
  BY DEF Abstract!streamVars, Out

LEMMA StreamServerThread ==
  ASSUME TypeOK, Control, ServerThread \/ ClientDisconnects
  PROVE  [Abstract!Next]_Abstract!streamVars
<1>1. CASE Create \/ SendAndListen \/ PeekSleeps \/ GetChunkSleeps \/ StreamEnds
           \/ ClientDisconnects
  BY <1>1, StreamQuiet DEF Create, SendAndListen, SendAndListenFails,
     SendAndListenStartsTimer, SendAndListenReads, PeekSleeps, GetChunkSleeps, Sleep,
     StreamEnds, ClientDisconnects, DropStreamer, flagVars, bufferVars
<1>2. CASE PeekReturns
  <2>1. UNCHANGED <<delivered, itsClientDataBuffer, itsGatewayStatus>> /\ Out' = Out
    BY <1>2 DEF PeekReturns, flagVars, bufferVars, Out
  <2>2. CASE streamerStatus' = streamerStatus
    BY <2>1, <2>2, StreamQuiet
  <2>3. CASE streamerStatus' # streamerStatus
    <3>1. itsClientDataBuffer = <<>> /\ itsGatewayStatus # "ONGOING"
          /\ streamerStatus' = IF itsGatewayStatus = "FINISHED" THEN "EXIT_OK"
                               ELSE "EXIT_ERROR"
      BY <1>2, <2>3 DEF PeekReturns, StatusSeen, NothingYet
    <3>2. Out = delivered
      BY <3>1, OutType
    <3> QED
      BY <2>1, <3>1, <3>2 DEF TypeOK, Abstract!Next, Abstract!ReportEnd
  <2> QED  BY <2>2, <2>3
<1>3. CASE GetChunkReturns
  <2>1. delivered' = Out /\ itsClientDataBuffer' = <<>> /\ itsGatewayStatus' = itsGatewayStatus
    BY <1>3 DEF GetChunkReturns, TakeClientData, Out
  <2>2. Out' = Out
    BY <2>1, OutType, ConcatEmptySeq DEF Out
  <2>3. CASE streamerStatus' = streamerStatus
    BY <2>1, <2>2, <2>3 DEF Abstract!Next, Abstract!Take
  <2>4. CASE streamerStatus' # streamerStatus
    <3>1. itsClientDataBuffer = <<>> /\ itsGatewayStatus # "ONGOING"
          /\ streamerStatus' = IF itsGatewayStatus = "FINISHED" THEN "EXIT_OK"
                               ELSE "EXIT_ERROR"
      BY <1>3, <2>4 DEF GetChunkReturns, StatusSeen, NothingYet
    <3>2. Out = delivered
      BY <3>1, OutType
    <3> QED
      BY <2>1, <2>2, <3>1, <3>2 DEF TypeOK, Abstract!Next, Abstract!ReportEnd
  <2> QED  BY <2>3, <2>4
<1> QED
  BY <1>1, <1>2, <1>3 DEF ServerThread, Peek, GetChunk

LEMMA StreamHeaders ==
  ASSUME TypeOK, Control, Data, NEW chunk \in Chunks,
         NEW h \in {"readCacheResponse", "readDataResponseHeaders"}, Receive(h, chunk),
         itsClientDataBuffer' = itsResponseHeaderBuffer \o chunk,
         UNCHANGED <<serverVars, itsGatewayStatus>>
  PROVE  Abstract!Produce
<1>1. /\ Out = <<>> /\ delivered' = <<>> /\ itsClientDataBuffer' = wire'
      /\ itsGatewayStatus = "ONGOING" /\ wire' \in Seq(Bytes)
      /\ Len(wire') = Len(wire) + Len(chunk) /\ Len(wire) \in Nat /\ Len(chunk) \in Nat \ {0}
  BY Received, HeadersSeen, SizesAssumption DEF serverVars
<1>2. Out' = wire'
  BY <1>1, ConcatEmptySeq DEF Out
<1>3. wire' # <<>>
  BY <1>1, EmptySeq
<1> QED  BY <1>1, <1>2, <1>3, FirstBytes DEF serverVars

LEMMA StreamPool ==
  ASSUME TypeOK, Control, Data, ReadCompletes \/ ContentRequest
  PROVE  [Abstract!Next]_Abstract!streamVars
<1>1. ASSUME NEW chunk \in Chunks, ReadHeaders(chunk)
      PROVE  [Abstract!Next]_Abstract!streamVars
  <2>1. PICK h \in {"readCacheResponse", "readDataResponseHeaders"} :
          ReadHeadersIncomplete(h, chunk) \/ ReadHeadersFailed(h, chunk)
    BY <1>1 DEF ReadHeaders
  <2>2. CASE ReadHeadersIncomplete(h, chunk)
    BY <2>2, StreamQuiet DEF ReadHeadersIncomplete, serverVars, flagVars
  <2>3. CASE ReadHeadersFailed(h, chunk)
    <3>1. /\ itsGatewayStatus = "ONGOING" /\ itsGatewayStatus' = "FAILED"
          /\ Out' = Out /\ UNCHANGED <<delivered, streamerStatus>>
      BY <2>3, Received DEF ReadHeadersFailed, serverVars, Out
    <3> QED  BY <3>1 DEF Abstract!Next, Abstract!End
  <2> QED  BY <2>1, <2>2, <2>3
<1>2. ASSUME NEW chunk \in Chunks, ReadCachePassThrough(chunk)
      PROVE  [Abstract!Next]_Abstract!streamVars
  BY <1>2, StreamHeaders DEF ReadCachePassThrough, HeadersComplete, Abstract!Next
<1>3. ASSUME NEW chunk \in Chunks, ReadCacheHit(chunk)
      PROVE  [Abstract!Next]_Abstract!streamVars
  <2>1. /\ Receive("readCacheResponse", chunk)
        /\ reply.etag # NoETag /\ CacheLookup(reply.etag) # NoBuffer
        /\ itsClientDataBuffer' \in CacheResponses(CacheLookup(reply.etag))
        /\ itsGatewayStatus' = "FINISHED" /\ UNCHANGED serverVars
    BY <1>3 DEF ReadCacheHit, HeadersComplete
  <2>2. CacheLookup(reply.etag) \in Seq(Bytes)
    BY <2>1, LookupFacts DEF TypeOK
  <2>3. /\ <<CachedHead>> \in Seq(Bytes) /\ <<CachedHead>> # <<>>
        /\ <<CachedHead>> \o CacheLookup(reply.etag) \in Seq(Bytes)
        /\ <<CachedHead>> \o CacheLookup(reply.etag) # <<>>
    BY <2>2, HeadThenBody, ValuesAssumption
  <2>4. itsClientDataBuffer' \in Seq(Bytes) /\ itsClientDataBuffer' # <<>>
    BY <2>1, <2>3 DEF CacheResponses
  <2>5. Out = <<>> /\ delivered' = <<>> /\ itsGatewayStatus = "ONGOING"
    BY <2>1, Received, HeadersSeen DEF serverVars
  <2>6. Out' = itsClientDataBuffer'
    BY <2>4, <2>5, ConcatEmptySeq DEF Out
  <2>7. Abstract!Produce
    BY <2>1, <2>4, <2>5, <2>6, FirstBytes DEF serverVars
  <2> QED  BY <2>7 DEF Abstract!Next
<1>4. ASSUME NEW chunk \in Chunks, ReadCacheMiss(chunk)
      PROVE  [Abstract!Next]_Abstract!streamVars
  <2>1. reads = <<"readCacheResponse">>
    BY <1>4, OneRead DEF ReadCacheMiss, Control
  <2>2. itsClientDataBuffer = <<>> /\ itsClientDataBuffer' = <<>>
    BY <1>4, <2>1 DEF Data, ReadingHeaders, ReadCacheMiss, ClearBuffers
  <2> QED
    BY <1>4, <2>2, StreamQuiet DEF ReadCacheMiss, serverVars, flagVars
<1>5. ASSUME NEW chunk \in Chunks, ReadDataHeadersComplete(chunk)
      PROVE  [Abstract!Next]_Abstract!streamVars
  BY <1>5, StreamHeaders DEF ReadDataHeadersComplete, HeadersComplete, Abstract!Next
<1>6. ASSUME NEW chunk \in Chunks, ReadData(chunk)
      PROVE  [Abstract!Next]_Abstract!streamVars
  <2>1. /\ itsGatewayStatus = "ONGOING" /\ chunk \in Seq(Bytes) /\ Len(chunk) > 0
    BY <1>6, Received, SizesAssumption DEF ReadData
  <2>2. /\ UNCHANGED <<delivered, streamerStatus, itsGatewayStatus>>
        /\ itsClientDataBuffer' = itsClientDataBuffer \o chunk
    BY <1>6 DEF ReadData, serverVars
  <2>3. delivered \o (itsClientDataBuffer \o chunk)
          = (delivered \o itsClientDataBuffer) \o chunk
    <3>1. delivered \in Seq(Bytes) /\ itsClientDataBuffer \in Seq(Bytes)
      BY DEF TypeOK
    <3> QED  BY <2>1, <3>1, Appended
  <2>4. Out' = Out \o chunk
    BY <2>2, <2>3 DEF Out
  <2>5. Abstract!Produce
    BY <2>1, <2>2, <2>4, MoreBytes
  <2> QED  BY <2>5 DEF Abstract!Next
<1>7. CASE ReadError
  <2>1. PICK err \in SocketErrors : HandleError(err)
    BY <1>7 DEF ReadError
  <2>2. /\ itsGatewayStatus = "ONGOING" /\ Out' = Out
        /\ UNCHANGED <<delivered, itsClientDataBuffer, streamerStatus>>
    BY <1>7 DEF ReadError, Control, OneReader, serverVars, bufferVars, Out
  <2>3. itsGatewayStatus' \in {"ONGOING", "FINISHED", "FAILED"}
    BY <2>1, <2>2 DEF HandleError
  <2>4. CASE itsGatewayStatus' = "ONGOING"
    BY <2>2, <2>4, StreamQuiet
  <2>5. CASE itsGatewayStatus' # "ONGOING"
    BY <2>2, <2>3, <2>5 DEF Abstract!Next, Abstract!End
  <2> QED  BY <2>4, <2>5
<1>8. CASE ContentRequestFails
  <2>1. /\ itsGatewayStatus = "ONGOING" /\ itsGatewayStatus' = "FAILED"
        /\ Out' = Out /\ UNCHANGED <<delivered, streamerStatus>>
    BY <1>8 DEF ContentRequestFails, Control, serverVars, bufferVars, Out
  <2> QED  BY <2>1 DEF Abstract!Next, Abstract!End
<1>9. CASE ContentRequestSent
  BY <1>9, StreamQuiet DEF ContentRequestSent, serverVars, flagVars, bufferVars
<1> QED
  BY <1>1, <1>2, <1>3, <1>4, <1>5, <1>6, <1>7, <1>8, <1>9
     DEF ReadCompletes, ReadChunk, ContentRequest

LEMMA StreamStep ==
  ASSUME IInv, [Next]_vars
  PROVE  [Abstract!Next]_Abstract!streamVars
<1>1. CASE Timer \/ OthersStore \/ CacheEvicts
  BY <1>1, StreamQuiet DEF Timer, TimerExpires, HandleTimeout, TimedOut, OthersStore,
     CacheEvicts, serverVars, flagVars, bufferVars
<1>2. CASE UNCHANGED vars
  BY <1>2, StreamQuiet DEF vars, serverVars, flagVars, bufferVars
<1> QED
  BY <1>1, <1>2, StreamServerThread, StreamPool DEF IInv, Next

(* The streamer implements the byte stream of GatewayStream.               *)
THEOREM StreamImplemented == Spec => ImplementsStream
<1>1. Init => Abstract!Init
  BY ConcatEmptySeq, EmptySeq DEF Init, Abstract!Init, Out
<1>2. IInv /\ [Next]_vars => [Abstract!Next]_Abstract!streamVars
  BY StreamStep
<1> QED
  BY <1>1, <1>2, Inductive, PTL DEF Spec, ImplementsStream, Abstract!Stream

(* The end of a stream is final: this holds of GatewayStream's steps.      *)
THEOREM EndStaysFinal == Spec => EndIsFinal
<1>1. [Abstract!Next]_Abstract!streamVars =>
        (itsGatewayStatus # "ONGOING" =>
           itsGatewayStatus' = itsGatewayStatus /\ Out' = Out)
  BY DEF Abstract!Next, Abstract!Produce, Abstract!End, Abstract!Take,
         Abstract!ReportEnd, Abstract!streamVars
<1>2. IInv /\ [Next]_vars =>
        [itsGatewayStatus # "ONGOING" =>
           itsGatewayStatus' = itsGatewayStatus /\ Out' = Out]_vars
  BY <1>1, StreamStep
<1> QED
  BY <1>2, Inductive, PTL DEF Spec, EndIsFinal

-----------------------------------------------------------------------------
(* The accounting of BackendAccount is implemented.                        *)

(* Only Create charges; all other steps leave the count or reduce it.      *)
LEMMA OnlyCreateCharges ==
  ASSUME TypeOK, Control, Next, ~Create
  PROVE  active' <= active /\ server # "start" /\ server' # "start"
<1>1. ASSUME NEW f \in BOOLEAN, Account(f)
      PROVE  active' <= active
  BY <1>1 DEF Account, TypeOK
<1>2. active <= active
  BY DEF TypeOK
<1>3. CASE ServerThread \/ ClientDisconnects
  BY <1>1, <1>2, <1>3 DEF ServerThread, ClientDisconnects, SendAndListen, Peek, GetChunk,
     SendAndListenFails, SendAndListenStartsTimer, SendAndListenReads, PeekSleeps,
     GetChunkSleeps, Sleep, PeekReturns, GetChunkReturns, StreamEnds, DropStreamer, countVars
<1>4. reads # <<>> \/ io = "connecting" \/ timer # "idle" => server # "start"
  BY DEF Control, Before
<1>5. CASE ReadCompletes \/ ContentRequest
  <2>1. server # "start"
    BY <1>4, <1>5 DEF ReadCompletes, ReadChunk, ReadHeaders, ReadHeadersIncomplete,
       ReadHeadersFailed, ReadCachePassThrough, ReadCacheHit, ReadCacheMiss,
       ReadDataHeadersComplete, ReadData, HeadersComplete, Receive, ReadError,
       ContentRequest, ContentRequestFails, ContentRequestSent
  <2>2. UNCHANGED serverVars
    BY <1>5 DEF ReadCompletes, ReadChunk, ReadHeaders, ReadHeadersIncomplete,
       ReadHeadersFailed, ReadCachePassThrough, ReadCacheHit, ReadCacheMiss,
       ReadDataHeadersComplete, ReadData, ReadError,
       ContentRequest, ContentRequestFails, ContentRequestSent
  <2>3. UNCHANGED active \/ Account(TRUE) \/ Account(FALSE)
    BY <1>5 DEF ReadCompletes, ReadChunk, ReadHeaders, ReadHeadersIncomplete,
       ReadHeadersFailed, ReadCachePassThrough, ReadCacheHit, ReadCacheMiss,
       ReadDataHeadersComplete, ReadData, ReadError,
       ContentRequest, ContentRequestFails, ContentRequestSent, countVars
  <2> QED  BY <1>1, <1>2, <2>1, <2>2, <2>3 DEF serverVars
<1>6. CASE Timer \/ OthersStore \/ CacheEvicts
  BY <1>1, <1>2, <1>4, <1>6 DEF Timer, TimerExpires, HandleTimeout, TimedOut, OthersStore,
     CacheEvicts, serverVars, countVars
<1> QED  BY <1>3, <1>5, <1>6 DEF Next

Charge ==
  IF server = "start" THEN "none"
  ELSE IF active = 1 THEN "charged"
  ELSE IF active = 0 THEN "released" ELSE "miscounted"

LEMMA AccountingStep ==
  ASSUME IInv, [Next]_vars
  PROVE  [Billing!Next]_Charge
<1>1. active \in {0, 1} /\ active' \in {0, 1}
  BY StepIInv DEF IInv, TypeOK
<1>2. CASE Create
  <2>1. active = 0
    BY <1>2 DEF Create, IInv, Control, ChargedOnce, Alive, Before
  <2> QED
    BY <1>2, <2>1 DEF Create, Charge, Billing!Next, Billing!Charge
<1>3. CASE Next /\ ~Create
  <2>1. active' <= active /\ server # "start" /\ server' # "start"
    BY <1>3, OnlyCreateCharges DEF IInv
  <2> QED
    BY <1>1, <2>1 DEF Charge, Billing!Next, Billing!Release
<1>4. CASE UNCHANGED vars
  BY <1>4 DEF vars, serverVars, countVars, Charge
<1> QED  BY <1>2, <1>3, <1>4

(* The backend is charged once for the request and released once.          *)
THEOREM AccountingImplemented == Spec => ImplementsAccounting
<1>1. Init => Charge = "none"
  BY DEF Init, Charge
<1>2. IInv /\ [Next]_vars => [Billing!Next]_Charge
  BY AccountingStep
<1> QED
  BY <1>1, <1>2, Inductive, PTL
     DEF Spec, ImplementsAccounting, Billing!Accounting, Billing!Init, Charge

-----------------------------------------------------------------------------
(* The reads run out.                                                      *)

(* How much of the exchange is left: the ETag query, its answer, the       *)
(* content request, its headers, its body.                                 *)
StageOf(thread, status, handler, queue) ==
  CASE thread \in Before -> 5
    [] thread \notin Before /\ status # "ONGOING" -> 0
    [] thread \notin Before /\ status = "ONGOING" /\ handler = "connecting" -> 3
    [] thread \notin Before /\ status = "ONGOING" /\ handler # "connecting"
         /\ queue = <<"readCacheResponse">> -> 4
    [] thread \notin Before /\ status = "ONGOING" /\ handler # "connecting"
         /\ queue = <<"readDataResponseHeaders">> -> 2
    [] OTHER -> 1

Stage == StageOf(server, itsGatewayStatus, io, reads)

(* The bytes of the reply that are still to come on the connection. *)
Left == Len(reply.bytes) - Len(wire)

(* From one stage to the next, or on with the bytes of the same reply. *)
Onward == \/ Stage' < Stage
          \/ Stage' = Stage /\ Left' < Left

Measured == Stage \in 0..5 /\ Left \in Nat

ReadsRunOut ==
  /\ []Measured
  /\ [][\/ Onward
        \/ Stage' = Stage /\ Left' = Left /\ ~(ReadCompletes \/ ContentRequest)]_vars

LEMMA MeasureTypes == ASSUME IInv PROVE Measured
<1>1. Stage \in 0..5
  BY DEF Stage, StageOf
<1>2. /\ Len(wire) \in Nat /\ Len(reply.bytes) \in Nat /\ Len(wire) <= Len(reply.bytes)
  BY ReplyFacts, LenProperties DEF IInv, TypeOK, Data, IsPrefixOf
<1> QED  BY <1>1, <1>2 DEF Measured, Left

(* A chunk of the present reply leaves less of it. *)
LEMMA ChunkTaken ==
  ASSUME IInv, NEW chunk \in Chunks, NEW h, Receive(h, chunk), reply' = reply
  PROVE  Left' < Left
<1>1. Len(wire) \in Nat /\ Len(wire') = Len(wire) + Len(chunk) /\ Len(chunk) \in 1..SocketBuffer
  BY Received DEF IInv
<1>2. Len(reply.bytes) \in Nat /\ Len(chunk) \in Nat \ {0}
  BY <1>1, ReplyFacts, SizesAssumption DEF IInv, TypeOK
<1> QED  BY <1>1, <1>2 DEF Left

LEMMA NextStage == ASSUME Stage' < Stage PROVE Onward
  BY DEF Onward

LEMMA PoolOnward ==
  ASSUME IInv, ReadCompletes \/ ContentRequest
  PROVE  Onward
<1>1. ASSUME NEW chunk \in Chunks, NEW h, Receive(h, chunk), UNCHANGED server
      PROVE  /\ server \notin Before /\ server' \notin Before
             /\ itsGatewayStatus = "ONGOING" /\ io = "idle" /\ reads = <<h>>
             /\ \A g \in Handlers : Append(Tail(reads), g) = <<g>>
             /\ Tail(reads) = <<>>
  BY <1>1, Received DEF IInv
<1>2. ASSUME NEW chunk \in Chunks, NEW h \in {"readCacheResponse", "readDataResponseHeaders"},
             ReadHeadersIncomplete(h, chunk)
      PROVE  Onward
  <2>1. /\ Receive(h, chunk) /\ reply' = reply /\ io' = io /\ server' = server
        /\ itsGatewayStatus' = itsGatewayStatus /\ reads' = Append(Tail(reads), h)
    BY <1>2 DEF ReadHeadersIncomplete, ReadOn, serverVars, flagVars
  <2>2. reads' = reads
    BY <1>1, <2>1 DEF Handlers
  <2>3. Left' < Left
    BY <2>1, ChunkTaken
  <2> QED  BY <2>1, <2>2, <2>3 DEF Onward, Stage
<1>3. ASSUME NEW chunk \in Chunks, NEW h \in {"readCacheResponse", "readDataResponseHeaders"},
             ReadHeadersFailed(h, chunk)
      PROVE  Onward
  <2>1. /\ Receive(h, chunk) /\ server' = server /\ itsGatewayStatus' = "FAILED"
    BY <1>3 DEF ReadHeadersFailed, serverVars
  <2>2. /\ server \notin Before /\ server' \notin Before
        /\ itsGatewayStatus = "ONGOING" /\ io = "idle" /\ reads = <<h>>
    BY <1>1, <2>1
  <2>3. Stage' < Stage
    BY <2>1, <2>2 DEF Stage, StageOf
  <2> QED  BY <2>3, NextStage
<1>4. ASSUME NEW chunk \in Chunks, ReadCachePassThrough(chunk) \/ ReadDataHeadersComplete(chunk)
      PROVE  Onward
  <2>1. PICK h \in {"readCacheResponse", "readDataResponseHeaders"} :
          /\ Receive(h, chunk) /\ server' = server /\ io' = io
          /\ itsGatewayStatus' = itsGatewayStatus
          /\ reads' = Append(Tail(reads), "readDataResponse")
    BY <1>4 DEF ReadCachePassThrough, ReadDataHeadersComplete, HeadersComplete, ReadOn,
       serverVars
  <2>2. /\ server \notin Before /\ server' \notin Before
        /\ itsGatewayStatus = "ONGOING" /\ io = "idle" /\ reads = <<h>>
        /\ reads' = <<"readDataResponse">>
    BY <1>1, <2>1 DEF Handlers
  <2>3. Stage' < Stage
    BY <2>1, <2>2 DEF Stage, StageOf
  <2> QED  BY <2>3, NextStage
<1>5. ASSUME NEW chunk \in Chunks, ReadCacheHit(chunk)
      PROVE  Onward
  <2>1. /\ Receive("readCacheResponse", chunk) /\ server' = server
        /\ itsGatewayStatus' = "FINISHED"
    BY <1>5 DEF ReadCacheHit, HeadersComplete, serverVars
  <2>2. /\ server \notin Before /\ server' \notin Before
        /\ itsGatewayStatus = "ONGOING" /\ io = "idle" /\ reads = <<"readCacheResponse">>
    BY <1>1, <2>1
  <2>3. Stage' < Stage
    BY <2>1, <2>2 DEF Stage, StageOf
  <2> QED  BY <2>3, NextStage
<1>6. ASSUME NEW chunk \in Chunks, ReadCacheMiss(chunk)
      PROVE  Onward
  <2>1. /\ server' = server /\ itsGatewayStatus' = itsGatewayStatus /\ io' = "connecting"
        /\ io = "idle" /\ reads # <<>> /\ Head(reads) = "readCacheResponse"
    BY <1>6 DEF ReadCacheMiss, MutexFree, serverVars, flagVars
  <2>2. /\ server \notin Before /\ itsGatewayStatus = "ONGOING"
        /\ reads = <<"readCacheResponse">>
    BY <2>1, OneRead DEF IInv, Control, OneReader
  <2>3. Stage' < Stage
    BY <2>1, <2>2 DEF Stage, StageOf
  <2> QED  BY <2>3, NextStage
<1>7. ASSUME NEW chunk \in Chunks, ReadData(chunk)
      PROVE  Onward
  <2>1. /\ Receive("readDataResponse", chunk) /\ reply' = reply /\ io' = io
        /\ server' = server /\ itsGatewayStatus' = itsGatewayStatus
        /\ reads' \in {Tail(reads), Append(Tail(reads), "readDataResponse")}
    BY <1>7 DEF ReadData, ReadOnOrSuspend, ReadOn, serverVars
  <2>2. /\ server \notin Before /\ itsGatewayStatus = "ONGOING" /\ io = "idle"
        /\ reads = <<"readDataResponse">> /\ reads' \in {<<>>, <<"readDataResponse">>}
    BY <1>1, <2>1 DEF Handlers
  <2>3. Stage' = 1 /\ Stage = 1
    BY <2>1, <2>2 DEF Stage, StageOf
  <2>4. Left' < Left
    BY <2>1, ChunkTaken
  <2> QED  BY <2>3, <2>4 DEF Onward
<1>8. CASE ReadError
  <2>1. /\ server' = server /\ io = "idle" /\ reads # <<>>
    BY <1>8 DEF ReadError, MutexFree, serverVars
  <2>2. /\ socket = "open" /\ itsGatewayStatus = "ONGOING" /\ server \notin Before
    BY <2>1 DEF IInv, Control, OneReader
  <2>3. itsGatewayStatus' \in {"FINISHED", "FAILED"}
    BY <1>8, <2>2 DEF ReadError, SocketErrors, HandleError
  <2>4. Stage' < Stage
    BY <2>1, <2>2, <2>3 DEF Stage, StageOf
  <2> QED  BY <2>4, NextStage
<1>9. CASE ContentRequest
  <2>1. /\ server' = server /\ io = "connecting" /\ io' = "idle"
        /\ \/ itsGatewayStatus' = "FAILED"
           \/ /\ itsGatewayStatus' = itsGatewayStatus
              /\ reads' = Append(reads, "readDataResponseHeaders")
    BY <1>9 DEF ContentRequest, ContentRequestFails, ContentRequestSent, serverVars, flagVars
  <2>2. /\ server \notin Before /\ itsGatewayStatus = "ONGOING" /\ reads = <<>>
    BY <2>1 DEF IInv, Control
  <2>3. Append(reads, "readDataResponseHeaders") = <<"readDataResponseHeaders">>
    BY <2>2, Singleton DEF Handlers
  <2>4. Stage' < Stage
    BY <2>1, <2>2, <2>3 DEF Stage, StageOf
  <2> QED  BY <2>4, NextStage
<1> QED
  BY <1>2, <1>3, <1>4, <1>5, <1>6, <1>7, <1>8, <1>9
     DEF ReadCompletes, ReadChunk, ReadHeaders

LEMMA RestOnward ==
  ASSUME IInv, [Next]_vars, ~(ReadCompletes \/ ContentRequest)
  PROVE  \/ Onward
         \/ Stage' = Stage /\ Left' = Left
<1>1. ASSUME UNCHANGED <<itsGatewayStatus, io, reads, reply, wire>>,
             server \in Before <=> server' \in Before
      PROVE  Stage' = Stage /\ Left' = Left
  BY <1>1 DEF Stage, StageOf, Left
<1>2. CASE Create \/ SendAndListenStartsTimer
  BY <1>1, <1>2 DEF Create, SendAndListenStartsTimer, flagVars, connVars, Before
<1>3. CASE SendAndListenFails \/ SendAndListenReads
  <2>1. /\ server \in Before /\ server' \notin Before
    BY <1>3 DEF SendAndListenFails, SendAndListenReads, Before
  <2>2. Stage' < Stage
    BY <2>1 DEF Stage, StageOf
  <2> QED  BY <2>2, NextStage
<1>4. CASE \/ PeekSleeps \/ GetChunkSleeps \/ PeekReturns
           \/ StreamEnds \/ ClientDisconnects
  <2>1. /\ UNCHANGED <<itsGatewayStatus, io, reads, reply, wire>>
        /\ server \notin Before /\ server' \notin Before
    BY <1>4 DEF PeekSleeps, GetChunkSleeps, Sleep, PeekReturns, StreamEnds,
       ClientDisconnects, DropStreamer, flagVars, connVars, Before
  <2> QED  BY <1>1, <2>1
<1>5. CASE GetChunkReturns
  <2>1. /\ UNCHANGED <<itsGatewayStatus, io, reply, wire>> /\ io = "idle"
        /\ server \notin Before /\ server' \notin Before
    BY <1>5 DEF GetChunkReturns, MutexFree, connVars, Before
  <2>2. CASE itsBackendBufferFull
    <3>1. reads = <<>> /\ itsGatewayStatus = "ONGOING"
      BY <2>2 DEF IInv, Control, OneReader
    <3>2. reads' = <<"readDataResponse">>
      BY <1>5, <2>2, <3>1, Singleton DEF GetChunkReturns, ResumeReading, Handlers
    <3>3. Stage = 1 /\ Stage' = 1
      BY <2>1, <3>1, <3>2 DEF Stage, StageOf
    <3> QED  BY <2>1, <3>3 DEF Left
  <2>3. CASE ~itsBackendBufferFull
    <3>1. reads' = reads
      BY <1>5, <2>3 DEF GetChunkReturns, ResumeReading
    <3> QED  BY <1>1, <2>1, <3>1
  <2> QED  BY <2>2, <2>3
<1>6. CASE Timer \/ OthersStore \/ CacheEvicts
  BY <1>1, <1>6 DEF Timer, TimerExpires, HandleTimeout, TimedOut, OthersStore, CacheEvicts,
     serverVars, flagVars, connVars
<1>7. CASE UNCHANGED vars
  BY <1>1, <1>7 DEF vars, serverVars, flagVars, connVars
<1> QED
  BY <1>2, <1>3, <1>4, <1>5, <1>6, <1>7
     DEF Next, ServerThread, SendAndListen, Peek, GetChunk

(* Each completion of a read, whatever chunk or error it brings, and each  *)
(* end of sendContentRequest brings the exchange to its next stage or is   *)
(* another part of the same reply, and nothing else takes it back: the     *)
(* backend is asked twice at most, and a reply that ends ends the reading. *)
THEOREM ReadsAreFinite == Spec => ReadsRunOut
<1>1. IInv => Measured
  BY MeasureTypes
<1>2. IInv /\ [Next]_vars =>
        [\/ Onward
         \/ Stage' = Stage /\ Left' = Left /\ ~(ReadCompletes \/ ContentRequest)]_vars
  BY PoolOnward, RestOnward
<1> QED  BY <1>1, <1>2, Inductive, PTL DEF Spec, ReadsRunOut
=============================================================================
