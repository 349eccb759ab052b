--------------------------- MODULE GatewayStreamer ---------------------------
(***************************************************************************)
(* LowLatencyGatewayStreamer: one request forwarded to one backend.        *)
(*                                                                         *)
(* The server thread of the frontend creates the streamer, sends the       *)
(* request (sendAndListen), peeks at the answer (Proxy::HTTPForward) and   *)
(* then pulls the bytes (getChunk).  The threads of the proxy's ASIO pool  *)
(* run the completion handlers of the socket and of the timeout timer.     *)
(* The object lives as long as the server thread, a pending read or a      *)
(* pending timer wait holds a shared_ptr to it.                            *)
(*                                                                         *)
(* The backend is first asked for an ETag only; if the frontend's cache    *)
(* holds that ETag the answer comes from the cache, and otherwise the      *)
(* content is asked for on a second connection and stored at its end.      *)
(***************************************************************************)
EXTENDS Naturals, Integers, Sequences

CONSTANTS
  Bytes,            \* the units a byte stream is made of
  ETags, NoETag,    \* the ETags of the backends' products
  Encodings, Identity,
  CacheReplies,     \* the replies a backend may give to an ETag query
  ContentReplies,   \* the replies a backend may give to a content request
  DenialLines,      \* the status lines that mean "shutting down", "high load"
  CachedHead,       \* the headers of a response built from the cache
  NoBuffer,         \* absence of a cache entry
  SocketBuffer,     \* bytes one read returns at most (itsSocketBuffer)
  MaxBuffer,        \* proxy_max_buffer_size
  MaxCached         \* proxy_max_cached_buffer_size

(* A backend's reply: its bytes, how many of them the header parser needs  *)
(* before it decides, whether it then finds them garbled, and the headers  *)
(* the streamer looks at.  "storable" stands for: has a Content-Type, no   *)
(* Transfer-Encoding and status 200.                                       *)
Replies ==
  [bytes : Seq(Bytes), head : Nat \ {0}, garbled : BOOLEAN,
   etag : ETags \cup {NoETag}, enc : Encodings, storable : BOOLEAN]

Body(r) == SubSeq(r.bytes, r.head + 1, Len(r.bytes))

ASSUME RepliesAssumption ==
  /\ CacheReplies \subseteq Replies
  /\ ContentReplies \subseteq Replies
  /\ \A r \in CacheReplies \cup ContentReplies : r.head <= Len(r.bytes)

ASSUME ValuesAssumption ==
  /\ NoETag \notin ETags
  /\ Identity \in Encodings
  /\ CachedHead \in Bytes \ DenialLines
  /\ NoBuffer \notin Seq(Bytes)

ASSUME SizesAssumption ==
  /\ SocketBuffer \in Nat \ {0}
  /\ MaxBuffer \in Nat
  /\ MaxCached \in Nat
  /\ SocketBuffer <= MaxCached

Keys     == ETags \X Encodings
Handlers == {"readCacheResponse", "readDataResponseHeaders", "readDataResponse"}
Requests == [accepts : Encodings, conditional : BOOLEAN]

VARIABLES
  \* the server thread
  server,                  \* where the thread is in HTTPForward and getChunk
  proxyStatus,             \* what HTTPForward has returned
  streamerStatus,          \* ContentStreamer::StreamerStatus
  delivered,               \* every byte getChunk has returned
  \* the streamer's members
  request,                 \* itsOriginalRequest
  itsGatewayStatus, itsResponseIsCacheable, itsBackendBufferFull,
  itsHasTimedOut, itsFinishing,
  itsClientDataBuffer, itsResponseHeaderBuffer, itsCachedContent,
  itsBackendMetadata,
  \* what the ASIO pool holds for it
  reads,                   \* handlers of the reads pending on itsBackendSocket
  timer,                   \* the async_wait on itsTimeoutTimer
  io,                      \* "connecting": a handler is in sendContentRequest,
                           \* holding itsMutex
  \* the backend connection
  socket, reply,
  wire,                    \* every byte read from the present connection
  \* shared with the other requests
  cache,                   \* Proxy's ResponseCache, (ETag, encoding) -> body
  active                   \* Reactor's count of requests to this backend,
                           \* as far as this one contributes to it

serverVars == <<server, proxyStatus, streamerStatus, delivered>>
bufferVars == <<itsClientDataBuffer, itsResponseHeaderBuffer, itsCachedContent,
                itsBackendMetadata>>
flagVars   == <<itsGatewayStatus, itsResponseIsCacheable, itsBackendBufferFull,
                itsHasTimedOut>>
connVars   == <<socket, reply, wire>>
countVars  == <<itsFinishing, active>>
vars == <<serverVars, request, flagVars, bufferVars, countVars, reads, timer,
          io, connVars, cache>>

-----------------------------------------------------------------------------
(* Object lifetime and the Reactor's account of active requests.           *)

(* Some shared_ptr to the streamer exists. *)
Alive ==
  \/ server \notin {"start", "gone"}
  \/ reads # <<>>
  \/ timer # "idle"
  \/ io # "idle"

(* Mutants: the destructor releases what markFinishing() has released      *)
(* already; the destructor does not release anything.                      *)
AccountTwice(finishing) ==
  /\ itsFinishing' = (itsFinishing \/ finishing)
  /\ active' = active - (IF ~itsFinishing /\ finishing THEN 1 ELSE 0)
                      - (IF ~Alive' THEN 1 ELSE 0)

AccountNoDestructor(finishing) ==
  /\ itsFinishing' = (itsFinishing \/ finishing)
  /\ active' = active - (IF ~itsFinishing /\ finishing THEN 1 ELSE 0)

(* What a step does to the account: markFinishing() if it calls it, and    *)
(* the destructor if the step drops the last reference.                    *)
Account(finishing) ==
  /\ itsFinishing' = (itsFinishing \/ finishing)
  /\ active' = active - (IF ~itsFinishing /\ (finishing \/ ~Alive') THEN 1 ELSE 0)

(* cancel() and expires_after() of the timer complete a pending wait with  *)
(* operation_aborted; a wait that has expired already is left alone.       *)
Cancelled(t) == IF t = "waiting" THEN "aborted" ELSE t

MutexFree == io = "idle"

-----------------------------------------------------------------------------
(* The server thread.                                                      *)

Init ==
  /\ server = "start" /\ proxyStatus = "NONE" /\ streamerStatus = "OK"
  /\ delivered = <<>>
  /\ request \in Requests
  /\ itsGatewayStatus = "ONGOING"
  /\ itsResponseIsCacheable = TRUE
  /\ itsBackendBufferFull = FALSE
  /\ itsHasTimedOut = FALSE
  /\ itsFinishing = FALSE
  /\ itsClientDataBuffer = <<>> /\ itsResponseHeaderBuffer = <<>>
  /\ itsCachedContent = <<>>
  /\ itsBackendMetadata = [etag |-> NoETag, enc |-> Identity]
  /\ reads = <<>> /\ timer = "idle" /\ io = "idle"
  /\ socket = "closed" /\ reply \in CacheReplies /\ wire = <<>>
  /\ cache = [k \in Keys |-> NoBuffer]
  /\ active = 0

(* HTTPForward makes the streamer, whose constructor charges the backend. *)
Create ==
  /\ server = "start"
  /\ server' = "connect"
  /\ active' = active + 1
  /\ UNCHANGED <<proxyStatus, streamerStatus, delivered, request, flagVars,
                 bufferVars, itsFinishing, reads, timer, io, connVars, cache>>

(* sendAndListen could not connect or write: the streamer is dropped. *)
SendAndListenFails ==
  /\ server = "connect"
  /\ server' = "gone"
  /\ proxyStatus' = "FAIL_REMOTE_HOST"
  /\ UNCHANGED <<streamerStatus, delivered, request, flagVars, bufferVars,
                 reads, timer, io, connVars, cache>>
  /\ Account(FALSE)

(* sendAndListen has sent the ETag query and starts the timeout timer. *)
SendAndListenStartsTimer ==
  /\ server = "connect"
  /\ server' = "listen"
  /\ socket' = "open"
  /\ timer' = "waiting"
  /\ UNCHANGED <<proxyStatus, streamerStatus, delivered, request, flagVars,
                 bufferVars, countVars, reads, io, reply, wire, cache>>

(* sendAndListen starts the first read and returns true. *)
SendAndListenReads ==
  /\ server = "listen"
  /\ server' = "peek"
  /\ reads' = Append(reads, "readCacheResponse")
  /\ UNCHANGED <<proxyStatus, streamerStatus, delivered, request, flagVars,
                 bufferVars, countVars, timer, io, connVars, cache>>

(* getChunk and getPeekString sleep at most 100 ms on itsDataAvailableEvent *)
(* when nothing has come yet.  The wait ends by itself, so a notification   *)
(* only shortens it and is not modelled.                                    *)
NothingYet == itsClientDataBuffer = <<>> /\ itsGatewayStatus = "ONGOING"

(* Mutant: the end is reported although bytes are waiting. *)
StatusSeenEarly(asleep) ==
  IF asleep \/ itsGatewayStatus = "ONGOING" THEN streamerStatus
  ELSE IF itsGatewayStatus = "FINISHED" THEN "EXIT_OK" ELSE "EXIT_ERROR"

(* setStatus() at the end of the stream, when the call did not sleep. *)
StatusSeen(asleep) ==
  IF asleep \/ itsClientDataBuffer # <<>> THEN streamerStatus
  ELSE IF itsGatewayStatus = "FINISHED" THEN "EXIT_OK" ELSE "EXIT_ERROR"

Sleep(from, to) ==
  /\ server = from /\ MutexFree
  /\ NothingYet
  /\ server' = to
  /\ UNCHANGED <<proxyStatus, streamerStatus, delivered, request, flagVars,
                 bufferVars, countVars, reads, timer, io, connVars, cache>>

PeekSleeps     == Sleep("peek", "peekSleep")
GetChunkSleeps == Sleep("stream", "chunkSleep")

(* parseBackendDenyReason: the status line, the first thing of the prefix, *)
(* says that the backend refuses the request.                              *)
BackendDenies(prefix) == prefix # <<>> /\ prefix[1] \in DenialLines

(* getPeekString returns and HTTPForward decides on what it sees. *)
PeekReturns ==
  /\ MutexFree
  /\ \/ server = "peek" /\ ~NothingYet
     \/ server = "peekSleep"
  /\ streamerStatus' = StatusSeen(server = "peekSleep")
  /\ \/ /\ BackendDenies(itsClientDataBuffer)
        /\ proxyStatus' = "FAIL_REMOTE_DENIED"
        /\ server' = "gone"
     \/ /\ ~BackendDenies(itsClientDataBuffer)
        /\ proxyStatus' = "SUCCESS"
        /\ server' = "stream"
  /\ UNCHANGED <<delivered, request, flagVars, bufferVars, reads, timer, io,
                 connVars, cache>>
  /\ Account(FALSE)

(* Mutant: the bytes returned stay in the buffer. *)
TakeClientDataAgain ==
  /\ delivered' = delivered \o itsClientDataBuffer
  /\ UNCHANGED itsClientDataBuffer

TakeClientData ==
  /\ delivered' = delivered \o itsClientDataBuffer
  /\ itsClientDataBuffer' = <<>>

(* Mutant: the flag is cleared but the read is not resumed. *)
ResumeReadingForgotten == UNCHANGED <<reads, timer>>

(* Start the read that a full buffer has suspended. *)
ResumeReading ==
  \/ /\ itsBackendBufferFull
     /\ reads' = Append(reads, "readDataResponse")
     /\ timer' = Cancelled(timer)
  \/ /\ ~itsBackendBufferFull
     /\ UNCHANGED <<reads, timer>>

(* getChunk returns all there is. *)
GetChunkReturns ==
  /\ MutexFree
  /\ \/ server = "stream" /\ ~NothingYet
     \/ server = "chunkSleep"
  /\ streamerStatus' = StatusSeen(server = "chunkSleep")
  /\ server' = "stream"
  /\ TakeClientData
  /\ ResumeReading
  /\ itsBackendBufferFull' = FALSE
  /\ UNCHANGED <<proxyStatus, request, itsGatewayStatus, itsResponseIsCacheable,
                 itsHasTimedOut, itsResponseHeaderBuffer, itsCachedContent,
                 itsBackendMetadata, countVars, io, connVars, cache>>

DropStreamer ==
  /\ server = "stream"
  /\ server' = "gone"
  /\ UNCHANGED <<proxyStatus, streamerStatus, delivered, request, flagVars,
                 bufferVars, reads, timer, io, connVars, cache>>
  /\ Account(FALSE)

(* The server is done with the response, or its client has gone away. *)
StreamEnds        == streamerStatus # "OK" /\ DropStreamer
ClientDisconnects == streamerStatus = "OK" /\ DropStreamer

-----------------------------------------------------------------------------
(* The ASIO pool: completion of the pending read.                          *)

(* Bytes one read can return: the next ones of the reply. *)
Chunks ==
  {SubSeq(reply.bytes, Len(wire) + 1, n) :
     n \in {m \in (Len(wire) + 1)..Len(reply.bytes) : m <= Len(wire) + SocketBuffer}}

(* The pending read, made for handler h, completes with a chunk. *)
Receive(h, chunk) ==
  /\ MutexFree
  /\ reads # <<>> /\ Head(reads) = h
  /\ socket = "open"
  /\ wire' = wire \o chunk

(* Outcome of Spine::HTTP::parseResponse on the reply's first n bytes. *)
ParseResponse(n) ==
  IF n < reply.head THEN "INCOMPLETE"
  ELSE IF reply.garbled THEN "FAILED" ELSE "COMPLETE"

(* async_read_some of handler h from within a handler, whose own read has  *)
(* completed, and the reset of the timeout timer.                          *)
ReadOn(h) ==
  /\ reads' = Append(Tail(reads), h)
  /\ timer' = Cancelled(timer)

(* readCacheResponse and readDataResponseHeaders, headers incomplete. *)
ReadHeadersIncomplete(h, chunk) ==
  /\ Receive(h, chunk)
  /\ ParseResponse(Len(itsResponseHeaderBuffer \o chunk)) = "INCOMPLETE"
  /\ itsResponseHeaderBuffer' = itsResponseHeaderBuffer \o chunk
  /\ ReadOn(h)
  /\ UNCHANGED <<serverVars, request, flagVars, itsClientDataBuffer,
                 itsCachedContent, itsBackendMetadata, countVars, io, socket,
                 reply, cache>>

(* Both again, garbled headers: nothing is scheduled, the timer runs on. *)
ReadHeadersFailed(h, chunk) ==
  /\ Receive(h, chunk)
  /\ ParseResponse(Len(itsResponseHeaderBuffer \o chunk)) = "FAILED"
  /\ itsResponseHeaderBuffer' = itsResponseHeaderBuffer \o chunk
  /\ itsGatewayStatus' = "FAILED"
  /\ reads' = Tail(reads)
  /\ UNCHANGED <<serverVars, request, itsResponseIsCacheable,
                 itsBackendBufferFull, itsHasTimedOut, itsClientDataBuffer,
                 itsCachedContent, itsBackendMetadata, timer, io, socket, reply,
                 cache>>
  /\ Account(FALSE)

HeadersComplete(h, chunk) ==
  /\ Receive(h, chunk)
  /\ ParseResponse(Len(itsResponseHeaderBuffer \o chunk)) = "COMPLETE"

(* readCacheResponse: no ETag, the reply is passed through as it comes. *)
ReadCachePassThrough(chunk) ==
  /\ HeadersComplete("readCacheResponse", chunk)
  /\ reply.etag = NoETag
  /\ itsResponseHeaderBuffer' = itsResponseHeaderBuffer \o chunk
  /\ itsResponseIsCacheable' = FALSE
  /\ itsClientDataBuffer' = itsResponseHeaderBuffer \o chunk
  /\ ReadOn("readDataResponse")
  /\ UNCHANGED <<serverVars, request, itsGatewayStatus, itsBackendBufferFull,
                 itsHasTimedOut, itsCachedContent, itsBackendMetadata, io,
                 socket, reply, cache>>
  /\ Account(TRUE)

(* The client's preferred encoding first, the identity encoding otherwise. *)
CacheLookup(etag) ==
  IF cache[<<etag, request.accepts>>] # NoBuffer
  THEN cache[<<etag, request.accepts>>]
  ELSE cache[<<etag, Identity>>]

(* buildCacheResponse: the headers and, unless a precondition of the       *)
(* request decides otherwise (304, 412), the cached body.                  *)
CacheResponses(buffer) ==
  {<<CachedHead>> \o buffer} \cup
  (IF request.conditional THEN {<<CachedHead>>} ELSE {})

(* readCacheResponse: the cache holds the product. *)
ReadCacheHit(chunk) ==
  /\ HeadersComplete("readCacheResponse", chunk)
  /\ reply.etag # NoETag
  /\ CacheLookup(reply.etag) # NoBuffer
  /\ itsResponseHeaderBuffer' = itsResponseHeaderBuffer \o chunk
  /\ itsResponseIsCacheable' = FALSE
  /\ itsClientDataBuffer' \in CacheResponses(CacheLookup(reply.etag))
  /\ itsGatewayStatus' = "FINISHED"
  /\ socket' = "closed"
  /\ reads' = Tail(reads)
  /\ UNCHANGED <<serverVars, request, itsBackendBufferFull, itsHasTimedOut,
                 itsCachedContent, itsBackendMetadata, timer, io, reply, cache>>
  /\ Account(TRUE)

(* Mutant: sendContentRequest leaves the headers of the ETag query. *)
ClearBuffersButHeaders ==
  /\ itsClientDataBuffer' = <<>>
  /\ itsCachedContent' = <<>>
  /\ UNCHANGED itsResponseHeaderBuffer

ClearBuffers ==
  /\ itsClientDataBuffer' = <<>>
  /\ itsResponseHeaderBuffer' = <<>>
  /\ itsCachedContent' = <<>>

(* readCacheResponse: the cache does not hold it; sendContentRequest closes *)
(* the connection, clears the buffers and sets out to make a new one.       *)
ReadCacheMiss(chunk) ==
  /\ MutexFree
  /\ reads # <<>> /\ Head(reads) = "readCacheResponse"
  /\ socket = "open"
  /\ ParseResponse(Len(itsResponseHeaderBuffer \o chunk)) = "COMPLETE"
  /\ reply.etag # NoETag
  /\ CacheLookup(reply.etag) = NoBuffer
  /\ socket' = "closed" /\ wire' = <<>>
  /\ ClearBuffers
  /\ reads' = Tail(reads)
  /\ io' = "connecting"
  /\ UNCHANGED <<serverVars, request, flagVars, itsBackendMetadata, countVars,
                 timer, reply, cache>>

(* Mutant: the failure is only logged. *)
ContentRequestFailsSilently ==
  /\ io = "connecting"
  /\ io' = "idle"
  /\ UNCHANGED <<serverVars, request, flagVars, bufferVars, reads, timer,
                 connVars, cache>>
  /\ Account(FALSE)

(* sendContentRequest: connect() or write() has failed. *)
ContentRequestFails ==
  /\ io = "connecting"
  /\ io' = "idle"
  /\ itsGatewayStatus' = "FAILED"
  /\ UNCHANGED <<serverVars, request, itsResponseIsCacheable,
                 itsBackendBufferFull, itsHasTimedOut, bufferVars, reads, timer,
                 connVars, cache>>
  /\ Account(FALSE)

(* sendContentRequest: the request is sent. *)
ContentRequestSent ==
  /\ io = "connecting"
  /\ io' = "idle"
  /\ socket' = "open" /\ reply' \in ContentReplies
  /\ reads' = Append(reads, "readDataResponseHeaders")
  /\ timer' = Cancelled(timer)
  /\ UNCHANGED <<serverVars, request, flagVars, bufferVars, countVars, wire,
                 cache>>

(* readDataResponseHeaders: headers complete; from here on the bytes go to  *)
(* the client, and those of a cacheable body also to itsCachedContent.      *)
ReadDataHeadersComplete(chunk) ==
  /\ HeadersComplete("readDataResponseHeaders", chunk)
  /\ itsResponseHeaderBuffer' = itsResponseHeaderBuffer \o chunk
  /\ itsClientDataBuffer' = itsResponseHeaderBuffer \o chunk
  /\ \/ /\ reply.etag # NoETag /\ reply.storable
        /\ itsBackendMetadata' = [etag |-> reply.etag, enc |-> reply.enc]
        /\ itsCachedContent' =
             SubSeq(itsResponseHeaderBuffer', reply.head + 1,
                    Len(itsResponseHeaderBuffer'))
        /\ UNCHANGED itsResponseIsCacheable
     \/ /\ reply.etag = NoETag \/ ~reply.storable
        /\ itsResponseIsCacheable' = FALSE
        /\ UNCHANGED <<itsBackendMetadata, itsCachedContent>>
  /\ ReadOn("readDataResponse")
  /\ UNCHANGED <<serverVars, request, itsGatewayStatus, itsBackendBufferFull,
                 itsHasTimedOut, countVars, io, socket, reply, cache>>

(* Mutant: the copy is given up but not the intention to store it. *)
CollectForCacheAnew(chunk) ==
  LET content == itsCachedContent \o chunk
  IN  /\ UNCHANGED itsResponseIsCacheable
      /\ IF ~itsResponseIsCacheable
         THEN UNCHANGED itsCachedContent
         ELSE itsCachedContent' = (IF Len(content) > MaxCached THEN <<>> ELSE content)

(* Mutant: the copy leaves out what does not fit. *)
CollectForCacheTruncated(chunk) ==
  LET content == itsCachedContent \o chunk
  IN  /\ UNCHANGED itsResponseIsCacheable
      /\ IF ~itsResponseIsCacheable \/ Len(content) > MaxCached
         THEN UNCHANGED itsCachedContent
         ELSE itsCachedContent' = content

(* readDataResponse's copy for the cache, given up when it grows too big. *)
CollectForCache(chunk) ==
  LET content == itsCachedContent \o chunk
  IN  IF ~itsResponseIsCacheable
      THEN UNCHANGED <<itsResponseIsCacheable, itsCachedContent>>
      ELSE IF Len(content) > MaxCached
      THEN itsResponseIsCacheable' = FALSE /\ itsCachedContent' = <<>>
      ELSE itsCachedContent' = content /\ UNCHANGED itsResponseIsCacheable

(* Mutants: a full buffer does not stop the reading; reading is never      *)
(* suspended.                                                              *)
ReadOnRegardless ==
  /\ itsBackendBufferFull' = (Len(itsClientDataBuffer') > MaxBuffer)
  /\ ReadOn("readDataResponse")

ReadOnUnbounded ==
  /\ UNCHANGED itsBackendBufferFull
  /\ ReadOn("readDataResponse")

(* Go on reading, or leave it to getChunk to do so when the server is too  *)
(* far behind.                                                             *)
ReadOnOrSuspend ==
  \/ /\ Len(itsClientDataBuffer') > MaxBuffer
     /\ itsBackendBufferFull' = TRUE
     /\ reads' = Tail(reads)
     /\ timer' = Cancelled(timer)
  \/ /\ Len(itsClientDataBuffer') <= MaxBuffer
     /\ ReadOn("readDataResponse")
     /\ UNCHANGED itsBackendBufferFull

(* readDataResponse: the bytes go to the client, and to the copy. *)
ReadData(chunk) ==
  /\ Receive("readDataResponse", chunk)
  /\ itsClientDataBuffer' = itsClientDataBuffer \o chunk
  /\ CollectForCache(chunk)
  /\ ReadOnOrSuspend
  /\ UNCHANGED <<serverVars, request, itsGatewayStatus, itsHasTimedOut,
                 itsResponseHeaderBuffer, itsBackendMetadata, io, socket, reply,
                 cache>>
  /\ Account(FALSE)

(* What the cache may hold after an insert: Fmi::Cache may keep the older  *)
(* entry of the same key.                                                  *)
Kept(old, new) == IF old = NoBuffer THEN {new} ELSE {old, new}

InsertCachedBuffer ==
  LET key == <<itsBackendMetadata.etag, itsBackendMetadata.enc>>
  IN  \E buffer \in Kept(cache[key], itsCachedContent) :
        cache' = [cache EXCEPT ![key] = buffer]

HandleError(err) ==
  /\ itsGatewayStatus' =
       CASE err = "eof"               -> "FINISHED"
         [] err = "operation_aborted" -> IF itsHasTimedOut THEN "FAILED"
                                         ELSE itsGatewayStatus
         [] OTHER                     -> "FAILED"
  /\ IF err = "eof" /\ itsResponseIsCacheable /\ itsCachedContent # <<>>
        /\ ~itsHasTimedOut
     THEN InsertCachedBuffer
     ELSE UNCHANGED cache
  /\ timer' = Cancelled(timer)

(* The errors a pending read can complete with: the backend shuts the      *)
(* connection (before or after the end of its reply) or breaks it; only    *)
(* closing our own end aborts a read.                                      *)
SocketErrors ==
  IF socket = "open" THEN {"eof", "connection_reset"} ELSE {"operation_aborted"}

(* The pending read completes with an error, in any of the handlers. *)
ReadError ==
  /\ MutexFree
  /\ reads # <<>>
  /\ \E err \in SocketErrors : HandleError(err)
  /\ reads' = Tail(reads)
  /\ UNCHANGED <<serverVars, request, itsResponseIsCacheable,
                 itsBackendBufferFull, itsHasTimedOut, bufferVars, io, connVars>>
  /\ Account(FALSE)

-----------------------------------------------------------------------------
(* The timeout timer, and the other requests that use the cache.           *)

TimerExpires ==
  /\ timer = "waiting"
  /\ timer' = "expired"
  /\ UNCHANGED <<serverVars, request, flagVars, bufferVars, countVars, reads, io,
                 connVars, cache>>

(* Mutant: the timeout fails a stream that may have ended already. *)
TimedOutFails ==
  \/ /\ timer = "expired"
     /\ itsHasTimedOut' = TRUE
     /\ itsResponseIsCacheable' = FALSE
     /\ itsGatewayStatus' = "FAILED"
  \/ /\ timer = "aborted"
     /\ UNCHANGED <<itsHasTimedOut, itsResponseIsCacheable, itsGatewayStatus>>

(* An expired wait sets two flags; an aborted one does nothing. *)
TimedOut ==
  \/ /\ timer = "expired"
     /\ itsHasTimedOut' = TRUE
     /\ itsResponseIsCacheable' = FALSE
     /\ UNCHANGED itsGatewayStatus
  \/ /\ timer = "aborted"
     /\ UNCHANGED <<itsHasTimedOut, itsResponseIsCacheable, itsGatewayStatus>>

(* handleTimeout: starts no other wait and does not touch the socket. *)
HandleTimeout ==
  /\ MutexFree
  /\ TimedOut
  /\ timer' = "idle"
  /\ UNCHANGED <<serverVars, request, itsBackendBufferFull, bufferVars, reads,
                 io, connVars, cache>>
  /\ Account(FALSE)

(* Another request stores a product, or the part of it that came before    *)
(* its connection was shut.                                                *)
OthersStore ==
  /\ server # "start" /\ Alive
  /\ \E r \in ContentReplies : \E n \in 1..MaxCached :
       /\ r.etag # NoETag /\ r.storable /\ ~r.garbled /\ n <= Len(Body(r))
       /\ cache' = [cache EXCEPT ![<<r.etag, r.enc>>] = SubSeq(Body(r), 1, n)]
  /\ UNCHANGED <<serverVars, request, flagVars, bufferVars, countVars, reads,
                 timer, io, connVars>>

CacheEvicts ==
  /\ server # "start" /\ Alive
  /\ \E k \in Keys : cache[k] # NoBuffer /\ cache' = [cache EXCEPT ![k] = NoBuffer]
  /\ UNCHANGED <<serverVars, request, flagVars, bufferVars, countVars, reads,
                 timer, io, connVars>>

-----------------------------------------------------------------------------
ReadHeaders(chunk) ==
  \E h \in {"readCacheResponse", "readDataResponseHeaders"} :
    ReadHeadersIncomplete(h, chunk) \/ ReadHeadersFailed(h, chunk)

ReadChunk ==
  \E chunk \in Chunks :
    \/ ReadHeaders(chunk)
    \/ ReadCachePassThrough(chunk)
    \/ ReadCacheHit(chunk)
    \/ ReadCacheMiss(chunk)
    \/ ReadDataHeadersComplete(chunk)
    \/ ReadData(chunk)

SendAndListen == SendAndListenFails \/ SendAndListenStartsTimer \/ SendAndListenReads
Peek          == PeekSleeps \/ PeekReturns
GetChunk      == GetChunkSleeps \/ GetChunkReturns
ServerThread  == Create \/ SendAndListen \/ Peek \/ GetChunk \/ StreamEnds
ReadCompletes == ReadChunk \/ ReadError
ContentRequest == ContentRequestFails \/ ContentRequestSent
Timer         == TimerExpires \/ HandleTimeout

Next ==
  \/ ServerThread
  \/ ClientDisconnects
  \/ ReadCompletes
  \/ ContentRequest
  \/ Timer
  \/ OthersStore
  \/ CacheEvicts

Spec == Init /\ [][Next]_vars

(* The server thread and the pool's threads run, blocking calls return and *)
(* the clock moves: what the frontend itself provides.                     *)
FrontendFairness ==
  /\ WF_vars(ServerThread)
  /\ WF_vars(ContentRequest)
  /\ WF_vars(Timer)
  /\ WF_vars(reads # <<>> /\ socket = "closed" /\ ReadError)

FrontendSpec == Spec /\ FrontendFairness

(* In addition, a backend that is waited for sends, closes or breaks: an   *)
(* assumption on the backend, not something the frontend can bring about.  *)
FairSpec == FrontendSpec /\ WF_vars(ReadCompletes)

-----------------------------------------------------------------------------
(* Properties.                                                             *)

TypeOK ==
  /\ server \in {"start", "connect", "listen", "peek", "peekSleep", "stream",
                 "chunkSleep", "gone"}
  /\ proxyStatus \in {"NONE", "FAIL_REMOTE_HOST", "FAIL_REMOTE_DENIED", "SUCCESS"}
  /\ streamerStatus \in {"OK", "EXIT_OK", "EXIT_ERROR"}
  /\ delivered \in Seq(Bytes)
  /\ request \in Requests
  /\ itsGatewayStatus \in {"ONGOING", "FINISHED", "FAILED"}
  /\ itsResponseIsCacheable \in BOOLEAN
  /\ itsBackendBufferFull \in BOOLEAN
  /\ itsHasTimedOut \in BOOLEAN
  /\ itsFinishing \in BOOLEAN
  /\ itsClientDataBuffer \in Seq(Bytes)
  /\ itsResponseHeaderBuffer \in Seq(Bytes)
  /\ itsCachedContent \in Seq(Bytes)
  /\ itsBackendMetadata \in [etag : ETags \cup {NoETag}, enc : Encodings]
  /\ reads \in Seq(Handlers)
  /\ timer \in {"idle", "waiting", "expired", "aborted"}
  /\ io \in {"idle", "connecting"}
  /\ socket \in {"open", "closed"}
  /\ reply \in CacheReplies \cup ContentReplies
  /\ wire \in Seq(Bytes)
  /\ cache \in [Keys -> Seq(Bytes) \cup {NoBuffer}]
  /\ active \in {0, 1}

(* There is one itsSocketBuffer, and readers are started in three handlers *)
(* and, by another thread, in getChunk: never two reads at a time, none    *)
(* while the client buffer is full, and none once the stream has ended.    *)
OneReader ==
  /\ Len(reads) <= 1
  /\ reads # <<>> => ~itsBackendBufferFull /\ itsGatewayStatus = "ONGOING"

(* A stream that goes on is not forgotten: a read is pending, or getChunk  *)
(* is to resume it, or sendContentRequest is under way.                    *)
NotForgotten ==
  itsGatewayStatus = "ONGOING" /\ server \notin {"start", "connect", "listen"}
    => \/ reads # <<>>
       \/ itsBackendBufferFull
       \/ io = "connecting"
       \/ proxyStatus = "FAIL_REMOTE_HOST"

(* The Reactor's count is charged once for a request and released once,    *)
(* by markFinishing() or by the destructor, whatever thread gets there     *)
(* first; nothing stays charged when the streamer is gone.                 *)
ChargedOnce == active = (IF Alive /\ ~itsFinishing THEN 1 ELSE 0)

(* All the bytes made available to the client. *)
Out == delivered \o itsClientDataBuffer

IsPrefixOf(s, t) == Len(s) <= Len(t) /\ SubSeq(t, 1, Len(s)) = s

(* The client gets the bytes of one reply of the backend, in their order   *)
(* and without a gap, however reads, full buffers and getChunk interleave, *)
(* or else one cached body, never a mix of the two connections; and the    *)
(* cached body is one for the ETag the backend has just answered with, in  *)
(* an encoding the client accepts.                                         *)
FromBackend == \E r \in CacheReplies \cup ContentReplies : IsPrefixOf(Out, r.bytes)
FromCache ==
  /\ Out # <<>> /\ Out[1] = CachedHead
  /\ \/ Len(Out) = 1
     \/ \E r \in ContentReplies :
          /\ r.etag = reply.etag /\ r.storable
          /\ r.enc \in {request.accepts, Identity}
          /\ IsPrefixOf(Tail(Out), Body(r))
OneRepresentation == FromBackend \/ FromCache

(* What is stored under an ETag and an encoding are the first bytes of a   *)
(* body that a backend sent with them: no headers, nothing of another      *)
(* response, nothing left out.                                             *)
CacheHoldsBodies ==
  \A k \in Keys : cache[k] # NoBuffer =>
    \E r \in ContentReplies :
      /\ <<r.etag, r.enc>> = k /\ r.storable
      /\ IsPrefixOf(cache[k], Body(r))

(* What a streamer stores is every byte of the body that has come on its   *)
(* connection, under what the reply says it is, so that it is the product  *)
(* unless the backend has closed too early: no full buffer, limit of the   *)
(* copy, late timeout or resumed read lets a part of it be stored.         *)
StoredAsReceived ==
  [][ReadError =>
       \A k \in Keys : cache'[k] # cache[k] =>
         /\ reply \in ContentReplies /\ reply.storable /\ k = <<reply.etag, reply.enc>>
         /\ cache'[k] = SubSeq(wire, reply.head + 1, Len(wire))]_vars

(* A fast backend or a large product cannot fill the memory: what waits    *)
(* for the client is bounded by the buffer limit, or by the headers, plus  *)
(* one read, and what waits for the cache by its own limit.                *)
BuffersBounded ==
  /\ itsGatewayStatus = "ONGOING" =>
       \/ Len(itsClientDataBuffer) <= MaxBuffer + SocketBuffer
       \/ Len(itsClientDataBuffer) <= Len(itsResponseHeaderBuffer) + SocketBuffer
  /\ Len(itsCachedContent) <= MaxCached

(* The end of the stream is final, and no byte is added after it. *)
EndIsFinal ==
  [][itsGatewayStatus # "ONGOING" =>
       itsGatewayStatus' = itsGatewayStatus /\ Out' = Out]_vars

(* The server thread learns of the end only when it has every byte, and    *)
(* learns the right one.                                                   *)
EndReportedLast ==
  /\ streamerStatus = "EXIT_OK" =>
       itsGatewayStatus = "FINISHED" /\ itsClientDataBuffer = <<>>
  /\ streamerStatus = "EXIT_ERROR" =>
       itsGatewayStatus = "FAILED" /\ itsClientDataBuffer = <<>>

(* With a backend that answers in the end, every client is served to the   *)
(* end, whatever the chunks, the full buffers and the timer do.            *)
ClientServed == server = "stream" ~> server = "gone"

(* And then nothing of the request is left: no reference to the streamer   *)
(* and no charge on the backend.                                           *)
ResourcesReleased == server = "connect" ~> (~Alive /\ active = 0)

(* "Reset timeout timer", say the comments at every read, and              *)
(* handleTimeout's: "Cancel pending async tasks.  This means readSocket    *)
(* will be called with operation_aborted - error": a backend that stays    *)
(* silent does not keep a read pending for ever.                           *)
SilenceEnds == reads # <<>> ~> reads = <<>>

(* The design notes call the content cache "content-addressed and          *)
(* inherently correct": what a streamer stores under an ETag is the        *)
(* product, whole.                                                         *)
CacheHoldsProducts ==
  [][ReadError =>
       \A k \in Keys : cache'[k] # cache[k] =>
         \E r \in ContentReplies :
           <<r.etag, r.enc>> = k /\ r.storable /\ cache'[k] = Body(r)]_vars

(* "To detect backend denial statuses before streaming, inspect the        *)
(* beginning of the response byte stream": a response that HTTPForward     *)
(* hands over for streaming is not a denial.                               *)
DenialNotStreamed == proxyStatus = "SUCCESS" => ~BackendDenies(Out)

-----------------------------------------------------------------------------
(* The streamer implements the byte stream that GatewayStream promises:    *)
(* every step of a handler, of the timer or of the server thread is a step *)
(* of that specification or changes nothing it can see.                    *)
Abstract == INSTANCE GatewayStream WITH
  out <- Out, taken <- delivered, status <- itsGatewayStatus, exit <- streamerStatus

ImplementsStream == Abstract!Stream

(* It implements the account that BackendAccount promises.                 *)
Billing == INSTANCE BackendAccount WITH
  charge <- IF server = "start" THEN "none"
            ELSE IF active = 1 THEN "charged"
            ELSE IF active = 0 THEN "released" ELSE "miscounted"

ImplementsAccounting == Billing!Accounting
=============================================================================
