# Verification of the SmartMet frontend plugin

The frontend plugin of the SmartMet server forwards every request to one of the
backends that serve it and streams the answer back. These are TLA+ models of its
core logic, TLC configurations that check them on small instances, and proofs
for every instance, checked with TLAPS. All paths below are relative to the
repository; `frontend/` holds the code that is modelled.

    tlc -workers 2 -config MCGatewayStreamer.cfg MCGatewayStreamer.tla
    tlapm GatewayStreamer_proofs.tla

`PROJECT.json` lists the components, the runs, a mutant of the code for each
property that the run detects, the source lines of each definition, the
findings, the hazards and the theorems.

## 1. The system

| Part | State | Operations | Interacts with |
|---|---|---|---|
| `LowLatencyGatewayStreamer` | gateway status, client buffer, header buffer, copy for the cache, flags, one socket, one timer | `sendAndListen`, `getPeekString`, `getChunk`; handlers `readCacheResponse`, `sendContentRequest`, `readDataResponseHeaders`, `readDataResponse`, `handleTimeout`, `handleError` | called by the server thread, called back by the ASIO pool, uses the cache and the Reactor's account |
| `Proxy` | the cache, the ASIO pool | `HTTPForward`, `shutdown` | makes a streamer for each request, which keeps the `Proxy` alive |
| `ResponseCache` | (ETag, encoding) → metadata with a hash; hash → body | `getCachedBuffer`, `insertCachedBuffer` | called by the handlers of all streamers |
| `HTTP` | a shared pointer to the `Proxy`; Sputnik's services, the Reactor's counts | `requestHandler`, `transport`, construction and destruction with the hook for unknown URIs | Sputnik, Reactor, `Proxy` |
| `Plugin`: pause | paused, deadline, a shared mutex | `requestPause`, `requestContinue`, `pauseUntil`, `isPaused`, `baseContentHandler` | the administrator, the load balancer's probes |
| `Plugin`, `info/`: backend info | none that lasts | `requestBackendInfoSummary`, query of the backends, filter, merge | all backends that Sputnik names |
| `Plugin`: info request to one backend | none that lasts | `requestNoMatchInfo` | one `HTTPForward`, on the account that `transport` uses |
| `Plugin`: life cycle | `itsSputnikEngine`, `itsHTTP`, its handlers in the Reactor | constructor, `init`, `shutdown`, destructor | the Reactor, requests in its handlers, the pool |
| `Plugin`: the rest | configuration | authentication, lists of active backends | formatting |

What is hard, by part:

* **The streamer.** The server thread and the pool's threads share one object
  behind one mutex. Two of them start reads into the same socket buffer. The
  backend is asked twice on two connections with the same members. The end of
  the stream, its last bytes, the timeout and the release of the object race.
  It is correct if the client gets the bytes of one representation in order, the
  end last and once; if memory is bounded; if the account of the backend is
  charged once and released once; if the cache holds only what a backend sent
  under that ETag; and if every stream that can end does end.
* **The cache.** Two caches, two locks, two steps for each operation, evictions
  in between. It is correct if an answer is a product as it was stored.
* **Choice of the backend.** The throttle is a check before and a signal after a
  connection; a backend is retired while others use it. A request must not be
  repeated once a backend may have acted on it, must end, and the account must
  not stay wrong.
* **The pause.** A probe ends a pause whose deadline it finds expired, and takes
  its locks twice. It must not end another pause, and must tell the truth.
* **Backend info.** Some backends fail; the rest is merged in order. The summary
  should be what all that answered have in common.
* **The life cycle.** The plugin is built while requests may already come in, and
  taken down while streams go on that keep the `Proxy` alive; the pool's threads
  hold it by a plain pointer. Handlers must find the members they use, a handler
  that throws must not end a thread nor stop another stream, and the shutdown
  must return.

The list of hazards with their lines is in `PROJECT.json`.

## 2. The modules

| Module | Models | Kind |
|---|---|---|
| `GatewayStream` | the promise of one forwarded response to the server | abstract |
| `BackendAccount` | its promise to the Reactor: charged once, released once | abstract |
| `GatewayStreamer` | `LowLatencyGatewayStreamer` and `Proxy::HTTPForward`, one request | detailed |
| `LossyStore` | the promise of the cache to the streamers | abstract |
| `ResponseCache` | `ResponseCache` and its use by `readCacheResponse`, `handleError` | detailed |
| `Frontend` | `HTTP::requestHandler`, `HTTP::transport`, `Plugin::requestNoMatchInfo`, with Sputnik and the Reactor | component and its environment |
| `Pause` | the promise of the pause | abstract |
| `PauseControl` | the pause in `Plugin`, with its mutex and the clock | detailed |
| `BackendInfo` | `requestBackendInfoSummary`, `BackendInfoRequests`, `BackendInfoResponse`, the orders of the records | component |
| `Lifecycle` | the plugin, `HTTP` and `Proxy` from construction to destruction; the pool with the handlers of several streamers | composition |
| `MC...` | instances for TLC | |
| `..._proofs` | theorems and proofs | |

### GatewayStreamer

The variables that begin with `its` are the members of the class. `server` is
the place of the server thread in `HTTPForward` and `getChunk`; `reads` the
handlers of the pending reads; `timer` the pending wait; `io = "connecting"`
says that a handler is in the blocking connect and write of
`sendContentRequest`, the only place where `itsMutex` is held for long. All
other handlers run with the mutex held from beginning to end and are one step
each, with `MutexFree` in their guards. `sendAndListen` takes no mutex; it is
three steps (send, start the timer, start the read), as the timer may expire
before the read is started. `active` is what this request contributes to the
Reactor's count.

The lifetime of the object is explicit: `Alive` holds while some `shared_ptr` is
left, with the server thread or in a pending read or wait. `Account` is part of
each step that calls `markFinishing()` or may drop the last reference, so the
destructor is in the step in which it runs.

A backend's reply is a sequence of units with the number of units of its
headers; `Chunks` gives what one read may return, so that headers and body may
be cut anywhere. The header parser is external: incomplete, garbled or complete.
Whether a reply is cacheable (Content-Type, no Transfer-Encoding, status 200) is
one bit of it. A response from the cache is one unit for its headers and the
body; preconditions of the request may leave out the body (304, 412). Other
streamers are seen as actions that store and evict.

The module implements two abstract ones: `GatewayStream`, by what was delivered
and what waits, and `BackendAccount`, by `active` and the place of the request.

A wait of 100 ms for data is a step to `peekSleep` or `chunkSleep` and a step
back at any time. `notify_one` only shortens the wait and is left out.

### ResponseCache

Each call of the two caches is one step, with any insert or eviction in between.
An insert under a key that is present may keep or replace the entry. `lasting`
is a history variable: the entries that were in the two caches at every moment
since the lookup began. Hashes are taken as injective (`HashAssumption`). The
separator of `makeKey` is taken as not occurring in ETags.

### Frontend

Each call of Sputnik's `Services` or of the Reactor is one step, since each locks
for itself; what `HTTPForward` does is seen as charging, and then failing,
denying or succeeding. `streaming` counts the streamers that live on and charge
their backend. `sent` is a history variable: the attempts that a backend took in,
or may have taken in before it failed. The streams themselves are in
`GatewayStreamer`; `StreamerReleases` is its release of the account. An
exception that leaves `HTTPForward` is `ForwardThrows`: nothing is retired, and
the streamer, if there was one, goes with its charge. `requestNoMatchInfo`
shares services and account with `transport`, but sends its request once, past
the throttle; its places begin with "info".

### PauseControl

`itsPauseMutex` is a boost shared mutex with upgrade ownership. A writer's
section is one step (`CanWrite`); the upgrade ownership of `isPaused` spans
several. Time is in half seconds, so that the clock of whole seconds from which
a duration counts differs from the one with which deadlines are compared. `seen`
is a history variable: whether a pause was on at the moments of a probe.

### BackendInfo

A record is its producer, what its `operator<` compares (`QEngineKey`,
`GridKey`) and the parameters that the filter looks up. The queries are
concurrent and end in any order, with an answer, a failure or the timeout of the
query; an answer of which a record cannot be parsed is a failure. Their results
are collected in the order of the backends. The merge is stepwise: the loop over
the common producers, the loop over the responses, and the two cursors of
`std::set_intersection`, which compares with the ascending `Less` on lists that
are sorted the other way. It is assumed that a backend has one record of a
producer for a key. Titles and output formats are left out.

### Lifecycle

`main` is the place of the thread that loads, initialises, shuts down and
deletes the plugin; `itsProxy`, `itsSputnikEngine` and `handlers` say which
members are set and which handlers the Reactor may call. `pool`, `worker`, `job`
and `ready` are the `io_service`, its threads, the handler each is in, and the
completed operations, first come first served. Of a streamer there are its
pending operations, its status, the flag of a full buffer, and the account;
`place` says who holds it. A handler is one step of its thread, and may throw
before it has read on or ended the stream; `aborted` is the history variable
that remembers it. `ProxyExists` is the reference count of the `Proxy`:
the plugin's reference and one for each streamer that is alive.

That the Reactor waits for the requests in a plugin's handlers before it deletes
the plugin, and that removing the hook waits for the calls in it, is external:
guards of `Destroy` and `DestroyHTTP`.

## 3. What the runs check

| Run | Bounds | Result |
|---|---|---|
| `gateway` | one request; 4 replies to the ETag query, 7 to the content request, up to 6 units, 2 a read; both limits 2; 2 ETags, 2 encodings | about 266 000 states, passes |
| `gateway_timeout`, `gateway_products`, `gateway_denial` | the same | violated: findings 1 to 3 |
| `response_cache` | 2 threads, 1 ETag, 2 encodings, 2 bodies; threads symmetric | about 89 000 states, passes |
| `frontend` | 2 threads, 2 backends, throttle 1, 2 announcements, new requests only while there is at most 1 stream | about 542 000 states, passes |
| `frontend_count` | the same, 1 announcement | violated: finding 4 |
| `pause` | 3 threads, 2 commands, 2 ticks of the clock | about 249 000 states, passes |
| `pause_continue` | the same | violated: finding 5 |
| `backend_info` | 3 backends; 8 records (5 of querydata, 3 of grid generations) of 2 producers; 5 requests, one of an unknown kind | about 386 000 states, passes |
| `backend_info_merge` | the same | violated: finding 6 |
| `lifecycle` | 2 requests, the backend of one silent when it likes; 2 threads in the pool | about 264 000 states, passes |

Why these bounds are enough to be of interest. In `gateway` the largest body
overflows the client buffer and the cache's limit, the headers come in one read
or two, alone or with the beginning of the body, and the ETag may change between
the two connections. In `response_cache` two keys may share a body and a key may
change its body. In `frontend` both threads may pass the throttle together, and
a backend may come back while the stream of its earlier life goes on. In `pause`
one thread waits for the upgrade while another reads and a third sets a new
pause. In `backend_info` a merged list is merged again, lists may differ at
their head, in between or at the end, and two backends may describe a record
differently. In `lifecycle` one stream may throw or hang while the other goes on,
both threads may be in handlers of one stream, and the shutdown may come at any
moment. The handlers of one request need never return: a thread in
`sendContentRequest` and another one that waits for `itsMutex` in `handleTimeout`
are then all the threads of the pool, so that the case in which the pool stands
still does happen, as does the one in which the second thread serves the rest.

Deadlock is checked but in `gateway` and `lifecycle`, where a finished request
and a deleted plugin stop. Liveness is
checked without symmetry.

What is checked, beyond the types:

* `gateway`: `OneReader`, `NotForgotten` (the buffer-full protocol between
  `readDataResponse` and `getChunk`), `ChargedOnce`, `OneRepresentation`,
  `CacheHoldsBodies`, `BuffersBounded`, `EndReportedLast`, `EndIsFinal`,
  `StoredAsReceived` (whatever is stored is all of the body that came);
  `ImplementsStream` (refinement of `GatewayStream`) and `ImplementsAccounting`
  (of `BackendAccount`); `ClientServed` and `ResourcesReleased` (liveness).
* `response_cache`: `MissJustified` and `ImplementsLossyStore` (refinement).
* `frontend`: `NotSentTwice`, `ThrottleHolds`, `NeverOvercounted`,
  `CountLostByRetirement` (the only way in which a right count becomes wrong),
  and the liveness property `RequestEnds`.
* `pause`: `AnswersTrue`, `ImplementsPause` (refinement) and, for liveness,
  `Resumes`.
* `backend_info`: `SummaryIsCommon`, `AgreementIsKept` and, for liveness,
  `SummaryGiven`.
* `lifecycle`: `HandlersFindMembers`, `NoThreadWithoutProxy`,
  `StalledByOwnException`; `OneHandlerEach` (a streamer never has two handlers of
  a kind running, hence at most two threads of the pool); `LeftToThePool` (what is
  charged for a request that the server is done with, also after the shutdown,
  has an operation in the pool); `ImplementsAccounting` (each streamer refines
  `BackendAccount`, whoever lets go of it last); `HandlersServed` and
  `ShutdownReturns` (liveness), which only silent backends can keep from coming
  true: the former if all threads wait for them for good, the latter if one does.

### Fairness

* `GatewayStreamer`: `FrontendFairness` is what the program has by itself: the
  server thread and the pool's threads run, blocking calls return, timers
  expire, and a read on a closed socket completes. `FairSpec` adds that a
  backend that is waited for sends, closes or breaks (`WF` of
  `ReadCompletes`). This is an assumption about the environment, and
  `gateway_timeout` shows that it is needed: without it a stream may never end,
  although there is a timeout.
* `Frontend`: weak fairness of each thread in `transport`; its calls return. New
  requests, announcements and the ends of streams are not assumed. That
  `RequestEnds` holds depends on the bound on announcements: a backend that
  denies and announces itself for ever can keep a request for ever.
  `requestNoMatchInfo` has the same fairness.
* `BackendInfo`: the thread of the request runs, and a query ends, since
  `TcpMultiQuery` gives it 10 s. That a backend answers is not assumed.
* `Lifecycle`: some thread of the pool takes a completed operation when one can,
  each thread in a handler returns from it, as its blocking calls do, and
  `join_all` returns when the threads have ended. For the requests in `Silent`
  no handler is assumed to return, since the code sets no limit to a connect or
  a write. Neither requests nor backends nor the administrator are assumed to do
  anything.
* `PauseControl`: some thread of those that can run does; nothing is assumed of
  any single thread. Commands and the clock need no fairness.

### Findings

1. `SilenceEnds`. The timeout sets two flags; it cancels no read, against its own
   comment. Besides, the only wait is started in `sendAndListen`; the resets of
   the timer end it and start no other. A read from a silent backend stays
   pending as long as the backend is silent.
2. `CacheHoldsProducts`. A connection closed early is a "clean shutdown", and the
   part of the body that has come is cached as the product of its ETag. The design
   document calls the cache "inherently correct under background updates"; that
   rests on the bytes under an ETag being its product.
3. `DenialNotStreamed`. A denial that comes after the 100 ms of the peek goes to
   the client.
4. `CountIsExact`. A retired backend's count is zeroed while streams still charge
   it; after its return it is counted too low. The other direction
   (`NeverOvercounted`) holds, and so does that nothing else loses a count
   (`CountLostByRetirement`); both are proved.
5. `PauseStands`. `continue?time=T` pauses and continues at once: a missing
   `return`.
6. `AllCommonFound`. The merge compares descending lists in ascending order and
   keeps only part of the common records. What it does guarantee is checked:
   `SummaryIsCommon`, and `AgreementIsKept` where the backends agree on the
   newer records.

## 4. What is proved

The theorems hold for every value of the constants that satisfies the named
assumptions in the modules. They are safety properties: invariants, action
properties and refinements. Every invariant and every action property or
refinement of a passing run is among them.

Behind most liveness properties there is a theorem on a **measure** that the steps
lower, in an order without infinite descent. What such a theorem leaves to fairness
is only that a step is taken when it can be, and that the other steps, which
do not raise the measure, do not go on alone:

| Liveness, model-checked | Measure, proved | What it says |
|---|---|---|
| `ClientServed`, `ResourcesReleased` | `ReadsAreFinite` | each completion of a read brings the exchange to its next stage or takes another part of the same reply, and nothing takes it back: the backend is asked twice at most |
| `RequestEnds` | `AttemptsAreFinite` | between announcements the backends a request may still go to become fewer, or the steps of its attempt do |
| `SummaryGiven` | `SummaryIsReached` | queries, responses, producers and records still to be compared become fewer |
| `ShutdownReturns` | `ShutdownIsFinite`, `JoinIsNotStuck` | after the stop a thread has two steps at most, none is given to it, and it can take the next one |
| `Resumes` | `MutexNeverLocksUp` | no measure, but the absence of a lock-up: who waits at the mutex waits for somebody who can go on, over one other thread at most |

These measures are defined in the modules of the proofs.

**GatewayStreamer** (all safety properties of the run `gateway`). Assumptions:
replies are well formed and reach to the end of their headers; the empty cache
entry is no body; a cached response's headers are not a denial; a read returns
at least one unit and not more than the cache's limit (the socket buffer is 8
kB, the limit megabytes). The invariant has three parts.
`Control` relates the threads: a full buffer and a pending read exclude each
other, a content request under way excludes both, and nothing has begun while
the server thread is still in `sendAndListen`. `Data` relates the buffers to
what has been read from the present connection: the header buffer is all of it
while headers are read, what was delivered plus what waits is all of it when data
is read, and the copy for the cache, while it is wanted, is the part of it
behind the headers. Each of the properties alone is not inductive: that no bytes
of two connections mix needs that nothing was delivered before the second one
began, which needs that the ETag query ends before data reaches the client.
Refinement and final end follow with the invariant step by step, and so does
`StoredAsReceived`: at the end of the file the copy, if it is wanted, is what came
behind the headers.

**ResponseCache.** Assumptions: hashes are injective, the absent value is no
value. The invariant says whose metadata lies under a key, whose body under a
hash, and what a thread knows at each point of its lookup, in relation to what
has lasted since it began.

**Frontend.** Assumptions: finitely many threads, a positive throttle. For
`ThrottleHolds` the sum of the counted connections and of the threads that have
passed the check and not yet signalled (`Past`) is bounded; for `NotSentTwice` a
request that may still be sent has reached nobody (`Clean`). The arguments count
sets of threads, with the library's theorems on finite sets. `CountsStayRight`
goes through the steps, each of which changes the count of a backend and the
number of streamers that charge it together, but for the removal of its count.
`LossIsBounded` says the same of a count that is wrong already: what it misses
does not become more. Hence `CountsExactWithoutRetirement`, the condition under
which the comment that finding 4 quotes is right: no backend is retired in the
midst of its streams.

**PauseControl.** Assumptions: the absent values are no threads or times. The
invariant is the discipline of the mutex and that a thread that has found the
pause expired still finds it so when it writes (`ExpiredStays`); truth of the
answers follows from what a probe has seen at each place. `WritersExclude` is
what the mutex is for, and `MutexNeverLocksUp` that its upgrade ownership cannot
bring about a deadlock.

**Lifecycle** (all safety properties of the run `lifecycle`), for any number of
requests and of pool threads, without assumptions. `Stage` ties the members,
handlers and threads to the place of `main`; `Own` ties, for one request, the
account and the one who goes on with the stream to whoever still holds its
streamer. The queue is seen as the set of its operations, so that a step of one
request is shown to leave the others alone (`Others`). With one more invariant,
that only a running thread has a handler (`RunsOnly`), `PoolIsEmptyAfterJoin`
shows that the destruction of the members has nobody in the pool to race with.
`OneHandlerEach` needs the invariant `Singles`: every operation is in one place,
pending or in the queue (once) or in one thread, a suspended stream has no read
anywhere, and a streamer that does not listen yet has no operation. From it
`StreamerKeepsTwoThreads`. `LeftToThePool` follows from `Own`, and `PoolStays`, that
no exception and no lack of work ends a thread before the shutdown, from `Stage`.

**BackendInfo.** Assumptions: finitely many records, whose keys are pairs of
natural numbers. The invariant is what the merge really computes: since the lists
are descending and `set_intersection` takes them as ascending, one cursor waits
at the first difference while the other runs to its end, so that the result is
the longest common prefix of the lists (`CommonPrefix`, kept by `Cursors` in the
inner loop). Both properties of the summary follow: all of a common prefix is
common, and a common record lies in it if all agree on what comes before.
`SummaryIsTheCommonPrefix` states the result itself, from which one can tell for any
answers what is lost by finding 6.

**Only model-checked.** Liveness under fairness is beyond the proof system:
`ClientServed`, `ResourcesReleased`, `RequestEnds`, `Resumes`, `SummaryGiven`,
`HandlersServed`, `ShutdownReturns`. For all but `HandlersServed` the table above
names what is proved of their reasons. The queue of `HandlersServed` is first in,
first out, and the place of an operation in it would be its measure; but that
some thread is free to take from it depends on handlers that return, each of
which may start another read, so that there is fairness in every step of the
argument. What is proved of it is `StreamerKeepsTwoThreads`: so many threads can a
stream take from the others, and no more.

## 5. What is not modelled

* A failure of the start-up after the `Proxy` was made: it is in `Lifecycle`, but
  `NoThreadWithoutProxy` leaves it out (`main = "failed"`), since nobody then
  stops the pool; what the server does after such a failure is outside the plugin.
* The info handler is bound to `this` and is not removed with the plugin. That no
  admin request is dispatched to a plugin under deletion is assumed of the
  Reactor.
* Streamers whose operations are pending at the shutdown are never released;
  `LeftToThePool` says that nothing else stays, and nothing says that they go.
* A pool with at most two threads for each stream whose backend is silent in the
  middle of a connection stands still until these backends answer. No property
  forbids it: the code has no limit against it.
* The headers of a reply are collected without a limit, so there is no bound to
  check; and a failure that comes late may retire a backend that has announced
  itself meanwhile: the code does not tell the two apart, and nothing in the
  repository says that it should.
* A hash collision in the cache, and the two levels (memory, file) of its bodies.
* The status of a response when `transport` fails: the server decides what it
  sends for a response without one.
* Parsing, formatting, logging, statistics, configuration, authentication, the
  URI rules of `transport` (only their failure), the headers it adds, and lists of
  active backends.
* The unsynchronised random generator of `requestNoMatchInfo`: the choice it makes
  is arbitrary in the model, and nothing else depends on it.
* Sputnik, the Reactor, boost and the server are modelled as the plugin uses
  them, and marked external in the map.

## 6. Plan

Done, in this order: the streamer with its abstract specifications and proofs,
the cache, the choice of backends, the pause, backend info; then the life cycle
with the pool and handlers that throw, info requests to one backend and
exceptions that leave `HTTPForward`, the stepwise merge of backend info, and the
proofs about all of these; then the measures behind the liveness properties, the
exact summary, the condition for an exact count, and the mutex; then what a
silent backend can take from the pool and what a shutdown leaves behind.

What is left:

1. Compose `Frontend` with the promise of its streamers (`BackendAccount` for
   each), so that `StreamerReleases` follows from it.
2. Two streamers over one `ResponseCache`, so that `OthersStore` and the one-step
   insert of `GatewayStreamer` are justified by `LossyStore`.
