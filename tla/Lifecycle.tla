------------------------------- MODULE Lifecycle -------------------------------
(***************************************************************************)
(* The plugin from its construction to its destruction, with the requests  *)
(* in its hands: the two handlers that dereference its members (the hook   *)
(* for unknown URIs and the one for unknown info requests), the Proxy with *)
(* its pool of threads, and the streamers.                                 *)
(*                                                                         *)
(* A streamer is seen from the pool here: the operations it has started,   *)
(* and the handlers that run when they complete, one of which may throw.   *)
(* Streamers and their operations hold the Proxy, so it may outlive the    *)
(* plugin; the pool's threads hold nothing.  The bytes are in              *)
(* GatewayStreamer, the choice of backends in Frontend.                    *)
(***************************************************************************)
EXTENDS Integers, Sequences, Functions

CONSTANTS
  Requests,      \* the requests that arrive, one attempt to forward it each
  PoolThreads,   \* itsBackendThreads
  Silent         \* the requests whose backends may leave a call in a handler
                 \* of the streamer (connect, write) without an answer for good

VARIABLES
  \* the thread that loads, initialises, shuts down and deletes the plugin
  main,
  itsProxy,           \* HTTP::itsProxy is set
  itsSputnikEngine,   \* Plugin::itsSputnikEngine is set
  handlers,           \* external: those of the plugin in the Reactor
  \* backendIoService
  pool,               \* "none", "running", "stopped"
  worker,             \* the pool's threads: "none", "running", "exited"
  job,                \* the operation whose handler a thread is in, or NoJob
  ready,              \* the completed operations, first come first served
  \* each request and its streamer
  place,              \* who has it: see TypeOK
  pending,            \* its operations that have not completed
  itsGatewayStatus,   \* "ONGOING" or "ENDED"
  itsBackendBufferFull,
  itsFinishing,
  active,             \* what it contributes to the Reactor's count
  aborted             \* history: a handler of it has thrown

pluginVars == <<main, itsProxy, itsSputnikEngine, handlers>>
poolVars   == <<pool, worker, job, ready>>
streamVars == <<itsGatewayStatus, itsBackendBufferFull, aborted>>
countVars  == <<itsFinishing, active>>
vars == <<pluginVars, poolVars, place, pending, streamVars, countVars>>

Operation == Requests \X {"read", "wait"}
NoJob == <<>>
Main == {"construct", "hook", "content", "init", "register", "serving", "joining",
         "stopped", "destroying", "destroyed", "failing", "failed", "unregistered"}

(* A shared_ptr to the streamer of r is left: with the server's thread in  *)
(* HTTPForward, with the client's connection, in an operation or in the    *)
(* handler that runs.                                                      *)
Alive(r) ==
  \/ place[r] \in {"made", "listening", "client"}
  \/ pending[r] # {}
  \/ \E what \in {"read", "wait"} : <<r, what>> \in Range(ready) \cup Range(job)

(* Every streamer holds the Proxy. *)
ProxyExists == itsProxy \/ \E r \in Requests : Alive(r)

InHandlers == {r \in Requests : place[r] \in {"noMatch", "info", "made", "listening"}}

Init ==
  /\ main = "construct" /\ itsProxy = FALSE /\ itsSputnikEngine = FALSE /\ handlers = {}
  /\ pool = "none" /\ worker = [w \in PoolThreads |-> "none"]
  /\ job = [w \in PoolThreads |-> NoJob] /\ ready = <<>>
  /\ place = [r \in Requests |-> "new"]
  /\ pending = [r \in Requests |-> {}]
  /\ itsGatewayStatus = [r \in Requests |-> "ONGOING"]
  /\ itsBackendBufferFull = [r \in Requests |-> FALSE]
  /\ aborted = [r \in Requests |-> FALSE]
  /\ itsFinishing = [r \in Requests |-> FALSE]
  /\ active = [r \in Requests |-> 0]

-----------------------------------------------------------------------------
(* The plugin's construction and initialisation.                           *)

Proceed(from, to) ==
  /\ main = from /\ main' = to
  /\ UNCHANGED <<place, pending, streamVars, countVars>>

(* Sputnik is missing or the configuration is wrong: the constructor of    *)
(* HTTP throws before there is a Proxy.                                    *)
ConfigurationFails ==
  /\ Proceed("construct", "failed")
  /\ UNCHANGED <<itsProxy, itsSputnikEngine, handlers, poolVars>>

CreateProxy ==
  /\ Proceed("construct", "hook")
  /\ itsProxy' = TRUE
  /\ pool' = "running" /\ worker' = [w \in PoolThreads |-> "running"]
  /\ UNCHANGED <<itsSputnikEngine, handlers, job, ready>>

SetNoMatchHandler ==
  /\ Proceed("hook", "content")
  /\ handlers' = handlers \cup {"noMatch"}
  /\ UNCHANGED <<itsProxy, itsSputnikEngine, poolVars>>

(* The handlers of "/" and "/admin", which use neither member, are added,  *)
(* or are refused: the constructor throws and HTTP is destroyed.           *)
AddContentHandlers ==
  /\ Proceed("content", "init") \/ Proceed("content", "failing")
  /\ UNCHANGED <<itsProxy, itsSputnikEngine, handlers, poolVars>>

GetEngine ==
  /\ Proceed("init", "register")
  /\ itsSputnikEngine' = TRUE
  /\ UNCHANGED <<itsProxy, handlers, poolVars>>

(* The handler of unknown info requests comes last, if no registration     *)
(* before it is refused: then init throws, and HTTP's hook stays.          *)
RegisterAdminRequests ==
  /\ \/ Proceed("register", "serving") /\ handlers' = handlers \cup {"info"}
     \/ Proceed("register", "unregistered") /\ UNCHANGED handlers
  /\ UNCHANGED <<itsProxy, itsSputnikEngine, poolVars>>

-----------------------------------------------------------------------------
(* Its end.                                                                *)

(* Mutant: the pool is not told. *)
ShutdownOnlyJoins ==
  /\ Proceed("serving", "joining")
  /\ UNCHANGED <<itsProxy, itsSputnikEngine, handlers, poolVars>>

Shutdown ==
  /\ Proceed("serving", "joining")
  /\ pool' = "stopped"
  /\ UNCHANGED <<itsProxy, itsSputnikEngine, handlers, worker, job, ready>>

(* Mutant: shutdown does not wait for the threads. *)
JoinNobody ==
  /\ Proceed("joining", "stopped")
  /\ UNCHANGED <<itsProxy, itsSputnikEngine, handlers, poolVars>>

JoinAll ==
  /\ Proceed("joining", "stopped")
  /\ \A w \in PoolThreads : worker[w] = "exited"
  /\ UNCHANGED <<itsProxy, itsSputnikEngine, handlers, poolVars>>

(* External: the Reactor deletes the plugin when no request is in one of   *)
(* its handlers; the hook may be called until it is removed.  The members  *)
(* go in reverse order, the engine before HTTP.                            *)
Destroy ==
  /\ Proceed("stopped", "destroying")
  /\ InHandlers = {}
  /\ itsSputnikEngine' = FALSE
  /\ UNCHANGED <<itsProxy, handlers, poolVars>>

(* Mutant: ~HTTP leaves the hook. *)
DestroyHTTPHooked ==
  /\ Proceed("destroying", "destroyed") \/ Proceed("failing", "failed")
  /\ InHandlers = {}
  /\ itsProxy' = FALSE
  /\ UNCHANGED <<itsSputnikEngine, handlers, poolVars>>

(* ~HTTP removes the hook, which (external) waits for the calls in it.     *)
DestroyHTTP ==
  /\ Proceed("destroying", "destroyed") \/ Proceed("failing", "failed")
  /\ InHandlers = {}
  /\ handlers' = handlers \ {"noMatch"}
  /\ itsProxy' = FALSE
  /\ UNCHANGED <<itsSputnikEngine, poolVars>>

-----------------------------------------------------------------------------
(* A request in the server.                                                *)

Move(r, from, to) ==
  /\ place[r] \in from /\ place' = [place EXCEPT ![r] = to]
  /\ UNCHANGED pluginVars

(* Mutant: the destructor does not look at itsFinishing. *)
AccountTwice(r) ==
  active' = [active EXCEPT ![r] = @ - (IF itsFinishing'[r] # itsFinishing[r] THEN 1 ELSE 0)
                                    - (IF Alive(r) /\ ~Alive(r)' THEN 1 ELSE 0)]

(* Mutant: only markFinishing releases, the destructor does not. *)
AccountOnFinishing(r) ==
  active' = [active EXCEPT ![r] =
    @ - (IF itsFinishing'[r] # itsFinishing[r] THEN 1 ELSE 0)]

(* stopBackendRequest, in markFinishing or in the destructor. *)
Account(r) ==
  active' = [active EXCEPT ![r] =
    @ - (IF \/ itsFinishing'[r] # itsFinishing[r]
            \/ Alive(r) /\ ~Alive(r)' /\ ~itsFinishing[r] THEN 1 ELSE 0)]

(* External: admin requests are not dispatched to a plugin under deletion. *)
Arrive(r) ==
  /\ \/ "noMatch" \in handlers /\ Move(r, {"new"}, "noMatch")
     \/ /\ "info" \in handlers /\ main \notin {"destroying", "destroyed"}
        /\ Move(r, {"new"}, "info")
  /\ UNCHANGED <<poolVars, pending, streamVars, countVars>>

(* No backend serves it, or none is left. *)
NotForwarded(r) ==
  /\ Move(r, {"noMatch", "info"}, "unserved")
  /\ UNCHANGED <<poolVars, pending, streamVars, countVars>>

Create(r) ==
  /\ Move(r, {"noMatch", "info"}, "made")
  /\ active' = [active EXCEPT ![r] = @ + 1]
  /\ UNCHANGED <<poolVars, pending, streamVars, itsFinishing>>

(* sendAndListen: connect, or write, fails or throws. *)
SendFails(r) ==
  /\ Move(r, {"made"}, "gone")
  /\ UNCHANGED <<poolVars, pending, streamVars, itsFinishing>>
  /\ Account(r)

Listen(r) ==
  /\ Move(r, {"made"}, "listening")
  /\ pending' = [pending EXCEPT ![r] = {"read", "wait"}]
  /\ UNCHANGED <<poolVars, streamVars, countVars>>

(* The peek: a denial leaves the streamer to the pool. *)
PeekReturns(r) ==
  /\ Move(r, {"listening"}, "client") \/ Move(r, {"listening"}, "gone")
  /\ UNCHANGED <<poolVars, pending, streamVars, itsFinishing>>
  /\ Account(r)

(* The connection has the end of the stream, or the client has gone. *)
Leave(r) ==
  /\ Move(r, {"client"}, "gone")
  /\ UNCHANGED <<poolVars, pending, streamVars, itsFinishing>>
  /\ Account(r)

(* Resetting or cancelling the timer completes a wait that is pending;     *)
(* no new one is started.                                                  *)
Cancelled(r) ==
  IF "wait" \in pending[r] THEN Append(ready, <<r, "wait">>) ELSE ready

(* Mutant: getChunk does not read on. *)
GetChunkForgets(r) ==
  /\ Move(r, {"client"}, "client")
  /\ itsBackendBufferFull[r]
  /\ itsBackendBufferFull' = [itsBackendBufferFull EXCEPT ![r] = FALSE]
  /\ UNCHANGED <<poolVars, pending, countVars, itsGatewayStatus, aborted>>

(* Mutant: the resumed read is started though reading was not suspended. *)
GetChunkAlwaysReads(r) ==
  /\ Move(r, {"client"}, "client")
  /\ itsGatewayStatus[r] = "ONGOING"
  /\ itsBackendBufferFull' = [itsBackendBufferFull EXCEPT ![r] = FALSE]
  /\ pending' = [pending EXCEPT ![r] = {"read"}]
  /\ ready' = Cancelled(r)
  /\ UNCHANGED <<pool, worker, job, countVars, itsGatewayStatus, aborted>>

(* getChunk takes the bytes of a full buffer. *)
GetChunk(r) ==
  /\ Move(r, {"client"}, "client")
  /\ itsBackendBufferFull[r]
  /\ itsBackendBufferFull' = [itsBackendBufferFull EXCEPT ![r] = FALSE]
  /\ pending' = [pending EXCEPT ![r] = {"read"}]
  /\ ready' = Cancelled(r)
  /\ UNCHANGED <<pool, worker, job, countVars, itsGatewayStatus, aborted>>

-----------------------------------------------------------------------------
(* The pool.                                                               *)

(* The backend sends or closes, or the time is over. *)
Complete(r) ==
  /\ pool = "running"
  /\ \E what \in pending[r] :
       /\ pending' = [pending EXCEPT ![r] = @ \ {what}]
       /\ ready' = Append(ready, <<r, what>>)
  /\ UNCHANGED <<pluginVars, pool, worker, job, place, streamVars, countVars>>

Run(w) ==
  /\ pool = "running" /\ worker[w] = "running" /\ job[w] = NoJob /\ ready # <<>>
  /\ job' = [job EXCEPT ![w] = Head(ready)]
  /\ ready' = Tail(ready)
  /\ UNCHANGED <<pluginVars, pool, worker, place, pending, streamVars, countVars>>

(* Mutant: run returns when there is no work, as it does without the idler. *)
ExitWithoutWork(w) ==
  /\ worker[w] = "running" /\ job[w] = NoJob
  /\ \/ pool = "stopped"
     \/ ready = <<>> /\ \A r \in Requests : pending[r] = {}
  /\ worker' = [worker EXCEPT ![w] = "exited"]
  /\ UNCHANGED <<pluginVars, pool, job, ready, place, pending, streamVars, countVars>>

(* The idler keeps a thread in run until the pool is stopped. *)
Exit(w) ==
  /\ pool = "stopped" /\ worker[w] = "running" /\ job[w] = NoJob
  /\ worker' = [worker EXCEPT ![w] = "exited"]
  /\ UNCHANGED <<pluginVars, pool, job, ready, place, pending, streamVars, countVars>>

(* What a handler for the streamer of r leaves pending; its thread returns *)
(* to the pool, and the handler's reference to the streamer goes.          *)
Return(w, r, reading, timer) ==
  /\ pending' = [pending EXCEPT ![r] = (IF timer = "kept" THEN @ ELSE @ \ {"wait"})
                                       \cup reading]
  /\ ready' = IF timer = "kept" THEN ready ELSE Cancelled(r)
  /\ job' = [job EXCEPT ![w] = NoJob]
  /\ UNCHANGED <<pluginVars, pool, worker, place>>
  /\ Account(r)

Handles(w, r, what) == job[w] = <<r, what>>

(* handleTimeout sets flags only. *)
HandleTimeout(w, r) ==
  /\ Handles(w, r, "wait")
  /\ UNCHANGED <<streamVars, itsFinishing>>
  /\ Return(w, r, {}, "kept")

(* The handlers of a read go on reading, and may mark the request finished *)
(* (a response that is not cacheable).                                     *)
ReadOn(w, r) ==
  /\ Handles(w, r, "read")
  /\ itsFinishing' \in {itsFinishing, [itsFinishing EXCEPT ![r] = TRUE]}
  /\ Return(w, r, {"read"}, "reset")
  /\ UNCHANGED streamVars

Suspend(w, r) ==
  /\ Handles(w, r, "read")
  /\ itsBackendBufferFull' = [itsBackendBufferFull EXCEPT ![r] = TRUE]
  /\ UNCHANGED <<itsGatewayStatus, aborted, itsFinishing>>
  /\ Return(w, r, {}, "cancelled")

(* The end of the stream: handleError cancels the timer; the end at the    *)
(* cache (which marks the request finished), at garbled headers or at a    *)
(* failed content request leaves it.                                       *)
End(w, r) ==
  /\ Handles(w, r, "read")
  /\ itsGatewayStatus' = [itsGatewayStatus EXCEPT ![r] = "ENDED"]
  /\ \/ itsFinishing' = itsFinishing /\ Return(w, r, {}, "cancelled")
     \/ /\ itsFinishing' \in {itsFinishing, [itsFinishing EXCEPT ![r] = TRUE]}
        /\ Return(w, r, {}, "kept")
  /\ UNCHANGED <<itsBackendBufferFull, aborted>>

(* The handler throws before it has read on or ended the stream, which its *)
(* catch prints: "Must not throw or execution will terminate".             *)
Throws(w, r) ==
  /\ Handles(w, r, "read")
  /\ aborted' = [aborted EXCEPT ![r] = TRUE]
  /\ UNCHANGED <<itsGatewayStatus, itsBackendBufferFull, itsFinishing>>
  /\ Return(w, r, {}, "kept")

-----------------------------------------------------------------------------
Load == ConfigurationFails \/ CreateProxy \/ SetNoMatchHandler \/ AddContentHandlers
Initialise == GetEngine \/ RegisterAdminRequests
Unload == Shutdown \/ JoinAll \/ Destroy \/ DestroyHTTP

Server(r) == \/ Arrive(r) \/ NotForwarded(r) \/ Create(r) \/ SendFails(r) \/ Listen(r)
             \/ PeekReturns(r) \/ GetChunk(r) \/ Leave(r)

Handler(w, r) == \/ HandleTimeout(w, r) \/ ReadOn(w, r) \/ Suspend(w, r) \/ End(w, r)
                 \/ Throws(w, r)

Next ==
  \/ Load \/ Initialise \/ Unload
  \/ \E r \in Requests : Server(r) \/ Complete(r)
  \/ \E w \in PoolThreads : Run(w) \/ Exit(w) \/ \E r \in Requests : Handler(w, r)

Spec == Init /\ [][Next]_vars

(* The pool's threads run, the blocking calls in handlers return but for   *)
(* silent backends, whose streamers' handlers may also wait for itsMutex   *)
(* as long, and join_all returns when the threads have.                    *)
FairSpec ==
  /\ Spec
  /\ WF_vars(\E w \in PoolThreads : Run(w))
  /\ \A w \in PoolThreads :
       /\ WF_vars(Exit(w))
       /\ WF_vars(\E r \in Requests \ Silent : Handler(w, r))
  /\ WF_vars(JoinAll)

-----------------------------------------------------------------------------
(* Properties.                                                             *)

TypeOK ==
  /\ main \in Main
  /\ itsProxy \in BOOLEAN /\ itsSputnikEngine \in BOOLEAN
  /\ handlers \subseteq {"noMatch", "info"}
  /\ pool \in {"none", "running", "stopped"}
  /\ worker \in [PoolThreads -> {"none", "running", "exited"}]
  /\ job \in [PoolThreads -> Operation \cup {NoJob}]
  /\ ready \in Seq(Operation)
  /\ place \in [Requests -> {"new", "noMatch", "info", "unserved", "made",
                             "listening", "client", "gone"}]
  /\ pending \in [Requests -> SUBSET {"read", "wait"}]
  /\ itsGatewayStatus \in [Requests -> {"ONGOING", "ENDED"}]
  /\ itsBackendBufferFull \in [Requests -> BOOLEAN]
  /\ aborted \in [Requests -> BOOLEAN]
  /\ itsFinishing \in [Requests -> BOOLEAN]
  /\ active \in [Requests -> {0, 1}]

(* "the handler dereferences itsProxy, and the reactor may dispatch        *)
(* requests as soon as the handler is installed": a request in a handler   *)
(* of the plugin finds the members that the handler uses, from the first   *)
(* request to the deletion.                                                *)
HandlersFindMembers ==
  \A r \in Requests :
    /\ place[r] \in {"noMatch", "info"} => itsProxy
    /\ place[r] = "info" => itsSputnikEngine

(* The pool's threads use the Proxy by a plain pointer: none of them is    *)
(* left when the Proxy goes, whoever lets go of it last, if the plugin has *)
(* been constructed.                                                       *)
NoThreadWithoutProxy ==
  main # "failed" =>
    \A w \in PoolThreads : worker[w] = "running" => ProxyExists

(* Some operation of r is pending, completed or handled. *)
Busy(r, what) == \/ what \in pending[r]
                 \/ <<r, what>> \in Range(ready) \cup Range(job)

(* A stream that has not ended has somebody who goes on with it, unless    *)
(* its own handler has thrown: no exception in another stream stops it.    *)
StalledByOwnException ==
  \A r \in Requests :
    place[r] \in {"listening", "client"} /\ itsGatewayStatus[r] = "ONGOING" =>
      Busy(r, "read") \/ itsBackendBufferFull[r] \/ aborted[r]

(* A streamer has one handler of each kind running at most: no two threads *)
(* read into its one socket buffer, and one that waits for a silent        *)
(* backend, with the other waiting for itsMutex, keeps two threads of the  *)
(* pool from the other streams and never more.                             *)
OneHandlerEach ==
  \A v, w \in PoolThreads : v # w /\ job[v] # NoJob => job[v] # job[w]

(* A request that the server is done with goes on to charge its backend    *)
(* only as long as an operation of it is in the pool: all that a shutdown  *)
(* fails to release is what was pending or not yet handled.                *)
LeftToThePool ==
  \A r \in Requests :
    place[r] \in {"unserved", "gone"} /\ active[r] = 1 =>
      Busy(r, "read") \/ Busy(r, "wait")

(* A thread of the pool is in a handler that waits for a silent backend.   *)
WaitsForSilent(w) == \E r \in Silent, what \in {"read", "wait"} : Handles(w, r, what)

(* shutdown returns, whatever is pending: the pool's threads end after the *)
(* handlers they are in.  What can keep it is a handler whose backend is   *)
(* silent for good.                                                        *)
ShutdownReturns ==
  main = "joining" ~> main = "stopped" \/ [](\E w \in PoolThreads : WaitsForSilent(w))

(* What has completed is handled, if the plugin is not shut down, even     *)
(* when handlers before it throw.  What can keep it is that all threads of *)
(* the pool wait for silent backends for good: as long as one does not,    *)
(* the others' silence is no matter.                                       *)
HandlersServed ==
  \A op \in Operation :
    op \in Range(ready) ~>
      \/ op \notin Range(ready)
      \/ pool = "stopped"
      \/ [](\A w \in PoolThreads : WaitsForSilent(w))

(* Each streamer implements the account that BackendAccount promises,      *)
(* whichever thread lets go of it last, and whether handlers throw or not: *)
(* \A r \in Requests : Streamer(r)!Accounting, in the form that TLC takes. *)
ChargeOf(r) == IF place[r] \in {"new", "noMatch", "info", "unserved"} THEN "none"
               ELSE IF active[r] = 1 THEN "charged"
               ELSE IF active[r] = 0 THEN "released" ELSE "miscounted"
Streamer(r) == INSTANCE BackendAccount WITH charge <- ChargeOf(r)

ImplementsAccounting ==
  /\ \A r \in Requests : Streamer(r)!Init
  /\ [][\A r \in Requests : Streamer(r)!Next \/ UNCHANGED ChargeOf(r)]_vars
=============================================================================
