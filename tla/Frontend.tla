-------------------------------- MODULE Frontend --------------------------------
(***************************************************************************)
(* HTTP::requestHandler and HTTP::transport, and the Plugin's              *)
(* requestNoMatchInfo: the server's threads share                          *)
(* the backends in service (Sputnik's Services) and the account of active  *)
(* requests (the Reactor), each call on which locks for itself only.       *)
(*                                                                         *)
(* A request is sent to one backend after the other as long as they deny   *)
(* it.  A backend that denies a request, or cannot be reached, is retired  *)
(* until it announces itself again; so is one that has been sent more      *)
(* connections than the throttle allows without announcing itself.         *)
(*                                                                         *)
(* An admin request that the Reactor does not know (requestNoMatchInfo) is *)
(* sent to one backend that serves it, past the throttle, and never again. *)
(*                                                                         *)
(* HTTPForward makes a streamer (GatewayStreamer), of which only the end   *)
(* of the negotiation and the account are seen here: it may outlive the    *)
(* attempt, and it releases its charge when it ends.                       *)
(***************************************************************************)
EXTENDS Naturals, FiniteSets

CONSTANTS
  Threads,            \* the server's threads, one request each at a time
  Backends, NoBackend,
  Throttle,           \* connections a backend may be sent between announcements
  MaxAnnouncements,   \* bound: the announcements in a behaviour
  MaxStreamers        \* bound: no new request above this many streamers

ASSUME FrontendAssumption ==
  /\ IsFiniteSet(Threads)
  /\ NoBackend \notin Backends
  /\ Throttle \in Nat \ {0}
  /\ MaxAnnouncements \in Nat
  /\ MaxStreamers \in Nat

VARIABLES
  pc,              \* where each thread is in transport or requestNoMatchInfo
  theHost,         \* the backend it has chosen
  theStatus,       \* what transport returns
  theResponse,     \* the response: no status, a status, or the stream
  sent,            \* history: how often the request reached a backend that
                   \* did not deny it, or may have reached one that failed
  \* external: Sputnik's Services
  inService,       \* the backends getService chooses from
  connections,     \* connections signalled since the last announcement
  announcements,   \* announcements received
  \* external: the Reactor
  active,          \* its count of active requests of each backend
  \* the streamers in the hands of the server's connections and of the pool
  streaming        \* how many still charge each backend

serviceVars == <<inService, connections, announcements>>
vars == <<pc, sent, theHost, theStatus, theResponse, serviceVars, active,
          streaming>>

Statuses == {"PROXY_SUCCESS", "PROXY_FAIL_REMOTE_HOST", "PROXY_FAIL_REMOTE_DENIED",
             "PROXY_FAIL_SERVICE", "PROXY_INTERNAL_ERROR"}

Init ==
  /\ pc = [t \in Threads |-> "idle"]
  /\ theHost = [t \in Threads |-> NoBackend]
  /\ theStatus = [t \in Threads |-> "PROXY_SUCCESS"]
  /\ theResponse = [t \in Threads |-> "none"]
  /\ sent = [t \in Threads |-> 0]
  /\ inService = Backends
  /\ connections = [b \in Backends |-> 0]
  /\ announcements = 0
  /\ active = [b \in Backends |-> 0]
  /\ streaming = [b \in Backends |-> 0]

Goto(t, place) == pc' = [pc EXCEPT ![t] = place]
Return(t, status, place) ==
  theStatus' = [theStatus EXCEPT ![t] = status] /\ Goto(t, place)

(* transport returns, and its choice of a backend goes with it. *)
Leave(t, place) == theHost' = [theHost EXCEPT ![t] = NoBackend] /\ Goto(t, place)

(* Mutant: the count wraps below zero. *)
StopUnclamped(b) == active' = [active EXCEPT ![b] = @ - 1]

(* The counts of the Reactor: stopBackendRequest does not go below zero,   *)
(* removeBackendRequests forgets the backend.                              *)
Start(b) == active' = [active EXCEPT ![b] = @ + 1]
Stop(b) == active' = [active EXCEPT ![b] = IF @ > 0 THEN @ - 1 ELSE 0]
Forget(b) == active' = [active EXCEPT ![b] = 0]

-----------------------------------------------------------------------------
(* A thread takes a request, one for transport or one for info; theStatus, *)
(* a local variable of requestHandler, begins with no meaning.             *)
Request(t) ==
  /\ pc[t] = "idle"
  /\ \A b \in Backends : streaming[b] < MaxStreamers
  /\ sent' = [sent EXCEPT ![t] = 0]
  /\ theResponse' = [theResponse EXCEPT ![t] = "none"]
  /\ Return(t, "PROXY_SUCCESS", "transport") \/ Return(t, "PROXY_SUCCESS", "info")
  /\ UNCHANGED <<theHost, serviceVars, active, streaming>>

(* Not Modified if the request has If-None-Match or If-Modified-Since,     *)
(* which nothing else depends on, and another answer otherwise.            *)
NotModifiedOr(t, status, response) ==
  \E conditional \in BOOLEAN :
    /\ theResponse' = [theResponse EXCEPT ![t] =
                         IF conditional THEN "not_modified" ELSE response]
    /\ theStatus' = [theStatus EXCEPT ![t] =
                       IF conditional THEN "PROXY_SUCCESS" ELSE status]

(* getService finds no backend in service for the request's URI. *)
NoService(t) ==
  /\ pc[t] = "transport"
  /\ inService = {}
  /\ NotModifiedOr(t, "PROXY_FAIL_SERVICE", "not_found")
  /\ Goto(t, "idle")
  /\ UNCHANGED <<sent, theHost, serviceVars, active, streaming>>

(* The service found has no backend. *)
NoHost(t) ==
  /\ pc[t] = "transport"
  /\ inService # {}
  /\ theResponse' = [theResponse EXCEPT ![t] = "bad_gateway"]
  /\ Return(t, "PROXY_FAIL_SERVICE", "idle")
  /\ UNCHANGED <<sent, theHost, serviceVars, active, streaming>>

GetService(t) ==
  /\ pc[t] = "transport"
  /\ \E b \in inService : theHost' = [theHost EXCEPT ![t] = b]
  /\ Goto(t, "query")
  /\ UNCHANGED <<sent, theStatus, theResponse, serviceVars, active, streaming>>

(* queryBackendAlive: the backend has not announced itself in a while. *)
BackendDead(t) ==
  /\ pc[t] = "query"
  /\ connections[theHost[t]] >= Throttle
  /\ NotModifiedOr(t, "PROXY_FAIL_REMOTE_HOST", theResponse[t])
  /\ Goto(t, "removeBackend")
  /\ UNCHANGED <<sent, theHost, serviceVars, active, streaming>>

(* Mutant: the answer of queryBackendAlive is not heeded. *)
BackendAliveAlways(t) ==
  /\ pc[t] = "query"
  /\ Goto(t, "forward")
  /\ UNCHANGED <<sent, theHost, theStatus, theResponse, serviceVars, active,
                 streaming>>

BackendAlive(t) ==
  /\ pc[t] = "query"
  /\ connections[theHost[t]] < Throttle
  /\ Goto(t, "forward")
  /\ UNCHANGED <<sent, theHost, theStatus, theResponse, serviceVars, active,
                 streaming>>

(* The resource does not agree with the service's URI. *)
ResourceMismatch(t) ==
  /\ pc[t] = "forward"
  /\ theStatus' = [theStatus EXCEPT ![t] = "PROXY_INTERNAL_ERROR"]
  /\ Leave(t, "idle")
  /\ UNCHANGED <<sent, theResponse, serviceVars, active, streaming>>

(* HTTPForward makes a streamer, which charges the backend. *)
Forward(t) ==
  /\ pc[t] = "forward"
  /\ Start(theHost[t])
  /\ Goto(t, "negotiate")
  /\ UNCHANGED <<sent, theHost, theStatus, theResponse, serviceVars, streaming>>

(* Mutant: the streamer is not destroyed. *)
ForwardFailsCharged(t) ==
  /\ pc[t] = "negotiate"
  /\ sent' = [sent EXCEPT ![t] = @ + 1]
  /\ Return(t, "PROXY_FAIL_REMOTE_HOST", "removeBackend")
  /\ UNCHANGED <<theHost, theResponse, serviceVars, active, streaming>>

(* Mutant: a request that has failed is sent to another backend. *)
ForwardFailsDenied(t) ==
  /\ pc[t] = "negotiate"
  /\ Stop(theHost[t])
  /\ sent' = [sent EXCEPT ![t] = @ + 1]
  /\ Return(t, "PROXY_FAIL_REMOTE_DENIED", "removeBackend")
  /\ UNCHANGED <<theHost, theResponse, serviceVars, streaming>>

(* sendAndListen fails, in connect or in the middle of the write, and the  *)
(* streamer is destroyed.                                                  *)
ForwardFails(t) ==
  /\ pc[t] = "negotiate"
  /\ Stop(theHost[t])
  /\ sent' = [sent EXCEPT ![t] = @ + 1]
  /\ Return(t, "PROXY_FAIL_REMOTE_HOST", "removeBackend")
  /\ UNCHANGED <<theHost, theResponse, serviceVars, streaming>>

(* An exception leaves HTTPForward before sendAndListen has started a read *)
(* and goes up through transport: the backend stays in service.            *)
ForwardThrows(t) ==
  /\ pc[t] = "negotiate"
  /\ Stop(theHost[t])
  /\ sent' = [sent EXCEPT ![t] = @ + 1]
  /\ Leave(t, "idle")
  /\ UNCHANGED <<theStatus, theResponse, serviceVars, streaming>>

(* The streamer leaves the attempt: it goes on to charge the backend until *)
(* it is drained, though the response of a denial goes nowhere.            *)
StreamerOutlives(t) == streaming' = [streaming EXCEPT ![theHost[t]] = @ + 1]

ForwardDenied(t) ==
  /\ pc[t] = "negotiate"
  /\ StreamerOutlives(t)
  /\ Return(t, "PROXY_FAIL_REMOTE_DENIED", "removeBackend")
  /\ UNCHANGED <<sent, theHost, theResponse, serviceVars, active>>

ForwardSucceeds(t) ==
  /\ pc[t] = "negotiate"
  /\ StreamerOutlives(t)
  /\ sent' = [sent EXCEPT ![t] = @ + 1]
  /\ theResponse' = [theResponse EXCEPT ![t] = "stream"]
  /\ Return(t, "PROXY_SUCCESS", "signalConnection")
  /\ UNCHANGED <<theHost, serviceVars, active>>

SignalConnection(t) ==
  /\ pc[t] = "signalConnection"
  /\ connections' = [connections EXCEPT ![theHost[t]] = @ + 1]
  /\ Leave(t, "idle")
  /\ UNCHANGED <<sent, theStatus, theResponse, inService, announcements,
                 active, streaming>>

(* Mutant: a backend that denies stays in service. *)
RemoveBackendUnlessDenied(t) ==
  /\ pc[t] = "removeBackend"
  /\ inService' = (IF theStatus[t] = "PROXY_FAIL_REMOTE_DENIED" THEN inService
                   ELSE inService \ {theHost[t]})
  /\ Goto(t, "removeRequests")
  /\ UNCHANGED <<sent, theHost, theStatus, theResponse, connections,
                 announcements, active, streaming>>

RemoveBackend(t) ==
  /\ pc[t] = "removeBackend"
  /\ inService' = inService \ {theHost[t]}
  /\ Goto(t, "removeRequests")
  /\ UNCHANGED <<sent, theHost, theStatus, theResponse, connections,
                 announcements, active, streaming>>

(* removeBackendRequests; requestHandler then resends a denied request.    *)
RemoveRequests(t) ==
  /\ pc[t] = "removeRequests"
  /\ Forget(theHost[t])
  /\ Leave(t, IF theStatus[t] = "PROXY_FAIL_REMOTE_DENIED" THEN "transport" ELSE "idle")
  /\ UNCHANGED <<sent, theStatus, theResponse, serviceVars, streaming>>

-----------------------------------------------------------------------------
(* requestNoMatchInfo.                                                     *)

(* "what" is missing, or no backend serves it. *)
InfoRefused(t) ==
  /\ pc[t] = "info"
  /\ \E status \in {"bad_request", "not_found"} :
       theResponse' = [theResponse EXCEPT ![t] = status]
  /\ Goto(t, "idle")
  /\ UNCHANGED <<sent, theHost, theStatus, serviceVars, active, streaming>>

(* One of the backends that serve it, at random. *)
InfoChoose(t) ==
  /\ pc[t] = "info"
  /\ \E b \in inService : theHost' = [theHost EXCEPT ![t] = b]
  /\ Goto(t, "infoForward")
  /\ UNCHANGED <<sent, theStatus, theResponse, serviceVars, active, streaming>>

InfoForward(t) ==
  /\ pc[t] = "infoForward"
  /\ Start(theHost[t])
  /\ Goto(t, "infoNegotiate")
  /\ UNCHANGED <<sent, theHost, theStatus, theResponse, serviceVars, streaming>>

(* Mutant: the backend's requests are forgotten, as transport does. *)
InfoFailsForgetting(t) ==
  /\ pc[t] = "infoNegotiate"
  /\ Forget(theHost[t])
  /\ sent' = [sent EXCEPT ![t] = @ + 1]
  /\ theResponse' = [theResponse EXCEPT ![t] = "bad_gateway"]
  /\ Leave(t, "idle")
  /\ UNCHANGED <<theStatus, serviceVars, streaming>>

(* sendAndListen fails, or an exception leaves HTTPForward: in either case *)
(* the streamer is destroyed and the backend stays in service.             *)
InfoFails(t) ==
  /\ pc[t] = "infoNegotiate"
  /\ Stop(theHost[t])
  /\ sent' = [sent EXCEPT ![t] = @ + 1]
  /\ \E status \in {"bad_gateway", "none"} :
       theResponse' = [theResponse EXCEPT ![t] = status]
  /\ Leave(t, "idle")
  /\ UNCHANGED <<theStatus, serviceVars, streaming>>

(* A denial is not resent, and success is not signalled to Sputnik. *)
InfoAnswered(t) ==
  /\ pc[t] = "infoNegotiate"
  /\ StreamerOutlives(t)
  /\ \/ /\ theResponse' = [theResponse EXCEPT ![t] = "bad_gateway"]
        /\ UNCHANGED sent
     \/ /\ theResponse' = [theResponse EXCEPT ![t] = "stream"]
        /\ sent' = [sent EXCEPT ![t] = @ + 1]
  /\ Leave(t, "idle")
  /\ UNCHANGED <<theStatus, serviceVars, active>>

-----------------------------------------------------------------------------
(* A streamer ends, in markFinishing() or its destructor. *)
StreamerReleases ==
  \E b \in Backends :
    /\ streaming[b] > 0
    /\ streaming' = [streaming EXCEPT ![b] = @ - 1]
    /\ Stop(b)
    /\ UNCHANGED <<pc, sent, theHost, theStatus, theResponse, serviceVars>>

(* A backend announces itself to Sputnik. *)
Announce ==
  /\ announcements < MaxAnnouncements
  /\ announcements' = announcements + 1
  /\ \E b \in Backends :
       /\ inService' = inService \cup {b}
       /\ connections' = [connections EXCEPT ![b] = 0]
  /\ UNCHANGED <<pc, sent, theHost, theStatus, theResponse, active, streaming>>

Negotiate(t) ==
  \/ Forward(t) \/ ForwardFails(t) \/ ForwardThrows(t)
  \/ ForwardDenied(t) \/ ForwardSucceeds(t)

NoMatchInfo(t) == \/ InfoRefused(t) \/ InfoChoose(t) \/ InfoForward(t)
                  \/ InfoFails(t) \/ InfoAnswered(t)

Transport(t) ==
  \/ NoService(t) \/ NoHost(t) \/ GetService(t)
  \/ BackendDead(t) \/ BackendAlive(t) \/ ResourceMismatch(t)
  \/ Negotiate(t)
  \/ SignalConnection(t) \/ RemoveBackend(t) \/ RemoveRequests(t)

Next ==
  \/ \E t \in Threads : Request(t) \/ Transport(t) \/ NoMatchInfo(t)
  \/ StreamerReleases
  \/ Announce

Spec == Init /\ [][Next]_vars

(* The server's threads run, and the blocking calls in HTTPForward return. *)
FairSpec == Spec /\ \A t \in Threads : WF_vars(Transport(t) \/ NoMatchInfo(t))

-----------------------------------------------------------------------------
(* Properties.                                                             *)

TypeOK ==
  /\ pc \in [Threads -> {"idle", "transport", "query", "forward", "negotiate",
                         "signalConnection", "removeBackend", "removeRequests",
                         "info", "infoForward", "infoNegotiate"}]
  /\ theHost \in [Threads -> Backends \cup {NoBackend}]
  /\ theStatus \in [Threads -> Statuses]
  /\ theResponse \in [Threads -> {"none", "not_modified", "not_found",
                                  "bad_request", "bad_gateway", "stream"}]
  /\ sent \in [Threads -> Nat]
  /\ inService \subseteq Backends
  /\ connections \in [Backends -> Nat]
  /\ announcements \in 0..MaxAnnouncements
  /\ active \in [Backends -> Nat]
  /\ streaming \in [Backends -> Nat]
  /\ \A t \in Threads :
       pc[t] \notin {"idle", "transport", "info"} => theHost[t] \in Backends

(* A request that may have crashed a backend is not sent to another one:   *)
(* over all its attempts at most one backend takes it in or fails under    *)
(* it, and a client is told Not Modified by the frontend only if none did. *)
NotSentTwice ==
  \A t \in Threads :
    /\ sent[t] <= 1
    /\ theResponse[t] = "not_modified" => sent[t] = 0
    /\ pc[t] = "transport" => sent[t] = 0

(* The throttle is a check before and a signal after a connection, with    *)
(* the connection in between; still a silent backend gets no more than one *)
(* connection per other thread above the throttle.                         *)
ThrottleHolds ==
  \A b \in Backends : connections[b] <= Throttle - 1 + Cardinality(Threads)

(* The streamers that charge backend b: those that are streaming and those *)
(* in the hands of HTTPForward.                                            *)
Negotiating(b) == {t \in Threads : /\ pc[t] \in {"negotiate", "infoNegotiate"}
                                    /\ theHost[t] = b}
Charging(b)    == streaming[b] + Cardinality(Negotiating(b))

(* The account never shows a backend busier than it is, so that no backend *)
(* is kept from its share of the load, and shows nothing when nothing      *)
(* streams: whatever order removals, announcements and ends come in.       *)
NeverOvercounted == \A b \in Backends : active[b] <= Charging(b)

(* What may make the count of a backend wrong is its retirement in the     *)
(* midst of its streams, which forgets them, and nothing else: no failure, *)
(* exception, denial or end of a stream, whether for transport or for      *)
(* info, and no announcement.                                              *)
CountLostByRetirement ==
  [][\A b \in Backends :
       active[b] = Charging(b) /\ active'[b] # Charging(b)' =>
         /\ Charging(b) > 0
         /\ \E t \in Threads : pc[t] = "removeRequests" /\ theHost[t] = b
                                 /\ pc'[t] # "removeRequests"]_vars

(* Every request comes to an end as long as backends do not keep on        *)
(* announcing themselves: each denial takes a backend out of service.      *)
RequestEnds == \A t \in Threads : pc[t] # "idle" ~> pc[t] = "idle"

(* "Forward the request keeping account of how many active requests each   *)
(* backend has. The destructor of the streamer created by the proxy will   *)
(* decrement the count": the count of a backend in service is right.       *)
CountIsExact == \A b \in inService : active[b] = Charging(b)
=============================================================================
