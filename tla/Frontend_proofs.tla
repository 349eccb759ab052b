----------------------------- MODULE Frontend_proofs -----------------------------
(***************************************************************************)
(* The safety of Frontend for any number of threads and backends and any   *)
(* throttle.                                                               *)
(*                                                                         *)
(* A request that can still be sent has been taken in by no backend        *)
(* (Clean).  The throttle holds because a thread past queryBackendAlive    *)
(* and its signalBackendConnection carry one connection that is not        *)
(* counted yet (Past): the sum of the two is what cannot grow.  The        *)
(* account is bounded by the streamers because every removal forgets at    *)
(* least as much as it should.                                             *)
(***************************************************************************)
EXTENDS Frontend, FiniteSetTheorems, TLAPS

(* Thread t may still send its request. *)
MaySend(t) ==
  \/ pc[t] \in {"transport", "query", "forward", "negotiate",
                "info", "infoForward", "infoNegotiate"}
  \/ /\ pc[t] \in {"removeBackend", "removeRequests"}
     /\ theStatus[t] = "PROXY_FAIL_REMOTE_DENIED"

Clean(t) ==
  /\ MaySend(t) => sent[t] = 0 /\ theResponse[t] = "none"
  /\ sent[t] <= 1
  /\ theResponse[t] = "not_modified" => sent[t] = 0

(* The threads whose connection to b has passed the throttle and is not    *)
(* signalled yet.                                                          *)
Past(b) == {t \in Threads : /\ pc[t] \in {"forward", "negotiate", "signalConnection"}
                            /\ theHost[t] = b}

ThrottleSum ==
  \A b \in Backends :
    connections[b] + Cardinality(Past(b)) <= Throttle - 1 + Cardinality(Threads)

IInv ==
  /\ TypeOK
  /\ \A t \in Threads : Clean(t)
  /\ ThrottleSum
  /\ NeverOvercounted

-----------------------------------------------------------------------------
(* Counting threads.                                                       *)

LEMMA CountFacts ==
  \A b \in Backends :
    /\ IsFiniteSet(Past(b)) /\ Cardinality(Past(b)) \in Nat
    /\ Cardinality(Past(b)) <= Cardinality(Threads)
    /\ IsFiniteSet(Negotiating(b)) /\ Cardinality(Negotiating(b)) \in Nat
    /\ Cardinality(Threads) \in Nat
<1> TAKE b \in Backends
<1>1. Past(b) \in SUBSET Threads /\ Negotiating(b) \in SUBSET Threads
  BY DEF Past, Negotiating
<1> QED
  BY <1>1, FrontendAssumption, FS_Subset, FS_CardinalityType

(* Two sets that differ in t at most. *)
LEMMA CountStep ==
  ASSUME NEW S, NEW T, IsFiniteSet(S), IsFiniteSet(T), NEW t, S \ {t} = T \ {t}
  PROVE  Cardinality(T) = Cardinality(S) + (IF t \in T THEN 1 ELSE 0)
                                         - (IF t \in S THEN 1 ELSE 0)
<1>1. Cardinality(S) \in Nat /\ Cardinality(T) \in Nat
  BY FS_CardinalityType
<1>2. Cardinality(S \ {t}) = IF t \in S THEN Cardinality(S) - 1 ELSE Cardinality(S)
  BY FS_RemoveElement
<1>3. Cardinality(T \ {t}) = IF t \in T THEN Cardinality(T) - 1 ELSE Cardinality(T)
  BY FS_RemoveElement
<1> QED  BY <1>1, <1>2, <1>3

(* Everyone but t stays where it is. *)
Others(t) == \A u \in Threads \ {t} : /\ pc'[u] = pc[u] /\ theHost'[u] = theHost[u]
                                      /\ theStatus'[u] = theStatus[u]
                                      /\ theResponse'[u] = theResponse[u]
                                      /\ sent'[u] = sent[u]

LEMMA MoveStep ==
  ASSUME NEW t \in Threads, Others(t), NEW b \in Backends
  PROVE  /\ Cardinality(Past(b)') = Cardinality(Past(b))
              + (IF pc'[t] \in {"forward", "negotiate", "signalConnection"}
                    /\ theHost'[t] = b THEN 1 ELSE 0)
              - (IF pc[t] \in {"forward", "negotiate", "signalConnection"}
                    /\ theHost[t] = b THEN 1 ELSE 0)
         /\ Cardinality(Negotiating(b)') = Cardinality(Negotiating(b))
              + (IF pc'[t] \in {"negotiate", "infoNegotiate"} /\ theHost'[t] = b
                 THEN 1 ELSE 0)
              - (IF pc[t] \in {"negotiate", "infoNegotiate"} /\ theHost[t] = b
                 THEN 1 ELSE 0)
         /\ Cardinality(Past(b)') \in Nat /\ Cardinality(Past(b)) \in Nat
         /\ Cardinality(Past(b)') <= Cardinality(Threads)
         /\ Cardinality(Negotiating(b)') \in Nat /\ Cardinality(Negotiating(b)) \in Nat
         /\ Cardinality(Threads) \in Nat
<1>1. Past(b) \in SUBSET Threads /\ Negotiating(b) \in SUBSET Threads
  BY DEF Past, Negotiating
<1>2. Past(b)' \in SUBSET Threads /\ Negotiating(b)' \in SUBSET Threads
  BY DEF Past, Negotiating
<1>3. /\ IsFiniteSet(Past(b)) /\ IsFiniteSet(Negotiating(b))
      /\ IsFiniteSet(Past(b)') /\ IsFiniteSet(Negotiating(b)')
      /\ Cardinality(Past(b)') <= Cardinality(Threads)
  BY <1>1, <1>2, FrontendAssumption, FS_Subset
<1>4. Past(b) \ {t} = Past(b)' \ {t} /\ Negotiating(b) \ {t} = Negotiating(b)' \ {t}
  BY DEF Others, Past, Negotiating
<1>5. /\ t \in Past(b)' <=> /\ pc'[t] \in {"forward", "negotiate", "signalConnection"}
                            /\ theHost'[t] = b
      /\ t \in Past(b) <=> /\ pc[t] \in {"forward", "negotiate", "signalConnection"}
                           /\ theHost[t] = b
      /\ t \in Negotiating(b)' <=> /\ pc'[t] \in {"negotiate", "infoNegotiate"}
                                   /\ theHost'[t] = b
      /\ t \in Negotiating(b) <=> /\ pc[t] \in {"negotiate", "infoNegotiate"}
                                  /\ theHost[t] = b
  BY DEF Past, Negotiating
<1>6. Cardinality(Past(b)') = Cardinality(Past(b)) + (IF t \in Past(b)' THEN 1 ELSE 0)
                                                   - (IF t \in Past(b) THEN 1 ELSE 0)
  BY <1>3, <1>4, CountStep
<1>7. Cardinality(Negotiating(b)') = Cardinality(Negotiating(b))
        + (IF t \in Negotiating(b)' THEN 1 ELSE 0)
        - (IF t \in Negotiating(b) THEN 1 ELSE 0)
  BY <1>3, <1>4, CountStep
<1> QED
  BY <1>3, <1>5, <1>6, <1>7, FrontendAssumption, FS_CardinalityType

-----------------------------------------------------------------------------
(* Types.                                                                  *)

LEMMA StepTypes == ASSUME TypeOK, [Next]_vars PROVE TypeOK'
<1> USE FrontendAssumption DEF TypeOK, Statuses
<1>1. ASSUME NEW t \in Threads, Request(t) PROVE TypeOK'
  BY <1>1 DEF Request, Return, Goto, serviceVars
<1>2. ASSUME NEW t \in Threads, NoService(t) PROVE TypeOK'
  BY <1>2 DEF NoService, NotModifiedOr, Goto, serviceVars
<1>3. ASSUME NEW t \in Threads, NoHost(t) PROVE TypeOK'
  BY <1>3 DEF NoHost, Return, Goto, serviceVars
<1>4. ASSUME NEW t \in Threads, GetService(t) PROVE TypeOK'
  BY <1>4 DEF GetService, Goto, serviceVars
<1>5. ASSUME NEW t \in Threads, BackendDead(t) PROVE TypeOK'
  BY <1>5 DEF BackendDead, NotModifiedOr, Goto, serviceVars
<1>6. ASSUME NEW t \in Threads, BackendAlive(t) PROVE TypeOK'
  BY <1>6 DEF BackendAlive, Goto, serviceVars
<1>7. ASSUME NEW t \in Threads, ResourceMismatch(t) PROVE TypeOK'
  BY <1>7 DEF ResourceMismatch, Leave, Goto, serviceVars
<1>8. ASSUME NEW t \in Threads, Forward(t) PROVE TypeOK'
  BY <1>8 DEF Forward, Start, Goto, serviceVars
<1>9. ASSUME NEW t \in Threads, ForwardFails(t) PROVE TypeOK'
  BY <1>9 DEF ForwardFails, Stop, Return, Goto, serviceVars
<1>10. ASSUME NEW t \in Threads, ForwardDenied(t) PROVE TypeOK'
  BY <1>10 DEF ForwardDenied, StreamerOutlives, Return, Goto, serviceVars
<1>11. ASSUME NEW t \in Threads, ForwardSucceeds(t) PROVE TypeOK'
  BY <1>11 DEF ForwardSucceeds, StreamerOutlives, Return, Goto, serviceVars
<1>12. ASSUME NEW t \in Threads, SignalConnection(t) PROVE TypeOK'
  BY <1>12 DEF SignalConnection, Leave, Goto
<1>13. ASSUME NEW t \in Threads, RemoveBackend(t) PROVE TypeOK'
  BY <1>13 DEF RemoveBackend, Goto
<1>14. ASSUME NEW t \in Threads, RemoveRequests(t) PROVE TypeOK'
  BY <1>14 DEF RemoveRequests, Forget, Leave, Goto, serviceVars
<1>15. CASE StreamerReleases
  BY <1>15 DEF StreamerReleases, Stop, serviceVars
<1>16. CASE Announce
  BY <1>16 DEF Announce
<1>17. CASE UNCHANGED vars
  BY <1>17 DEF vars, serviceVars
<1>18. ASSUME NEW t \in Threads, ForwardThrows(t) PROVE TypeOK'
  BY <1>18 DEF ForwardThrows, Stop, Leave, Goto, serviceVars
<1>19. ASSUME NEW t \in Threads, InfoRefused(t) \/ InfoChoose(t) \/ InfoForward(t)
       PROVE  TypeOK'
  <2>1. ASSUME InfoRefused(t) PROVE TypeOK'
    BY <2>1 DEF InfoRefused, Goto, serviceVars
  <2>2. ASSUME InfoChoose(t) PROVE TypeOK'
    BY <2>2 DEF InfoChoose, Goto, serviceVars
  <2>3. ASSUME InfoForward(t) PROVE TypeOK'
    BY <2>3 DEF InfoForward, Start, Goto, serviceVars
  <2> QED  BY <1>19, <2>1, <2>2, <2>3
<1>20. ASSUME NEW t \in Threads, InfoFails(t) PROVE TypeOK'
  BY <1>20 DEF InfoFails, Stop, Leave, Goto, serviceVars
<1>21. ASSUME NEW t \in Threads, InfoAnswered(t) PROVE TypeOK'
  BY <1>21 DEF InfoAnswered, StreamerOutlives, Leave, Goto, serviceVars
<1> QED
  BY <1>1, <1>2, <1>3, <1>4, <1>5, <1>6, <1>7, <1>8, <1>9, <1>10, <1>11, <1>12,
     <1>13, <1>14, <1>15, <1>16, <1>17, <1>18, <1>19, <1>20, <1>21
     DEF Next, Transport, Negotiate, NoMatchInfo

LEMMA OthersStay ==
  ASSUME TypeOK, NEW t \in Threads, Request(t) \/ Transport(t) \/ NoMatchInfo(t)
  PROVE  Others(t)
<1> USE DEF Others, TypeOK
<1>1. ASSUME Request(t) PROVE Others(t)
  BY <1>1 DEF Request, Return, Goto
<1>2. ASSUME NoService(t) \/ NoHost(t) \/ GetService(t) PROVE Others(t)
  BY <1>2 DEF NoService, NoHost, GetService, NotModifiedOr, Return, Goto
<1>3. ASSUME BackendDead(t) \/ BackendAlive(t) \/ ResourceMismatch(t) PROVE Others(t)
  BY <1>3 DEF BackendDead, BackendAlive, ResourceMismatch, NotModifiedOr, Leave, Goto
<1>4. ASSUME Forward(t) \/ ForwardFails(t) PROVE Others(t)
  BY <1>4 DEF Forward, ForwardFails, Return, Goto
<1>5. ASSUME ForwardDenied(t) \/ ForwardSucceeds(t) PROVE Others(t)
  BY <1>5 DEF ForwardDenied, ForwardSucceeds, Return, Goto
<1>6. ASSUME SignalConnection(t) \/ RemoveBackend(t) \/ RemoveRequests(t) PROVE Others(t)
  BY <1>6 DEF SignalConnection, RemoveBackend, RemoveRequests, Leave, Goto
<1>7. ASSUME ForwardThrows(t) PROVE Others(t)
  BY <1>7 DEF ForwardThrows, Leave, Goto
<1>8. ASSUME NoMatchInfo(t) PROVE Others(t)
  <2>1. ASSUME InfoRefused(t) \/ InfoChoose(t) \/ InfoForward(t) PROVE Others(t)
    BY <2>1 DEF InfoRefused, InfoChoose, InfoForward, Goto
  <2>2. ASSUME InfoFails(t) \/ InfoAnswered(t) PROVE Others(t)
    BY <2>2 DEF InfoFails, InfoAnswered, Leave, Goto
  <2> QED  BY <1>8, <2>1, <2>2 DEF NoMatchInfo
<1> QED
  BY <1>1, <1>2, <1>3, <1>4, <1>5, <1>6, <1>7, <1>8 DEF Transport, Negotiate

-----------------------------------------------------------------------------
(* A request that has reached a backend is not sent again.                 *)

LEMMA ThreadClean ==
  ASSUME TypeOK, NEW t \in Threads, Clean(t), Request(t) \/ Transport(t) \/ NoMatchInfo(t)
  PROVE  Clean(t)'
<1> USE DEF TypeOK, Clean, MaySend
<1>1. ASSUME Request(t) PROVE Clean(t)'
  BY <1>1 DEF Request, Return, Goto
<1>2. ASSUME NoService(t) PROVE Clean(t)'
  BY <1>2 DEF NoService, NotModifiedOr, Goto
<1>3. ASSUME NoHost(t) PROVE Clean(t)'
  BY <1>3 DEF NoHost, Return, Goto
<1>4. ASSUME GetService(t) \/ BackendAlive(t) PROVE Clean(t)'
  BY <1>4 DEF GetService, BackendAlive, Goto
<1>5. ASSUME BackendDead(t) PROVE Clean(t)'
  BY <1>5 DEF BackendDead, NotModifiedOr, Goto
<1>6. ASSUME ResourceMismatch(t) PROVE Clean(t)'
  BY <1>6 DEF ResourceMismatch, Leave, Goto
<1>7. ASSUME Forward(t) PROVE Clean(t)'
  BY <1>7 DEF Forward, Goto
<1>8. ASSUME ForwardFails(t) PROVE Clean(t)'
  BY <1>8 DEF ForwardFails, Return, Goto
<1>9. ASSUME ForwardDenied(t) PROVE Clean(t)'
  BY <1>9 DEF ForwardDenied, Return, Goto
<1>10. ASSUME ForwardSucceeds(t) PROVE Clean(t)'
  BY <1>10 DEF ForwardSucceeds, Return, Goto
<1>11. ASSUME SignalConnection(t) PROVE Clean(t)'
  BY <1>11 DEF SignalConnection, Leave, Goto
<1>12. ASSUME RemoveBackend(t) PROVE Clean(t)'
  BY <1>12 DEF RemoveBackend, Goto
<1>13. ASSUME RemoveRequests(t) PROVE Clean(t)'
  BY <1>13 DEF RemoveRequests, Leave, Goto
<1>14. ASSUME ForwardThrows(t) PROVE Clean(t)'
  BY <1>14 DEF ForwardThrows, Leave, Goto
<1>15. ASSUME InfoRefused(t) PROVE Clean(t)'
  BY <1>15 DEF InfoRefused, Goto
<1>16. ASSUME InfoChoose(t) \/ InfoForward(t) PROVE Clean(t)'
  BY <1>16 DEF InfoChoose, InfoForward, Goto
<1>17. ASSUME InfoFails(t) PROVE Clean(t)'
  BY <1>17 DEF InfoFails, Leave, Goto
<1>18. ASSUME InfoAnswered(t) PROVE Clean(t)'
  BY <1>18 DEF InfoAnswered, Leave, Goto
<1> QED
  BY <1>1, <1>2, <1>3, <1>4, <1>5, <1>6, <1>7, <1>8, <1>9, <1>10, <1>11, <1>12, <1>13,
     <1>14, <1>15, <1>16, <1>17, <1>18 DEF Transport, Negotiate, NoMatchInfo

LEMMA StepClean ==
  ASSUME TypeOK, \A t \in Threads : Clean(t), [Next]_vars
  PROVE  \A t \in Threads : Clean(t)'
<1>1. ASSUME NEW t \in Threads, Request(t) \/ Transport(t) \/ NoMatchInfo(t)
      PROVE  \A u \in Threads : Clean(u)'
  <2>1. Clean(t)'
    BY <1>1, ThreadClean
  <2>2. \A u \in Threads \ {t} : Clean(u)'
    BY <1>1, OthersStay DEF Others, Clean, MaySend
  <2> QED  BY <2>1, <2>2
<1>2. CASE StreamerReleases \/ Announce \/ UNCHANGED vars
  BY <1>2 DEF StreamerReleases, Announce, vars, Clean, MaySend
<1> QED  BY <1>1, <1>2 DEF Next

-----------------------------------------------------------------------------
(* The counts.                                                             *)

Counts(b) ==
  /\ connections[b] + Cardinality(Past(b)) <= Throttle - 1 + Cardinality(Threads)
  /\ active[b] <= Charging(b)

(* A thread is about to forget requests of b that go on, and does so. *)
Forgotten(b) ==
  /\ Charging(b) > 0
  /\ \E t \in Threads : pc[t] = "removeRequests" /\ theHost[t] = b
                          /\ pc'[t] # "removeRequests"

(* The streamers that the count of b misses do not become more. *)
NoMoreMissing(b) == Charging(b)' + active[b] <= Charging(b) + active'[b]

CountsStep(b) ==
  /\ Counts(b)'
  /\ NoMoreMissing(b) \/ Forgotten(b)

LEMMA ThreadCounts ==
  ASSUME TypeOK, NEW t \in Threads, Request(t) \/ Transport(t) \/ NoMatchInfo(t),
         NEW b \in Backends, Counts(b)
  PROVE  CountsStep(b)
<1>1. Others(t)
  BY OthersStay
<1>2. /\ Cardinality(Past(b)') = Cardinality(Past(b))
           + (IF pc'[t] \in {"forward", "negotiate", "signalConnection"}
                 /\ theHost'[t] = b THEN 1 ELSE 0)
           - (IF pc[t] \in {"forward", "negotiate", "signalConnection"}
                 /\ theHost[t] = b THEN 1 ELSE 0)
      /\ Cardinality(Negotiating(b)') = Cardinality(Negotiating(b))
           + (IF pc'[t] \in {"negotiate", "infoNegotiate"} /\ theHost'[t] = b
              THEN 1 ELSE 0)
           - (IF pc[t] \in {"negotiate", "infoNegotiate"} /\ theHost[t] = b
              THEN 1 ELSE 0)
      /\ Cardinality(Past(b)') \in Nat /\ Cardinality(Past(b)) \in Nat
      /\ Cardinality(Past(b)') <= Cardinality(Threads)
      /\ Cardinality(Negotiating(b)') \in Nat /\ Cardinality(Negotiating(b)) \in Nat
      /\ Cardinality(Threads) \in Nat
  BY <1>1, MoveStep
<1>3. Throttle \in Nat \ {0}
  BY FrontendAssumption
<1>4. /\ connections[b] \in Nat /\ active[b] \in Nat /\ streaming[b] \in Nat
      /\ pc \in [Threads -> {"idle", "transport", "query", "forward", "negotiate",
                             "signalConnection", "removeBackend", "removeRequests",
                             "info", "infoForward", "infoNegotiate"}]
      /\ theHost \in [Threads -> Backends \cup {NoBackend}]
      /\ connections \in [Backends -> Nat] /\ active \in [Backends -> Nat]
      /\ streaming \in [Backends -> Nat]
      /\ NoBackend # b
  BY FrontendAssumption DEF TypeOK
<1> USE <1>2, <1>3, <1>4 DEF Counts, Charging, CountsStep, Forgotten, NoMoreMissing
<1>5. ASSUME \/ Request(t) \/ NoService(t) \/ NoHost(t) \/ GetService(t)
             \/ BackendDead(t) \/ RemoveBackend(t) \/ InfoRefused(t) \/ InfoChoose(t)
      PROVE  CountsStep(b)
  <2>1. /\ pc[t] \notin {"forward", "negotiate", "signalConnection", "infoNegotiate"}
        /\ pc'[t] \notin {"forward", "negotiate", "signalConnection", "infoNegotiate"}
        /\ UNCHANGED <<connections, active, streaming>>
    BY <1>5 DEF Request, NoService, NoHost, GetService, BackendDead, RemoveBackend,
       InfoRefused, InfoChoose, Return, Goto, serviceVars
  <2> QED  BY <2>1
<1>6. ASSUME BackendAlive(t) PROVE CountsStep(b)
  <2>1. /\ pc[t] = "query" /\ pc'[t] = "forward" /\ theHost' = theHost
        /\ connections[theHost[t]] < Throttle
        /\ UNCHANGED <<connections, active, streaming>>
    BY <1>6 DEF BackendAlive, Goto, serviceVars
  <2> QED  BY <2>1
<1>7. ASSUME ResourceMismatch(t) PROVE CountsStep(b)
  <2>1. /\ pc[t] = "forward" /\ pc'[t] = "idle"
        /\ UNCHANGED <<connections, active, streaming>>
    BY <1>7 DEF ResourceMismatch, Leave, Goto, serviceVars
  <2> QED  BY <2>1
<1>8. ASSUME Forward(t) PROVE CountsStep(b)
  <2>1. /\ pc[t] = "forward" /\ pc'[t] = "negotiate" /\ theHost' = theHost
        /\ active'[b] = IF theHost[t] = b THEN active[b] + 1 ELSE active[b]
        /\ UNCHANGED <<connections, streaming>>
    BY <1>8 DEF Forward, Start, Goto, serviceVars
  <2> QED  BY <2>1
<1>9. ASSUME ForwardFails(t) PROVE CountsStep(b)
  <2>1. /\ pc[t] = "negotiate" /\ pc'[t] = "removeBackend" /\ theHost' = theHost
        /\ active'[b] = IF theHost[t] = b
                        THEN IF active[b] > 0 THEN active[b] - 1 ELSE 0
                        ELSE active[b]
        /\ UNCHANGED <<connections, streaming>>
    BY <1>9 DEF ForwardFails, Stop, Return, Goto, serviceVars
  <2> QED  BY <2>1
<1>10. ASSUME ForwardDenied(t) \/ ForwardSucceeds(t) PROVE CountsStep(b)
  <2>1. /\ pc[t] = "negotiate" /\ pc'[t] \in {"removeBackend", "signalConnection"}
        /\ theHost' = theHost
        /\ streaming'[b] = IF theHost[t] = b THEN streaming[b] + 1 ELSE streaming[b]
        /\ UNCHANGED <<connections, active>>
    BY <1>10 DEF ForwardDenied, ForwardSucceeds, StreamerOutlives, Return, Goto,
       serviceVars
  <2> QED  BY <2>1
<1>11. ASSUME SignalConnection(t) PROVE CountsStep(b)
  <2>1. /\ pc[t] = "signalConnection" /\ pc'[t] = "idle"
        /\ connections'[b] = IF theHost[t] = b THEN connections[b] + 1 ELSE connections[b]
        /\ UNCHANGED <<active, streaming>>
    BY <1>11 DEF SignalConnection, Leave, Goto
  <2> QED  BY <2>1
<1>12. ASSUME RemoveRequests(t) PROVE CountsStep(b)
  <2>1. /\ pc[t] = "removeRequests" /\ pc'[t] \in {"transport", "idle"}
        /\ active'[b] = IF theHost[t] = b THEN 0 ELSE active[b]
        /\ UNCHANGED <<connections, streaming>>
    BY <1>12 DEF RemoveRequests, Forget, Leave, Goto, serviceVars
  <2> QED  BY <2>1
<1>13. ASSUME ForwardThrows(t) \/ InfoFails(t) PROVE CountsStep(b)
  <2>1. /\ pc[t] \in {"negotiate", "infoNegotiate"} /\ pc'[t] = "idle"
        /\ active'[b] = IF theHost[t] = b
                        THEN IF active[b] > 0 THEN active[b] - 1 ELSE 0
                        ELSE active[b]
        /\ UNCHANGED <<connections, streaming>>
    BY <1>13 DEF ForwardThrows, InfoFails, Stop, Leave, Goto, serviceVars
  <2> QED  BY <2>1
<1>14. ASSUME InfoForward(t) PROVE CountsStep(b)
  <2>1. /\ pc[t] = "infoForward" /\ pc'[t] = "infoNegotiate" /\ theHost' = theHost
        /\ active'[b] = IF theHost[t] = b THEN active[b] + 1 ELSE active[b]
        /\ UNCHANGED <<connections, streaming>>
    BY <1>14 DEF InfoForward, Start, Goto, serviceVars
  <2> QED  BY <2>1
<1>15. ASSUME InfoAnswered(t) PROVE CountsStep(b)
  <2>1. /\ pc[t] = "infoNegotiate" /\ pc'[t] = "idle"
        /\ streaming'[b] = IF theHost[t] = b THEN streaming[b] + 1 ELSE streaming[b]
        /\ UNCHANGED <<connections, active>>
    BY <1>15 DEF InfoAnswered, StreamerOutlives, Leave, Goto, serviceVars
  <2> QED  BY <2>1
<1> QED
  BY <1>5, <1>6, <1>7, <1>8, <1>9, <1>10, <1>11, <1>12, <1>13, <1>14, <1>15
     DEF Transport, Negotiate, NoMatchInfo

LEMMA StepCounts ==
  ASSUME TypeOK, NEW b \in Backends, Counts(b), [Next]_vars
  PROVE  CountsStep(b)
<1>1. ASSUME NEW t \in Threads, Request(t) \/ Transport(t) \/ NoMatchInfo(t)
      PROVE  CountsStep(b)
  BY <1>1, ThreadCounts
<1>2. ASSUME UNCHANGED <<pc, theHost>>
      PROVE  Past(b)' = Past(b) /\ Negotiating(b)' = Negotiating(b)
  BY <1>2 DEF Past, Negotiating
<1>3. /\ Cardinality(Past(b)) \in Nat /\ Cardinality(Negotiating(b)) \in Nat
      /\ Cardinality(Past(b)) <= Cardinality(Threads) /\ Cardinality(Threads) \in Nat
      /\ Throttle \in Nat \ {0}
  BY CountFacts, FrontendAssumption
<1> USE <1>3 DEF Counts, Charging, CountsStep, Forgotten, NoMoreMissing, TypeOK
<1>4. CASE StreamerReleases
  <2>1. Past(b)' = Past(b) /\ Negotiating(b)' = Negotiating(b)
    BY <1>2, <1>4 DEF StreamerReleases
  <2>2. /\ connections' = connections
        /\ \/ streaming'[b] = streaming[b] /\ active'[b] = active[b]
           \/ /\ streaming[b] > 0 /\ streaming'[b] = streaming[b] - 1
              /\ active'[b] = IF active[b] > 0 THEN active[b] - 1 ELSE 0
    BY <1>4 DEF StreamerReleases, Stop, serviceVars
  <2>3. /\ active[b] \in Nat /\ streaming[b] \in Nat
        /\ active[b] <= streaming[b] + Cardinality(Negotiating(b))
    OBVIOUS
  <2>4. /\ active'[b] <= streaming'[b] + Cardinality(Negotiating(b))
        /\ streaming'[b] + Cardinality(Negotiating(b)) + active[b]
             <= streaming[b] + Cardinality(Negotiating(b)) + active'[b]
    BY <2>2, <2>3
  <2> QED  BY <2>1, <2>2, <2>4
<1>5. CASE Announce
  <2>1. Past(b)' = Past(b) /\ Negotiating(b)' = Negotiating(b)
    BY <1>2, <1>5 DEF Announce
  <2>2. /\ UNCHANGED <<active, streaming>>
        /\ connections'[b] = connections[b] \/ connections'[b] = 0
    BY <1>5 DEF Announce
  <2> QED  BY <2>1, <2>2
<1>6. CASE UNCHANGED vars
  <2>1. Past(b)' = Past(b) /\ Negotiating(b)' = Negotiating(b)
    BY <1>2, <1>6 DEF vars
  <2> QED  BY <1>6, <2>1 DEF vars, serviceVars
<1> QED  BY <1>1, <1>4, <1>5, <1>6 DEF Next

-----------------------------------------------------------------------------
(* The attempts at a request run out.                                      *)

(* The backends the request of t may still be sent to. *)
Prospects(t) ==
  inService \cup (IF pc[t] \in {"query", "forward", "negotiate", "removeBackend"}
                  THEN {theHost[t]} ELSE {})

(* The steps of an attempt that are left, at most. *)
StepsLeft(place) ==
  CASE place = "removeRequests" -> 6
    [] place = "transport" -> 5
    [] place = "query" -> 4
    [] place \in {"forward", "info"} -> 3
    [] place \in {"negotiate", "infoForward"} -> 2
    [] place \in {"removeBackend", "signalConnection", "infoNegotiate"} -> 1
    [] OTHER -> 0

Fewer(t) ==
  /\ Prospects(t)' \subseteq Prospects(t)
  /\ pc'[t] # pc[t] => \/ StepsLeft(pc'[t]) < StepsLeft(pc[t])
                       \/ Prospects(t)' # Prospects(t)

(* A step that keeps the services and brings the attempt nearer its end. *)
LEMMA Nearer ==
  ASSUME NEW t \in Threads, inService' \subseteq inService,
         StepsLeft(pc'[t]) < StepsLeft(pc[t]),
         pc'[t] \in {"query", "forward", "negotiate", "removeBackend"} =>
           \/ theHost'[t] \in inService
           \/ /\ theHost'[t] = theHost[t]
              /\ pc[t] \in {"query", "forward", "negotiate", "removeBackend"}
  PROVE  Fewer(t)
BY DEF Fewer, Prospects

LEMMA ThreadFewer ==
  ASSUME TypeOK, NEW t \in Threads, pc[t] # "idle",
         Transport(t) \/ NoMatchInfo(t)
  PROVE  Fewer(t)
<1>1. pc \in [Threads -> {"idle", "transport", "query", "forward", "negotiate",
                          "signalConnection", "removeBackend", "removeRequests",
                          "info", "infoForward", "infoNegotiate"}]
      /\ theHost \in [Threads -> Backends \cup {NoBackend}]
  BY DEF TypeOK
<1>2. ASSUME \/ NoService(t) \/ NoHost(t) \/ ResourceMismatch(t) \/ ForwardThrows(t)
             \/ InfoRefused(t) \/ InfoFails(t) \/ InfoAnswered(t)
      PROVE  Fewer(t)
  <2>1. /\ inService' = inService /\ pc'[t] = "idle"
        /\ pc[t] \in {"transport", "forward", "negotiate", "info", "infoNegotiate"}
    BY <1>1, <1>2 DEF NoService, NoHost, ResourceMismatch, ForwardThrows, InfoRefused,
       InfoFails, InfoAnswered, Return, Leave, Goto, serviceVars
  <2>2. StepsLeft(pc'[t]) < StepsLeft(pc[t])
    BY <2>1 DEF StepsLeft
  <2> QED  BY <2>1, <2>2, Nearer
<1>3. ASSUME GetService(t) \/ InfoChoose(t)
      PROVE  Fewer(t)
  <2>1. /\ inService' = inService /\ theHost'[t] \in inService
        /\ \/ pc[t] = "transport" /\ pc'[t] = "query"
           \/ pc[t] = "info" /\ pc'[t] = "infoForward"
    BY <1>1, <1>3 DEF GetService, InfoChoose, Goto, serviceVars
  <2>2. StepsLeft(pc'[t]) < StepsLeft(pc[t])
    BY <2>1 DEF StepsLeft
  <2> QED  BY <2>1, <2>2, Nearer
<1>4. ASSUME BackendDead(t) \/ BackendAlive(t) \/ Forward(t)
      PROVE  Fewer(t)
  <2>1. /\ inService' = inService /\ theHost' = theHost
        /\ \/ pc[t] = "query" /\ pc'[t] \in {"removeBackend", "forward"}
           \/ pc[t] = "forward" /\ pc'[t] = "negotiate"
    BY <1>1, <1>4 DEF BackendDead, BackendAlive, Forward, Goto, serviceVars
  <2>2. StepsLeft(pc'[t]) < StepsLeft(pc[t])
    BY <2>1 DEF StepsLeft
  <2> QED  BY <2>1, <2>2, Nearer
<1>5. ASSUME ForwardFails(t) \/ ForwardDenied(t) \/ ForwardSucceeds(t)
      PROVE  Fewer(t)
  <2>1. /\ inService' = inService /\ theHost' = theHost
        /\ pc[t] = "negotiate" /\ pc'[t] \in {"removeBackend", "signalConnection"}
    BY <1>1, <1>5 DEF ForwardFails, ForwardDenied, ForwardSucceeds, Return, Goto,
       serviceVars
  <2>2. StepsLeft(pc'[t]) < StepsLeft(pc[t])
    BY <2>1 DEF StepsLeft
  <2> QED  BY <2>1, <2>2, Nearer
<1>6. ASSUME SignalConnection(t) \/ RemoveRequests(t) \/ InfoForward(t)
      PROVE  Fewer(t)
  <2>1. /\ inService' = inService
        /\ \/ pc[t] = "signalConnection" /\ pc'[t] = "idle"
           \/ pc[t] = "removeRequests" /\ pc'[t] \in {"transport", "idle"}
           \/ pc[t] = "infoForward" /\ pc'[t] = "infoNegotiate"
    BY <1>1, <1>6 DEF SignalConnection, RemoveRequests, InfoForward, Leave, Goto,
       serviceVars
  <2>2. StepsLeft(pc'[t]) < StepsLeft(pc[t])
    BY <2>1 DEF StepsLeft
  <2> QED  BY <2>1, <2>2, Nearer
<1>7. ASSUME RemoveBackend(t) PROVE Fewer(t)
  <2>1. /\ pc[t] = "removeBackend" /\ pc'[t] = "removeRequests"
        /\ inService' = inService \ {theHost[t]}
    BY <1>1, <1>7 DEF RemoveBackend, Goto
  <2>2. /\ Prospects(t) = inService \cup {theHost[t]}
        /\ Prospects(t)' = inService \ {theHost[t]}
    BY <2>1 DEF Prospects
  <2> QED  BY <2>2 DEF Fewer
<1> QED
  BY <1>2, <1>3, <1>4, <1>5, <1>6, <1>7 DEF Transport, Negotiate, NoMatchInfo

LEMMA StepFewer ==
  ASSUME TypeOK, [Next]_vars, announcements' = announcements,
         NEW t \in Threads, pc[t] # "idle"
  PROVE  Fewer(t)
<1>1. CASE Transport(t) \/ NoMatchInfo(t)
  BY <1>1, ThreadFewer
<1>2. ASSUME inService' \subseteq inService, pc'[t] = pc[t], theHost'[t] = theHost[t]
      PROVE  Fewer(t)
  BY <1>2 DEF Fewer, Prospects
<1>3. ASSUME NEW u \in Threads \ {t}, Request(u) \/ Transport(u) \/ NoMatchInfo(u)
      PROVE  Fewer(t)
  <2>1. pc'[t] = pc[t] /\ theHost'[t] = theHost[t]
    BY <1>3, OthersStay DEF Others
  <2>2. inService' \subseteq inService
    <3>1. ASSUME Request(u) \/ NoMatchInfo(u) PROVE inService' = inService
      BY <3>1 DEF Request, NoMatchInfo, InfoRefused, InfoChoose, InfoForward, InfoFails,
         InfoAnswered, serviceVars
    <3>2. ASSUME Negotiate(u) PROVE inService' = inService
      BY <3>2 DEF Negotiate, Forward, ForwardFails, ForwardThrows, ForwardDenied,
         ForwardSucceeds, serviceVars
    <3>3. ASSUME \/ NoService(u) \/ NoHost(u) \/ GetService(u) \/ BackendDead(u)
                 \/ BackendAlive(u) \/ ResourceMismatch(u)
          PROVE  inService' = inService
      BY <3>3 DEF NoService, NoHost, GetService, BackendDead, BackendAlive,
         ResourceMismatch, serviceVars
    <3>4. ASSUME SignalConnection(u) \/ RemoveBackend(u) \/ RemoveRequests(u)
          PROVE  inService' \subseteq inService
      BY <3>4 DEF SignalConnection, RemoveBackend, RemoveRequests, serviceVars
    <3> QED  BY <1>3, <3>1, <3>2, <3>3, <3>4 DEF Transport
  <2> QED  BY <1>2, <2>1, <2>2
<1>4. CASE StreamerReleases \/ UNCHANGED vars
  BY <1>2, <1>4 DEF StreamerReleases, vars, serviceVars
<1>5. CASE Announce
  BY <1>5 DEF Announce, TypeOK
<1>6. ASSUME Request(t) PROVE FALSE
  BY <1>6 DEF Request
<1> QED  BY <1>1, <1>3, <1>4, <1>5, <1>6 DEF Next

-----------------------------------------------------------------------------
(* The invariant and the theorems.                                         *)

LEMMA InitSound == ASSUME Init PROVE IInv
<1>1. TypeOK
  BY FrontendAssumption DEF Init, TypeOK, Statuses
<1>2. \A t \in Threads : Clean(t)
  BY DEF Init, Clean, MaySend
<1>3. ThrottleSum /\ NeverOvercounted
  <2>1. \A b \in Backends : Past(b) = {} /\ Negotiating(b) = {}
    BY DEF Init, Past, Negotiating
  <2>2. Cardinality(Threads) \in Nat /\ Throttle \in Nat \ {0}
    BY FrontendAssumption, FS_CardinalityType
  <2>3. Cardinality({}) = 0
    BY FS_EmptySet
  <2>4. ThrottleSum
    <3> SUFFICES ASSUME NEW b \in Backends
                 PROVE  connections[b] + Cardinality(Past(b))
                          <= Throttle - 1 + Cardinality(Threads)
      BY DEF ThrottleSum
    <3>1. connections[b] = 0 /\ Cardinality(Past(b)) = 0
      BY <2>1, <2>3 DEF Init
    <3> QED  BY <2>2, <3>1
  <2>5. NeverOvercounted
    BY <2>1, <2>3 DEF Init, NeverOvercounted, Charging
  <2> QED  BY <2>4, <2>5
<1> QED  BY <1>1, <1>2, <1>3 DEF IInv

LEMMA Inductive == Spec => []IInv
<1>1. Init => IInv
  BY InitSound
<1>2. IInv /\ [Next]_vars => IInv'
  <2> SUFFICES ASSUME IInv, [Next]_vars PROVE IInv'
    OBVIOUS
  <2>1. TypeOK'
    BY StepTypes DEF IInv
  <2>2. (\A t \in Threads : Clean(t))'
    BY StepClean DEF IInv
  <2>3. \A b \in Backends : Counts(b)
    BY DEF IInv, Counts, ThrottleSum, NeverOvercounted
  <2>4. \A b \in Backends : Counts(b)'
    BY <2>3, StepCounts DEF IInv, CountsStep
  <2>5. ThrottleSum' /\ NeverOvercounted'
    BY <2>4 DEF Counts, ThrottleSum, NeverOvercounted
  <2> QED  BY <2>1, <2>2, <2>5 DEF IInv
<1> QED  BY <1>1, <1>2, PTL DEF Spec

LEMMA MissingStep ==
  ASSUME IInv, [Next]_vars, NEW b \in Backends
  PROVE  /\ NoMoreMissing(b) \/ Forgotten(b)
         /\ active'[b] <= Charging(b)'
<1>1. Counts(b)
  BY DEF IInv, Counts, ThrottleSum, NeverOvercounted
<1>2. CountsStep(b)
  BY <1>1, StepCounts DEF IInv
<1> QED  BY <1>2 DEF CountsStep, Counts

LEMMA ChargingTypes ==
  ASSUME IInv, [Next]_vars, NEW b \in Backends
  PROVE  /\ active[b] \in Nat /\ Charging(b) \in Nat
         /\ active'[b] \in Nat /\ Charging(b)' \in Nat
<1>1. active[b] \in Nat /\ streaming[b] \in Nat
  BY DEF IInv, TypeOK
<1>2. active'[b] \in Nat /\ streaming'[b] \in Nat
  BY StepTypes DEF IInv, TypeOK
<1>3. Negotiating(b) \in SUBSET Threads /\ Negotiating(b)' \in SUBSET Threads
  BY DEF Negotiating
<1>4. Cardinality(Negotiating(b)) \in Nat /\ Cardinality(Negotiating(b)') \in Nat
  BY <1>3, FrontendAssumption, FS_Subset, FS_CardinalityType
<1> QED  BY <1>1, <1>2, <1>4 DEF Charging

(* The variables of requestHandler, transport, the services and the        *)
(* account keep their types; a thread past getService has a backend.       *)
THEOREM TypeCorrect == Spec => []TypeOK
<1>1. IInv => TypeOK
  BY DEF IInv
<1> QED  BY <1>1, Inductive, PTL

(* The loop of requestHandler resends denied requests only, however many   *)
(* backends deny it and whatever the other threads do to the services.     *)
THEOREM NeverSentTwice == Spec => []NotSentTwice
<1>1. IInv => NotSentTwice
  BY DEF IInv, Clean, MaySend, NotSentTwice
<1> QED  BY <1>1, Inductive, PTL

(* queryBackendAlive before and signalBackendConnection after a connection *)
(* let through at most one connection for each other thread too many.      *)
THEOREM ThrottleIsHeld == Spec => []ThrottleHolds
<1>1. IInv => ThrottleHolds
  <2> SUFFICES ASSUME IInv, NEW b \in Backends
               PROVE  connections[b] <= Throttle - 1 + Cardinality(Threads)
    BY DEF ThrottleHolds
  <2>1. connections[b] + Cardinality(Past(b)) <= Throttle - 1 + Cardinality(Threads)
    BY DEF IInv, ThrottleSum
  <2>2. /\ Cardinality(Past(b)) \in Nat /\ Cardinality(Threads) \in Nat
        /\ connections[b] \in Nat /\ Throttle \in Nat \ {0}
    BY CountFacts, FrontendAssumption DEF IInv, TypeOK
  <2> QED  BY <2>1, <2>2
<1> QED  BY <1>1, Inductive, PTL

(* The account of active requests never exceeds the streamers there are.   *)
THEOREM AccountIsBounded == Spec => []NeverOvercounted
<1>1. IInv => NeverOvercounted
  BY DEF IInv
<1> QED  BY <1>1, Inductive, PTL

(* Unless a backend is retired with streams, the account that is right     *)
(* stays right, through every step of transport and requestNoMatchInfo.    *)
THEOREM CountsStayRight == Spec => CountLostByRetirement
<1>1. IInv /\ [Next]_vars =>
        [\A b \in Backends :
           active[b] = Charging(b) /\ active'[b] # Charging(b)' =>
             /\ Charging(b) > 0
             /\ \E t \in Threads : pc[t] = "removeRequests" /\ theHost[t] = b
                                     /\ pc'[t] # "removeRequests"]_vars
  <2> SUFFICES ASSUME IInv, [Next]_vars, NEW b \in Backends,
                      active[b] = Charging(b), active'[b] # Charging(b)'
               PROVE  Forgotten(b)
    BY DEF Forgotten
  <2>1. NoMoreMissing(b) \/ Forgotten(b)
    BY MissingStep
  <2>2. active'[b] <= Charging(b)'
    BY MissingStep
  <2>3. active[b] \in Nat /\ active'[b] \in Nat /\ Charging(b) \in Nat /\ Charging(b)' \in Nat
    BY ChargingTypes
  <2> QED  BY <2>1, <2>2, <2>3 DEF NoMoreMissing
<1> QED  BY <1>1, Inductive, PTL DEF Spec, CountLostByRetirement

(* Also when a count has lost streams, no step makes the loss greater but  *)
(* another retirement in their midst: the ends of forgotten streams take   *)
(* nothing from the charges of later ones beyond what was lost.            *)
LossOnlyByRetirement ==
  [][\A b \in Backends : NoMoreMissing(b) \/ Forgotten(b)]_vars

(* The loss of a count never grows by itself; as the count is bounded by   *)
(* the streamers (AccountIsBounded), it is right again at the latest when  *)
(* none is left.                                                           *)
THEOREM LossIsBounded == Spec => LossOnlyByRetirement
<1>1. IInv /\ [Next]_vars => [\A b \in Backends : NoMoreMissing(b) \/ Forgotten(b)]_vars
  BY MissingStep
<1> QED  BY <1>1, Inductive, PTL DEF Spec, LossOnlyByRetirement

(* What the comment in transport says of the account does hold as long as  *)
(* no backend is retired in the midst of its streams, however requests     *)
(* fail, are denied or throw, and whoever announces itself.                *)
THEOREM CountsExactWithoutRetirement ==
  Spec /\ [][\A b \in Backends : ~Forgotten(b)]_vars => []CountIsExact
<1> DEFINE Exact == \A b \in Backends : active[b] = Charging(b)
           NoneForgotten == \A b \in Backends : ~Forgotten(b)
<1>1. Init => Exact
  <2> SUFFICES ASSUME Init, NEW b \in Backends PROVE active[b] = Charging(b)
    OBVIOUS
  <2>1. Negotiating(b) = {} /\ active[b] = 0 /\ streaming[b] = 0
    BY DEF Init, Negotiating
  <2> QED  BY <2>1, FS_EmptySet DEF Charging
<1>2. IInv /\ [Next]_vars /\ [NoneForgotten]_vars /\ Exact => Exact'
  <2> SUFFICES ASSUME IInv, [Next]_vars, [NoneForgotten]_vars, Exact, NEW b \in Backends
               PROVE  active'[b] = Charging(b)'
    OBVIOUS
  <2>1. CASE UNCHANGED vars
    BY <2>1 DEF vars, Charging, Negotiating
  <2>2. CASE NoneForgotten
    <3>1. NoMoreMissing(b) /\ active'[b] <= Charging(b)'
      BY <2>2, MissingStep
    <3>2. active[b] \in Nat /\ active'[b] \in Nat /\ Charging(b)' \in Nat
      BY ChargingTypes
    <3> QED  BY <3>1, <3>2 DEF NoMoreMissing
  <2> QED  BY <2>1, <2>2
<1>3. IInv /\ Exact => CountIsExact
  BY DEF IInv, TypeOK, CountIsExact
<1> HIDE DEF Exact
<1> QED  BY <1>1, <1>2, <1>3, Inductive, PTL DEF Spec

(* Why the attempts at a request run out: between announcements a backend  *)
(* that the request has left does not come back to it, whoever removes     *)
(* backends meanwhile, and each step of its thread in requestHandler,      *)
(* transport or requestNoMatchInfo brings the end of the attempt nearer or *)
(* takes a backend away for good.                                          *)
AttemptsRunOut ==
  [][announcements' = announcements =>
       \A t \in Threads : pc[t] # "idle" =>
         /\ Prospects(t)' \subseteq Prospects(t)
         /\ pc'[t] # pc[t] => \/ StepsLeft(pc'[t]) < StepsLeft(pc[t])
                              \/ Prospects(t)' # Prospects(t)]_vars

(* Between announcements every step of a thread brings the end of its      *)
(* request nearer: no order of denials, failures and removals by other     *)
(* threads makes requestHandler resend a request for ever.                 *)
THEOREM AttemptsAreFinite == Spec => AttemptsRunOut
<1>1. IInv /\ [Next]_vars =>
        [announcements' = announcements =>
           \A t \in Threads : pc[t] # "idle" =>
             /\ Prospects(t)' \subseteq Prospects(t)
             /\ pc'[t] # pc[t] => \/ StepsLeft(pc'[t]) < StepsLeft(pc[t])
                                  \/ Prospects(t)' # Prospects(t)]_vars
  BY StepFewer DEF IInv, Fewer
<1> QED  BY <1>1, Inductive, PTL DEF Spec, AttemptsRunOut
=============================================================================
