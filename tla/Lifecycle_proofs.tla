---------------------------- MODULE Lifecycle_proofs ----------------------------
(***************************************************************************)
(* The safety of Lifecycle for any number of requests and pool threads.    *)
(*                                                                         *)
(* Stage ties the members, the handlers and the pool to where the plugin's *)
(* thread is, and Own the account and the progress of a request to who     *)
(* still holds its streamer.  A step of one request leaves the operations  *)
(* of the others alone (Others), so that Own is proved for one request at  *)
(* a time.                                                                 *)
(***************************************************************************)
EXTENDS Lifecycle, TLAPS

(* The operations that have completed and not been handled to the end. *)
Completed == Range(ready) \cup Range(job)

NotMade == {"new", "noMatch", "info", "unserved"}

Progress(r) ==
  place[r] \in {"listening", "client"} /\ itsGatewayStatus[r] = "ONGOING" =>
    Busy(r, "read") \/ itsBackendBufferFull[r] \/ aborted[r]

Own(r) ==
  /\ place[r] \in NotMade => ~Alive(r) /\ ~itsFinishing[r]
  /\ active[r] = IF Alive(r) /\ ~itsFinishing[r] THEN 1 ELSE 0
  /\ Progress(r)

Stage ==
  /\ itsProxy <=> main \notin {"construct", "destroyed", "failed"}
  /\ itsSputnikEngine <=> main \in {"register", "unregistered", "serving", "joining",
                                 "stopped"}
  /\ "noMatch" \in handlers => main \notin {"construct", "hook", "destroyed", "failed"}
  /\ "info" \in handlers => main \in {"serving", "joining", "stopped", "destroying",
                                      "destroyed"}
  /\ pool = "none" => main \in {"construct", "failed"}
  /\ pool = "stopped" <=> main \in {"joining", "stopped", "destroying", "destroyed"}
  /\ \A w \in PoolThreads :
       /\ main = "construct" => worker[w] = "none"
       /\ worker[w] = "none" => pool = "none"
       /\ worker[w] = "exited" => pool = "stopped"
       /\ main \in {"stopped", "destroying", "destroyed"} => worker[w] = "exited"

IInv ==
  /\ TypeOK
  /\ Stage
  /\ HandlersFindMembers
  /\ \A r \in Requests : Own(r)

-----------------------------------------------------------------------------
(* The queue and the threads as sets of operations.                        *)

LEMMA RangeAppend ==
  ASSUME NEW S, NEW s \in Seq(S), NEW x
  PROVE  Range(Append(s, x)) = Range(s) \cup {x}
<1> DEFINE t == Append(s, x)
<1>1. DOMAIN t = 1..Len(s) + 1 /\ DOMAIN s = 1..Len(s) /\ Len(s) \in Nat
  OBVIOUS
<1>2. \A i \in 1..Len(s) : t[i] = s[i]
  OBVIOUS
<1>3. t[Len(s) + 1] = x
  OBVIOUS
<1>4. 1..Len(s) + 1 = (1..Len(s)) \cup {Len(s) + 1}
  BY <1>1
<1> HIDE DEF t
<1>5. Range(t) = Range(s) \cup {x}
  BY <1>1, <1>2, <1>3, <1>4 DEF Range
<1> QED  BY <1>5 DEF t

LEMMA RangeHeadTail ==
  ASSUME NEW S, NEW s \in Seq(S), s # <<>>
  PROVE  Range(s) = {Head(s)} \cup Range(Tail(s))
<1> DEFINE t == Tail(s)
<1>1. DOMAIN s = 1..Len(s) /\ Len(s) \in Nat \ {0} /\ DOMAIN t = 1..Len(s) - 1
  OBVIOUS
<1>2. \A i \in 1..Len(s) - 1 : t[i] = s[i + 1]
  OBVIOUS
<1>3. Head(s) = s[1]
  OBVIOUS
<1> HIDE DEF t
<1>4. Range(s) \subseteq {s[1]} \cup Range(t)
  <2> SUFFICES ASSUME NEW y \in Range(s) PROVE y \in {s[1]} \cup Range(t)
    OBVIOUS
  <2>1. PICK i \in 1..Len(s) : y = s[i]
    BY <1>1 DEF Range
  <2>2. CASE i = 1
    BY <2>1, <2>2
  <2>3. CASE i # 1
    <3>1. i - 1 \in 1..Len(s) - 1 /\ t[i - 1] = s[i]
      BY <1>1, <1>2, <2>3
    <3> QED  BY <1>1, <2>1, <3>1 DEF Range
  <2> QED  BY <2>2, <2>3
<1>5. {s[1]} \cup Range(t) \subseteq Range(s)
  <2>1. s[1] \in Range(s)
    BY <1>1 DEF Range
  <2>2. ASSUME NEW y \in Range(t) PROVE y \in Range(s)
    <3>1. PICK i \in 1..Len(s) - 1 : y = t[i]
      BY <1>1, <2>2 DEF Range
    <3>2. i + 1 \in 1..Len(s) /\ y = s[i + 1]
      BY <1>1, <1>2, <3>1
    <3> QED  BY <1>1, <3>2 DEF Range
  <2> QED  BY <2>1, <2>2
<1> QED  BY <1>3, <1>4, <1>5 DEF t

(* One thread takes another job. *)
LEMMA RangeJob ==
  ASSUME TypeOK, NEW w \in PoolThreads, NEW v, job' = [job EXCEPT ![w] = v]
  PROVE  /\ v \in Range(job')
         /\ \A op : op # v /\ op # job[w] => (op \in Range(job') <=> op \in Range(job))
         /\ \A op : op \in Range(job) /\ op # job[w] => op \in Range(job')
<1>1. DOMAIN job = PoolThreads /\ DOMAIN job' = PoolThreads
  BY DEF TypeOK
<1>2. job'[w] = v /\ \A u \in PoolThreads \ {w} : job'[u] = job[u]
  BY <1>1
<1> QED  BY <1>1, <1>2 DEF Range

LEMMA NoJobIsNone ==
  \A q, what : <<q, what>> # NoJob
  BY DEF NoJob

-----------------------------------------------------------------------------
(* A step of request r does not concern another one. *)
Others(r) ==
  \A q \in Requests \ {r} :
    /\ place'[q] = place[q] /\ pending'[q] = pending[q]
    /\ itsGatewayStatus'[q] = itsGatewayStatus[q]
    /\ itsBackendBufferFull'[q] = itsBackendBufferFull[q]
    /\ aborted'[q] = aborted[q]
    /\ itsFinishing'[q] = itsFinishing[q] /\ active'[q] = active[q]
    /\ \A what \in {"read", "wait"} : <<q, what>> \in Completed' <=> <<q, what>> \in Completed

LEMMA OthersKept ==
  ASSUME NEW r \in Requests, Others(r), NEW q \in Requests \ {r}, Own(q)
  PROVE  Own(q)'
<1>1. Alive(q)' <=> Alive(q)
  BY DEF Others, Alive, Completed
<1>2. Busy(q, "read")' <=> Busy(q, "read")
  BY DEF Others, Busy, Completed
<1>3. Progress(q)'
  BY <1>2 DEF Others, Own, Progress
<1>4. place'[q] \in NotMade => ~Alive(q)' /\ ~itsFinishing'[q]
  BY <1>1 DEF Others, Own
<1>5. active'[q] = IF Alive(q)' /\ ~itsFinishing'[q] THEN 1 ELSE 0
  BY <1>1 DEF Others, Own
<1> QED  BY <1>3, <1>4, <1>5 DEF Own

(* What a step does to the completed operations. *)
LEMMA CompletedAppend ==
  ASSUME TypeOK, NEW r \in Requests, NEW what \in {"read", "wait"},
         ready' = Append(ready, <<r, what>>), job' = job
  PROVE  Completed' = Completed \cup {<<r, what>>}
<1>1. Range(ready') = Range(ready) \cup {<<r, what>>}
  BY RangeAppend DEF TypeOK
<1> QED  BY <1>1 DEF Completed

LEMMA CompletedCancelled ==
  ASSUME TypeOK, NEW r \in Requests, ready' = Cancelled(r)
  PROVE  /\ ready' \in Seq(Operation)
         /\ Range(ready') = IF "wait" \in pending[r] THEN Range(ready) \cup {<<r, "wait">>}
                            ELSE Range(ready)
<1>1. CASE "wait" \in pending[r]
  <2>1. ready' = Append(ready, <<r, "wait">>)
    BY <1>1 DEF Cancelled
  <2>2. <<r, "wait">> \in Operation
    BY DEF Operation
  <2>3. Range(ready') = Range(ready) \cup {<<r, "wait">>}
    BY <2>1, RangeAppend DEF TypeOK
  <2>4. ready' \in Seq(Operation)
    BY <2>1, <2>2 DEF TypeOK
  <2> QED  BY <1>1, <2>3, <2>4
<1>2. CASE "wait" \notin pending[r]
  BY <1>2 DEF Cancelled, TypeOK
<1> QED  BY <1>1, <1>2

LEMMA CompletedRun ==
  ASSUME TypeOK, NEW w \in PoolThreads, Run(w)
  PROVE  /\ Head(ready) \in Operation /\ ready' \in Seq(Operation)
         /\ \A q, what : <<q, what>> \in Completed' <=> <<q, what>> \in Completed
<1>1. Head(ready) \in Operation /\ Tail(ready) \in Seq(Operation)
  BY DEF TypeOK, Run
<1>2. Range(ready) = {Head(ready)} \cup Range(ready')
  BY RangeHeadTail DEF TypeOK, Run
<1>3. job' = [job EXCEPT ![w] = Head(ready)] /\ job[w] = NoJob
  BY DEF Run
<1>4. Head(ready) \in Range(job')
  BY <1>3, RangeJob
<1>5. \A op : op # Head(ready) /\ op # NoJob => (op \in Range(job') <=> op \in Range(job))
  BY <1>3, RangeJob
<1>6. \A q, what : <<q, what>> \in Completed' <=> <<q, what>> \in Completed
  BY <1>2, <1>4, <1>5, NoJobIsNone DEF Completed
<1> QED  BY <1>1, <1>6 DEF Run

LEMMA AccountStep ==
  ASSUME TypeOK, NEW r \in Requests, Own(r), Account(r), Alive(r)' => Alive(r),
         \/ itsFinishing' = itsFinishing
         \/ itsFinishing' = [itsFinishing EXCEPT ![r] = TRUE] /\ Alive(r)
  PROVE  /\ active' \in [Requests -> {0, 1}]
         /\ active'[r] = IF Alive(r)' /\ ~itsFinishing'[r] THEN 1 ELSE 0
         /\ \A q \in Requests \ {r} : active'[q] = active[q]
         /\ active'[r] <= active[r]
<1>1. \/ itsFinishing'[r] <=> itsFinishing[r]
      \/ itsFinishing'[r] /\ Alive(r)
  BY DEF TypeOK
<1>2. itsFinishing[r] \in BOOLEAN /\ itsFinishing'[r] \in BOOLEAN
  BY DEF TypeOK
<1>3. active[r] = IF Alive(r) /\ ~itsFinishing[r] THEN 1 ELSE 0
  BY DEF Own
<1> DEFINE off == \/ itsFinishing'[r] # itsFinishing[r]
                  \/ Alive(r) /\ ~Alive(r)' /\ ~itsFinishing[r]
<1>4. active' = [active EXCEPT ![r] = active[r] - (IF off THEN 1 ELSE 0)]
  BY DEF Account
<1>5. off <=> Alive(r) /\ ~itsFinishing[r] /\ ~(Alive(r)' /\ ~itsFinishing'[r])
  BY <1>1, <1>2, Zenon
<1>6. (Alive(r)' /\ ~itsFinishing'[r]) => Alive(r) /\ ~itsFinishing[r]
  BY <1>1, <1>2
<1> HIDE DEF off
<1>7. active[r] - (IF off THEN 1 ELSE 0) = IF Alive(r)' /\ ~itsFinishing'[r] THEN 1 ELSE 0
  BY <1>3, <1>5, <1>6
<1>8. active[r] \in {0, 1} /\ (IF off THEN 1 ELSE 0) \in {0, 1}
  BY DEF TypeOK
<1>9. active' = [active EXCEPT ![r] = IF Alive(r)' /\ ~itsFinishing'[r] THEN 1 ELSE 0]
  BY <1>4, <1>7
<1>10. active'[r] = IF Alive(r)' /\ ~itsFinishing'[r] THEN 1 ELSE 0
  BY <1>9 DEF TypeOK
<1> QED  BY <1>3, <1>6, <1>8, <1>9, <1>10 DEF TypeOK

-----------------------------------------------------------------------------
(* The steps of a request in the server. *)

LEMMA ServerStep ==
  ASSUME TypeOK, NEW r \in Requests, Own(r), Server(r)
  PROVE  TypeOK' /\ Others(r) /\ Own(r)'
<1> USE DEF Move, pluginVars, poolVars, streamVars, countVars
<1>1. CASE Arrive(r) \/ NotForwarded(r)
  <2>1. place[r] \in NotMade /\ place'[r] \in NotMade
    BY <1>1 DEF Arrive, NotForwarded, NotMade, TypeOK
  <2>2. UNCHANGED <<poolVars, pending, streamVars, countVars>>
    BY <1>1 DEF Arrive, NotForwarded
  <2>3. ~Alive(r) /\ ~Alive(r)'
    BY <2>1, <2>2 DEF Own, Alive, NotMade
  <2>4. TypeOK'
    BY <1>1, <2>2 DEF Arrive, NotForwarded, TypeOK
  <2>5. Others(r)
    BY <1>1, <2>2 DEF Arrive, NotForwarded, Others, TypeOK, Completed
  <2> QED  BY <2>1, <2>2, <2>3, <2>4, <2>5 DEF Own, Progress, NotMade
<1>2. CASE Create(r)
  <2>1. ~Alive(r) /\ ~itsFinishing[r] /\ active[r] = 0
    BY <1>2 DEF Create, Own, NotMade
  <2>2. place'[r] = "made" /\ Alive(r)'
    BY <1>2 DEF Create, Alive, TypeOK
  <2>3. active' = [active EXCEPT ![r] = 1]
    BY <1>2, <2>1 DEF Create
  <2>4. TypeOK'
    BY <1>2, <2>3 DEF Create, TypeOK
  <2>5. Others(r)
    BY <1>2 DEF Create, Others, TypeOK, Completed
  <2>6. itsFinishing' = itsFinishing /\ active'[r] = 1
    BY <1>2, <2>3 DEF Create, TypeOK
  <2> QED  BY <2>1, <2>2, <2>4, <2>5, <2>6 DEF Own, Progress, NotMade
<1>3. CASE Listen(r)
  <2>1. place[r] = "made" /\ place'[r] = "listening" /\ pending'[r] = {"read", "wait"}
    BY <1>3 DEF Listen, TypeOK
  <2>2. Alive(r) /\ Alive(r)' /\ Busy(r, "read")'
    BY <2>1 DEF Alive, Busy
  <2>3. UNCHANGED <<poolVars, streamVars, countVars>>
    BY <1>3 DEF Listen
  <2>4. TypeOK'
    BY <1>3 DEF Listen, TypeOK
  <2>5. Others(r)
    BY <1>3 DEF Listen, Others, TypeOK, Completed
  <2> QED  BY <2>1, <2>2, <2>3, <2>4, <2>5 DEF Own, Progress, NotMade
<1>4. CASE SendFails(r) \/ PeekReturns(r) \/ Leave(r)
  <2>1. /\ place[r] \in {"made", "listening", "client"}
        /\ place'[r] \in {"client", "gone"}
        /\ place[r] = "listening" \/ place'[r] = "gone"
    BY <1>4 DEF SendFails, PeekReturns, Leave, TypeOK
  <2>2. UNCHANGED <<poolVars, pending, streamVars, itsFinishing>> /\ Account(r)
    BY <1>4 DEF SendFails, PeekReturns, Leave
  <2>3. Alive(r)
    BY <2>1 DEF Alive
  <2>4. /\ active' \in [Requests -> {0, 1}]
        /\ active'[r] = IF Alive(r)' /\ ~itsFinishing'[r] THEN 1 ELSE 0
        /\ \A q \in Requests \ {r} : active'[q] = active[q]
    BY <2>2, <2>3, AccountStep
  <2>5. TypeOK'
    BY <1>4, <2>2, <2>4 DEF SendFails, PeekReturns, Leave, TypeOK
  <2>6. Others(r)
    BY <1>4, <2>2, <2>4 DEF SendFails, PeekReturns, Leave, Others, TypeOK, Completed
  <2>7. Progress(r)'
    BY <2>1, <2>2 DEF Own, Progress, Busy
  <2> QED  BY <2>1, <2>4, <2>5, <2>6, <2>7 DEF Own, NotMade
<1>5. CASE GetChunk(r)
  <2>1. /\ place[r] = "client" /\ place' = place
        /\ pending' = [pending EXCEPT ![r] = {"read"}] /\ ready' = Cancelled(r)
        /\ itsBackendBufferFull' = [itsBackendBufferFull EXCEPT ![r] = FALSE]
        /\ UNCHANGED <<pluginVars, pool, worker, job, countVars, itsGatewayStatus, aborted>>
    BY <1>5 DEF GetChunk, TypeOK
  <2>2. /\ ready' \in Seq(Operation)
        /\ Range(ready') = IF "wait" \in pending[r] THEN Range(ready) \cup {<<r, "wait">>}
                           ELSE Range(ready)
    BY <2>1, CompletedCancelled
  <2>3. Alive(r) /\ Alive(r)' /\ Busy(r, "read")'
    BY <2>1 DEF Alive, Busy, TypeOK
  <2>4. TypeOK'
    BY <2>1, <2>2 DEF TypeOK
  <2>5. Others(r)
    BY <2>1, <2>2 DEF Others, TypeOK, Completed
  <2> QED  BY <2>1, <2>3, <2>4, <2>5 DEF Own, Progress, NotMade
<1> QED  BY <1>1, <1>2, <1>3, <1>4, <1>5 DEF Server
-----------------------------------------------------------------------------
(* The steps of the pool. *)

LEMMA CompleteStep ==
  ASSUME TypeOK, NEW r \in Requests, Own(r), Complete(r)
  PROVE  TypeOK' /\ Others(r) /\ Own(r)'
<1> USE DEF pluginVars, poolVars, streamVars, countVars
<1>1. PICK what \in pending[r] :
        /\ pending' = [pending EXCEPT ![r] = pending[r] \ {what}]
        /\ ready' = Append(ready, <<r, what>>)
        /\ UNCHANGED <<pluginVars, pool, worker, job, place, streamVars, countVars>>
  BY DEF Complete
<1>2. what \in {"read", "wait"} /\ <<r, what>> \in Operation
  BY DEF TypeOK, Operation
<1>3. Completed' = Completed \cup {<<r, what>>}
  BY <1>1, <1>2, CompletedAppend
<1>4. Alive(r) /\ Alive(r)'
  BY <1>1, <1>2, <1>3 DEF Alive, Completed
<1>5. Busy(r, "read") => Busy(r, "read")'
  BY <1>1, <1>3 DEF Busy, Completed, TypeOK
<1>6. TypeOK'
  BY <1>1, <1>2 DEF TypeOK
<1>7. Others(r)
  BY <1>1, <1>3 DEF Others, TypeOK
<1> QED  BY <1>1, <1>4, <1>5, <1>6, <1>7 DEF Own, Progress, NotMade

LEMMA RunType ==
  ASSUME TypeOK, NEW w \in PoolThreads, Run(w) \/ Exit(w)
  PROVE  TypeOK'
<1> USE DEF pluginVars, streamVars, countVars
<1>1. CASE Run(w)
  <2>1. Head(ready) \in Operation /\ ready' \in Seq(Operation)
    BY <1>1, CompletedRun
  <2>2. job' \in [PoolThreads -> Operation \cup {NoJob}]
    BY <1>1, <2>1 DEF Run, TypeOK
  <2> QED  BY <1>1, <2>1, <2>2 DEF Run, TypeOK
<1>2. CASE Exit(w)
  BY <1>2 DEF Exit, TypeOK
<1> QED  BY <1>1, <1>2

LEMMA RunStep ==
  ASSUME TypeOK, NEW w \in PoolThreads, Run(w) \/ Exit(w), NEW q \in Requests, Own(q)
  PROVE  Own(q)'
<1> USE DEF pluginVars, poolVars, streamVars, countVars
<1>1. \A what : <<q, what>> \in Completed' <=> <<q, what>> \in Completed
  BY CompletedRun DEF Exit, Completed
<1>2. UNCHANGED <<pluginVars, pool, place, pending, streamVars, countVars>>
  BY DEF Run, Exit
<1>3. Alive(q)' = Alive(q) /\ Busy(q, "read")' = Busy(q, "read")
  BY <1>1, <1>2 DEF Alive, Busy, Completed
<1> QED  BY <1>2, <1>3 DEF Own, Progress

(* What Return leaves, whatever the handler was. *)
LEMMA ReturnStep ==
  ASSUME TypeOK, NEW r \in Requests, Own(r), NEW w \in PoolThreads,
         NEW what \in {"read", "wait"}, Handles(w, r, what),
         NEW reading \in SUBSET {"read"}, NEW timer, Return(w, r, reading, timer),
         \/ itsFinishing' = itsFinishing
         \/ itsFinishing' = [itsFinishing EXCEPT ![r] = TRUE]
  PROVE  /\ Alive(r)
         /\ active' \in [Requests -> {0, 1}]
         /\ active'[r] = IF Alive(r)' /\ ~itsFinishing'[r] THEN 1 ELSE 0
         /\ \A q \in Requests \ {r} : active'[q] = active[q]
         /\ active'[r] <= active[r]
         /\ ready' \in Seq(Operation)
         /\ job' \in [PoolThreads -> Operation \cup {NoJob}]
         /\ pending' \in [Requests -> SUBSET {"read", "wait"}]
         /\ reading \subseteq pending'[r]
         /\ "read" \in pending[r] => "read" \in pending'[r]
         /\ \A q \in Requests \ {r} : pending'[q] = pending[q]
         /\ \A q, o : <<q, o>> # <<r, what>> =>
              (<<q, o>> \in Completed => <<q, o>> \in Completed')
         /\ \A q, o : q # r => (<<q, o>> \in Completed' => <<q, o>> \in Completed)
<1>1. /\ job' = [job EXCEPT ![w] = NoJob] /\ job[w] = <<r, what>>
      /\ ready' = IF timer = "kept" THEN ready ELSE Cancelled(r)
      /\ pending' = [pending EXCEPT ![r] =
           (IF timer = "kept" THEN pending[r] ELSE pending[r] \ {"wait"}) \cup reading]
      /\ Account(r)
  BY DEF Return, Handles
<1>2. <<r, what>> \in Range(job)
  BY <1>1 DEF Range, TypeOK
<1>3. Alive(r)
  BY <1>2 DEF Alive
<1>4. ready' \in Seq(Operation) /\ (Range(ready') = Range(ready) \/
        Range(ready') = Range(ready) \cup {<<r, "wait">>})
  <2>1. CASE timer = "kept"
    BY <1>1, <2>1 DEF TypeOK
  <2>2. CASE timer # "kept"
    BY <1>1, <2>2, CompletedCancelled
  <2> QED  BY <2>1, <2>2
<1>5. \A op : op # NoJob /\ op # <<r, what>> => (op \in Range(job') <=> op \in Range(job))
  BY <1>1, RangeJob
<1>6. \A q, o : <<q, o>> # <<r, what>> =>
         (<<q, o>> \in Completed => <<q, o>> \in Completed')
  BY <1>4, <1>5, NoJobIsNone DEF Completed
<1>7. ASSUME NEW q, NEW o, q # r PROVE <<q, o>> \in Completed' => <<q, o>> \in Completed
  <2>1. <<q, o>> # <<r, what>> /\ <<q, o>> # <<r, "wait">>
    BY <1>7
  <2> QED  BY <2>1, <1>4, <1>5, NoJobIsNone DEF Completed
<1>8. /\ active' \in [Requests -> {0, 1}]
      /\ active'[r] = IF Alive(r)' /\ ~itsFinishing'[r] THEN 1 ELSE 0
      /\ \A q \in Requests \ {r} : active'[q] = active[q]
      /\ active'[r] <= active[r]
  BY <1>1, <1>3, AccountStep
<1>9. job' \in [PoolThreads -> Operation \cup {NoJob}]
  BY <1>1 DEF TypeOK
<1>10. /\ pending' \in [Requests -> SUBSET {"read", "wait"}]
       /\ reading \subseteq pending'[r]
       /\ "read" \in pending[r] => "read" \in pending'[r]
       /\ \A q \in Requests \ {r} : pending'[q] = pending[q]
  BY <1>1 DEF TypeOK
<1>11. \A q, o : q # r => (<<q, o>> \in Completed' => <<q, o>> \in Completed)
  BY <1>7
<1> QED  BY <1>3, <1>4, <1>6, <1>8, <1>9, <1>10, <1>11

LEMMA HandlerStep ==
  ASSUME TypeOK, NEW r \in Requests, Own(r), NEW w \in PoolThreads, Handler(w, r)
  PROVE  /\ TypeOK' /\ Others(r) /\ Own(r)'
         /\ UNCHANGED <<pluginVars, pool, worker, place>> /\ active'[r] <= active[r]
<1> USE DEF pluginVars, poolVars, streamVars, countVars
<1> DEFINE marked == [itsFinishing EXCEPT ![r] = TRUE]
<1>1. PICK what \in {"read", "wait"}, reading \in SUBSET {"read"},
           timer \in {"kept", "reset", "cancelled"} :
        /\ Handles(w, r, what) /\ Return(w, r, reading, timer)
        /\ itsFinishing' = itsFinishing \/ itsFinishing' = marked
        /\ itsGatewayStatus' = itsGatewayStatus
             \/ itsGatewayStatus' = [itsGatewayStatus EXCEPT ![r] = "ENDED"]
        /\ itsBackendBufferFull' = itsBackendBufferFull
             \/ itsBackendBufferFull' = [itsBackendBufferFull EXCEPT ![r] = TRUE]
        /\ aborted' = aborted \/ aborted' = [aborted EXCEPT ![r] = TRUE]
        /\ \/ what = "wait"
           \/ "read" \in reading
           \/ itsGatewayStatus'[r] = "ENDED"
           \/ itsBackendBufferFull'[r]
           \/ aborted'[r]
  <2>1. CASE HandleTimeout(w, r)
    BY <2>1 DEF HandleTimeout
  <2>2. CASE ReadOn(w, r)
    BY <2>2 DEF ReadOn
  <2>3. CASE Suspend(w, r)
    BY <2>3 DEF Suspend, TypeOK
  <2>4. CASE End(w, r)
    BY <2>4 DEF End, TypeOK
  <2>5. CASE Throws(w, r)
    BY <2>5 DEF Throws, TypeOK
  <2> QED  BY <2>1, <2>2, <2>3, <2>4, <2>5 DEF Handler
<1>2. UNCHANGED <<pluginVars, pool, worker, place>>
  BY <1>1 DEF Return
<1>3. /\ Alive(r)
      /\ active' \in [Requests -> {0, 1}]
      /\ active'[r] = IF Alive(r)' /\ ~itsFinishing'[r] THEN 1 ELSE 0
      /\ \A q \in Requests \ {r} : active'[q] = active[q]
      /\ active'[r] <= active[r]
      /\ ready' \in Seq(Operation)
      /\ job' \in [PoolThreads -> Operation \cup {NoJob}]
      /\ pending' \in [Requests -> SUBSET {"read", "wait"}]
      /\ reading \subseteq pending'[r]
      /\ "read" \in pending[r] => "read" \in pending'[r]
      /\ \A q \in Requests \ {r} : pending'[q] = pending[q]
      /\ \A q, o : <<q, o>> # <<r, what>> =>
           (<<q, o>> \in Completed => <<q, o>> \in Completed')
      /\ \A q, o : q # r => (<<q, o>> \in Completed' => <<q, o>> \in Completed)
  BY <1>1, ReturnStep
<1>4. TypeOK'
  <2>1. /\ itsFinishing' \in [Requests -> BOOLEAN]
        /\ itsGatewayStatus' \in [Requests -> {"ONGOING", "ENDED"}]
        /\ itsBackendBufferFull' \in [Requests -> BOOLEAN]
        /\ aborted' \in [Requests -> BOOLEAN]
    <3>1. itsFinishing' = itsFinishing \/ itsFinishing' = marked
      BY <1>1
    <3>2. \/ itsGatewayStatus' = itsGatewayStatus
          \/ itsGatewayStatus' = [itsGatewayStatus EXCEPT ![r] = "ENDED"]
      BY <1>1
    <3>3. \/ itsBackendBufferFull' = itsBackendBufferFull
          \/ itsBackendBufferFull' = [itsBackendBufferFull EXCEPT ![r] = TRUE]
      BY <1>1
    <3>4. aborted' = aborted \/ aborted' = [aborted EXCEPT ![r] = TRUE]
      BY <1>1
    <3>5. itsFinishing' \in [Requests -> BOOLEAN]
      BY <3>1 DEF TypeOK
    <3>6. itsGatewayStatus' \in [Requests -> {"ONGOING", "ENDED"}]
      BY <3>2 DEF TypeOK
    <3>7. itsBackendBufferFull' \in [Requests -> BOOLEAN]
      BY <3>3 DEF TypeOK
    <3>8. aborted' \in [Requests -> BOOLEAN]
      BY <3>4 DEF TypeOK
    <3> QED  BY <3>5, <3>6, <3>7, <3>8
  <2>2. /\ main' = main /\ itsProxy' = itsProxy
        /\ itsSputnikEngine' = itsSputnikEngine /\ handlers' = handlers
        /\ pool' = pool /\ worker' = worker /\ place' = place
    BY <1>2
  <2>3. /\ active' \in [Requests -> {0, 1}] /\ ready' \in Seq(Operation)
        /\ job' \in [PoolThreads -> Operation \cup {NoJob}]
        /\ pending' \in [Requests -> SUBSET {"read", "wait"}]
    BY <1>3
  <2> QED  BY <2>1, <2>2, <2>3 DEF TypeOK
<1>5. Others(r)
  <2> SUFFICES ASSUME NEW q \in Requests \ {r}
               PROVE  /\ place'[q] = place[q] /\ pending'[q] = pending[q]
                      /\ itsGatewayStatus'[q] = itsGatewayStatus[q]
                      /\ itsBackendBufferFull'[q] = itsBackendBufferFull[q]
                      /\ aborted'[q] = aborted[q]
                      /\ itsFinishing'[q] = itsFinishing[q] /\ active'[q] = active[q]
                      /\ \A o \in {"read", "wait"} :
                           <<q, o>> \in Completed' <=> <<q, o>> \in Completed
    BY DEF Others
  <2>1. \A o : <<q, o>> # <<r, what>>
    OBVIOUS
  <2>2. /\ itsGatewayStatus'[q] = itsGatewayStatus[q]
        /\ itsBackendBufferFull'[q] = itsBackendBufferFull[q]
        /\ aborted'[q] = aborted[q]
        /\ itsFinishing'[q] = itsFinishing[q]
    BY <1>1 DEF TypeOK
  <2> QED  BY <1>2, <1>3, <2>1, <2>2
<1>6. Progress(r)'
  <2>1. itsGatewayStatus'[r] = "ONGOING" => itsGatewayStatus[r] = "ONGOING"
    BY <1>1 DEF TypeOK
  <2>2. /\ itsBackendBufferFull[r] => itsBackendBufferFull'[r]
        /\ aborted[r] => aborted'[r]
    BY <1>1 DEF TypeOK
  <2>3. CASE what = "wait"
    <3>1. <<r, "read">> # <<r, what>>
      BY <2>3
    <3>2. Busy(r, "read") => Busy(r, "read")'
      BY <1>3, <3>1 DEF Busy, Completed
    <3> QED  BY <1>2, <2>1, <2>2, <3>2 DEF Own, Progress
  <2>4. CASE what # "wait"
    <3>1. "read" \in reading => Busy(r, "read")'
      BY <1>3 DEF Busy
    <3>2. itsGatewayStatus'[r] = "ENDED" => itsGatewayStatus'[r] # "ONGOING"
      OBVIOUS
    <3> QED  BY <1>1, <2>4, <3>1, <3>2 DEF Progress
  <2> QED  BY <2>3, <2>4
<1>7. place'[r] \notin NotMade
  BY <1>2, <1>3 DEF Own
<1> QED  BY <1>2, <1>3, <1>4, <1>5, <1>6, <1>7 DEF Own
-----------------------------------------------------------------------------
(* The steps of the plugin's thread. *)

MainStep == Load \/ Initialise \/ Unload

LEMMA MainType == TypeOK /\ MainStep => TypeOK'
<1> SUFFICES ASSUME TypeOK, MainStep PROVE TypeOK'
  OBVIOUS
<1> USE DEF Proceed, poolVars, streamVars, countVars
<1>1. UNCHANGED <<place, pending, streamVars, countVars, job, ready>>
  BY DEF MainStep, Load, Initialise, Unload, ConfigurationFails, CreateProxy,
     SetNoMatchHandler, AddContentHandlers, GetEngine, RegisterAdminRequests, Shutdown,
     JoinAll, Destroy, DestroyHTTP
<1>2. main' \in Main
  BY DEF MainStep, Load, Initialise, Unload, ConfigurationFails, CreateProxy,
     SetNoMatchHandler, AddContentHandlers, GetEngine, RegisterAdminRequests, Shutdown,
     JoinAll, Destroy, DestroyHTTP, Main
<1>3. /\ itsProxy' \in BOOLEAN /\ itsSputnikEngine' \in BOOLEAN
      /\ handlers' \subseteq {"noMatch", "info"}
      /\ pool' \in {"none", "running", "stopped"}
      /\ worker' \in [PoolThreads -> {"none", "running", "exited"}]
  <2> USE DEF TypeOK
  <2>1. CASE CreateProxy
    BY <2>1 DEF CreateProxy
  <2>2. CASE ConfigurationFails \/ SetNoMatchHandler \/ AddContentHandlers
    BY <2>2 DEF ConfigurationFails, SetNoMatchHandler, AddContentHandlers
  <2>3. CASE Initialise
    BY <2>3 DEF Initialise, GetEngine, RegisterAdminRequests
  <2>4. CASE Unload
    BY <2>4 DEF Unload, Shutdown, JoinAll, Destroy, DestroyHTTP
  <2> QED  BY <2>1, <2>2, <2>3, <2>4 DEF MainStep, Load
<1>4. /\ place' = place /\ pending' = pending /\ job' = job /\ ready' = ready
      /\ itsGatewayStatus' = itsGatewayStatus
      /\ itsBackendBufferFull' = itsBackendBufferFull /\ aborted' = aborted
      /\ itsFinishing' = itsFinishing /\ active' = active
  BY <1>1
<1> QED  BY <1>2, <1>3, <1>4 DEF TypeOK

LEMMA MainKeepsRequests ==
  ASSUME TypeOK, MainStep, NEW r \in Requests, Own(r)
  PROVE  /\ TypeOK' /\ Own(r)'
         /\ UNCHANGED <<place, pending, streamVars, countVars, job, ready>>
<1> USE DEF Proceed, poolVars, streamVars, countVars
<1>1. UNCHANGED <<place, pending, streamVars, countVars, job, ready>>
  BY DEF MainStep, Load, Initialise, Unload, ConfigurationFails,
       CreateProxy, SetNoMatchHandler,
     AddContentHandlers, GetEngine, RegisterAdminRequests, Shutdown, JoinAll, Destroy,
     DestroyHTTP
<1>2. Alive(r)' = Alive(r) /\ Busy(r, "read")' = Busy(r, "read")
  BY <1>1 DEF Alive, Busy
<1>3. Own(r)'
  BY <1>1, <1>2 DEF Own, Progress
<1> QED  BY <1>1, <1>3, MainType

LEMMA MainStage ==
  ASSUME TypeOK, Stage, MainStep
  PROVE  Stage'
<1> USE DEF Proceed, poolVars, TypeOK
<1>1. CASE ConfigurationFails \/ CreateProxy
  BY <1>1 DEF ConfigurationFails, CreateProxy, Stage
<1>2. CASE SetNoMatchHandler
  BY <1>2 DEF SetNoMatchHandler, Stage
<1>3. CASE AddContentHandlers
  BY <1>3 DEF AddContentHandlers, Stage
<1>4. CASE GetEngine
  BY <1>4 DEF GetEngine, Stage
<1>5. CASE RegisterAdminRequests
  BY <1>5 DEF RegisterAdminRequests, Stage
<1>6. CASE Shutdown
  BY <1>6 DEF Shutdown, Stage
<1>7. CASE JoinAll
  BY <1>7 DEF JoinAll, Stage
<1>8. CASE Destroy
  BY <1>8 DEF Destroy, Stage
<1>9. CASE DestroyHTTP
  BY <1>9 DEF DestroyHTTP, Stage
<1> QED
  BY <1>1, <1>2, <1>3, <1>4, <1>5, <1>6, <1>7, <1>8, <1>9
     DEF MainStep, Load, Initialise, Unload

LEMMA MainFindsMembers ==
  ASSUME TypeOK, Stage, HandlersFindMembers, MainStep
  PROVE  HandlersFindMembers'
<1> USE DEF Proceed, HandlersFindMembers
<1>1. CASE Destroy \/ DestroyHTTP
  <2>1. \A r \in Requests : place'[r] \notin {"noMatch", "info"}
    BY <1>1 DEF Destroy, DestroyHTTP, InHandlers
  <2> QED  BY <2>1
<1>2. CASE ~(Destroy \/ DestroyHTTP)
  <2>1. place' = place /\ (itsProxy => itsProxy') /\ (itsSputnikEngine => itsSputnikEngine')
    BY <1>2 DEF MainStep, Load, Initialise, Unload, ConfigurationFails,
       CreateProxy, SetNoMatchHandler,
       AddContentHandlers, GetEngine, RegisterAdminRequests, Shutdown, JoinAll
  <2> QED  BY <2>1
<1> QED  BY <1>1, <1>2

-----------------------------------------------------------------------------
(* The invariant. *)

Step(r) == Server(r) \/ Complete(r) \/ \E w \in PoolThreads : Handler(w, r)

LEMMA RequestStep ==
  ASSUME IInv, NEW r \in Requests, Step(r)
  PROVE  IInv'
<1>1. TypeOK' /\ Others(r) /\ Own(r)'
  BY ServerStep, CompleteStep, HandlerStep DEF IInv, Step
<1>2. \A q \in Requests : Own(q)'
  BY <1>1, OthersKept DEF IInv
<1>3. UNCHANGED <<pluginVars, pool, worker>>
  <2>1. CASE Server(r)
    BY <2>1 DEF Server, Move, poolVars, Arrive, NotForwarded, Create, SendFails, Listen,
       PeekReturns, GetChunk, Leave
  <2>2. CASE Complete(r)
    BY <2>2 DEF Complete
  <2>3. CASE \E w \in PoolThreads : Handler(w, r)
    BY <2>3, HandlerStep DEF IInv
  <2> QED  BY <2>1, <2>2, <2>3 DEF Step
<1>4. Stage'
  BY <1>3 DEF IInv, Stage, pluginVars
<1>5. HandlersFindMembers'
  <2>1. \A q \in Requests : place'[q] = place[q] \/ q = r
    BY <1>1 DEF Others
  <2>2. CASE Arrive(r)
    <3>1. /\ place'[r] = "noMatch" => itsProxy
          /\ place'[r] = "info" => itsProxy /\ itsSputnikEngine
      BY <2>2 DEF Arrive, Move, IInv, Stage, TypeOK
    <3>2. place'[r] \in {"noMatch", "info"} => itsProxy
      BY <3>1
    <3> QED  BY <1>3, <2>1, <3>1, <3>2 DEF pluginVars, HandlersFindMembers, IInv
  <2>3. CASE ~Arrive(r)
    <3>1. place' = place \/ place'[r] \notin {"noMatch", "info"}
      <4>1. CASE Server(r)
        BY <2>3, <4>1 DEF Server, Move, IInv, TypeOK, NotForwarded, Create, SendFails, Listen,
           PeekReturns, GetChunk, Leave
      <4>2. CASE Complete(r)
        BY <4>2 DEF Complete
      <4>3. CASE \E w \in PoolThreads : Handler(w, r)
        BY <4>3, HandlerStep DEF IInv
      <4> QED  BY <4>1, <4>2, <4>3 DEF Step
    <3> QED  BY <1>3, <2>1, <3>1 DEF pluginVars, HandlersFindMembers, IInv
  <2> QED  BY <2>2, <2>3
<1> QED  BY <1>1, <1>2, <1>4, <1>5 DEF IInv

LEMMA InitIInv == Init => IInv
<1> SUFFICES ASSUME Init PROVE IInv
  OBVIOUS
<1>1. TypeOK
  <2>1. ready \in Seq(Operation)
    BY DEF Init
  <2>2. active \in [Requests -> {0, 1}] /\ job \in [PoolThreads -> Operation \cup {NoJob}]
    BY DEF Init
  <2>3. main \in Main /\ itsProxy \in BOOLEAN /\ itsSputnikEngine \in BOOLEAN
    BY DEF Init, Main
  <2>4. /\ itsBackendBufferFull \in [Requests -> BOOLEAN]
        /\ aborted \in [Requests -> BOOLEAN]
        /\ itsFinishing \in [Requests -> BOOLEAN]
    BY DEF Init
  <2> QED  BY <2>1, <2>2, <2>3, <2>4 DEF Init, TypeOK
<1>2. Stage /\ HandlersFindMembers
  BY DEF Init, Stage, HandlersFindMembers
<1>3. \A r \in Requests : ~Alive(r)
  <2>1. Range(ready) = {} /\ \A op \in Range(job) : op = NoJob
    BY DEF Init, Range
  <2> QED  BY <2>1, NoJobIsNone DEF Init, Alive
<1>4. \A r \in Requests : Own(r)
  BY <1>3 DEF Init, Own, Progress, NotMade
<1> QED  BY <1>1, <1>2, <1>4 DEF IInv

LEMMA NextIInv == IInv /\ [Next]_vars => IInv'
<1> SUFFICES ASSUME IInv, [Next]_vars PROVE IInv'
  OBVIOUS
<1>1. CASE MainStep
  <2>1. Stage' /\ HandlersFindMembers'
    BY <1>1, MainStage, MainFindsMembers DEF IInv
  <2>2. \A r \in Requests : TypeOK' /\ Own(r)'
    BY <1>1, MainKeepsRequests DEF IInv
  <2>3. TypeOK'
    BY <1>1, MainType DEF IInv
  <2> QED  BY <2>1, <2>2, <2>3 DEF IInv
<1>2. CASE \E r \in Requests : Step(r)
  BY <1>2, RequestStep
<1>3. ASSUME NEW w \in PoolThreads, Run(w) \/ Exit(w)
      PROVE  IInv'
  <2>1. TypeOK' /\ \A r \in Requests : Own(r)'
    <3>1. TypeOK'
      BY <1>3, RunType DEF IInv
    <3>2. \A r \in Requests : Own(r)'
      BY <1>3, RunStep DEF IInv
    <3> QED  BY <3>1, <3>2
  <2>2. UNCHANGED <<pluginVars, pool, place>>
    BY <1>3 DEF Run, Exit
  <2>3. Stage'
    BY <1>3, <2>2 DEF IInv, Stage, TypeOK, Run, Exit, pluginVars
  <2>4. HandlersFindMembers'
    BY <2>2 DEF IInv, HandlersFindMembers, pluginVars
  <2> QED  BY <2>1, <2>3, <2>4 DEF IInv
<1>4. CASE UNCHANGED vars
  <2> USE DEF vars, pluginVars, poolVars, streamVars, countVars, IInv
  <2>1. TypeOK' /\ Stage' /\ HandlersFindMembers'
    BY <1>4 DEF TypeOK, Stage, HandlersFindMembers
  <2>2. \A r \in Requests : Own(r)'
    BY <1>4 DEF Own, Progress, Alive, Busy
  <2> QED  BY <2>1, <2>2
<1> QED  BY <1>1, <1>2, <1>3, <1>4 DEF Next, MainStep, Step

THEOREM Inductive == Spec => []IInv
  BY InitIInv, NextIInv, PTL DEF Spec
(* The types, with every streamer's contribution to its backend's count.   *)
THEOREM TypeCorrect == Spec => []TypeOK
  BY Inductive, PTL DEF IInv

(* A handler of the plugin finds the members it dereferences.              *)
THEOREM MembersAreFound == Spec => []HandlersFindMembers
  BY Inductive, PTL DEF IInv

(* No thread of the pool outlives the Proxy of a constructed plugin.       *)
THEOREM NoThreadOutlivesProxy == Spec => []NoThreadWithoutProxy
<1>1. IInv => NoThreadWithoutProxy
  BY DEF IInv, TypeOK, Main, Stage, NoThreadWithoutProxy, ProxyExists
<1> QED  BY <1>1, Inductive, PTL

(* "Must not throw or execution will terminate": until the shutdown every  *)
(* thread of the pool stays, whatever its handlers throw and also when no  *)
(* operation is pending.                                                   *)
PoolGoesOn ==
  pool = "running" => \A w \in PoolThreads : worker[w] = "running"

(* Exceptions in handlers leave the pool complete.                         *)
THEOREM PoolStays == Spec => []PoolGoesOn
<1>1. IInv => PoolGoesOn
  BY DEF IInv, TypeOK, Stage, PoolGoesOn
<1> QED  BY <1>1, Inductive, PTL

(* Only its own exception stops a stream.                                  *)
THEOREM OnlyExceptionsStall == Spec => []StalledByOwnException
<1>1. IInv => StalledByOwnException
  BY DEF IInv, Own, Progress, StalledByOwnException
<1> QED  BY <1>1, Inductive, PTL

-----------------------------------------------------------------------------
(* The account of each streamer. *)

LEMMA OthersCharge ==
  ASSUME NEW r \in Requests, Others(r), NEW q \in Requests \ {r}
  PROVE  UNCHANGED ChargeOf(q)
  BY DEF Others, ChargeOf

LEMMA ChargeStep ==
  ASSUME IInv, NEW r \in Requests, Step(r)
  PROVE  Streamer(r)!Next \/ UNCHANGED ChargeOf(r)
<1>1. active[r] \in {0, 1} /\ active'[r] \in {0, 1}
  BY RequestStep DEF IInv, TypeOK
<1>2. CASE Create(r)
  <2>1. active[r] = 0 /\ place[r] \in {"noMatch", "info"}
    BY <1>2 DEF Create, Move, IInv, Own, NotMade
  <2>2. active'[r] = 1 /\ place'[r] = "made"
    BY <1>2, <2>1 DEF Create, Move, IInv, TypeOK
  <2> QED  BY <2>1, <2>2 DEF ChargeOf, Streamer!Next, Streamer!Charge
<1>3. CASE Arrive(r) \/ NotForwarded(r)
  <2>1. place[r] \in NotMade /\ place'[r] \in NotMade
    BY <1>3 DEF Arrive, NotForwarded, Move, NotMade, IInv, TypeOK
  <2> QED  BY <2>1 DEF ChargeOf, NotMade
<1>4. CASE ~Create(r) /\ ~Arrive(r) /\ ~NotForwarded(r)
  <2>1. place[r] \notin NotMade /\ place'[r] \notin NotMade /\ active'[r] <= active[r]
    <3>1. CASE Server(r)
      <4>1. CASE GetChunk(r) \/ Listen(r)
        BY <4>1 DEF GetChunk, Listen, Move, NotMade, IInv, TypeOK, countVars
      <4>2. CASE SendFails(r) \/ PeekReturns(r) \/ Leave(r)
        <5>1. Alive(r) /\ Account(r) /\ itsFinishing' = itsFinishing
          BY <4>2 DEF SendFails, PeekReturns, Leave, Move, Alive
        <5>2. active'[r] <= active[r]
          BY <5>1, AccountStep DEF IInv
        <5> QED
          BY <4>2, <5>2 DEF SendFails, PeekReturns, Leave, Move, NotMade, IInv, TypeOK
      <4> QED  BY <1>4, <3>1, <4>1, <4>2 DEF Server
    <3>2. CASE Complete(r)
      <4>1. Alive(r)
        BY <3>2 DEF Complete, Alive
      <4>2. place' = place /\ active' = active
        BY <3>2 DEF Complete, countVars
      <4>3. place[r] \notin NotMade
        BY <4>1 DEF IInv, Own
      <4> QED  BY <1>1, <4>2, <4>3
    <3>3. CASE \E w \in PoolThreads : Handler(w, r)
      <4>1. PICK w \in PoolThreads : Handler(w, r)
        BY <3>3
      <4>2. place' = place /\ active'[r] <= active[r]
        BY <4>1, HandlerStep DEF IInv
      <4>3. PICK what \in {"read", "wait"} : job[w] = <<r, what>>
        BY <4>1 DEF Handler, HandleTimeout, ReadOn, Suspend, End, Throws, Handles
      <4>4. Alive(r)
        <5>1. <<r, what>> \in Range(job)
          BY <4>3 DEF IInv, TypeOK, Range
        <5> QED  BY <5>1 DEF Alive
      <4>5. place[r] \notin NotMade
        BY <4>4 DEF IInv, Own
      <4> QED  BY <4>2, <4>5
    <3> QED  BY <3>1, <3>2, <3>3 DEF Step
  <2> QED  BY <1>1, <2>1 DEF ChargeOf, NotMade, Streamer!Next, Streamer!Release
<1> QED  BY <1>2, <1>3, <1>4

(* Every streamer charges its backend once and releases it once.           *)
THEOREM AccountsImplemented == Spec => ImplementsAccounting
<1>1. Init => \A r \in Requests : Streamer(r)!Init
  BY DEF Init, Streamer!Init, ChargeOf
<1>2. ASSUME IInv, [Next]_vars
      PROVE  [\A r \in Requests : Streamer(r)!Next \/ UNCHANGED ChargeOf(r)]_vars
  <2> SUFFICES ASSUME Next, NEW q \in Requests
               PROVE  Streamer(q)!Next \/ UNCHANGED ChargeOf(q)
    BY <1>2
  <2>1. CASE MainStep \/ \E w \in PoolThreads : Run(w) \/ Exit(w)
    <3>1. UNCHANGED <<place, active>>
      BY <1>2, <2>1, MainKeepsRequests DEF IInv, countVars, Run, Exit
    <3> QED  BY <3>1 DEF ChargeOf
  <2>2. ASSUME NEW r \in Requests, Step(r)
        PROVE  Streamer(q)!Next \/ UNCHANGED ChargeOf(q)
    <3>1. Others(r)
      BY <1>2, <2>2, ServerStep, CompleteStep, HandlerStep DEF IInv, Step
    <3>2. CASE q = r
      BY <1>2, <2>2, <3>2, ChargeStep
    <3>3. CASE q # r
      BY <3>1, <3>3, OthersCharge
    <3> QED  BY <3>2, <3>3
  <2> QED  BY <2>1, <2>2 DEF Next, MainStep, Step
<1> QED  BY <1>1, <1>2, Inductive, PTL DEF Spec, ImplementsAccounting

-----------------------------------------------------------------------------
(* The end of the pool. *)

(* A thread that is not in run has no handler. *)
RunsOnly == \A w \in PoolThreads : worker[w] # "running" => job[w] = NoJob

(* From join_all on, while the members are destroyed, every thread of the  *)
(* pool has left and no handler is half done.                              *)
NothingRunsAfterJoin ==
  main \in {"stopped", "destroying", "destroyed"} =>
    \A w \in PoolThreads : worker[w] = "exited" /\ job[w] = NoJob

(* join_all never waits for a thread that has nothing to do: each one that *)
(* has not exited can exit, or is in a handler that can return.            *)
JoinWaitsForWork ==
  main = "joining" =>
    \A w \in PoolThreads :
      \/ worker[w] = "exited"
      \/ worker[w] = "running" /\ job[w] = NoJob
      \/ worker[w] = "running" /\ \E r \in Requests, what \in {"read", "wait"} :
                                   Handles(w, r, what)

(* The steps that a thread has left, once the pool is stopped. *)
StepsLeft(w) == IF job[w] # NoJob THEN 2 ELSE IF worker[w] = "running" THEN 1 ELSE 0

(* When the pool has been told to stop, it stays stopped and no thread     *)
(* takes another operation, whatever has completed: each of them only      *)
(* finishes the handler it is in and exits.                                *)
ShutdownDrains ==
  [][pool = "stopped" =>
       /\ pool' = "stopped"
       /\ \A w \in PoolThreads :
            /\ StepsLeft(w)' <= StepsLeft(w)
            /\ Exit(w) \/ (\E r \in Requests : Handler(w, r)) => StepsLeft(w)' < StepsLeft(w)
    ]_vars

(* How a step treats the threads. *)
LEMMA ServerLeavesPool ==
  ASSUME NEW r \in Requests, Server(r) \/ Complete(r)
  PROVE  UNCHANGED <<pool, worker, job>>
BY DEF Server, Arrive, NotForwarded, Create, SendFails, Listen, PeekReturns, GetChunk, Leave,
   Complete, poolVars

LEMMA HandlerReturns ==
  ASSUME TypeOK, NEW w \in PoolThreads, NEW r \in Requests, Handler(w, r)
  PROVE  /\ job[w] # NoJob /\ job' = [job EXCEPT ![w] = NoJob]
         /\ UNCHANGED <<main, pool, worker>>
<1>1. PICK what \in {"read", "wait"} : Handles(w, r, what)
  BY DEF Handler, HandleTimeout, ReadOn, Suspend, End, Throws
<1>2. /\ job' = [job EXCEPT ![w] = NoJob]
      /\ UNCHANGED <<main, pool, worker>>
  BY DEF Handler, HandleTimeout, ReadOn, Suspend, End, Throws, Return, pluginVars
<1> QED  BY <1>1, <1>2, NoJobIsNone DEF Handles

LEMMA MainLeavesJobs ==
  ASSUME MainStep
  PROVE  /\ job' = job
         /\ worker' = worker \/ worker' = [w \in PoolThreads |-> "running"]
         /\ pool = "stopped" /\ Stage => pool' = "stopped" /\ worker' = worker
<1> USE DEF Proceed, poolVars
<1>1. CASE CreateProxy
  BY <1>1 DEF CreateProxy, Stage
<1>2. CASE Shutdown
  BY <1>2 DEF Shutdown
<1>3. CASE ~CreateProxy /\ ~Shutdown
  BY <1>3 DEF MainStep, Load, Initialise, Unload, ConfigurationFails, SetNoMatchHandler,
     AddContentHandlers, GetEngine, RegisterAdminRequests, JoinAll, Destroy, DestroyHTTP
<1> QED  BY <1>1, <1>2, <1>3

LEMMA RunsOnlyStep ==
  ASSUME IInv, RunsOnly, [Next]_vars
  PROVE  RunsOnly'
<1>1. DOMAIN job = PoolThreads /\ DOMAIN worker = PoolThreads
  BY DEF IInv, TypeOK
<1>2. CASE MainStep
  <2>1. job' = job /\ (worker' = worker \/ worker' = [w \in PoolThreads |-> "running"])
    BY <1>2, MainLeavesJobs
  <2> QED  BY <2>1 DEF RunsOnly
<1>3. ASSUME NEW r \in Requests, Server(r) \/ Complete(r)
      PROVE  RunsOnly'
  <2>1. UNCHANGED <<worker, job>>
    BY <1>3, ServerLeavesPool
  <2> QED  BY <2>1 DEF RunsOnly
<1>4. ASSUME NEW w \in PoolThreads, NEW r \in Requests, Handler(w, r)
      PROVE  RunsOnly'
  <2>1. job' = [job EXCEPT ![w] = NoJob] /\ worker' = worker
    BY <1>4, HandlerReturns DEF IInv
  <2> QED  BY <1>1, <2>1 DEF RunsOnly
<1>5. ASSUME NEW w \in PoolThreads, Run(w)
      PROVE  RunsOnly'
  <2>1. /\ worker[w] = "running" /\ worker' = worker
        /\ \A v \in PoolThreads \ {w} : job'[v] = job[v]
    BY <1>1, <1>5 DEF Run
  <2> QED  BY <2>1 DEF RunsOnly
<1>6. ASSUME NEW w \in PoolThreads, Exit(w)
      PROVE  RunsOnly'
  <2>1. /\ job[w] = NoJob /\ job' = job
        /\ \A v \in PoolThreads \ {w} : worker'[v] = worker[v]
    BY <1>1, <1>6 DEF Exit
  <2> QED  BY <2>1 DEF RunsOnly
<1>7. CASE UNCHANGED vars
  BY <1>7 DEF vars, poolVars, RunsOnly
<1> QED  BY <1>2, <1>3, <1>4, <1>5, <1>6, <1>7 DEF Next, MainStep

LEMMA OnlyRunningHandle == Spec => []RunsOnly
<1>1. Init => RunsOnly
  BY DEF Init, RunsOnly
<1>2. IInv /\ RunsOnly /\ [Next]_vars => RunsOnly'
  BY RunsOnlyStep
<1> QED  BY <1>1, <1>2, Inductive, PTL DEF Spec

LEMMA DrainStep ==
  ASSUME IInv, RunsOnly, Next, pool = "stopped"
  PROVE  /\ pool' = "stopped"
         /\ \A w \in PoolThreads :
              /\ StepsLeft(w)' <= StepsLeft(w)
              /\ Exit(w) \/ (\E r \in Requests : Handler(w, r)) =>
                   StepsLeft(w)' < StepsLeft(w)
<1>1. DOMAIN job = PoolThreads /\ DOMAIN worker = PoolThreads
  BY DEF IInv, TypeOK
<1>2. ASSUME NEW w \in PoolThreads, Exit(w)
      PROVE  /\ pool' = "stopped" /\ StepsLeft(w)' = 0 /\ StepsLeft(w) = 1
             /\ \A v \in PoolThreads \ {w} : StepsLeft(v)' = StepsLeft(v)
  BY <1>1, <1>2 DEF Exit, StepsLeft
<1>3. ASSUME NEW w \in PoolThreads, NEW r \in Requests, Handler(w, r)
      PROVE  /\ pool' = "stopped" /\ StepsLeft(w)' \in {0, 1} /\ StepsLeft(w) = 2
             /\ \A v \in PoolThreads \ {w} : StepsLeft(v)' = StepsLeft(v)
  <2>1. /\ job[w] # NoJob /\ job' = [job EXCEPT ![w] = NoJob]
        /\ UNCHANGED <<pool, worker>>
    BY <1>3, HandlerReturns DEF IInv
  <2> QED  BY <1>1, <2>1 DEF StepsLeft
<1>4. CASE MainStep \/ \E r \in Requests : Server(r) \/ Complete(r)
  <2>1. pool' = "stopped" /\ UNCHANGED <<worker, job>>
    BY <1>4, MainLeavesJobs, ServerLeavesPool DEF IInv
  <2>2. \A w \in PoolThreads : StepsLeft(w)' = StepsLeft(w)
    BY <2>1 DEF StepsLeft
  <2>3. \A w \in PoolThreads : ~Exit(w) /\ \A r \in Requests : ~Handler(w, r)
    <3>1. ASSUME NEW w \in PoolThreads, Exit(w) PROVE FALSE
      BY <1>2, <2>2, <3>1
    <3>2. ASSUME NEW w \in PoolThreads, NEW r \in Requests, Handler(w, r) PROVE FALSE
      BY <1>3, <2>2, <3>2
    <3> QED  BY <3>1, <3>2
  <2>4. \A w \in PoolThreads : StepsLeft(w) \in 0..2
    BY DEF StepsLeft
  <2> QED  BY <2>1, <2>2, <2>3, <2>4
<1>5. ~\E w \in PoolThreads : Run(w)
  BY DEF Run
<1>6. \A w \in PoolThreads : StepsLeft(w) \in 0..2
  BY DEF StepsLeft
<1>7. CASE \E w \in PoolThreads : Exit(w) \/ \E r \in Requests : Handler(w, r)
  <2>1. PICK w \in PoolThreads :
          /\ pool' = "stopped" /\ StepsLeft(w)' < StepsLeft(w)
          /\ \A v \in PoolThreads \ {w} : StepsLeft(v)' = StepsLeft(v)
    BY <1>2, <1>3, <1>7
  <2>2. ASSUME NEW v \in PoolThreads, v # w,
               Exit(v) \/ \E r \in Requests : Handler(v, r)
        PROVE  FALSE
    <3>1. StepsLeft(v)' < StepsLeft(v)
      BY <1>2, <1>3, <2>2
    <3> QED  BY <1>6, <2>1, <2>2, <3>1
  <2>3. \A v \in PoolThreads :
          /\ StepsLeft(v)' <= StepsLeft(v)
          /\ Exit(v) \/ (\E r \in Requests : Handler(v, r)) => StepsLeft(v)' < StepsLeft(v)
    <3> SUFFICES ASSUME NEW v \in PoolThreads
                 PROVE  /\ StepsLeft(v)' <= StepsLeft(v)
                        /\ Exit(v) \/ (\E r \in Requests : Handler(v, r)) =>
                             StepsLeft(v)' < StepsLeft(v)
      OBVIOUS
    <3>1. StepsLeft(v) \in 0..2 /\ StepsLeft(v)' \in 0..2
      BY DEF StepsLeft
    <3>2. CASE v = w
      BY <2>1, <3>1, <3>2
    <3>3. CASE v # w
      <4>1. StepsLeft(v)' = StepsLeft(v)
        BY <2>1, <3>3
      <4> QED  BY <2>2, <3>1, <3>3, <4>1
    <3> QED  BY <3>2, <3>3
  <2> QED  BY <2>1, <2>3
<1> QED  BY <1>4, <1>5, <1>7 DEF Next, MainStep

(* No thread and no handler of the pool runs while the plugin's members    *)
(* are destroyed: those of ~Proxy and ~HTTP have nobody to race with.      *)
THEOREM PoolIsEmptyAfterJoin == Spec => []NothingRunsAfterJoin
<1>1. IInv /\ RunsOnly => NothingRunsAfterJoin
  BY DEF IInv, Stage, RunsOnly, NothingRunsAfterJoin
<1> QED  BY <1>1, Inductive, OnlyRunningHandle, PTL

(* shutdown does not wait for the network or for a client: whoever it      *)
(* waits for has a step of its own to take.                                *)
THEOREM JoinIsNotStuck == Spec => []JoinWaitsForWork
<1>1. IInv /\ RunsOnly => JoinWaitsForWork
  <2> SUFFICES ASSUME IInv, RunsOnly, main = "joining", NEW w \in PoolThreads,
                      worker[w] # "exited"
               PROVE  /\ worker[w] = "running"
                      /\ \/ job[w] = NoJob
                         \/ \E r \in Requests, what \in {"read", "wait"} : Handles(w, r, what)
    BY DEF JoinWaitsForWork
  <2>1. worker[w] = "running"
    BY DEF IInv, TypeOK, Stage
  <2>2. job[w] # NoJob => job[w] \in Operation
    BY DEF IInv, TypeOK
  <2> QED  BY <2>1, <2>2 DEF Operation, Handles
<1> QED  BY <1>1, Inductive, OnlyRunningHandle, PTL

(* After the stop a thread has two steps at most, and nothing gives it     *)
(* another one: with JoinIsNotStuck, shutdown returns if handlers do.      *)
THEOREM ShutdownIsFinite == Spec => ShutdownDrains
<1>1. IInv /\ RunsOnly /\ [Next]_vars =>
        [pool = "stopped" =>
           /\ pool' = "stopped"
           /\ \A w \in PoolThreads :
                /\ StepsLeft(w)' <= StepsLeft(w)
                /\ Exit(w) \/ (\E r \in Requests : Handler(w, r)) =>
                     StepsLeft(w)' < StepsLeft(w)]_vars
  BY DrainStep
<1> QED  BY <1>1, Inductive, OnlyRunningHandle, PTL DEF Spec, ShutdownDrains
-----------------------------------------------------------------------------
(* The operations of a streamer are single: each of them is pending, or    *)
(* completed, or in one thread, and a read is in none of these places      *)
(* while reading is suspended.                                             *)
Distinct(s) == \A i, j \in DOMAIN s : i # j => s[i] # s[j]

Queued == Distinct(ready) /\ \A op \in Range(ready) : op \notin Range(job)

Single(r) ==
  /\ \A what \in {"read", "wait"} : what \in pending[r] => <<r, what>> \notin Completed
  /\ itsBackendBufferFull[r] => ~Busy(r, "read")
  /\ place[r] \in NotMade \cup {"made"} =>
       ~Busy(r, "read") /\ ~Busy(r, "wait") /\ ~itsBackendBufferFull[r]

Singles == Queued /\ OneHandlerEach /\ \A r \in Requests : Single(r)

LEMMA DistinctAppend ==
  ASSUME NEW S, NEW s \in Seq(S), Distinct(s), NEW x, x \notin Range(s)
  PROVE  Distinct(Append(s, x))
<1> DEFINE t == Append(s, x)
<1>1. DOMAIN t = 1..Len(s) + 1 /\ DOMAIN s = 1..Len(s) /\ Len(s) \in Nat
  OBVIOUS
<1>2. /\ \A i \in 1..Len(s) : t[i] = s[i]
      /\ t[Len(s) + 1] = x
  OBVIOUS
<1>3. \A i \in 1..Len(s) : s[i] # x
  BY <1>1 DEF Range
<1> HIDE DEF t
<1>4. ASSUME NEW i \in DOMAIN t, NEW j \in DOMAIN t, i # j PROVE t[i] # t[j]
  <2>1. CASE i \in 1..Len(s) /\ j \in 1..Len(s)
    BY <1>1, <1>2, <1>4, <2>1 DEF Distinct
  <2>2. CASE i = Len(s) + 1
    <3>1. j \in 1..Len(s)
      BY <1>1, <1>4, <2>2
    <3> QED  BY <1>2, <1>3, <2>2, <3>1
  <2>3. CASE j = Len(s) + 1
    <3>1. i \in 1..Len(s)
      BY <1>1, <1>4, <2>3
    <3> QED  BY <1>2, <1>3, <2>3, <3>1
  <2>4. \A k \in DOMAIN t : k \in 1..Len(s) \/ k = Len(s) + 1
    BY <1>1
  <2> QED  BY <2>1, <2>2, <2>3, <2>4
<1> QED  BY <1>4 DEF Distinct, t

LEMMA DistinctTail ==
  ASSUME NEW S, NEW s \in Seq(S), s # <<>>, Distinct(s)
  PROVE  Distinct(Tail(s)) /\ Head(s) \notin Range(Tail(s))
<1> DEFINE t == Tail(s)
<1>1. DOMAIN s = 1..Len(s) /\ Len(s) \in Nat \ {0} /\ DOMAIN t = 1..Len(s) - 1
  OBVIOUS
<1>2. Head(s) = s[1] /\ \A i \in 1..Len(s) - 1 : t[i] = s[i + 1]
  OBVIOUS
<1> HIDE DEF t
<1>3. \A i \in 1..Len(s) - 1 : i + 1 \in 1..Len(s) /\ i + 1 # 1
  BY <1>1
<1>4. ASSUME NEW i \in DOMAIN t, NEW j \in DOMAIN t, i # j PROVE t[i] # t[j]
  <2>1. i + 1 \in DOMAIN s /\ j + 1 \in DOMAIN s /\ i + 1 # j + 1
    BY <1>1, <1>3, <1>4
  <2>2. s[i + 1] # s[j + 1]
    BY <2>1 DEF Distinct
  <2> QED  BY <1>1, <1>2, <2>2
<1>5. ASSUME NEW i \in DOMAIN t PROVE t[i] # s[1]
  <2>1. i + 1 \in DOMAIN s /\ 1 \in DOMAIN s /\ i + 1 # 1
    BY <1>1, <1>3
  <2>2. s[i + 1] # s[1]
    BY <2>1 DEF Distinct
  <2> QED  BY <1>1, <1>2, <2>2
<1> QED  BY <1>2, <1>4, <1>5 DEF Distinct, Range, t

LEMMA OthersSingle ==
  ASSUME NEW r \in Requests, Others(r), NEW q \in Requests \ {r}, Single(q)
  PROVE  Single(q)'
<1>1. /\ place'[q] = place[q] /\ pending'[q] = pending[q]
      /\ itsBackendBufferFull'[q] = itsBackendBufferFull[q]
      /\ \A what \in {"read", "wait"} : <<q, what>> \in Completed' <=> <<q, what>> \in Completed
  BY DEF Others
<1>2. \A what \in {"read", "wait"} : Busy(q, what)' <=> Busy(q, what)
  BY <1>1 DEF Busy, Completed
<1> QED  BY <1>1, <1>2 DEF Single

(* A step that completes an operation that was pending. *)
LEMMA QueueGrows ==
  ASSUME TypeOK, Singles, NEW r \in Requests, NEW what \in pending[r],
         \A op \in Operation : op \in Range(job') => op \in Range(job),
         ready' = Append(ready, <<r, what>>)
  PROVE  Queued'
<1>1. <<r, what>> \notin Range(ready) /\ <<r, what>> \notin Range(job)
  <2>1. what \in {"read", "wait"}
    BY DEF TypeOK
  <2>2. Single(r)
    BY DEF Singles
  <2>3. <<r, what>> \notin Completed
    BY <2>1, <2>2 DEF Single
  <2> QED  BY <2>3 DEF Completed
<1>2. Distinct(ready')
  BY <1>1, DistinctAppend DEF TypeOK, Singles, Queued
<1>3. Range(ready') = Range(ready) \cup {<<r, what>>}
  BY RangeAppend DEF TypeOK
<1>4. Range(ready) \subseteq Operation /\ <<r, what>> \in Operation
  BY DEF TypeOK, Range, Operation
<1> QED  BY <1>1, <1>2, <1>3, <1>4 DEF Singles, Queued

LEMMA CancelQueues ==
  ASSUME TypeOK, Singles, NEW r \in Requests, ready' = Cancelled(r),
         \A op \in Operation : op \in Range(job') => op \in Range(job)
  PROVE  Queued'
<1>1. CASE "wait" \in pending[r]
  <2>1. ready' = Append(ready, <<r, "wait">>)
    BY <1>1 DEF Cancelled
  <2> QED  BY <1>1, <2>1, QueueGrows
<1>2. CASE "wait" \notin pending[r]
  <2>1. Range(ready) \subseteq Operation
    BY DEF TypeOK, Range
  <2> QED  BY <1>2, <2>1 DEF Cancelled, Singles, Queued
<1> QED  BY <1>1, <1>2

LEMMA ServerSingle ==
  ASSUME TypeOK, Singles, NEW r \in Requests, Server(r)
  PROVE  Queued' /\ OneHandlerEach' /\ Single(r)'
<1> USE DEF Move, pluginVars, poolVars, streamVars, countVars
<1>1. Single(r) /\ Queued /\ OneHandlerEach
  BY DEF Singles
<1>2. CASE GetChunk(r)
  <2>1. /\ place[r] = "client" /\ place' = place /\ itsBackendBufferFull[r]
        /\ pending'[r] = {"read"} /\ itsBackendBufferFull'[r] = FALSE
        /\ ready' = Cancelled(r) /\ job' = job
    BY <1>2 DEF GetChunk, TypeOK
  <2>2. ~Busy(r, "read")
    BY <1>1, <2>1 DEF Single
  <2>3. /\ Range(ready') = Range(ready) \/ Range(ready') = Range(ready) \cup {<<r, "wait">>}
        /\ Queued'
    BY <2>1, CompletedCancelled, CancelQueues
  <2>4. <<r, "read">> \notin Completed'
    BY <2>1, <2>2, <2>3 DEF Busy, Completed
  <2>5. Single(r)'
    BY <2>1, <2>4 DEF Single, NotMade
  <2> QED  BY <1>1, <2>1, <2>3, <2>5 DEF OneHandlerEach
<1>3. CASE Listen(r)
  <2>1. /\ place[r] = "made" /\ place'[r] = "listening"
        /\ ready' = ready /\ job' = job
        /\ itsBackendBufferFull' = itsBackendBufferFull
    BY <1>3 DEF Listen, TypeOK
  <2>2. <<r, "read">> \notin Completed /\ <<r, "wait">> \notin Completed
    BY <1>1, <2>1 DEF Single, Busy, Completed
  <2>3. ~itsBackendBufferFull[r]
    BY <1>1, <2>1 DEF Single
  <2>4. Single(r)'
    BY <2>1, <2>2, <2>3 DEF Single, Completed, NotMade
  <2> QED  BY <1>1, <2>1, <2>4 DEF Queued, OneHandlerEach
<1>4. CASE ~GetChunk(r) /\ ~Listen(r)
  <2>1. /\ ready' = ready /\ job' = job /\ pending' = pending
        /\ itsBackendBufferFull' = itsBackendBufferFull
    BY <1>4 DEF Server, Arrive, NotForwarded, Create, SendFails, PeekReturns, Leave
  <2>2. place'[r] \in NotMade \cup {"made"} => place[r] \in NotMade \cup {"made"}
    BY <1>4 DEF Server, Arrive, NotForwarded, Create, SendFails, PeekReturns, Leave, NotMade,
       TypeOK
  <2>3. Busy(r, "read")' = Busy(r, "read") /\ Busy(r, "wait")' = Busy(r, "wait")
    BY <2>1 DEF Busy
  <2>4. Single(r)'
    BY <1>1, <2>1, <2>2, <2>3 DEF Single, Completed
  <2> QED  BY <1>1, <2>1, <2>4 DEF Queued, OneHandlerEach
<1> QED  BY <1>2, <1>3, <1>4

LEMMA CompleteSingle ==
  ASSUME TypeOK, Singles, NEW r \in Requests, Complete(r)
  PROVE  Queued' /\ OneHandlerEach' /\ Single(r)'
<1>1. Single(r) /\ OneHandlerEach
  BY DEF Singles
<1>2. PICK what \in pending[r] :
        /\ pending' = [pending EXCEPT ![r] = pending[r] \ {what}]
        /\ ready' = Append(ready, <<r, what>>)
        /\ job' = job /\ place' = place /\ itsBackendBufferFull' = itsBackendBufferFull
  BY DEF Complete, streamVars
<1>3. what \in {"read", "wait"} /\ pending'[r] = pending[r] \ {what}
  BY <1>2 DEF TypeOK
<1>4. Completed' = Completed \cup {<<r, what>>}
  BY <1>2, <1>3, CompletedAppend
<1>5. \A o \in {"read", "wait"} : o \in pending'[r] => <<r, o>> \notin Completed'
  BY <1>1, <1>3, <1>4 DEF Single
<1>6. Busy(r, what)
  BY DEF Busy
<1>7. \A o \in {"read", "wait"} : Busy(r, o)' => Busy(r, o)
  BY <1>3, <1>4, <1>6 DEF Busy, Completed
<1>8. Single(r)'
  BY <1>1, <1>2, <1>5, <1>7 DEF Single
<1>9. Queued'
  BY <1>2, QueueGrows
<1> QED  BY <1>1, <1>2, <1>8, <1>9 DEF OneHandlerEach

LEMMA RunSingle ==
  ASSUME TypeOK, Singles, NEW w \in PoolThreads, Run(w)
  PROVE  Singles'
<1>1. /\ ready \in Seq(Operation) /\ ready # <<>> /\ ready' = Tail(ready)
      /\ job' = [job EXCEPT ![w] = Head(ready)] /\ job[w] = NoJob
      /\ place' = place /\ pending' = pending
      /\ itsBackendBufferFull' = itsBackendBufferFull
  BY DEF Run, TypeOK, streamVars
<1>2. Distinct(ready') /\ Head(ready) \notin Range(ready')
  BY <1>1, DistinctTail DEF Singles, Queued
<1>3. Range(ready) = {Head(ready)} \cup Range(ready')
  BY <1>1, RangeHeadTail
<1>4. Head(ready) \notin Range(job) /\ \A op \in Range(ready') : op \notin Range(job)
  BY <1>3 DEF Singles, Queued
<1>5. DOMAIN job = PoolThreads /\ DOMAIN job' = PoolThreads
  BY <1>1 DEF TypeOK
<1>6. job'[w] = Head(ready) /\ \A v \in PoolThreads \ {w} : job'[v] = job[v]
  BY <1>1, <1>5
<1>7. \A v \in PoolThreads : job[v] # Head(ready)
  BY <1>4, <1>5 DEF Range
<1>8. OneHandlerEach'
  BY <1>6, <1>7 DEF Singles, OneHandlerEach
<1>9. \A op \in Range(ready') : op \notin Range(job')
  <2>1. \A op \in Range(ready'), v \in PoolThreads : job[v] # op
    BY <1>4, <1>5 DEF Range
  <2>2. \A op \in Range(ready'), v \in PoolThreads : job'[v] # op
    BY <1>2, <1>6, <2>1
  <2> QED  BY <1>5, <2>2 DEF Range
<1>10. ASSUME NEW r \in Requests PROVE Single(r)'
  <2>1. \A what : <<r, what>> \in Completed' <=> <<r, what>> \in Completed
    BY CompletedRun
  <2>2. \A what : Busy(r, what)' <=> Busy(r, what)
    BY <1>1, <2>1 DEF Busy, Completed
  <2>3. Single(r)
    BY DEF Singles
  <2> QED  BY <1>1, <2>1, <2>2, <2>3 DEF Single
<1> QED  BY <1>2, <1>8, <1>9, <1>10 DEF Singles, Queued

LEMMA HandlerSingle ==
  ASSUME TypeOK, Singles, NEW r \in Requests, NEW w \in PoolThreads, Handler(w, r)
  PROVE  Queued' /\ OneHandlerEach' /\ Single(r)'
<1> USE DEF streamVars
<1>1. PICK what \in {"read", "wait"}, reading \in SUBSET {"read"},
           timer \in {"kept", "reset", "cancelled"} :
        /\ Handles(w, r, what) /\ Return(w, r, reading, timer)
        /\ what = "wait" => /\ reading = {} /\ timer = "kept"
                            /\ itsBackendBufferFull' = itsBackendBufferFull
        /\ \/ itsBackendBufferFull' = itsBackendBufferFull
           \/ reading = {}
  <2>1. CASE HandleTimeout(w, r)
    BY <2>1 DEF HandleTimeout
  <2>2. CASE ReadOn(w, r)
    BY <2>2 DEF ReadOn
  <2>3. CASE Suspend(w, r)
    BY <2>3 DEF Suspend
  <2>4. CASE End(w, r)
    BY <2>4 DEF End
  <2>5. CASE Throws(w, r)
    BY <2>5 DEF Throws
  <2> QED  BY <2>1, <2>2, <2>3, <2>4, <2>5 DEF Handler
<1>2. /\ job[w] = <<r, what>> /\ job' = [job EXCEPT ![w] = NoJob] /\ place' = place
      /\ ready' = IF timer = "kept" THEN ready ELSE Cancelled(r)
      /\ pending'[r] = (IF timer = "kept" THEN pending[r] ELSE pending[r] \ {"wait"})
                         \cup reading
  BY <1>1 DEF Return, Handles, TypeOK
<1>3. /\ DOMAIN job = PoolThreads /\ DOMAIN job' = PoolThreads /\ job'[w] = NoJob
      /\ \A v \in PoolThreads \ {w} : job'[v] = job[v]
  BY <1>2 DEF TypeOK
<1>4. Single(r) /\ Queued /\ OneHandlerEach
  BY DEF Singles
<1>5. <<r, what>> \in Range(job)
  BY <1>2, <1>3 DEF Range
<1>6. <<r, what>> \notin Range(ready) /\ what \notin pending[r] /\ Busy(r, what)
  BY <1>4, <1>5 DEF Queued, Single, Completed, Busy
<1>7. <<r, what>> \notin Range(job')
  <2>1. \A v \in PoolThreads \ {w} : job[v] # <<r, what>>
    BY <1>2, <1>4, NoJobIsNone DEF OneHandlerEach
  <2> QED  BY <1>3, <2>1, NoJobIsNone DEF Range
<1>8. OneHandlerEach'
  BY <1>3, <1>4 DEF OneHandlerEach
<1>9. \A q, o : <<q, o>> \in Range(job') => <<q, o>> \in Range(job)
  BY <1>3, NoJobIsNone DEF Range
<1>10. Queued'
  <2>1. \A op \in Operation : op \in Range(job') => op \in Range(job)
    BY <1>9 DEF Operation
  <2>2. CASE timer = "kept"
    <3>1. Range(ready) \subseteq Operation /\ ready' = ready
      BY <1>2, <2>2 DEF TypeOK, Range
    <3> QED  BY <1>4, <2>1, <3>1 DEF Queued
  <2>3. CASE timer # "kept"
    BY <1>2, <2>1, <2>3, CancelQueues
  <2> QED  BY <2>2, <2>3
<1>11. /\ timer = "kept" => ready' = ready
       /\ Range(ready') = Range(ready) \/ Range(ready') = Range(ready) \cup {<<r, "wait">>}
  BY <1>2, CompletedCancelled
<1>12. <<r, what>> \notin Completed'
  <2>1. CASE what = "wait"
    BY <1>1, <1>6, <1>7, <1>11, <2>1 DEF Completed
  <2>2. CASE what # "wait"
    <3>1. <<r, what>> # <<r, "wait">>
      BY <2>2
    <3> QED  BY <1>6, <1>7, <1>11, <3>1 DEF Completed
  <2> QED  BY <2>1, <2>2
<1>13. <<r, "read">> \in Completed' => <<r, "read">> \in Completed
  <2>1. <<r, "read">> # <<r, "wait">>
    OBVIOUS
  <2> QED  BY <1>9, <1>11, <2>1 DEF Completed
<1>14. \A o \in {"read", "wait"} : o \in pending'[r] => <<r, o>> \notin Completed'
  <2>1. ASSUME "read" \in pending'[r] PROVE <<r, "read">> \notin Completed'
    <3>1. CASE "read" \in reading
      BY <1>1, <1>12, <3>1
    <3>2. CASE "read" \notin reading
      BY <1>2, <1>4, <1>13, <2>1, <3>2 DEF Single
    <3> QED  BY <3>1, <3>2
  <2>2. ASSUME "wait" \in pending'[r] PROVE <<r, "wait">> \notin Completed'
    <3>1. timer = "kept" /\ "wait" \in pending[r]
      BY <1>2, <2>2
    <3> QED  BY <1>4, <1>9, <1>11, <3>1 DEF Single, Completed
  <2> QED  BY <2>1, <2>2
<1>15. itsBackendBufferFull'[r] => ~Busy(r, "read")'
  <2>1. CASE what = "wait"
    <3>1. itsBackendBufferFull' = itsBackendBufferFull /\ pending'[r] = pending[r]
      BY <1>1, <1>2, <2>1
    <3>2. Busy(r, "read")' => Busy(r, "read")
      BY <1>13, <3>1 DEF Busy, Completed
    <3> QED  BY <1>4, <3>1, <3>2 DEF Single
  <2>2. CASE what = "read"
    <3>1. ~itsBackendBufferFull[r]
      BY <1>4, <1>6, <2>2 DEF Single
    <3>2. itsBackendBufferFull'[r] => "read" \notin pending'[r]
      BY <1>1, <1>2, <1>6, <2>2, <3>1
    <3> QED  BY <1>12, <2>2, <3>2 DEF Busy, Completed
  <2> QED  BY <2>1, <2>2
<1>16. place'[r] \notin NotMade \cup {"made"}
  BY <1>2, <1>4, <1>6 DEF Single
<1> QED  BY <1>8, <1>10, <1>14, <1>15, <1>16 DEF Single

LEMMA SinglesStep ==
  ASSUME IInv, Singles, [Next]_vars
  PROVE  Singles'
<1>1. ASSUME NEW r \in Requests, Step(r) PROVE Singles'
  <2>1. Others(r)
    BY <1>1, ServerStep, CompleteStep, HandlerStep DEF IInv, Step
  <2>2. Queued' /\ OneHandlerEach' /\ Single(r)'
    BY <1>1, ServerSingle, CompleteSingle, HandlerSingle DEF IInv, Step
  <2>3. \A q \in Requests : Single(q)'
    BY <2>1, <2>2, OthersSingle DEF Singles
  <2> QED  BY <2>2, <2>3 DEF Singles
<1>2. ASSUME NEW w \in PoolThreads, Run(w) PROVE Singles'
  BY <1>2, RunSingle DEF IInv
<1>3. CASE \/ MainStep
           \/ \E w \in PoolThreads : Exit(w)
           \/ UNCHANGED vars
  <2>1. UNCHANGED <<place, pending, itsBackendBufferFull, job, ready>>
    <3>1. CASE MainStep
      BY <3>1 DEF Proceed, MainStep, Load, Initialise, Unload, ConfigurationFails,
         CreateProxy, SetNoMatchHandler, AddContentHandlers, GetEngine,
         RegisterAdminRequests, Shutdown, JoinAll, Destroy, DestroyHTTP, poolVars, streamVars
    <3>2. CASE \E w \in PoolThreads : Exit(w)
      BY <3>2 DEF Exit, streamVars
    <3>3. CASE UNCHANGED vars
      BY <3>3 DEF vars, poolVars, streamVars
    <3> QED  BY <1>3, <3>1, <3>2, <3>3
  <2> QED  BY <2>1 DEF Singles, Queued, OneHandlerEach, Single, Completed, Busy
<1> QED  BY <1>1, <1>2, <1>3 DEF Next, MainStep, Step

LEMMA OperationsAreSingle == Spec => []Singles
<1>1. Init => Singles
  <2> SUFFICES ASSUME Init PROVE Singles
    OBVIOUS
  <2>1. ready = <<>> /\ Range(ready) = {} /\ DOMAIN ready = {}
    BY DEF Init, Range
  <2>2. Range(job) \subseteq {NoJob} /\ \A w \in PoolThreads : job[w] = NoJob
    BY DEF Init, Range
  <2>3. \A r, what : <<r, what>> \notin Completed
    BY <2>1, <2>2, NoJobIsNone DEF Completed
  <2>4. \A r \in Requests : pending[r] = {} /\ ~itsBackendBufferFull[r]
    BY DEF Init
  <2>5. \A r \in Requests : Single(r)
    BY <2>3, <2>4 DEF Single, Busy, Completed
  <2> QED  BY <2>1, <2>2, <2>5 DEF Singles, Queued, Distinct, OneHandlerEach
<1>2. IInv /\ Singles /\ [Next]_vars => Singles'
  BY SinglesStep
<1> QED  BY <1>1, <1>2, Inductive, PTL DEF Spec

(* A streamer has one handler of each kind running at most, for any number *)
(* of requests and threads.                                                *)
THEOREM HandlersAreSingle == Spec => []OneHandlerEach
  BY OperationsAreSingle, PTL DEF Singles

(* No three threads are in handlers of one streamer: a backend that is     *)
(* silent in the middle of a connection keeps two from the others at most. *)
AtMostTwoThreads ==
  \A r \in Requests : \A u, v, w \in PoolThreads :
    u # v /\ v # w /\ u # w =>
      \E t \in {u, v, w} : \A what \in {"read", "wait"} : ~Handles(t, r, what)

THEOREM StreamerKeepsTwoThreads == Spec => []AtMostTwoThreads
<1>1. OneHandlerEach => AtMostTwoThreads
  BY NoJobIsNone DEF OneHandlerEach, AtMostTwoThreads, Handles
<1> QED  BY <1>1, HandlersAreSingle, PTL

(* What a request goes on to charge when the server is done with it, it    *)
(* charges through an operation of the pool, also after the shutdown.      *)
THEOREM ChargesAreLeftToThePool == Spec => []LeftToThePool
<1>1. IInv => LeftToThePool
  <2> SUFFICES ASSUME IInv, NEW r \in Requests, place[r] \in {"unserved", "gone"},
                      active[r] = 1
               PROVE  Busy(r, "read") \/ Busy(r, "wait")
    BY DEF LeftToThePool
  <2>1. Alive(r)
    BY DEF IInv, Own
  <2>2. pending[r] \subseteq {"read", "wait"}
    BY DEF IInv, TypeOK
  <2> QED  BY <2>1, <2>2 DEF Alive, Busy
<1> QED  BY <1>1, Inductive, PTL
=============================================================================
