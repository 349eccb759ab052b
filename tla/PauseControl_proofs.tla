-------------------------- MODULE PauseControl_proofs --------------------------
(***************************************************************************)
(* Proofs about the pause, for any number of threads, any clock and any    *)
(* number of commands: itsPauseMutex keeps its discipline, a pause is      *)
(* ended by a command or at its deadline only, and the load balancer is    *)
(* told the truth.                                                         *)
(***************************************************************************)
EXTENDS PauseControl, TLAPS

USE PauseAssumption DEF PauseAssumption

(* TypeOK but for the Booleans, which the provers take apart from the      *)
(* arithmetic of the rest.                                                 *)
Typed ==
  /\ itsPauseDeadLine \in Nat \cup {NoDeadline}
  /\ readers \subseteq Threads
  /\ upgrader \in Threads \cup {NoThread}
  /\ now \in 0..MaxTime
  /\ pc \in [Threads -> Probes \cup {"idle", "pauseUntil", "pauseFirst", "continue",
                                  "answered"}]
  /\ theTime \in [Threads -> Nat \cup {NoDeadline}]
  /\ answer \in [Threads -> {"none", "serving", "paused", "pausedUntil"}]
  /\ issued \in 0..MaxCommands
  /\ commands \in Nat
  /\ \A t \in Threads : /\ upgrader = t <=> pc[t] \in {"checking", "expired"}
                        /\ t \in readers <=> pc[t] = "describing"

(* Who has found the pause expired still finds it so: nobody else can      *)
(* write while it holds the mutex for upgrading.                           *)
ExpiredStays ==
  \A t \in Threads : pc[t] = "expired" =>
    /\ itsPaused
    /\ itsPauseDeadLine # NoDeadline
    /\ itsPauseDeadLine <= now

(* A probe has seen what is now, and what its place in the code says that  *)
(* it has found.                                                           *)
ProbeHasSeen ==
  \A t \in Threads :
    /\ pc[t] \in Probes => PauseIsOn \in seen[t]
    /\ pc[t] \in {"describe", "describing"} => TRUE \in seen[t]
    /\ pc[t] = "answered" =>
         \/ answer[t] = "serving" /\ FALSE \in seen[t]
         \/ answer[t] \in {"paused", "pausedUntil"} /\ TRUE \in seen[t]

Booleans == itsPaused \in BOOLEAN /\ seen \in [Threads -> SUBSET BOOLEAN]

IInv == Typed /\ Booleans /\ ExpiredStays

LEMMA Types == IInv => TypeOK
<1>1. Typed /\ Booleans => TypeOK
  BY DEF Typed, Booleans, TypeOK
<1> QED BY <1>1 DEF IInv

LEMMA SetOfTruths == PauseIsOn \in BOOLEAN
BY DEF PauseIsOn

LEMMA InitialState == Init => IInv /\ ProbeHasSeen
<1> SUFFICES ASSUME Init PROVE IInv /\ ProbeHasSeen
  OBVIOUS
<1>1. \A t \in Threads : pc[t] = "idle"
  BY DEF Init
<1>2. Typed
  BY DEF Init, Typed, Probes
<1>4. itsPaused \in BOOLEAN /\ seen \in [Threads -> SUBSET BOOLEAN]
  BY DEF Init
<1>3. ExpiredStays /\ ProbeHasSeen
  BY <1>1 DEF ExpiredStays, ProbeHasSeen, Probes
<1> QED BY <1>2, <1>3, <1>4 DEF IInv, Booleans

(* What every step does to the history.                                    *)
LEMMA HistoryTyped ==
  ASSUME Seen, seen \in [Threads -> SUBSET BOOLEAN]
  PROVE  seen' \in [Threads -> SUBSET BOOLEAN]
<1>1. PauseIsOn' \in BOOLEAN
  BY DEF PauseIsOn
<1>2. ASSUME NEW t \in Threads PROVE seen[t] \in SUBSET BOOLEAN
  OBVIOUS
<1> QED BY <1>1, <1>2 DEF Seen

LEMMA DeadlineType == ASSUME IInv PROVE DeadlineOf(1) \in Nat
<1>1. now \in Nat
  BY DEF IInv, Typed
<1> QED BY <1>1 DEF DeadlineOf

(* A command's request leaves its deadline in the thread.                  *)
LEMMA CommandIssues ==
  ASSUME IInv, NEW t \in Threads, Command(t)
  PROVE  \E deadline \in Nat \cup {NoDeadline},
            place \in {"pauseUntil", "pauseFirst", "continue"} :
            Issue(t, deadline, place)
<1>1. DeadlineOf(1) \in Nat
  BY DeadlineType
<1>2. \A time \in 0..MaxTime : time \in Nat \cup {NoDeadline}
  OBVIOUS
<1> QED BY <1>1, <1>2, Zenon DEF Command, RequestPause, RequestContinue

LEMMA SeenAlways == ASSUME Next PROVE Seen
BY DEF Next, Tick, Command, RequestPause, RequestContinue, Issue, Runs, PauseUntil,
  Continue, Probe, IsPaused, IsPausedLocks, IsPausedReturns, IsPausedExpires,
  IsPausedClears, DescribeLocks, Describe, Answered

LEMMA StepTyped == ASSUME IInv, Next PROVE Typed'
<1>1. Typed
  BY DEF IInv
<1> USE <1>1 DEF Typed, Probes
<1>2. CASE Tick
  BY <1>2 DEF Tick, stateVars, mutexVars, commandVars
<1>3. ASSUME NEW t \in Threads, NEW deadline \in Nat \cup {NoDeadline},
             NEW place \in {"pauseUntil", "pauseFirst", "continue"},
             Issue(t, deadline, place)
      PROVE  Typed'
  BY <1>3 DEF Issue, Goto, stateVars, mutexVars
<1>4. ASSUME NEW t \in Threads, PauseUntil(t) PROVE Typed'
  BY <1>4, DeadlineType DEF PauseUntil, CanWrite, RequestDone, Goto, mutexVars, commandVars
<1>5. ASSUME NEW t \in Threads, Continue(t) PROVE Typed'
  BY <1>5 DEF Continue, CanWrite, RequestDone, Goto, mutexVars
<1>6. ASSUME NEW t \in Threads, Probe(t) PROVE Typed'
  BY <1>6 DEF Probe, Goto, stateVars, mutexVars, commandVars
<1>7. ASSUME NEW t \in Threads, IsPausedLocks(t) PROVE Typed'
  BY <1>7 DEF IsPausedLocks, Goto, stateVars, commandVars
<1>8. ASSUME NEW t \in Threads, IsPausedReturns(t) PROVE Typed'
  BY <1>8 DEF IsPausedReturns, Goto, stateVars, commandVars
<1>9. ASSUME NEW t \in Threads, IsPausedExpires(t) PROVE Typed'
  BY <1>9 DEF IsPausedExpires, Goto, stateVars, mutexVars, commandVars
<1>10. ASSUME NEW t \in Threads, IsPausedClears(t) PROVE Typed'
  BY <1>10 DEF IsPausedClears, Goto, commandVars
<1>11. ASSUME NEW t \in Threads, DescribeLocks(t) PROVE Typed'
  BY <1>11 DEF DescribeLocks, Goto, stateVars, commandVars
<1>12. ASSUME NEW t \in Threads, Describe(t) PROVE Typed'
  BY <1>12 DEF Describe, Goto, stateVars, commandVars
<1>13. ASSUME NEW t \in Threads, Answered(t) PROVE Typed'
  BY <1>13 DEF Answered, Goto, stateVars, mutexVars, commandVars
<1> QED
  BY <1>2, <1>3, <1>4, <1>5, <1>6, <1>7, <1>8, <1>9, <1>10, <1>11, <1>12, <1>13, CommandIssues
  DEF Next, Runs, IsPaused

LEMMA StepBooleans == ASSUME IInv, Next PROVE Booleans'
<1>1. itsPaused \in BOOLEAN /\ seen \in [Threads -> SUBSET BOOLEAN]
  BY DEF IInv, Booleans
<1>2. itsPaused' \in {itsPaused, TRUE, FALSE}
  BY DEF Next, Tick, Command, RequestPause, RequestContinue, Issue, Runs,
    PauseUntil, Continue, Probe, IsPaused, IsPausedLocks, IsPausedReturns,
    IsPausedExpires, IsPausedClears, DescribeLocks, Describe, Answered, stateVars
<1>3. Seen
  BY SeenAlways
<1> QED BY <1>1, <1>2, <1>3, HistoryTyped DEF Booleans

(* Writers, and the upgrader itself, are the only ones to change the pause. *)
LEMMA StepExpired == ASSUME IInv, Next PROVE ExpiredStays'
<1> SUFFICES ASSUME NEW u \in Threads, pc'[u] = "expired"
    PROVE itsPaused' /\ itsPauseDeadLine' # NoDeadline /\ itsPauseDeadLine' <= now'
  BY DEF ExpiredStays
<1> USE DEF IInv, Typed
<1>1. CASE Tick
  BY <1>1 DEF Tick, stateVars, ExpiredStays
<1>2. ASSUME NEW t \in Threads, PauseUntil(t) PROVE FALSE
  BY <1>2 DEF PauseUntil, CanWrite, RequestDone, Goto
<1>3. ASSUME NEW t \in Threads, Continue(t) PROVE FALSE
  BY <1>3 DEF Continue, CanWrite, RequestDone, Goto
<1>4. ASSUME NEW t \in Threads, IsPausedClears(t) PROVE FALSE
  BY <1>4 DEF IsPausedClears, Goto
<1>5. ASSUME NEW t \in Threads, IsPausedExpires(t)
      PROVE itsPaused' /\ itsPauseDeadLine' # NoDeadline /\ itsPauseDeadLine' <= now'
  <2>1. itsPaused /\ itsPauseDeadLine # NoDeadline /\ ~(now < itsPauseDeadLine)
    BY <1>5 DEF IsPausedExpires, StillPaused
  <2>2. itsPauseDeadLine \in Nat /\ now \in Nat
    BY <2>1
  <2> QED BY <1>5, <2>1, <2>2 DEF IsPausedExpires, stateVars
<1>6. ASSUME NEW t \in Threads,
             \/ Command(t) \/ Probe(t) \/ IsPausedLocks(t) \/ IsPausedReturns(t)
             \/ DescribeLocks(t) \/ Describe(t) \/ Answered(t)
      PROVE  pc[u] = "expired" /\ UNCHANGED <<itsPaused, itsPauseDeadLine, now>>
  BY <1>6, CommandIssues DEF Issue, Probe, IsPausedLocks, IsPausedReturns,
    DescribeLocks, Describe, Answered, Goto, stateVars
<1> QED
  BY <1>1, <1>2, <1>3, <1>4, <1>5, <1>6 DEF Next, Runs, IsPaused, ExpiredStays

LEMMA StepInvariant == ASSUME IInv, [Next]_vars PROVE IInv'
<1>1. CASE UNCHANGED vars
  BY <1>1 DEF vars, stateVars, mutexVars, commandVars, IInv, Typed,
    Booleans, ExpiredStays
<1>2. CASE Next
  BY <1>2, StepTyped, StepBooleans, StepExpired DEF IInv
<1> QED BY <1>1, <1>2

(* The types, and the discipline of itsPauseMutex: a thread that has it    *)
(* for upgrading excludes writers and other upgraders, not readers.        *)
THEOREM TypeCorrect == Spec => []TypeOK
<1>1. Init => IInv
  BY InitialState
<1>2. IInv /\ [Next]_vars => IInv'
  BY StepInvariant
<1>3. IInv => TypeOK
  BY Types
<1> QED BY <1>1, <1>2, <1>3, PTL DEF Spec

-----------------------------------------------------------------------------
(* The truth of the answers.                                               *)

(* A thread that stays in its probe has seen what it had and what is now;  *)
(* one that has its answer has seen what it had.                           *)
LEMMA HistoryGrows ==
  ASSUME Seen, NEW t \in Threads
  PROVE  /\ pc'[t] \in Probes => seen'[t] = seen[t] \cup {PauseIsOn'}
         /\ pc'[t] = "answered" => seen'[t] = seen[t]
BY DEF Seen, Probes

LEMMA StepSeen ==
  ASSUME IInv, ProbeHasSeen, [Next]_vars
  PROVE  ProbeHasSeen'
<1>1. CASE UNCHANGED vars
  BY <1>1 DEF ProbeHasSeen, PauseIsOn, vars, stateVars, mutexVars, commandVars
<1>2. ASSUME Next PROVE ProbeHasSeen'
  <2>1. Seen
    BY <1>2, SeenAlways
  <2> SUFFICES ASSUME NEW u \in Threads
      PROVE /\ pc'[u] \in Probes => PauseIsOn' \in seen'[u]
            /\ pc'[u] \in {"describe", "describing"} => TRUE \in seen'[u]
            /\ pc'[u] = "answered" =>
                 \/ answer'[u] = "serving" /\ FALSE \in seen'[u]
                 \/ /\ answer'[u] \in {"paused", "pausedUntil"}
                    /\ TRUE \in seen'[u]
    BY DEF ProbeHasSeen
  <2>2. pc'[u] \in Probes => PauseIsOn' \in seen'[u]
    BY <2>1, HistoryGrows
  <2>3. CASE pc'[u] = pc[u] /\ answer'[u] = answer[u]
    <3>1. seen[u] \subseteq seen'[u] \/ pc'[u] \notin Probes \cup {"answered"}
      BY <2>1, HistoryGrows
    <3> QED BY <2>2, <2>3, <3>1 DEF ProbeHasSeen, Probes
  <2>4. CASE ~(pc'[u] = pc[u] /\ answer'[u] = answer[u])
    <3> USE DEF IInv, Typed
    <3>1. ~Tick
      BY <2>4 DEF Tick
    <3>2. Command(u) \/ Runs(u)
      BY <1>2, <2>4, <3>1 DEF Next, Command, RequestPause, RequestContinue, Issue,
        Runs, PauseUntil, Continue, RequestDone, Probe, IsPaused, IsPausedLocks,
        IsPausedReturns, IsPausedExpires, IsPausedClears, DescribeLocks, Describe,
        Answered, Goto, commandVars
    <3>3. CASE Command(u) \/ PauseUntil(u) \/ Continue(u) \/ Answered(u)
      <4>1. pc'[u] \in {"idle", "pauseUntil", "pauseFirst", "continue"}
        BY <3>3 DEF Command, RequestPause, RequestContinue, Issue, PauseUntil,
          Continue, Answered, RequestDone, Goto
      <4> QED BY <4>1 DEF Probes
    <3>4. CASE Probe(u) \/ IsPausedLocks(u) \/ IsPausedExpires(u)
      <4>1. pc'[u] \in {"isPaused", "checking", "expired"}
        BY <3>4 DEF Probe, IsPausedLocks, IsPausedExpires, Goto
      <4> QED BY <2>2, <4>1
    <3>5. CASE IsPausedReturns(u)
      <4>1. PauseIsOn \in seen[u]
        BY <3>5 DEF IsPausedReturns, ProbeHasSeen, Probes
      <4>2. CASE ~itsPaused /\ answer'[u] = "serving" /\ pc'[u] = "answered"
        <5>1. PauseIsOn = FALSE
          <6>1. ~PauseIsOn
            BY <4>2 DEF PauseIsOn
          <6> QED BY <6>1, SetOfTruths
        <5>2. seen'[u] = seen[u]
          BY <2>1, <4>2, HistoryGrows
        <5> QED BY <4>1, <4>2, <5>1, <5>2 DEF Probes
      <4>3. CASE StillPaused /\ pc'[u] = "describe"
        <5>1. PauseIsOn = TRUE
          BY <4>3 DEF PauseIsOn, StillPaused
        <5>2. seen'[u] = seen[u] \cup {PauseIsOn'}
          BY <2>1, <4>3, HistoryGrows DEF Probes
        <5> QED BY <2>2, <4>1, <4>3, <5>1, <5>2
      <4> QED BY <3>5, <4>2, <4>3 DEF IsPausedReturns, Goto
    <3>6. CASE IsPausedClears(u)
      <4>1. PauseIsOn \in seen[u]
        BY <3>6 DEF IsPausedClears, ProbeHasSeen, Probes
      <4>2. PauseIsOn = FALSE
        <5>1. ~PauseIsOn
          <6>1. /\ itsPauseDeadLine # NoDeadline
                /\ itsPauseDeadLine <= now
            BY <3>6 DEF IsPausedClears, ExpiredStays
          <6>2. now \in Nat /\ itsPauseDeadLine \in Nat
            BY <6>1
          <6> QED BY <6>1, <6>2 DEF PauseIsOn
        <5> QED BY <5>1, SetOfTruths
      <4>3. pc'[u] = "answered" /\ answer'[u] = "serving"
        BY <3>6 DEF IsPausedClears, Goto
      <4>4. seen'[u] = seen[u]
        BY <2>1, <4>3, HistoryGrows
      <4> QED BY <4>1, <4>2, <4>3, <4>4 DEF Probes
    <3>7. CASE DescribeLocks(u)
      <4>1. TRUE \in seen[u]
        BY <3>7 DEF DescribeLocks, ProbeHasSeen
      <4>2. pc'[u] = "describing"
        BY <3>7 DEF DescribeLocks, Goto
      <4>3. seen'[u] = seen[u] \cup {PauseIsOn'}
        BY <2>1, <4>2, HistoryGrows DEF Probes
      <4> QED BY <2>2, <4>1, <4>2, <4>3
    <3>8. CASE Describe(u)
      <4>1. TRUE \in seen[u]
        BY <3>8 DEF Describe, ProbeHasSeen
      <4>2. /\ pc'[u] = "answered"
            /\ answer'[u] \in {"paused", "pausedUntil"}
        BY <3>8 DEF Describe, Goto
      <4>3. seen'[u] = seen[u]
        BY <2>1, <4>2, HistoryGrows
      <4> QED BY <4>1, <4>2, <4>3 DEF Probes
    <3> QED BY <3>2, <3>3, <3>4, <3>5, <3>6, <3>7, <3>8 DEF Runs, IsPaused
  <2> QED BY <2>3, <2>4
<1> QED BY <1>1, <1>2

(* The load balancer is told that the frontend is paused only if it was at *)
(* some moment of the probe, and that it serves only if it did at one.     *)
THEOREM AnswersAreTrue == Spec => []AnswersTrue
<1>1. Init => IInv /\ ProbeHasSeen
  BY InitialState
<1>2. IInv /\ ProbeHasSeen /\ [Next]_vars => IInv' /\ ProbeHasSeen'
  BY StepInvariant, StepSeen
<1>3. ProbeHasSeen => AnswersTrue
  <2> SUFFICES ASSUME ProbeHasSeen, NEW t \in Threads, pc[t] = "answered"
      PROVE (answer[t] # "serving") \in seen[t]
    BY DEF AnswersTrue
  <2>1. CASE answer[t] = "serving" /\ FALSE \in seen[t]
    <3>1. (answer[t] # "serving") = FALSE
      BY <2>1
    <3> QED BY <2>1, <3>1
  <2>2. CASE /\ answer[t] \in {"paused", "pausedUntil"}
             /\ TRUE \in seen[t]
    <3>1. (answer[t] # "serving") = TRUE
      BY <2>2
    <3> QED BY <2>2, <3>1
  <2> QED BY <2>1, <2>2 DEF ProbeHasSeen
<1> QED BY <1>1, <1>2, <1>3, PTL DEF Spec

-----------------------------------------------------------------------------
(* The promise.                                                            *)

(* A pause ends by a command or at its deadline, and by nothing else: what *)
(* a probe has read of the pause still holds when it ends it.              *)
THEOREM PauseImplemented == Spec => ImplementsPause
<1>1. Init => Promise!Init
  BY DEF Init, Promise!Init
<1>2. IInv /\ [Next]_vars => [Promise!Next]_Promise!pauseVars
  <2> SUFFICES ASSUME IInv, [Next]_vars
      PROVE Promise!Next \/ UNCHANGED Promise!pauseVars
    OBVIOUS
  <2> USE DEF Promise!pauseVars, Promise!Next, stateVars
  <2>1. CASE UNCHANGED vars
    BY <2>1 DEF vars
  <2>2. CASE Tick
    BY <2>2 DEF Tick, Promise!Tick
  <2>3. ASSUME NEW t \in Threads, PauseUntil(t)
        PROVE  Promise!Next
    <3>1. theTime[t] \in Nat \cup {NoDeadline}
      BY DEF IInv, Typed
    <3> QED BY <2>3, <3>1 DEF PauseUntil, Promise!PauseUntil
  <2>4. ASSUME NEW t \in Threads, Continue(t)
        PROVE  Promise!Next
    BY <2>4 DEF Continue, Promise!Continue
  <2>5. ASSUME NEW t \in Threads, IsPausedClears(t)
        PROVE  Promise!Next
    BY <2>5 DEF IsPausedClears, Promise!Expire, IInv, ExpiredStays
  <2>6. ASSUME NEW t \in Threads,
               \/ Command(t) \/ Probe(t) \/ IsPausedLocks(t) \/ IsPausedReturns(t)
               \/ IsPausedExpires(t) \/ DescribeLocks(t) \/ Describe(t) \/ Answered(t)
        PROVE  UNCHANGED Promise!pauseVars
    BY <2>6 DEF Command, RequestPause, RequestContinue, Issue, Probe, IsPausedLocks,
      IsPausedReturns, IsPausedExpires, DescribeLocks, Describe, Answered
  <2> QED BY <2>1, <2>2, <2>3, <2>4, <2>5, <2>6 DEF Next, Runs, IsPaused
<1>3. Init => IInv
  BY InitialState
<1>4. IInv /\ [Next]_vars => IInv'
  BY StepInvariant
<1> QED BY <1>1, <1>2, <1>3, <1>4, PTL DEF Spec, ImplementsPause, Promise!Spec

-----------------------------------------------------------------------------
(* The mutex. *)

Locking == {"checking", "expired", "describing"}
Writing == {"pauseUntil", "pauseFirst", "continue"}

(* The conditions of the statements that threads are at. *)
CanGoOn(t) ==
  \/ pc[t] \in {"describe", "describing", "answered"}
  \/ pc[t] = "isPaused" /\ upgrader = NoThread
  \/ /\ pc[t] = "checking"
     /\ \/ ~itsPaused
        \/ StillPaused
        \/ itsPaused /\ ~StillPaused
  \/ pc[t] = "expired" /\ readers = {}
  \/ pc[t] \in Writing /\ CanWrite

(* The threads that t waits for at the mutex. *)
WaitsFor(t) ==
  CASE pc[t] = "isPaused" -> {upgrader} \cap Threads
    [] pc[t] = "expired"  -> readers
    [] pc[t] \in Writing  -> ({upgrader} \cap Threads) \cup readers
    [] OTHER              -> {}

(* A thread that waits at the mutex waits for others that can go on, or    *)
(* for the one that ends a pause and that waits only for readers, who can: *)
(* no chain of waiting threads is longer, and none is a cycle.             *)
WaitsEnd ==
  \A t \in Threads :
    pc[t] # "idle" /\ ~CanGoOn(t) =>
      /\ WaitsFor(t) # {} /\ t \notin WaitsFor(t)
      /\ \A u \in WaitsFor(t) :
           \/ CanGoOn(u)
           \/ /\ pc[u] = "expired" /\ pc[t] # "expired"
              /\ readers # {} /\ \A v \in readers : CanGoOn(v)

(* Whoever changes the pause is alone: no other thread is between reading  *)
(* itsPaused and reading its deadline, nor between finding the deadline    *)
(* passed and ending the pause.                                            *)
WriterIsAlone ==
  [][stateVars' # stateVars =>
       \E t \in Threads : \A u \in Threads \ {t} : pc[u] \notin Locking]_vars

LEMMA WaitingEnds == IInv => WaitsEnd
<1> SUFFICES ASSUME Typed, NEW t \in Threads, pc[t] # "idle", ~CanGoOn(t)
             PROVE  /\ WaitsFor(t) # {} /\ t \notin WaitsFor(t)
                    /\ \A u \in WaitsFor(t) :
                         \/ CanGoOn(u)
                         \/ /\ pc[u] = "expired" /\ pc[t] # "expired"
                            /\ readers # {} /\ \A v \in readers : CanGoOn(v)
  BY DEF IInv, WaitsEnd
<1>1. /\ readers \subseteq Threads /\ upgrader \in Threads \cup {NoThread}
      /\ \A v \in Threads : /\ upgrader = v <=> pc[v] \in {"checking", "expired"}
                            /\ v \in readers <=> pc[v] = "describing"
  BY DEF Typed
<1>2. \A v \in readers : CanGoOn(v)
  BY <1>1 DEF CanGoOn
<1>3. \A v \in Threads : upgrader = v =>
        CanGoOn(v) \/ (pc[v] = "expired" /\ readers # {})
  BY <1>1 DEF CanGoOn
<1>4. pc[t] \in Writing \cup {"isPaused", "expired"}
  <2>1. pc[t] \in Probes \cup Writing \cup {"answered"}
    BY DEF Typed, Writing
  <2> QED  BY <2>1 DEF CanGoOn, Probes
<1>5. CASE pc[t] = "isPaused"
  <2>1. upgrader # NoThread
    BY <1>5 DEF CanGoOn
  <2>2. upgrader \in Threads /\ upgrader # t
    BY <1>1, <1>5, <2>1
  <2>3. WaitsFor(t) = {upgrader}
    <3>1. WaitsFor(t) = {upgrader} \cap Threads
      BY <1>5 DEF WaitsFor, Writing
    <3> QED  BY <2>2, <3>1
  <2> QED  BY <1>2, <1>3, <1>5, <2>2, <2>3
<1>6. CASE pc[t] = "expired"
  <2>1. WaitsFor(t) = readers
    BY <1>6 DEF WaitsFor, Writing
  <2>2. readers # {}
    BY <1>6 DEF CanGoOn
  <2>3. t \notin readers
    BY <1>1, <1>6
  <2> QED  BY <1>2, <2>1, <2>2, <2>3
<1>7. CASE pc[t] \in Writing
  <2>1. WaitsFor(t) = ({upgrader} \cap Threads) \cup readers
    BY <1>7 DEF WaitsFor, Writing
  <2>2. upgrader # NoThread \/ readers # {}
    BY <1>7 DEF CanGoOn, CanWrite
  <2>3. t # upgrader /\ t \notin readers /\ pc[t] # "expired"
    BY <1>1, <1>7 DEF Writing
  <2>4. WaitsFor(t) # {} /\ t \notin WaitsFor(t)
    BY <1>1, <2>1, <2>2, <2>3
  <2>5. \A u \in WaitsFor(t) : u \in readers \/ (u \in Threads /\ u = upgrader)
    BY <2>1
  <2> QED  BY <1>2, <1>3, <2>3, <2>4, <2>5
<1> QED  BY <1>4, <1>5, <1>6, <1>7

LEMMA AloneToWrite ==
  ASSUME IInv, Next, stateVars' # stateVars
  PROVE  \E t \in Threads : \A u \in Threads \ {t} : pc[u] \notin Locking
<1>1. \A v \in Threads : /\ upgrader = v <=> pc[v] \in {"checking", "expired"}
                         /\ v \in readers <=> pc[v] = "describing"
  BY DEF IInv, Typed
<1>2. PICK t \in Threads : PauseUntil(t) \/ Continue(t) \/ IsPausedClears(t)
  BY DEF Next, Tick, Command, RequestPause, RequestContinue, Issue, Runs, Probe, IsPaused,
    IsPausedLocks, IsPausedReturns, IsPausedExpires, DescribeLocks, Describe, Answered,
    stateVars
<1>3. readers = {} /\ (upgrader = NoThread \/ pc[t] = "expired")
  BY <1>2 DEF PauseUntil, Continue, CanWrite, IsPausedClears
<1>4. \A u \in Threads : upgrader = u => u = t
  BY <1>1, <1>3
<1>5. \A u \in Threads \ {t} : pc[u] \notin Locking
  BY <1>1, <1>3, <1>4 DEF Locking
<1> QED  BY <1>5

(* itsPauseMutex cannot lock up, for any number of threads that probe,     *)
(* pause and continue in any order.                                        *)
THEOREM MutexNeverLocksUp == Spec => []WaitsEnd
<1>1. Init => IInv
  BY InitialState
<1>2. IInv /\ [Next]_vars => IInv'
  BY StepInvariant
<1> QED  BY <1>1, <1>2, WaitingEnds, PTL DEF Spec

(* The pause and its deadline are changed together and by one at a time.   *)
THEOREM WritersExclude == Spec => WriterIsAlone
<1>1. Init => IInv
  BY InitialState
<1>2. IInv /\ [Next]_vars => IInv'
  BY StepInvariant
<1>3. IInv /\ [Next]_vars =>
        [stateVars' # stateVars =>
           \E t \in Threads : \A u \in Threads \ {t} : pc[u] \notin Locking]_vars
  BY AloneToWrite
<1> QED  BY <1>1, <1>2, <1>3, PTL DEF Spec, WriterIsAlone
=============================================================================
