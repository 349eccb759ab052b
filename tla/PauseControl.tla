------------------------------ MODULE PauseControl ------------------------------
(***************************************************************************)
(* The pause of the frontend in Plugin: the administrator's pause and      *)
(* continue requests, and the load balancer's probes of "/", which find    *)
(* out that a deadline has passed and then end the pause.                  *)
(*                                                                         *)
(* itsPauseMutex is a shared mutex with upgrade ownership: the thread that *)
(* has it for upgrading lets readers in, but no writer and no other        *)
(* upgrader, and writes once the readers have gone.  A writer's critical   *)
(* section is one step.                                                    *)
(***************************************************************************)
EXTENDS Naturals

CONSTANTS
  Threads, NoThread,
  NoDeadline,
  MaxTime,        \* bound: the clock stops here
  MaxCommands     \* bound: the administrator's commands in a behaviour

ASSUME PauseAssumption ==
  /\ NoThread \notin Threads
  /\ NoDeadline \notin Nat
  /\ MaxTime \in Nat
  /\ MaxCommands \in Nat

VARIABLES
  itsPaused, itsPauseDeadLine,
  readers, upgrader,   \* itsPauseMutex
  now,                 \* the clock, two ticks a second
  pc,                  \* where each thread is
  theTime,             \* the deadline of its command
  answer,              \* "SmartMet Server" or "Frontend Paused [until]"
  seen,                \* history: whether a pause was on during its probe
  issued, commands     \* commands given, and changes they have made

stateVars   == <<itsPaused, itsPauseDeadLine>>
mutexVars   == <<readers, upgrader>>
commandVars == <<theTime, issued>>
vars == <<stateVars, mutexVars, now, pc, commandVars, answer, seen, commands>>

(* A pause is on: it has no deadline or its deadline is still to come. *)
PauseIsOn ==
  itsPaused /\ (itsPauseDeadLine # NoDeadline => now < itsPauseDeadLine)

Probes == {"isPaused", "checking", "expired", "describe", "describing"}
Seen ==
  seen' = [t \in Threads |->
             IF pc'[t] \in Probes THEN seen[t] \cup {PauseIsOn'}
             ELSE IF pc'[t] = "answered" THEN seen[t] ELSE {}]

Goto(t, place) == pc' = [pc EXCEPT ![t] = place]
CanWrite == upgrader = NoThread /\ readers = {}

Init ==
  /\ itsPaused = FALSE /\ itsPauseDeadLine = NoDeadline
  /\ readers = {} /\ upgrader = NoThread
  /\ now = 0
  /\ pc = [t \in Threads |-> "idle"]
  /\ theTime = [t \in Threads |-> NoDeadline]
  /\ answer = [t \in Threads |-> "none"]
  /\ seen = [t \in Threads |-> {}]
  /\ issued = 0 /\ commands = 0

-----------------------------------------------------------------------------
(* The administrator's requests.                                           *)

Issue(t, deadline, place) ==
  /\ pc[t] = "idle"
  /\ issued < MaxCommands /\ issued' = issued + 1
  /\ theTime' = [theTime EXCEPT ![t] = deadline]
  /\ Goto(t, place)
  /\ UNCHANGED <<stateVars, mutexVars, now, answer, commands>>
  /\ Seen

RequestDone(t) ==
  /\ theTime' = [theTime EXCEPT ![t] = NoDeadline]
  /\ Goto(t, "idle")
  /\ UNCHANGED issued

(* "duration" counts from the last full second. *)
DeadlineOf(seconds) == 2 * ((now \div 2) + seconds)

RequestPause(t) ==
  \/ \E time \in 0..MaxTime : Issue(t, time, "pauseUntil")
  \/ Issue(t, DeadlineOf(1), "pauseUntil")
  \/ Issue(t, NoDeadline, "pauseUntil")

(* With a "time" the pause is set, and then the function goes on: to a     *)
(* "duration" if there is one as well, to the continue otherwise.          *)
RequestContinue(t) ==
  \/ \E time \in 0..MaxTime : Issue(t, time, "pauseFirst")
  \/ Issue(t, DeadlineOf(1), "pauseUntil")
  \/ Issue(t, NoDeadline, "continue")

PauseUntil(t) ==
  /\ pc[t] \in {"pauseUntil", "pauseFirst"}
  /\ CanWrite
  /\ itsPaused' = TRUE /\ itsPauseDeadLine' = theTime[t]
  /\ commands' = commands + 1
  /\ \/ pc[t] = "pauseUntil" /\ RequestDone(t)
     \/ pc[t] = "pauseFirst" /\ Goto(t, "continue") /\ UNCHANGED commandVars
     \/ /\ pc[t] = "pauseFirst" /\ Goto(t, "pauseUntil")
        /\ theTime' = [theTime EXCEPT ![t] = DeadlineOf(1)] /\ UNCHANGED issued
  /\ UNCHANGED <<mutexVars, now, answer>>
  /\ Seen

Continue(t) ==
  /\ pc[t] = "continue"
  /\ CanWrite
  /\ itsPaused' = FALSE /\ itsPauseDeadLine' = NoDeadline
  /\ commands' = commands + 1
  /\ RequestDone(t)
  /\ UNCHANGED <<mutexVars, now, answer>>
  /\ Seen

-----------------------------------------------------------------------------
(* A probe: baseContentHandler.                                            *)

Probe(t) ==
  /\ pc[t] = "idle"
  /\ Goto(t, "isPaused")
  /\ UNCHANGED <<stateVars, mutexVars, now, commandVars, answer, commands>>
  /\ Seen

(* isPaused takes the mutex for upgrading. *)
IsPausedLocks(t) ==
  /\ pc[t] = "isPaused"
  /\ upgrader = NoThread
  /\ upgrader' = t
  /\ Goto(t, "checking")
  /\ UNCHANGED <<stateVars, readers, now, commandVars, answer, commands>>
  /\ Seen

(* Mutant: a pause that ends now is reported as on. *)
StillPausedAtDeadline ==
  itsPaused /\ (itsPauseDeadLine # NoDeadline => now <= itsPauseDeadLine)

StillPaused ==
  itsPaused /\ (itsPauseDeadLine # NoDeadline => now < itsPauseDeadLine)

(* isPaused returns without writing. *)
IsPausedReturns(t) ==
  /\ pc[t] = "checking"
  /\ \/ /\ ~itsPaused
        /\ answer' = [answer EXCEPT ![t] = "serving"]
        /\ Goto(t, "answered")
     \/ /\ StillPaused
        /\ Goto(t, "describe")
        /\ UNCHANGED answer
  /\ upgrader' = NoThread
  /\ UNCHANGED <<stateVars, readers, now, commandVars, commands>>
  /\ Seen

(* Mutant: the mutex is given up before it is taken for writing. *)
IsPausedUnlocks(t) ==
  /\ pc[t] = "checking"
  /\ itsPaused /\ ~StillPaused
  /\ upgrader' = NoThread
  /\ Goto(t, "expired")
  /\ UNCHANGED <<stateVars, readers, now, commandVars, answer, commands>>
  /\ Seen

(* isPaused finds the deadline passed and waits for the readers to leave.  *)
IsPausedExpires(t) ==
  /\ pc[t] = "checking"
  /\ itsPaused /\ ~StillPaused
  /\ Goto(t, "expired")
  /\ UNCHANGED <<stateVars, mutexVars, now, commandVars, answer, commands>>
  /\ Seen

(* Mutant: the pause is left to others to end. *)
IsPausedKeeps(t) ==
  /\ pc[t] = "expired"
  /\ readers = {}
  /\ upgrader' = NoThread
  /\ answer' = [answer EXCEPT ![t] = "serving"]
  /\ Goto(t, "answered")
  /\ UNCHANGED <<stateVars, readers, now, commandVars, commands>>
  /\ Seen

IsPausedClears(t) ==
  /\ pc[t] = "expired"
  /\ readers = {}
  /\ itsPaused' = FALSE /\ itsPauseDeadLine' = NoDeadline
  /\ upgrader' = NoThread
  /\ answer' = [answer EXCEPT ![t] = "serving"]
  /\ Goto(t, "answered")
  /\ UNCHANGED <<readers, now, commandVars, commands>>
  /\ Seen

(* A paused frontend's answer names the deadline, which is read under a    *)
(* lock of its own: the pause may have changed or ended since.             *)
DescribeLocks(t) ==
  /\ pc[t] = "describe"
  /\ readers' = readers \cup {t}
  /\ Goto(t, "describing")
  /\ UNCHANGED <<stateVars, upgrader, now, commandVars, answer, commands>>
  /\ Seen

Describe(t) ==
  /\ pc[t] = "describing"
  /\ answer' = [answer EXCEPT ![t] =
       IF itsPauseDeadLine = NoDeadline THEN "paused"
       ELSE "pausedUntil"]
  /\ readers' = readers \ {t}
  /\ Goto(t, "answered")
  /\ UNCHANGED <<stateVars, upgrader, now, commandVars, commands>>
  /\ Seen

(* The answer is sent. *)
Answered(t) ==
  /\ pc[t] = "answered"
  /\ answer' = [answer EXCEPT ![t] = "none"]
  /\ Goto(t, "idle")
  /\ UNCHANGED <<stateVars, mutexVars, now, commandVars, commands>>
  /\ Seen

-----------------------------------------------------------------------------
Tick ==
  /\ now < MaxTime
  /\ now' = now + 1
  /\ UNCHANGED <<stateVars, mutexVars, pc, commandVars, answer, commands>>
  /\ Seen

IsPaused(t) == \/ IsPausedLocks(t) \/ IsPausedReturns(t)
               \/ IsPausedExpires(t) \/ IsPausedClears(t)
Command(t)  == RequestPause(t) \/ RequestContinue(t)
Runs(t)     == \/ PauseUntil(t) \/ Continue(t)
               \/ Probe(t) \/ IsPaused(t)
               \/ DescribeLocks(t) \/ Describe(t) \/ Answered(t)

Next == Tick \/ \E t \in Threads : Command(t) \/ Runs(t)

Spec == Init /\ [][Next]_vars

(* The load balancer goes on probing, and the threads run.                 *)
FairSpec == Spec /\ WF_vars(\E t \in Threads : Runs(t))

-----------------------------------------------------------------------------
(* Properties.                                                             *)

(* The types, and that itsPauseMutex is held by the threads that are in    *)
(* its critical sections and by no other.                                  *)
TypeOK ==
  /\ itsPaused \in BOOLEAN
  /\ itsPauseDeadLine \in Nat \cup {NoDeadline}
  /\ readers \subseteq Threads
  /\ upgrader \in Threads \cup {NoThread}
  /\ now \in 0..MaxTime
  /\ pc \in [Threads -> Probes \cup {"idle", "pauseUntil", "pauseFirst", "continue",
                                  "answered"}]
  /\ theTime \in [Threads -> Nat \cup {NoDeadline}]
  /\ answer \in [Threads -> {"none", "serving", "paused", "pausedUntil"}]
  /\ seen \in [Threads -> SUBSET BOOLEAN]
  /\ issued \in 0..MaxCommands
  /\ commands \in Nat
  /\ \A t \in Threads : /\ upgrader = t <=> pc[t] \in {"checking", "expired"}
                        /\ t \in readers <=> pc[t] = "describing"

(* The load balancer is told the truth: that the frontend serves only if   *)
(* no pause was on at some moment of the probe, and that it is paused only *)
(* if one was, though the mutex is given up in between.                    *)
AnswersTrue ==
  \A t \in Threads : pc[t] = "answered" =>
    (answer[t] # "serving") \in seen[t]

(* A pause that has come to its deadline is ended as long as probes come,  *)
(* though the probe that ends it has to wait for others to leave.          *)
Resumes ==
  itsPaused /\ ~PauseIsOn ~> ~itsPaused \/ PauseIsOn

(* A pause ends by a command, or at its deadline, never by a probe that    *)
(* acts on what it has read of an earlier pause.                           *)
Promise == INSTANCE Pause WITH paused <- itsPaused, deadline <- itsPauseDeadLine

ImplementsPause == Promise!Spec

(* "Pause until the given time" (pauseUntil), also when requestContinue    *)
(* gets its "optional deadline or duration": a request with a time does    *)
(* not end the pause that it has set.                                      *)
PauseStands ==
  [][\A t \in Threads : Continue(t) => theTime[t] = NoDeadline]_vars
=============================================================================
