---------------------------------- MODULE Pause ----------------------------------
(***************************************************************************)
(* What the administrator and the load balancer are promised of the pause: *)
(* it lasts until its deadline, or until a command continues or replaces   *)
(* it, and nothing else ends or changes it.                                *)
(***************************************************************************)
EXTENDS Naturals

CONSTANT NoDeadline

VARIABLES
  paused, deadline,
  now,
  commands    \* how many commands have taken effect

pauseVars == <<paused, deadline, now, commands>>

Init ==
  /\ paused = FALSE /\ deadline = NoDeadline
  /\ now = 0 /\ commands = 0

PauseUntil ==
  /\ paused' = TRUE /\ deadline' \in Nat \cup {NoDeadline}
  /\ commands' = commands + 1
  /\ UNCHANGED now

Continue ==
  /\ paused' = FALSE /\ deadline' = NoDeadline
  /\ commands' = commands + 1
  /\ UNCHANGED now

Expire ==
  /\ paused /\ deadline # NoDeadline /\ deadline <= now
  /\ paused' = FALSE /\ deadline' = NoDeadline
  /\ UNCHANGED <<now, commands>>

Tick ==
  /\ now' = now + 1
  /\ UNCHANGED <<paused, deadline, commands>>

Next == PauseUntil \/ Continue \/ Expire \/ Tick

Spec == Init /\ [][Next]_pauseVars
=============================================================================
