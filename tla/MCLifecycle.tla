------------------------------ MODULE MCLifecycle ------------------------------
(***************************************************************************)
(* An instance of Lifecycle: two requests, so that one may throw or wait   *)
(* for a silent backend while the other goes on, and two threads in the    *)
(* pool, of which the silent one's streamer may take one or both.          *)
(***************************************************************************)
EXTENDS Lifecycle
CONSTANTS r1, r2, w1, w2

MCRequests    == {r1, r2}
MCPoolThreads == {w1, w2}
MCSilent      == {r1}
=============================================================================
