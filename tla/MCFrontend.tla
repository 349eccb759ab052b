------------------------------- MODULE MCFrontend -------------------------------
(***************************************************************************)
(* Two threads and two backends: while one thread negotiates or retires a  *)
(* backend the other one uses it, and a backend that comes back is retired *)
(* again.  Every thread can pass the throttle of one at once.              *)
(***************************************************************************)
EXTENDS Frontend

CONSTANTS t1, t2, b1, b2, noBackend

MCThreads  == {t1, t2}
MCBackends == {b1, b2}
=============================================================================
