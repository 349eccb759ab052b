----------------------------- MODULE MCPauseControl -----------------------------
(***************************************************************************)
(* Three threads: one may wait to end a pause while another reads the      *)
(* deadline and a third one sets a new pause.  Two seconds of the clock    *)
(* and two commands, so that a pause can be replaced or outlived.          *)
(***************************************************************************)
EXTENDS PauseControl

CONSTANTS t1, t2, t3, noThread, noDeadline

MCThreads == {t1, t2, t3}
=============================================================================
