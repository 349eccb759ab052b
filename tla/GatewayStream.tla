---------------------------- MODULE GatewayStream ----------------------------
(***************************************************************************)
(* What one forwarded response promises to the server thread that sends it *)
(* to the client (the ContentStreamer contract that                        *)
(* LowLatencyGatewayStreamer implements):                                  *)
(*                                                                         *)
(*  - bytes come out in one order, none is lost, repeated or changed;      *)
(*  - once the stream has finished or failed it stays so, produces nothing *)
(*    more, and that is reported only when every byte has been taken.      *)
(*                                                                         *)
(* Nothing is said of sockets, timers, threads or the response cache; what *)
(* it promises to the Reactor is in BackendAccount.                        *)
(***************************************************************************)
EXTENDS Naturals, Sequences

CONSTANT Bytes            \* the units a response is made of

VARIABLES
  out,      \* every byte made available to the server so far, in order
  taken,    \* the bytes the server has taken
  status,   \* GatewayStatus
  exit      \* ContentStreamer::StreamerStatus, as the server sees it

streamVars == <<out, taken, status, exit>>

Init ==
  /\ out = <<>> /\ taken = <<>>
  /\ status = "ONGOING" /\ exit = "OK"

(* More bytes; the last of them may come with the end of the stream. *)
Produce ==
  /\ status = "ONGOING"
  /\ out' # out /\ out' \in Seq(Bytes)
  /\ Len(out') >= Len(out) /\ SubSeq(out', 1, Len(out)) = out
  /\ status' \in {"ONGOING", "FINISHED"}
  /\ UNCHANGED <<taken, exit>>

End ==
  /\ status = "ONGOING"
  /\ status' \in {"FINISHED", "FAILED"}
  /\ UNCHANGED <<out, taken, exit>>

Take ==
  /\ taken' = out
  /\ UNCHANGED <<out, status, exit>>

ReportEnd ==
  /\ taken = out
  /\ \/ status = "FINISHED" /\ exit' = "EXIT_OK"
     \/ status = "FAILED" /\ exit' = "EXIT_ERROR"
  /\ UNCHANGED <<out, taken, status>>

Next == Produce \/ End \/ Take \/ ReportEnd

Stream == Init /\ [][Next]_streamVars
=============================================================================
