----------------------------- MODULE BackendAccount -----------------------------
(***************************************************************************)
(* What one forwarded request promises to the Reactor, which balances the  *)
(* load by the active requests of each backend: its backend is charged     *)
(* once for it, and released once.                                         *)
(***************************************************************************)
VARIABLE charge

Init == charge = "none"

Charge  == charge = "none" /\ charge' = "charged"
Release == charge = "charged" /\ charge' = "released"

Next == Charge \/ Release

Accounting == Init /\ [][Next]_charge
=============================================================================
