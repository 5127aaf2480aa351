--------------------------- MODULE MCFleetOpLock ---------------------------
(* Instances of FleetOpLock for TLC: two threads of the UI and one command *)
(* on its own.                                                             *)
EXTENDS FleetOpLock, TLC

CONSTANTS t1, t2, t3, ui, cli

MCHome == t1 :> ui @@ t2 :> ui @@ t3 :> cli

=============================================================================
