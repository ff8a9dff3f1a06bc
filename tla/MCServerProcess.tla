--------------------------- MODULE MCServerProcess ---------------------------
(* ServerProcess with small sets: two processes, two pids. *)
EXTENDS ServerProcess, TLC

CONSTANTS p1, p2

OwnPorts == p1 :> 1 @@ p2 :> 2
=============================================================================
