------------------------------ MODULE MCTimer ------------------------------
(* Two timers, one of which stops itself when it is called.                *)
EXTENDS Timer

CONSTANTS tx, ty

OneStops == [z \in Timer |-> IF z = tx THEN "stop" ELSE "none"]
=============================================================================
