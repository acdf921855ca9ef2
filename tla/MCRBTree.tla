------------------------------ MODULE MCRBTree ------------------------------
(* More nodes than timers of three threads have, with two keys.            *)
EXTENDS RBTree

TwoKeys == [n \in Node |-> IF n \in {1, 3} THEN {1} ELSE {0}]
SharedKeys == {TwoKeys}
=============================================================================
