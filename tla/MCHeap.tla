------------------------------- MODULE MCHeap -------------------------------
(* Two threads that share a heap in which the pages run out.               *)
EXTENDS Slab

CONSTANTS a, b

TooFew == {[users |-> {a, b}, pages |-> 25, sizes |-> {8000, 9000}, blocks |-> 2]}
=============================================================================
