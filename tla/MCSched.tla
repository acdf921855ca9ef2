------------------------------ MODULE MCSched ------------------------------
(* Small systems for Sched: the root thread r, threads a and b, idle i.    *)
EXTENDS Sched

CONSTANTS r, a, b, i

(* Every thread has a priority of its own.                                 *)
DistinctPrio == [t \in Thread |-> CASE t = r -> 0 [] t = a -> 1 [] t = b -> 2
                                    [] t = i -> PrioMax - 1]

(* a and b share a priority, below the root thread's.                      *)
PeerPrio == [t \in Thread |-> CASE t = r -> 0 [] t \in {a, b} -> 1
                                [] t = i -> PrioMax - 1]

(* Slices of two ticks, and of one.                                        *)
Slice == [t \in Thread |-> 2]
ShortSlice == [t \in Thread |-> 1]
=============================================================================
