----------------------------- MODULE MCThreads -----------------------------
(* The threads and the heap they share, by small systems of which one is   *)
(* chosen at the start:                                                    *)
(*   threads   the root thread r, threads a and b and idle i, of distinct  *)
(*             priorities, that sleep, lock the scheduler and exit         *)
(*   control   b is not started; a resumes, suspends and reprioritises r   *)
(*             and itself, with the priorities of the two                  *)
(*   heap      users of the heap                                           *)
EXTENDS MCSched

VARIABLES part,
          huse, page_list, zone_array, zone_free, zone, memusage, used_mem,
          heap_sem, hpc, hloc, live                        \* Slab

Controlled == INSTANCE Sched WITH
  InitTick <- ShortSlice, MaxTime <- 1, MaxNest <- 1,
  Sleepers <- {r}, Exiters <- {}, Lockers <- {}, Controllers <- {a},
  Commands <- {"resume", "suspend", "priority"}

(* A zone that is used again; pages for one large block; two users; and    *)
(* idle, which frees; and every size that zoneindex() may be asked for.    *)
Reuse == [users |-> {a}, pages |-> 33, sizes |-> {8000}, blocks |-> 7]
Scarce == [users |-> {a}, pages |-> 12, sizes |-> {8000, 7000, 9000}, blocks |-> 3]
Shared == [users |-> {a, b}, pages |-> 36, sizes |-> {8000, 9000}, blocks |-> 2]
WithIdle == [users |-> {a, i}, pages |-> 25, sizes |-> {8000, 9000}, blocks |-> 2]
Sizes == [users |-> {}, pages |-> 2, sizes |-> 1..16383, blocks |-> 0]
Heap == INSTANCE Slab WITH HeapIdle <- i, ReleaseThresh <- 1, MaxHeapSem <- 2,
                           HeapUses <- {Reuse, Scarce, Shared, WithIdle, Sizes}

hvars == <<huse, page_list, zone_array, zone_free, zone, memusage, used_mem, heap_sem,
           hpc, hloc, live>>

ThreadsInit ==
  /\ part \in {"threads", "control", "heap"}
  /\ IF part = "control" THEN Controlled!Init ELSE Init
  /\ Heap!HeapInit
  /\ part # "heap" => huse = Reuse

Scheduling == part = "threads" /\ Next /\ UNCHANGED <<part, hvars>>
Controlling == /\ part = "control" /\ Controlled!Next
               /\ stat'[b] = "INIT" /\ \A t \in {r, a} : prio'[t] \in {0, 1}
               /\ UNCHANGED <<part, hvars>>
Allocations == part = "heap" /\ Heap!HeapNext /\ UNCHANGED <<part, vars>>

(* The assertion in Thread::timeout stops the machine when a controls a    *)
(* thread whose timer runs; the last use of the heap has no users, and     *)
(* where the pages run out MaxHeapSem is reached.  All others never stop.  *)
MayStop == /\ part = "control" \/ (part = "heap" /\ (huse.users = {} \/ heap_sem.value > 2))
           /\ UNCHANGED <<part, vars, hvars>>

ThreadsNext == Scheduling \/ Controlling \/ Allocations \/ MayStop
ThreadsSpec == ThreadsInit /\ [][ThreadsNext]_<<part, vars, hvars>>

-----------------------------------------------------------------------------
(* Those that are stated of one part only.                                 *)

(* Sched: a timer that is due finds its thread suspended.                  *)
TimeoutsSafe == part = "threads" => TimeoutSafe

(* Sched: the ready table holds exactly the ready threads.                 *)
ReadyExact == part = "threads" => QueuesExact

(* Slab: pages, zones, used_mem and the zones' indexes are right.          *)
HeapExact == part = "heap" => Heap!HeapExact

(* Slab: the blocks handed out do not overlap.                             *)
BlocksApart == part = "heap" => Heap!BlocksApart

(* Slab: one thread at most holds the heap's lock.                         *)
HeapLocked == part = "heap" => Heap!HeapLocked

(* Slab: idle, which frees, is never made to wait.                         *)
IdleNeverWaits == part = "heap" => Heap!IdleNeverWaits
=============================================================================
