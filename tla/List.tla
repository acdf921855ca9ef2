------------------------------- MODULE List -------------------------------
(***************************************************************************)
(* coslib::List, the intrusive doubly linked list every kernel queue is    *)
(* made of: the ready lists, the suspend lists of the IPC objects and the  *)
(* list of defunct threads.                                                *)
(*                                                                         *)
(* The links belong to the node, not to the list, and a Thread owns one    *)
(* node (list_node_), so that every list of the kernel works on the same   *)
(* two pointers of a thread.  The memory all lists share is one record     *)
(*   h.head[l], h.tail[l]    _pHead and _pTail of list l                   *)
(*   h.next[n], h.prev[n]    _pNext and _pPrev of node n                   *)
(* and an operation is an operator from such a memory to the next one,     *)
(* whatever the caller has done to the pointers before.                    *)
(***************************************************************************)

CONSTANTS Node,   \* the nodes
          NULL    \* the null pointer

ASSUME NullAssumption == NULL \notin Node

Pointer == Node \cup {NULL}

(* The memories of the lists in L.                                         *)
Memory(L) == [head : [L -> Pointer], tail : [L -> Pointer],
              next : [Node -> Pointer], prev : [Node -> Pointer]]

(* List() and Node(value): every pointer starts as NULL.                   *)
NewMemory(L) == [head |-> [l \in L |-> NULL], tail |-> [l \in L |-> NULL],
                 next |-> [n \in Node |-> NULL], prev |-> [n \in Node |-> NULL]]

(* A store to a field of *p.  The kernel runs unpaged in a flat segment, so *)
(* a store through NULL lands in low memory that no list reads.            *)
Store(field, p, v) == IF p = NULL THEN field ELSE [field EXCEPT ![p] = v]

empty(h, l) == h.head[l] = NULL

front(h, l) == h.head[l]

(* push_back on an empty list leaves the links of p as they are.           *)
push_back(h, l, p) ==
  LET t == h.tail[l] IN
  IF empty(h, l)
  THEN [head |-> [h.head EXCEPT ![l] = p], tail |-> [h.tail EXCEPT ![l] = p],
        next |-> h.next, prev |-> h.prev]
  ELSE IF t = p THEN h
  ELSE [head |-> h.head, tail |-> [h.tail EXCEPT ![l] = p],
        next |-> [Store(h.next, t, p) EXCEPT ![p] = NULL],
        prev |-> [h.prev EXCEPT ![p] = t]]

(* Mutant of erase: no case for the last node.                             *)
erase_tail(h, l, p) ==
  IF h.head[l] = p
  THEN [head |-> [h.head EXCEPT ![l] = h.next[p]], tail |-> h.tail,
        next |-> h.next, prev |-> Store(h.prev, h.next[p], NULL)]
  ELSE [head |-> h.head, tail |-> h.tail,
        next |-> Store(h.next, h.prev[p], h.next[p]),
        prev |-> Store(h.prev, h.next[p], h.prev[p])]

(* erase leaves the links of p as they are: the last two statements of the *)
(* function compare, they do not assign.                                   *)
erase(h, l, p) ==
  IF h.head[l] = p
  THEN [head |-> [h.head EXCEPT ![l] = h.next[p]], tail |-> h.tail,
        next |-> h.next, prev |-> Store(h.prev, h.next[p], NULL)]
  ELSE IF h.tail[l] = p
  THEN [head |-> h.head, tail |-> [h.tail EXCEPT ![l] = h.prev[p]],
        next |-> Store(h.next, h.prev[p], NULL), prev |-> h.prev]
  ELSE LET prev1 == Store(h.prev, h.next[p], h.prev[p]) IN
       [head |-> h.head, tail |-> h.tail,
        next |-> Store(h.next, prev1[p], h.next[p]), prev |-> prev1]
=============================================================================
