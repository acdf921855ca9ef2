---------------------------- MODULE QueueProofs ----------------------------
(***************************************************************************)
(* Lemmas about the operations on the ready queue, for any number of       *)
(* threads and priorities.                                                 *)
(*                                                                         *)
(* They do not assume that the lists are lists.  They follow the one node  *)
(* that no operation can reach from another list, the node of the idle     *)
(* thread.                                                                 *)
(***************************************************************************)
EXTENDS Sched, WellFoundedInduction, TLAPS

IdlePrio == PrioMax - 1
IdleList == ReadyList(IdlePrio)

(* No pointer of the memory leads to idle, except from its own ready list. *)
Isolated(m) ==
  /\ m \in Memory(ListId)
  /\ m.head[IdleList] = Idle /\ m.tail[IdleList] = Idle /\ m.next[Idle] = NULL
  /\ \A l \in ListId \ {IdleList} : m.head[l] # Idle /\ m.tail[l] # Idle
  /\ \A n \in Thread : m.next[n] # Idle /\ m.prev[n] # Idle

(* The priorities in the tree have a thread in their list.                 *)
Sound(k) ==
  /\ k \in [mem : Memory(ListId), tree : SUBSET Prio]
  /\ Isolated(k.mem)
  /\ IdlePrio \in k.tree
  /\ \A p \in k.tree : k.mem.head[ReadyList(p)] # NULL
-----------------------------------------------------------------------------
(* rbtree's min() returns the least key of a tree that is not empty.       *)
LEMMA MinIsLeast ==
  ASSUME NEW S \in SUBSET Nat, S # {}
  PROVE  min(S) \in S /\ \A q \in S : min(S) <= q
<1> DEFINE R == {x \in Nat \X Nat : x[1] < x[2]}
<1>1. IsWellFoundedOn(R, Nat)
  BY NatLessThanWellFounded DEF OpToRel
<1>2. \E x \in S : \A y \in S : ~ (<<y, x>> \in R)
  <2> HIDE DEF R
  <2> QED BY <1>1, WFMin
<1>3. PICK x \in S : \A y \in S : ~ (<<y, x>> \in R)
  BY <1>2
<1>4. ASSUME NEW y \in S PROVE x <= y
  <2>1. x \in Nat /\ y \in Nat
    OBVIOUS
  <2>2. ~ (y < x)
    BY <1>3, <2>1
  <2> QED BY <2>1, <2>2
<1>5. \E p \in S : \A q \in S : p <= q
  BY <1>4
<1> QED BY <1>5 DEF min

(* The names of the lists: ready lists of different priorities differ, and *)
(* idle's differs from the lists of the IPC objects and of the defunct.    *)
LEMMA ListNames ==
  /\ IdlePrio \in Prio /\ IdleList \in ListId
  /\ \A p \in Prio : ReadyList(p) \in ListId
  /\ \A p, q \in Prio : ReadyList(p) = ReadyList(q) => p = q
  /\ Defunct \in ListId
  /\ \A p \in Prio : ReadyList(p) # Defunct
  /\ \A p \in Prio, o \in IpcObject : ReadyList(p) # SuspendList(o)
<1>1. IdlePrio \in Prio
  BY SchedAssumption DEF IdlePrio, Prio
<1> QED BY <1>1 DEF IdleList, ListId, ReadyList, Defunct, SuspendList

(* push_back of a thread other than idle to a list other than idle's keeps *)
(* idle isolated, leaves that list not empty and the fronts of the others  *)
(* as they are.                                                            *)
LEMMA PushIsolated ==
  ASSUME NEW m, Isolated(m), NEW l \in ListId \ {IdleList},
         NEW t \in Thread \ {Idle}
  PROVE  /\ Isolated(push_back(m, l, t))
         /\ push_back(m, l, t).head[l] # NULL
         /\ \A x \in ListId \ {l} : push_back(m, l, t).head[x] = m.head[x]
<1> USE SchedAssumption, ListNames
<1>1. CASE m.head[l] = NULL
  BY <1>1 DEF Isolated, push_back, empty, Memory, Pointer
<1>2. CASE m.head[l] # NULL /\ m.tail[l] = t
  BY <1>2 DEF Isolated, push_back, empty, Memory, Pointer
<1>3. CASE m.head[l] # NULL /\ m.tail[l] # t
  <2> DEFINE w == Store(m.next, m.tail[l], t)
  <2>1. w \in [Thread -> Pointer] /\ w[Idle] = NULL /\ \A n \in Thread : w[n] # Idle
    BY DEF Isolated, Store, Memory, Pointer
  <2> HIDE DEF w
  <2>2. push_back(m, l, t) =
          [head |-> m.head, tail |-> [m.tail EXCEPT ![l] = t],
           next |-> [w EXCEPT ![t] = NULL], prev |-> [m.prev EXCEPT ![t] = m.tail[l]]]
    BY <1>3 DEF push_back, empty, w
  <2> QED BY <1>3, <2>1, <2>2 DEF Isolated, Memory, Pointer
<1> QED BY <1>1, <1>2, <1>3

(* erase of a thread other than idle from a list other than idle's keeps   *)
(* idle isolated and the fronts of the other lists as they are.            *)
LEMMA EraseIsolated ==
  ASSUME NEW m, Isolated(m), NEW l \in ListId \ {IdleList},
         NEW t \in Thread \ {Idle}
  PROVE  /\ Isolated(erase(m, l, t))
         /\ \A x \in ListId \ {l} : erase(m, l, t).head[x] = m.head[x]
<1> USE SchedAssumption, ListNames
<1>1. CASE m.head[l] = t
  BY <1>1 DEF Isolated, erase, Store, Memory, Pointer
<1>2. CASE m.head[l] # t /\ m.tail[l] = t
  BY <1>2 DEF Isolated, erase, Store, Memory, Pointer
<1>3. CASE m.head[l] # t /\ m.tail[l] # t
  <2> DEFINE v == Store(m.prev, m.next[t], m.prev[t])
             w == Store(m.next, v[t], m.next[t])
  <2>1. v \in [Thread -> Pointer] /\ \A n \in Thread : v[n] # Idle
    BY DEF Isolated, Store, Memory, Pointer
  <2>2. w \in [Thread -> Pointer] /\ w[Idle] = NULL /\ \A n \in Thread : w[n] # Idle
    <3> HIDE DEF v
    <3> QED BY <2>1 DEF Isolated, Store, Memory, Pointer
  <2>3. erase(m, l, t) = [head |-> m.head, tail |-> m.tail, next |-> w, prev |-> v]
    BY <1>3 DEF erase, v, w
  <2> HIDE DEF v, w
  <2> QED BY <1>3, <2>1, <2>2, <2>3 DEF Isolated, Memory
<1> QED BY <1>1, <1>2, <1>3
-----------------------------------------------------------------------------
(* insert_thread keeps the queue sound.                                    *)
LEMMA InsertSound ==
  ASSUME NEW k, Sound(k), NEW t \in Thread \ {Idle}, NEW p \in Prio \ {IdlePrio}
  PROVE  Sound(insert_thread(k, t, p))
<1> DEFINE m == push_back(k.mem, ReadyList(p), t)
<1>1. ReadyList(p) \in ListId \ {IdleList}
  BY ListNames DEF IdleList
<1>2. /\ Isolated(m) /\ m.head[ReadyList(p)] # NULL
      /\ \A x \in ListId \ {ReadyList(p)} : m.head[x] = k.mem.head[x]
  BY <1>1, PushIsolated DEF Sound
<1>3. insert_thread(k, t, p) =
        [mem |-> m, tree |-> IF empty(k.mem, ReadyList(p)) THEN k.tree \cup {p} ELSE k.tree]
  BY DEF insert_thread
<1> HIDE DEF m
<1>4. \A q \in k.tree \cup {p} : m.head[ReadyList(q)] # NULL
  BY <1>2, ListNames DEF Sound
<1> QED BY <1>2, <1>3, <1>4 DEF Sound, Isolated

(* remove_thread keeps the queue sound: it takes the priority of a list    *)
(* that became empty out of the tree.                                      *)
LEMMA RemoveSound ==
  ASSUME NEW k, Sound(k), NEW t \in Thread \ {Idle}, NEW p \in Prio \ {IdlePrio}
  PROVE  Sound(remove_thread(k, t, p))
<1> DEFINE m == erase(k.mem, ReadyList(p), t)
<1>1. ReadyList(p) \in ListId \ {IdleList}
  BY ListNames DEF IdleList
<1>2. /\ Isolated(m)
      /\ \A x \in ListId \ {ReadyList(p)} : m.head[x] = k.mem.head[x]
  BY <1>1, EraseIsolated DEF Sound
<1>3. remove_thread(k, t, p) =
        [mem |-> m, tree |-> IF m.head[ReadyList(p)] = NULL THEN k.tree \ {p} ELSE k.tree]
  BY DEF remove_thread, empty
<1> HIDE DEF m
<1>4. \A q \in k.tree \ {p} : m.head[ReadyList(q)] # NULL
  BY <1>2, ListNames DEF Sound
<1> QED BY <1>2, <1>3, <1>4 DEF Sound, Isolated

(* The operations on the defunct list leave the ready lists alone.         *)
LEMMA DefunctSound ==
  ASSUME NEW k, Sound(k), NEW t \in Thread \ {Idle}
  PROVE  Sound(insert_defunct_thread(k, t)) /\ Sound(remove_defunct_thread(k, t))
<1>1. Defunct \in ListId \ {IdleList} /\ \A p \in Prio : ReadyList(p) \in ListId \ {Defunct}
  BY ListNames DEF IdleList
<1>2. Sound(insert_defunct_thread(k, t))
  <2> DEFINE m == push_back(k.mem, Defunct, t)
  <2>1. Isolated(m) /\ \A x \in ListId \ {Defunct} : m.head[x] = k.mem.head[x]
    BY <1>1, PushIsolated DEF Sound
  <2>2. insert_defunct_thread(k, t) = [mem |-> m, tree |-> k.tree]
    BY DEF insert_defunct_thread
  <2> HIDE DEF m
  <2> QED BY <1>1, <2>1, <2>2 DEF Sound, Isolated
<1>3. Sound(remove_defunct_thread(k, t))
  <2> DEFINE m == erase(k.mem, Defunct, t)
  <2>1. Isolated(m) /\ \A x \in ListId \ {Defunct} : m.head[x] = k.mem.head[x]
    BY <1>1, EraseIsolated DEF Sound
  <2>2. remove_defunct_thread(k, t) = [mem |-> m, tree |-> k.tree]
    BY DEF remove_defunct_thread
  <2> HIDE DEF m
  <2> QED BY <1>1, <2>1, <2>2 DEF Sound, Isolated
<1> QED BY <1>2, <1>3

(* What inclock makes of the queue when the slice of t ends.               *)
Rotated(k, t, p) ==
  [mem |-> push_back(erase(k.mem, ReadyList(p), t), ReadyList(p), t), tree |-> k.tree]

(* The rotation leaves the tree alone and the list not empty, idle's too.  *)
LEMMA RotateSound ==
  ASSUME NEW k, Sound(k), NEW t \in Thread, NEW p \in Prio, p = IdlePrio <=> t = Idle
  PROVE  Sound(Rotated(k, t, p))
<1> DEFINE e == erase(k.mem, ReadyList(p), t)
           m == push_back(e, ReadyList(p), t)
<1>1. CASE t # Idle
  <2>1. ReadyList(p) \in ListId \ {IdleList}
    BY <1>1, ListNames DEF IdleList
  <2>2. Isolated(e) /\ \A x \in ListId \ {ReadyList(p)} : e.head[x] = k.mem.head[x]
    BY <1>1, <2>1, EraseIsolated DEF Sound
  <2>3. /\ Isolated(m) /\ m.head[ReadyList(p)] # NULL
        /\ \A x \in ListId \ {ReadyList(p)} : m.head[x] = e.head[x]
    <3> HIDE DEF e
    <3> QED BY <1>1, <2>1, <2>2, PushIsolated
  <2>4. Rotated(k, t, p) = [mem |-> m, tree |-> k.tree]
    BY DEF Rotated
  <2> HIDE DEF e, m
  <2>5. \A q \in k.tree : m.head[ReadyList(q)] # NULL
    BY <2>2, <2>3, ListNames DEF Sound
  <2> QED BY <2>3, <2>4, <2>5 DEF Sound, Isolated
<1>2. CASE t = Idle
  <2> USE SchedAssumption, ListNames
  <2>1. e = [head |-> [k.mem.head EXCEPT ![IdleList] = NULL], tail |-> k.mem.tail,
             next |-> k.mem.next, prev |-> k.mem.prev]
    BY <1>2 DEF Sound, Isolated, erase, Store, IdleList
  <2>2. m = [head |-> [e.head EXCEPT ![IdleList] = Idle],
             tail |-> [e.tail EXCEPT ![IdleList] = Idle],
             next |-> e.next, prev |-> e.prev]
    <3>1. e.head[IdleList] = NULL
      BY <2>1 DEF Sound, Isolated, Memory
    <3> HIDE DEF e
    <3> QED BY <1>2, <3>1 DEF push_back, empty, IdleList
  <2>3. /\ m.head = k.mem.head /\ m.tail = k.mem.tail
        /\ m.next = k.mem.next /\ m.prev = k.mem.prev
    <3> HIDE DEF e, m
    <3> QED BY <2>1, <2>2 DEF Sound, Isolated, Memory
  <2>4. m \in Memory(ListId)
    <3> HIDE DEF e, m
    <3>1. m = [head |-> m.head, tail |-> m.tail, next |-> m.next, prev |-> m.prev]
      BY <2>2
    <3> QED BY <2>3, <3>1 DEF Sound, Isolated, Memory
  <2>5. Rotated(k, t, p) = [mem |-> m, tree |-> k.tree]
    BY DEF Rotated
  <2> HIDE DEF e, m
  <2> QED BY <2>3, <2>4, <2>5 DEF Sound, Isolated
<1> QED BY <1>1, <1>2

(* next_thread finds a thread in a sound queue.                            *)
LEMMA NextInThread ==
  ASSUME NEW k, Sound(k)
  PROVE  next_thread(k) \in Thread
<1>1. k.tree \in SUBSET Nat /\ k.tree # {}
  BY DEF Sound, Prio
<1>2. min(k.tree) \in k.tree
  BY <1>1, MinIsLeast
<1>3. ReadyList(min(k.tree)) \in ListId /\ k.mem.head[ReadyList(min(k.tree))] # NULL
  BY <1>2, ListNames DEF Sound
<1> QED BY <1>3 DEF Sound, Isolated, Memory, Pointer, next_thread, front
=============================================================================
