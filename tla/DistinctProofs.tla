--------------------------- MODULE DistinctProofs ---------------------------
(***************************************************************************)
(* Systems in which every thread has a priority of its own, of any size.   *)
(* There a ready list holds one thread at most, and the links left behind  *)
(* by erase never lead back to a thread that still runs.                   *)
(***************************************************************************)
EXTENDS PriorityProofs

Distinct == \A t, u \in Thread : InitPrio[t] = InitPrio[u] => t = u

(* s is stat.  The links of the threads that have not exited are NULL or   *)
(* lead to threads that have.                                              *)
Tidy(m, s) ==
  /\ \A t \in Thread : s[t] # "CLOSE" => m.next[t] = NULL
  /\ \A t \in Thread : m.next[t] # NULL => s[m.next[t]] = "CLOSE"
  /\ \A t \in Thread : m.prev[t] # NULL => s[m.prev[t]] = "CLOSE"
  /\ m.head[Defunct] # NULL => /\ s[m.head[Defunct]] = "CLOSE"
                               /\ m.tail[Defunct] # NULL
                               /\ s[m.tail[Defunct]] = "CLOSE"

(* The ready lists hold exactly the READY threads.                         *)
Exact(k, s) ==
  /\ \A p \in Prio : p \in k.tree <=> k.mem.head[ReadyList(p)] # NULL
  /\ \A t \in Thread : s[t] = "READY" <=> k.mem.head[ReadyList(InitPrio[t])] = t
  /\ \A p \in Prio : k.mem.head[ReadyList(p)] # NULL
                       => InitPrio[k.mem.head[ReadyList(p)]] = p

Good(k, s) == /\ k \in [mem : Memory(ListId), tree : SUBSET Prio]
              /\ s \in [Thread -> Stats]
              /\ Tidy(k.mem, s) /\ Exact(k, s)

(* insert_thread of a thread that is not READY.                            *)
LEMMA InsertGood ==
  ASSUME Distinct, NEW k, NEW s, Good(k, s), NEW t \in Thread,
         s[t] \in {"INIT", "SUSPEND"}
  PROVE  Good(insert_thread(k, t, InitPrio[t]), [s EXCEPT ![t] = "READY"])
<1> USE SchedAssumption, ListNames
<1> DEFINE p == InitPrio[t]
           m == push_back(k.mem, ReadyList(p), t)
           z == [s EXCEPT ![t] = "READY"]
<1>1. k.mem.head[ReadyList(p)] = NULL
  BY DEF Good, Exact, Distinct, Memory, Pointer
<1>2. m = [head |-> [k.mem.head EXCEPT ![ReadyList(p)] = t],
           tail |-> [k.mem.tail EXCEPT ![ReadyList(p)] = t],
           next |-> k.mem.next, prev |-> k.mem.prev]
  BY <1>1 DEF push_back, empty
<1>3. insert_thread(k, t, p) = [mem |-> m, tree |-> k.tree \cup {p}]
  BY <1>1 DEF insert_thread, empty
<1>4. z \in [Thread -> Stats] /\ z[t] = "READY" /\ \A u \in Thread \ {t} : z[u] = s[u]
  BY DEF Good, Stats
<1> HIDE DEF m, z
<1>5. m \in Memory(ListId)
  BY <1>2 DEF Good, Memory, Pointer
<1>6. Tidy(m, z)
  <2>1. /\ m.next = k.mem.next /\ m.prev = k.mem.prev
        /\ m.head[Defunct] = k.mem.head[Defunct] /\ m.tail[Defunct] = k.mem.tail[Defunct]
    BY <1>2 DEF Good, Memory
  <2>2. \A u \in Thread : s[u] = "CLOSE" <=> z[u] = "CLOSE"
    BY <1>4
  <2> QED BY <2>1, <2>2 DEF Good, Tidy, Memory, Pointer
<1>7. m.head[ReadyList(p)] = t /\ \A q \in Prio \ {p} : m.head[ReadyList(q)] = k.mem.head[ReadyList(q)]
  BY <1>2 DEF Good, Memory
<1>8. \A u \in Thread : z[u] = "READY" <=> m.head[ReadyList(InitPrio[u])] = u
  <2> TAKE u \in Thread
  <2>1. CASE u = t
    BY <1>4, <1>7, <2>1
  <2>2. CASE u # t
    <3>1. InitPrio[u] \in Prio \ {p}
      BY <2>2 DEF Distinct
    <3> QED BY <1>4, <1>7, <2>2, <3>1 DEF Good, Exact
  <2> QED BY <2>1, <2>2
<1>9. \A q \in Prio : q \in k.tree \cup {p} <=> m.head[ReadyList(q)] # NULL
  BY <1>7 DEF Good, Exact
<1>10. \A q \in Prio : m.head[ReadyList(q)] # NULL => InitPrio[m.head[ReadyList(q)]] = q
  BY <1>7 DEF Good, Exact
<1>11. Good([mem |-> m, tree |-> k.tree \cup {p}], z)
  BY <1>4, <1>5, <1>6, <1>8, <1>9, <1>10 DEF Good, Exact
<1> QED BY <1>3, <1>11 DEF z

(* The ready list of a thread holds that thread or nothing.                *)
LEMMA OwnList ==
  ASSUME Distinct, NEW k, NEW s, Good(k, s), NEW t \in Thread
  PROVE  k.mem.head[ReadyList(InitPrio[t])] = IF s[t] = "READY" THEN t ELSE NULL
BY SchedAssumption, ListNames DEF Good, Exact, Distinct, Memory, Pointer

(* remove_thread of any thread, READY or not, which is suspended or closed *)
(* with it: its ready list is empty afterwards.                            *)
LEMMA RemoveGood ==
  ASSUME Distinct, NEW k, NEW s, Good(k, s), NEW t \in Thread,
         NEW v \in {"SUSPEND", "CLOSE"}, s[t] = "CLOSE" => v = "CLOSE"
  PROVE  Good(remove_thread(k, t, InitPrio[t]), [s EXCEPT ![t] = v])
<1> USE SchedAssumption, ListNames
<1> DEFINE p == InitPrio[t]
           l == ReadyList(p)
           m == erase(k.mem, l, t)
           z == [s EXCEPT ![t] = v]
<1>1. k.mem.head[l] = IF s[t] = "READY" THEN t ELSE NULL
  BY OwnList
<1>2. z \in [Thread -> Stats] /\ z[t] = v /\ \A u \in Thread \ {t} : z[u] = s[u]
  BY DEF Good, Stats
<1>3. \A u \in Thread : s[u] = "CLOSE" => z[u] = "CLOSE"
  BY <1>2
<1>4. k.mem \in Memory(ListId) /\ Tidy(k.mem, s) /\ l \in ListId /\ l # Defunct
  BY DEF Good
<1>5. /\ m \in Memory(ListId) /\ Tidy(m, z)
      /\ m.head = [k.mem.head EXCEPT ![l] = NULL]
  <2>1. CASE k.mem.head[l] = t
    <3>1. k.mem.next[t] = NULL
      BY <1>1, <1>4, <2>1 DEF Tidy
    <3>2. m = [head |-> [k.mem.head EXCEPT ![l] = NULL], tail |-> k.mem.tail,
               next |-> k.mem.next, prev |-> k.mem.prev]
      BY <2>1, <3>1 DEF erase, Store
    <3> HIDE DEF m, z, l
    <3>3. m \in Memory(ListId) /\ m.head = [k.mem.head EXCEPT ![l] = NULL]
      BY <1>4, <3>2 DEF Memory, Pointer
    <3>4. Tidy(m, z)
      BY <1>3, <1>4, <3>2 DEF Tidy, Memory, Pointer
    <3> QED BY <3>3, <3>4
  <2>2. CASE k.mem.head[l] # t /\ k.mem.tail[l] = t
    <3>1. m = [head |-> k.mem.head, tail |-> [k.mem.tail EXCEPT ![l] = k.mem.prev[t]],
               next |-> Store(k.mem.next, k.mem.prev[t], NULL), prev |-> k.mem.prev]
      BY <2>2 DEF erase
    <3>2. k.mem.head[l] = NULL
      BY <1>1, <2>2
    <3> HIDE DEF m, z, l
    <3>3. m \in Memory(ListId) /\ m.head = [k.mem.head EXCEPT ![l] = NULL]
      BY <1>4, <3>1, <3>2 DEF Memory, Pointer, Store
    <3>4. Tidy(m, z)
      BY <1>3, <1>4, <3>1 DEF Tidy, Memory, Pointer, Store
    <3> QED BY <3>3, <3>4
  <2>3. CASE k.mem.head[l] # t /\ k.mem.tail[l] # t
    <3> DEFINE a == Store(k.mem.prev, k.mem.next[t], k.mem.prev[t])
               b == Store(k.mem.next, a[t], k.mem.next[t])
    <3>1. m = [head |-> k.mem.head, tail |-> k.mem.tail, next |-> b, prev |-> a]
      BY <2>3 DEF erase
    <3>2. k.mem.head[l] = NULL
      BY <1>1, <2>3
    <3>3. /\ a \in [Thread -> Pointer]
          /\ \A u \in Thread : a[u] # NULL => s[a[u]] = "CLOSE"
      BY <1>4 DEF Tidy, Memory, Pointer, Store
    <3> HIDE DEF a
    <3>4. /\ b \in [Thread -> Pointer]
          /\ \A u \in Thread : b[u] # NULL => s[b[u]] = "CLOSE"
          /\ \A u \in Thread : s[u] # "CLOSE" => b[u] = NULL
      BY <1>4, <3>3 DEF Tidy, Memory, Pointer, Store
    <3> HIDE DEF b, m, z, l
    <3>5. m \in Memory(ListId) /\ m.head = [k.mem.head EXCEPT ![l] = NULL]
      BY <1>4, <3>1, <3>2, <3>3, <3>4 DEF Memory, Pointer
    <3>6. Tidy(m, z)
      BY <1>3, <1>4, <3>1, <3>3, <3>4 DEF Tidy, Memory, Pointer
    <3> QED BY <3>5, <3>6
  <2> QED BY <2>1, <2>2, <2>3
<1>6. m.head[l] = NULL /\ \A q \in Prio \ {p} : m.head[ReadyList(q)] = k.mem.head[ReadyList(q)]
  <2> HIDE DEF m
  <2> QED BY <1>4, <1>5 DEF Memory
<1>7. remove_thread(k, t, p) = [mem |-> m, tree |-> k.tree \ {p}]
  BY <1>6 DEF remove_thread, empty
<1> HIDE DEF m, z
<1>8. \A u \in Thread : z[u] = "READY" <=> m.head[ReadyList(InitPrio[u])] = u
  <2> TAKE u \in Thread
  <2>1. CASE u = t
    BY <1>2, <1>6, <2>1
  <2>2. CASE u # t
    <3>1. InitPrio[u] \in Prio \ {p}
      BY <2>2 DEF Distinct
    <3> QED BY <1>2, <1>6, <2>2, <3>1 DEF Good, Exact
  <2> QED BY <2>1, <2>2
<1>9. \A q \in Prio : q \in k.tree \ {p} <=> m.head[ReadyList(q)] # NULL
  BY <1>6 DEF Good, Exact
<1>10. \A q \in Prio : m.head[ReadyList(q)] # NULL => InitPrio[m.head[ReadyList(q)]] = q
  BY <1>6 DEF Good, Exact
<1>11. Good([mem |-> m, tree |-> k.tree \ {p}], z)
  BY <1>2, <1>5, <1>8, <1>9, <1>10 DEF Good, Exact
<1> QED BY <1>7, <1>11 DEF z

(* The defunct list: a closed thread is put at its end, and taken from its *)
(* front.                                                                  *)
LEMMA DefunctGood ==
  ASSUME NEW k, NEW s, Good(k, s), NEW t \in Thread, s[t] = "CLOSE"
  PROVE  /\ Good(insert_defunct_thread(k, t), s)
         /\ front(k.mem, Defunct) = t => Good(remove_defunct_thread(k, t), s)
<1> USE SchedAssumption, ListNames
<1>1. k.mem \in Memory(ListId) /\ Tidy(k.mem, s)
  BY DEF Good
<1>2. ASSUME NEW m \in Memory(ListId), Tidy(m, s),
             \A x \in ListId \ {Defunct} : m.head[x] = k.mem.head[x]
      PROVE  Good([mem |-> m, tree |-> k.tree], s)
  BY <1>2 DEF Good, Exact
<1>3. Good(insert_defunct_thread(k, t), s)
  <2> DEFINE m == push_back(k.mem, Defunct, t)
             e == k.mem.tail[Defunct]
  <2>1. CASE k.mem.head[Defunct] = NULL
    <3>1. m = [head |-> [k.mem.head EXCEPT ![Defunct] = t],
               tail |-> [k.mem.tail EXCEPT ![Defunct] = t],
               next |-> k.mem.next, prev |-> k.mem.prev]
      BY <2>1 DEF push_back, empty
    <3> HIDE DEF m
    <3>2. m \in Memory(ListId) /\ \A x \in ListId \ {Defunct} : m.head[x] = k.mem.head[x]
      BY <1>1, <3>1 DEF Memory, Pointer
    <3>3. Tidy(m, s)
      BY <1>1, <3>1 DEF Tidy, Memory, Pointer
    <3> QED BY <1>2, <3>2, <3>3 DEF insert_defunct_thread, m
  <2>2. CASE k.mem.head[Defunct] # NULL /\ e = t
    <3>1. m = k.mem
      BY <2>2 DEF push_back, empty
    <3> HIDE DEF m
    <3> QED BY <1>1, <1>2, <3>1 DEF insert_defunct_thread, m
  <2>3. CASE k.mem.head[Defunct] # NULL /\ e # t
    <3>1. e \in Thread /\ s[e] = "CLOSE"
      BY <1>1, <2>3 DEF Tidy, Memory, Pointer
    <3>2. m = [head |-> k.mem.head, tail |-> [k.mem.tail EXCEPT ![Defunct] = t],
               next |-> [[k.mem.next EXCEPT ![e] = t] EXCEPT ![t] = NULL],
               prev |-> [k.mem.prev EXCEPT ![t] = e]]
      BY <2>3, <3>1 DEF push_back, empty, Store
    <3> HIDE DEF m, e
    <3>3. m \in Memory(ListId) /\ \A x \in ListId \ {Defunct} : m.head[x] = k.mem.head[x]
      BY <1>1, <3>1, <3>2 DEF Memory, Pointer
    <3>4. Tidy(m, s)
      BY <1>1, <3>1, <3>2 DEF Tidy, Memory, Pointer
    <3> QED BY <1>2, <3>3, <3>4 DEF insert_defunct_thread, m
  <2> QED BY <2>1, <2>2, <2>3
<1>4. ASSUME front(k.mem, Defunct) = t PROVE Good(remove_defunct_thread(k, t), s)
  <2> DEFINE m == erase(k.mem, Defunct, t)
  <2>1. m = [head |-> [k.mem.head EXCEPT ![Defunct] = k.mem.next[t]], tail |-> k.mem.tail,
             next |-> k.mem.next, prev |-> Store(k.mem.prev, k.mem.next[t], NULL)]
    BY <1>4 DEF erase, front
  <2> HIDE DEF m
  <2>2. m \in Memory(ListId) /\ \A x \in ListId \ {Defunct} : m.head[x] = k.mem.head[x]
    BY <1>1, <2>1 DEF Memory, Pointer, Store
  <2>3. Tidy(m, s)
    BY <1>1, <1>4, <2>1 DEF Tidy, Memory, Pointer, Store, front
  <2> QED BY <1>2, <2>2, <2>3 DEF remove_defunct_thread, m
<1> QED BY <1>3, <1>4

(* The rotation of a ready list of one thread changes nothing that is read.*)
LEMMA RotateGood ==
  ASSUME Distinct, NEW k, NEW s, Good(k, s), NEW t \in Thread, s[t] = "READY"
  PROVE  Good(Rotated(k, t, InitPrio[t]), s)
<1> USE SchedAssumption, ListNames
<1> DEFINE l == ReadyList(InitPrio[t])
           e == erase(k.mem, l, t)
           m == push_back(e, l, t)
<1>1. k.mem.head[l] = t /\ k.mem.next[t] = NULL
  BY OwnList DEF Good, Tidy
<1>2. k.mem \in Memory(ListId) /\ Tidy(k.mem, s) /\ l \in ListId /\ l # Defunct
  BY DEF Good
<1>3. e = [head |-> [k.mem.head EXCEPT ![l] = NULL], tail |-> k.mem.tail,
           next |-> k.mem.next, prev |-> k.mem.prev]
  BY <1>1 DEF erase, Store
<1>4. m = [head |-> [e.head EXCEPT ![l] = t], tail |-> [e.tail EXCEPT ![l] = t],
           next |-> e.next, prev |-> e.prev]
  <2>1. e.head[l] = NULL
    BY <1>2, <1>3 DEF Memory
  <2> HIDE DEF e
  <2> QED BY <2>1 DEF push_back, empty
<1> HIDE DEF e, m, l
<1>5. m.head = k.mem.head /\ m.next = k.mem.next /\ m.prev = k.mem.prev
  BY <1>1, <1>2, <1>3, <1>4 DEF Memory
<1>6. m.tail = [k.mem.tail EXCEPT ![l] = t]
  BY <1>3, <1>4
<1>7. m \in Memory(ListId)
  <2>1. m = [head |-> m.head, tail |-> m.tail, next |-> m.next, prev |-> m.prev]
    BY <1>4
  <2> QED BY <1>2, <1>5, <1>6, <2>1 DEF Memory, Pointer
<1>8. Tidy(m, s)
  BY <1>2, <1>5, <1>6 DEF Tidy, Memory
<1>9. Good([mem |-> m, tree |-> k.tree], s)
  BY <1>5, <1>7, <1>8 DEF Good, Exact
<1> QED BY <1>9 DEF Rotated, m, e, l

(* next_thread returns the most urgent READY thread.                       *)
LEMMA NextMostUrgent ==
  ASSUME NEW k, NEW s, Sound(k), Good(k, s)
  PROVE  /\ next_thread(k) \in Thread /\ s[next_thread(k)] = "READY"
         /\ \A t \in Thread : s[t] = "READY" => InitPrio[next_thread(k)] <= InitPrio[t]
<1> USE SchedAssumption, ListNames
<1>1. k.tree \in SUBSET Nat /\ k.tree # {} /\ k.tree \subseteq Prio
  BY DEF Sound, Prio
<1>2. min(k.tree) \in k.tree /\ \A q \in k.tree : min(k.tree) <= q
  BY <1>1, MinIsLeast
<1>3. next_thread(k) \in Thread
  BY NextInThread
<1>4. InitPrio[next_thread(k)] = min(k.tree)
  BY <1>1, <1>2, <1>3 DEF Good, Exact, next_thread, front
<1>5. s[next_thread(k)] = "READY"
  BY <1>3, <1>4 DEF Good, Exact, next_thread, front
<1>6. ASSUME NEW t \in Thread, s[t] = "READY" PROVE InitPrio[t] \in k.tree
  BY <1>6 DEF Good, Exact
<1> QED BY <1>2, <1>3, <1>4, <1>5, <1>6

(* The invariant of these systems.  The last conjunct is FreedIsDead with  *)
(* the reason it stays true.                                               *)
DistinctInv ==
  /\ UrgentInv
  /\ prio = InitPrio
  /\ Good(rq, stat)
  /\ \A t \in Thread : stat[t] = "CLOSE" => pc[t] \in {"exit", "dead"}
  /\ \A t \in freed : stat[t] = "CLOSE" /\ current # t

LEMMA InitDistinctInv ==
  ASSUME Distinct, Controllers = {}, Init
  PROVE  DistinctInv
<1> USE SchedAssumption, ListNames
<1>1. UrgentInv
  BY UrgentInvariant
<1>2. Good(rq, stat)
  <2> DEFINE n == [mem |-> NewMemory(ListId), tree |-> {}]
             s0 == [t \in Thread |-> "INIT"]
             s1 == [s0 EXCEPT ![Root] = "READY"]
  <2>1. Good(n, s0)
    <3>1. n.mem \in Memory(ListId)
      BY DEF NewMemory, Memory, Pointer
    <3>2. Tidy(n.mem, s0) /\ Exact(n, s0)
      BY DEF NewMemory, Tidy, Exact
    <3> QED BY <3>1, <3>2 DEF Good, Stats
  <2> HIDE DEF n
  <2>2. Good(insert_thread(n, Root, InitPrio[Root]), s1)
    BY <2>1, InsertGood
  <2>3. s1[Idle] = "INIT"
    OBVIOUS
  <2>4. Good(Boot, [s1 EXCEPT ![Idle] = "READY"])
    <3> HIDE DEF s1
    <3> QED BY <2>2, <2>3, InsertGood DEF Boot, n
  <2>5. stat = [s1 EXCEPT ![Idle] = "READY"]
    BY DEF Init
  <2> QED BY <2>4, <2>5 DEF Init
<1> QED BY <1>1, <1>2 DEF DistinctInv, Init

(* What a step must show, besides UrgentInv'.                              *)
ClosedDead == \A t \in Thread : stat[t] = "CLOSE" => pc[t] \in {"exit", "dead"}
FreedClosed == \A t \in freed : stat[t] = "CLOSE" /\ current # t

LEMMA StepDistinctInv ==
  ASSUME Distinct, Controllers = {}, DistinctInv, [Next]_vars
  PROVE  DistinctInv'
<1> USE SchedAssumption DEF At, Goto, tcb
<1>0. /\ QueueInv /\ NoControl /\ Sound(rq) /\ TypeOK /\ Good(rq, stat)
      /\ prio = InitPrio /\ ClosedDead /\ FreedClosed /\ stat[Idle] = "READY"
  BY DEF DistinctInv, UrgentInv, QueueInv, ClosedDead, FreedClosed
<1>1. UrgentInv'
  BY UrgentInvariant DEF DistinctInv
<1>2. Sound(rq')
  BY <1>1 DEF UrgentInv, QueueInv
<1>3. SUFFICES prio' = InitPrio /\ Good(rq', stat') /\ ClosedDead' /\ FreedClosed'
  BY <1>1 DEF DistinctInv, ClosedDead, FreedClosed
<1>4. ASSUME Good(rq', stat'), process(rq'), freed' = freed,
             \A t \in Thread : stat[t] = "CLOSE" => stat'[t] = "CLOSE"
      PROVE  FreedClosed'
  <2>1. freed \subseteq Thread
    BY <1>0 DEF TypeOK
  <2>2. stat'[next_thread(rq')] = "READY"
    BY <1>2, <1>4, NextMostUrgent
  <2>3. \A t \in freed : stat'[t] = "CLOSE"
    BY <1>0, <1>4, <2>1 DEF FreedClosed
  <2>4. \A t \in freed : current' # t
    BY <1>0, <1>4, <2>2, <2>3 DEF FreedClosed, process
  <2> QED BY <1>4, <2>3, <2>4 DEF FreedClosed
<1>5. ASSUME NEW t \in Thread, Return(t)
      PROVE  prio' = InitPrio /\ Good(rq', stat') /\ ClosedDead' /\ FreedClosed'
  <2>1. CASE Schedule(t)
    <3>1. prio' = InitPrio /\ Good(rq', stat') /\ rq' = rq /\ stat' = stat /\ freed' = freed
      BY <1>0, <2>1 DEF Schedule
    <3>2. FreedClosed'
      BY <1>4, <2>1, <3>1 DEF Schedule
    <3>3. pc[t] \in {"exit", "dead"} => After[pc[t]] \in {"exit", "dead"}
      BY <2>1 DEF Schedule, After
    <3>4. ClosedDead'
      BY <1>0, <2>1, <3>3 DEF Schedule, ClosedDead, TypeOK
    <3> QED BY <3>1, <3>2, <3>4
  <2>2. CASE slept(t)
    <3>1. ClosedDead'
      BY <1>0, <2>2 DEF slept, ClosedDead, TypeOK
    <3> QED BY <1>0, <2>2, <3>1 DEF slept, FreedClosed
  <2> QED BY <1>0, <1>5, <2>1, <2>2 DEF Return, NoControl, resume_stop, resume_insert,
                                        suspend_remove
<1>6. ASSUME NEW x \in Thread \ {Root}, startup(Root, x)
      PROVE  prio' = InitPrio /\ Good(rq', stat') /\ ClosedDead' /\ FreedClosed'
  <2>1. stat[x] = "INIT" /\ rq' = insert_thread(rq, x, InitPrio[x])
        /\ stat' = [stat EXCEPT ![x] = "READY"]
    BY <1>6 DEF startup
  <2>2. Good(rq', stat')
    BY <1>0, <2>1, InsertGood
  <2>3. prio' = InitPrio
    BY <1>0, <1>6 DEF startup
  <2>4. \A t \in Thread : stat'[t] = "CLOSE" <=> stat[t] = "CLOSE"
    BY <1>0, <2>1 DEF TypeOK
  <2>5. ClosedDead'
    BY <1>0, <1>6, <2>4 DEF startup, ClosedDead, TypeOK
  <2>6. FreedClosed'
    BY <1>0, <1>6, <2>4 DEF startup, FreedClosed, TypeOK
  <2> QED BY <2>2, <2>3, <2>5, <2>6
<1>7. ASSUME NEW t \in Sleepers, NEW time \in 0..MaxTime, sleep(t, time)
      PROVE  prio' = InitPrio /\ Good(rq', stat') /\ ClosedDead' /\ FreedClosed'
  <2>1. Good(rq', stat')
    <3>1. CASE stat[t] = "READY"
      <4>1. rq' = remove_thread(rq, t, InitPrio[t]) /\ stat' = [stat EXCEPT ![t] = "SUSPEND"]
        BY <1>0, <1>7, <3>1 DEF sleep, suspended, SuspendStat
      <4> QED BY <1>0, <3>1, <4>1, RemoveGood
    <3>2. CASE stat[t] # "READY"
      <4>1. rq' = rq /\ stat' = [stat EXCEPT ![t] = stat[t]]
        BY <1>7, <3>2 DEF sleep, suspended, SuspendStat
      <4>2. stat' = stat
        BY <1>0, <4>1 DEF TypeOK
      <4> QED BY <1>0, <4>1, <4>2
    <3> QED BY <3>1, <3>2
  <2>2. \A u \in Thread : stat'[u] = "CLOSE" <=> stat[u] = "CLOSE"
    BY <1>0, <1>7 DEF sleep, SuspendStat, TypeOK
  <2>3. ClosedDead'
    BY <1>0, <1>7, <2>2 DEF sleep, ClosedDead, TypeOK
  <2>4. FreedClosed'
    BY <1>0, <1>7, <2>2 DEF sleep, FreedClosed, TypeOK
  <2> QED BY <1>0, <1>7, <2>1, <2>3, <2>4 DEF sleep
<1>8. ASSUME NEW t \in Exiters, exit(t)
      PROVE  prio' = InitPrio /\ Good(rq', stat') /\ ClosedDead' /\ FreedClosed'
  <2> DEFINE z == [stat EXCEPT ![t] = "CLOSE"]
             k == remove_thread(rq, t, InitPrio[t])
             w == remove_thread(k, t, InitPrio[t])
  <2>1. Good(k, z)
    BY <1>0, RemoveGood
  <2>2. z[t] = "CLOSE" /\ [z EXCEPT ![t] = "CLOSE"] = z
    BY <1>0 DEF TypeOK
  <2>3. Good(w, z)
    <3> HIDE DEF k, z
    <3>1. Good(w, [z EXCEPT ![t] = "CLOSE"])
      BY <2>1, RemoveGood
    <3> QED BY <2>2, <3>1
  <2>4. rq' = insert_defunct_thread(w, t) /\ stat' = z
    BY <1>0, <1>8 DEF exit
  <2>5. Good(rq', stat')
    <3> HIDE DEF w, z
    <3> QED BY <2>2, <2>3, <2>4, DefunctGood
  <2>6. ClosedDead'
    BY <1>0, <1>8 DEF exit, ClosedDead, TypeOK
  <2>7. FreedClosed'
    BY <1>0, <1>8 DEF exit, FreedClosed, TypeOK
  <2> QED BY <1>0, <1>8, <2>5, <2>6, <2>7 DEF exit
<1>9. ASSUME NEW t \in Lockers, enter_critical(t) \/ exit_critical(t)
      PROVE  prio' = InitPrio /\ Good(rq', stat') /\ ClosedDead' /\ FreedClosed'
  <2>1. ClosedDead'
    BY <1>0, <1>9 DEF enter_critical, exit_critical, ClosedDead, TypeOK
  <2> QED BY <1>0, <1>9, <2>1 DEF enter_critical, exit_critical, FreedClosed
<1>10. ASSUME reap
       PROVE  prio' = InitPrio /\ Good(rq', stat') /\ ClosedDead' /\ FreedClosed'
  <2> DEFINE t == front(rq.mem, Defunct)
             k == remove_defunct_thread(rq, t)
  <2>1. t \in Thread /\ stat[t] = "CLOSE"
    BY <1>0, <1>10, ListNames DEF reap, empty, front, Good, Tidy, Memory, Pointer
  <2>2. /\ rq' = remove_thread(k, t, InitPrio[t])
        /\ stat' = [stat EXCEPT ![t] = "CLOSE"] /\ freed' = freed \cup {t}
        /\ prio' = prio /\ pc' = pc /\ current' = current /\ current = Idle
    BY <1>0, <1>10 DEF reap
  <2>3. Good(k, stat)
    BY <1>0, <2>1, DefunctGood
  <2> HIDE DEF t, k
  <2>4. Good(rq', stat')
    BY <2>1, <2>2, <2>3, RemoveGood
  <2>5. stat' = stat
    BY <1>0, <2>1, <2>2 DEF TypeOK
  <2>6. ClosedDead' /\ FreedClosed'
    BY <1>0, <2>1, <2>2, <2>5 DEF ClosedDead, FreedClosed
  <2> QED BY <1>0, <2>2, <2>4, <2>6
<1>11. ASSUME Interrupt
       PROVE  prio' = InitPrio /\ Good(rq', stat') /\ ClosedDead' /\ FreedClosed'
  <2>1. CASE tick_increase
    <3>1. stat' = stat /\ prio' = prio /\ pc' = pc /\ freed' = freed
      BY <2>1 DEF tick_increase
    <3>2. CASE remaining[current] = 1 /\ stat[current] = "READY"
      <4>1. rq' = Rotated(rq, current, InitPrio[current]) /\ process(rq')
        BY <1>0, <2>1, <3>2 DEF tick_increase, inclock, Rotated
      <4>2. current \in Thread
        BY <1>0 DEF TypeOK
      <4>3. Good(rq', stat')
        BY <1>0, <3>1, <3>2, <4>1, <4>2, RotateGood
      <4>4. FreedClosed'
        BY <1>4, <3>1, <4>1, <4>3
      <4> QED BY <1>0, <3>1, <4>3, <4>4 DEF ClosedDead
    <3>3. CASE ~ (remaining[current] = 1 /\ stat[current] = "READY")
      <4>1. rq' = rq /\ current' = current
        BY <2>1, <3>3 DEF tick_increase, inclock
      <4> QED BY <1>0, <3>1, <4>1 DEF ClosedDead, FreedClosed
    <3> QED BY <3>2, <3>3
  <2>2. ASSUME NEW t \in Thread, timeout(t)
        PROVE  prio' = InitPrio /\ Good(rq', stat') /\ ClosedDead' /\ FreedClosed'
    <3>1. /\ stat[t] = "SUSPEND" /\ rq' = insert_thread(rq, t, InitPrio[t])
          /\ stat' = [stat EXCEPT ![t] = "READY"] /\ process(rq')
          /\ prio' = prio /\ pc' = pc /\ freed' = freed
      BY <1>0, <2>2 DEF timeout
    <3>2. Good(rq', stat')
      BY <1>0, <3>1, InsertGood
    <3>3. \A u \in Thread : stat'[u] = "CLOSE" <=> stat[u] = "CLOSE"
      BY <1>0, <3>1 DEF TypeOK
    <3>4. FreedClosed'
      BY <1>4, <3>1, <3>2, <3>3
    <3>5. ClosedDead'
      BY <1>0, <3>1, <3>3 DEF ClosedDead
    <3> QED BY <1>0, <3>1, <3>2, <3>4, <3>5
  <2>3. CASE check_leave
    BY <1>0, <2>3 DEF check_leave, ClosedDead, FreedClosed
  <2> QED BY <1>11, <2>1, <2>2, <2>3 DEF Interrupt
<1>12. CASE UNCHANGED vars
  BY <1>0, <1>12 DEF vars, ClosedDead, FreedClosed
<1> QED BY <1>5, <1>6, <1>7, <1>8, <1>9, <1>10, <1>11, <1>12 DEF Next

(* With a priority per thread, process() does what its comment says: the   *)
(* CPU runs the most urgent of all READY threads.                          *)
THEOREM MostUrgentAlwaysRuns ==
  ASSUME Distinct, Controllers = {}
  PROVE  Spec => []MostUrgentRuns
<1>1. Init => DistinctInv
  BY InitDistinctInv
<1>2. DistinctInv /\ [Next]_vars => DistinctInv'
  BY StepDistinctInv
<1>3. DistinctInv => MostUrgentRuns
  <2> SUFFICES ASSUME DistinctInv, lock_nest = 0, pc[current] \notin DOMAIN After
               PROVE  /\ stat[current] = "READY"
                      /\ \A t \in Thread : stat[t] = "READY" => prio[current] <= prio[t]
    BY DEF MostUrgentRuns
  <2>1. current = next_thread(rq) /\ Sound(rq) /\ Good(rq, stat) /\ prio = InitPrio
    BY DEF DistinctInv, UrgentInv, QueueInv, HighestRuns
  <2> QED BY <2>1, NextMostUrgent
<1> QED BY <1>1, <1>2, <1>3, PTL DEF Spec

(* With a priority per thread, idle deletes only threads that exited, and  *)
(* a deleted thread never gets the CPU again.                              *)
THEOREM FreedAlwaysDead ==
  ASSUME Distinct, Controllers = {}
  PROVE  Spec => []FreedIsDead
<1>1. Init => DistinctInv
  BY InitDistinctInv
<1>2. DistinctInv /\ [Next]_vars => DistinctInv'
  BY StepDistinctInv
<1>3. DistinctInv => FreedIsDead
  BY DEF DistinctInv, UrgentInv, QueueInv, TypeOK, FreedIsDead
<1> QED BY <1>1, <1>2, <1>3, PTL DEF Spec
=============================================================================
