---------------------------- MODULE SchedProofs ----------------------------
(***************************************************************************)
(* Theorems about Sched, for any number of threads and priorities.         *)
(***************************************************************************)
EXTENDS QueueProofs

(* The strengthening of TypeOK and NextThreadExists that every step keeps: *)
(* besides, only idle has idle's priority, idle is READY, and nobody       *)
(* suspends or resumes it.                                                 *)
QueueInv ==
  /\ TypeOK
  /\ Sound(rq)
  /\ \A t \in Thread : prio[t] = IdlePrio <=> t = Idle
  /\ stat[Idle] = "READY"
  /\ \A t \in Thread : pc[t] \in {"stop", "insert", "suspend"} => arg[t] # Idle

(* main() hands a sound queue to Scheduler::start().                       *)
LEMMA BootSound == Sound(Boot)
<1> USE SchedAssumption, ListNames
<1> DEFINE p == InitPrio[Root]
           n == NewMemory(ListId)
           m == push_back(n, ReadyList(p), Root)
           w == push_back(m, IdleList, Idle)
<1>1. p \in Prio \ {IdlePrio} /\ InitPrio[Idle] = IdlePrio
  BY DEF IdlePrio
<1>2. m = [head |-> [n.head EXCEPT ![ReadyList(p)] = Root],
           tail |-> [n.tail EXCEPT ![ReadyList(p)] = Root],
           next |-> n.next, prev |-> n.prev]
  BY <1>1 DEF push_back, empty, NewMemory
<1>3. insert_thread([mem |-> n, tree |-> {}], Root, p) = [mem |-> m, tree |-> {p}]
  BY <1>1 DEF insert_thread, empty, NewMemory
<1>4. m.head[IdleList] = NULL
  BY <1>1, <1>2 DEF NewMemory, IdleList
<1>5. w = [head |-> [m.head EXCEPT ![IdleList] = Idle],
           tail |-> [m.tail EXCEPT ![IdleList] = Idle],
           next |-> m.next, prev |-> m.prev]
  <2> HIDE DEF m
  <2> QED BY <1>4 DEF push_back, empty
<1>6. Boot = [mem |-> w, tree |-> {p} \cup {IdlePrio}]
  <2> HIDE DEF m
  <2> QED BY <1>1, <1>3, <1>4 DEF Boot, insert_thread, empty, IdleList
<1>7. m \in Memory(ListId)
  <2>1. n \in Memory(ListId)
    BY DEF NewMemory, Memory, Pointer
  <2> HIDE DEF n, m
  <2> QED BY <1>1, <1>2, <2>1 DEF Memory, Pointer
<1>8. w \in Memory(ListId)
  <2> HIDE DEF m, w
  <2> QED BY <1>5, <1>7 DEF Memory, Pointer
<1>9. Isolated(w)
  <2>1. /\ \A l \in ListId \ {IdleList} : m.head[l] # Idle /\ m.tail[l] # Idle
        /\ \A x \in Thread : m.next[x] = NULL /\ m.prev[x] = NULL
    <3> HIDE DEF m
    <3> QED BY <1>1, <1>2 DEF NewMemory
  <2> HIDE DEF m, w
  <2> QED BY <1>5, <1>7, <1>8, <2>1 DEF Isolated, Memory
<1>10. w.head[ReadyList(p)] # NULL /\ w.head[ReadyList(IdlePrio)] # NULL
  <2>1. m.head[ReadyList(p)] = Root
    <3> HIDE DEF m
    <3> QED BY <1>1, <1>2 DEF NewMemory
  <2> HIDE DEF m, w
  <2> QED BY <1>1, <1>5, <1>7, <2>1 DEF Memory, IdleList
<1> HIDE DEF w
<1> QED BY <1>1, <1>6, <1>8, <1>9, <1>10 DEF Sound

LEMMA InitQueueInv == Init => QueueInv
<1> SUFFICES ASSUME Init PROVE QueueInv
  OBVIOUS
<1> USE SchedAssumption DEF Init
<1>1. Sound(rq)
  BY BootSound
<1>2. current \in Thread
  BY BootSound, NextInThread
<1>3. stat \in [Thread -> Stats] /\ pc \in [Thread -> Labels]
  BY DEF Stats, Labels
<1>4. /\ prio \in [Thread -> Prio] /\ remaining \in [Thread -> Nat \ {0}]
      /\ arg \in [Thread -> Thread]
  OBVIOUS
<1>5. timer \in [Thread -> Off..MaxTime] /\ lock_nest \in 0..MaxNest
  BY DEF Off
<1>6. error \in [Thread -> {"OK", "TIMEOUT", "ERROR"}]
  OBVIOUS
<1>7. TypeOK
  BY <1>1, <1>2, <1>3, <1>4, <1>5, <1>6 DEF TypeOK, Sound
<1>8. \A t \in Thread : prio[t] = IdlePrio <=> t = Idle
  BY DEF IdlePrio
<1> QED BY <1>1, <1>7, <1>8 DEF QueueInv

(* A thread other than idle has another priority than idle's.              *)
LEMMA NotIdlePrio ==
  ASSUME QueueInv, NEW t \in Thread \ {Idle}
  PROVE  prio[t] \in Prio \ {IdlePrio}
BY DEF QueueInv, TypeOK

(* The part of QueueInv that is not about the lists.                       *)
Rest == /\ stat \in [Thread -> Stats]
        /\ prio \in [Thread -> Prio]
        /\ remaining \in [Thread -> Nat \ {0}]
        /\ error \in [Thread -> {"OK", "TIMEOUT", "ERROR"}]
        /\ timer \in [Thread -> Off..MaxTime]
        /\ lock_nest \in 0..MaxNest
        /\ pc \in [Thread -> Labels]
        /\ arg \in [Thread -> Thread]
        /\ isr \in BOOLEAN
        /\ freed \subseteq Thread
        /\ \A t \in Thread : prio[t] = IdlePrio <=> t = Idle
        /\ stat[Idle] = "READY"
        /\ \A t \in Thread : pc[t] \in {"stop", "insert", "suspend"} => arg[t] # Idle

LEMMA QueueInvParts == QueueInv => Rest /\ Sound(rq) /\ current \in Thread
BY DEF QueueInv, Rest, TypeOK

LEMMA QueueInvNext == Rest' /\ Sound(rq') /\ current' \in Thread => QueueInv'
BY DEF QueueInv, Rest, TypeOK, Sound

(* The steps a thread takes to finish a call.                              *)
LEMMA ReturnInv ==
  ASSUME QueueInv, NEW t \in Thread, Return(t)
  PROVE  QueueInv'
<1> USE SchedAssumption, QueueInvParts, QueueInvNext DEF At, Goto, tcb
<1>0. Rest /\ Sound(rq) /\ current \in Thread
  OBVIOUS
<1>1. CASE Schedule(t)
  <2>1. rq' = rq /\ current' \in Thread
    BY <1>0, <1>1, NextInThread DEF Schedule, process
  <2>2. After[pc[t]] \in Labels \ {"stop", "insert", "suspend"}
    BY <1>1 DEF Schedule, After, Labels
  <2>3. Rest'
    BY <1>0, <1>1, <2>2 DEF Schedule, Rest
  <2> QED BY <1>0, <2>1, <2>3
<1>2. CASE slept(t)
  <2>1. Rest'
    BY <1>0, <1>2 DEF slept, Rest, Labels
  <2> QED BY <1>0, <1>2, <2>1 DEF slept
<1>3. CASE resume_stop(t)
  <2>1. Rest'
    BY <1>0, <1>3 DEF resume_stop, Rest, Labels, Off
  <2> QED BY <1>0, <1>3, <2>1 DEF resume_stop
<1>4. CASE resume_insert(t)
  <2>1. arg[t] \in Thread \ {Idle}
    BY <1>0, <1>4 DEF resume_insert, Rest
  <2>2. Sound(rq')
    BY <1>0, <1>4, <2>1, InsertSound, NotIdlePrio DEF resume_insert
  <2>3. Rest'
    BY <1>0, <1>4, <2>1 DEF resume_insert, Rest, Labels, Stats
  <2> QED BY <1>0, <1>4, <2>2, <2>3 DEF resume_insert
<1>5. CASE suspend_remove(t)
  <2>1. arg[t] \in Thread \ {Idle}
    BY <1>0, <1>5 DEF suspend_remove, Rest
  <2>2. Sound(rq')
    BY <1>0, <1>5, <2>1, RemoveSound, NotIdlePrio DEF suspend_remove
  <2>3. Rest'
    BY <1>0, <1>5, <2>1 DEF suspend_remove, Rest, Labels, Stats, Off
  <2> QED BY <1>0, <1>5, <2>2, <2>3 DEF suspend_remove
<1> QED BY <1>1, <1>2, <1>3, <1>4, <1>5 DEF Return

(* The calls a thread makes.                                               *)
LEMMA CallInv ==
  ASSUME QueueInv,
         \/ \E x \in Thread \ {Root} : startup(Root, x)
         \/ \E t \in Sleepers, time \in 0..MaxTime : sleep(t, time)
         \/ \E t \in Exiters : exit(t)
         \/ \E t \in Lockers : enter_critical(t) \/ exit_critical(t)
         \/ \E t \in Controllers : Control(t)
         \/ reap
  PROVE  QueueInv'
<1> USE SchedAssumption, QueueInvParts, QueueInvNext DEF At, Goto, tcb
<1>0. Rest /\ Sound(rq) /\ current \in Thread
  OBVIOUS
<1>1. ASSUME NEW x \in Thread \ {Root}, startup(Root, x) PROVE QueueInv'
  <2>1. x \in Thread \ {Idle}
    BY <1>0, <1>1 DEF startup, Rest
  <2>2. InitPrio[x] \in Prio \ {IdlePrio}
    BY <2>1 DEF IdlePrio
  <2>3. Sound(rq')
    BY <1>0, <1>1, <2>1, <2>2, InsertSound DEF startup
  <2>4. Rest'
    BY <1>0, <1>1, <2>1, <2>2 DEF startup, Rest, Labels, Stats
  <2> QED BY <1>0, <1>1, <2>3, <2>4 DEF startup
<1>2. ASSUME NEW t \in Sleepers, NEW time \in 0..MaxTime, sleep(t, time) PROVE QueueInv'
  <2>1. t \in Thread \ {Idle}
    OBVIOUS
  <2>2. Sound(rq')
    BY <1>0, <1>2, <2>1, RemoveSound, NotIdlePrio DEF sleep, suspended
  <2>3. timer' \in [Thread -> Off..MaxTime]
    BY <1>0, <1>2, <2>1 DEF sleep, Rest, Off
  <2>4. Rest'
    BY <1>0, <1>2, <2>1, <2>3 DEF sleep, SuspendStat, Rest, Labels, Stats
  <2> QED BY <1>0, <1>2, <2>2, <2>4 DEF sleep
<1>3. ASSUME NEW t \in Exiters, exit(t) PROVE QueueInv'
  <2>1. t \in Thread \ {Idle} /\ prio[t] \in Prio \ {IdlePrio}
    BY NotIdlePrio
  <2>2. Sound(remove_thread(rq, t, prio[t]))
    BY <1>0, <2>1, RemoveSound
  <2>3. Sound(remove_thread(remove_thread(rq, t, prio[t]), t, prio[t]))
    BY <2>1, <2>2, RemoveSound
  <2>4. Sound(rq')
    BY <1>3, <2>1, <2>3, DefunctSound DEF exit
  <2>5. Rest'
    BY <1>0, <1>3, <2>1 DEF exit, Rest, Labels, Stats, Off
  <2> QED BY <1>0, <1>3, <2>4, <2>5 DEF exit
<1>4. ASSUME NEW t \in Lockers, enter_critical(t) \/ exit_critical(t) PROVE QueueInv'
  <2>1. lock_nest' \in 0..MaxNest
    BY <1>0, <1>4 DEF enter_critical, exit_critical, Rest
  <2>2. Rest'
    BY <1>0, <1>4, <2>1 DEF enter_critical, exit_critical, Rest, Labels
  <2> QED BY <1>0, <1>4, <2>2 DEF enter_critical, exit_critical
<1>5. ASSUME NEW t \in Controllers, Control(t) PROVE QueueInv'
  <2>1. PICK x \in Thread \ {Idle} :
           \/ resume(t, x) \/ suspend(t, x)
           \/ \E p \in Prio \ {PrioMax - 1} : change_priority(t, x, p)
    BY <1>5 DEF Control, Live
  <2>2. CASE resume(t, x)
    <3>1. Rest'
      BY <1>0, <2>2 DEF resume, Rest, Labels
    <3> QED BY <1>0, <2>2, <3>1 DEF resume
  <2>3. CASE suspend(t, x)
    <3>1. Rest'
      BY <1>0, <2>3 DEF suspend, Rest, Labels
    <3> QED BY <1>0, <2>3, <3>1 DEF suspend
  <2>4. ASSUME NEW p \in Prio \ {PrioMax - 1}, change_priority(t, x, p) PROVE QueueInv'
    <3>1. p \in Prio \ {IdlePrio} /\ prio[x] \in Prio \ {IdlePrio}
      BY NotIdlePrio DEF IdlePrio
    <3>2. Sound(insert_thread(remove_thread(rq, x, prio[x]), x, p))
      BY <1>0, <3>1, RemoveSound, InsertSound
    <3>3. Sound(rq')
      BY <1>0, <2>4, <3>2 DEF change_priority
    <3>4. Rest'
      BY <1>0, <2>4, <3>1 DEF change_priority, Rest
    <3> QED BY <1>0, <2>4, <3>3, <3>4 DEF change_priority
  <2> QED BY <2>1, <2>2, <2>3, <2>4
<1>6. ASSUME reap PROVE QueueInv'
  <2> DEFINE t == front(rq.mem, Defunct)
  <2>1. t \in Thread \ {Idle}
    BY <1>0, <1>6, ListNames DEF reap, empty, front, Sound, Isolated, Memory, Pointer, IdleList
  <2>2. rq' = remove_thread(remove_defunct_thread(rq, t), t, prio[t])
    BY <1>6 DEF reap
  <2>3. /\ timer' = [timer EXCEPT ![t] = Off] /\ stat' = [stat EXCEPT ![t] = "CLOSE"]
        /\ freed' = freed \cup {t}
        /\ UNCHANGED <<prio, remaining, error, current, lock_nest, pc, arg, isr>>
    BY <1>6 DEF reap
  <2> HIDE DEF t
  <2>4. Sound(rq')
    BY <1>0, <2>1, <2>2, DefunctSound, RemoveSound, NotIdlePrio
  <2>5. Rest'
    BY <1>0, <2>1, <2>3 DEF Rest, Stats, Off
  <2> QED BY <1>0, <2>3, <2>4, <2>5
<1> QED BY <1>1, <1>2, <1>3, <1>4, <1>5, <1>6

(* The clock interrupt.                                                    *)
LEMMA InterruptInv ==
  ASSUME QueueInv, Interrupt
  PROVE  QueueInv'
<1> USE SchedAssumption, QueueInvParts, QueueInvNext DEF tcb
<1>0. Rest /\ Sound(rq) /\ current \in Thread
  OBVIOUS
<1>1. CASE tick_increase
  <2> DEFINE k == Rotated(rq, current, prio[current])
  <2>1. Sound(k) /\ next_thread(k) \in Thread
    BY <1>0, RotateSound, NextInThread DEF Rest
  <2>2. \/ rq' = k /\ process(k)
        \/ rq' = rq /\ current' = current
    BY <1>1 DEF tick_increase, inclock, Rotated
  <2> HIDE DEF k
  <2>3. Sound(rq') /\ current' \in Thread
    BY <1>0, <2>1, <2>2 DEF process
  <2>4. remaining' \in [Thread -> Nat \ {0}]
    <3>1. remaining' = [remaining EXCEPT ![current] =
                          IF remaining[current] = 1 THEN InitTick[current]
                          ELSE remaining[current] - 1]
      BY <1>1 DEF tick_increase, inclock
    <3>2. remaining[current] \in Nat \ {0} /\ InitTick[current] \in Nat \ {0}
      BY <1>0 DEF Rest
    <3>3. \A n \in Nat \ {0} : n # 1 => n - 1 \in Nat \ {0}
      OBVIOUS
    <3> QED BY <1>0, <3>1, <3>2, <3>3 DEF Rest
  <2>5. timer' \in [Thread -> Off..MaxTime]
    BY <1>0, <1>1 DEF tick_increase, Rest, Off
  <2>6. Rest'
    BY <1>0, <1>1, <2>4, <2>5 DEF tick_increase, Rest
  <2> QED BY <2>3, <2>6
<1>2. ASSUME NEW t \in Thread, timeout(t) PROVE QueueInv'
  <2>1. t \in Thread \ {Idle}
    BY <1>0, <1>2 DEF timeout, Rest
  <2>2. Sound(insert_thread(rq, t, prio[t]))
    BY <1>0, <2>1, InsertSound, NotIdlePrio
  <2>3. Sound(rq') /\ current' \in Thread
    BY <1>0, <1>2, <2>2, NextInThread DEF timeout, process
  <2>4. Rest'
    BY <1>0, <1>2, <2>1 DEF timeout, Rest, Stats, Off
  <2> QED BY <2>3, <2>4
<1>3. CASE check_leave
  <2>1. Rest'
    BY <1>0, <1>3 DEF check_leave, Rest
  <2> QED BY <1>0, <1>3, <2>1 DEF check_leave
<1> QED BY <1>1, <1>2, <1>3 DEF Interrupt

LEMMA StepQueueInv == QueueInv /\ [Next]_vars => QueueInv'
<1> SUFFICES ASSUME QueueInv, [Next]_vars PROVE QueueInv'
  OBVIOUS
<1>1. CASE UNCHANGED vars
  <2>1. Rest' /\ Sound(rq') /\ current' \in Thread
    BY <1>1, QueueInvParts DEF vars, tcb, Rest
  <2> QED BY <2>1, QueueInvNext
<1>2. CASE Next
  BY <1>2, CallInv, ReturnInv, InterruptInv DEF Next
<1> QED BY <1>1, <1>2

(* The variables of the scheduler keep their types: in particular the      *)
(* thread the CPU runs is always a thread.                                 *)
THEOREM TypeCorrect == Spec => []TypeOK
<1>1. QueueInv => TypeOK
  BY DEF QueueInv
<1> QED BY <1>1, InitQueueInv, StepQueueInv, PTL DEF Spec

(* next_thread always finds a thread, for any threads, priorities and      *)
(* calls, also where stale links have mixed up the lists.                  *)
THEOREM NextThreadAlways == Spec => []NextThreadExists
<1>1. QueueInv => NextThreadExists
  BY DEF QueueInv, Sound, Isolated, NextThreadExists, empty, front, IdlePrio, IdleList
<1> QED BY <1>1, InitQueueInv, StepQueueInv, PTL DEF Spec
=============================================================================
