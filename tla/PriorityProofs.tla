--------------------------- MODULE PriorityProofs ---------------------------
(***************************************************************************)
(* Which thread the CPU runs, for any number of threads and priorities, as *)
(* long as no thread suspends, resumes or gives a new priority to another. *)
(***************************************************************************)
EXTENDS SchedProofs

(* When idle is next, idle's is the only priority in the tree.             *)
LEMMA OnlyIdleLeft ==
  ASSUME NEW k, Sound(k), next_thread(k) = Idle
  PROVE  k.tree = {IdlePrio}
<1>1. k.tree \in SUBSET Nat /\ k.tree # {} /\ k.tree \subseteq Prio
  BY DEF Sound, Prio
<1>2. min(k.tree) \in k.tree /\ \A q \in k.tree : min(k.tree) <= q
  BY <1>1, MinIsLeast
<1>3. ReadyList(min(k.tree)) = IdleList
  BY <1>1, <1>2, ListNames DEF Sound, Isolated, next_thread, front
<1>4. min(k.tree) = IdlePrio
  BY <1>1, <1>2, <1>3, ListNames DEF IdleList
<1>5. \A q \in k.tree : q = IdlePrio
  BY <1>1, <1>2, <1>4, SchedAssumption DEF Prio, IdlePrio
<1> QED BY <1>5 DEF Sound

(* min() of the tree that has only idle's priority.                        *)
LEMMA MinIdle == min({IdlePrio}) = IdlePrio
<1>1. {IdlePrio} \in SUBSET Nat
  BY ListNames DEF Prio
<1> QED BY <1>1, MinIsLeast

(* Deleting a thread does not change which thread is next, when it is idle.*)
LEMMA ReapKeepsIdle ==
  ASSUME QueueInv, QueueInv', reap, next_thread(rq) = Idle
  PROVE  next_thread(rq') = Idle
<1> DEFINE t == front(rq.mem, Defunct)
<1>1. rq.tree = {IdlePrio}
  BY OnlyIdleLeft DEF QueueInv
<1>2. rq'.tree \subseteq rq.tree
  BY DEF reap, remove_thread, remove_defunct_thread
<1>3. Sound(rq')
  BY DEF QueueInv
<1>4. rq'.tree = {IdlePrio}
  BY <1>1, <1>2, <1>3 DEF Sound
<1> QED BY <1>3, <1>4, MinIdle DEF Sound, Isolated, next_thread, front, IdleList

(* Without controllers no thread is inside resume or suspend of another.   *)
NoControl == \A t \in Thread : pc[t] \notin {"stop", "insert", "suspend"}

LEMMA StepNoControl ==
  ASSUME Controllers = {}, QueueInv, NoControl, [Next]_vars
  PROVE  NoControl'
<1> USE SchedAssumption DEF At, Goto, tcb
<1>0. pc \in [Thread -> Labels]
  BY DEF QueueInv, TypeOK
<1>1. CASE pc' = pc
  BY <1>1 DEF NoControl
<1>2. ASSUME NEW t \in Thread, NEW l \in Labels \ {"stop", "insert", "suspend"},
             pc' = [pc EXCEPT ![t] = l]
      PROVE  NoControl'
  BY <1>0, <1>2 DEF NoControl
<1>3. ASSUME NEW t \in Thread, Return(t) PROVE NoControl'
  <2>1. CASE Schedule(t)
    <3>1. After[pc[t]] \in Labels \ {"stop", "insert", "suspend"}
      BY <2>1 DEF Schedule, After, Labels
    <3> QED BY <1>2, <2>1, <3>1 DEF Schedule
  <2>2. CASE ~ Schedule(t)
    BY <1>2, <1>3, <2>2 DEF Return, slept, resume_stop, resume_insert, suspend_remove,
                            NoControl, Labels
  <2> QED BY <2>1, <2>2
<1>4. ASSUME NEW x \in Thread \ {Root}, startup(Root, x) PROVE NoControl'
  BY <1>0, <1>4 DEF startup, NoControl
<1>5. ASSUME NEW t \in Thread,
             \/ \E time \in 0..MaxTime : sleep(t, time)
             \/ exit(t) \/ enter_critical(t) \/ exit_critical(t)
      PROVE  NoControl'
  BY <1>1, <1>2, <1>5 DEF sleep, exit, enter_critical, exit_critical, Labels
<1>6. ASSUME Interrupt \/ reap \/ UNCHANGED vars PROVE NoControl'
  BY <1>1, <1>6 DEF Interrupt, tick_increase, timeout, check_leave, reap, vars
<1> QED BY <1>3, <1>4, <1>5, <1>6 DEF Next

LEMMA StepHighestRuns ==
  ASSUME Controllers = {}, QueueInv, QueueInv', NoControl, HighestRuns, [Next]_vars
  PROVE  HighestRuns'
<1> USE SchedAssumption DEF At, Goto, tcb
<1>0. /\ current \in Thread /\ pc \in [Thread -> Labels] /\ lock_nest \in 0..MaxNest
      /\ DOMAIN After = {"sched", "sleep", "wait", "exit"}
  BY DEF QueueInv, TypeOK, After
<1>1. ASSUME NEW t \in Thread, Return(t) PROVE HighestRuns'
  <2>1. CASE Schedule(t)
    BY <2>1 DEF Schedule, process, HighestRuns
  <2>2. CASE slept(t)
    BY <1>0, <2>2 DEF slept, HighestRuns
  <2> QED BY <1>1, <2>1, <2>2 DEF Return, NoControl, resume_stop, resume_insert,
                                  suspend_remove
<1>2. ASSUME NEW x \in Thread \ {Root}, startup(Root, x) PROVE HighestRuns'
  BY <1>0, <1>2 DEF startup, HighestRuns
<1>3. ASSUME NEW t \in Sleepers, NEW time \in 0..MaxTime, sleep(t, time) PROVE HighestRuns'
  BY <1>0, <1>3 DEF sleep, HighestRuns
<1>4. ASSUME NEW t \in Exiters, exit(t) PROVE HighestRuns'
  BY <1>0, <1>4 DEF exit, HighestRuns
<1>5. ASSUME NEW t \in Lockers, enter_critical(t) \/ exit_critical(t) PROVE HighestRuns'
  <2>1. CASE enter_critical(t)
    BY <1>0, <2>1 DEF enter_critical, HighestRuns
  <2>2. CASE exit_critical(t) /\ lock_nest <= 1
    BY <1>0, <2>2 DEF exit_critical, HighestRuns
  <2>3. CASE exit_critical(t) /\ ~ (lock_nest <= 1)
    <3>1. lock_nest' # 0
      BY <1>0, <2>3 DEF exit_critical
    <3> QED BY <3>1 DEF HighestRuns
  <2> QED BY <1>5, <2>1, <2>2, <2>3
<1>6. ASSUME reap PROVE HighestRuns'
  <2>1. /\ current = Idle /\ current' = current /\ lock_nest' = lock_nest /\ pc' = pc
        /\ pc[Idle] = "run"
    BY <1>6 DEF reap
  <2> QED BY <1>0, <1>6, <2>1, ReapKeepsIdle DEF HighestRuns
<1>7. ASSUME Interrupt PROVE HighestRuns'
  <2>1. CASE tick_increase
    BY <2>1 DEF tick_increase, inclock, process, HighestRuns
  <2>2. ASSUME NEW t \in Thread, timeout(t) PROVE HighestRuns'
    BY <2>2 DEF timeout, process, HighestRuns
  <2>3. CASE check_leave
    BY <2>3 DEF check_leave, HighestRuns
  <2> QED BY <1>7, <2>1, <2>2, <2>3 DEF Interrupt
<1>8. CASE UNCHANGED vars
  BY <1>8 DEF vars, HighestRuns
<1> QED BY <1>1, <1>2, <1>3, <1>4, <1>5, <1>6, <1>7, <1>8 DEF Next

(* The invariant that carries HighestRuns.                                 *)
UrgentInv == QueueInv /\ NoControl /\ HighestRuns

LEMMA UrgentInvariant ==
  ASSUME Controllers = {}
  PROVE  /\ Init => UrgentInv
         /\ UrgentInv /\ [Next]_vars => UrgentInv'
<1>1. Init => UrgentInv
  BY InitQueueInv DEF Init, UrgentInv, NoControl, HighestRuns
<1>2. UrgentInv /\ [Next]_vars => UrgentInv'
  BY StepQueueInv, StepNoControl, StepHighestRuns DEF UrgentInv
<1> QED BY <1>1, <1>2

(* process() is called wherever the queue changed: as long as threads only *)
(* act on themselves, the CPU runs what next_thread would select.          *)
THEOREM HighestAlwaysRuns ==
  ASSUME Controllers = {}
  PROVE  Spec => []HighestRuns
<1>1. UrgentInv => HighestRuns
  BY DEF UrgentInv
<1> QED BY <1>1, UrgentInvariant, PTL DEF Spec
=============================================================================
