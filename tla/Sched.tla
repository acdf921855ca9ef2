------------------------------- MODULE Sched -------------------------------
(***************************************************************************)
(* The scheduler, the threads with their timers and the idle thread on one *)
(* CPU: Scheduler, Thread, Idle and the part of the clock interrupt that   *)
(* concerns them.                                                          *)
(*                                                                         *)
(* Code between arch_interrupt_disable and arch_interrupt_enable is one    *)
(* step.  Where a function enables interrupts and goes on, pc[t] says what *)
(* thread t does next, so that interrupts, and after them other threads,   *)
(* come in between.  The CPU executes current_thread_ whenever it is not   *)
(* in the clock interrupt; the interrupt itself is never interrupted.      *)
(***************************************************************************)
EXTENDS Integers, FiniteSets

CONSTANTS Thread, NULL,
          Idle, Root,     \* the idle thread and the thread main() starts
          PrioMax,        \* THREAD_PRIORITY_MAX
          InitPrio,       \* init_priority_ of each thread, 0 the most urgent
          InitTick,       \* init_tick_ of each thread
          IpcObject,      \* the IPC objects, each with a suspend list
          MaxTime,        \* bound: the longest time a thread asks for
          MaxNest,        \* bound: the deepest nesting of enter_critical
          Sleepers, Exiters, Lockers, Controllers,
                          \* the threads that call sleep, exit, enter_critical
                          \* and the commands below on another thread
          Commands        \* those in use of "resume", "suspend", "priority"

Prio == 0..(PrioMax - 1)

ASSUME SchedAssumption ==
  /\ NULL \notin Thread
  /\ PrioMax \in Nat \ {0}
  /\ MaxTime \in Nat /\ MaxNest \in Nat
  /\ InitPrio \in [Thread -> Prio] /\ InitTick \in [Thread -> Nat \ {0}]
  /\ Idle \in Thread /\ Root \in Thread \ {Idle}
  /\ \A t \in Thread : InitPrio[t] = PrioMax - 1 <=> t = Idle
  /\ Sleepers \cup Exiters \subseteq Thread \ {Idle}
  /\ Lockers \cup Controllers \subseteq Thread

INSTANCE List WITH Node <- Thread

(* The lists of threads: ready_table_[p], the defunct list and the suspend *)
(* list of each IPC object.                                                *)
ReadyList(p) == <<"ready", p>>
SuspendList(o) == <<"suspend", o>>
Defunct == <<"defunct", 0>>

ListId == {ReadyList(p) : p \in Prio} \cup {SuspendList(o) : o \in IpcObject}
            \cup {Defunct}

VARIABLES
  rq,          \* the links of all lists and priority_tree_ (the priorities in it)
  stat, prio,  \* stat_ and current_priority_
  remaining,   \* remaining_tick_
  error,       \* error_
  timer,       \* ticks until thread_timer_ is due, Off when it is not active
  current,     \* current_thread_
  lock_nest,   \* lock_nest_
  pc, arg,     \* what a thread does next, and the thread it does it to
  isr,         \* TRUE while the clock interrupt is in Timer::check
  freed        \* the threads idle has deleted

tcb == <<stat, prio, remaining, error, timer>>
vars == <<rq, tcb, current, lock_nest, pc, arg, isr, freed>>

Off == -1
-----------------------------------------------------------------------------
(* The ready queue.                                                        *)

insert_thread(k, t, p) ==
  [mem  |-> push_back(k.mem, ReadyList(p), t),
   tree |-> IF empty(k.mem, ReadyList(p)) THEN k.tree \cup {p} ELSE k.tree]

(* Mutant of remove_thread: the priority of an emptied list stays in the   *)
(* tree.                                                                   *)
remove_thread_tree(k, t, p) == [mem |-> erase(k.mem, ReadyList(p), t), tree |-> k.tree]

remove_thread(k, t, p) ==
  LET m == erase(k.mem, ReadyList(p), t) IN
  [mem |-> m, tree |-> IF empty(m, ReadyList(p)) THEN k.tree \ {p} ELSE k.tree]

(* priority_tree_.min(): the most urgent priority with a ready thread.     *)
min(S) == CHOOSE p \in S : \A q \in S : p <= q

next_thread(k) == front(k.mem, ReadyList(min(k.tree)))

process(k) == current' = IF lock_nest = 0 THEN next_thread(k) ELSE current

insert_defunct_thread(k, t) ==
  [mem |-> push_back(k.mem, Defunct, t), tree |-> k.tree]

(* Mutant of remove_defunct_thread: it leaves the list alone.              *)
remove_defunct_thread_not(k, t) == k

remove_defunct_thread(k, t) ==
  [mem |-> erase(k.mem, Defunct, t), tree |-> k.tree]
-----------------------------------------------------------------------------
(* main(): the root thread and the idle thread are started before the      *)
(* scheduler, which switches to the first ready thread.                    *)
Boot == insert_thread(
          insert_thread([mem |-> NewMemory(ListId), tree |-> {}],
                        Root, InitPrio[Root]),
          Idle, InitPrio[Idle])

Init ==
  /\ rq = Boot
  /\ stat = [t \in Thread |-> IF t \in {Root, Idle} THEN "READY" ELSE "INIT"]
  /\ prio = InitPrio
  /\ remaining = InitTick
  /\ error = [t \in Thread |-> "OK"]
  /\ timer = [t \in Thread |-> Off]
  /\ current = next_thread(Boot)
  /\ lock_nest = 0
  /\ pc = [t \in Thread |-> IF t \in {Root, Idle} THEN "run" ELSE "new"]
  /\ arg = [t \in Thread |-> t]
  /\ isr = FALSE
  /\ freed = {}

(* Thread t is on the CPU and about to do what l says.                     *)
At(t, l) == ~isr /\ current = t /\ pc[t] = l

Goto(t, l) == pc' = [pc EXCEPT ![t] = l]

(* Scheduler::process() at the end of a call, and where the call goes on   *)
(* when the thread gets the CPU back.                                      *)
After == [sched |-> "run", sleep |-> "slept", wait |-> "waited", exit |-> "dead"]

Schedule(t) ==
  /\ pc[t] \in DOMAIN After /\ At(t, pc[t])
  /\ process(rq)
  /\ Goto(t, After[pc[t]])
  /\ UNCHANGED <<rq, tcb, lock_nest, arg, isr, freed>>

startup(t, x) ==
  /\ At(t, "run") /\ stat[x] = "INIT"
  /\ prio' = [prio EXCEPT ![x] = InitPrio[x]]
  /\ rq' = insert_thread(rq, x, InitPrio[x])
  /\ stat' = [stat EXCEPT ![x] = "READY"]
  /\ pc' = [pc EXCEPT ![t] = "sched", ![x] = "run"]
  /\ UNCHANGED <<remaining, error, timer, current, lock_nest, arg, isr, freed>>

(* suspend() of the calling thread: nothing unless it is READY.            *)
suspended(t) == IF stat[t] = "READY" THEN remove_thread(rq, t, prio[t]) ELSE rq

SuspendStat(t) == stat' = [stat EXCEPT ![t] = IF @ = "READY" THEN "SUSPEND" ELSE @]


sleep(t, time) ==
  /\ At(t, "run")
  /\ rq' = suspended(t)
  /\ SuspendStat(t)
  /\ timer' = [timer EXCEPT ![t] = time]
  /\ Goto(t, "sleep")
  /\ UNCHANGED <<prio, remaining, error, current, lock_nest, arg, isr, freed>>

slept(t) ==
  /\ At(t, "slept")
  /\ error' = [error EXCEPT ![t] = IF @ = "TIMEOUT" THEN "OK" ELSE @]
  /\ Goto(t, "run")
  /\ UNCHANGED <<rq, stat, prio, remaining, timer, current, lock_nest, arg, isr, freed>>

(* Mutant of exit: it returns without process().                           *)
exit_returns(t) ==
  /\ At(t, "run")
  /\ rq' = insert_defunct_thread(
             remove_thread(remove_thread(rq, t, prio[t]), t, prio[t]), t)
  /\ timer' = [timer EXCEPT ![t] = Off]
  /\ stat' = [stat EXCEPT ![t] = "CLOSE"]
  /\ UNCHANGED <<prio, remaining, error, current, lock_nest, pc, arg, isr, freed>>

(* exit() removes the thread from its ready list twice, itself and in      *)
(* detach(true).                                                           *)
exit(t) ==
  /\ At(t, "run")
  /\ rq' = insert_defunct_thread(
             remove_thread(remove_thread(rq, t, prio[t]), t, prio[t]), t)
  /\ timer' = [timer EXCEPT ![t] = Off]
  /\ stat' = [stat EXCEPT ![t] = "CLOSE"]
  /\ Goto(t, "exit")
  /\ UNCHANGED <<prio, remaining, error, current, lock_nest, arg, isr, freed>>

enter_critical(t) ==
  /\ At(t, "run") /\ lock_nest < MaxNest
  /\ lock_nest' = lock_nest + 1
  /\ UNCHANGED <<rq, tcb, current, pc, arg, isr, freed>>

exit_critical(t) ==
  /\ At(t, "run")
  /\ lock_nest' = IF lock_nest <= 1 THEN 0 ELSE lock_nest - 1
  /\ IF lock_nest <= 1 THEN Goto(t, "sched") ELSE UNCHANGED pc
  /\ UNCHANGED <<rq, tcb, current, arg, isr, freed>>
-----------------------------------------------------------------------------
(* resume(), suspend() and control() on another thread.  resume and        *)
(* suspend look at stat_ before they disable interrupts, and resume        *)
(* enables them between stopping the timer and inserting the thread.       *)

resume(t, x) ==
  /\ At(t, "run") /\ stat[x] = "SUSPEND"
  /\ Goto(t, "stop")
  /\ arg' = [arg EXCEPT ![t] = x]
  /\ UNCHANGED <<rq, tcb, current, lock_nest, isr, freed>>

resume_stop(t) ==
  /\ At(t, "stop")
  /\ timer' = [timer EXCEPT ![arg[t]] = Off]
  /\ Goto(t, "insert")
  /\ UNCHANGED <<rq, stat, prio, remaining, error, current, lock_nest, arg, isr, freed>>

resume_insert(t) ==
  /\ At(t, "insert")
  /\ rq' = insert_thread(rq, arg[t], prio[arg[t]])
  /\ stat' = [stat EXCEPT ![arg[t]] = "READY"]
  /\ Goto(t, "run")
  /\ UNCHANGED <<prio, remaining, error, timer, current, lock_nest, arg, isr, freed>>

suspend(t, x) ==
  /\ At(t, "run") /\ stat[x] = "READY"
  /\ Goto(t, "suspend")
  /\ arg' = [arg EXCEPT ![t] = x]
  /\ UNCHANGED <<rq, tcb, current, lock_nest, isr, freed>>

suspend_remove(t) ==
  /\ At(t, "suspend")
  /\ rq' = remove_thread(rq, arg[t], prio[arg[t]])
  /\ stat' = [stat EXCEPT ![arg[t]] = "SUSPEND"]
  /\ timer' = [timer EXCEPT ![arg[t]] = Off]
  /\ Goto(t, "run")
  /\ UNCHANGED <<prio, remaining, error, current, lock_nest, arg, isr, freed>>

change_priority(t, x, p) ==
  /\ At(t, "run")
  /\ rq' = IF stat[x] = "READY"
           THEN insert_thread(remove_thread(rq, x, prio[x]), x, p) ELSE rq
  /\ prio' = [prio EXCEPT ![x] = p]
  /\ UNCHANGED <<stat, remaining, error, timer, current, lock_nest, pc, arg, isr, freed>>
-----------------------------------------------------------------------------
(* Idle::excute(): one turn of its loop.  delete runs detach(false).       *)
reap ==
  LET t == front(rq.mem, Defunct) IN
  /\ At(Idle, "run") /\ ~empty(rq.mem, Defunct)
  /\ rq' = remove_thread(remove_defunct_thread(rq, t), t, prio[t])
  /\ timer' = [timer EXCEPT ![t] = Off]
  /\ stat' = [stat EXCEPT ![t] = "CLOSE"]
  /\ freed' = freed \cup {t}
  /\ UNCHANGED <<prio, remaining, error, current, lock_nest, pc, arg, isr>>


(* The clock interrupt: tick_increase() counts the tick, inclock() charges *)
(* it to the running thread and rotates its ready list at the end of the   *)
(* slice, and Timer::check() starts.                                       *)
inclock ==
  LET t == current
      l == ReadyList(prio[t])
      k == [mem |-> push_back(erase(rq.mem, l, t), l, t), tree |-> rq.tree] IN
  /\ remaining' = [remaining EXCEPT ![t] = IF @ = 1 THEN InitTick[t] ELSE @ - 1]
  /\ IF remaining[t] = 1 /\ stat[t] = "READY"
     THEN rq' = k /\ process(k)
     ELSE UNCHANGED <<rq, current>>

tick_increase ==
  /\ ~isr
  /\ inclock
  /\ timer' = [t \in Thread |-> IF timer[t] > 0 THEN timer[t] - 1 ELSE timer[t]]
  /\ isr' = TRUE
  /\ UNCHANGED <<stat, prio, error, lock_nest, pc, arg, freed>>

(* Mutant of timeout: the one-shot timer stays active.                     *)
timeout_again(t) ==
  /\ isr /\ timer[t] = 0 /\ stat[t] = "SUSPEND"
  /\ error' = [error EXCEPT ![t] = "TIMEOUT"]
  /\ stat' = [stat EXCEPT ![t] = "READY"]
  /\ rq' = insert_thread(rq, t, prio[t])
  /\ process(insert_thread(rq, t, prio[t]))
  /\ UNCHANGED <<prio, remaining, timer, lock_nest, pc, arg, isr, freed>>

(* Mutant of timeout: it leaves the CPU to the thread it interrupted.      *)
timeout_silent(t) ==
  /\ isr /\ timer[t] = 0 /\ stat[t] = "SUSPEND"
  /\ timer' = [timer EXCEPT ![t] = Off]
  /\ error' = [error EXCEPT ![t] = "TIMEOUT"]
  /\ stat' = [stat EXCEPT ![t] = "READY"]
  /\ rq' = insert_thread(rq, t, prio[t])
  /\ UNCHANGED <<prio, remaining, current, lock_nest, pc, arg, isr, freed>>

(* Timer::check() takes the timers that are due one by one and calls       *)
(* Thread::timeout, which stops the machine unless the thread is suspended.*)
timeout(t) ==
  /\ isr /\ timer[t] = 0 /\ stat[t] = "SUSPEND"
  /\ timer' = [timer EXCEPT ![t] = Off]
  /\ error' = [error EXCEPT ![t] = "TIMEOUT"]
  /\ stat' = [stat EXCEPT ![t] = "READY"]
  /\ rq' = insert_thread(rq, t, prio[t])
  /\ process(insert_thread(rq, t, prio[t]))
  /\ UNCHANGED <<prio, remaining, lock_nest, pc, arg, isr, freed>>

check_leave ==
  /\ isr /\ \A t \in Thread : timer[t] # 0
  /\ isr' = FALSE
  /\ UNCHANGED <<rq, tcb, current, lock_nest, pc, arg, freed>>
-----------------------------------------------------------------------------
(* The threads another thread may resume, suspend or give a new priority.  *)
Live(x) == x # Idle /\ pc[x] \notin {"new", "exit", "dead"}

Control(t) ==
  \E x \in Thread :
     /\ Live(x)
     /\ \/ "resume" \in Commands /\ resume(t, x)
        \/ "suspend" \in Commands /\ suspend(t, x)
        \/ "priority" \in Commands
           /\ \E p \in Prio \ {PrioMax - 1} : change_priority(t, x, p)

Return(t) == Schedule(t) \/ slept(t) \/ resume_stop(t) \/ resume_insert(t)
               \/ suspend_remove(t)

Interrupt == tick_increase \/ (\E t \in Thread : timeout(t)) \/ check_leave

Next == \/ Interrupt
        \/ \E t \in Thread : Return(t)
        \/ \E x \in Thread \ {Root} : startup(Root, x)
        \/ \E t \in Sleepers, time \in 0..MaxTime : sleep(t, time)
        \/ \E t \in Exiters : exit(t)
        \/ \E t \in Lockers : enter_critical(t) \/ exit_critical(t)
        \/ \E t \in Controllers : Control(t)
        \/ reap

Spec == Init /\ [][Next]_vars

(* The CPU executes code between two ticks, ticks keep coming, and the     *)
(* clock interrupt finishes.  Return(t) is interrupted again and again, so *)
(* it needs strong fairness.                                               *)
Fairness == /\ WF_vars(tick_increase) /\ WF_vars(check_leave)
            /\ WF_vars(\E t \in Thread : timeout(t))
            /\ \A t \in Thread : SF_vars(Return(t))

FairSpec == Spec /\ Fairness
-----------------------------------------------------------------------------
Stats == {"INIT", "READY", "SUSPEND", "CLOSE"}
Labels == {"new", "run", "sched", "sleep", "slept", "wait", "waited", "exit",
           "dead", "stop", "insert", "suspend"}

TypeOK == /\ rq \in [mem : Memory(ListId), tree : SUBSET Prio]
          /\ stat \in [Thread -> Stats]
          /\ prio \in [Thread -> Prio]
          /\ remaining \in [Thread -> Nat \ {0}]
          /\ error \in [Thread -> {"OK", "TIMEOUT", "ERROR"}]
          /\ timer \in [Thread -> Off..MaxTime]
          /\ current \in Thread
          /\ lock_nest \in 0..MaxNest
          /\ pc \in [Thread -> Labels]
          /\ arg \in [Thread -> Thread]
          /\ isr \in BOOLEAN
          /\ freed \subseteq Thread

(* next_thread takes the front of priority_tree_.min() without a check.    *)
(* No priority stays in the tree when its ready list becomes empty, and    *)
(* idle never leaves its own list, so there is a thread to return even     *)
(* when the links of other threads no longer make sense.                   *)
NextThreadExists == /\ \A p \in rq.tree : ~empty(rq.mem, ReadyList(p))
                    /\ PrioMax - 1 \in rq.tree
                    /\ front(rq.mem, ReadyList(PrioMax - 1)) = Idle

(* "It will select one thread with the highest priority level, then switch *)
(* to it" (Scheduler::process): outside a call that is about to schedule,  *)
(* and unless the scheduler is locked, the CPU runs what next_thread would *)
(* select; no wake-up, rotation or startup leaves a more urgent ready list *)
(* waiting.                                                                *)
HighestRuns == lock_nest = 0 /\ pc[current] \notin DOMAIN After
                 => current = next_thread(rq)

(* What process() promises, in terms of the threads and not of the queue:   *)
(* at those points the CPU runs a READY thread, and no READY thread is     *)
(* more urgent.                                                            *)
MostUrgentRuns ==
  lock_nest = 0 /\ pc[current] \notin DOMAIN After
    => /\ stat[current] = "READY"
       /\ \A t \in Thread : stat[t] = "READY" => prio[current] <= prio[t]

(* COS_ASSERT(thread->stat_ == THREAD_SUSPEND) of Thread::timeout holds    *)
(* whenever a thread timer comes due.                                      *)
TimeoutSafe == \A t \in Thread : timer[t] = 0 => stat[t] = "SUSPEND"

(* The list l holds exactly the threads in S, each once, linked both ways. *)
HoldsSet(l, S) ==
  \E s \in [1..Cardinality(S) -> S] :
     /\ \A i, j \in DOMAIN s : s[i] = s[j] => i = j
     /\ IF S = {} THEN rq.mem.head[l] = NULL
        ELSE /\ rq.mem.head[l] = s[1] /\ rq.mem.tail[l] = s[Cardinality(S)]
             /\ rq.mem.next[s[Cardinality(S)]] = NULL
             /\ \A i \in 1..(Cardinality(S) - 1) :
                  rq.mem.next[s[i]] = s[i + 1] /\ rq.mem.prev[s[i + 1]] = s[i]

(* A READY thread is in the ready list of its priority, once, and nothing  *)
(* else is; the defunct list holds the threads that exited and have not    *)
(* been deleted: sleeping, waking, rotating, exiting and deleting in any   *)
(* order lose no thread and leave none behind.                             *)
QueuesExact ==
  /\ \A p \in Prio : HoldsSet(ReadyList(p),
                              {t \in Thread : stat[t] = "READY" /\ prio[t] = p})
  /\ HoldsSet(Defunct, {t \in Thread : stat[t] = "CLOSE"} \ freed)

(* Idle deletes only threads that called exit, and a deleted thread never   *)
(* holds the CPU again, even when an interrupt took the CPU from it before *)
(* the process() that ends exit.                                           *)
FreedIsDead == \A t \in freed : pc[t] \in {"exit", "dead"} /\ current # t


=============================================================================
