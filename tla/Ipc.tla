-------------------------------- MODULE Ipc --------------------------------
(***************************************************************************)
(* IPC, the base of semaphores, mutexes, events, mailboxes and message     *)
(* queues: the list of the threads suspended on an object.  The operators  *)
(* run with interrupts disabled, inside the step of their caller.          *)
(***************************************************************************)
EXTENDS Sched

CONSTANTS Programs        \* what threads and interrupt handlers may do: sets of
                          \* calls <<caller, operation, object, time>>, the
                          \* caller of an interrupt handler being NULL

VARIABLES calls,          \* the program of this behaviour
          waits           \* the list the call of a thread waits in, or NULL

ipcvars == <<calls, waits>>

IpcInit == calls \in Programs /\ waits = [t \in Thread |-> NULL]

(* The waiting times of the calls op by t on o; -1 is forever.             *)
Times(t, op, o) == {c[4] : c \in {c \in calls : c[1] = t /\ c[2] = op /\ c[3] = o}}

Makes(t, op, o) == Times(t, op, o) # {}

(* The scheduler state the operators work on.                              *)
Kernel == [rq |-> rq, stat |-> stat, prio |-> prio, timer |-> timer, error |-> error]

SetKernel(s) == /\ rq' = s.rq /\ stat' = s.stat /\ prio' = s.prio
                /\ timer' = s.timer /\ error' = s.error

(* list_suspend(t) of the calling thread: suspend() and push_back.  The    *)
(* switch is on the flag_ of the thread, which is never FLAG_PRIO, and its *)
(* two cases are alike.                                                    *)
list_suspend(k, t, o) ==
  LET q == IF k.stat[t] = "READY" THEN remove_thread(k.rq, t, k.prio[t]) ELSE k.rq
  IN  [mem |-> push_back(q.mem, SuspendList(o), t), tree |-> q.tree]

(* A wait: list_suspend, then the thread timer when time is positive.      *)
(* suspend() stops the timer only if the thread is READY.                  *)
SuspendOn(k, t, o, time) ==
  /\ rq' = list_suspend(k, t, o)
  /\ prio' = k.prio
  /\ SuspendStat(t)
  /\ timer' = [timer EXCEPT ![t] = IF time > 0 THEN time
                                   ELSE IF stat[t] = "READY" THEN Off ELSE @]
  /\ error' = [error EXCEPT ![t] = "OK"]
  /\ waits' = [waits EXCEPT ![t] = o]
  /\ Goto(t, "wait")
  /\ UNCHANGED <<remaining, current, lock_nest, arg, isr, freed, calls>>

(* The first thread of the list is taken off and resumed, if it is         *)
(* suspended, with e for its error.                                        *)
Resumed(s, o, e) ==
  LET x == front(s.rq.mem, SuspendList(o))
      k == [mem |-> erase(s.rq.mem, SuspendList(o), x), tree |-> s.rq.tree]
      wakes == s.stat[x] = "SUSPEND"
  IN  [rq    |-> IF wakes THEN insert_thread(k, x, s.prio[x]) ELSE k,
       prio  |-> s.prio,
       stat  |-> IF wakes THEN [s.stat EXCEPT ![x] = "READY"] ELSE s.stat,
       timer |-> IF wakes THEN [s.timer EXCEPT ![x] = Off] ELSE s.timer,
       error |-> IF e = "OK" THEN s.error ELSE [s.error EXCEPT ![x] = e]]

(* Mutant of list_resume: the thread is taken off the list, not resumed.   *)
list_resume_pop(k, o) ==
  IF empty(k.rq.mem, SuspendList(o)) THEN k
  ELSE [k EXCEPT !.rq.mem = erase(@, SuspendList(o), front(@, SuspendList(o)))]

list_resume(k, o) == IF empty(k.rq.mem, SuspendList(o)) THEN k ELSE Resumed(k, o, "OK")

(* list_resume_all(): one turn per thread empties a list that is a list.   *)
list_resume_all(k, o) ==
  LET after[n \in 0..Cardinality(Thread)] ==
        IF n = 0 THEN k
        ELSE LET s == after[n - 1] IN
             IF empty(s.rq.mem, SuspendList(o)) THEN s ELSE Resumed(s, o, "ERROR")
  IN  after[Cardinality(Thread)]

(* What is left of a timeout when the call goes on: any time may have      *)
(* passed.                                                                 *)
Rest(time) == IF time > 0 THEN 0..time ELSE {time}

(* The call of t returns or, when it woke a thread of list o, schedules.   *)
Finish(t, o) ==
  /\ Goto(t, IF empty(rq.mem, SuspendList(o)) THEN "run" ELSE "sched")
  /\ waits' = [waits EXCEPT ![t] = NULL]
  /\ UNCHANGED <<remaining, current, lock_nest, arg, isr, freed, calls>>

(* A call that returns with error e and without effect.                    *)
Fail(t, e) ==
  /\ Goto(t, "run")
  /\ waits' = [waits EXCEPT ![t] = NULL]
  /\ error' = [error EXCEPT ![t] = e]
  /\ UNCHANGED <<rq, stat, prio, remaining, timer, current, lock_nest, arg, isr,
                 freed, calls>>

(* The threads suspended in the list o, and those taken off it whose call  *)
(* has not gone on yet.                                                    *)
Waiting(o) == {t \in Thread : waits[t] = o /\ stat[t] = "SUSPEND"}
Granted(o) == {t \in Thread : waits[t] = o /\ stat[t] = "READY" /\ error[t] = "OK"}
=============================================================================
