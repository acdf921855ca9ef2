------------------------------- MODULE Mutex -------------------------------
(***************************************************************************)
(* Mutexes on the scheduler: take and release by threads, with the nesting *)
(* count and with the priority an owner inherits from a waiting thread.    *)
(***************************************************************************)
EXTENDS Ipc

CONSTANTS Mutexes,        \* the IPC objects that are mutexes
          MaxHold         \* bound: the deepest nesting of take by an owner

VARIABLES available,      \* value_
          owner, hold,    \* owner_ and hold_
          original,       \* original_priority_
          nested          \* nested[m][t]: takes of m by t that returned OK less
                          \* its releases that did (history)

mutexvars == <<available, owner, hold, original, nested>>

NoPriority == 255

MutexInit == /\ available = [m \in Mutexes |-> 1]
             /\ owner = [m \in Mutexes |-> NULL]
             /\ hold = [m \in Mutexes |-> 0]
             /\ original = [m \in Mutexes |-> NoPriority]
             /\ nested = [m \in Mutexes |-> [t \in Thread |-> 0]]

Nest(m, t, n) == nested' = [nested EXCEPT ![m][t] = @ + n]

(* control(CTRL_CHANGE_PRIORITY) of thread x.                              *)
Reprioritized(k, x, p) ==
  [k EXCEPT !.rq = IF k.stat[x] = "READY"
                   THEN insert_thread(remove_thread(@, x, k.prio[x]), x, p) ELSE @,
            !.prio[x] = p]

(* The owner is made as urgent as the thread that is about to wait.        *)
Inherit(t, m) == IF prio[t] < prio[owner[m]]
                 THEN Reprioritized(Kernel, owner[m], prio[t]) ELSE Kernel

mutex_take(t, m, time) ==
  /\ At(t, "run")
  /\ \/ /\ owner[m] = t /\ hold[m] < MaxHold
        /\ hold' = [hold EXCEPT ![m] = (@ + 1) % 256]
        /\ error' = [error EXCEPT ![t] = "OK"]
        /\ Nest(m, t, 1)
        /\ UNCHANGED <<available, owner, original>>
        /\ UNCHANGED <<rq, stat, prio, remaining, timer, current, lock_nest, pc,
                       arg, isr, freed, ipcvars>>
     \/ /\ owner[m] # t /\ available[m] > 0
        /\ available' = [available EXCEPT ![m] = @ - 1]
        /\ owner' = [owner EXCEPT ![m] = t]
        /\ original' = [original EXCEPT ![m] = prio[t]]
        /\ hold' = [hold EXCEPT ![m] = (@ + 1) % 256]
        /\ error' = [error EXCEPT ![t] = "OK"]
        /\ Nest(m, t, 1)
        /\ UNCHANGED <<rq, stat, prio, remaining, timer, current, lock_nest, pc,
                       arg, isr, freed, ipcvars>>
     \/ /\ owner[m] # t /\ available[m] = 0 /\ time = 0
        /\ error' = [error EXCEPT ![t] = "TIMEOUT"]
        /\ UNCHANGED <<rq, stat, prio, remaining, timer, current, lock_nest, pc,
                       arg, isr, freed, ipcvars, mutexvars>>
     \/ /\ owner[m] # t /\ available[m] = 0 /\ time # 0
        /\ SuspendOn(Inherit(t, m), t, m, time)
        /\ UNCHANGED mutexvars

(* take() after process(): release() has made the thread the owner.        *)
mutex_taken(t) ==
  /\ At(t, "waited") /\ waits[t] \in Mutexes
  /\ Goto(t, "run")
  /\ waits' = [waits EXCEPT ![t] = NULL]
  /\ IF error[t] = "OK" THEN Nest(waits[t], t, 1) ELSE UNCHANGED nested
  /\ UNCHANGED <<rq, tcb, current, lock_nest, arg, isr, freed, calls,
                 available, owner, hold, original>>

(* Mutant of HandOver: the thread it wakes does not become the owner.      *)
HandOver_keeps(t, m) ==
  LET k == IF original[m] # prio[t] THEN Reprioritized(Kernel, t, original[m])
           ELSE Kernel
      x == front(k.rq.mem, SuspendList(m))
  IN  /\ SetKernel(list_resume(k, m))
      /\ available' = [available EXCEPT ![m] = @ + 1]
      /\ owner' = [owner EXCEPT ![m] = NULL]
      /\ original' = [original EXCEPT ![m] = NoPriority]
      /\ hold' = [hold EXCEPT ![m] = 0]
      /\ IF x = NULL THEN UNCHANGED pc ELSE Goto(t, "sched")

(* The last release(): the owner gets its priority back and the mutex goes *)
(* to the first waiting thread, which is resumed, or becomes available.    *)
HandOver(t, m) ==
  LET k == IF original[m] # prio[t] THEN Reprioritized(Kernel, t, original[m])
           ELSE Kernel
      x == front(k.rq.mem, SuspendList(m))
  IN  /\ SetKernel(list_resume(k, m))
      /\ IF x = NULL
         THEN /\ available' = [available EXCEPT ![m] = @ + 1]
              /\ owner' = [owner EXCEPT ![m] = NULL]
              /\ original' = [original EXCEPT ![m] = NoPriority]
              /\ hold' = [hold EXCEPT ![m] = 0]
              /\ UNCHANGED pc
         ELSE /\ owner' = [owner EXCEPT ![m] = x]
              /\ original' = [original EXCEPT ![m] = k.prio[x]]
              /\ hold' = [hold EXCEPT ![m] = 1]
              /\ Goto(t, "sched")
              /\ UNCHANGED available

mutex_release(t, m) ==
  /\ At(t, "run")
  /\ \/ /\ owner[m] # t
        /\ error' = [error EXCEPT ![t] = "ERROR"]
        /\ UNCHANGED <<rq, stat, prio, timer, pc, mutexvars>>
     \/ /\ owner[m] = t /\ hold[m] # 1
        /\ hold' = [hold EXCEPT ![m] = (@ - 1) % 256]
        /\ Nest(m, t, -1)
        /\ UNCHANGED <<rq, stat, prio, timer, error, pc, available, owner, original>>
     \/ owner[m] = t /\ hold[m] = 1 /\ HandOver(t, m) /\ Nest(m, t, -1)
  /\ UNCHANGED <<remaining, current, lock_nest, arg, isr, freed, ipcvars>>

MutexNext == \/ \E t \in Thread : mutex_taken(t)
             \/ \E t \in Thread, m \in Mutexes :
                  \/ \E time \in Times(t, "take", m) : mutex_take(t, m, time)
                  \/ Makes(t, "release", m) /\ mutex_release(t, m)
-----------------------------------------------------------------------------
MutexTypeOK == /\ available \in [Mutexes -> 0..1]
               /\ owner \in [Mutexes -> Thread \cup {NULL}]
               /\ hold \in [Mutexes -> 0..255]
               /\ original \in [Mutexes -> Prio \cup {NoPriority}]

(* Owner and count say who is between take and release: only the owner is, *)
(* as often as hold_ counts, unless release() has just made it the owner   *)
(* and its take() has yet to return.                                       *)
OwnerHolds == \A m \in Mutexes, t \in Thread :
                nested[m][t] = IF owner[m] # t THEN 0
                               ELSE IF t \in Granted(m) THEN hold[m] - 1 ELSE hold[m]

(* "if there are threads suspended on mutex, it will be waked up"          *)
(* (Mutex::release): the mutex passes to a thread that is suspended on it, *)
(* or becomes available.                                                   *)
HandedToWaiter ==
  [][\A m \in Mutexes : \A t \in Thread :
       nested'[m][t] < nested[m][t] /\ owner'[m] # t
         => owner'[m] \in Waiting(m) \cup {NULL}]_<<vars, mutexvars>>
=============================================================================
