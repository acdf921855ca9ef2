----------------------------- MODULE Semaphore -----------------------------
(***************************************************************************)
(* Counting semaphores on the scheduler: take, release, from a thread or   *)
(* from an interrupt handler, and control(CMD_RESET).                      *)
(***************************************************************************)
EXTENDS Ipc

CONSTANTS Semaphores,     \* the IPC objects that are semaphores
          InitValue,      \* value_ of each new semaphore
          MaxValue,       \* bound: the largest value releases reach
          Locks           \* the semaphores threads use as locks: a thread
                          \* releases what it took, and takes it once

VARIABLES value,          \* value_
          held,           \* held[o]: the threads whose take(o) returned OK and
                          \* that have not released o since (history, for Locks)
          tokens          \* InitValue plus releases minus takes that returned
                          \* OK (history)

semvars == <<value, held, tokens>>

SemInit == /\ value = InitValue
           /\ held = [o \in Semaphores |-> {}]
           /\ tokens = InitValue

(* What a take that returns OK does to the history.                        *)
Took(t, o) == /\ tokens' = [tokens EXCEPT ![o] = @ - 1]
              /\ held' = IF o \in Locks THEN [held EXCEPT ![o] = @ \cup {t}] ELSE held

(* Mutant of take: a token is taken without counting it.                   *)
take_free(t, o, time) ==
  /\ At(t, "run") /\ t \notin held[o]
  /\ \/ /\ value[o] > 0
        /\ Took(t, o)
        /\ UNCHANGED <<vars, ipcvars, value>>
     \/ /\ value[o] = 0 /\ time # 0
        /\ SuspendOn(Kernel, t, o, time)
        /\ UNCHANGED semvars

take(t, o, time) ==
  /\ At(t, "run") /\ t \notin held[o]
  /\ \/ /\ value[o] > 0
        /\ value' = [value EXCEPT ![o] = @ - 1]
        /\ Took(t, o)
        /\ UNCHANGED <<vars, ipcvars>>
     \/ /\ value[o] = 0 /\ time # 0
        /\ SuspendOn(Kernel, t, o, time)
        /\ UNCHANGED semvars

(* take() after process(): OK unless error_ says otherwise.                *)
taken(t) ==
  /\ At(t, "waited") /\ waits[t] \in Semaphores
  /\ Goto(t, "run")
  /\ waits' = [waits EXCEPT ![t] = NULL]
  /\ IF error[t] = "OK" THEN Took(t, waits[t]) ELSE UNCHANGED <<held, tokens>>
  /\ UNCHANGED <<rq, tcb, current, lock_nest, arg, isr, freed, calls, value>>

(* release() up to its process(): the first thread of the list is resumed, *)
(* or the value goes up.  value_ is a uint16_t.                            *)
give(o) ==
  /\ IF empty(rq.mem, SuspendList(o))
     THEN value[o] < MaxValue /\ value' = [value EXCEPT ![o] = (@ + 1) % 65536]
     ELSE UNCHANGED value
  /\ SetKernel(list_resume(Kernel, o))
  /\ tokens' = [tokens EXCEPT ![o] = @ + 1]
  /\ UNCHANGED <<remaining, lock_nest, arg, isr, freed, ipcvars>>

(* Mutant of release: the woken thread is not scheduled.                   *)
release_silent(t, o) ==
  /\ At(t, "run") /\ (o \in Locks => t \in held[o])
  /\ give(o)
  /\ held' = [held EXCEPT ![o] = @ \ {t}]
  /\ UNCHANGED <<pc, current>>

release(t, o) ==
  /\ At(t, "run") /\ (o \in Locks => t \in held[o])
  /\ give(o)
  /\ held' = [held EXCEPT ![o] = @ \ {t}]
  /\ IF empty(rq.mem, SuspendList(o)) THEN UNCHANGED pc ELSE Goto(t, "sched")
  /\ UNCHANGED current

(* release() in an interrupt handler, its process() included.              *)
release_isr(o) ==
  /\ ~isr
  /\ give(o)
  /\ IF empty(rq.mem, SuspendList(o)) THEN UNCHANGED current
     ELSE process(list_resume(Kernel, o).rq)
  /\ UNCHANGED <<pc, held>>

(* control(CMD_RESET, v): every waiting thread fails with -ERR_ERROR.      *)
control_reset(t, o, v) ==
  /\ At(t, "run")
  /\ SetKernel(list_resume_all(Kernel, o))
  /\ value' = [value EXCEPT ![o] = v % 65536]
  /\ tokens' = [tokens EXCEPT ![o] = v + Cardinality(Granted(o))]
  /\ Goto(t, "sched")
  /\ UNCHANGED <<remaining, current, lock_nest, arg, isr, freed, ipcvars, held>>

SemNext ==
  \/ \E t \in Thread : taken(t)
  \/ \E t \in Thread, o \in Semaphores :
        \/ \E time \in Times(t, "take", o) : take(t, o, time)
        \/ Makes(t, "release", o) /\ release(t, o)
        \/ Makes(t, "reset", o) /\ \E v \in 0..1 : control_reset(t, o, v)
  \/ \E o \in Semaphores : Makes(NULL, "release", o) /\ release_isr(o)
-----------------------------------------------------------------------------
SemTypeOK == /\ value \in [Semaphores -> 0..65535]
             /\ held \in [Semaphores -> SUBSET Thread]
             /\ tokens \in [Semaphores -> Int]

(* Every release is worth exactly one take: a token is in value_ or with a *)
(* thread release() has woken, never lost on the way through the suspend   *)
(* list and never handed out twice.  So a semaphore of value one that      *)
(* threads use as a lock, as kmalloc and kfree use heap_sem, has one owner *)
(* at a time.                                                              *)
Conservation ==
  /\ \A o \in Semaphores : tokens[o] = value[o] + Cardinality(Granted(o))
  /\ \A o \in Locks : Cardinality(held[o]) <= InitValue[o]

(* No thread stays suspended on a semaphore that has a token.              *)
NoLostWakeup == \A o \in Semaphores : value[o] > 0 => Waiting(o) = {}

(* "if there are threads suspended on semaphore, it will be waked up"      *)
(* (Semaphore::release): a release that finds a suspended thread wakes one.*)
ReleaseWakes == [][\A o \in Semaphores :
                     tokens'[o] = tokens[o] + 1 /\ Waiting(o) # {}
                       => \E t \in Waiting(o) : stat'[t] = "READY"]_<<vars, semvars>>
=============================================================================
