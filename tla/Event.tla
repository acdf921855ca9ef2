------------------------------- MODULE Event -------------------------------
(***************************************************************************)
(* Event sets: send() adds events, recv() waits for all or for any of the  *)
(* events it names and may clear them.  A set of events is a uint32_t.     *)
(***************************************************************************)
EXTENDS Ipc

CONSTANTS Events,         \* the IPC objects that are event sets
          Bit             \* the events in use

VARIABLES set,            \* set_ of each object
          event_set, event_info
                          \* event_set_ and event_info_ of each thread

eventvars == <<set, event_set, event_info>>

(* FLAG_AND or FLAG_OR, with or without FLAG_CLEAR.                        *)
Option == [flag : {"AND", "OR"}, clear : BOOLEAN]

EventInit == /\ set = [o \in Events |-> {}]
             /\ event_set = [t \in Thread |-> {}]
             /\ event_info = [t \in Thread |-> [flag |-> "AND", clear |-> FALSE]]

Satisfied(want, option, have) ==
  IF option.flag = "AND" THEN want \subseteq have ELSE want \cap have # {}

(* Mutant of Cleared: the events are received and stay.                    *)
Cleared_not(have, option, want) == have

(* What a receiver with this option leaves of the events.                  *)
Cleared(have, option, want) == IF option.clear THEN have \ want ELSE have

(* One turn of the loop of send() at the thread s.node of the suspend list *)
(* of o; the link is read before the thread is taken off the list.         *)
Turn(s, o) ==
  LET t    == s.node
      info == event_info[t]
      want == IF info.flag = "OR" /\ Satisfied(s.want[t], info, s.set)
              THEN s.want[t] \cap s.set ELSE s.want[t]
      q    == [mem |-> erase(s.k.rq.mem, SuspendList(o), t), tree |-> s.k.rq.tree]
      wakes == s.k.stat[t] = "SUSPEND"
  IN  IF t = NULL THEN s
      ELSE IF ~Satisfied(s.want[t], info, s.set)
      THEN [s EXCEPT !.node = s.k.rq.mem.next[t]]
      ELSE [node |-> s.k.rq.mem.next[t],
            want |-> [s.want EXCEPT ![t] = want],
            set  |-> Cleared(s.set, info, want),
            woke |-> TRUE,
            k    |-> [s.k EXCEPT !.rq = IF wakes THEN insert_thread(q, t, s.k.prio[t]) ELSE q,
                                 !.stat[t] = IF wakes THEN "READY" ELSE @,
                                 !.timer[t] = IF wakes THEN Off ELSE @]]

(* send() up to its process(): the loop over the suspend list.             *)
Sent(o, S) ==
  LET loop[n \in 0..Cardinality(Thread)] ==
        IF n = 0 THEN [node |-> front(rq.mem, SuspendList(o)), want |-> event_set,
                       set |-> set[o] \cup S, woke |-> FALSE, k |-> Kernel]
        ELSE Turn(loop[n - 1], o)
  IN  loop[Cardinality(Thread)]

event_send(t, o, S) ==
  LET s == Sent(o, S) IN
  /\ At(t, "run") /\ S # {}
  /\ set' = [set EXCEPT ![o] = s.set]
  /\ event_set' = s.want
  /\ SetKernel(s.k)
  /\ IF s.woke THEN Goto(t, "sched") ELSE UNCHANGED pc
  /\ UNCHANGED <<remaining, current, lock_nest, arg, isr, freed, ipcvars, event_info>>

(* send() in an interrupt handler, its process() included.                 *)
event_send_isr(o, S) ==
  LET s == Sent(o, S) IN
  /\ ~isr /\ S # {}
  /\ set' = [set EXCEPT ![o] = s.set]
  /\ event_set' = s.want
  /\ SetKernel(s.k)
  /\ IF s.woke THEN process(s.k.rq) ELSE UNCHANGED current
  /\ UNCHANGED <<remaining, lock_nest, pc, arg, isr, freed, ipcvars, event_info>>

event_recv(t, o, S, option, time) ==
  /\ At(t, "run") /\ S # {}
  /\ \/ /\ Satisfied(S, option, set[o]) \/ time = 0
        /\ set' = [set EXCEPT ![o] =
                     IF Satisfied(S, option, set[o]) THEN Cleared(@, option, S) ELSE @]
        /\ error' = [error EXCEPT ![t] =
                       IF Satisfied(S, option, set[o]) THEN "OK" ELSE "TIMEOUT"]
        /\ UNCHANGED <<rq, stat, prio, remaining, timer, current, lock_nest, pc, arg,
                       isr, freed, ipcvars, event_set, event_info>>
     \/ /\ ~Satisfied(S, option, set[o]) /\ time # 0
        /\ event_set' = [event_set EXCEPT ![t] = S]
        /\ event_info' = [event_info EXCEPT ![t] = option]
        /\ SuspendOn(Kernel, t, o, time)
        /\ UNCHANGED set

(* recv() after process(): *recved is event_set_.                          *)
event_received(t, o) ==
  /\ At(t, "waited") /\ waits[t] = o
  /\ Goto(t, "run")
  /\ waits' = [waits EXCEPT ![t] = NULL]
  /\ UNCHANGED <<rq, tcb, current, lock_nest, arg, isr, freed, calls, eventvars>>

event_reset(t, o) ==
  /\ At(t, "run")
  /\ SetKernel(list_resume_all(Kernel, o))
  /\ set' = [set EXCEPT ![o] = {}]
  /\ Goto(t, "sched")
  /\ UNCHANGED <<remaining, current, lock_nest, arg, isr, freed, ipcvars,
                 event_set, event_info>>

EventNext ==
  \E o \in Events :
    \/ Makes(NULL, "send", o) /\ \E S \in SUBSET Bit : event_send_isr(o, S)
    \/ \E t \in Thread :
         \/ event_received(t, o)
         \/ Makes(t, "send", o) /\ \E S \in SUBSET Bit : event_send(t, o, S)
         \/ \E time \in Times(t, "recv", o), S \in SUBSET Bit, option \in Option :
              event_recv(t, o, S, option, time)
         \/ Makes(t, "reset", o) /\ event_reset(t, o)
-----------------------------------------------------------------------------
(* "if there are threads suspended on event object, it will be waked up"   *)
(* (Event::send): no thread stays suspended when the events it waits for   *)
(* are there.                                                              *)
EventsWake == \A o \in Events : \A t \in Waiting(o) :
                ~Satisfied(event_set[t], event_info[t], set[o])

(* What a woken recv() is about to return was sent for it: it waited for   *)
(* it, and with FLAG_CLEAR nobody else receives it.                        *)
EventsTaken ==
  [][\A o \in Events : \A t \in Waiting(o) :
       stat'[t] = "READY" /\ error'[t] = "OK" =>
         /\ Satisfied(event_set[t], event_info[t], event_set'[t])
         /\ event_set'[t] \subseteq event_set[t]
         /\ event_info[t].clear => event_set'[t] \cap set'[o] = {}]_<<vars, eventvars>>
=============================================================================
