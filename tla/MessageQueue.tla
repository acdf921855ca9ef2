--------------------------- MODULE MessageQueue ---------------------------
(***************************************************************************)
(* Message queues: a pool of slots, linked into a queue and a free list.   *)
(* A call takes a slot off a list, copies the message with interrupts      *)
(* enabled, and links the slot into the other list; in between the slot is *)
(* the caller's.                                                           *)
(***************************************************************************)
EXTENDS Ipc, Sequences

CONSTANTS Queues,         \* the IPC objects that are message queues
          MaxMsgs,        \* max_msgs_
          Message         \* the messages in use

VARIABLES mq,             \* the lists of each queue, and what is in the slots
          copy,           \* the queue, slot, message, timeout of a thread's call
          message         \* the message each thread received last (history)

mqvars == <<mq, copy, message>>

Slot == 1..MaxMsgs

NoCopy == [q |-> NULL, slot |-> NULL, msg |-> NULL, timeout |-> 0]

MessageQueueInit ==
  /\ mq = [o \in Queues |->
             [head |-> NULL, tail |-> NULL, free |-> MaxMsgs, entry |-> 0,
              next |-> [n \in Slot |-> IF n = 1 THEN NULL ELSE n - 1],
              msg  |-> [n \in Slot |-> NULL]]]
  /\ copy = [t \in Thread |-> NoCopy]
  /\ message = [t \in Thread |-> NULL]

(* The call of t is over.                                                  *)
Over(t) == copy' = [copy EXCEPT ![t] = NoCopy]

Kept == <<remaining, current, lock_nest, arg, isr, freed>>

(* The queue q without the first slot of its free list.                    *)
Alloc(q) == [q EXCEPT !.free = q.next[q.free]]

Filled(q, n, v) == [q EXCEPT !.msg[n] = v]


LinkLast(q, n) ==
  [q EXCEPT !.next = IF q.tail = NULL THEN @ ELSE [@ EXCEPT ![q.tail] = n],
            !.tail = n,
            !.head = IF @ = NULL THEN n ELSE @,
            !.entry = @ + 1]

LinkFirst(q, n) ==
  [q EXCEPT !.next[n] = q.head,
            !.head = n,
            !.tail = IF @ = NULL THEN n ELSE @,
            !.entry = @ + 1]


Unlink(q) == [q EXCEPT !.head = q.next[q.head],
                       !.tail = IF @ = q.head THEN NULL ELSE @,
                       !.entry = @ - 1]

Released(q, n) == [q EXCEPT !.next[n] = q.free, !.free = n]
-----------------------------------------------------------------------------
(* send() and urgent(): a slot from the free list, the copy, the link.     *)

mq_send(t, o, v, op) ==
  /\ At(t, "run") /\ mq[o].free # NULL
  /\ copy' = [copy EXCEPT ![t] = [q |-> o, slot |-> mq[o].free, msg |-> v, timeout |-> 0]]
  /\ mq' = [mq EXCEPT ![o] = Alloc(@)]
  /\ Goto(t, op)
  /\ UNCHANGED <<rq, tcb, Kept, ipcvars, message>>

(* send() clears the link of the slot before it copies; urgent() does not. *)
mq_copy(t) ==
  LET c == copy[t] IN
  /\ pc[t] \in {"send", "urgent"} /\ At(t, pc[t])
  /\ mq' = [mq EXCEPT ![c.q] =
              IF pc[t] = "send" THEN [Filled(@, c.slot, c.msg) EXCEPT !.next[c.slot] = NULL]
              ELSE Filled(@, c.slot, c.msg)]
  /\ Goto(t, IF pc[t] = "send" THEN "last" ELSE "first")
  /\ UNCHANGED <<rq, tcb, Kept, ipcvars, copy, message>>

mq_link(t) ==
  LET c == copy[t] IN
  /\ pc[t] \in {"last", "first"} /\ At(t, pc[t])
  /\ mq' = [mq EXCEPT ![c.q] = IF pc[t] = "last" THEN LinkLast(@, c.slot)
                               ELSE LinkFirst(@, c.slot)]
  /\ Over(t)
  /\ SetKernel(list_resume(Kernel, c.q))
  /\ Finish(t, c.q)
  /\ UNCHANGED message

(* send() in an interrupt handler.                                         *)
mq_send_isr(o, v) ==
  LET k == list_resume(Kernel, o)
      n == mq[o].free IN
  /\ ~isr /\ n # NULL
  /\ mq' = [mq EXCEPT ![o] =
              LinkLast([Filled(Alloc(@), n, v) EXCEPT !.next[n] = NULL], n)]
  /\ SetKernel(k)
  /\ IF empty(rq.mem, SuspendList(o)) THEN UNCHANGED current ELSE process(k.rq)
  /\ UNCHANGED <<remaining, lock_nest, pc, arg, isr, freed, ipcvars, copy, message>>

(* recv(): waits while the queue is empty, takes the first slot, copies    *)
(* the message and gives the slot back.                                    *)
MqLoop(t, o, time) ==
  \/ /\ mq[o].entry = 0 /\ time # 0
     /\ SuspendOn(Kernel, t, o, time)
     /\ copy' = [copy EXCEPT ![t] = [NoCopy EXCEPT !.timeout = time]]
     /\ UNCHANGED <<mq, message>>
  \/ /\ mq[o].entry > 0
     /\ copy' = [copy EXCEPT ![t] = [NoCopy EXCEPT !.q = o, !.slot = mq[o].head]]
     /\ mq' = [mq EXCEPT ![o] = Unlink(@)]
     /\ waits' = [waits EXCEPT ![t] = NULL]
     /\ Goto(t, "read")
     /\ UNCHANGED <<rq, tcb, Kept, calls, message>>

mq_recv(t, o, time) == At(t, "run") /\ MqLoop(t, o, time)

mq_again(t, o) ==
  /\ At(t, "waited") /\ waits[t] = o
  /\ IF error[t] # "OK"
     THEN Fail(t, error[t]) /\ Over(t) /\ UNCHANGED <<mq, message>>
     ELSE \E time \in Rest(copy[t].timeout) :
            \/ /\ mq[o].entry = 0 /\ time = 0
               /\ Fail(t, "TIMEOUT") /\ Over(t) /\ UNCHANGED <<mq, message>>
            \/ MqLoop(t, o, time)

mq_read(t) ==
  /\ At(t, "read")
  /\ message' = [message EXCEPT ![t] = mq[copy[t].q].msg[copy[t].slot]]
  /\ Goto(t, "give")
  /\ UNCHANGED <<rq, tcb, Kept, ipcvars, mq, copy>>

mq_give(t) ==
  /\ At(t, "give")
  /\ mq' = [mq EXCEPT ![copy[t].q] = Released(@, copy[t].slot)]
  /\ Over(t)
  /\ Goto(t, "run")
  /\ UNCHANGED <<rq, tcb, Kept, ipcvars, message>>

(* control(CMD_RESET): the receivers fail, the slots in the queue are free.*)
mq_reset(t, o) ==
  LET drained[n \in 0..MaxMsgs] ==
        IF n = 0 THEN mq[o]
        ELSE LET q == drained[n - 1] IN
             IF q.head = NULL THEN q
             ELSE Released([Unlink(q) EXCEPT !.entry = 0], q.head)
  IN  /\ At(t, "run")
      /\ SetKernel(list_resume_all(Kernel, o))
      /\ mq' = [mq EXCEPT ![o] = [drained[MaxMsgs] EXCEPT !.entry = 0]]
      /\ Goto(t, "sched")
      /\ UNCHANGED <<Kept, ipcvars, copy, message>>

MessageQueueNext ==
  \/ \E t \in Thread : mq_copy(t) \/ mq_link(t) \/ mq_read(t) \/ mq_give(t)
  \/ \E o \in Queues, v \in Message :
       \/ Makes(NULL, "send", o) /\ mq_send_isr(o, v)
       \/ \E t \in Thread, op \in {"send", "urgent"} :
            Makes(t, op, o) /\ mq_send(t, o, v, op)
  \/ \E t \in Thread, o \in Queues :
       \/ mq_again(t, o)
       \/ \E time \in Times(t, "recv", o) : mq_recv(t, o, time)
       \/ Makes(t, "reset", o) /\ mq_reset(t, o)
-----------------------------------------------------------------------------
(* The first n slots on the links from slot s.                             *)
Chain(q, s, n) ==
  LET at[k \in 1..n] == IF k = 1 THEN s
                        ELSE IF at[k - 1] = NULL THEN NULL ELSE q.next[at[k - 1]]
  IN  at

Held(o) == {copy[t].slot : t \in {t \in Thread : copy[t].q = o}}


(* A message queue is a bounded queue with a front door for urgent         *)
(* messages; a message is in it once it is linked, and what a receiver     *)
(* copies is what it took, although it copies with interrupts enabled.     *)
Messages == INSTANCE Fifo
  WITH Object <- Queues, Reader <- Thread, Value <- Message, NoValue <- NULL,
       Capacity <- MaxMsgs, urgent <- {o \in Queues : \E t \in Thread : Makes(t, "urgent", o)},
       got <- [t \in Thread |-> IF pc[t] = "read" THEN mq[copy[t].q].msg[copy[t].slot]
                                ELSE message[t]],
       queue <- [o \in Queues |-> [n \in 1..mq[o].entry |->
                                     mq[o].msg[Chain(mq[o], mq[o].head, n)[n]]]]


(* No receiver is suspended on a queue with a message in it.               *)
QueueWakes == \A o \in Queues : mq[o].entry > 0 => Waiting(o) = {}
=============================================================================
