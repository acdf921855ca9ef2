------------------------------ MODULE MailBox ------------------------------
(***************************************************************************)
(* Mailboxes: a ring of words with a list of waiting receivers and one of  *)
(* waiting senders.                                                        *)
(***************************************************************************)
EXTENDS Ipc, Sequences

CONSTANTS MailBoxes,      \* the IPC objects that are mailboxes
          Senders,        \* suspend_sender_thread_ of each mailbox
          Size,           \* size_
          Mail            \* the words in use

VARIABLES mb,             \* the ring: msg_pool_, entry_, in_offset_, out_offset_
          parcel,         \* the value and timeout of the call a thread waits in
          mail            \* the word received last (history)

mbvars == <<mb, parcel, mail>>

EmptyBox == [pool |-> [n \in 0..(Size - 1) |-> NULL], entry |-> 0, in |-> 0, out |-> 0]

NoParcel == [value |-> NULL, timeout |-> 0]

MailBoxInit == /\ mb = [o \in MailBoxes |-> EmptyBox]
               /\ parcel = [t \in Thread |-> NoParcel]
               /\ mail = NULL

Full(o) == mb[o].entry = Size
Wrap(n) == IF n + 1 >= Size THEN 0 ELSE n + 1

(* The call of t is over.                                                  *)
Done(t) == parcel' = [parcel EXCEPT ![t] = NoParcel]


Post(o, v) ==
  mb' = [mb EXCEPT ![o] = [pool  |-> [@.pool EXCEPT ![mb[o].in] = v],
                           entry |-> @.entry + 1, in |-> Wrap(@.in), out |-> @.out]]

(* The loop of send_wait(): wait while the mailbox is full, then put the   *)
(* value in and resume a receiver.                                         *)
SendLoop(t, o, v, time) ==
  \/ /\ Full(o) /\ time # 0
     /\ SuspendOn(Kernel, t, Senders[o], time)
     /\ parcel' = [parcel EXCEPT ![t] = [value |-> v, timeout |-> time]]
     /\ UNCHANGED <<mb, mail>>
  \/ /\ ~Full(o)
     /\ Post(o, v)
     /\ SetKernel(list_resume(Kernel, o))
     /\ Finish(t, o)
     /\ Done(t)
     /\ UNCHANGED mail

send_wait(t, o, v, time) == At(t, "run") /\ SendLoop(t, o, v, time)

(* send_wait() after process().                                            *)
send_again(t, o) ==
  /\ At(t, "waited") /\ waits[t] = Senders[o]
  /\ IF error[t] # "OK" THEN Fail(t, error[t]) /\ Done(t) /\ UNCHANGED <<mb, mail>>
     ELSE \E time \in Rest(parcel[t].timeout) :
            \/ Full(o) /\ time = 0 /\ Fail(t, "OK") /\ Done(t) /\ UNCHANGED <<mb, mail>>
            \/ SendLoop(t, o, parcel[t].value, time)

(* send() in an interrupt handler, its process() included.                 *)
send_isr(o, v) ==
  LET k == list_resume(Kernel, o) IN
  /\ ~isr /\ ~Full(o)
  /\ Post(o, v)
  /\ SetKernel(k)
  /\ IF empty(rq.mem, SuspendList(o)) THEN UNCHANGED current ELSE process(k.rq)
  /\ UNCHANGED <<remaining, lock_nest, pc, arg, isr, freed, ipcvars, parcel, mail>>

(* Mutant of RecvLoop: a sender is not resumed.                            *)
RecvLoop_silent(t, o, time) ==
  \/ /\ mb[o].entry = 0 /\ time # 0
     /\ SuspendOn(Kernel, t, o, time)
     /\ parcel' = [parcel EXCEPT ![t] = [value |-> NULL, timeout |-> time]]
     /\ UNCHANGED <<mb, mail>>
  \/ /\ mb[o].entry > 0
     /\ mail' = mb[o].pool[mb[o].out]
     /\ mb' = [mb EXCEPT ![o] = [@ EXCEPT !.out = Wrap(@), !.entry = @ - 1]]
     /\ SetKernel(Kernel)
     /\ Finish(t, Senders[o])
     /\ Done(t)

(* The loop of recv(): wait while the mailbox is empty, then take a value  *)
(* and resume a sender.                                                    *)
RecvLoop(t, o, time) ==
  \/ /\ mb[o].entry = 0 /\ time # 0
     /\ SuspendOn(Kernel, t, o, time)
     /\ parcel' = [parcel EXCEPT ![t] = [value |-> NULL, timeout |-> time]]
     /\ UNCHANGED <<mb, mail>>
  \/ /\ mb[o].entry > 0
     /\ mail' = mb[o].pool[mb[o].out]
     /\ mb' = [mb EXCEPT ![o] = [@ EXCEPT !.out = Wrap(@), !.entry = @ - 1]]
     /\ SetKernel(list_resume(Kernel, Senders[o]))
     /\ Finish(t, Senders[o])
     /\ Done(t)

recv(t, o, time) == At(t, "run") /\ RecvLoop(t, o, time)

recv_again(t, o) ==
  /\ At(t, "waited") /\ waits[t] = o
  /\ IF error[t] # "OK" THEN Fail(t, error[t]) /\ Done(t) /\ UNCHANGED <<mb, mail>>
     ELSE \E time \in Rest(parcel[t].timeout) :
            \/ /\ mb[o].entry = 0 /\ time = 0
               /\ Fail(t, "TIMEOUT") /\ Done(t) /\ UNCHANGED <<mb, mail>>
            \/ RecvLoop(t, o, time)

(* control(CMD_RESET): everybody fails and the ring is empty.              *)
mailbox_reset(t, o) ==
  /\ At(t, "run")
  /\ SetKernel(list_resume_all(list_resume_all(Kernel, o), Senders[o]))
  /\ mb' = [mb EXCEPT ![o] = [@ EXCEPT !.entry = 0, !.in = 0, !.out = 0]]
  /\ Goto(t, "sched")
  /\ UNCHANGED <<remaining, current, lock_nest, arg, isr, freed, ipcvars, parcel, mail>>

MailBoxNext ==
  \E o \in MailBoxes :
    \/ Makes(NULL, "send", o) /\ \E v \in Mail : send_isr(o, v)
    \/ \E t \in Thread :
         \/ send_again(t, o) \/ recv_again(t, o)
         \/ \E time \in Times(t, "send", o), v \in Mail : send_wait(t, o, v, time)
         \/ \E time \in Times(t, "recv", o) : recv(t, o, time)
         \/ Makes(t, "reset", o) /\ mailbox_reset(t, o)
-----------------------------------------------------------------------------
(* A mailbox is a bounded queue: words come out in the order they went in, *)
(* none twice and none lost, as the offsets wrap and whoever waits, fails, *)
(* is overtaken by a caller that need not wait, or resets it.              *)
MailQueue == INSTANCE Fifo
  WITH Object <- MailBoxes, Reader <- {"any"}, Value <- Mail, NoValue <- NULL,
       Capacity <- Size, got <- [t \in {"any"} |-> mail], urgent <- {},
       queue <- [o \in MailBoxes |-> [n \in 1..mb[o].entry |->
                                        mb[o].pool[(mb[o].out + n - 1) % Size]]]


(* Nobody waits for what is there: no receiver is suspended on a mailbox   *)
(* with mail, and no sender on one with room.                              *)
MailboxWakes == \A o \in MailBoxes : /\ mb[o].entry > 0 => Waiting(o) = {}
                                     /\ ~Full(o) => Waiting(Senders[o]) = {}
=============================================================================
